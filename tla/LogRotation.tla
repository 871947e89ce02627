---------------------------- MODULE LogRotation ----------------------------
(***************************************************************************)
(* The log files of a service (pkg/logging).  A process writes to the file *)
(* of the day on which it started and keeps on writing to it on later days; *)
(* a process that starts again on that day goes on with the same file.     *)
(* When the next line would make the file too large it is renamed to a     *)
(* numbered one, and the numbered files beyond a number and those beyond an *)
(* age are removed.  Writes are ordered by a mutex.                        *)
(*                                                                         *)
(* A line is a number and takes one unit of space; a write that fails may  *)
(* leave a part of its line.                                               *)
(***************************************************************************)
EXTENDS Integers, Sequences, FiniteSets, SequencesExt, FiniteSetsExt

CONSTANTS
  MaxSize,      \* lines that fit into a file
  MaxBackups,   \* numbered files that are kept, 0 for all
  MaxAge,       \* days that they are kept, 0 for ever
  MaxLines,     \* bounds the lines written
  MaxDays,      \* bounds the days
  MaxRestarts,  \* bounds the starts on the first day
  MaxDiskFaults \* bounds the calls to the file system that fail

ASSUME RotationAssumption ==
  /\ MaxSize \in Nat \ {0}
  /\ {MaxBackups, MaxAge, MaxLines, MaxDays, MaxRestarts, MaxDiskFaults} \subseteq Nat

Torn == 0  \* what is left of a line whose write failed
NoFile == [there |-> FALSE, lines |-> << >>, day |-> 0]

VARIABLES
  numbered,    \* the numbered files: a function from their numbers to files
  currentFile, \* the file that is written to
  rotator,     \* [file, size]: "none", "open" or "broken", and the size it counts
  day,
  written,     \* history: the lines whose write succeeded
  stuck,       \* history: numbered files that could not be removed
  offered,     \* the number of lines offered so far
  restarts,
  diskFaults

logVars == <<numbered, currentFile, rotator, day, written, stuck, offered, restarts,
             diskFaults>>

Numbers == DOMAIN numbered

RotationInit ==
  /\ numbered = << >>
  /\ currentFile = NoFile
  /\ rotator = [file |-> "none", size |-> 0]
  /\ day = 1
  /\ written = {}
  /\ stuck = {}
  /\ offered = 0
  /\ restarts = 0
  /\ diskFaults = 0

-----------------------------------------------------------------------------
(* rotate, on [numbered, current]: what the file system holds.             *)

(* A faulty variant: the numbered files are counted.                       *)
NumberByCount(files) == Cardinality(DOMAIN files) + 1

\* The number after the largest.
getNextSequenceNumber(files) == Max(DOMAIN files \cup {0}) + 1

\* The newest by number are kept, and of them those last written to recently;
\* a file whose removal fails stays.
cleanupOldFiles(files, failing) ==
  LET newer(n) == Cardinality({m \in DOMAIN files : m > n})
      surplus == {n \in DOMAIN files : MaxBackups > 0 /\ newer(n) >= MaxBackups}
      old == {n \in DOMAIN files : MaxAge > 0 /\ files[n].day < day - MaxAge}
  IN  [n \in DOMAIN files \ ((surplus \cup old) \ failing) |-> files[n]]

\* The file that openFile finds, or makes.
Opened(f) == IF f.there THEN f ELSE [NoFile EXCEPT !.there = TRUE, !.day = day]

\* The file on which the line is written, when nothing fails.
Add(f, n) == [f EXCEPT !.lines = Append(@, n), !.day = day]

-----------------------------------------------------------------------------
(* Write opens the file if none is open, rotates if the line does not fit  *)
(* and writes; every step may fail, and the line is given up then, but for *)
(* a removal.                                                              *)

Spend == diskFaults < MaxDiskFaults /\ diskFaults' = diskFaults + 1

\* openFile takes the size from the file.
SizeOf(r, f) == IF r.file = "none" THEN Len(Opened(f).lines) ELSE r.size
MustRotate == SizeOf(rotator, currentFile) + 1 > MaxSize

Offer ==
  /\ offered < MaxLines
  /\ offered' = offered + 1
  /\ UNCHANGED <<day, restarts>>

WriteLine ==
  /\ rotator.file # "broken" /\ ~MustRotate
  /\ Offer
  /\ \/ /\ currentFile' = Add(Opened(currentFile), offered')
        /\ written' = written \cup {offered'}
        /\ rotator' = [file |-> "open", size |-> SizeOf(rotator, currentFile) + 1]
        /\ UNCHANGED diskFaults
     \/ /\ Spend   \* the write fails, at once or half way
        /\ \/ /\ currentFile' = Opened(currentFile)
              /\ rotator' = [file |-> "open", size |-> SizeOf(rotator, currentFile)]
           \/ /\ currentFile' = Add(Opened(currentFile), Torn)
              /\ rotator' = [file |-> "open", size |-> SizeOf(rotator, currentFile) + 1]
        /\ UNCHANGED written
  /\ UNCHANGED <<numbered, stuck>>

\* The file cannot be opened: the next line is tried again.
OpenFails ==
  /\ rotator.file = "none" /\ Spend
  /\ Offer
  /\ UNCHANGED <<numbered, currentFile, rotator, written, stuck>>

RotateAndWrite ==
  /\ rotator.file # "broken" /\ MustRotate
  /\ Offer
  /\ \E failing \in SUBSET (Numbers \cup {getNextSequenceNumber(numbered)}), opens \in BOOLEAN :
       LET n == getNextSequenceNumber(numbered)
           renamed == [m \in Numbers \cup {n} |-> IF m = n THEN Opened(currentFile) ELSE numbered[m]]
       IN  /\ IF failing = {} /\ opens THEN UNCHANGED diskFaults ELSE Spend
           /\ numbered' = cleanupOldFiles(renamed, failing)
           /\ stuck' = (stuck \cap DOMAIN numbered')
                        \cup (DOMAIN numbered' \ DOMAIN cleanupOldFiles(renamed, {}))
           /\ IF opens
              THEN /\ currentFile' = Add(Opened(NoFile), offered')
                   /\ written' = written \cup {offered'}
                   /\ rotator' = [file |-> "open", size |-> 1]
              ELSE /\ currentFile' = NoFile
                   /\ rotator' = [file |-> "none", size |-> 0]
                   /\ UNCHANGED written

\* The file cannot be renamed: it is opened again for the next line.
RenameFails ==
  /\ rotator.file # "broken" /\ MustRotate /\ Spend
  /\ Offer
  /\ currentFile' = Opened(currentFile)
  /\ rotator' = [rotator EXCEPT !.file = "none"]
  /\ UNCHANGED <<numbered, written, stuck>>

\* The file cannot be closed: it stays in r.file, and closing it fails again for
\* every later line.
CloseFails ==
  /\ MustRotate
  /\ Offer
  /\ \/ rotator.file = "open" /\ Spend
     \/ rotator.file = "broken" /\ UNCHANGED diskFaults
  /\ rotator' = [rotator EXCEPT !.file = "broken"]
  /\ UNCHANGED <<numbered, currentFile, written, stuck>>

\* The process ends and another one starts, the same day.
StartAgain ==
  /\ restarts < MaxRestarts /\ day = 1
  /\ restarts' = restarts + 1
  /\ rotator' = [file |-> "none", size |-> 0]
  /\ UNCHANGED <<numbered, currentFile, day, written, stuck, offered, diskFaults>>

DayPasses ==
  /\ day < MaxDays
  /\ day' = day + 1
  /\ UNCHANGED <<numbered, currentFile, rotator, written, stuck, offered, restarts, diskFaults>>

RotationNext ==
  \/ WriteLine \/ OpenFails \/ RotateAndWrite \/ RenameFails \/ CloseFails
  \/ StartAgain \/ DayPasses

-----------------------------------------------------------------------------

LogTypeOK ==
  /\ rotator.file \in {"none", "open", "broken"}
  /\ Len(currentFile.lines) <= MaxSize
  /\ \A n \in Numbers : numbered[n].there
  /\ offered \in 0..MaxLines /\ day \in 1..MaxDays

RotationSpec == RotationInit /\ [][RotationNext]_logVars

Lines(f) == ToSet(f.lines) \ {Torn}
Kept == Numbers \ stuck
KeptLines == (UNION {Lines(numbered[n]) : n \in Kept}) \cup Lines(currentFile)

InOrder(f) ==
  \A i, j \in DOMAIN f.lines :
    i < j /\ f.lines[i] # Torn /\ f.lines[j] # Torn => f.lines[i] < f.lines[j]
Precedes(f, g) == \A k \in Lines(f), l \in Lines(g) : k < l

(* Only the oldest lines are ever lost: the files, by their numbers and then *)
(* the one that is written to, hold the last of the lines whose write      *)
(* succeeded, each once and in order, across failed rotations and restarts. *)
(* A file that should have gone and could not be removed is left aside.    *)
KeptIsNewest ==
  /\ InOrder(currentFile)
  /\ \A n \in Kept :
       /\ InOrder(numbered[n]) /\ Precedes(numbered[n], currentFile)
       /\ \A m \in Kept : n < m => Precedes(numbered[n], numbered[m])
  /\ KeptLines \subseteq written
  /\ \A lost \in written \ KeptLines : \A line \in KeptLines : lost < line
=============================================================================
