------------------------------- MODULE ScriptRun -------------------------------
(***************************************************************************)
(* What successive executions do inside one container of the pool.  They   *)
(* share the directory /code: the code is copied there, a script runs it   *)
(* with its output in result.json and leaves execution_complete.flag, and  *)
(* the executor polls for both files and reads the result.                 *)
(*                                                                         *)
(* The files are removed twice: by a script that is started when the       *)
(* result has been read and waited for by nobody, and by the reset when    *)
(* the container is returned.                                              *)
(***************************************************************************)
EXTENDS Naturals, FiniteSets

CONSTANTS
  Runs,          \* executions that are given the container
  MaxRunErrors   \* bound on errors of Docker, the code and cancellations

ASSUME ScriptRunAssumption == MaxRunErrors \in Nat

NoRun == "none"     \* no file, no code
Stdout == "stdout" \* what the script wrote to its standard output: nothing

VARIABLES
  at,        \* per run: where its execution is
  script,    \* per run: its script in the container
  ran,       \* per run: the code its script read
  output,    \* per run: what the executor takes for its output
  wipe,      \* per run: the next file its clean-up script removes, 0 none
  code,      \* whose code is in /code
  result,    \* whose script created result.json, or NoRun
  written,   \* whether that script wrote all of it
  flag,      \* whether execution_complete.flag exists
  inPool,    \* the container is in the pool's map
  entries,   \* entries of the container in the ready queue
  mixed,     \* history: the container was given away while another run used it,
             \* or after it had been marked as failed
  runErrors

scriptVars == <<at, script, ran, output, wipe, code, result, written, flag, inPool, entries,
                mixed, runErrors>>

Places == {"waiting", "given", "copied", "prepared", "polling", "reading", "failing",
           "returning", "done"}
Inside == {"given", "copied", "prepared", "polling", "reading", "failing", "returning"}
FileNo == 1..3     \* code, result.json, the flag: in the order of the script

\* A container made by initialize is put into the queue once or twice.
ScriptInit ==
  /\ at = [r \in Runs |-> "waiting"]
  /\ script = [r \in Runs |-> "none"]
  /\ ran = [r \in Runs |-> NoRun]
  /\ output = [r \in Runs |-> NoRun]
  /\ wipe = [r \in Runs |-> 0]
  /\ code = NoRun /\ result = NoRun /\ written = FALSE /\ flag = FALSE
  /\ inPool = TRUE
  /\ entries \in 1..2
  /\ mixed = FALSE
  /\ runErrors = 0

files == <<code, result, written, flag>>
Move(r, p) == at' = [at EXCEPT ![r] = p]
RunError == runErrors < MaxRunErrors /\ runErrors' = runErrors + 1
Busy == {r \in Runs : at[r] \in Inside \/ script[r] = "running"}

\* getContainer takes an entry of the ready queue.
GiveContainer(r) ==
  /\ at[r] = "waiting" /\ entries > 0
  /\ entries' = entries - 1
  /\ mixed' = (mixed \/ Busy # {} \/ ~inPool)
  /\ Move(r, "given")
  /\ UNCHANGED <<script, ran, output, wipe, files, inPool, runErrors>>

\* copyFileToContainerOptimized
CopyCode(r) ==
  /\ at[r] = "given"
  /\ code' = r
  /\ Move(r, "copied")
  /\ UNCHANGED <<script, ran, output, wipe, result, written, flag, inPool, entries, mixed, runErrors>>

\* runSetupScript; go mod tidy and npm install need the code only to find what
\* it imports.
SetUp(r) ==
  /\ at[r] = "copied"
  /\ Move(r, "prepared")
  /\ UNCHANGED <<script, ran, output, wipe, files, inPool, entries, mixed, runErrors>>

\* Copying, preparing or starting fails: no result at all.
SetUpFails(r) ==
  /\ at[r] \in {"given", "copied", "prepared"} /\ RunError
  /\ Move(r, "failing")
  /\ UNCHANGED <<script, ran, output, wipe, files, inPool, entries, mixed>>

\* runExecutionScript: the shell creates result.json, then the code is read.
StartScript(r) ==
  /\ at[r] = "prepared"
  /\ script' = [script EXCEPT ![r] = "running"]
  /\ ran' = [ran EXCEPT ![r] = code]
  /\ result' = r /\ written' = FALSE
  /\ Move(r, "polling")
  /\ UNCHANGED <<output, wipe, code, flag, inPool, entries, mixed, runErrors>>

\* The code ends.  Its output is in result.json if that is still the file of
\* this script; without code, or when the code fails, `set -e` ends the script
\* before the flag is written.
ScriptEnds(r) ==
  /\ script[r] = "running"
  /\ script' = [script EXCEPT ![r] = "ended"]
  /\ written' = (written \/ result = r)
  /\ \/ ran[r] # NoRun /\ flag' = TRUE /\ UNCHANGED runErrors
     \/ ran[r] = NoRun /\ UNCHANGED <<flag, runErrors>>
     \/ RunError /\ UNCHANGED flag
  /\ UNCHANGED <<at, ran, output, wipe, code, result, inPool, entries, mixed>>

\* checkExecutionComplete: both files are there.
SeeComplete(r) ==
  /\ at[r] = "polling" /\ result # NoRun /\ flag
  /\ Move(r, "reading")
  /\ UNCHANGED <<script, ran, output, wipe, files, inPool, entries, mixed, runErrors>>

\* readResultFile, or the collected standard output when that fails; the
\* clean-up script is started in the background.
ReadResult(r) ==
  /\ at[r] = "reading"
  /\ \/ /\ result # NoRun
        /\ output' = [output EXCEPT ![r] =
                        IF written /\ ran[result] # NoRun THEN ran[result] ELSE "partial"]
        /\ UNCHANGED runErrors
     \/ /\ IF result # NoRun THEN RunError ELSE UNCHANGED runErrors
        /\ output' = [output EXCEPT ![r] = Stdout]
  /\ wipe' = [wipe EXCEPT ![r] = 1]
  /\ Move(r, "returning")
  /\ UNCHANGED <<script, ran, files, inPool, entries, mixed>>

\* 60 s without the two files, or the context is cancelled: no success, and the
\* script is left running.
GiveUpPolling(r) ==
  /\ at[r] = "polling"
  /\ IF script[r] = "ended" /\ ~flag THEN UNCHANGED runErrors ELSE RunError
  /\ wipe' = [wipe EXCEPT ![r] = 1]
  /\ Move(r, "failing")
  /\ UNCHANGED <<script, ran, output, files, inPool, entries, mixed>>

\* MarkContainerAsFailed: out of the map; the queue keeps its entries.
LeavePool(r) ==
  /\ at[r] = "failing"
  /\ inPool' = FALSE
  /\ Move(r, "returning")
  /\ UNCHANGED <<script, ran, output, wipe, files, entries, mixed, runErrors>>

\* runCleanupScript goes through the files.
WipeFile(r) ==
  /\ wipe[r] \in FileNo
  /\ wipe' = [wipe EXCEPT ![r] = IF @ = 3 THEN 0 ELSE @ + 1]
  /\ code' = IF wipe[r] = 1 THEN NoRun ELSE code
  /\ result' = IF wipe[r] = 2 THEN NoRun ELSE result
  /\ written' = (written /\ wipe[r] # 2)
  /\ flag' = (flag /\ wipe[r] # 3)
  /\ UNCHANGED <<at, script, ran, output, inPool, entries, mixed, runErrors>>

(* A faulty variant: the reset leaves the flag.                            *)
ReturnKeepsFlag(r) ==
  /\ at[r] = "returning"
  /\ IF inPool THEN code' = NoRun /\ result' = NoRun /\ written' = FALSE /\ entries' = entries + 1
               ELSE UNCHANGED <<code, result, written, entries>>
  /\ Move(r, "done")
  /\ UNCHANGED <<script, ran, output, wipe, flag, inPool, mixed, runErrors>>

\* The deferred ReturnContainer: a container of the map is reset, waiting for
\* the script, and put into the queue.
ResetAndReturn(r) ==
  /\ at[r] = "returning"
  /\ IF inPool THEN code' = NoRun /\ result' = NoRun /\ written' = FALSE /\ flag' = FALSE
                    /\ entries' = entries + 1
               ELSE UNCHANGED <<files, entries>>
  /\ Move(r, "done")
  /\ UNCHANGED <<script, ran, output, wipe, inPool, mixed, runErrors>>

ScriptNext ==
  \E r \in Runs :
    \/ GiveContainer(r) \/ CopyCode(r) \/ SetUp(r) \/ SetUpFails(r) \/ StartScript(r)
    \/ ScriptEnds(r) \/ SeeComplete(r) \/ ReadResult(r) \/ GiveUpPolling(r) \/ LeavePool(r)
    \/ WipeFile(r) \/ ResetAndReturn(r)

ScriptSpec == ScriptInit /\ [][ScriptNext]_scriptVars

-----------------------------------------------------------------------------
\* The variables have the shapes declared above.
ScriptTypeOK ==
  /\ at \in [Runs -> Places]
  /\ script \in [Runs -> {"none", "running", "ended"}]
  /\ ran \in [Runs -> Runs \cup {NoRun}]
  /\ output \in [Runs -> Runs \cup {NoRun, Stdout, "partial"}]
  /\ wipe \in [Runs -> 0..3]
  /\ code \in Runs \cup {NoRun} /\ result \in Runs \cup {NoRun}
  /\ written \in BOOLEAN /\ flag \in BOOLEAN /\ inPool \in BOOLEAN
  /\ entries \in 0..(Cardinality(Runs) + 2)
  /\ mixed \in BOOLEAN
  /\ runErrors \in 0..MaxRunErrors

\* Whatever a clean-up script of an earlier execution removes meanwhile: an
\* execution that succeeds outputs what its own code wrote, or nothing; never a
\* part of it, and never the output of the execution before it.  That is lost
\* only by a second entry in the queue: once two executions had the container
\* at a time, or one was given it after it had been marked as failed.
OutputIsOwn ==
  mixed \/ \A r \in Runs : output[r] \in {NoRun, Stdout, r}
=============================================================================
