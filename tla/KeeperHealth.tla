------------------------------ MODULE KeeperHealth ------------------------------
(***************************************************************************)
(* The health service (internal/health).  Keepers check in every minute;   *)
(* the service keeps in memory which of them are active and in the         *)
(* database which are online.  Three kinds of goroutine write a keeper's   *)
(* row: the handler of a check-in and DumpState, which hold the lock of    *)
(* the state manager through all their database calls, and the sweep for   *)
(* inactive keepers, which lets it go before its first one.                *)
(*                                                                         *)
(* Each write is UpdateKeeperHealth of the DatabaseManager: read the row,  *)
(* add to its uptime if it was online, set its status.  The value of the   *)
(* uptime, and what else the row says of a keeper, is left out.            *)
(***************************************************************************)
EXTENDS Naturals, FiniteSets

CONSTANTS
  Keepers,
  MaxRetries,   \* maxRetries
  MaxCheckIns,  \* bound: check-ins of each keeper
  MaxFaults,    \* bound: database calls that fail, and crashes
  MaxRestarts   \* bound

ASSUME KeeperHealthAssumption ==
  /\ MaxRetries \in Nat \ {0}
  /\ MaxCheckIns \in [Keepers -> Nat]
  /\ MaxFaults \in Nat /\ MaxRestarts \in Nat

(* Who writes rows: the handler of a keeper's check-in, the sweep, and     *)
(* main, in DumpState.                                                     *)
Handler(k) == <<"handler", k>>
Handlers == {Handler(k) : k \in Keepers}
Sweep == <<"sweep">>
Main == <<"main">>
Writers == Handlers \cup {Sweep, Main}
Free == <<"free">>
Nobody == <<"nobody">>

VARIABLES
  mu,
  keepers,    \* keys of the map
  active,     \* keepers with IsActive
  silent,     \* keepers whose LastCheckedIn is more than 70 s ago
  verified,   \* rows that are registered and whitelisted
  online,     \* rows with online = true
  hpc,        \* check-in of a keeper: "idle", "lock", "update"
  todo,       \* of the sweep, of main: keepers they have still to write
  wpc,        \* writer: "idle", "read", "uptime", "status", "failed", "ok"
  target,     \* writer: the keeper whose row it writes, or Nobody
  tries,      \* writer: attempts that failed
  down,       \* "no", "signal", "dump", "dumped", "closing", "exited"
  checkins, faults, restarts,
  astray      \* history: keepers whose row may disagree with memory

memory == <<keepers, active, silent>>
rows == <<verified, online>>
writers == <<wpc, target, tries>>
bounds == <<checkins, faults, restarts>>
vars == <<mu, memory, rows, hpc, todo, writers, down, bounds, astray>>

Up == down # "exited"
Serving == down \in {"no", "signal", "dump", "dumped"}
Fault == faults < MaxFaults /\ faults' = faults + 1

-----------------------------------------------------------------------------
(* UpdateKeeperHealth of the DatabaseManager, for any writer.              *)

(* The keeper is to be online when a check-in writes it.                   *)
ToOnline(p) == p \in Handlers

Begin(p, k) ==
  /\ wpc' = [wpc EXCEPT ![p] = "read"]
  /\ target' = [target EXCEPT ![p] = k]
  /\ UNCHANGED tries

(* An attempt fails: retryWithBackoff makes another, the sweep does not.   *)
Fails(p) ==
  /\ Fault
  /\ tries' = [tries EXCEPT ![p] = @ + 1]
  /\ wpc' = [wpc EXCEPT ![p] =
                IF p # Sweep /\ tries[p] + 1 < MaxRetries THEN "read" ELSE "failed"]

ReadRow(p) ==
  /\ Up
  /\ wpc[p] = "read"
  /\ \/ /\ wpc' = [wpc EXCEPT ![p] = IF target[p] \in online THEN "uptime" ELSE "status"]
        /\ UNCHANGED <<tries, faults>>
     \/ Fails(p)
  /\ UNCHANGED <<mu, memory, rows, hpc, todo, target, down, checkins, restarts, astray>>

WriteUptime(p) ==
  /\ Up
  /\ wpc[p] = "uptime"
  /\ \/ /\ wpc' = [wpc EXCEPT ![p] = "status"]
        /\ UNCHANGED <<tries, faults>>
     \/ Fails(p)
  /\ UNCHANGED <<mu, memory, rows, hpc, todo, target, down, checkins, restarts, astray>>

(* The answer to a write may be lost when the write was done.  "Offline",  *)
(* written for a keeper that is active in memory, leaves its row astray;   *)
(* the next check-in that is written mends it.                             *)
SetStatus(p) ==
  online' = IF ToOnline(p) THEN online \cup {target[p]} ELSE online \ {target[p]}

WriteStatus(p) ==
  /\ Up
  /\ wpc[p] = "status"
  /\ \/ /\ SetStatus(p)
        /\ wpc' = [wpc EXCEPT ![p] = "ok"]
        /\ UNCHANGED <<tries, faults>>
     \/ /\ Fails(p)
        /\ SetStatus(p) \/ UNCHANGED online
  /\ astray' = IF ToOnline(p) /\ wpc'[p] = "ok" THEN astray \ {target[p]}
               ELSE IF ToOnline(p) THEN astray
               ELSE astray \cup ({target[p]} \cap active)
  /\ UNCHANGED <<mu, memory, verified, hpc, todo, target, down, checkins, restarts>>

(* The writer is done with the row; one that gave up leaves it astray.     *)
End(p) ==
  /\ wpc[p] \in {"ok", "failed"}
  /\ wpc' = [wpc EXCEPT ![p] = "idle"]
  /\ target' = [target EXCEPT ![p] = Nobody]
  /\ tries' = [tries EXCEPT ![p] = 0]
  /\ astray' = IF wpc[p] = "failed" THEN astray \cup {target[p]} ELSE astray

-----------------------------------------------------------------------------
(* HandleCheckInEvent and UpdateKeeperHealth of the StateManager.          *)

CheckIn(k) ==
  /\ Serving
  /\ hpc[k] = "idle"
  /\ checkins[k] < MaxCheckIns[k]
  /\ checkins' = [checkins EXCEPT ![k] = @ + 1]
  /\ hpc' = [hpc EXCEPT ![k] = "lock"]
  /\ UNCHANGED <<mu, memory, rows, todo, writers, down, faults, restarts, astray>>

(* A faulty variant: the lock does not cover the database calls.           *)
CheckInUnlocks(k) ==
  /\ Up
  /\ hpc[k] = "lock"
  /\ mu = Free
  /\ \/ /\ k \in keepers
        /\ hpc' = [hpc EXCEPT ![k] = "update"]
        /\ active' = active \cup {k}
        /\ silent' = silent \ {k}
        /\ Begin(Handler(k), k)
     \/ /\ k \notin keepers
        /\ hpc' = [hpc EXCEPT ![k] = "idle"]
        /\ UNCHANGED <<active, silent, writers>>
  /\ UNCHANGED <<mu, keepers, rows, todo, down, bounds, astray>>

CheckInUpdate(k) ==
  /\ Up
  /\ hpc[k] = "lock"
  /\ mu = Free
  /\ \/ /\ k \in keepers
        /\ mu' = Handler(k)
        /\ hpc' = [hpc EXCEPT ![k] = "update"]
        /\ active' = active \cup {k}
        /\ silent' = silent \ {k}
        /\ Begin(Handler(k), k)
     \/ /\ k \notin keepers
        /\ hpc' = [hpc EXCEPT ![k] = "idle"]
        /\ UNCHANGED <<mu, active, silent, writers>>
  /\ UNCHANGED <<keepers, rows, todo, down, bounds, astray>>

CheckInReturns(k) ==
  /\ Up
  /\ hpc[k] = "update"
  /\ End(Handler(k))
  /\ mu' = Free
  /\ hpc' = [hpc EXCEPT ![k] = "idle"]
  /\ UNCHANGED <<memory, rows, todo, down, bounds>>

-----------------------------------------------------------------------------
(* checkInactiveKeepers, every 5 s.                                        *)

Silence(k) ==
  /\ Up
  /\ k \in keepers \ silent
  /\ silent' = silent \cup {k}
  /\ UNCHANGED <<mu, keepers, active, rows, hpc, todo, writers, down, bounds, astray>>

(* A faulty variant: one keeper of those marked is written.                *)
SweepMarksMore ==
  /\ Up
  /\ todo[Sweep] = {} /\ wpc[Sweep] = "idle"
  /\ mu = Free
  /\ \E k \in active \cap silent : todo' = [todo EXCEPT ![Sweep] = {k}]
  /\ active' = active \ silent
  /\ UNCHANGED <<mu, keepers, silent, rows, hpc, writers, down, bounds, astray>>

(* The marking in memory, under the lock.                                  *)
SweepMark ==
  /\ Up
  /\ todo[Sweep] = {} /\ wpc[Sweep] = "idle"
  /\ mu = Free
  /\ active \cap silent # {}
  /\ todo' = [todo EXCEPT ![Sweep] = active \cap silent]
  /\ active' = active \ silent
  /\ UNCHANGED <<mu, keepers, silent, rows, hpc, writers, down, bounds, astray>>

(* A row that is to be written, by the sweep or by DumpState.              *)
NextRow(p) ==
  /\ Up
  /\ wpc[p] = "idle"
  /\ \E k \in todo[p] :
       /\ Begin(p, k)
       /\ todo' = [todo EXCEPT ![p] = @ \ {k}]
  /\ UNCHANGED <<mu, memory, rows, hpc, down, bounds, astray>>

RowWritten(p) ==
  /\ Up
  /\ End(p)
  /\ UNCHANGED <<mu, memory, rows, hpc, todo, down, bounds>>

-----------------------------------------------------------------------------
(* main.                                                                   *)

Verify(k) ==
  /\ k \notin verified
  /\ verified' = verified \cup {k}
  /\ UNCHANGED <<mu, memory, online, hpc, todo, writers, down, bounds, astray>>

Signal ==
  /\ down = "no"
  /\ down' = "signal"
  /\ UNCHANGED <<mu, memory, rows, hpc, todo, writers, bounds, astray>>

(* DumpState; the HTTP server still serves.                                *)
DumpState ==
  /\ down = "signal"
  /\ mu = Free
  /\ mu' = Main
  /\ todo' = [todo EXCEPT ![Main] = active]
  /\ down' = "dump"
  /\ UNCHANGED <<memory, rows, hpc, writers, bounds, astray>>

DumpReturns ==
  /\ down = "dump"
  /\ todo[Main] = {} /\ wpc[Main] = "idle"
  /\ mu' = Free
  /\ down' = "dumped"
  /\ UNCHANGED <<memory, rows, hpc, todo, writers, bounds, astray>>

(* srv.Shutdown takes no more requests and waits for those that run, until *)
(* a deadline.                                                             *)
CloseServer ==
  /\ down = "dumped"
  /\ down' = "closing"
  /\ UNCHANGED <<mu, memory, rows, hpc, todo, writers, bounds, astray>>

(* The process ends; what it was doing to a row may be left half done.     *)
Ends ==
  /\ down' = "exited"
  /\ mu' = Free
  /\ keepers' = {} /\ active' = {} /\ silent' = {}
  /\ hpc' = [k \in Keepers |-> "idle"]
  /\ todo' = [p \in {Sweep, Main} |-> {}]
  /\ wpc' = [p \in Writers |-> "idle"]
  /\ target' = [p \in Writers |-> Nobody]
  /\ tries' = [p \in Writers |-> 0]
  /\ UNCHANGED <<rows, checkins, restarts, astray>>

Exit == down = "closing" /\ Ends /\ UNCHANGED faults

Crash == Up /\ Fault /\ Ends

(* LoadVerifiedKeepers; when it fails the map stays empty.  No keeper is   *)
(* active, whatever its row says.                                          *)
Start ==
  /\ down = "exited"
  /\ restarts < MaxRestarts
  /\ restarts' = restarts + 1
  /\ down' = "no"
  /\ \/ keepers' = verified /\ UNCHANGED faults
     \/ keepers' = {} /\ Fault
  /\ astray' = online
  /\ UNCHANGED <<mu, active, silent, rows, hpc, todo, writers, checkins>>

-----------------------------------------------------------------------------
Init ==
  /\ mu = Free
  /\ verified \in SUBSET Keepers
  /\ keepers = verified
  /\ active = {} /\ silent = {}
  /\ online = {}
  /\ hpc = [k \in Keepers |-> "idle"]
  /\ todo = [p \in {Sweep, Main} |-> {}]
  /\ wpc = [p \in Writers |-> "idle"]
  /\ target = [p \in Writers |-> Nobody]
  /\ tries = [p \in Writers |-> 0]
  /\ down = "no"
  /\ checkins = [k \in Keepers |-> 0]
  /\ faults = 0
  /\ restarts = 0
  /\ astray = {}

CallOf(p) == ReadRow(p) \/ WriteUptime(p) \/ WriteStatus(p)
HandlerStep(k) == CheckInUpdate(k) \/ CallOf(Handler(k)) \/ CheckInReturns(k)
SweepStep == SweepMark \/ NextRow(Sweep) \/ CallOf(Sweep) \/ RowWritten(Sweep)
MainStep ==
  \/ DumpState \/ NextRow(Main) \/ CallOf(Main) \/ RowWritten(Main)
  \/ DumpReturns \/ CloseServer \/ Exit

Next ==
  \/ \E k \in Keepers : CheckIn(k) \/ HandlerStep(k) \/ Silence(k) \/ Verify(k)
  \/ SweepStep
  \/ Signal \/ MainStep
  \/ Crash \/ Start

Spec == Init /\ [][Next]_vars

(***************************************************************************)
(* Goroutines run, database calls return, the ticker of the sweep fires,   *)
(* and a sync.RWMutex starves nobody who waits for it.  Check-ins,         *)
(* silence, signals, crashes and restarts need never come.                 *)
(***************************************************************************)
Fairness ==
  /\ \A k \in Keepers : SF_vars(HandlerStep(k))
  /\ SF_vars(SweepStep)
  /\ SF_vars(MainStep)

FairSpec == Spec /\ Fairness

-----------------------------------------------------------------------------
TypeOK ==
  /\ mu \in Handlers \cup {Main, Free}
  /\ keepers \subseteq verified
  /\ active \subseteq keepers
  /\ silent \subseteq keepers
  /\ verified \subseteq Keepers
  /\ online \subseteq verified
  /\ hpc \in [Keepers -> {"idle", "lock", "update"}]
  /\ todo \in [{Sweep, Main} -> SUBSET Keepers]
  /\ wpc \in [Writers -> {"idle", "read", "uptime", "status", "ok", "failed"}]
  /\ target \in [Writers -> Keepers \cup {Nobody}]
  /\ tries \in [Writers -> 0 .. MaxRetries]
  /\ down \in {"no", "signal", "dump", "dumped", "closing", "exited"}
  /\ \A k \in Keepers : checkins[k] \in 0 .. MaxCheckIns[k]
  /\ faults \in 0 .. MaxFaults
  /\ restarts \in 0 .. MaxRestarts
  /\ astray \subseteq Keepers

(* The row of a keeper is about to be written, or is being written.        *)
Pending(k) ==
  \/ \E p \in {Sweep, Main} : k \in todo[p]
  \/ \E p \in Writers : wpc[p] # "idle" /\ target[p] = k

(* Memory and database agree on who is active, however check-ins, sweeps   *)
(* and the dump interleave, unless a write failed for good or the service  *)
(* was restarted, or "offline" was written over a check-in, by a sweep     *)
(* that had seen the keeper before it (cleanup.go:45, after the unlock) or *)
(* by the dump; and the next check-in that is written ends each exception. *)
StatusAgrees ==
  \A k \in keepers :
    ~Pending(k) /\ k \notin astray => (k \in active <=> k \in online)

(* A keeper that is silent for 70 s goes offline, in the database too.     *)
SilentGoesOffline ==
  \A k \in Keepers :
    k \in active \cap silent ~>
      (k \notin active /\ k \notin online) \/ k \notin silent \/ k \in astray \/ down # "no"

===============================================================================
