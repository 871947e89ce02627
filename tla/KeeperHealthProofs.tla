--------------------------- MODULE KeeperHealthProofs ---------------------------
(***************************************************************************)
(* Memory and database of the health service agree, for every set of       *)
(* keepers and every bound: proof by one inductive invariant, IInv.        *)
(***************************************************************************)
EXTENDS KeeperHealth, TLAPS

-----------------------------------------------------------------------------
(* The inductive invariant.                                                *)

(* A writer has an attempt left, unless it has given up, and a row.        *)
WriterInv ==
  \A p \in Writers :
    /\ wpc[p] # "failed" => tries[p] < MaxRetries
    /\ wpc[p] # "idle" => target[p] \in Keepers

(* A handler that writes holds the lock, writes the row of its keeper, and *)
(* the keeper is active; main writes, and holds the lock, in DumpState     *)
(* only.                                                                   *)
LockInv ==
  /\ \A k \in Keepers : wpc[Handler(k)] # "idle" =>
       /\ hpc[k] = "update" /\ mu = Handler(k)
       /\ target[Handler(k)] = k /\ k \in active
  /\ \A k \in Keepers : hpc[k] = "update" => mu = Handler(k)
  /\ down = "dump" <=> mu = Main
  /\ wpc[Main] # "idle" => mu = Main /\ target[Main] \in active
  /\ \A k \in todo[Main] : mu = Main /\ k \in active

(* A process that has ended does nothing.                                  *)
ExitedInv ==
  down = "exited" =>
    /\ mu = Free /\ active = {} /\ silent = {}
    /\ \A p \in Writers : wpc[p] = "idle"
    /\ \A p \in {Sweep, Main} : todo[p] = {}

(* The sweep has marked the keeper and not yet written its row.            *)
Sweeping(k) ==
  k \in todo[Sweep] \/ (target[Sweep] = k /\ wpc[Sweep] \notin {"idle", "ok"})

(* What StatusAgrees says is true as soon as the check-in of the keeper    *)
(* has returned and the sweep has written it.                              *)
RowInv ==
  /\ \A k \in Keepers : wpc[Handler(k)] = "ok" => k \in online \/ k \in astray
  /\ \A k \in keepers :
       \/ k \in astray \/ wpc[Handler(k)] # "idle" \/ Sweeping(k)
       \/ k \in active <=> k \in online

IInv == TypeOK /\ WriterInv /\ LockInv /\ ExitedInv /\ RowInv

(* Two writers are told apart.                                             *)
LEMMA WriterNames ==
  /\ \A k \in Keepers : Handler(k) \in Writers /\ Handler(k) \in Handlers
  /\ \A k, l \in Keepers : Handler(k) = Handler(l) => k = l
  /\ \A k \in Keepers : Handler(k) # Sweep /\ Handler(k) # Main
  /\ \A k \in Keepers : Handler(k) # Free
  /\ Sweep \in Writers /\ Main \in Writers /\ Sweep # Main /\ Main # Free
  /\ Sweep \notin Handlers /\ Main \notin Handlers
  /\ \A p \in Handlers : \E k \in Keepers : p = Handler(k)
BY DEF Writers, Handlers, Handler, Sweep, Main, Free

-----------------------------------------------------------------------------
(* A step keeps each part of the invariant.                                *)

(* Every action writes each variable in its range; a row that goes online  *)
(* is that of a keeper in the map.                                         *)
LEMMA TypeOKStep == IInv /\ [Next]_vars => TypeOK'
<1> SUFFICES ASSUME IInv, [Next]_vars PROVE TypeOK'
  OBVIOUS
<1> USE WriterNames, KeeperHealthAssumption DEF IInv, TypeOK, WriterInv,
     LockInv, ExitedInv, Fault, bounds, Begin, End, Fails, memory, rows, writers,
     Up
<1>1. ASSUME NEW i \in Keepers, CheckIn(i) PROVE TypeOK'
  BY <1>1 DEF CheckIn
<1>2. ASSUME NEW i \in Keepers, CheckInUpdate(i) PROVE TypeOK'
  BY <1>2 DEF CheckInUpdate
<1>3. ASSUME NEW i \in Keepers, CheckInReturns(i) PROVE TypeOK'
  BY <1>3 DEF CheckInReturns
<1>4. ASSUME NEW i \in Keepers, Silence(i) \/ Verify(i) PROVE TypeOK'
  BY <1>4 DEF Silence, Verify
<1>5. ASSUME NEW p \in Writers, ReadRow(p) PROVE TypeOK'
  BY <1>5 DEF ReadRow
<1>6. ASSUME NEW p \in Writers, WriteUptime(p) PROVE TypeOK'
  BY <1>6 DEF WriteUptime
<1>7. ASSUME NEW p \in Writers, WriteStatus(p) PROVE TypeOK'
  BY <1>7 DEF WriteStatus, SetStatus, ToOnline
<1>8. ASSUME SweepMark PROVE TypeOK'
  BY <1>8 DEF SweepMark
<1>9. ASSUME NEW p \in {Sweep, Main}, NextRow(p) PROVE TypeOK'
  BY <1>9 DEF NextRow
<1>10. ASSUME NEW p \in {Sweep, Main}, RowWritten(p) PROVE TypeOK'
  BY <1>10 DEF RowWritten
<1>11. ASSUME Signal \/ CloseServer PROVE TypeOK'
  BY <1>11 DEF Signal, CloseServer
<1>12. ASSUME DumpState PROVE TypeOK'
  BY <1>12 DEF DumpState
<1>13. ASSUME DumpReturns PROVE TypeOK'
  BY <1>13 DEF DumpReturns
<1>14. ASSUME Exit \/ Crash PROVE TypeOK'
  BY <1>14 DEF Exit, Crash, Ends
<1>15. ASSUME Start PROVE TypeOK'
  BY <1>15 DEF Start
<1>16. CASE UNCHANGED vars
  BY <1>16 DEF vars
<1> QED
  BY <1>1, <1>2, <1>3, <1>4, <1>5, <1>6, <1>7, <1>8, <1>9, <1>10, <1>11,
     <1>12, <1>13, <1>14, <1>15, <1>16, WriterNames
  DEF Next, HandlerStep, SweepStep, MainStep, CallOf

(* retryWithBackoff counts to maxRetries; the sweep tries once.            *)
LEMMA WriterInvStep == IInv /\ [Next]_vars => WriterInv'
<1> SUFFICES ASSUME IInv, [Next]_vars PROVE WriterInv'
  OBVIOUS
<1> USE WriterNames, KeeperHealthAssumption DEF IInv, TypeOK, WriterInv,
     LockInv, Begin, End, Fails, memory, rows, writers, Up
<1>1. ASSUME NEW i \in Keepers, CheckIn(i) PROVE WriterInv'
  BY <1>1 DEF CheckIn
<1>2. ASSUME NEW i \in Keepers, CheckInUpdate(i) PROVE WriterInv'
  BY <1>2 DEF CheckInUpdate
<1>3. ASSUME NEW i \in Keepers, CheckInReturns(i) PROVE WriterInv'
  BY <1>3 DEF CheckInReturns
<1>4. ASSUME NEW i \in Keepers, Silence(i) \/ Verify(i) PROVE WriterInv'
  BY <1>4 DEF Silence, Verify
<1>5. ASSUME NEW p \in Writers, ReadRow(p) PROVE WriterInv'
  BY <1>5 DEF ReadRow
<1>6. ASSUME NEW p \in Writers, WriteUptime(p) PROVE WriterInv'
  BY <1>6 DEF WriteUptime
<1>7. ASSUME NEW p \in Writers, WriteStatus(p) PROVE WriterInv'
  BY <1>7 DEF WriteStatus, SetStatus, ToOnline
<1>8. ASSUME SweepMark PROVE WriterInv'
  BY <1>8 DEF SweepMark
<1>9. ASSUME NEW p \in {Sweep, Main}, NextRow(p) PROVE WriterInv'
  BY <1>9 DEF NextRow
<1>10. ASSUME NEW p \in {Sweep, Main}, RowWritten(p) PROVE WriterInv'
  BY <1>10 DEF RowWritten
<1>11. ASSUME Signal \/ CloseServer PROVE WriterInv'
  BY <1>11 DEF Signal, CloseServer
<1>12. ASSUME DumpState PROVE WriterInv'
  BY <1>12 DEF DumpState
<1>13. ASSUME DumpReturns PROVE WriterInv'
  BY <1>13 DEF DumpReturns
<1>14. ASSUME Exit \/ Crash PROVE WriterInv'
  BY <1>14 DEF Exit, Crash, Ends
<1>15. ASSUME Start PROVE WriterInv'
  BY <1>15 DEF Start
<1>16. CASE UNCHANGED vars
  BY <1>16 DEF vars
<1> QED
  BY <1>1, <1>2, <1>3, <1>4, <1>5, <1>6, <1>7, <1>8, <1>9, <1>10, <1>11,
     <1>12, <1>13, <1>14, <1>15, <1>16, WriterNames
  DEF Next, HandlerStep, SweepStep, MainStep, CallOf

(* The lock is taken only when it is free, and a keeper is made inactive   *)
(* only under the lock.                                                    *)
LEMMA LockInvStep == IInv /\ [Next]_vars => LockInv'
<1> SUFFICES ASSUME IInv, [Next]_vars PROVE LockInv'
  OBVIOUS
<1> USE WriterNames DEF IInv, TypeOK, LockInv, ExitedInv, Begin, End, Fails,
     memory, rows, writers, Up
<1>1. ASSUME NEW i \in Keepers, CheckIn(i) PROVE LockInv'
  BY <1>1 DEF CheckIn
<1>2. ASSUME NEW i \in Keepers, CheckInUpdate(i) PROVE LockInv'
  BY <1>2 DEF CheckInUpdate
<1>3. ASSUME NEW i \in Keepers, CheckInReturns(i) PROVE LockInv'
  BY <1>3 DEF CheckInReturns
<1>4. ASSUME NEW i \in Keepers, Silence(i) \/ Verify(i) PROVE LockInv'
  BY <1>4 DEF Silence, Verify
<1>5. ASSUME NEW p \in Writers, ReadRow(p) PROVE LockInv'
  BY <1>5 DEF ReadRow
<1>6. ASSUME NEW p \in Writers, WriteUptime(p) PROVE LockInv'
  BY <1>6 DEF WriteUptime
<1>7. ASSUME NEW p \in Writers, WriteStatus(p) PROVE LockInv'
  BY <1>7 DEF WriteStatus, SetStatus, ToOnline
<1>8. ASSUME SweepMark PROVE LockInv'
  BY <1>8 DEF SweepMark
<1>9. ASSUME NEW p \in {Sweep, Main}, NextRow(p) PROVE LockInv'
  BY <1>9 DEF NextRow
<1>10. ASSUME NEW p \in {Sweep, Main}, RowWritten(p) PROVE LockInv'
  BY <1>10 DEF RowWritten
<1>11. ASSUME Signal \/ CloseServer PROVE LockInv'
  BY <1>11 DEF Signal, CloseServer
<1>12. ASSUME DumpState PROVE LockInv'
  BY <1>12 DEF DumpState
<1>13. ASSUME DumpReturns PROVE LockInv'
  BY <1>13 DEF DumpReturns
<1>14. ASSUME Exit \/ Crash PROVE LockInv'
  BY <1>14 DEF Exit, Crash, Ends
<1>15. ASSUME Start PROVE LockInv'
  BY <1>15 DEF Start
<1>16. CASE UNCHANGED vars
  BY <1>16 DEF vars
<1> QED
  BY <1>1, <1>2, <1>3, <1>4, <1>5, <1>6, <1>7, <1>8, <1>9, <1>10, <1>11,
     <1>12, <1>13, <1>14, <1>15, <1>16, WriterNames
  DEF Next, HandlerStep, SweepStep, MainStep, CallOf

(* Nothing but a start happens to a process that has ended.                *)
LEMMA ExitedInvStep == IInv /\ [Next]_vars => ExitedInv'
<1> SUFFICES ASSUME IInv, [Next]_vars PROVE ExitedInv'
  OBVIOUS
<1> USE WriterNames DEF IInv, TypeOK, ExitedInv, Begin, End, Fails, memory,
     rows, writers, Up, Serving
<1>1. ASSUME NEW i \in Keepers, CheckIn(i) PROVE ExitedInv'
  BY <1>1 DEF CheckIn
<1>2. ASSUME NEW i \in Keepers, CheckInUpdate(i) PROVE ExitedInv'
  BY <1>2 DEF CheckInUpdate
<1>3. ASSUME NEW i \in Keepers, CheckInReturns(i) PROVE ExitedInv'
  BY <1>3 DEF CheckInReturns
<1>4. ASSUME NEW i \in Keepers, Silence(i) \/ Verify(i) PROVE ExitedInv'
  BY <1>4 DEF Silence, Verify
<1>5. ASSUME NEW p \in Writers, ReadRow(p) PROVE ExitedInv'
  BY <1>5 DEF ReadRow
<1>6. ASSUME NEW p \in Writers, WriteUptime(p) PROVE ExitedInv'
  BY <1>6 DEF WriteUptime
<1>7. ASSUME NEW p \in Writers, WriteStatus(p) PROVE ExitedInv'
  BY <1>7 DEF WriteStatus, SetStatus, ToOnline
<1>8. ASSUME SweepMark PROVE ExitedInv'
  BY <1>8 DEF SweepMark
<1>9. ASSUME NEW p \in {Sweep, Main}, NextRow(p) PROVE ExitedInv'
  BY <1>9 DEF NextRow
<1>10. ASSUME NEW p \in {Sweep, Main}, RowWritten(p) PROVE ExitedInv'
  BY <1>10 DEF RowWritten
<1>11. ASSUME Signal \/ CloseServer PROVE ExitedInv'
  BY <1>11 DEF Signal, CloseServer
<1>12. ASSUME DumpState PROVE ExitedInv'
  BY <1>12 DEF DumpState
<1>13. ASSUME DumpReturns PROVE ExitedInv'
  BY <1>13 DEF DumpReturns
<1>14. ASSUME Exit \/ Crash PROVE ExitedInv'
  BY <1>14 DEF Exit, Crash, Ends
<1>15. ASSUME Start PROVE ExitedInv'
  BY <1>15 DEF Start
<1>16. CASE UNCHANGED vars
  BY <1>16 DEF vars
<1> QED
  BY <1>1, <1>2, <1>3, <1>4, <1>5, <1>6, <1>7, <1>8, <1>9, <1>10, <1>11,
     <1>12, <1>13, <1>14, <1>15, <1>16, WriterNames
  DEF Next, HandlerStep, SweepStep, MainStep, CallOf

(* "Offline" over an active keeper is noted, and "online" is only written  *)
(* for an active one.                                                      *)
LEMMA RowInvStep == IInv /\ [Next]_vars => RowInv'
<1> SUFFICES ASSUME IInv, [Next]_vars PROVE RowInv'
  OBVIOUS
<1> USE WriterNames DEF IInv, TypeOK, LockInv, ExitedInv, RowInv, Sweeping,
     Begin, End, Fails, memory, rows, writers, Up
<1>1. ASSUME NEW i \in Keepers, CheckIn(i) PROVE RowInv'
  BY <1>1 DEF CheckIn
<1>2. ASSUME NEW i \in Keepers, CheckInUpdate(i) PROVE RowInv'
  BY <1>2 DEF CheckInUpdate
<1>3. ASSUME NEW i \in Keepers, CheckInReturns(i) PROVE RowInv'
  BY <1>3 DEF CheckInReturns
<1>4. ASSUME NEW i \in Keepers, Silence(i) \/ Verify(i) PROVE RowInv'
  BY <1>4 DEF Silence, Verify
<1>5. ASSUME NEW p \in Writers, ReadRow(p) PROVE RowInv'
  BY <1>5 DEF ReadRow
<1>6. ASSUME NEW p \in Writers, WriteUptime(p) PROVE RowInv'
  BY <1>6 DEF WriteUptime
<1>7. ASSUME NEW p \in Writers, WriteStatus(p) PROVE RowInv'
  BY <1>7 DEF WriteStatus, SetStatus, ToOnline
<1>8. ASSUME SweepMark PROVE RowInv'
  BY <1>8 DEF SweepMark
<1>9. ASSUME NEW p \in {Sweep, Main}, NextRow(p) PROVE RowInv'
  BY <1>9 DEF NextRow
<1>10. ASSUME NEW p \in {Sweep, Main}, RowWritten(p) PROVE RowInv'
  BY <1>10 DEF RowWritten
<1>11. ASSUME Signal \/ CloseServer PROVE RowInv'
  BY <1>11 DEF Signal, CloseServer
<1>12. ASSUME DumpState PROVE RowInv'
  BY <1>12 DEF DumpState
<1>13. ASSUME DumpReturns PROVE RowInv'
  BY <1>13 DEF DumpReturns
<1>14. ASSUME Exit \/ Crash PROVE RowInv'
  BY <1>14 DEF Exit, Crash, Ends
<1>15. ASSUME Start PROVE RowInv'
  BY <1>15 DEF Start
<1>16. CASE UNCHANGED vars
  BY <1>16 DEF vars
<1> QED
  BY <1>1, <1>2, <1>3, <1>4, <1>5, <1>6, <1>7, <1>8, <1>9, <1>10, <1>11,
     <1>12, <1>13, <1>14, <1>15, <1>16, WriterNames
  DEF Next, HandlerStep, SweepStep, MainStep, CallOf

-----------------------------------------------------------------------------
(* The theorems.                                                           *)

(* The service starts with nobody active and nobody online.                *)
LEMMA InitIInv == Init => IInv
<1> SUFFICES ASSUME Init PROVE IInv
  OBVIOUS
<1> USE WriterNames DEF Init
<1>1. TypeOK
  BY KeeperHealthAssumption DEF TypeOK
<1>5. WriterInv
  BY KeeperHealthAssumption DEF WriterInv
<1>2. LockInv
  BY DEF LockInv
<1>3. ExitedInv
  BY DEF ExitedInv
<1>4. RowInv
  BY DEF RowInv
<1> QED
  BY <1>1, <1>2, <1>3, <1>4, <1>5 DEF IInv

(* IInv is inductive, whatever fails and whenever the process ends.        *)
THEOREM Invariant == Spec => []IInv
<1>1. IInv /\ [Next]_vars => IInv'
  BY TypeOKStep, WriterInvStep, LockInvStep, ExitedInvStep, RowInvStep DEF IInv
<1> QED
  BY InitIInv, <1>1, PTL DEF Spec

(* Every variable keeps to its range; only verified keepers are known, and *)
(* only known ones active.                                                 *)
THEOREM TypeCorrect == Spec => []TypeOK
<1>1. IInv => TypeOK
  BY DEF IInv
<1> QED
  BY Invariant, <1>1, PTL

(* update.go:22 holds the lock over the database calls of a check-in,      *)
(* cleanup.go:38 lets it go before those of the sweep: memory and row of a *)
(* keeper agree all the same, but for the named exceptions.                *)
THEOREM StatusSafe == Spec => []StatusAgrees
<1>1. IInv => StatusAgrees
  <2> SUFFICES ASSUME IInv, NEW k \in keepers, ~Pending(k), k \notin astray
               PROVE  k \in active <=> k \in online
    BY DEF StatusAgrees
  <2>1. k \in Keepers /\ Handler(k) \in Writers /\ Sweep \in Writers
    BY WriterNames DEF IInv, TypeOK
  <2>2. wpc[Handler(k)] = "idle"
    BY <2>1 DEF Pending, IInv, LockInv
  <2>3. ~Sweeping(k)
    BY <2>1 DEF Pending, Sweeping
  <2> QED
    BY <2>1, <2>2, <2>3 DEF IInv, RowInv
<1> QED
  BY Invariant, <1>1, PTL
=================================================================================
