---------------------------- MODULE JobListings ----------------------------
(***************************************************************************)
(* The reading side of the job API: GET /jobs/user/:user_address, the same *)
(* with a chain id, and GET /jobs/by-apikey, which goes on as the first.   *)
(* The handler reads the list of job ids of the user's row and then, job   *)
(* by job, the row in job_data and the one in the table of the job's kind, *)
(* while the handlers of JobStore write them.  A job that cannot be read   *)
(* is left out of the answer, and the status says so.                      *)
(***************************************************************************)
EXTENDS JobStore

CONSTANTS
  Listings,         \* GET requests
  ChainOf,          \* ChainOf[j]: created_chain_id
  AnyChain,         \* asked for by a GET without a chain id
  MaxListingFaults  \* bound on reads that fail

Chains == {ChainOf[j] : j \in JobIds}

ASSUME ListingAssumption ==
  /\ ChainOf \in [JobIds -> Chains]
  /\ AnyChain \notin Chains
  /\ MaxListingFaults \in Nat

VARIABLES
  listing,       \* per GET: where the handler is, the chain asked for, the ids left to read,
                 \* whether the job_data row was read, the jobs found and those left out
  due,           \* history: per GET, the jobs it has to find
  broken,        \* history: per GET, the jobs a read of which failed
  listingFaults

listVars == <<listing, due, broken, listingFaults>>

NoListing ==
  [pc |-> "idle", chain |-> AnyChain, ids |-> << >>, seen |-> FALSE, found |-> {}, left |-> {}]

ListingsInit ==
  /\ listing = [l \in Listings |-> NoListing]
  /\ due = [l \in Listings |-> {}]
  /\ broken = [l \in Listings |-> {}]
  /\ listingFaults = 0

Fault == listingFaults < MaxListingFaults /\ listingFaults' = listingFaults + 1

\* The created_chain_id of a row that only an UPDATE wrote is empty.
InChain(chain, j) ==
  chain = AnyChain \/ (jobRow[j].kind # "none" /\ ChainOf[j] = chain)

\* The jobs of the batches that were created, by POSTs that did not overlap.
CreatedJobs ==
  IF {p \in Posts : post[p].pc # "idle"} \subseteq sole
  THEN UNION {{Batch[p][i] : i \in DOMAIN Batch[p]} : p \in {q \in Posts : post[q].pc = "done"}}
  ELSE {}

\* The status: 200, 206 when jobs were left out, 500 when nothing else is there.
Status(found, left) ==
  IF left = {} THEN "ok" ELSE IF found = {} THEN "error" ELSE "partial"

\* GetUserJobIDsByAddress, of any row of the address.
JobIDLists ==
  IF users = << >> THEN {<< >>} ELSE {users[u].jobs : u \in DOMAIN users}

\* Without a row, and when the read fails, the answer is that there are no jobs.
ReadJobIDs(l, chain) ==
  /\ listing[l].pc = "idle"
  /\ due' = [due EXCEPT ![l] = {j \in CreatedJobs : InChain(chain, j)}]
  /\ \/ /\ \E ids \in JobIDLists :
             listing' = [listing EXCEPT ![l].pc = IF ids = << >> THEN "empty" ELSE "reading",
                                        ![l].chain = chain, ![l].ids = ids]
        /\ UNCHANGED <<broken, listingFaults>>
     \/ /\ Fault
        /\ listing' = [listing EXCEPT ![l].pc = "empty", ![l].chain = chain]
        /\ broken' = [broken EXCEPT ![l] = JobIds]

\* The job is over: the next one, or the answer.
NextJob(r, found, left) ==
  LET rest == Tail(r.ids)
  IN  [r EXCEPT !.pc = IF rest = << >> THEN Status(found, left) ELSE "reading",
                !.ids = rest, !.seen = FALSE, !.found = found, !.left = left]

Skip(r) == NextJob(r, r.found, r.left)
LeaveOut(r) == NextJob(r, r.found, r.left \cup {Head(r.ids)})
Found(r) == NextJob(r, r.found \cup {Head(r.ids)}, r.left)

\* GetJobByID: a job of another chain is skipped, one without a row left out.
ReadJobRow(l) ==
  LET r == listing[l]
      j == Head(r.ids)
  IN  /\ r.pc = "reading" /\ ~r.seen
      /\ listing' = [listing EXCEPT ![l] =
           IF jobRow[j] = NoJobRow THEN LeaveOut(r)
           ELSE IF ~InChain(r.chain, j) THEN Skip(r)
           ELSE IF jobRow[j].kind \in {"custom", "unknown", "none"} THEN LeaveOut(r)
           ELSE [r EXCEPT !.seen = TRUE]]
      /\ UNCHANGED <<due, broken, listingFaults>>

\* GetTimeJobByJobID, GetEventJobByJobID, GetConditionJobByJobID.
ReadTypedRow(l) ==
  LET r == listing[l]
  IN  /\ r.pc = "reading" /\ r.seen
      /\ listing' = [listing EXCEPT ![l] =
           IF typed[Head(r.ids)] = "none" THEN LeaveOut(r) ELSE Found(r)]
      /\ UNCHANGED <<due, broken, listingFaults>>

ReadFails(l) ==
  LET r == listing[l]
  IN  /\ r.pc = "reading" /\ Fault
      /\ listing' = [listing EXCEPT ![l] = LeaveOut(r)]
      /\ broken' = [broken EXCEPT ![l] = @ \cup {Head(r.ids)}]
      /\ UNCHANGED due

ListingsNext ==
  \E l \in Listings :
    \/ \E chain \in Chains \cup {AnyChain} : ReadJobIDs(l, chain)
    \/ ReadJobRow(l) \/ ReadTypedRow(l) \/ ReadFails(l)

\* The GET handlers share the tables with the handlers that write them.
JobsAndListingsNext ==
  \/ JobNext /\ UNCHANGED listVars
  \/ ListingsNext /\ UNCHANGED jobVars

ListSpec == JobInit /\ ListingsInit /\ [][JobsAndListingsNext]_<<jobVars, listVars>>

-----------------------------------------------------------------------------

ListingTypeOK ==
  \A l \in Listings :
    /\ listing[l].pc \in {"idle", "reading", "empty", "ok", "partial", "error"}
    /\ listing[l].chain \in Chains \cup {AnyChain}
    /\ listing[l].ids \in Seq(JobIds)
    /\ listing[l].found \cup listing[l].left \cup due[l] \cup broken[l] \subseteq JobIds

(* An answer shows every job of the POSTs that were over when the request  *)
(* came, as long as no two POSTs of the user overlapped: later POSTs do not *)
(* take a job off the list of the user's row, and a job is left out only   *)
(* when a read of it failed or its kind is custom, which the handler does  *)
(* not know.                                                               *)
ListingIsComplete ==
  \A l \in Listings :
    listing[l].pc \notin {"idle", "reading"} =>
      \A j \in due[l] \ (broken[l] \cup listing[l].found) : Kind[j] = "custom"
=============================================================================
