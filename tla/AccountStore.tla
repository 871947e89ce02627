---------------------------- MODULE AccountStore ----------------------------
(***************************************************************************)
(* The keeper and API-key part of the database server: registration of     *)
(* keepers, their counters, and the middleware that admits a request by    *)
(* its API key and counts it against the key's rate limit in Redis.        *)
(*                                                                         *)
(* Every handler is a goroutine, one single-row statement after another;   *)
(* INSERT and UPDATE are upserts, and a keeper id is MAX(keeper_id) + 1.   *)
(***************************************************************************)
EXTENDS Naturals, FiniteSets, FiniteSetsExt

CONSTANTS
  Keepers,     \* keeper addresses
  Signups,     \* POST /keepers and POST /keepers/form requests
  SignupOf,    \* SignupOf[s]: [keeper, form]
  Rewards,     \* increment-tasks and add-points requests
  RewardOf,    \* RewardOf[r]: [id, column, amount]
  Chats,       \* update-chat-id requests
  ChatOf,      \* ChatOf[c]: [keeper, chat]
  ApiKeys,     \* keys an admin creates
  Limit,       \* Limit[k]: its rate_limit
  Calls,       \* requests to protected routes
  CallOf,      \* CallOf[q]: the key in the X-Api-Key header
  MaxWindows,  \* bound on the rate-limit windows
  MaxAcctFaults  \* bound on failing statements

Columns == {"tasks", "points"}
KeeperIds == 1..(Cardinality(Keepers) + Cardinality(Signups)
                  + Max({ChatOf[c].chat : c \in Chats} \cup {0}))

ASSUME AccountAssumption ==
  /\ "none" \notin Keepers
  /\ SignupOf \in [Signups -> [keeper : Keepers, form : BOOLEAN]]
  /\ RewardOf \in [Rewards -> [id : Nat \ {0}, column : Columns, amount : Nat]]
  /\ ChatOf \in [Chats -> [keeper : Keepers, chat : Nat \ {0}]]
  /\ Limit \in [ApiKeys -> Nat \ {0}] /\ CallOf \in [Calls -> ApiKeys]
  /\ MaxWindows \in Nat /\ MaxAcctFaults \in Nat

VARIABLES
  keeperRow,   \* keeper_data: id -> the row, or NoRow
  signup,      \* per registration: handler and local variables
  reward,      \* per counter update
  chat,        \* per chat id update
  keyRow,      \* apikeys: "none", "active", or "touched" (only last_used is set)
  call,        \* per request: where the middleware is
  touch,       \* requests whose `go updateLastUsed` has not run yet
  counter,     \* Redis: the count of the running window of each key
  windows,     \* windows that ended so far
  alone,       \* history: registrations no other one overlapped, and no chat id
               \* update that wrote to the id they had chosen
  paid,        \* history: what the answered updates added to a keeper's columns
  raced,       \* history: the keepers with two updates of one column in flight at once
  deletedKeys, \* history: keys whose DELETE was answered
  admitted,    \* history: the requests admitted in the running window of each key
  intruder,    \* history: a request was admitted that arrived after its key was deleted
  acctFaults

acctVars == <<keeperRow, signup, reward, chat, keyRow, call, touch, counter, windows, alone,
              paid, raced, deletedKeys, admitted, intruder, acctFaults>>

NoRow == [keeper |-> "none", tasks |-> 0, points |-> 0, chat |-> 0]
Taken == {id \in KeeperIds : keeperRow[id] # NoRow}
IdOf(k) == {id \in KeeperIds : keeperRow[id].keeper = k}

AcctInit ==
  /\ keeperRow = [id \in KeeperIds |-> NoRow]
  /\ signup = [s \in Signups |-> [pc |-> "idle", id |-> 0]]
  /\ reward = [r \in Rewards |-> [pc |-> "idle", read |-> 0]]
  /\ chat = [c \in Chats |-> [pc |-> "idle", id |-> 0]]
  /\ keyRow = [k \in ApiKeys |-> "none"]
  /\ call = [q \in Calls |-> [pc |-> "idle", after |-> FALSE]]
  /\ touch = {}
  /\ counter = [k \in ApiKeys |-> 0]
  /\ windows = 0
  /\ alone = Signups
  /\ paid = [id \in KeeperIds |-> [tasks |-> 0, points |-> 0]]
  /\ raced = {}
  /\ deletedKeys = {}
  /\ admitted = [k \in ApiKeys |-> 0]
  /\ intruder = FALSE
  /\ acctFaults = 0

-----------------------------------------------------------------------------
(* Registration: CreateKeeperData and CreateKeeperDataGoogleForm.          *)

SigningUp(s) == signup[s].pc \in {"check", "max", "insert", "update"}

ReceiveSignup(s) ==
  LET others == {t \in Signups : SigningUp(t)} IN
  /\ signup[s].pc = "idle"
  /\ signup' = [signup EXCEPT ![s].pc = "check"]
  /\ alone' = IF others = {} THEN alone ELSE alone \ (others \cup {s})
  /\ UNCHANGED <<keeperRow, reward, chat, keyRow, call, touch, counter, windows, paid, raced,
                 deletedKeys, admitted, intruder, acctFaults>>

\* CheckKeeperExists.  A keeper that exists is answered with its id, or, from
\* the form, has its row updated.
CheckKeeperExists(s) ==
  LET k == SignupOf[s].keeper IN
  /\ signup[s].pc = "check"
  /\ IF IdOf(k) = {}
       THEN signup' = [signup EXCEPT ![s].pc = "max"]
       ELSE \E id \in IdOf(k) :
              signup' = [signup EXCEPT ![s] =
                           [pc |-> IF SignupOf[s].form THEN "update" ELSE "done", id |-> id]]
  /\ UNCHANGED <<keeperRow, reward, chat, keyRow, call, touch, counter, windows, alone, paid,
                 raced, deletedKeys, admitted, intruder, acctFaults>>

(* A faulty variant: the row is written as for a new keeper.               *)
ReplaceFromForm(s) ==
  /\ signup[s].pc = "update"
  /\ keeperRow' = [keeperRow EXCEPT ![signup[s].id] =
                     [NoRow EXCEPT !.keeper = SignupOf[s].keeper]]
  /\ signup' = [signup EXCEPT ![s].pc = "done"]
  /\ UNCHANGED <<reward, chat, keyRow, call, touch, counter, windows, alone, paid, raced,
                 deletedKeys, admitted, intruder, acctFaults>>

\* UpdateKeeperFromGoogleFormQuery: names, the address included, by id.
UpdateFromForm(s) ==
  /\ signup[s].pc = "update"
  /\ keeperRow' = [keeperRow EXCEPT ![signup[s].id].keeper = SignupOf[s].keeper]
  /\ signup' = [signup EXCEPT ![s].pc = "done"]
  /\ UNCHANGED <<reward, chat, keyRow, call, touch, counter, windows, alone, paid, raced,
                 deletedKeys, admitted, intruder, acctFaults>>

ReadMaxKeeperID(s) ==
  /\ signup[s].pc = "max"
  /\ \E max \in Taken \cup {0} :
       /\ \A id \in Taken : id <= max
       /\ signup' = [signup EXCEPT ![s] = [pc |-> "insert", id |-> max + 1]]
  /\ UNCHANGED <<keeperRow, reward, chat, keyRow, call, touch, counter, windows, alone, paid,
                 raced, deletedKeys, admitted, intruder, acctFaults>>

\* CreateNewKeeperQuery names keeper_points (0), the form's query does not;
\* columns a query does not name keep what the row held.
InsertKeeper(s) ==
  LET id == signup[s].id
      row == [keeperRow[id] EXCEPT !.keeper = SignupOf[s].keeper]
  IN
  /\ signup[s].pc = "insert"
  /\ keeperRow' = [keeperRow EXCEPT ![id] = IF SignupOf[s].form THEN row
                                            ELSE [row EXCEPT !.points = 0]]
  /\ signup' = [signup EXCEPT ![s].pc = "done"]
  /\ UNCHANGED <<reward, chat, keyRow, call, touch, counter, windows, alone, paid, raced,
                 deletedKeys, admitted, intruder, acctFaults>>

SignupFails(s) ==
  /\ SigningUp(s)
  /\ acctFaults < MaxAcctFaults
  /\ acctFaults' = acctFaults + 1
  /\ signup' = [signup EXCEPT ![s].pc = "failed"]
  /\ UNCHANGED <<keeperRow, reward, chat, keyRow, call, touch, counter, windows, alone, paid,
                 raced, deletedKeys, admitted, intruder>>

-----------------------------------------------------------------------------
(* Counters: IncrementKeeperTaskCount and UpdateKeeperPoints read a column *)
(* and write it back.                                                      *)

Column(row, c) == IF c = "tasks" THEN row.tasks ELSE row.points
WithColumn(row, c, v) == IF c = "tasks" THEN [row EXCEPT !.tasks = v]
                                        ELSE [row EXCEPT !.points = v]

ReadColumn(r) ==
  LET w == RewardOf[r] IN
  /\ reward[r].pc = "idle"
  /\ w.id \in Taken
  /\ reward' = [reward EXCEPT ![r] = [pc |-> "write",
                                      read |-> Column(keeperRow[w.id], w.column)]]
  /\ raced' = IF \E t \in Rewards : /\ reward[t].pc = "write" /\ RewardOf[t].id = w.id
                                    /\ RewardOf[t].column = w.column
                THEN raced \cup {w.id} ELSE raced
  /\ UNCHANGED <<keeperRow, signup, chat, keyRow, call, touch, counter, windows, alone, paid,
                 deletedKeys, admitted, intruder, acctFaults>>

WriteColumn(r) ==
  LET w == RewardOf[r] IN
  /\ reward[r].pc = "write"
  /\ keeperRow' = [keeperRow EXCEPT ![w.id] =
                     WithColumn(@, w.column, reward[r].read + w.amount)]
  /\ paid' = [paid EXCEPT ![w.id] = WithColumn(@, w.column, Column(@, w.column) + w.amount)]
  /\ reward' = [reward EXCEPT ![r].pc = "done"]
  /\ UNCHANGED <<signup, chat, keyRow, call, touch, counter, windows, alone, raced,
                 deletedKeys, admitted, intruder, acctFaults>>

RewardFails(r) ==
  /\ reward[r].pc = "write"
  /\ acctFaults < MaxAcctFaults
  /\ acctFaults' = acctFaults + 1
  /\ reward' = [reward EXCEPT ![r].pc = "failed"]
  /\ UNCHANGED <<keeperRow, signup, chat, keyRow, call, touch, counter, windows, alone, paid,
                 raced, deletedKeys, admitted, intruder>>

\* UpdateKeeperChatID looks the id up ...
FindKeeper(c) ==
  /\ chat[c].pc = "idle"
  /\ \E id \in IdOf(ChatOf[c].keeper) : chat' = [chat EXCEPT ![c] = [pc |-> "write", id |-> id]]
  /\ UNCHANGED <<keeperRow, signup, reward, keyRow, call, touch, counter, windows, alone, paid,
                 raced, deletedKeys, admitted, intruder, acctFaults>>

\* ... and binds the two parameters of SET chat_id = ? WHERE keeper_id = ? the
\* other way round: the row of keeper_id = chat id gets the keeper id.
WriteChatID(c) ==
  /\ chat[c].pc = "write"
  /\ keeperRow' = [keeperRow EXCEPT ![ChatOf[c].chat].chat = chat[c].id]
  /\ chat' = [chat EXCEPT ![c].pc = "done"]
  /\ alone' = alone \ {s \in Signups : signup[s].pc = "insert" /\ signup[s].id = ChatOf[c].chat}
  /\ UNCHANGED <<signup, reward, keyRow, call, touch, counter, windows, paid, raced,
                 deletedKeys, admitted, intruder, acctFaults>>

-----------------------------------------------------------------------------
(* API keys and the middleware.  PUT /admin/api-keys/:key binds its three  *)
(* parameters in the wrong order, is refused by the driver and changes     *)
(* nothing.                                                                *)

CreateApiKey(k) ==
  /\ keyRow[k] = "none" /\ k \notin deletedKeys
  /\ keyRow' = [keyRow EXCEPT ![k] = "active"]
  /\ UNCHANGED <<keeperRow, signup, reward, chat, call, touch, counter, windows, alone, paid,
                 raced, deletedKeys, admitted, intruder, acctFaults>>

DeleteApiKey(k) ==
  /\ keyRow[k] = "active"
  /\ keyRow' = [keyRow EXCEPT ![k] = "none"]
  /\ deletedKeys' = deletedKeys \cup {k}
  /\ UNCHANGED <<keeperRow, signup, reward, chat, call, touch, counter, windows, alone, paid,
                 raced, admitted, intruder, acctFaults>>

\* A request arrives with a key (after: its key had been deleted by then).
ReceiveCall(q) ==
  /\ call[q].pc = "idle"
  /\ call' = [call EXCEPT ![q] = [pc |-> "key", after |-> CallOf[q] \in deletedKeys]]
  /\ UNCHANGED <<keeperRow, signup, reward, chat, keyRow, touch, counter, windows, alone, paid,
                 raced, deletedKeys, admitted, intruder, acctFaults>>

\* getApiKey selects the key among the active ones; 403 when it is not.  An
\* active one is touched by a goroutine of its own.
CheckApiKey(q) ==
  /\ call[q].pc = "key"
  /\ IF keyRow[CallOf[q]] = "active"
       THEN /\ call' = [call EXCEPT ![q].pc = "limit"]
            /\ touch' = touch \cup {q}
       ELSE /\ call' = [call EXCEPT ![q].pc = "refused"]
            /\ UNCHANGED touch
  /\ UNCHANGED <<keeperRow, signup, reward, chat, keyRow, counter, windows, alone, paid, raced,
                 deletedKeys, admitted, intruder, acctFaults>>

\* updateLastUsed: an UPDATE, which brings the row of a deleted key back with
\* nothing but last_used in it.
TouchKey(q) ==
  LET k == CallOf[q] IN
  /\ q \in touch
  /\ touch' = touch \ {q}
  /\ keyRow' = [keyRow EXCEPT ![k] = IF @ = "none" THEN "touched" ELSE @]
  /\ UNCHANGED <<keeperRow, signup, reward, chat, call, counter, windows, alone, paid, raced,
                 deletedKeys, admitted, intruder, acctFaults>>

(* A faulty variant: the count before the request is compared.             *)
LimitAfterwards(q) ==
  LET k == CallOf[q] IN
  /\ call[q].pc = "limit"
  /\ counter' = [counter EXCEPT ![k] = @ + 1]
  /\ IF counter[k] > Limit[k]
       THEN call' = [call EXCEPT ![q].pc = "refused"] /\ UNCHANGED <<admitted, intruder>>
       ELSE /\ call' = [call EXCEPT ![q].pc = "admitted"]
            /\ admitted' = [admitted EXCEPT ![k] = @ + 1]
            /\ intruder' = (intruder \/ call[q].after)
  /\ UNCHANGED <<keeperRow, signup, reward, chat, keyRow, touch, windows, alone, paid, raced,
                 deletedKeys, acctFaults>>

\* ApplyGinRateLimit: one script increments the counter, starts the window
\* with the first count and compares with the limit.
ApplyRateLimit(q) ==
  LET k == CallOf[q] IN
  /\ call[q].pc = "limit"
  /\ counter' = [counter EXCEPT ![k] = @ + 1]
  /\ IF counter[k] + 1 > Limit[k]
       THEN call' = [call EXCEPT ![q].pc = "refused"] /\ UNCHANGED <<admitted, intruder>>
       ELSE /\ call' = [call EXCEPT ![q].pc = "admitted"]
            /\ admitted' = [admitted EXCEPT ![k] = @ + 1]
            /\ intruder' = (intruder \/ call[q].after)
  /\ UNCHANGED <<keeperRow, signup, reward, chat, keyRow, touch, windows, alone, paid, raced,
                 deletedKeys, acctFaults>>

\* The lookup or the script fails: 403 and 429.
CallFails(q) ==
  /\ call[q].pc \in {"key", "limit"}
  /\ acctFaults < MaxAcctFaults
  /\ acctFaults' = acctFaults + 1
  /\ call' = [call EXCEPT ![q].pc = "refused"]
  /\ UNCHANGED <<keeperRow, signup, reward, chat, keyRow, touch, counter, windows, alone, paid,
                 raced, deletedKeys, admitted, intruder>>

\* The counter of a key expires 60 seconds after its first count.
WindowEnds(k) ==
  /\ counter[k] > 0 /\ windows < MaxWindows
  /\ windows' = windows + 1
  /\ counter' = [counter EXCEPT ![k] = 0]
  /\ admitted' = [admitted EXCEPT ![k] = 0]
  /\ UNCHANGED <<keeperRow, signup, reward, chat, keyRow, call, touch, alone, paid, raced,
                 deletedKeys, intruder, acctFaults>>

KeepersNext ==
  \/ \E s \in Signups : \/ ReceiveSignup(s) \/ CheckKeeperExists(s) \/ UpdateFromForm(s)
                        \/ ReadMaxKeeperID(s) \/ InsertKeeper(s) \/ SignupFails(s)
  \/ \E r \in Rewards : ReadColumn(r) \/ WriteColumn(r) \/ RewardFails(r)
  \/ \E c \in Chats : FindKeeper(c) \/ WriteChatID(c)

KeysNext ==
  \/ \E k \in ApiKeys : CreateApiKey(k) \/ DeleteApiKey(k) \/ WindowEnds(k)
  \/ \E q \in Calls : ReceiveCall(q) \/ CheckApiKey(q) \/ TouchKey(q) \/ ApplyRateLimit(q)
                      \/ CallFails(q)

AcctNext == KeepersNext \/ KeysNext

AcctSpec == AcctInit /\ [][AcctNext]_acctVars

-----------------------------------------------------------------------------
\* The variables have the shapes declared above.
AcctTypeOK ==
  /\ keeperRow \in [KeeperIds -> [keeper : Keepers \cup {"none"}, tasks : Nat,
                                  points : Nat, chat : Nat]]
  /\ signup \in [Signups -> [pc : {"idle", "check", "max", "insert", "update", "done",
                                   "failed"}, id : Nat]]
  /\ reward \in [Rewards -> [pc : {"idle", "write", "done", "failed"}, read : Nat]]
  /\ chat \in [Chats -> [pc : {"idle", "write", "done"}, id : Nat]]
  /\ keyRow \in [ApiKeys -> {"none", "active", "touched"}]
  /\ call \in [Calls -> [pc : {"idle", "key", "limit", "admitted", "refused"},
                         after : BOOLEAN]]
  /\ touch \subseteq Calls
  /\ counter \in [ApiKeys -> Nat] /\ admitted \in [ApiKeys -> Nat]
  /\ windows \in 0..MaxWindows /\ acctFaults \in 0..MaxAcctFaults

\* A keeper's counter is what its answered updates added up to, as long as no
\* two updates of one column were in flight at once and the row was not
\* inserted again: by overlapping registrations, or by one whose id a chat id
\* update used between its MAX and its INSERT.
CountersAddUp ==
  alone = Signups =>
    \A id \in KeeperIds \ raced : \A c \in Columns : Column(keeperRow[id], c) = Column(paid[id], c)

\* The middleware admits no more requests of a key in a window than its limit,
\* and none that arrived after the key was deleted, although the goroutine of
\* an earlier request may bring the deleted row back.
AdmissionIsSound ==
  ~intruder /\ \A k \in ApiKeys : admitted[k] <= Limit[k]
=============================================================================
