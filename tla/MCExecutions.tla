-------------------------- MODULE MCExecutions ------------------------------
(***************************************************************************)
(* Instances for TLC of modules that share no state and are checked for    *)
(* safety only: `part` is chosen at the start, and the variables of the    *)
(* other parts keep one of their initial values.                           *)
(***************************************************************************)
EXTENDS ScriptRun, FileCache, CallArguments, RemoteCalls, WebSockets,
        Performances

VARIABLE part

mcVars == <<part, scriptVars, cacheVars, argVars, callVars, wsVars, perfVars>>

CONSTANTS x1, x2, e1, f1, f2, f3, u1, u2

(* Outputs and stored arguments of a job, with numbers on both sides of    *)
(* every bound, and parameter lists of one and two types.                  *)
Ns == {-20, -17, -16, -9, -3, -2, -1, 0, 1, 2, 3, 6, 13, 14, 15, 16, 17,
       30, 31, 32, 33, 34, 61, 62, 63, 64, 65, 66, 200, 300}
MCSources ==
  {Json(<<Number(FloatOf(n))>>) : n \in Ns} \cup {Static(<<NumberText(n)>>) : n \in Ns}
  \cup {Static(<<Word>>), Static(<<NumberText(2), NumberText(40)>>), Json(<<Number(3), Number(-2)>>)}
  \cup {Static(<<v>>) :
         v \in {NotFinite(TRUE), NotFinite(FALSE), BoolWord(TRUE), BoolWord(FALSE), Digits(20),
                NullText, ListText(<<>>), ListText(<<Number(3)>>), ListText(<<NotFinite(TRUE)>>),
                ListText(<<Number(2), Number(40)>>), ListText(<<Word, BoolWord(TRUE)>>)}}
  \cup {Text(<<n>>, <<>>, FALSE) : n \in {-12, 4, 11}}
  \cup {Text(<<>>, <<n, 3>>, b) : n \in {-12, 4, 13}, b \in BOOLEAN}
  \cup {Json(<<v>>) :
         v \in {Bool(TRUE), Bool(FALSE), Null, NullText, Word, List(<<>>), List(<<Number(2)>>), List(<<Number(2), Number(40)>>),
                Object([a |-> Number(3)]), Object([a |-> Number(3), b |-> NumberText(5)]),
                Object([b |-> Word]), ObjectText([a |-> Number(3)]),
                Object([a |-> NotFinite(TRUE)]), List(<<NotFinite(FALSE), NumberText(4)>>),
                Hex(20, FALSE), Hex(20, TRUE), Hex(32, FALSE), Hex(32, TRUE),
                Object([address |-> Hex(20, FALSE)]), Object([address |-> Word]),
                List(<<Hex(20, FALSE), Hex(32, FALSE)>>)}}
MCParams ==
  {<<ty>> : ty \in IntegerTypes \cup {TextType, BoolType, AddressType, BytesType, FixedBytesType(32)}
                   \cup {SliceType(Integer("uint", s)) : s \in {"narrow", "w32"}}
                   \cup {ArrayType(Integer("int", "w64"), 2), ArrayType(TextType, 1),
                         SliceType(AddressType), SliceType(BytesType),
                         TupleType(Integer("uint", "narrow"))}}
  \cup {<<Integer("uint", "narrow"), Integer("int", "big")>>, <<>>}

(* Tasks that are sent alone, on both sides of every tolerance and limit,  *)
(* and a request of two.                                                   *)
Plain == [kind |-> "static", next |-> 2, exp |-> 3, seen |-> 0, execute |-> TRUE, args |-> "short",
          condition |-> [type |-> "equals", value |-> 0, lower |-> 0, upper |-> 0]]
Compared(type, value, lower, upper) ==
  [Plain EXCEPT !.kind = "condition", !.next = 0, !.exp = 1,
                !.condition = [type |-> type, value |-> value, lower |-> lower, upper |-> upper]]
MCRequests ==
  {<<t>> : t \in {Plain, [Plain EXCEPT !.args = "long"], [Plain EXCEPT !.args = "tuple"],
                  [Plain EXCEPT !.exp = 1],
                  [Plain EXCEPT !.kind = "dynamic"],
                  [Plain EXCEPT !.kind = "event", !.seen = 1, !.next = 0],
                  [Plain EXCEPT !.kind = "event", !.seen = 5],
                  [Plain EXCEPT !.kind = "custom"], [Plain EXCEPT !.kind = "custom", !.execute = FALSE]}}
  \cup {<<Compared(type, 2, l, u)>> :
         type \in {"greater", "greater_equal", "less", "less_equal", "equals", "not_equals", "between"},
         l \in {1, 2}, u \in {2, 3}}
  \cup {<<Plain, [Plain EXCEPT !.next = 3]>>}

Init ==
  /\ part \in {"script", "cache", "arguments", "calls", "sockets", "requests", "performances"}
  /\ ScriptInit /\ CacheInit /\ ArgInit /\ CallsInit /\ WsInit /\ PerfInit
  /\ part # "script" => entries = 1
  /\ disk[u2] = "absent" /\ (part # "cache" => disk[u1] = "absent")
  /\ part # "performances" => request = <<Plain>>

Next ==
  /\ UNCHANGED part
  /\ \/ part = "script" /\ ScriptNext /\ UNCHANGED <<cacheVars, argVars, callVars, wsVars, perfVars>>
     \/ part = "cache" /\ CacheNext /\ UNCHANGED <<scriptVars, argVars, callVars, wsVars, perfVars>>
     \/ part = "arguments" /\ ArgNext /\ UNCHANGED <<scriptVars, cacheVars, callVars, wsVars, perfVars>>
     \/ part = "calls" /\ CallsNext /\ UNCHANGED <<scriptVars, cacheVars, argVars, wsVars, perfVars>>
     \/ part \in {"sockets", "requests"} /\ WsNext /\ UNCHANGED <<scriptVars, cacheVars, argVars, callVars, perfVars>>
     \/ part = "performances" /\ PerfNext /\ UNCHANGED <<scriptVars, cacheVars, argVars, callVars, wsVars>>

Spec == Init /\ [][Next]_mcVars

\* Bounds.  After a restart two calls use the cache again.  Sockets that break and
\* dial again: one process, and of its two clients the first dials three times, or
\* twice beside the one that replaces it, which dials once.  Requests of two
\* processes, one of which disconnects: no socket breaks, no ping is under way and
\* nobody stops.
Bounds ==
  /\ part = "cache" => restarts = 0 \/ phase[f3] = "idle"
  /\ part = "sockets" => doing[x2] = "idle" /\ dialled[2] <= 1 /\ (made = 2 => dialled[1] <= 2)
  /\ part = "requests" => broken = {} /\ ~stopping /\ \A i \in Clients : pinger[i][1] # 1

\* The variables of each module have the shapes declared there.
TypeOK == ScriptTypeOK /\ CacheTypeOK /\ CallsTypeOK /\ WsTypeOK /\ PerfTypeOK
=============================================================================
