----------------------------- MODULE CallArguments -----------------------------
(***************************************************************************)
(* How a keeper makes the arguments of a contract call: static arguments   *)
(* are strings, those of a dynamic task are found in the output of its     *)
(* script; each is then converted to the type of its parameter.  Before    *)
(* that, the gas of the call is estimated, for which the same values are   *)
(* converted by other code; the fee is charged by the call itself.         *)
(*                                                                         *)
(* The widths are scaled down and keep their order: a float64 has the      *)
(* integers of uint32 exactly and those of uint64 not.  Numbers are counted *)
(* in halves, so that truncation shows.  Where Go leaves the conversion of *)
(* a float to an integer to the implementation, it may give any value.     *)
(* Lists and objects, and the types that hold them, are nested once.       *)
(***************************************************************************)
EXTENDS Integers, Sequences, FiniteSets, FiniteSetsExt, SequencesExt

CONSTANTS
  Narrow, W32, W64, W256,  \* bits of uint8 and uint16, uint32, uint64, uint256
  Mantissa,                \* bits of a float64 that are significant
  Significant,             \* the least number (100) taken from free text
  Sources,                 \* outputs of scripts, and static arguments
  ParamLists               \* the parameters of the methods called

Width == [narrow |-> Narrow, w32 |-> W32, w64 |-> W64, big |-> W256]
Integer(t, s) == [t |-> t, size |-> s]
IntegerTypes == {Integer(t, s) : t \in {"uint", "int"}, s \in DOMAIN Width}

\* A list; a value whose numbers are integers, and one whose parts are such.
IsList(s) == Len(s) \in Nat /\ DOMAIN s = 1..Len(s)
IsPlain(v) == v.k \in {"number", "text"} => v.n \in Int
ListKinds == {"list", "list text", "null text"}
ObjectKinds == {"object", "object text", "null text"}
IsValue(v) ==
  /\ IsPlain(v)
  /\ v.k \in ListKinds => \A n \in DOMAIN v.items : IsPlain(v.items[n])
  /\ v.k \in ObjectKinds => \A x \in DOMAIN v.fields : IsPlain(v.fields[x])

ASSUME CallArgumentsAssumption ==
  /\ {Narrow, W32, W64, W256, Mantissa} \subseteq Nat \ {0}
  /\ Narrow < W32 /\ W32 <= Mantissa /\ Mantissa < W64 /\ W64 < W256
  /\ Significant \in Nat
  /\ \A s \in Sources : /\ s.responses \in Seq(Int) /\ s.numbers \in Seq(Int)
                         /\ IsList(s.json) /\ \A n \in DOMAIN s.json : IsValue(s.json[n])
  /\ \A p \in ParamLists : /\ IsList(p)
                            /\ \A n \in DOMAIN p : p[n].t \in {"uint", "int"} => p[n] \in IntegerTypes

VARIABLES
  source,   \* what the arguments are made from
  params,   \* the types of the parameters
  args,     \* the values found, before they are converted
  call,     \* the converted arguments
  estimate, \* the arguments the gas was estimated for
  charge,   \* "gas": at the current price; "flat": without it, the estimation
            \* failed; "free": no fee at all
  argsAt    \* "idle", "output", "estimated", "found", "built", "refused"

argVars == <<source, params, args, call, estimate, charge, argsAt>>

Pow2[n \in Nat] == IF n = 0 THEN 1 ELSE 2 * Pow2[n - 1]

AbsHalf(n) == IF n < 0 THEN -n ELSE n
\* Towards zero, from halves to integers.
Trunc(n) == IF n < 0 THEN -((-n) \div 2) ELSE n \div 2

\* The float64 next to n (ties to even): at most Mantissa significant bits.
FloatOf(n) ==
  LET a == AbsHalf(n)
      k == CHOOSE e \in 0..a : a < Pow2[Mantissa + 1 + e] /\ (e = 0 \/ a >= Pow2[Mantissa + e])
      q == a \div Pow2[k]
      rest == a % Pow2[k]
      up == 2 * rest > Pow2[k] \/ (2 * rest = Pow2[k] /\ q % 2 = 1)
      f == Pow2[k] * (IF k > 0 /\ up THEN q + 1 ELSE q)
  IN  IF n < 0 THEN -f ELSE f

UintRange(w) == 0..(Pow2[w] - 1)
IntRange(w) == (-Pow2[w - 1])..(Pow2[w - 1] - 1)
RangeOf(ty) == IF ty.t = "uint" THEN UintRange(Width[ty.size]) ELSE IntRange(Width[ty.size])

\* Values: what json.Unmarshal gives ...
Number(n) == [k |-> "number", n |-> n]
Bool(b) == [k |-> "bool", b |-> b]
Null == [k |-> "null"]
List(s) == [k |-> "list", items |-> s]
Object(f) == [k |-> "object", fields |-> f]
\* ... and strings: digits, NaN or Inf, a word for true or false, bytes after 0x
\* (perhaps with what is no digit) or without it, JSON, or anything else.
NumberText(n) == [k |-> "text", n |-> n]
NotFinite(nan) == [k |-> "not finite", nan |-> nan]
BoolWord(b) == [k |-> "bool word", b |-> b]
Hex(n, bad) == [k |-> "hex", bytes |-> n, bad |-> bad]
Digits(n) == [k |-> "digits", bytes |-> n]
ListText(s) == [k |-> "list text", items |-> s]
ObjectText(f) == [k |-> "object text", fields |-> f]
NullText == [k |-> "null text", items |-> << >>, fields |-> << >>]
Word == [k |-> "word"]
Strings == {"text", "not finite", "bool word", "hex", "digits", "list text", "object text",
            "null text", "word"}

TextType == [t |-> "string"]
BoolType == [t |-> "bool"]
AddressType == [t |-> "address"]
BytesType == [t |-> "bytes"]
FixedBytesType(n) == [t |-> "fixed bytes", len |-> n]
AddressLength == 20
SliceType(e) == [t |-> "slice", of |-> e]
ArrayType(e, n) == [t |-> "array", of |-> e, len |-> n]
TupleType(e) == [t |-> "tuple", of |-> e]     \* a struct with the fields a and b
Fields == {"a", "b"}

\* A conversion gives the set of the values it may return; none is an error.

(* A faulty variant: uint8 and uint16 are not checked either.              *)
NoLowerBound(f, ty) ==
  IF f > 2 * (Pow2[Width[ty.size]] - 1) THEN {} ELSE {Trunc(f)}

\* uint8, uint16 and the signed sizes up to 32 bits are checked, and uint32 when
\* it comes from a string.
Checked(f, ty) ==
  LET r == RangeOf(ty)
  IN  IF f < 2 * Min(r) \/ f > 2 * Max(r) THEN {} ELSE {Trunc(f)}

\* uint64 and int64 are compared with limits that are rounded up to 2^64 and
\* 2^63 when they become floats.
Checked64(f, ty) ==
  LET r == RangeOf(ty)
  IN  IF f < 2 * Min(r) \/ f > 2 * (Max(r) + 1) THEN {}
      ELSE IF f = 2 * (Max(r) + 1) THEN r ELSE {Trunc(f)}

\* uint32(v) of a float64, and int64(v) on the way to a big.Int
Unchecked(f, r) == IF Trunc(f) \in r THEN {Trunc(f)} ELSE r

\* convertToInteger.  ParseFloat knows Inf, which is out of every range that is
\* checked, and NaN, which is below and above nothing.
ToInteger(v, ty) ==
  CASE v.k \in {"number", "text"} ->
         LET f == FloatOf(v.n)
         IN  CASE ty.size = "big" -> Unchecked(f, IntRange(W64))
               [] ty.size = "w64" -> Checked64(f, ty)
               [] ty = Integer("uint", "w32") /\ v.k = "number" -> Unchecked(f, UintRange(W32))
               [] OTHER -> Checked(f, ty)
    [] v.k = "not finite" /\ ty.size = "big" -> IntRange(W64)
    [] v.k = "not finite" /\ ty.size # "big" /\ v.nan -> RangeOf(ty)
    [] OTHER -> {}

\* convertToBool: ParseBool knows 0, 1 and the words.
ToBool(v) ==
  CASE v.k \in {"bool", "bool word"} -> {v.b}
    [] v.k = "number" -> {FloatOf(v.n) # 0}
    [] v.k = "text" /\ v.n \in {0, 2} -> {v.n = 2}
    [] OTHER -> {}

\* convertToString
ToString1(v) == IF v.k \in Strings \cup {"number", "object"} THEN {"text"} ELSE {}

\* convertToAddress: of a string, with 0x or without, or of the field "address" of
\* an object.
ToAddress(v) ==
  LET Parsed(h) == IF h.k \in {"hex", "digits"} /\ h.bytes = AddressLength /\ (h.k = "hex" => ~h.bad)
                   THEN {<<"bytes", h.bytes>>} ELSE {}
  IN  IF v.k = "object" /\ "address" \in DOMAIN v.fields THEN Parsed(v.fields["address"])
      ELSE Parsed(v)

\* convertToBytes: the bytes of a string that starts with 0x, up to the first that
\* is not of digits; the characters of another string, or of the JSON of an object.
ToBytes(v) ==
  CASE v.k = "hex" -> {<<"bytes", v.bytes>>}
    [] v.k \in (Strings \ {"hex"}) \cup {"object"} -> {<<"characters">>}
    [] OTHER -> {}

\* convertToFixedBytes: the length of what could be decoded must be the right one.
ToFixedBytes(v, ty) ==
  IF v.k = "hex" /\ v.bytes = ty.len THEN {<<"bytes", v.bytes>>} ELSE {}

Scalar(v, ty) ==
  CASE ty.t = "address" -> ToAddress(v)
    [] ty.t = "bytes" -> ToBytes(v)
    [] ty.t = "fixed bytes" -> ToFixedBytes(v, ty)
    [] ty.t \in {"uint", "int"} -> ToInteger(v, ty)
    [] ty.t = "bool" -> ToBool(v)
    [] ty.t = "string" -> ToString1(v)

\* One result for each element, and none when one of them has none.
Each(results) ==
  {r \in [DOMAIN results -> UNION {results[n] : n \in DOMAIN results}] :
     \A n \in DOMAIN results : r[n] \in results[n]}

\* convertToArray: of a list or of a string that is the JSON of one, as every
\* static argument is; null is a list of none.
ToArray(v, ty) ==
  IF v.k \notin ListKinds \/ (ty.t = "array" /\ Len(v.items) # ty.len) THEN {}
  ELSE Each([n \in DOMAIN v.items |-> Scalar(v.items[n], ty.of)])

\* convertToStruct: a field the object has not keeps its zero value; a string may
\* be the JSON of the object.
ToStruct(v, ty) ==
  IF v.k \notin ObjectKinds THEN {}
  ELSE Each([x \in Fields |-> IF x \in DOMAIN v.fields THEN Scalar(v.fields[x], ty.of) ELSE {0}])

\* convertToType
ToType(v, ty) ==
  CASE ty.t \in {"slice", "array"} -> ToArray(v, ty)
    [] ty.t = "tuple" -> ToStruct(v, ty)
    [] OTHER -> Scalar(v, ty)

\* processArguments with a list of values: too few are refused, more are ignored.
Built(a, p) ==
  IF Len(a) < Len(p) THEN {} ELSE Each([n \in DOMAIN p |-> ToType(a[n], p[n])])

\* The low bits of the absolute value, as a value of the type.
Wrapped(x, ty) ==
  LET w == Width[ty.size]
      low == (IF x < 0 THEN -x ELSE x) % Pow2[w]
  IN  IF ty.t = "int" /\ low >= Pow2[w - 1] THEN low - Pow2[w] ELSE low

\* convertArgsToABITypes of the gas estimator: a string must be an integer, of
\* digits or after 0x, and stays exact; the sizes up to 64 bits are cut out of the
\* absolute value.
EstimateInteger(v, ty) ==
  LET b == CASE v.k = "number" -> Unchecked(FloatOf(v.n), IntRange(W64))
             [] v.k = "text" /\ v.n % 2 = 0 -> {v.n \div 2}
             [] v.k = "hex" /\ ~v.bad -> UintRange(W256)
             [] OTHER -> {}
  IN  IF ty.size = "big" THEN b ELSE {Wrapped(x, ty) : x \in b}

\* Every string makes an address.  The prefix 0x of bytes is not cut off before the
\* string is decoded, which ends at it; fixed bytes made so, lists and objects
\* cannot be packed.
EstimateValue(v, ty) ==
  CASE ty.t \in {"uint", "int"} -> EstimateInteger(v, ty)
    [] ty.t = "bool" /\ v.k = "bool" -> {v.b}
    [] ty.t = "string" /\ v.k \in Strings -> {"text"}
    [] ty.t = "address" /\ v.k \in Strings -> {<<"bytes", AddressLength>>}
    [] ty.t = "bytes" /\ v.k = "hex" -> {<<"bytes", 0>>}
    [] OTHER -> {}

Estimated(a, p) ==
  IF Len(a) # Len(p) THEN {} ELSE Each([n \in DOMAIN p |-> EstimateValue(a[n], p[n])])

\* The elements of s that are in A.
Picked(s, A) == FlattenSeq([n \in 1..Len(s) |-> IF s[n] \in A THEN <<s[n]>> ELSE << >>])

\* parseDynamicArgs: a JSON array with elements; else the numbers printed after
\* "Response:"; else the significant numbers of the text, the sign of which is
\* not part of the pattern; else true, for a satisfied condition; else "0".
Found(s) ==
  LET responses == Picked(s.responses, Nat)
      printed == Picked(s.responses \o s.numbers, {n \in Int : AbsHalf(n) > 2 * Significant})
      Values(ns) == [n \in DOMAIN ns |-> Number(FloatOf(AbsHalf(ns[n])))]
  IN  IF s.json # << >> THEN s.json
      ELSE IF responses # << >> THEN Values(responses)
      ELSE IF printed # << >> THEN Values(printed)
      ELSE IF s.satisfied THEN << Bool(TRUE) >>
      ELSE << NumberText(0) >>

\* The output of a script: the elements of a JSON array, or a text.
Json(vs) == [kind |-> "output", json |-> vs, responses |-> << >>, numbers |-> << >>, satisfied |-> FALSE]
Text(rs, ns, b) == [kind |-> "output", json |-> << >>, responses |-> rs, numbers |-> ns, satisfied |-> b]
Static(vs) == [kind |-> "static", json |-> vs, responses |-> << >>, numbers |-> << >>, satisfied |-> FALSE]

ArgInit ==
  /\ source = Static(<< >>) /\ params = << >>
  /\ args = << >> /\ call = << >> /\ estimate = << >>
  /\ charge = "free" /\ argsAt = "idle"

\* executeAction: the method is found in the ABI and the script has run.
RunForArguments(s, p) ==
  /\ argsAt = "idle"
  /\ source' = s /\ params' = p
  /\ argsAt' = "output"
  /\ UNCHANGED <<args, call, estimate, charge>>

\* calculateFees: without the price of ether nothing is charged, and a price of 0
\* makes the fee nil: the sum panics and the request fails.
FeeUnknown ==
  /\ argsAt = "output"
  /\ charge' = "free"
  /\ argsAt' \in {"estimated", "refused"}
  /\ UNCHANGED <<source, params, args, call, estimate>>

\* The arguments are those of a JSON array; a text has none.
EstimateGas ==
  /\ argsAt = "output"
  /\ LET es == Estimated(source.json, params)
     IN  IF es = {} THEN charge' = "flat" /\ UNCHANGED estimate
                    ELSE charge' = "gas" /\ estimate' \in es
  /\ argsAt' = "estimated"
  /\ UNCHANGED <<source, params, args, call>>

\* parseStaticArgs or parseDynamicArgs
FindArguments ==
  /\ argsAt = "estimated"
  /\ args' = IF source.kind = "static" THEN source.json ELSE Found(source)
  /\ argsAt' = "found"
  /\ UNCHANGED <<source, params, call, estimate, charge>>

BuildCall ==
  /\ argsAt = "found"
  /\ call' \in Built(args, params)
  /\ argsAt' = "built"
  /\ UNCHANGED <<source, params, args, estimate, charge>>

RefuseCall ==
  /\ argsAt = "found" /\ Built(args, params) = {}
  /\ argsAt' = "refused"
  /\ UNCHANGED <<source, params, args, call, estimate, charge>>

ArgNext ==
  \/ \E s \in Sources, p \in ParamLists : RunForArguments(s, p)
  \/ FeeUnknown \/ EstimateGas \/ FindArguments \/ BuildCall \/ RefuseCall

ArgSpec == ArgInit /\ [][ArgNext]_argVars

-----------------------------------------------------------------------------
\* Where a number is converted although the type has no such value: a uint32
\* from a number of a JSON array; the float 2^64 or 2^63; whatever goes through
\* int64 to a wider type, Inf included; and NaN.
Loose(v, ty) ==
  \/ v.k = "not finite" /\ (v.nan \/ ty.size = "big")
  \/ /\ v.k \in {"number", "text"}
     /\ LET f == FloatOf(v.n)
        IN  \/ ty = Integer("uint", "w32") /\ v.k = "number" /\ Trunc(f) \notin RangeOf(ty)
            \/ ty.size = "w64" /\ f = 2 * (Max(RangeOf(ty)) + 1)
            \/ ty.size = "big" /\ Trunc(f) \notin IntRange(W64) \cap RangeOf(ty)

IntegerIsExact(v, ty, x) ==
  \/ Loose(v, ty)
  \/ /\ v.k \in {"number", "text"}
     /\ x \in RangeOf(ty) /\ x = Trunc(FloatOf(v.n))
     /\ AbsHalf(v.n) <= Pow2[Mantissa + 1] => x = Trunc(v.n)

IsExact(v, ty, x) ==
  CASE ty.t \in {"uint", "int"} -> IntegerIsExact(v, ty, x)
    [] ty.t \in {"slice", "array"} ->
         /\ DOMAIN x = DOMAIN v.items
         /\ ty.of \in IntegerTypes => \A n \in DOMAIN x : IntegerIsExact(v.items[n], ty.of, x[n])
    [] ty.t = "address" -> x = <<"bytes", AddressLength>>
    [] ty.t = "fixed bytes" -> x = <<"bytes", ty.len>>
    [] ty.t = "bytes" -> v.k = "hex" => x = <<"bytes", v.bytes>>
    [] ty.t = "tuple" ->
         \A a \in Fields : IF a \notin DOMAIN v.fields THEN x[a] = 0
                           ELSE ty.of \in IntegerTypes => IntegerIsExact(v.fields[a], ty.of, x[a])
    [] OTHER -> TRUE

\* A call is made with one argument for each parameter, bytes are those of the
\* string and as many as the type wants, a list has as many elements as the script
\* or the user gave it, and an integer is the number given, cut off towards zero and
\* exact up to 53 bits; or there is no call.  It is another number only where the
\* type cannot hold what was given and the converter does not look, or where what
\* was given is the string NaN, which passes every comparison of the converter.
CallIsExact ==
  argsAt = "built" =>
    /\ DOMAIN call = DOMAIN params
    /\ \A n \in DOMAIN params : IsExact(args[n], params[n], call[n])

=============================================================================
