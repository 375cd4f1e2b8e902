------------------------------- MODULE PyArgs -------------------------------
(***************************************************************************)
(* How the wrapper functions of pywraprpcz.cpp take positional and keyword *)
(* arguments, and how values go from Python to C++ and back.  The wrappers *)
(* count down the keywords they have used, and look for unknown and        *)
(* repeated ones only if some are left.                                    *)
(*                                                                         *)
(* Abstractions: a byte string is the sequence of its bytes; the integers  *)
(* have the widths IntBits and LongBits, smaller than in C++.              *)
(***************************************************************************)
EXTENDS Integers, Sequences, FiniteSets

CONSTANTS
    IntBits,     \* width of int
    LongBits     \* width of long

ASSUME WidthAssumption == IntBits \in Nat \ {0} /\ LongBits \in Nat /\ IntBits < LongBits

TypeError == [ok |-> FALSE, values |-> <<>>]

IgnoreKeywords(kw, names, npos) == TRUE

\* __Pyx_ParseOptionalKeywords() without kwds2: every keyword must name an
\* argument after the positional ones.
ParseOptionalKeywords(kw, names, npos) ==
    \A key \in DOMAIN kw : \E i \in npos + 1 .. Len(names) : names[i] = key

\* The unpacking of the arguments pos and kw of a function with these names, of
\* which the first "required" have no default.
Unpack(pos, kw, names, required) ==
    LET npos    == Len(pos)
        asked   == {i \in npos + 1 .. Len(names) : names[i] \in DOMAIN kw}
        kw_args == Cardinality(DOMAIN kw) - Cardinality(asked)
        value(i) == CASE i <= npos -> pos[i] [] i \in asked -> kw[names[i]] [] OTHER -> "default"
    IN IF \/ npos > Len(names)
          \/ ~(npos + 1 .. required \subseteq asked)
          \/ kw_args > 0 /\ ~ParseOptionalKeywords(kw, names, npos)
         THEN TypeError
         ELSE [ok |-> TRUE, values |-> [i \in DOMAIN names |-> value(i)]]

\* RpcChannel.call_method(), ServerChannel.send_error(), Server.register_service()
CallMethodNames == <<"service_name", "method_name", "request", "response",
                     "rpc_controller", "callback">>
SendErrorNames  == <<"application_error_code", "error_string">>
RegisterNames   == <<"service", "name">>

call_method_args(pos, kw)      == Unpack(pos, kw, CallMethodNames, 6)
send_error_args(pos, kw)       == Unpack(pos, kw, SendErrorNames, 1)
register_service_args(pos, kw) == Unpack(pos, kw, RegisterNames, 1)

\* __Pyx_CheckKeywordStrings(): __cinit__() and __init__() take nothing.
no_args(pos, kw) == pos = <<>> /\ DOMAIN kw = {}

\* What a call means in Python: each argument has one source at most.
Sources(i, pos, kw, names) ==
    (IF i <= Len(pos) THEN {pos[i]} ELSE {}) \cup
    (IF names[i] \in DOMAIN kw THEN {kw[names[i]]} ELSE {})

\* r is the outcome that the language defines for a call.
Bound(r, pos, kw, names, required) ==
    r.ok <=> /\ Len(pos) <= Len(names)
             /\ DOMAIN kw \subseteq {names[i] : i \in DOMAIN names}
             /\ \A i \in DOMAIN names :
                   /\ Cardinality(Sources(i, pos, kw, names)) <= 1
                   /\ i <= required => Sources(i, pos, kw, names) # {}
                   /\ Sources(i, pos, kw, names) # {} =>
                         r.ok /\ r.values[i] \in Sources(i, pos, kw, names)

-----------------------------------------------------------------------------
(* Values: [type |-> "int", n], [type |-> "float", n], of which n is the    *)
(* integral part, [type |-> "bytes", s] or [type |-> "none"]                *)

PyNumber(n) == [type |-> "int", n |-> n]
PyBytes(s)  == [type |-> "bytes", s |-> s]

Fits(n, bits)      == -(2 ^ (bits - 1)) <= n /\ n < 2 ^ (bits - 1)
Truncated(n, bits) == ((n + 2 ^ (bits - 1)) % 2 ^ bits) - 2 ^ (bits - 1)

\* What a conversion function returns, and whether an exception is pending.
Result(val, pending) == [val |-> val, pending |-> pending]

\* __Pyx_PyNumber_Int(): nb_int() of a float drops the fraction.
PyNumber_Int(x) == IF x.type \in {"int", "float"} THEN {PyNumber(x.n)} ELSE {}

\* __Pyx_PyInt_AsLong()
AsLong(x) ==
    IF \E i \in PyNumber_Int(x) : Fits(i.n, LongBits) THEN Result(x.n, FALSE)
                                                     ELSE Result(-1, TRUE)

\* __Pyx_PyInt_AsInt(): a long that an int cannot hold is an OverflowError.
AsInt(x) ==
    LET l == AsLong(x) IN
    IF l.val # Truncated(l.val, IntBits) THEN Result(-1, TRUE) ELSE l

\* The callers of both: -1 is an error only if an exception is pending.
Checked(r) == IF r.val = -1 /\ r.pending THEN {} ELSE {r.val}

\* make_string(): the buffer and its length, or an exception
make_string(x) == IF x.type = "bytes" THEN {SubSeq(x.s, 1, Len(x.s))} ELSE {}

\* string_ptr_to_pystring(), cstring_to_pystring(), string_to_pystring()
string_ptr_to_pystring(s)    == PyBytes(SubSeq(s, 1, Len(s)))
cstring_to_pystring(s, size) == PyBytes(SubSeq(s, 1, size))
string_to_pystring(s)        == PyBytes(SubSeq(s, 1, Len(s)))

\* RpcController.deadline_ms: what is stored, if the setter does not raise, and
\* what the getter returns for it
deadline_ms_set(x) == Checked(AsLong(x))
deadline_ms_get(n) == PyNumber(n)

\* The code and the message that send_error() passes on, and the properties of
\* RpcController that return them
send_error_code(x)        == Checked(AsInt(x))
application_error_code(n) == PyNumber(n)
error_message(s)          == string_to_pystring(s)

\* Whatever reaches the C++ code for x in an integer of that width is x, but for
\* the fraction of a float, and is x again when it is read: -1, too.
NumberArrives(x, r, bits, back(_)) ==
    /\ r = IF x.type \in {"int", "float"} /\ Fits(x.n, bits) THEN {x.n} ELSE {}
    /\ x.type = "int" => \A v \in r : back(v) = x

\* A byte string arrives complete, its zero bytes included.
BytesArrive(x, back(_)) ==
    /\ make_string(x) # {} <=> x.type = "bytes"
    /\ \A s \in make_string(x) : back(s) = x
=============================================================================
