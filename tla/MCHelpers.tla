----------------------------- MODULE MCHelpers -----------------------------
(***************************************************************************)
(* The parts of the library that are algorithms: message framing, closures,*)
(* argument unpacking of the Python binding and the protoc plugins.  A     *)
(* behaviour either uses closures or picks one input, and the properties   *)
(* state what the algorithms make of it.                                   *)
(***************************************************************************)
EXTENDS Framing, Closure, PyArgs, Plugin

CONSTANTS
    MaxFrames,      \* bound on the frames of a message from outside
    MaxPositional,  \* bound on the positional arguments, of which there are seven
    MaxNameLength,  \* bound on the characters of a file name
    MaxFileSize,    \* bound on the size of a serialized file descriptor
    MaxBytes        \* bound on the bytes of a Python string

ASSUME PositionalAssumption == MaxPositional \in 0 .. 7

VARIABLES part, input

hvars == <<part, input, cvars>>

NoInput == [kind |-> "none"]

-----------------------------------------------------------------------------
(* Inputs                                                                  *)

Str(s, n) == [s |-> s, length |-> n]
Me == Str("frontend identity", 5)

Endpoint == Str("endpoint", 12)
Infos ==
    [is_router : {TRUE}, index : {1}, sender : {Str("peer", 5)}] \cup
    [is_router : {FALSE}, index : {1}, sender : {Str("", 0)}]
\* header and payload: a payload may be empty.
Datas == {<<Str("header", 9), Str("payload", n)>> : n \in {0, 8}}

Commands ==
    [cmd : {"kConnect", "kBind", "kUnbind"}, endpoint : {Endpoint}] \cup
    [cmd : {"kRunClosure"}, ptr : {7}] \cup [cmd : {"kQuit"}] \cup
    [cmd : {"kRequest"}, info : Infos, ptr : {7}, data : Datas] \cup
    [cmd : {"kReply"}, info : Infos, data : Datas] \cup
    [cmd : {"kRegisterSvc"}, info : Infos, name : {Str("service", 7)}, ptr : {7}]

\* Any message, from a peer that is not this library.
ForeignMessages ==
    {[i \in DOMAIN sizes |-> Frame(sizes[i], Str("foreign", sizes[i]), i < Len(sizes))] :
        sizes \in UNION {[1 .. n -> {0, 1, 8}] : n \in 1 .. MaxFrames}}

Functions_ == {"call_method", "send_error", "register_service"}
NamesOf(fn) == CASE fn = "call_method" -> CallMethodNames
                 [] fn = "send_error" -> SendErrorNames
                 [] fn = "register_service" -> RegisterNames
RequiredOf(fn) == IF fn = "call_method" THEN 6 ELSE 1
Positional == [i \in 1 .. 7 |-> <<"p1", "p2", "p3", "p4", "p5", "p6", "p7">>[i]]
Keywords(fn) == SUBSET ({NamesOf(fn)[i] : i \in DOMAIN NamesOf(fn)} \cup {"other"})

\* Numbers around the limits of int and long; strings with zero bytes
Numbers == -(2 ^ LongBits) .. 2 ^ LongBits
PyValues ==
    [type : {"int", "float"}, n : Numbers] \cup [type : {"none"}] \cup
    [type : {"bytes"}, s : UNION {[1 .. n -> {0, 1}] : n \in 0 .. MaxBytes}]

\* The characters / _ 2 5 and f
FileCodes == UNION {[1 .. n -> {47, 95, 50, 53, 102}] : n \in 1 .. MaxNameLength}

\* A file f with a dependency d, which imports p publicly.  The letters are ASCII
\* codes; the names of the two services differ in the case of a letter.
OwnType == [path |-> <<<<84>>, <<85>>>>, file |-> <<102>>]
DepType == [path |-> <<<<84>>>>, file |-> <<100>>]
PubType == [path |-> <<<<84>>>>, file |-> <<112>>]
Dep     == [name |-> <<100>>, types |-> {DepType}, public |-> {PubType}]

\* Method names are different within a service, as protoc requires.  They are not
\* the name of the service and no C++ keywords.
MethodNames ==
    {<<"a">>, <<"b">>, <<"async_", "a">>, <<"a", "_Handler">>, <<"Stub">>, <<"conn_">>}
Methods  == [name : MethodNames, in : {OwnType, DepType}, out : {OwnType, PubType}]
MethodLists == {ms \in UNION {[1 .. n -> Methods] : n \in 1 .. 2} :
                   \A i, j \in DOMAIN ms : i # j => ms[i].name # ms[j].name}
SecondService == [name |-> <<115>>, options |-> FALSE,
                  methods |-> <<[name |-> <<"b">>, in |-> OwnType, out |-> DepType]>>]
ServiceLists == {<<>>} \cup
    {<<[name |-> <<83>>, options |-> o, methods |-> ms], SecondService>> :
        o \in BOOLEAN, ms \in MethodLists}
Files == [name : {<<102>>}, lite : BOOLEAN, descriptor_proto : BOOLEAN, types : {{OwnType}},
          deps : {{Dep}}, services : ServiceLists]
Options == {<<>>, <<"dllexport_decl">>, <<"dllexport_decl", "other">>}
ProtoNames == {<<"dir", "/", "my", "-", "svc", suffix>> : suffix \in {".proto", ".protodevel", ".txt"}}
Packages   == UNION {[1 .. n -> {"pkg", "sub"}] : n \in 0 .. 2}

-----------------------------------------------------------------------------
HInit == CInit /\ part \in {"closure", "input"} /\ input = NoInput

Pick(S) == part = "input" /\ input = NoInput /\ input' \in S /\ UNCHANGED <<part, cvars>>

HNext ==
    \/ part = "closure" /\ CNext /\ UNCHANGED <<part, input>>
    \/ Pick([kind : {"commands"}, first : Commands, second : Commands])
    \/ Pick([kind : {"foreign"}, message : ForeignMessages, data : Datas])
    \/ \E fn \in Functions_ :
          Pick([kind : {"args"}, fn : {fn}, npos : 0 .. MaxPositional, kws : Keywords(fn)])
    \/ Pick([kind : {"value"}, value : PyValues])
    \/ Pick([kind : {"codes"}, name : FileCodes])
    \/ Pick([kind : {"service"}, file : Files])
    \/ Pick([kind : {"file"}, name : ProtoNames, package : Packages, size : 0 .. MaxFileSize,
             options : Options])

HSpec == HInit /\ [][HNext]_hvars

-----------------------------------------------------------------------------
(* Properties                                                              *)

Info(info) == IF info.is_router THEN <<info.is_router, info.index, info.sender>>
                                ELSE <<info.is_router, info.index>>

\* What the handler of a command must have read.
Fields(c) ==
    CASE c.cmd \in {"kConnect", "kBind", "kUnbind"} -> <<c.endpoint>>
      [] c.cmd = "kRunClosure"  -> <<c.ptr>>
      [] c.cmd = "kQuit"        -> <<>>
      [] c.cmd = "kRequest"     -> Append(Info(c.info), c.ptr)
      [] c.cmd = "kReply"       -> Info(c.info)
      [] c.cmd = "kRegisterSvc" -> Info(c.info) \o <<c.name, c.ptr>>

\* How the other process receives what the broker forwarded: a ROUTER took the
\* identity away, a ROUTER on the other side puts one before it.
Received(info, out) ==
    IF info.is_router THEN handle_dealer_socket(Tail(out))
                      ELSE handle_router_socket(AddIdentity(Me, out))

CommandUnderstood(c, then) ==
    LET it == handle_frontend_socket(AddIdentity(Me, Written(c)) \o then)
        r  == Received(c.info, forward_to(c.info, it))
    IN /\ it.ok
       /\ SubSeq(it.got, 4, Len(it.got)) = Fields(c)
       /\ Drained(it) = then
       /\ c.cmd \in {"kRequest", "kReply"} =>
             r.it.ok /\ ~r.it.has_more /\ r.data = c.data

ForeignHarmless(m, data) ==
    LET good == send_empty_message(SNDMORE) \o write_vector_to_socket(data)
        asRouter == handle_router_socket(AddIdentity(Me, m) \o good)
        asDealer == handle_dealer_socket(m \o good)
    IN /\ asRouter.it.ok /\ Drained(asRouter.it) = good
       /\ asDealer.it.ok /\ Drained(asDealer.it) = good
       /\ handle_dealer_socket(good).data = data

AnswersUnderstood ==
    /\ LET b == ReadBindAnswer(IndexAnswer(1)) IN b.ok /\ b.got[2] = 1
    /\ LET c == ReadTwo(IndexAnswer(1)) IN c.ok /\ c.got[2] = 1 /\ ~c.has_more
    /\ LET u == ReadTwo(UnbindAnswer) IN u.ok /\ ~u.has_more

\* The broker reads of every command exactly what connection, manager and
\* connect() wrote, fails no assertion and leaves the next message alone;
\* the other process gets the header and the payload; and a message of any
\* other shape from outside neither blocks a thread nor damages the next one.
MessagesUnderstood ==
    /\ input.kind = "commands" =>
          /\ CommandUnderstood(input.first, AddIdentity(Me, Written(input.second)))
          /\ AnswersUnderstood
    /\ input.kind = "foreign" => ForeignHarmless(input.message, input.data)

\* The wrappers of call_method(), send_error() and register_service() bind their
\* arguments as Python defines it, though they look for unknown and repeated
\* keywords only if some are left over; __cinit__() takes none.  A deadline, an
\* error code, a name and a payload reach the other side as they are, or the
\* call raises, though -1 is also the mark of an error.
ArgumentsBound ==
    /\ input.kind = "args" =>
          LET pos == SubSeq(Positional, 1, input.npos)
              kw  == [k \in input.kws |-> k]
              r   == CASE input.fn = "call_method" -> call_method_args(pos, kw)
                       [] input.fn = "send_error" -> send_error_args(pos, kw)
                       [] input.fn = "register_service" -> register_service_args(pos, kw)
          IN /\ Bound(r, pos, kw, NamesOf(input.fn), RequiredOf(input.fn))
             /\ Bound([ok |-> no_args(pos, kw), values |-> <<>>], pos, kw, <<>>, 0)
    /\ input.kind = "value" =>
          LET x == input.value
              payload(s) == cstring_to_pystring(s, Len(s))
          IN /\ NumberArrives(x, deadline_ms_set(x), LongBits, deadline_ms_get)
             /\ NumberArrives(x, send_error_code(x), IntBits, application_error_code)
             /\ BytesArrive(x, string_ptr_to_pystring)
             /\ BytesArrive(x, payload)
             /\ BytesArrive(x, error_message)

\* A stub call in C++ reaches method i of service j of a file: the descriptor that
\* the class got names the service and the method in the request, and there it
\* leads to the case of the switch and to the types.
CppReaches(f, j, i) ==
    LET s == f.services[j]
        d == f.services[DescriptorInitializer(f, j)]
        r == StubRequest(s, i)
        k == FindMethodByName(d, d.methods[r.method].name)
    IN /\ r.method \in DOMAIN d.methods
       /\ d.name = s.name /\ d.methods[r.method].name = s.methods[i].name
       /\ k \in DOMAIN s.methods
       /\ CallMethodCase(s, k) =
             [calls |-> s.methods[i].name, casts |-> GetPrototype(s, "REQUEST", k)]
       /\ r.parses = GetPrototype(s, "RESPONSE", k)

\* The same in Python; the class and the stub of service j are the statements
\* 3 j - 1 and 3 j of the module.
PythonReaches(f, j, i) ==
    LET m == f.services[j].methods[i]
        served == GeneratedServiceType(ClassDescriptor(PrintServices(f), 3 * j - 1))
        called == GeneratedServiceStubType(ClassDescriptor(PrintServices(f), 3 * j))
    IN /\ m.name \in DOMAIN called
       /\ called[m.name] = [service_name |-> f.services[j].name, method |-> m.name,
                            response |-> ModuleLevelDescriptorName(m.out)]
       /\ m.name \in DOMAIN served
       /\ served[m.name].index = i
       /\ served[m.name].input_type = ModuleLevelDescriptorName(m.in)

\* A call of a generated stub method reaches the method of that name, with the
\* request type and the response type of that method, whichever service of the
\* file it belongs to and whether either side is C++ or Python: although Python
\* uses one variable for services whose names differ in case only.
StubReachesMethod ==
    input.kind = "service" =>
        \A j \in DOMAIN input.file.services : \A i \in DOMAIN input.file.services[j].methods :
            CppReaches(input.file, j, i) /\ PythonReaches(input.file, j, i)

\* A method named like the asynchronous variant of another one, with the same
\* request type, makes overloads that are the same.
AsyncClash(s) ==
    \E i, j \in DOMAIN s.methods :
        s.methods[i].name = Async(s.methods[j].name) /\ s.methods[i].in = s.methods[j].in

\* A method named like a type that its class defines, or that its asynchronous
\* variant is named like, or named like a member that the stub's functions use.
TypeClash(s) ==
    \E i \in DOMAIN s.methods :
        LET n == s.methods[i].name IN
        \/ n \in {StubTypedef} \cup ServiceStubMembers
        \/ \E k \in DOMAIN s.methods : HandlerTypedef(s.methods[k]) \in {n, Async(n)}

\* The names of functions, and those of the types and of the inherited members of
\* the interface and of the stub
FunctionNames(q) == {q[i].name : i \in DOMAIN q}
StubFunctions(s) == AllOf(s, StubDeclarations) \o AllOf(s, StubInline)
OtherNames(s)    == ServiceStubMembers \cup
    {HandlerTypedef(s.methods[i]) : i \in DOMAIN s.methods}
NamesOnce(s) ==
    /\ StubTypedef \notin FunctionNames(AllOf(s, InterfaceMethod))
    /\ FunctionNames(StubFunctions(s)) \cap OtherNames(s) = {}

\* The C++ files: no name is used before it is declared, unless the file is for
\* the lite runtime, for which protobuf_AssignDescriptorsOnce() is missing; what
\* is declared, but for classes and types, is defined once; no two overloads of a
\* class are the same, but for AsyncClash; and no function of a class has the
\* name of one of its types or hides a member that is used, but for TypeClash.
CppCompiles(f) ==
    LET text   == GenerateHeader(f) \o GenerateSource(f)
        before(i) == {text[k].name : k \in 1 .. i - 1} \cup HeaderIncludes(f)
        definitions(n) == {k \in DOMAIN text : text[k].op = "define" /\ text[k].name = n}
        clash  == \E j \in DOMAIN f.services : AsyncClash(f.services[j])
        missing == IF f.lite THEN {Assign(f)} ELSE {}
    IN /\ (\A i \in DOMAIN text : text[i].uses \subseteq before(i))
             <=> (f.lite => f.services = <<>>)
       /\ (\A i \in DOMAIN text :
             /\ text[i].op = "declare" /\ text[i].name[1] \notin {"class", "typedef"}
             /\ text[i].name \notin missing
             => Cardinality(definitions(text[i].name)) = 1) <=> ~clash
       /\ \A j \in DOMAIN f.services :
             LET s == f.services[j] IN
             /\ IsInjective(StubFunctions(s)) <=> ~AsyncClash(s)
             /\ NamesOnce(s) <=> ~TypeClash(s)

\* The Python module: what it uses is imported, but for types that a dependency
\* imports publicly.
PythonLoads(f) ==
    LET module == PrintServices(f)
        used == UNION {module[k].uses : k \in DOMAIN module}
        types == UNION {TypesOf(f.services[j]) : j \in DOMAIN f.services}
    IN used \subseteq PrintTopBoilerplate(f) \cup PrintImports(f) <=> PubType \notin types

\* What the plugins generate fits together: the C++ files compile and link, the
\* Python module can be imported and finds what it uses, with the exceptions that
\* CppCompiles and PythonLoads name; namespaces are closed as they were opened;
\* the source includes the header that was written (but for .protodevel), if the
\* options are known; the serialized descriptor is complete; different files
\* have different global names.
GeneratedCodeFits ==
    /\ input.kind = "service" => CppCompiles(input.file) /\ PythonLoads(input.file)
    /\ input.kind = "file" =>
          LET f == input.name
              chunks == Chunks(input.size)
              known == \A i \in DOMAIN input.options : input.options[i] = "dllexport_decl"
          IN /\ NamespaceClosers(input.package) = Reverse(NamespaceOpeners(input.package))
             /\ IncludedHeader(f) \in CppFiles(f, input.options) <=> known /\ Last(f) # ".protodevel"
             /\ \A i \in DOMAIN PythonFile(f) : PythonFile(f)[i] # "-"
             /\ \A i \in DOMAIN chunks :
                   /\ chunks[i].from < chunks[i].to
                   /\ chunks[i].from = (IF i = 1 THEN 0 ELSE chunks[i - 1].to)
                   /\ i = Len(chunks) => chunks[i].to = input.size
             /\ chunks = <<>> <=> input.size = 0
    /\ input.kind = "codes" =>
          \A g \in FileCodes : g # input.name =>
              GlobalAddDescriptorsName(g) # GlobalAddDescriptorsName(input.name)
=============================================================================
