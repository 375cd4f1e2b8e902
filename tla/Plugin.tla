------------------------------- MODULE Plugin -------------------------------
(***************************************************************************)
(* The protoc plugins: which files, names, declarations and dispatch       *)
(* tables they generate for the services of a .proto file.                 *)
(*                                                                         *)
(* Abstractions: of the generated text there is what the C++ compiler, the *)
(* Python interpreter and the library tell apart: names, signatures,       *)
(* indexes and types.  A name is a sequence of pieces; only the encoding   *)
(* of file names looks at characters, which are their ASCII codes.         *)
(***************************************************************************)
EXTENDS Naturals, Sequences, SequencesExt

-----------------------------------------------------------------------------
(* Names                                                                   *)

Underscore == 95

ascii_isalnum(c) == c \in 97 .. 122 \cup 65 .. 90 \cup 48 .. 57

\* FastHexToBuffer(), of a character that is not a control character.
HexDigit(d) == IF d < 10 THEN 48 + d ELSE 87 + d
FastHex(c)  == <<HexDigit(c \div 16), HexDigit(c % 16)>>

PlainUnderscore(c) == IF ascii_isalnum(c) THEN <<c>> ELSE <<Underscore>>
IdentifierOf(c)    == IF ascii_isalnum(c) THEN <<c>> ELSE <<Underscore>> \o FastHex(c)

\* FilenameIdentifier(): part of the include guard and of the global names.
FilenameIdentifier(f) == FlattenSeq([i \in DOMAIN f |-> IdentifierOf(f[i])])

GlobalAddDescriptorsName(f)    == <<"protobuf_AddDesc_", FilenameIdentifier(f)>>
GlobalAssignDescriptorsName(f) == <<"protobuf_AssignDesc_", FilenameIdentifier(f)>>
GlobalShutdownFileName(f)      == <<"protobuf_ShutdownFile_", FilenameIdentifier(f)>>

HasSuffixString(s, suffix) == s # <<>> /\ Last(s) = suffix
StripSuffixString(s, suffix) == IF HasSuffixString(s, suffix) THEN Front(s) ELSE s

\* StripProto() of the C++ and of the Python plugin
StripProto(f) ==
    StripSuffixString(f, IF HasSuffixString(f, ".protodevel") THEN ".protodevel" ELSE ".proto")

\* StripString(): replaces a character.
StripString(s, old, new) == [i \in DOMAIN s |-> IF s[i] = old THEN new ELSE s[i]]

\* ModuleName() and RPCZModuleName()
PyModule(f, suffix) ==
    StripString(StripString(StripProto(f), "-", "_"), "/", ".") \o <<suffix>>

\* Generator::Generate() of the Python plugin: the file it opens
PythonFile(f) == StripString(PyModule(f, "_rpcz"), ".", "/") \o <<".py">>

\* RpczCppGenerator::Generate(): the files it opens, after it has looked at all
\* options
CppFiles(f, options) ==
    IF \E i \in DOMAIN options : options[i] # "dllexport_decl" THEN {}
    ELSE {StripSuffixString(f, ".proto") \o <<".rpcz", suffix>> : suffix \in {".h", ".cc"}}

\* FileGenerator::GenerateSource(): the header it includes
IncludedHeader(f) == StripProto(f) \o <<".rpcz", ".h">>

\* GenerateNamespaceOpeners() and GenerateNamespaceClosers()
NamespaceOpeners(parts) == [i \in DOMAIN parts |-> parts[i]]
NamespaceClosers(parts) == [i \in DOMAIN parts |-> parts[Len(parts) + 1 - i]]

\* GenerateBuildDescriptors(): the serialized file, kBytesPerLine at a time
kBytesPerLine == 40
Chunks(size) ==
    [k \in 1 .. (size + kBytesPerLine - 1) \div kBytesPerLine |->
        LET from == (k - 1) * kBytesPerLine IN
        [from |-> from, to |-> IF from + kBytesPerLine < size THEN from + kBytesPerLine ELSE size]]

-----------------------------------------------------------------------------
(* Services: [name, options, methods], where a method is [name, in, out]    *)

Async(name) == <<"async_">> \o name
Overload(name, params) == [name |-> name, params |-> params]

\* Parameters: a reference, a pointer, a handler and timeout_ms
In(m)      == <<"&", m.in>>
Out(m)     == <<"*", m.out>>
Handler(m) == <<"handler", m.out>>
Long       == <<"long">>

\* GenerateOneStubMethodSignature(): the name of the handler's type, <name>_Handler;
\* and the functions, those with a timeout out of line, the others with a body.
HandlerTypedef(m) == m.name \o <<"_Handler">>
StubDeclarations(m) == <<
    Overload(Async(m.name), <<In(m), Handler(m), Long>>),
    Overload(Async(m.name), <<In(m), Long>>),
    Overload(m.name, <<In(m), Long, Out(m) >>),
    Overload(m.name, <<In(m), Long>>) >>
StubInline(m) == <<
    Overload(Async(m.name), <<In(m), Handler(m) >>),
    Overload(Async(m.name), <<In(m)>>),
    Overload(m.name, <<In(m), Out(m) >>),
    Overload(m.name, <<In(m)>>) >>

\* GenerateOneStubMethod(): the definitions in the source file.
StubDefinitions(m) == <<
    Overload(Async(m.name), <<In(m), Handler(m), Long>>),
    Overload(Async(m.name), <<In(m), Long>>),
    Overload(m.name, <<In(m), Long, Out(m) >>),
    Overload(m.name, <<In(m), Long>>) >>

\* GenerateMethodSignatures(), GenerateStubMethods()
AllOf(s, F(_)) == FlattenSeq([i \in DOMAIN s.methods |-> F(s.methods[i])])

\* The members of service_stub that the bodies of these functions use
ServiceStubMembers == {<<"conn_">>, <<"default_timeout_ms_">>}

\* GenerateInterface() and GenerateNotImplementedMethods()
StubTypedef        == <<"Stub">>
InterfaceMethod(m) == <<Overload(m.name, <<In(m), <<"replier">> >>)>>
NotImplemented(m)  == <<Overload(m.name, <<In(m), <<"replier">> >>)>>

\* GenerateDescriptorInitializer(): the index of the service's descriptor
InitializerFirst(file, index) == 1
DescriptorInitializer(file, index) == index

\* GenerateCallMethod(): the case of the switch for method i
CallMethodCase(s, i) == [calls |-> s.methods[i].name, casts |-> s.methods[i].in]

\* GenerateGetPrototype()
GetPrototype(s, which, i) ==
    IF which = "REQUEST" THEN s.methods[i].in ELSE s.methods[i].out

\* GenerateStubMethods(): the method of the descriptor that stub method i
\* requests, and the type that the handler of the answer parses
StubRequest(s, i) == [method |-> i, parses |-> s.methods[i].out]

\* cpp_service::dispatch_request(): FindMethodByName() on the descriptor
FindMethodByName(s, name) ==
    SelectInSeq(s.methods, LAMBDA m : m.name = name)

-----------------------------------------------------------------------------
(* C++ files.  A .proto file is [name, lite, types, deps, services]; a       *)
(* dependency is [name, types, public], and a type [path, file].  A          *)
(* generated file is a sequence of declarations and definitions.             *)

Decl(name)      == [op |-> "declare", name |-> name, uses |-> {}]
Def(name, uses) == [op |-> "define", name |-> name, uses |-> uses]
Defined(name)   == Def(name, {})

TypeName(t)           == <<"type", t>>
Function(n)           == <<"function", n>>
Member(class, what)   == <<"member", class, <<"fixed", what>>>>
Method(class, o)      == <<"member", class, <<"overload", o>>>>
Typedef(class, n)     == <<"typedef", class, n>>
DescriptorVar(s)      == <<"variable", s.name>>
AssignDescriptorsOnce == <<"helper", "protobuf_AssignDescriptorsOnce">>
RegisterTypes         == <<"helper", "protobuf_RegisterTypes">>

TypesOf(s) == UNION {{s.methods[i].in, s.methods[i].out} : i \in DOMAIN s.methods}
Stub(s)    == <<s.name, "_Stub">>
Each(seq, Make(_))   == [i \in DOMAIN seq |-> Make(seq[i])]
EachService(f, G(_)) == FlattenSeq(Each(f.services, G))

\* GenerateInterface(), GenerateStubDefinition() and GenerateDeclarations(): a
\* class needs the types of its methods.  The types of the handlers, each of which
\* stands before the functions of its method, are listed first.
Class(c, s) == [Decl(<<"class", c>>) EXCEPT !.uses = {TypeName(t) : t \in TypesOf(s)}]
GenerateInterface(s) ==
    <<Class(s.name, s), Decl(Member(s.name, "destructor")),
      Decl(Typedef(s.name, StubTypedef)), Decl(Member(s.name, "descriptor"))>>
    \o Each(AllOf(s, InterfaceMethod), LAMBDA o : Decl(Method(s.name, o)))
    \o Each(<<"GetDescriptor", "call_method", "GetRequestPrototype", "GetResponsePrototype">>,
            LAMBDA n : Decl(Member(s.name, n)))
StubMembers == <<"connection constructor", "endpoint constructor", "destructor">>
GenerateStubDefinition(s) ==
    <<Class(Stub(s), s)>>
    \o Each(StubMembers, LAMBDA n : Decl(Member(Stub(s), n)))
    \o Each(s.methods, LAMBDA m : Decl(Typedef(Stub(s), HandlerTypedef(m))))
    \o Each(AllOf(s, StubDeclarations), LAMBDA o : Decl(Method(Stub(s), o)))
GenerateDeclarations(s) == GenerateInterface(s) \o GenerateStubDefinition(s)

Assign(f)   == Function(<<"rpcz_", GlobalAssignDescriptorsName(f.name)>>)
Shutdown(f) == Function(<<"rpcz_", GlobalShutdownFileName(f.name)>>)
AddOf(f)    == Function(<<"rpcz_", GlobalAddDescriptorsName(f.name)>>)

\* GenerateHeader() without its includes
GenerateHeader(f) ==
    <<Decl(Assign(f)), Decl(Shutdown(f))>> \o EachService(f, GenerateDeclarations)

\* The .pb.h files that GenerateHeader() includes declare the types of the file
\* and of its dependencies, which include what they import, and the function
\* that adds a dependency.
AddOfDependency(d) == Function(<<"", GlobalAddDescriptorsName(d.name)>>)
HeaderIncludes(f) ==
    {TypeName(t) : t \in f.types \cup UNION {d.types \cup d.public : d \in f.deps}}
    \cup {AddOfDependency(d) : d \in f.deps}

HasDescriptorMethods(f) == ~f.lite

\* GenerateBuildDescriptors(): the functions that set the descriptor variables,
\* once; then those for the shutdown and for the descriptor pool
AssignDescriptors(f) ==
    <<Def(Assign(f), {DescriptorVar(f.services[i]) : i \in DOMAIN f.services}),
      Def(AssignDescriptorsOnce, {Assign(f)}),
      Def(RegisterTypes, {AssignDescriptorsOnce})>>
AddDescriptors(f) ==
    <<Defined(Shutdown(f)),
      Def(AddOf(f), {AddOfDependency(d) : d \in f.deps} \cup {Shutdown(f)}
                    \cup (IF HasDescriptorMethods(f) THEN {RegisterTypes} ELSE {}))>>
GenerateBuildDescriptors(f) ==
    (IF HasDescriptorMethods(f) THEN AssignDescriptors(f) ELSE <<>>) \o AddDescriptors(f)

\* GenerateImplementation()
GenerateImplementation(s) ==
    LET once == {AssignDescriptorsOnce, DescriptorVar(s)}
        own  == {Member(s.name, "descriptor")}
    IN <<Defined(Member(s.name, "destructor")),
         Def(Member(s.name, "descriptor"), once),
         Def(Member(s.name, "GetDescriptor"), once)>>
       \o Each(AllOf(s, NotImplemented), LAMBDA o : Defined(Method(s.name, o)))
       \o <<Def(Member(s.name, "call_method"), {DescriptorVar(s)}),
            Def(Member(s.name, "GetRequestPrototype"), own),
            Def(Member(s.name, "GetResponsePrototype"), own)>>
       \o Each(StubMembers, LAMBDA n : Defined(Member(Stub(s), n)))
       \o Each(AllOf(s, StubDefinitions), LAMBDA o : Defined(Method(Stub(s), o)))

\* GenerateSource(): the variables first
GenerateSource(f) ==
    Each(f.services, LAMBDA s : Defined(DescriptorVar(s)))
    \o GenerateBuildDescriptors(f) \o EachService(f, GenerateImplementation)

-----------------------------------------------------------------------------
(* Python modules, as the statements that the interpreter executes.          *)

UpperString(s) == [i \in DOMAIN s |-> IF s[i] \in 97 .. 122 THEN s[i] - 32 ELSE s[i]]

Module(n)     == <<"library", n>>
ModuleName(f) == <<"generated", f>>

\* NamePrefixedWithNestedTypes(), with an underscore between the names
NamePrefixedWithNestedTypes(path) ==
    FlattenSeq([i \in DOMAIN path |-> IF i = 1 THEN path[1] ELSE <<Underscore>> \o path[i]])

\* ModuleLevelDescriptorName() and ModuleLevelServiceDescriptorName()
ModuleLevelDescriptorName(t) ==
    [module |-> ModuleName(t.file),
     name |-> <<Underscore>> \o UpperString(NamePrefixedWithNestedTypes(t.path))]
ModuleLevelServiceDescriptorName(s) == <<Underscore>> \o UpperString(s.name)

\* PrintTopBoilerplate() and PrintImports()
PrintTopBoilerplate(f) ==
    {Module("descriptor"), Module("service"), Module("service_reflection")}
    \cup (IF f.descriptor_proto THEN {} ELSE {Module("descriptor_pb2")})
PrintImports(f) == {ModuleName(f.name)} \cup {ModuleName(d.name) : d \in f.deps}

\* OptionsValue(): the modules that it uses
OptionsValue(f, s) ==
    IF s.options /\ ~f.descriptor_proto THEN {Module("descriptor_pb2"), Module("descriptor")} ELSE {}

\* PrintServiceDescriptor()
PrintServiceDescriptor(f, s) ==
    [op |-> "assign", var |-> ModuleLevelServiceDescriptorName(s),
     descriptor |-> [name |-> s.name,
                     methods |-> [i \in DOMAIN s.methods |->
                        [name |-> s.methods[i].name, index |-> i,
                         input_type |-> ModuleLevelDescriptorName(s.methods[i].in),
                         output_type |-> ModuleLevelDescriptorName(s.methods[i].out)]]],
     uses |-> {Module("descriptor"), ModuleName(f.name)} \cup OptionsValue(f, s)
              \cup {ModuleLevelDescriptorName(t).module : t \in TypesOf(s)}]

\* PrintServiceClass() and PrintServiceStub(): the class reads the variable.
PrintServiceClass(s) ==
    [op |-> "class", var |-> ModuleLevelServiceDescriptorName(s), class |-> s.name,
     uses |-> {Module("service"), Module("service_reflection")}]
PrintServiceStub(s) ==
    [op |-> "class", var |-> ModuleLevelServiceDescriptorName(s), class |-> Stub(s),
     uses |-> {Module("service_reflection")}]

\* PrintServices()
PrintServices(f) ==
    EachService(f, LAMBDA s : <<PrintServiceDescriptor(f, s), PrintServiceClass(s),
                                PrintServiceStub(s)>>)

\* The descriptor that the class made by statement k has: the last one that was
\* assigned to the variable.
ClassDescriptor(module, k) ==
    LET assigns(st) == st.op = "assign" /\ st.var = module[k].var
    IN module[SelectLastInSubSeq(module, 1, k, assigns)].descriptor

\* GeneratedServiceType: _exposed_methods; GeneratedServiceStubType and
\* _BuildStubMethod(): the methods of the stub
GeneratedServiceType(d) ==
    [n \in {d.methods[i].name : i \in DOMAIN d.methods} |->
        d.methods[SelectLastInSeq(d.methods, LAMBDA m : m.name = n)]]
GeneratedServiceStubType(d) ==
    [n \in {d.methods[i].name : i \in DOMAIN d.methods} |->
        [service_name |-> d.name, method |-> n,
         response |-> GeneratedServiceType(d)[n].output_type]]
=============================================================================
