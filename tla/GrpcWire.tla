------------------------------ MODULE GrpcWire ------------------------------
(***************************************************************************)
(* The messages between the analyzer and a gRPC provider (provider/        *)
(* internal/grpc/library.pb.go) and the conversions on both sides          *)
(* (provider/grpc/*.go on the client, provider/server.go on the server).   *)
(*                                                                         *)
(* A message type is the function of its fields to their kind: T a text, S *)
(* another scalar, O an optional one, M(t) a message, R(t) a list.  A      *)
(* scalar is "zero" or "set", a text may also be "bytes" that are not      *)
(* UTF-8; a pointer that is not set and a nil list are Nil.  The kind of a *)
(* field decides when it is written and what stands for it when it is not, *)
(* so a list without elements arrives as nil, and a message with a text    *)
(* that is not UTF-8 is not sent at all.                                   *)
(***************************************************************************)
EXTENDS Naturals, Sequences, SequencesExt, FiniteSets

CONSTANTS              \* model values
    Nil,               \* a pointer or a list that is not set
    Error,             \* what a call that fails returns
    Panic              \* what it does to the process that serves it

T == [k |-> "scalar", of |-> "Text"]
S == [k |-> "scalar", of |-> ""]
O == [k |-> "optional", of |-> ""]
M(t) == [k |-> "message", of |-> t]
R(t) == [k |-> "repeated", of |-> t]
Struct == M("Struct")
-----------------------------------------------------------------------------
(* Messages                                                                *)

Proxy == [HTTPProxy |-> T, HTTPSProxy |-> T, NoProxy |-> T]
Config == [Location |-> T, DependencyPath |-> T, AnalysisMode |-> T,
           ProviderSpecificConfig |-> Struct, Proxy |-> M("Proxy"),
           LanguageServerPipe |-> T, Initialized |-> S, LogLevel |-> O]
InitResponse == [Error |-> T, Successful |-> S, Id |-> S, BuiltinConfig |-> M("Config")]
ExternalLink == [Url |-> T, Title |-> T]
Position == [Line |-> S, Character |-> S]
Location == [StartPosition |-> M("Position"), EndPosition |-> M("Position")]
IncidentContext == [FileURI |-> T, Effort |-> O, CodeLocation |-> M("Location"),
                    LineNumber |-> O, Variables |-> Struct, Links |-> R("ExternalLink"),
                    IsDependencyIncident |-> S]
ProviderEvaluateResponse == [Matched |-> S, IncidentContexts |-> R("IncidentContext"),
                             TemplateContext |-> Struct]
EvaluateResponse == [Error |-> T, Successful |-> S, Response |-> M("ProviderEvaluateResponse")]
GetDependencyLocationRequest == [Dep |-> M("Dependency"), DepFile |-> T]
GetDependencyLocationResponse == [Location |-> M("Location")]
Dependency == [Name |-> T, Version |-> T, Classifier |-> T, Type |-> T,
               ResolvedIdentifier |-> T, FileURIPrefix |-> T, Indirect |-> S,
               Extras |-> Struct, Labels |-> R("Text")]
DependencyList == [Deps |-> R("Dependency")]
DependencyResponse == [Successful |-> S, Error |-> T, FileDep |-> R("FileDep")]
FileDep == [FileURI |-> T, List |-> M("DependencyList")]
DependencyDAGItem == [Key |-> M("Dependency"), AddedDeps |-> R("DependencyDAGItem")]
DependencyDAGResponse == [Successful |-> S, Error |-> T, FileDagDep |-> R("FileDAGDep")]
FileDAGDep == [FileURI |-> T, List |-> R("DependencyDAGItem")]
FileChange == [Uri |-> T, Content |-> T, Saved |-> S]
NotifyFileChangesRequest == [Changes |-> R("FileChange"), Id |-> S]

Messages ==
    [Proxy |-> Proxy, Config |-> Config, InitResponse |-> InitResponse,
     ExternalLink |-> ExternalLink, Position |-> Position, Location |-> Location,
     IncidentContext |-> IncidentContext,
     ProviderEvaluateResponse |-> ProviderEvaluateResponse, EvaluateResponse |-> EvaluateResponse,
     GetDependencyLocationRequest |-> GetDependencyLocationRequest,
     GetDependencyLocationResponse |-> GetDependencyLocationResponse,
     Dependency |-> Dependency, DependencyList |-> DependencyList,
     DependencyResponse |-> DependencyResponse, FileDep |-> FileDep,
     DependencyDAGItem |-> DependencyDAGItem,
     DependencyDAGResponse |-> DependencyDAGResponse, FileDAGDep |-> FileDAGDep,
     FileChange |-> FileChange, NotifyFileChangesRequest |-> NotifyFileChangesRequest]

(* Whether every text of v, a value of type t, is UTF-8.                   *)
RECURSIVE Sendable(_, _)
Sendable(t, v) ==
    CASE v = Nil -> TRUE
      [] t = "Text" -> v # "bytes"
      [] t \in DOMAIN Messages ->
           \A n \in DOMAIN Messages[t] :
               LET f == Messages[t][n]
               IN  IF f.k = "repeated" /\ v[n] # Nil
                   THEN \A i \in 1..Len(v[n]) : Sendable(f.of, v[n][i])
                   ELSE Sendable(f.of, v[n])
      [] OTHER -> TRUE

(* Whether a field is on the wire, and what it is when it is not.          *)
Written(f, v) ==
    CASE f.k = "scalar" -> v # "zero"
      [] f.k \in {"optional", "message"} -> v # Nil
      [] f.k = "repeated" -> v \notin {Nil, <<>>}
Default(f) == IF f.k = "scalar" THEN "zero" ELSE Nil

(* The fields on the wire, and what is read from them.                     *)
RECURSIVE Wire(_, _)
Wire(t, v) ==
    IF t \notin DOMAIN Messages THEN v
    ELSE [n \in {m \in DOMAIN Messages[t] : Written(Messages[t][m], v[m])} |->
            LET f == Messages[t][n]
            IN  IF f.k = "repeated" THEN [i \in 1..Len(v[n]) |-> Wire(f.of, v[n][i])]
                ELSE Wire(f.of, v[n])]

RECURSIVE Read(_, _)
Read(t, w) ==
    IF t \notin DOMAIN Messages THEN w
    ELSE [n \in DOMAIN Messages[t] |->
            LET f == Messages[t][n]
            IN  IF n \notin DOMAIN w THEN Default(f)
                ELSE IF f.k = "repeated" THEN [i \in 1..Len(w[n]) |-> Read(f.of, w[n][i])]
                ELSE Read(f.of, w[n])]

(* What the other side has of v, sent as a message of type t.              *)
Arrives(t, v) == IF Sendable(t, v) THEN Read(t, Wire(t, v)) ELSE Error

Elems(l) == IF l = Nil THEN <<>> ELSE l
-----------------------------------------------------------------------------
(* Values of a provider's configuration, of Variables, of Extras:          *)
(*   "text", "bytes" (a text that is not UTF-8), "int", "float"; "typed" a *)
(*   slice of a type other than interface{}; "list", "map" and "imap", the *)
(*   slice of interface{} and the maps with strings and with anything as   *)
(*   keys (text says whether all of them are strings), of a sequence of    *)
(*   values; "nilmap" and "niltyped", a nil map or typed slice that is not *)
(*   the nil interface.                                                    *)

EmptyMap == [k |-> "map", of |-> <<>>]
NilMap == [k |-> "nilmap"]
NilValue == [k |-> "nil"]
Float == [k |-> "float"]

(* validateAndUpdateProviderSpecificConfig with the two functions it uses: *)
(* maps with interface keys become maps with strings as keys; a map that   *)
(* is one already is not looked into.                                      *)
RECURSIVE validateAndUpdate(_)
validateAndUpdate(v) ==
    IF v.k \notin {"imap", "list"} THEN v
    ELSE LET inner == [i \in 1..Len(v.of) |-> validateAndUpdate(v.of[i])]
         IN  IF (v.k = "imap" /\ ~v.text) \/ Error \in ToSet(inner) THEN Error
             ELSE [k |-> IF v.k = "imap" THEN "map" ELSE v.k, of |-> inner]
validateConfig(c) ==
    LET inner == [i \in 1..Len(c.of) |-> validateAndUpdate(c.of[i])]
    IN  IF Error \in ToSet(inner) THEN Error ELSE [k |-> "map", of |-> inner]

RECURSIVE requiresConversion(_)
requiresConversion(v) ==
    CASE v.k = "list" -> \E i \in 1..Len(v.of) : requiresConversion(v.of[i])
      [] v.k \in {"typed", "map", "imap"} -> TRUE
      [] OTHER -> FALSE

(* convertValue and, for the whole configuration, convertTypedSlices.      *)
RECURSIVE convertValue(_)
convertValue(v) ==
    LET inner == [i \in 1..Len(v.of) |-> convertValue(v.of[i])]
    IN  CASE v.k \in {"nilmap", "niltyped"} -> NilValue
          [] v.k = "list" -> IF requiresConversion(v) THEN [k |-> "list", of |-> inner] ELSE v
          [] v.k = "typed" -> [k |-> "list", of |-> inner]
          [] v.k \in {"map", "imap"} -> [k |-> "map", of |-> inner]
          [] OTHER -> v
convertTypedSlices(data) == IF data = NilMap THEN NilMap ELSE convertValue(data)

(* structpb.NewStruct and AsMap: typed slices, maps with other keys and    *)
(* texts that are not UTF-8 are errors; a nil map becomes an empty one and *)
(* an integer a float64.                                                   *)
RECURSIVE NewStruct(_)
NewStruct(v) ==
    CASE v.k \in {"bytes", "typed", "niltyped", "imap"} -> Error
      [] v.k = "nilmap" -> EmptyMap
      [] v.k = "int" -> Float
      [] v.k \in {"list", "map"} ->
           LET inner == [i \in 1..Len(v.of) |-> NewStruct(v.of[i])]
           IN  IF Error \in ToSet(inner) THEN Error ELSE [k |-> v.k, of |-> inner]
      [] OTHER -> v

AsMap(s) == IF s = Nil THEN EmptyMap ELSE s
-----------------------------------------------------------------------------
(* Conversions.  The fields of a message and of the Go type that it stands *)
(* for have the same names, so a conversion is said by what it changes.    *)

(* Init on the client: the configuration is converted, the proxy may be    *)
(* missing, a pipe makes the client initialized.                           *)
InitRequest(c) ==
    LET s == NewStruct(convertTypedSlices(c.ProviderSpecificConfig))
    IN  IF s = Error THEN Error
        ELSE [c EXCEPT !.ProviderSpecificConfig = s,
                       !.Initialized = IF c.LanguageServerPipe = "set" THEN "set" ELSE @]

(* Init on the server, up to the call of the provider's own: it reads the  *)
(* proxy without a look whether there is one, and takes an analysis mode   *)
(* that is not set for the full one.                                       *)
ServerInit(c) ==
    CASE c.AnalysisMode = "invalid" -> Error
      [] c.AnalysisMode # "invalid" /\ c.Proxy = Nil -> Panic
      [] OTHER -> [c EXCEPT !.AnalysisMode = "set",
                            !.Initialized = c.LanguageServerPipe,
                            !.ProviderSpecificConfig = IF @ = Nil THEN NilMap ELSE @]

(* The answer of Init: of the configuration that the provider has for      *)
(* builtin the server sends the location and, with one, the dependency     *)
(* path, and the client takes these two.                                   *)
NoConfig == [n \in DOMAIN Config |-> Default(Config[n])]
ServerInitResponse(b) ==
    [Error |-> "zero", Successful |-> "set", Id |-> "set",
     BuiltinConfig |-> IF b.Location = "zero" THEN NoConfig
                       ELSE [NoConfig EXCEPT !.Location = b.Location,
                                             !.DependencyPath = b.DependencyPath]]
ClientInitResponse(m) ==
    IF m.Successful = "zero" THEN Error
    ELSE IF m.BuiltinConfig = Nil THEN [Location |-> "zero", DependencyPath |-> "zero"]
    ELSE [Location |-> m.BuiltinConfig.Location, DependencyPath |-> m.BuiltinConfig.DependencyPath]

(* ValidateAndDefaultConfigs, for one init config of a provider: the proxy *)
(* of the provider, which defaults to the one of the environment.          *)
ValidateAndDefault(providerProxy, ic) ==
    LET environment == [HTTPProxy |-> "zero", HTTPSProxy |-> "zero", NoProxy |-> "zero"]
        wide == IF providerProxy = Nil THEN environment ELSE providerProxy
        spec == validateConfig(ic.ProviderSpecificConfig)
    IN  IF spec = Error THEN Error
        ELSE [ic EXCEPT !.Proxy = IF @ = Nil THEN wide ELSE @,
                        !.ProviderSpecificConfig = spec]


(* Evaluate on the server: an answer [matched, incidents, context], or an  *)
(* error if a value is not one of structpb's.                              *)
ServerEvaluate(r) ==
    LET out == [i \in 1..Len(r.incidents) |->
                   [r.incidents[i] EXCEPT !.Variables = NewStruct(@), !.Links = Elems(@)]]
        context == NewStruct(r.context)
    IN  IF context = Error \/ \E i \in 1..Len(out) : out[i].Variables = Error
        THEN [Error |-> "set", Successful |-> "zero", Response |-> Nil]
        ELSE [Error |-> "zero", Successful |-> "set",
              Response |-> [Matched |-> r.matched, IncidentContexts |-> out,
                            TemplateContext |-> context]]

(* Evaluate on the client: without a match the incidents are left out.     *)
ClientEvaluate(m) ==
    IF m = Error \/ m.Successful = "zero" THEN [err |-> TRUE]
    ELSE IF m.Response = Nil
    THEN [err |-> FALSE, matched |-> "zero", incidents |-> Nil, context |-> NilMap]
    ELSE [err |-> FALSE, matched |-> m.Response.Matched,
          incidents |-> IF m.Response.Matched = "zero" THEN Nil
                        ELSE LET incs == Elems(m.Response.IncidentContexts)
                             IN  [i \in 1..Len(incs) |->
                                     [incs[i] EXCEPT !.Variables = AsMap(@), !.Links = Elems(@)]],
          context |-> AsMap(m.Response.TemplateContext)]

(* GetDependencies: on the server for a file with its dependencies, and    *)
(* back on the client.                                                     *)
ServerDependency(d) == [d EXCEPT !.Extras = NewStruct(@)]
ClientDependency(d) == [d EXCEPT !.Extras = AsMap(@)]

ServerGetDependencies(file, ds) ==
    LET out == [i \in 1..Len(ds) |-> ServerDependency(ds[i])]
    IN  IF \E i \in 1..Len(out) : out[i].Extras = Error THEN Error
        ELSE [Successful |-> "set", Error |-> "zero",
              FileDep |-> <<[FileURI |-> file, List |-> [Deps |-> out]]>>]

ClientGetDependencies(m) ==
    IF m = Error THEN Error
    ELSE LET ds == Elems(m.FileDep[1].List.Deps) IN [i \in 1..Len(ds) |-> ClientDependency(ds[i])]

(* recreateDAGAddedItems of the server, which leaves Indirect out and      *)
(* panics on an Extra that structpb does not have, and of the client.      *)
RECURSIVE ServerDAGItems(_)
ServerDAGItems(items) ==
    LET out == [i \in 1..Len(items) |->
                   [Key |-> [ServerDependency(items[i].dep) EXCEPT !.Indirect = "zero"],
                    AddedDeps |-> ServerDAGItems(items[i].added)]]
    IN  IF \E i \in 1..Len(out) : out[i].Key.Extras = Error \/ out[i].AddedDeps = Panic THEN Panic
        ELSE out

RECURSIVE ClientDAGItems(_)
ClientDAGItems(items) ==
    [i \in 1..Len(Elems(items)) |->
        [dep |-> ClientDependency(items[i].Key), added |-> ClientDAGItems(items[i].AddedDeps)]]

(* GetDependenciesDAG.                                                     *)
ServerDAG(file, items) ==
    LET l == ServerDAGItems(items)
    IN  IF l = Panic THEN Panic
        ELSE [Successful |-> "set", Error |-> "zero",
              FileDagDep |-> <<[FileURI |-> file, List |-> l]>>]
ClientDAG(m) == IF m = Error THEN Error ELSE ClientDAGItems(m.FileDagDep[1].List)

(* ConvertDagItemsToList, with which a provider makes the list of its      *)
(* dependencies from the graph [dep, added].                               *)
RECURSIVE ConvertDagItemsToList(_)
ConvertDagItemsToList(items) ==
    FlattenSeq([i \in 1..Len(items) |->
                   <<items[i].dep>> \o ConvertDagItemsToList(items[i].added)])

(* NotifyFileChanges, client and server.                                   *)
ClientChanges(cs) ==
    [Id |-> "set",
     Changes |-> [i \in 1..Len(cs) |->
                     [Uri |-> cs[i].path, Content |-> cs[i].content, Saved |-> cs[i].saved]]]
ServerChanges(m) ==
    IF m = Error THEN Error
    ELSE LET in == Elems(m.Changes)
         IN  [i \in 1..Len(in) |->
                 [path |-> in[i].Uri, content |-> in[i].Content, saved |-> in[i].Saved]]

(* GetLocation of the client for a dependency d, with the resolver of the  *)
(* server, which finds the location `found' for the dependency `known' and *)
(* fails for any other: the client converts the typed slices of Extras and *)
(* takes a call that failed for the zero location, without an error.       *)
ZeroPosition == [Line |-> "zero", Character |-> "zero"]
ZeroLocation == [StartPosition |-> ZeroPosition, EndPosition |-> ZeroPosition]
LocationRequest(d) ==
    LET extras == NewStruct(convertTypedSlices(d.Extras))
    IN  IF extras = Error THEN Error ELSE [Dep |-> [d EXCEPT !.Extras = extras], DepFile |-> "set"]
ServerLocation(m, known, found) ==
    IF m = Error \/ ClientDependency(m.Dep) # known \/ found = Error THEN Error
    ELSE [Location |-> found]
GetLocation(answer) ==
    IF answer = Error \/ answer.Location = Nil THEN ZeroLocation
    ELSE [p \in {"StartPosition", "EndPosition"} |->
            IF answer.Location[p] = Nil THEN ZeroPosition ELSE answer.Location[p]]
-----------------------------------------------------------------------------
(* Properties                                                              *)

(* A configuration that passes the validation reaches the provider as it   *)
(* was written: as maps with string keys, lists and floats, and never      *)
(* without the proxy that Init of the server reads (server.go:265).  A     *)
(* typed nil slice in a list is left out ("Typed nil values don't need     *)
(* conversion").                                                           *)
RECURSIVE Plain(_)
Plain(v) ==
    CASE v.k \in {"nilmap", "niltyped"} -> NilValue
      [] v.k = "int" -> Float
      [] v.k \in {"list", "typed"} -> [k |-> "list", of |-> [i \in 1..Len(v.of) |-> Plain(v.of[i])]]
      [] v.k \in {"map", "imap"} -> [k |-> "map", of |-> [i \in 1..Len(v.of) |-> Plain(v.of[i])]]
      [] OTHER -> v
RECURSIVE NilInList(_)
NilInList(v) ==
    v.k \in {"list", "map", "imap"} /\ \E i \in 1..Len(v.of) :
        NilInList(v.of[i]) \/ (v.k = "list" /\ v.of[i].k \in {"nilmap", "niltyped"})
RECURSIVE AllText(_)
AllText(v) ==
    /\ v.k = "imap" => v.text
    /\ v.k \in {"list", "imap"} => \A i \in 1..Len(v.of) : AllText(v.of[i])

ConfigArrives(v, proxy, icProxy) ==
    LET config == [k |-> "map", of |-> <<v>>]
        ic == [n \in DOMAIN Config |->
                 CASE n = "ProviderSpecificConfig" -> config
                   [] n = "Proxy" -> icProxy
                   [] n = "LogLevel" -> "zero"
                   [] OTHER -> "set"]
        checked == ValidateAndDefault(proxy, ic)
        sent == InitRequest(checked)
    IN  /\ (checked = Error) = ~AllText(v)
        /\ AllText(v) /\ ~NilInList(v) =>
             /\ sent # Error
             /\ ServerInit(Arrives("Config", sent)) =
                  [checked EXCEPT !.ProviderSpecificConfig = Plain(config)]

(* The configuration that a provider found for builtin reaches the         *)
(* analyzer when it has a location; without one its dependency path is     *)
(* dropped too.                                                            *)
BuiltinArrives(b) ==
    ClientInitResponse(Arrives("InitResponse", ServerInitResponse(b))) =
        IF b.Location = "set" THEN b ELSE [b EXCEPT !.DependencyPath = "zero"]

(* An answer that matched comes back with every incident and all that each *)
(* one says, line 0 and effort 0 included; one that did not match without  *)
(* any; and a value that cannot be sent is an error, never an answer       *)
(* without it.                                                             *)
AnswerArrives(r) ==
    LET got == ClientEvaluate(Arrives("EvaluateResponse", ServerEvaluate(r)))
        bad == NewStruct(r.context) = Error
               \/ \E i \in 1..Len(r.incidents) : NewStruct(r.incidents[i].Variables) = Error
    IN  IF bad THEN got.err
        ELSE got = [err |-> FALSE, matched |-> r.matched,
                    incidents |-> IF r.matched = "zero" THEN Nil ELSE
                        [i \in 1..Len(r.incidents) |->
                            [r.incidents[i] EXCEPT !.Variables = NewStruct(@), !.Links = Elems(@)]],
                    context |-> NewStruct(r.context)]

(* A graph of dependencies and its list come back with every dependency in *)
(* its place and all that the provider said of it; the graph says nothing  *)
(* of Indirect (server.go:489).  An Extra that cannot be sent fails the    *)
(* whole call, for the graph by a panic of the provider (server.go:478):   *)
(* never is a dependency left out.                                         *)
Had(d) == [d EXCEPT !.Extras = NewStruct(@), !.Labels = IF @ = <<>> THEN Nil ELSE @]
RECURSIVE ButIndirect(_)
ButIndirect(items) ==
    [i \in 1..Len(items) |->
        [dep |-> [items[i].dep EXCEPT !.Indirect = "zero"], added |-> ButIndirect(items[i].added)]]
RECURSIVE HadGraph(_)
HadGraph(items) ==
    [i \in 1..Len(items) |-> [dep |-> Had(items[i].dep), added |-> HadGraph(items[i].added)]]
DagArrives(items) ==
    LET deps == ConvertDagItemsToList(items)
        bad == \E i \in 1..Len(deps) : NewStruct(deps[i].Extras) = Error
        graph == ServerDAG("set", items)
        list == ServerGetDependencies("set", deps)
    IN  /\ (graph = Panic) = bad /\ (list = Error) = bad
        /\ ~bad =>
             /\ ButIndirect(ClientDAG(Arrives("DependencyDAGResponse", graph)))
                  = ButIndirect(HadGraph(items))
             /\ ClientGetDependencies(Arrives("DependencyResponse", list))
                  = [i \in 1..Len(deps) |-> Had(deps[i])]

(* The list of a graph has every dependency of it, each after the one that *)
(* brought it in.                                                          *)
DagListed(items) ==
    LET out == ConvertDagItemsToList(items)
        At(d) == CHOOSE i \in 1..Len(out) : out[i] = d
    IN  \A i \in 1..Len(items) :
            /\ items[i].dep \in ToSet(out)
            /\ \A k \in 1..Len(items[i].added) :
                  /\ items[i].added[k].dep \in ToSet(out)
                  /\ items[i].added[k].dep # items[i].dep =>
                        \E h \in At(items[i].dep) + 1..Len(out) : out[h] = items[i].added[k].dep

(* The changes of files arrive as they were reported and in their order,   *)
(* or none of them: a content that is not UTF-8 fails the call.            *)
ChangesArrive(cs) ==
    ServerChanges(Arrives("NotifyFileChangesRequest", ClientChanges(cs))) =
        IF \E i \in 1..Len(cs) : cs[i].content = "bytes" THEN Error ELSE cs

(* The resolver of a provider is asked for the dependency as the analyzer  *)
(* has it, its typed slices as lists, and its answer comes back; that it   *)
(* failed does not ("Igonore the error so that some failures just continue *)
(* processing", dependency_resolver_client.go:41).                         *)
LocationArrives(d, found) ==
    LET extras == IF d.Extras = NilMap THEN EmptyMap ELSE Plain(d.Extras)
        answer == ServerLocation(Arrives("GetDependencyLocationRequest", LocationRequest(d)),
                                 [Had(d) EXCEPT !.Extras = extras], found)
    IN  /\ (answer = Error) = (found = Error)
        /\ GetLocation(IF answer = Error THEN Error
                        ELSE Arrives("GetDependencyLocationResponse", answer)) =
             IF found = Error THEN ZeroLocation ELSE found
=============================================================================
