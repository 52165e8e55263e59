---------------------------- MODULE SurfaceEngine ----------------------------
(***************************************************************************)
(* The compilation of one design, event contract, use case, case, decision  *)
(* model or deployment file, or of one or more model files (rex-driver      *)
(* ddd.rs, events.rs, usecases.rs, cmmn.rs, dmn.rs, deploy.rs, lower,       *)
(* lib.rs, pipeline.rs).  All seven have one shape: resolve the imports,    *)
(* lower the declarations in order into an artifact and a list of errors,   *)
(* and withhold the artifact when there is one, wherever it comes from;     *)
(* only models compiled per file are withheld one by one.                   *)
(***************************************************************************)
EXTENDS DesignModel, EventContract, UseCase, Deployment, DecisionModel, MoxLowering

CONSTANTS
  Files       \* sets of inputs [surface, file]

VARIABLES
  input,      \* the file at hand, with what the host provides
  pc,         \* the step of the compilation
  agenda,     \* the declarations still to be lowered
  st,         \* what has been lowered and reported so far
  artifact    \* the artifact, NoName while there is none

vars == <<input, pc, agenda, st, artifact>>

file == input.file

\* What the parsers hand over when there is a tree.
SyntaxTree(f) ==
  CASE f.surface = "evt" -> EvtFile(f.file)
    [] f.surface = "uc" -> UcFile(f.file)
    [] f.surface = "ddd" -> DddFile(f.file)
    [] f.surface = "cmmn" -> CmmnFile(f.file)
    [] f.surface = "dmn" -> DmnFile(f.file)
    [] f.surface = "deploy" -> DeployFile(f.file)
    [] f.surface = "mox" -> MoxFile(f.file)

\* The domains of a design are compiled in one namespace, in which a package
\* is declared once: a second file with it does not lower.
OneNamespace(f) ==
  LET packages == Lowered(DomainUnits(f.imports, f.files))
  IN  IrModel(packages) /\ IsInjective(NameList(packages))

\* What the hosts provide with it, compiled before.
HostsProvide(f) ==
  /\ f.surface \in {"ddd", "evt", "uc", "cmmn", "dmn"} =>
       IsList(f.file.files) /\ \A m \in Range(f.file.files) : ProvidedModel(m)
  /\ f.surface = "ddd" => OneNamespace(f.file)
  /\ f.surface \in {"uc", "cmmn"} => ProvidedToCases(f.file)
  /\ f.surface = "dmn" => IsList(f.file.tables)

ASSUME FilesAssumption ==
  \A slice \in Files : \A f \in slice : (f.file.parsed => SyntaxTree(f)) /\ HostsProvide(f)

Open(f) ==
  CASE f.surface = "ddd" -> OpenDesign(f.file)
    [] f.surface = "evt" -> OpenEvents(f.file)
    [] f.surface = "dmn" -> OpenDecisions(f.file)
    [] f.surface \in {"uc", "cmmn"} -> OpenSurface(f.file)
    [] f.surface = "deploy" -> OpenDeployment(f.file)
    [] f.surface = "mox" -> OpenMox(f.file)

Items(kind, items) == [i \in DOMAIN items |-> [kind |-> kind, item |-> items[i]]]

\* The declarations by kind, each kind in source order; a model's as they
\* stand.
Agenda(f) ==
  CASE f.surface = "ddd" -> Items("module", f.file.application.modules)
    [] f.surface = "evt" -> Items("event", f.file.declared.events)
          \o Items("channel", f.file.declared.channels)
          \o Items("subscription", f.file.declared.subscriptions)
    [] f.surface = "uc" -> Items("use case", f.file.useCases)
    [] f.surface = "cmmn" -> Items("case", f.file.cases)
    [] f.surface = "dmn" -> Items("decisions", f.file.models)
    [] f.surface = "deploy" -> Items("application", f.file.applications)
          \o Items("profile", f.file.profiles) \o Items("deployment", f.file.deployments)
    [] f.surface = "mox" -> MoxAgenda(f.file)

Init ==
  /\ \E slice \in Files : input \in slice
  /\ pc = "open"
  /\ agenda = <<>> /\ st = NoEntries /\ artifact = NoName

\* A file without a syntax tree ends here.
OpenFile ==
  /\ pc = "open"
  /\ st' = Open(input)
  /\ agenda' = IF file.parsed THEN Agenda(input) ELSE <<>>
  /\ pc' = IF file.parsed THEN "lower" ELSE "done"
  /\ UNCHANGED <<input, artifact>>

AtHead(kind) == pc = "lower" /\ agenda # <<>> /\ Head(agenda).kind = kind

Lowering(kind, after(_)) ==
  /\ AtHead(kind)
  /\ st' = after(Head(agenda).item)
  /\ agenda' = Tail(agenda)
  /\ UNCHANGED <<input, pc, artifact>>

ServiceStep == Lowering("service", LAMBDA s : LowerService(st, s))
DesignStep == Lowering("design", LAMBDA d : LowerDesign(st, d))
SearchStep == Lowering("search", LAMBDA s : LowerSearch(st, s))
EventStep == Lowering("event", LAMBDA e : LowerEvent(st, e))
ChannelStep == Lowering("channel", LAMBDA c : LowerChannel(st, c))
SubscriptionStep == Lowering("subscription", LAMBDA s : LowerSubscription(st, s))
UseCaseStep == Lowering("use case", LAMBDA u : LowerUseCase(st, file, u))
CaseStep == Lowering("case", LAMBDA c : LowerCase(st, file, c))
ApplicationStep == Lowering("application", LAMBDA a : LowerApplication(st, file, a))
ProfileStep == Lowering("profile", LAMBDA p : LowerProfile(st, p))
DeploymentStep == Lowering("deployment", LAMBDA d : LowerDeployment(st, file, d))
EnumStep == Lowering("enum", LAMBDA i : LowerEnum(st, i))
DatatypeStep == Lowering("datatype", LAMBDA i : LowerDatatype(st, i))
InterfaceStep == Lowering("interface", LAMBDA i : LowerInterface(st, i))
ClassStep == Lowering("class", LAMBDA i : LowerClass(st, file, i))

\* A module's own declarations come before the next module.
ModuleStep ==
  LET module == Head(agenda).item
  IN  /\ AtHead("module")
      /\ st' = OpenModule(st, module)
      /\ agenda' = Items("service", module.services) \o Items("design", module.designs)
                      \o Items("search", module.searches) \o Tail(agenda)
      /\ UNCHANGED <<input, pc, artifact>>

\* A decision model is lowered, then searched for a cycle, step by step.
DecisionStep ==
  /\ AtHead("decisions")
  /\ st' = LowerDecisionModel(st, file, Head(agenda).item)
  /\ agenda' = <<[kind |-> "cycle", item |-> Head(agenda).item]>> \o Tail(agenda)
  /\ UNCHANGED <<input, pc, artifact>>

VisitStep ==
  /\ AtHead("cycle") /\ ~SearchOver(st.search)
  /\ st' = [st EXCEPT !.search = Visit(@, Head(agenda).item)]
  /\ UNCHANGED <<input, pc, agenda, artifact>>

CycleStep ==
  /\ AtHead("cycle") /\ SearchOver(st.search)
  /\ st' = ReportCycle(st)
  /\ agenda' = Tail(agenda)
  /\ UNCHANGED <<input, pc, artifact>>

\* Designs and models have checks left that need everything.
Close ==
  CASE input.surface = "ddd" -> CrossModuleRules(st, file)
    [] input.surface = "mox" -> CloseMox(st)
    [] OTHER -> st

ArtifactOf(closed) ==
  CASE input.surface = "evt" -> EventArtifact(closed)
    [] input.surface = "deploy" -> DeployArtifact(closed)
    [] input.surface = "ddd" -> closed.lowered
    [] OTHER -> [lowered |-> closed.lowered]

Outcome(closed) ==
  IF input.surface = "mox" THEN MoxOutcome(closed, file)
  ELSE IF closed.errors = {} THEN ArtifactOf(closed) ELSE NoName

Finish ==
  /\ pc = "lower" /\ agenda = <<>>
  /\ st' = Close
  /\ artifact' = Outcome(st')
  /\ pc' = "done"
  /\ UNCHANGED <<input, agenda>>

\* A finished compilation rests; any other that cannot go on is a deadlock.
Finished == pc = "done" /\ UNCHANGED vars

Next ==
  \/ OpenFile \/ ModuleStep \/ ServiceStep \/ DesignStep \/ SearchStep \/ EventStep \/ ChannelStep \/ SubscriptionStep
  \/ UseCaseStep \/ CaseStep \/ DecisionStep \/ VisitStep \/ CycleStep \/ ApplicationStep \/ ProfileStep \/ DeploymentStep
  \/ EnumStep \/ DatatypeStep \/ InterfaceStep \/ ClassStep \/ Finish \/ Finished

Spec == Init /\ [][Next]_vars

Accepted(surface) == artifact # NoName /\ input.surface = surface

-----------------------------------------------------------------------------
(* An accepted model is sound as a whole, however many files it is from:    *)
(* its names are unique and its types declared; inheritance has no cycle;   *)
(* ownership stays in the package, and a feature with an opposite is the    *)
(* opposite of it, one of the other kind, back in its own class; defaults   *)
(* are values of their type, and bounds leave an enum a literal.  A package *)
(* compiled per file is sound unless several files declare it, and free of  *)
(* inheritance cycles when no file was withheld: only the first cycle is    *)
(* looked for, and it blocks one file of those on it.  Schema imports have  *)
(* no features to be opposites.  (lower/compile.rs, lower/classes.rs)       *)
(* The packages of Rune files are those of the namespaces the imports need, *)
(* each with what its files declare and nothing of others; their types are  *)
(* there, and no two packages have one name.  Per file this is so when no   *)
(* namespace failed and the files with imports were kept; but always a file *)
(* is kept only if the Rune files it imports are free of errors, and no     *)
(* package comes from a Rune file with errors.  (sigil.rs)                  *)
DeclarationsOf(type) ==
  UNION {{d \in Range(f.declarations) : d.name = type.name} : f \in {g \in Range(file.files) : g.package = type.pkg}}

SyntheticPackages == UNION {Range(artifact[i].synthetic) : i \in {j \in DOMAIN artifact : artifact[j] # NoName}}

\* What the packages of Rune files define a name as.
SyntheticKinds(type) ==
  UNION {LET Has(definitions, kind) == When(\E d \in Range(definitions) : d.name = type.name, kind)
         IN  Has(p.classes, "class") \cup Has(p.interfaces, "interface") \cup Has(p.enums, "enum") \cup Has(p.datatypes, "datatype") :
         p \in {q \in SyntheticPackages : q.name = type.pkg}}

\* The least set of namespaces that has those of the files the imports name
\* and, with a namespace, those its files import.
NeededNamespaces ==
  LET pool == {e \in Range(file.rosetta) : e.rune # NoName}
      named == {e.rune.namespace : e \in {p \in pool : \E d \in Range(SigilDecls(file.files[p.mox])) : p.key = Written(d)}}
      links == UNION {{<<e.rune.namespace, m.namespace>> : m \in e.rune.imports} : e \in pool}
  IN  (named \cup UNION {ReachedFrom(links, n) : n \in named}) \cap {e.rune.namespace : e \in pool}

ImportsSound ==
  /\ \A i \in DOMAIN artifact : artifact[i] # NoName =>
       \A d \in Range(SigilDecls(file.files[i])) : \E e \in Range(file.rosetta) :
         e.mox = i /\ e.key = Written(d) /\ e.rune # NoName /\ ~e.errors
  /\ \A p \in SyntheticPackages, e \in Range(file.rosetta) :
       e.errors /\ e.rune # NoName => e.rune.namespace # p.name

ImportsWhole ==
  /\ st.sigil.failed = {}
  /\ \A i \in DOMAIN artifact : SigilDecls(file.files[i]) # <<>> => artifact[i] # NoName

ImportsHold ==
  LET users == {p \in SyntheticPackages : p.name # BuiltinNamespace}
      Names(elements) == {e.name : e \in elements}
      Provided(n) == UNION {Range(e.rune.elements) : e \in {x \in Range(file.rosetta) : x.rune # NoName /\ x.rune.namespace = n}}
      OfKinds(n, kinds) == Names({e \in Provided(n) : e.kind \in kinds})
      kept == {file.files[i].package : i \in {j \in DOMAIN artifact : artifact[j] # NoName}}
      names == [k \in DOMAIN st.sigil.packages |-> st.sigil.packages[k].name]
  IN  /\ {p.name : p \in users} = NeededNamespaces
      /\ IsInjective(names) /\ Range(names) \cap kept = {}
      /\ \A p \in users :
           /\ Names(Range(p.classes)) = OfKinds(p.name, {"data"})
           /\ Names(Range(p.interfaces)) = OfKinds(p.name, {"choice"})
           /\ Names(Range(p.enums)) = OfKinds(p.name, {"enum"})
           /\ Names(Range(p.datatypes)) = OfKinds(p.name, {"alias", "record", "basic"})
      /\ \A p \in SyntheticPackages :
           LET Defined(t) == t.kind = "primitive" \/ t.kind \in SyntheticKinds(t)
           IN  /\ \A r \in Range(p.classes) :
                    (\A t \in Range(r.extends) : Defined(t)) /\ \A f \in Range(r.features) : Defined(f.type)
               /\ \A o \in Range(p.functions) : Defined(o.type) /\ \A q \in Range(o.parameters) : Defined(q.type)

ClassSound(package, r) ==
  LET Target(f) == SelectSeq(package.classes, LAMBDA o : o.name = f.type.name)
      IsNamed(t, kinds) ==
        \/ \E d \in DeclarationsOf(t) : d.kind \in kinds
        \/ IF ImportsWhole THEN SyntheticKinds(t) \cap kinds # {} ELSE t.pkg \in {n.name : n \in Range(st.sigil.namespaces)}
      Literals(t) == {d.literals : d \in {e \in DeclarationsOf(t) : e.kind = "enum"}}
      Relations == {f \in Range(r.features) : f.kind \in {"contains", "container", "refers"}}
      Bounds(f, word) == {k.n : k \in {b \in Range(f.constraints) : b.word = word}}
  IN  /\ \A t \in Range(r.extends) : IsNamed(t, {"class", "interface", "import"})
      /\ IsInjective([k \in DOMAIN r.features |-> r.features[k].name])
      /\ \A f \in Range(r.features) : f.type.kind = "primitive" \/ IsNamed(f.type, {f.type.kind, "import"})
      /\ \A f \in Relations :
           /\ IsNamed(f.type, {"class", "import"})
           /\ f.type.pkg = package.name \/ (f.kind = "refers" /\ f.opposite = NoName)
           /\ f.opposite # NoName => \A other \in Range(Target(f)) :
                \E g \in Range(other.features) :
                  /\ g.name = f.opposite /\ g.opposite = f.name
                  /\ {f.kind, g.kind} \in {{"contains", "container"}, {"refers"}}
                  /\ <<g.type.pkg, g.type.name>> = <<package.name, r.name>>
      /\ \A f \in Range(r.features) : f.kind = "attribute" =>
           /\ f.default # NoName /\ f.type.kind = "enum" /\ DeclarationsOf(f.type) # {} =>
                \E s \in Literals(f.type) : \E l \in Range(s) : l.name = f.default.name
           /\ f.type.kind = "enum" /\ DeclarationsOf(f.type) # {} => \A low \in Bounds(f, "minimum"), high \in Bounds(f, "maximum") :
                Bounds(f, "minimum") = {low} /\ Bounds(f, "maximum") = {high} =>
                  \E s \in Literals(f.type) : \E l \in Range(s) : l.value >= low /\ l.value <= high

ModelsHold ==
  Accepted("mox") =>
    LET Alone(i) == \A j \in DOMAIN file.files \ {i} : file.files[j].package # file.files[i].package
        sound == {i \in DOMAIN artifact : artifact[i] # NoName /\ (file.mode = "perFile" => Alone(i))}
        classes == UNION {Range(artifact[i].classes) : i \in sound}
        keys == {<<r.package, r.name>> : r \in classes}
        Bases(k) == UNION {{<<t.pkg, t.name>> : t \in Range(r.extends)} : r \in {s \in classes : <<s.package, s.name>> = k}}
    IN  /\ \A i \in sound :
             /\ Repeated([k \in DOMAIN Named(file.files[i]) |-> Named(file.files[i])[k].name] \o SchemaImports(file.files[i])) = {}
             /\ \A r \in Range(artifact[i].classes) : ClassSound(artifact[i], r)
        /\ sound = DOMAIN artifact =>
             \A S \in (SUBSET keys) \ {{}} : \E k \in S : Bases(k) \cap S = {}
        /\ ImportsSound /\ (ImportsWhole => ImportsHold)

\* A file that qualifies a name with its own dotted package name.
QualifiesItself(f) ==
  LET classes == {d \in Range(f.declarations) : d.kind = "class"}
      features == UNION {Range(d.features) : d \in classes}
      refs == (UNION {Range(d.extends) : d \in classes}) \cup {g.type : g \in features}
                \cup UNION {Range(g.parameters) : g \in features}
  IN  f.dotted /\ \E r \in refs : r.pkg = f.package

Agreement(Compiled(_)) ==
  (input.surface = "mox" /\ pc = "done") =>
    LET Own(i) == SelectSeq(file.rosetta, LAMBDA e : e.mox = i)
        Single(i) == Compiled([file EXCEPT !.mode = "single", !.files = <<file.files[i]>>,
                                           !.rosetta = [k \in DOMAIN Own(i) |-> [Own(i)[k] EXCEPT !.mox = 1]]])
        InFirst(package) == [package EXCEPT !.classes = [k \in DOMAIN @ |-> [@[k] EXCEPT !.file = 1]]]
        Outside(package) ==
          UNION {Range(r.extends) \cup UNION {{f.type} \cup Range(f.parameters) : f \in Range(r.features)} :
                 r \in Range(package.classes)}
    IN  /\ file.mode = "single" /\ ~QualifiesItself(file.files[1]) =>
             artifact = Compiled([file EXCEPT !.mode = "multi"])
        /\ file.mode = "multi" /\ artifact # NoName =>
             /\ Compiled([file EXCEPT !.mode = "perFile"]) = artifact
             /\ \A i \in DOMAIN artifact :
                  ~QualifiesItself(file.files[i])
                    /\ (\A t \in Outside(artifact[i]) :
                          t.pkg \in {NoName, artifact[i].name} \cup {p.name : p \in Range(artifact[i].synthetic)})
                    /\ (\A j \in DOMAIN artifact \ {i} : SigilDecls(file.files[j]) = <<>>)
                  => Single(i) = <<InFirst(artifact[i])>>

(* The three ways to compile a file agree: alone it has the package it has  *)
(* as a project of one file; a file of an accepted project that refers to   *)
(* nothing outside is accepted alone, with the package it has there, if it  *)
(* is the one that has sigil imports or none has; and per file an accepted  *)
(* project has the same packages.  Alone, a file with a dotted package name *)
(* cannot qualify a name with it.                                          *)
(* (lower/compile.rs, the three entry points; lower/resolve.rs)             *)
PipelinesAgree == Agreement(MoxCompiled)

(* Every subscription of an accepted contract can be served: its filter is  *)
(* a boolean over the payload of each event it may receive, each of these   *)
(* events is declared once, and what cannot be delivered goes to a channel  *)
(* that exists and carries declared events only.                            *)
ContractsLand ==
  Accepted("evt") =>
    /\ \A s \in Range(artifact.subscriptions), e \in Range(artifact.events) :
         e.name \in Range(s.events) /\ s.when # NoName =>
           /\ s.when.boolean
           /\ \A need \in s.when.needs : \E f \in e.fields : f = need
    /\ \A s \in Range(artifact.subscriptions) : \A n \in Range(s.events) :
         Cardinality({i \in DOMAIN artifact.events : artifact.events[i].name = n}) = 1
    /\ \A s \in Range(artifact.subscriptions) :
         s.delivery # NoName /\ s.delivery.deadLetter # NoName =>
           \E c \in Range(artifact.channels) :
             c.name = s.delivery.deadLetter
               /\ \A n \in c.publishes : \E e \in Range(artifact.events) : e.name = n

\* The end occurrences of a message in the use cases of a name.
WrittenEnds(useCase, message, side) ==
  LET People(k) == ParticipantsOf(file.useCases[k])
      Ends(k, i) == {o \in DOMAIN People(k)[i].occurrences :
                       People(k)[i].occurrences[o] = <<"end", message, side>>}
  IN  UNION {UNION {{<<k, i, o>> : o \in Ends(k, i)} : i \in DOMAIN People(k)} :
               k \in {j \in DOMAIN file.useCases : file.useCases[j].name = useCase}}

(* An accepted scenario can be played out: there is an order of its nodes   *)
(* that respects every succession, whatever is closed under succession and  *)
(* holds the start holds every step, every end of a message and the end,    *)
(* and each message is anchored at both ends where its participant says.    *)
ScenariosHold ==
  Accepted("uc") =>
    \A u \in Range(artifact.lowered) :
      LET nodes == u.nodes \cup UNION {{e[1], e[2]} : e \in u.edges}
      IN  /\ \A S \in (SUBSET nodes) \ {{}} : \E n \in S : \A e \in u.edges : e[2] = n => e[1] \notin S
          /\ u.edges # {} =>
               \A C \in SUBSET nodes :
                 <<"start">> \in C /\ (\A e \in u.edges : e[1] \in C => e[2] \in C)
                   => u.nodes \cup {<<"done">>} \subseteq C
          /\ \A m \in DOMAIN u.messages, side \in {"source", "target"} :
               /\ u.messages[m][side] # NoName
               /\ Cardinality(WrittenEnds(u.name, m, side))
                  = (IF u.messages[m][side][2][1] = "end" THEN 1 ELSE 0)

(* The flat list of an accepted case is the tree that was written: names    *)
(* are unique, so children by name are children; the items a stage contains *)
(* follow it without a gap; and each sentry waits for something that exists *)
(* and can happen to it.                                                    *)
CasesResolve ==
  Accepted("cmmn") =>
    \A c \in Range(artifact.lowered) :
      LET items == c.items
          At(n) == CHOOSE i \in DOMAIN items : items[i].name = n
          parent == {<<i, At(n)>> : i \in DOMAIN items, n \in {m : m \in UNION {Range(items[k].children) : k \in DOMAIN items}}}
          edges == {e \in parent : items[e[2]].name \in Range(items[e[1]].children)}
          Inside(i) == {i} \cup ReachedFrom(edges, i)
      IN  /\ \A i, j \in DOMAIN items : items[i].name = items[j].name => i = j
          /\ \A i \in DOMAIN items : items[i].name \notin c.file
          /\ \A i \in DOMAIN items : Inside(i) = i..(i + Cardinality(Inside(i)) - 1)
          /\ \A i \in DOMAIN items : Cardinality({e \in edges : e[2] = i}) <= 1
          /\ \A i \in DOMAIN items : \A part \in items[i].on :
               CASE part[2] = NoName ->
                      Cardinality({k \in DOMAIN file.events : part[1] \in file.events[k].events}) = 1
                 [] part[2] # NoName /\ part[1] \in c.file -> part[2] \in FileWords
                 [] OTHER -> part[2] \in PlanWords /\ \E k \in DOMAIN items : items[k].name = part[1]

(* A decision model is reported cyclic exactly when its decisions cannot be *)
(* put in an order in which each follows what it requires, and the reported *)
(* path is a cycle of requirements.  An accepted one can be evaluated in    *)
(* such an order: whatever is required is declared, once; a table asks for  *)
(* exactly the inputs its decision requires; a call binds each parameter    *)
(* of the called model once.                                               *)
Evaluable(model) ==
  LET names == {d.name : d \in Range(model.decisions)}
  IN  \E rank \in [names -> 1..Cardinality(names)] :
        \A r \in Range(model.information) : r[1] \in names /\ r[2] \in names => rank[r[2]] < rank[r[1]]

DecisionsSettle ==
  (input.surface = "dmn" /\ st # NoEntries) => \A k \in DOMAIN st.cycles :
    LET model == st.lowered[k]
        cycle == st.cycles[k]
        Declared(n) == {i \in DOMAIN ElementNames(model) : ElementNames(model)[i] = n}
        Calls == {l \in {d.logic : d \in Range(model.decisions)} \cup {b.logic : b \in Range(model.models)} :
                    l # NoName /\ l.kind = "invoke"}
    IN  /\ cycle = <<>> <=> Evaluable(model)
        /\ cycle # <<>> =>
             /\ Len(cycle) > 1 /\ Head(cycle) = Last(cycle)
             /\ \A i \in 1..(Len(cycle) - 1) : <<cycle[i], cycle[i + 1]>> \in Range(model.information)
        /\ artifact # NoName =>
             /\ \A r \in Range(model.information \o model.knowledge \o model.authority) :
                  Cardinality(Declared(r[1])) = 1 /\ Cardinality(Declared(r[2])) = 1
             /\ \A d \in Range(model.decisions) : d.logic # NoName /\ d.logic.kind = "table" =>
                  \E t \in Range(file.tables) :
                    /\ t.path = d.logic.name
                    /\ Len(t.table.outputs) = Len(d.outputs)
                    /\ \A i \in Range(model.inputs) :
                         <<d.name, i.name>> \in Range(model.information) <=> i.name \in Range(t.table.inputs)
             /\ \A l \in Calls : \E b \in Range(model.models) :
                  /\ b.name = l.name
                  /\ \A p \in Range(b.parameters) :
                       Cardinality({i \in DOMAIN l.bindings : l.bindings[i].name = p.name}) = 1

(* A deployment fits its target as the artifact alone describes it: with    *)
(* the setting of the highest level that makes one, every component's needs *)
(* are among the target's capabilities, databases have an engine the target *)
(* hosts, and every policy of the profile is decided and obeyed.            *)
SettingsOf(a, p, d) ==
  LET At(settings, path) == {v \in settings : v.path = path}
      Level(c, s) == CASE At(d.configure, <<c.name, s>>) # {} -> At(d.configure, <<c.name, s>>)
                       [] At(d.configure, <<c.name, s>>) = {} /\ At(p.defaults, <<c.name, s>>) # {} ->
                            At(p.defaults, <<c.name, s>>)
                       [] OTHER -> At(Range(c.settings), <<s>>)
      Names(c) == {s \in DOMAIN Vocabulary(c.kind) : Level(c, s) # {}}
  IN  [n \in {c.name : c \in a.components} |->
         LET c == CHOOSE k \in a.components : k.name = n
         IN  [s \in Names(c) |-> (CHOOSE v \in Level(c, s) : TRUE).value]]

DeploymentsFit ==
  Accepted("deploy") =>
    \A d \in Range(artifact.deployments) :
      \E a \in Range(artifact.applications), p \in Range(artifact.profiles) :
        /\ a.name = d.application /\ p.name = d.profile
        /\ LET effective == SettingsOf(a, p, d)
           IN  /\ \A c \in a.components :
                    /\ \A need \in c.requires \cup KindRequires(c.kind) : need \in TargetCapabilities(p.target)
                    /\ Word(effective[c.name], "engine") = "sqlite" =>
                         "persistentFilesystem" \in TargetCapabilities(p.target)
                    /\ Word(effective[c.name], "runtime") = "container" =>
                         "container" \in TargetCapabilities(p.target)
                    /\ c.kind = "database" =>
                         Word(effective[c.name], "engine") \in TargetEngines(p.target) \cup {NoName}
               /\ \A policy \in p.policies :
                    Evaluate(policy.expr, effective) = <<"bool", ~policy.prohibit>>

-----------------------------------------------------------------------------
(* The rules of docs/DDD.md stated over a whole application at once, what  *)
(* an artifact promises its readers, and the compilation of a design as an *)
(* implementation of DesignContract.                                       *)

Modules(c) == Range(c.application.modules)
ServicesOf(c) == UNION {{<<m.name, s>> : s \in Range(m.services)} : m \in Modules(c)}
DesignsOf(c) == UNION {{<<m.name, d>> : d \in Range(m.designs)} : m \in Modules(c)}
SearchesOf(c) == UNION {{<<m.name, s>> : s \in Range(m.searches)} : m \in Modules(c)}

\* The names of all declarations of a kind, as often as they are declared.
Declared(c, Names(_)) == FlattenSeq([i \in DOMAIN c.application.modules |-> Names(c.application.modules[i])])

ScopeOf(c) == EnvOf(c, c.application.base)
ClassNamed(e, d) == ResolveDesigned(e, d.class)

-----------------------------------------------------------------------------
(* Cross-element rules.                                                    *)

NamesAreUnique(c) ==
  LET e == ScopeOf(c)
      designs == Declared(c, LAMBDA m : m.designs)
      repositories == SelectSeq(designs, LAMBDA d : d.repository # NoName)
  IN  /\ IsInjective(Declared(c, LAMBDA m : <<m.name>>))
      /\ IsInjective(Declared(c, LAMBDA m : NameList(m.services)))
      /\ IsInjective(Declared(c, LAMBDA m : NameList(m.searches)))
      /\ IsInjective([i \in DOMAIN repositories |-> repositories[i].repository.name])
      /\ IsInjective([i \in DOMAIN designs |-> ClassNamed(e, designs[i])])
      /\ \A s \in ServicesOf(c) : IsInjective(NameList(s[2].operations))
      /\ \A d \in DesignsOf(c) :
           d[2].repository # NoName => IsInjective(NameList(d[2].repository.operations))

\* Where a delegation of module m may go: an operation of a service, of a
\* repository of m, or a search of m; a service hides a repository or a
\* search of its name, a repository a search.
MayDelegate(c, m, target, operation) ==
  LET services == {s[2] : s \in ServicesOf(c)}
      repositories == {[module |-> d[1], r |-> d[2].repository] :
                         d \in {e \in DesignsOf(c) : e[2].repository # NoName}}
  IN  \/ \E s \in services : s.name = target /\ operation \in Range(NameList(s.operations))
      \/ /\ \A s \in services : s.name # target
         /\ \/ \E r \in repositories : /\ r.r.name = target /\ r.module = m
                                       /\ operation \in Range(NameList(r.r.operations))
            \/ /\ \A r \in repositories : r.r.name # target
               /\ \E s \in SearchesOf(c) : s[1] = m /\ s[2].name = target /\ operation = "search"

ReferencesLand(c) ==
  LET injectable == {s[2].name : s \in ServicesOf(c)} \cup {s[2].name : s \in SearchesOf(c)}
        \cup {d[2].repository.name : d \in {e \in DesignsOf(c) : e[2].repository # NoName}}
  IN  \A s \in ServicesOf(c) :
        /\ s[2].dependencies \subseteq injectable
        /\ \A o \in Range(s[2].operations) :
             o.delegation # NoName => MayDelegate(c, s[1], o.delegation.target, o.delegation.operation)

\* What a class contains, directly or not: the least set closed under
\* containment, found without a search.
PartsOf(edges, owner) ==
  LET classes == {e[2] : e \in edges}
      Closed(S) == \A e \in edges : e[1] \in S \cup {owner} => e[2] \in S
  IN  {p \in classes : \A S \in SUBSET classes : Closed(S) => p \in S}

\* A class is a root when nothing contains it, and an aggregate is what one
\* root contains; classes under several roots, or only under each other,
\* belong to no aggregate.  Where a domain is missing, nothing is known.
AggregatesHold(c) ==
  LET e == ScopeOf(c)
      union == e.packages
      classes == ClassKeys(union)
      parts == [k \in classes |-> PartsOf(ContainmentEdges(union), k)]
      tops == {k \in classes : \A o \in classes : k \notin parts[o]}
      roots == [k \in classes |-> {r \in tops : r = k \/ k \in parts[r]}]
      entities == {ClassNamed(e, d[2]) : d \in {f \in DesignsOf(c) : f[2].stereotype = "entity"}}
      owners == {ClassNamed(e, d[2]) : d \in {f \in DesignsOf(c) : f[2].repository # NoName}}
  IN  e.union # NoName =>
      /\ \A o \in owners : \A k \in entities \ {o} : o \notin parts[k]
      /\ \A k \in classes : \A f \in ClassOf(union, k).features :
           LET target == <<f.type.pkg, f.type.name>>
           IN  \/ f.kind # "cross" \/ f.type.kind # "class"
               \/ Cardinality(roots[target]) # 1 \/ roots[target] = {target}
               \/ Cardinality(roots[k]) # 1 \/ roots[k] = roots[target]

SearchesStayHome(c) ==
  LET e == ScopeOf(c)
  IN  \A s \in SearchesOf(c) : \E d \in DesignsOf(c) :
        /\ d[1] = s[1] /\ d[2].stereotype = "entity"
        /\ ClassNamed(e, d[2]) = ResolveClass(s[2].entity, e.packages, e.base)

-----------------------------------------------------------------------------
(* What a reader of the artifact relies on.                                *)

\* Every state a lowered machine names can be reached from its initial state,
\* and a state has no way out exactly when it is terminal: no lifecycle gets
\* stuck by accident.  It speaks the literals of its enum only, where every
\* domain lowered.
\* (ddd.rs lower_design_machine and docs/DDD.md "State machines")
MachinesAreSound ==
  Accepted("ddd") => \A m \in DesignMachines(artifact) :
    LET states == {m.initial} \cup m.final \cup UNION {{e.from, e.to} : e \in m.events}
        Closed(S) == m.initial \in S /\ \A e \in m.events : e.from \in S => e.to \in S
    IN  /\ \A S \in SUBSET states : Closed(S) => S = states
        /\ \A s \in states : s \in m.final <=> \A e \in m.events : e.from # s
        /\ st.env.union # NoName =>
             \E enum \in UNION {Range(p.enums) : p \in Range(st.env.packages)} : states \subseteq enum

-----------------------------------------------------------------------------
(* The contract.                                                           *)

\* The rules that look at one declaration are taken from the compilation;
\* all that relates two declarations is stated anew.
ElementsAreValid(c) ==
  LET e == ScopeOf(c)
      Scoped(m) == MachineScopes(e, m)
      Element(m, Lower(_, _), element) ==
        Lower([env |-> e, module |-> m.name, scopes |-> Scoped(m).scopes, reg |-> NoRegistries,
               errors |-> {}, lowered |-> <<[m EXCEPT !.designs = <<>>]>>], element).errors = {}
  IN  \A m \in Modules(c) :
        /\ Scoped(m).errors = {} /\ ScopeErrors(m) = {}
        /\ \A s \in Range(m.services) : Element(m, LowerService, s)
        /\ \A d \in Range(m.designs) : Element(m, LowerDesign, d)
        /\ \A s \in Range(m.searches) : Element(m, LowerSearch, s)

LooseNamesAreKnown(c) ==
  LET ops == UNION {Range(s[2].operations) : s \in ServicesOf(c)}
  IN  /\ c.actors # <<>> =>
           (UNION {o.capabilities : o \in ops}) \cup UNION {s[2].capabilities : s \in SearchesOf(c)}
             \subseteq UNION Range(c.actors)
      /\ c.decisions # <<>> =>
           (UNION {o.invokes : o \in ops}) \cup UNION {s[2].decisions : s \in ServicesOf(c)}
             \subseteq UNION {d.services : d \in Range(c.decisions)}

IsValid(c) ==
  /\ c.application # NoName
  /\ EngineErrors(c.parseErrors, MissingDesignImport(c, ScopeOf(c).units), ScopeOf(c).units) = {}
  /\ c.application.base \in {NoName} \cup {p.name : p \in Range(ScopeOf(c).packages)}
  /\ ElementsAreValid(c) /\ NamesAreUnique(c) /\ ReferencesLand(c)
  /\ AggregatesHold(c) /\ SearchesStayHome(c) /\ LooseNamesAreKnown(c)

Designing == input.surface = "ddd"

Contract == INSTANCE DesignContract
              WITH None <- NoName, decided <- Designing /\ pc = "done",
                   artifact <- IF Designing THEN artifact ELSE NoName,
                   Valid <- LAMBDA i : IsValid(i.file),
                   ArtifactOf <- LAMBDA i : i.file.application.modules

\* The walk with its registries, in whatever order the file declares things,
\* decides once, and what the contract decides.
\* (ddd.rs compile_ddd_file)
MeetsContract == Contract!Spec
=============================================================================
