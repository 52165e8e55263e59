----------------------------- MODULE DesignModel -----------------------------
(***************************************************************************)
(* The compilation of a .ddd file (rex-driver ddd.rs) and the state         *)
(* machines it hands to the workflow tools (machines.rs).                  *)
(*                                                                         *)
(* One walk over the modules of the application lowers their services,     *)
(* designs and searches and fills registries; what may point forwards, or  *)
(* at another module, is only recorded on the way and checked against the  *)
(* complete registries afterwards.  The artifact is withheld when anything *)
(* reported an error.                                                      *)
(*                                                                         *)
(* Abstracted: texts, spans and help; a condition is the names it mentions *)
(* and whether it parses and is boolean; a parameter list is the set of    *)
(* its type references.                                                    *)
(***************************************************************************)
EXTENDS NameScope

CONSTANTS
  DerivedTrigger    \* the event a bare arrow derives from its target's name

\* What the rules resolve against: the packages of the imported domains that
\* lowered, the base package, and the union model, which exists only when
\* all of them did.
EnvOf(compilation, basePackage) ==
  LET units == DomainUnits(compilation.imports, compilation.files)
  IN  [units |-> units, packages |-> Lowered(units), base |-> basePackage,
       union |-> IF AllLowered(units) THEN Lowered(units) ELSE NoName]

ResolveType(env, ref) == ResolvePreferred(ref, env.packages, env.base)
ResolveDesigned(env, name) ==
  ResolveClass([pkg |-> NoName, local |-> name], env.packages, env.base)
FeaturesIn(env, class) ==
  IF class = NoName \/ env.union = NoName THEN NoName ELSE ClassFeatures(env.union, class)

NoRegistries ==
  [modules |-> {}, services |-> NoEntries, repositories |-> NoEntries, searches |-> NoEntries,
   designed |-> {}, entities |-> {}, roots |-> {}, delegations |-> {}, bindings |-> {},
   injects |-> {}, capabilities |-> {}, decisions |-> {}]

-----------------------------------------------------------------------------
(* The syntax tree.                                                        *)

Stereotypes == {"entity", "value", "dto"}

ConditionNode(c) == c # NoName => HasFields(c, {"parses", "boolean", "names"})

DddDelegation(d) == d # NoName => HasFields(d, {"target", "operation"})

\* An operation of a service or of a repository; a parameter is its type.
DddServiceOp(o) ==
  /\ HasFields(o, {"name", "types", "delegation", "when", "builtin", "capabilities", "invokes"})
  /\ \A t \in o.types : TypeReference(t)
  /\ DddDelegation(o.delegation) /\ ConditionNode(o.when)

\* The built-in operations are their name only.
DddRepositoryOp(o) ==
  /\ DddServiceOp(o) /\ o.delegation = NoName /\ o.capabilities \cup o.invokes = {}
  /\ o.builtin \in BOOLEAN

DddService(s) ==
  /\ HasFields(s, {"name", "operations", "dependencies", "decisions"})
  /\ IsList(s.operations) /\ \A o \in Range(s.operations) : DddServiceOp(o)

\* Of a flag given twice the first occurrence counts.
DddFlags(flags) ==
  /\ HasFields(flags, {"scaffold", "auditable", "optimisticLocking", "nonPersistent", "cache"})
  /\ \A f \in DOMAIN flags : flags[f] \in {NoName, "on", "off"}

DddMachineTransition(t) == HasFields(t, {"from", "to", "trigger", "guard"}) /\ ConditionNode(t.guard)

DddMachine(m) ==
  /\ HasFields(m, {"field", "type", "initial", "terminals", "transitions"})
  /\ TypeReference(m.type)
  /\ IsList(m.terminals) /\ NoName \notin Range(m.terminals)
  /\ IsList(m.transitions)
  /\ \A t \in Range(m.transitions) : DddMachineTransition(t) /\ NoName \notin {t.from, t.to}

DddRepository(r) ==
  /\ HasFields(r, {"name", "operations"})
  /\ IsList(r.operations) /\ \A o \in Range(r.operations) : DddRepositoryOp(o)

DddDesign(d) ==
  /\ HasFields(d, {"class", "stereotype", "flags", "repository", "machine"})
  /\ d.class # NoName /\ d.stereotype \in Stereotypes /\ DddFlags(d.flags)
  /\ d.repository # NoName => DddRepository(d.repository)
  /\ d.machine # NoName => DddMachine(d.machine)

DddSearch(s) ==
  /\ HasFields(s, {"name", "entity", "text", "keys", "document", "pagination", "capabilities"})
  /\ s.entity # NoName => TypeReference(s.entity)
  /\ \A t \in s.text : HasFields(t, {"path", "boost"})
  /\ IsList(s.document) /\ \A e \in Range(s.document) : HasFields(e, {"name", "expr"}) /\ ConditionNode(e.expr)
  /\ s.pagination # NoName => HasFields(s.pagination, {"limit", "max"})

DddModule(m) ==
  /\ HasFields(m, {"name", "services", "designs", "searches"})
  /\ IsList(m.services) /\ \A s \in Range(m.services) : DddService(s)
  /\ IsList(m.designs) /\ \A d \in Range(m.designs) : DddDesign(d)
  /\ IsList(m.searches) /\ \A s \in Range(m.searches) : DddSearch(s)

DddFile(file) ==
  /\ HasFields(file.application, {"base", "modules"})
  /\ IsList(file.application.modules) /\ \A m \in Range(file.application.modules) : DddModule(m)

-----------------------------------------------------------------------------
(* Conditions.                                                             *)

\* The state names a module's machines bind: a later machine gives up the
\* names an earlier one has.
MachineScopes(env, module) ==
  LET Bound(acc, d) ==
        LET class == ResolveDesigned(env, d.class)
            enum == ResolveType(env, d.machine.type)
            states == When(d.machine.initial # NoName, d.machine.initial)
                        \cup Range(d.machine.terminals)
                        \cup UNION {{t.from, t.to} : t \in Range(d.machine.transitions)}
            taken == UNION {s.states : s \in Range(acc.scopes)}
        IN  IF class = NoName \/ enum.kind # "enum"
            THEN [acc EXCEPT !.errors = @ \cup When(class = NoName, "unknown class")
                                          \cup When(class # NoName /\ enum = Unresolved, "unknown type")]
            ELSE [scopes |-> Append(acc.scopes, [class |-> class, states |-> states \ taken]),
                  errors |-> acc.errors \cup When(states \cap taken # {}, "ambiguous state")]
  IN  FoldLeft(Bound, [scopes |-> <<>>, errors |-> {}],
               SelectSeq(module.designs, LAMBDA d : d.machine # NoName))

\* A condition is typed only where its class is known and the domains lowered.
ConditionErrors(env, condition, self, scopes) ==
  IF condition = NoName THEN {}
  ELSE When(\/ ~condition.parses
            \/ /\ env.union # NoName /\ self # NoName
               /\ LET features == FeaturesIn(env, self)
                      names == {f.name : f \in IF features = NoName THEN {} ELSE features}
                                 \cup UNION {s.states : s \in Range(scopes)}
                  IN  ~condition.boolean \/ ~(condition.names \subseteq names),
            "invalid condition")

TypeErrors(env, types) ==
  When(\E r \in types : ~Resolves(r, env.packages, env.base), "unknown type")

-----------------------------------------------------------------------------
(* Services.                                                               *)

\* A delegation takes its target's signature, whatever it is.
OperationErrors(st, self, o) ==
  ConditionErrors(st.env, o.when, self, st.scopes)
    \cup (IF o.delegation = NoName THEN TypeErrors(st.env, o.types) ELSE {})

\* The first machine of the module is the `self` of every service condition.
LowerService(st, service) ==
  LET self == IF st.scopes = <<>> THEN NoName ELSE Head(st.scopes).class
      ops == Range(service.operations)
      delegating == {o \in ops : o.delegation # NoName}
      names == [i \in DOMAIN service.operations |-> service.operations[i].name]
  IN  [st EXCEPT
         !.errors = @ \cup When(service.name \in DOMAIN st.reg.services, "duplicate service")
                      \cup When(Repeated(names) # {}, "duplicate operation")
                      \cup UNION {OperationErrors(st, self, o) : o \in ops},
         !.reg.services = Register(@, service.name, Range(names)),
         !.reg.delegations = @ \cup {[module |-> st.module, target |-> o.delegation.target,
                                      operation |-> o.delegation.operation] : o \in delegating},
         !.reg.capabilities = @ \cup UNION {o.capabilities : o \in ops},
         !.reg.injects = @ \cup service.dependencies,
         !.reg.decisions = @ \cup service.decisions \cup UNION {o.invokes : o \in ops}]

-----------------------------------------------------------------------------
(* Designs.                                                                *)

\* Flags: "on", "off" (negated) or NoName, per keyword.
FlagErrors(design) ==
  LET f == design.flags
      entityOnly == {f.scaffold, f.auditable, f.optimisticLocking}
  IN  When("off" \in {f.scaffold, f.nonPersistent, f.cache}, "meaningless flag")
        \cup When(IF design.stereotype = "entity" THEN f.nonPersistent # NoName
                  ELSE entityOnly # {NoName}, "misplaced flag")

\* What the union says of the designed class (rules 12, 14, 15 and 16).
ContractErrors(env, design, class) ==
  LET known == FeaturesIn(env, class)
      features == IF known = NoName THEN {} ELSE known
      statusLike == {f \in features : f.name \in {"status", "state"}
                                        /\ f.type.kind = "primitive" /\ f.type.name = "String"}
  IN  When(design.stereotype = "value" /\ \E f \in features : ~f.derived /\ ~f.readonly,
           "mutable value")
        \cup When(design.stereotype = "entity" /\ statusLike # {}, "bare string status")
        \cup When(design.stereotype = "entity" /\ design.flags.scaffold = "on"
                    /\ design.repository = NoName, "scaffold without repository")

\* The built-in operations have neither types nor conditions.
RepositoryOperationErrors(st, class, operations) ==
  LET declared == {o \in Range(operations) : ~o.builtin}
  IN  When(Repeated([i \in DOMAIN operations |-> operations[i].name]) # {}, "duplicate operation")
        \cup TypeErrors(st.env, UNION {o.types : o \in declared})
        \cup UNION {ConditionErrors(st.env, o.when, class, st.scopes) : o \in declared}

LowerRepository(st, design, class) ==
  LET repository == design.repository
      names == [i \in DOMAIN repository.operations |-> repository.operations[i].name]
  IN  [st EXCEPT
         !.errors = @ \cup When(design.stereotype # "entity", "repository of no entity")
                      \cup When(repository.name \in DOMAIN st.reg.repositories, "duplicate repository")
                      \cup RepositoryOperationErrors(st, class, repository.operations),
         !.reg.repositories =
            Register(@, repository.name, [module |-> st.module, ops |-> Range(names)])]

\* The edges of a machine: an edge written twice is dropped, and an explicit
\* trigger leaves a state once.
EdgesOf(machine) ==
  LET written == machine.transitions
      kept == Firsts([i \in DOMAIN written |-> <<written[i].from, written[i].to, written[i].trigger>>])
      Clash(t, other) == t.trigger # NoName /\ other.from = t.from /\ other.trigger = t.trigger
  IN  [edges |-> Picked(written, kept),
       errors |-> When(kept # DOMAIN written, "duplicate transition")
                    \cup When(\E i, j \in kept : i < j /\ Clash(written[j], written[i]), "ambiguous trigger")]

\* Without a declared initial state the check goes on from the first
\* terminal, or from where the first transition leaves.
InitialOf(machine) ==
  CASE machine.initial # NoName -> machine.initial
    [] machine.initial = NoName /\ machine.terminals # <<>> -> Head(machine.terminals)
    [] machine.initial = NoName /\ machine.terminals = <<>> /\ machine.transitions # <<>> ->
         Head(machine.transitions).from
    [] OTHER -> NoName

\* The states over the edges that were kept: literals of the enum, reached
\* from the initial state, left exactly when not terminal.
StateErrors(initial, terminals, arrows, literals) ==
  LET states == When(initial # NoName, initial) \cup terminals
                  \cup UNION {{a[1], a[2]} : a \in arrows}
  IN  When(\E a \in arrows : a[1] \in terminals, "terminal state is left")
        \cup When(literals # NoName /\ ~(states \subseteq literals), "state is no literal")
        \cup When(initial # NoName /\ ~(states \subseteq {initial} \cup ReachedFrom(arrows, initial)),
                  "unreachable state")
        \cup When(initial # NoName /\ \E s \in states \ terminals : \A a \in arrows : a[1] # s,
                  "dead end")

\* A guard sees the states of the machine of its own class only.
GuardErrors(env, machine, class, scopes) ==
  LET own == SelectSeq(scopes, LAMBDA s : s.class = class)
      guards == {t.guard : t \in Range(machine.transitions)}
  IN  UNION {ConditionErrors(env, g, class, SubSeq(own, 1, 1)) : g \in guards}

\* The errors of a machine, those that do not withhold it last.
MachineErrors(env, machine, design, class, scopes) ==
  LET enum == ResolveType(env, machine.type)
      known == FeaturesIn(env, class)
      bound == {f \in IF known = NoName THEN {} ELSE known : f.name = machine.field}
      edges == EdgesOf(machine)
      literals == IF env.union # NoName THEN EnumLiterals(env.union, enum) ELSE NoName
  IN  [withholding |->
         When(design.stereotype # "entity", "machine of no entity")
           \cup When(enum = Unresolved, "unknown type")
           \cup When(enum.kind # "enum", "machine over no enum")
           \cup When(/\ NoName \notin {class, env.union}
                     /\ bound = {} \/ \E f \in bound : f.type # enum, "machine binds no field")
           \cup When(machine.initial = NoName, "no initial state")
           \cup (edges.errors \cap {"ambiguous trigger"})
           \cup StateErrors(InitialOf(machine), Range(machine.terminals),
                            {<<e.from, e.to>> : e \in Range(edges.edges)}, literals),
       other |->
         When(Repeated(machine.terminals) # {}, "duplicate terminal")
           \cup (edges.errors \cap {"duplicate transition"})
           \cup GuardErrors(env, machine, class, scopes)]

LowerDesign(st, design) ==
  LET class == ResolveDesigned(st.env, design.class)
      key == IF class = NoName THEN <<NoName, design.class>> ELSE class
      found == IF design.machine = NoName THEN [withholding |-> {}, other |-> {}]
               ELSE MachineErrors(st.env, design.machine, design, class, st.scopes)
      machine == IF design.machine = NoName \/ found.withholding # {} THEN NoName
                 ELSE [design.machine EXCEPT !.transitions = EdgesOf(design.machine).edges]
      entered == IF design.repository = NoName THEN st ELSE LowerRepository(st, design, class)
      entity == design.stereotype = "entity" /\ class # NoName
  IN  [entered EXCEPT
         !.errors = @ \cup When(class = NoName, "unknown class")
                      \cup When(key \in st.reg.designed, "duplicate design")
                      \cup FlagErrors(design) \cup ContractErrors(st.env, design, class)
                      \cup found.withholding \cup found.other,
         !.reg.designed = @ \cup {key},
         !.reg.entities = @ \cup When(entity, [class |-> class, module |-> st.module]),
         !.reg.roots = @ \cup When(entity /\ design.repository # NoName, class),
         !.lowered[Len(st.lowered)].designs = Append(@, [design EXCEPT !.machine = machine])]

-----------------------------------------------------------------------------
(* Searches.                                                               *)

TextIndexable(type) == type.kind \in {"enum", "datatype"} \/ type.name = "String"

\* The fields a search lists are features of its entity (rule 11): text is
\* indexable, what filters or sorts is no class.
FieldErrors(search, features) ==
  LET Named(path) == {f \in features : path = <<f.name>>}
  IN  When(\E t \in search.text :
             \/ Named(t.path) = {} \/ t.boost < 1
             \/ \E f \in Named(t.path) : ~TextIndexable(f.type), "bad text field")
        \cup When(\E p \in search.keys :
                    \/ Named(p) = {}
                    \/ \E f \in Named(p) : f.type.kind \in {"class", "interface"}, "bad key")

DocumentErrors(search, features) ==
  When(Repeated([i \in DOMAIN search.document |-> search.document[i].name]) # {},
       "duplicate document field")
    \cup When(\E d \in Range(search.document) :
                 ~d.expr.parses \/ ~(d.expr.names \subseteq {f.name : f \in features}),
              "invalid document expression")

PaginationErrors(p) ==
  LET Low(bound) == bound # NoName /\ bound < 1
  IN  When(/\ p # NoName
           /\ \/ Low(p.limit) \/ Low(p.max)
              \/ NoName \notin {p.limit, p.max} /\ p.limit > p.max, "bad pagination")

LowerSearch(st, search) ==
  LET class == IF search.entity = NoName THEN NoName ELSE ResolveClass(search.entity, st.env.packages, st.env.base)
      features == FeaturesIn(st.env, class)
  IN  [st EXCEPT
         !.errors = @ \cup When(search.name \in DOMAIN st.reg.searches, "duplicate search")
                      \cup When(class = NoName, "search of no entity")
                      \cup (IF features = NoName THEN {}
                             ELSE FieldErrors(search, features) \cup DocumentErrors(search, features))
                      \cup PaginationErrors(search.pagination),
         !.reg.searches = Register(@, search.name, st.module),
         !.reg.bindings = @ \cup When(class # NoName, [class |-> class, module |-> st.module]),
         !.reg.capabilities = @ \cup search.capabilities]

-----------------------------------------------------------------------------
(* What the complete registries decide.                                    *)

\* Rule 8: a delegation lands on a service of the application, or on a
\* repository or a search of its own module.
WrongDelegation(reg, d) ==
  CASE d.target \in DOMAIN reg.services -> d.operation \notin reg.services[d.target]
    [] d.target \in DOMAIN reg.repositories ->
         LET r == reg.repositories[d.target] IN r.module # d.module \/ d.operation \notin r.ops
    [] d.target \in DOMAIN reg.searches ->
         reg.searches[d.target] # d.module \/ d.operation # "search"
    [] OTHER -> TRUE

\* Mutant: a repository is taken wherever it lives.
DelegationErrorsAbroad(reg) ==
  When(\E d \in reg.delegations :
          d.target \notin DOMAIN reg.repositories /\ WrongDelegation(reg, d), "bad delegation")

DelegationErrors(reg) == When(\E d \in reg.delegations : WrongDelegation(reg, d), "bad delegation")

\* Rule 9: the injected names are services, repositories or searches.
InjectErrors(reg) ==
  When(~(reg.injects \subseteq DOMAIN reg.services \cup DOMAIN reg.repositories \cup DOMAIN reg.searches),
       "unknown dependency")

\* Rule 11: a search and the design of its entity share a module.
BindingErrors(reg) == When(~(reg.bindings \subseteq reg.entities), "search of another module's entity")

\* Rule 6: a class with a repository is contained by no other designed entity.
BoundaryErrors(reg, union) ==
  When(/\ union # NoName
       /\ \E root \in reg.roots : \E e \in reg.entities :
            e.class # root /\ Reaches(ContainmentEdges(union), e.class, root),
       "contained root")

\* Rule 13: a cross reference into an aggregate from outside meets its root.
CrossReferences(union) ==
  UNION {{<<k, f.type>> : f \in {g \in ClassOf(union, k).features : g.kind = "cross"}} : k \in ClassKeys(union)}

ReferenceErrors(union) ==
  LET edges == ContainmentEdges(union)
      Escapes(owner, type) ==
        LET target == <<type.pkg, type.name>>
            root == AggregateRoot(edges, target)
            from == AggregateRoot(edges, owner)
        IN  type.kind = "class" /\ root \notin {NoName, target} /\ from \notin {NoName, root}
  IN  When(/\ union # NoName
           /\ \E r \in CrossReferences(union) : Escapes(r[1], r[2]),
           "reference escapes aggregate")

\* Rules 10 and 17: skipped where the host gave no actor or decision models.
LooseNameErrors(reg, file) ==
  LET declared == UNION Range(file.actors)
      services == UNION {d.services : d \in Range(file.decisions)}
  IN  When(file.actors # <<>> /\ ~(reg.capabilities \subseteq declared), "unknown capability")
        \cup When(file.decisions # <<>> /\ ~(reg.decisions \subseteq services), "unknown decision")

\* The checks that wait for the last module.
CrossModuleRules(st, file) ==
  [st EXCEPT !.errors = @ \cup BindingErrors(st.reg) \cup BoundaryErrors(st.reg, st.env.union)
                          \cup ReferenceErrors(st.env.union) \cup InjectErrors(st.reg)
                          \cup DelegationErrors(st.reg) \cup LooseNameErrors(st.reg, file)]

-----------------------------------------------------------------------------
(* The compilation: opening the file, then one module after the other.     *)

MissingDesignImport(file, units) ==
  \E import \in Range(file.imports) :
    IF import.dmn
    THEN /\ file.decisions # <<>>
         /\ ~\E d \in Range(file.decisions) : ImportMatches(import, d)
    ELSE ~\E u \in Range(units) : u.path = import.path

\* Rule 1: a base package no imported domain declares is reported, and no base.
BasePackage(application, packages) ==
  LET named == IF application = NoName THEN NoName ELSE application.base
      known == named \in {p.name : p \in Range(packages)}
  IN  [base |-> IF known THEN named ELSE NoName,
       errors |-> When(named # NoName /\ ~known, "unknown base package")]

\* Imports, the errors of the domains, and the base package.
OpenDesign(file) ==
  LET found == EnvOf(file, NoName)
      base == BasePackage(file.application, found.packages)
  IN  [env |-> [found EXCEPT !.base = base.base],
       reg |-> NoRegistries, lowered |-> <<>>, module |-> NoName, scopes |-> <<>>,
       errors |-> EngineErrors(file.parseErrors, MissingDesignImport(file, found.units), found.units)
                    \cup base.errors]

\* A service condition needs the one machine of its module.
ScopeErrors(module) ==
  When(/\ Cardinality({i \in DOMAIN module.designs : module.designs[i].machine # NoName}) # 1
       /\ \E s \in Range(module.services) : \E o \in Range(s.operations) : o.when # NoName,
       "condition without machine")

OpenModule(st, module) ==
  LET scoped == MachineScopes(st.env, module)
  IN  [st EXCEPT !.module = module.name, !.scopes = scoped.scopes,
                 !.reg.modules = @ \cup {module.name},
                 !.lowered = Append(@, [module EXCEPT !.designs = <<>>]),
                 !.errors = @ \cup scoped.errors \cup ScopeErrors(module)
                              \cup When(module.name \in st.reg.modules, "duplicate module")]

-----------------------------------------------------------------------------
\* The statecharts of a lowered design, handed to the workflow tools: a bare
\* arrow's event is derived from its target.
EventOf(t) == IF t.trigger # NoName THEN t.trigger ELSE DerivedTrigger[t.to]

DesignMachines(modules) ==
  {[id |-> d.class, initial |-> d.machine.initial, final |-> Range(d.machine.terminals),
    events |-> {[from |-> t.from, event |-> EventOf(t), to |-> t.to] : t \in Range(d.machine.transitions)}]
     : d \in {e \in UNION {Range(m.designs) : m \in Range(modules)} : e.machine # NoName}}
=============================================================================
