------------------------------- MODULE UseCase -------------------------------
(***************************************************************************)
(* The lowering of .uc and .cmmn files (rex-driver usecases.rs, cmmn.rs).   *)
(*                                                                         *)
(* A use case: participants with their occurrences and steps, messages     *)
(* between them, the succession graph, the authority the steps require,    *)
(* the designs they realize.                                               *)
(*                                                                         *)
(* A participant is [name, type, occurrences, steps], its occurrences      *)
(* <<"named", n>> or <<"end", message, side>>; a message is [name, payload, *)
(* source, target] with endpoints <<participant, anchor>>.  A node of the   *)
(* graph is <<"start">>, <<"done">>, <<"step", n>>, <<"occurrence", p, n>>  *)
(* or <<"message", m, side>>; the nodes of end occurrences, which nothing   *)
(* can refer to, are left out.  A provided actor model is its actors,       *)
(* capabilities, permits and unconditional forbids (pairs <<actor,          *)
(* capability>>, delegations to the actor included) and never-both pairs.   *)
(***************************************************************************)
EXTENDS NameScope

\* What the hosts provide beside the domains, found as .deploy files find it.
Buckets == {"designs", "actors", "events"}

IrService(service) == HasFields(service, {"name", "operations"})

ProvidedDesign(design) ==
  /\ HasFields(design, {"path", "normal", "modules", "services"})
  /\ IsList(design.services) /\ \A s \in Range(design.services) : IrService(s)

\* The blocks of a file taken together.
ProvidedActors(actors) ==
  /\ HasFields(actors, {"path", "normal", "actors", "capabilities", "permits", "forbids", "neverBoth"})
  /\ \A grant \in actors.permits \cup actors.forbids : grant = <<grant[1], grant[2]>>

ProvidedEvents(events) == HasFields(events, {"path", "normal", "events"})

ProvidedToCases(file) ==
  /\ \A bucket \in Buckets : IsList(file[bucket])
  /\ \A d \in Range(file.designs) : ProvidedDesign(d)
  /\ \A a \in Range(file.actors) : ProvidedActors(a)
  /\ \A e \in Range(file.events) : ProvidedEvents(e)

Provides(file, bucket, import) ==
  \E i \in DOMAIN file[bucket] : ImportMatches(import, file[bucket][i])

\* Only a design import may have an alias.
ImportErrors(file, units) ==
  LET Domain(import) == \E i \in DOMAIN units : units[i].path = import.path
      Hit(import) == Domain(import) \/ \E b \in Buckets : Provides(file, b, import)
  IN  When(\E m \in Range(file.imports) : ~Hit(m), "import not provided")
        \cup When(\E m \in Range(file.imports) :
                    Hit(m) /\ m.alias # NoName /\ ~Provides(file, "designs", m), "alias of no design")

\* The first aliased design import of an alias wins.
DesignOf(file, alias) ==
  LET import == FirstOf(file.imports,
                        LAMBDA m : m.alias = alias /\ Provides(file, "designs", m), NoName)
  IN  IF alias = NoName \/ import = NoName THEN NoName
      ELSE FirstOf(file.designs, LAMBDA d : ImportMatches(import, d), NoName)

\* alias.service.operation, of the only service of that name in the design.
BindingErrorsTo(file, binding) ==
  LET design == DesignOf(file, binding.alias)
      services == SelectSeq(design.services, LAMBDA s : s.name = binding.service)
  IN  CASE design = NoName -> {"unknown design alias"}
        [] services = <<>> -> {"unknown service"}
        [] Len(services) > 1 -> {"ambiguous service"}
        [] OTHER -> When(binding.operation \notin services[1].operations, "unknown operation of service")

OpenSurface(file) ==
  LET units == DomainUnits(file.imports, file.files)
  IN  [packages |-> Lowered(units), lowered |-> <<>>,
       errors |-> EngineErrors(file.parseErrors, FALSE, units) \cup ImportErrors(file, units)]

-----------------------------------------------------------------------------
(* The syntax tree of a .uc file.                                          *)

UcOccurrence(o) ==
  o = <<"named", o[2]>> \/ (o = <<"end", o[2], o[3]>> /\ o[3] \in {"source", "target"})

UcStep(step) == HasFields(step, {"name", "operation", "requires", "when"})

UcParticipant(p) ==
  /\ HasFields(p, {"name", "type", "occurrences", "steps"})
  /\ p.type # NoName => TypeReference(p.type)
  /\ IsList(p.occurrences) /\ \A o \in Range(p.occurrences) : UcOccurrence(o)
  /\ IsList(p.steps) /\ \A step \in Range(p.steps) : UcStep(step)

UcMessage(m) ==
  /\ HasFields(m, {"name", "payload", "source", "target"})
  /\ m.payload # NoName => TypeReference(m.payload)
  /\ \A end \in {m.source, m.target} \ {NoName} : end = <<end[1], end[2]>>

UcNodeRef(r) == r \in {<<"start">>, <<"done">>} \/ r = <<"bare", r[2]>> \/ r = <<"dotted", r[2], r[3]>>

ParticipantsOf(uc) == (IF uc.subject = NoName THEN <<>> ELSE <<uc.subject>>) \o uc.actors

\* What the end of a message may be lowered to; none of it stands for an
\* absent end.
Anchors(p) ==
  {<<"end", "source">>, <<"end", "target">>}
    \cup {<<"occurrence", o[2]>> : o \in Range(p.occurrences)} \cup {<<"step", s.name>> : s \in Range(p.steps)}

UcDecl(uc) ==
  /\ HasFields(uc, {"name", "subject", "actors", "messages", "successions", "realizes"})
  /\ IsList(uc.actors) /\ IsList(uc.messages) /\ IsList(uc.successions)
  /\ \A p \in Range(ParticipantsOf(uc)) : UcParticipant(p) /\ NoName \notin {p.name} \X Anchors(p)
  /\ \A m \in Range(uc.messages) : UcMessage(m)
  /\ \A s \in Range(uc.successions) : s = <<s[1], s[2]>> /\ UcNodeRef(s[1]) /\ UcNodeRef(s[2])

UcFile(file) == IsList(file.useCases) /\ \A uc \in Range(file.useCases) : UcDecl(uc)

-----------------------------------------------------------------------------
(* Participants.                                                           *)

IsSubject(uc, i) == uc.subject # NoName /\ i = 1
NamedOccurrences(p) == {o[2] : o \in {q \in Range(p.occurrences) : q[1] = "named"}}
StepNames(p) == {s.name : s \in Range(p.steps)}
MessageNames(uc) == {m.name : m \in Range(uc.messages)}

\* Participants, their steps, and messages share one namespace.
NameErrors(uc) ==
  LET Own(p) == <<p.name>> \o [i \in DOMAIN p.steps |-> p.steps[i].name]
      people == ParticipantsOf(uc)
      names == FlattenSeq([i \in DOMAIN people |-> Own(people[i])])
                 \o [i \in DOMAIN uc.messages |-> uc.messages[i].name]
      OccurrenceNames(p) ==
        LET named == SelectSeq(p.occurrences, LAMBDA o : o[1] = "named")
        IN  [i \in DOMAIN named |-> named[i][2]]
  IN  When(Repeated(names) # {}, "duplicate name")
        \cup When(\E p \in Range(people) : Repeated(OccurrenceNames(p)) # {}, "duplicate occurrence")

ActorKnown(file, name) == \E i \in DOMAIN file.actors : name \in file.actors[i].actors

TypeOfParticipant(st, p) ==
  IF p.type = NoName THEN Unresolved ELSE ResolveDomains(p.type, st.packages)

ParticipantErrors(st, file, uc, i) ==
  LET p == ParticipantsOf(uc)[i]
  IN  When(p.type # NoName /\ TypeOfParticipant(st, p) = Unresolved, "unknown type")
        \cup When(p.type = NoName /\ ~IsSubject(uc, i) /\ ~ActorKnown(file, p.name), "unknown actor")
        \cup When(~IsSubject(uc, i) /\ p.steps # <<>>, "step of an actor")
        \cup When(\E o \in Range(p.occurrences) : o[1] = "end" /\ o[2] \notin MessageNames(uc),
                  "unknown message")

\* A step's operation is one of the subject's class or of its bases; its
\* guard is typed against the same class.
StepErrors(st, uc, i) ==
  LET p == ParticipantsOf(uc)[i]
      type == TypeOfParticipant(st, p)
      key == <<type.pkg, type.name>>
      line == {key} \cup ReachedFrom(ExtendsEdges(st.packages), key)
      Offers(operation) == \E k \in line : ClassOf(st.packages, k) # NoName
                                            /\ operation \in ClassOf(st.packages, k).operations
      features == ClassFeatures(st.packages, key)
      Fits(guard) == guard.boolean /\ features # NoName
                       /\ guard.names \subseteq {f.name : f \in features}
  IN  CASE type = Unresolved -> {}
        [] type.kind # "class" -> When(IsSubject(uc, i) /\ p.steps # <<>>, "subject is no class")
        [] OTHER ->
             When(IsSubject(uc, i) /\ \E s \in Range(p.steps) : ~Offers(s.operation), "unknown operation")
               \cup When(\E s \in Range(p.steps) : s.when # NoName
                                                  /\ (~s.when.parses \/ ~Fits(s.when)), "invalid guard")

-----------------------------------------------------------------------------
(* Messages.                                                               *)

\* A payload is a domain type; a name no domain declares may be an event.
PayloadOf(st, file, ref) ==
  LET owner == FirstOf(st.packages, LAMBDA p : p.name = ref.pkg, NoName)
      inDomains == IF ref.pkg = NoName THEN \E i \in DOMAIN st.packages : Declares(st.packages[i], ref.local)
                   ELSE owner # NoName /\ Declares(owner, ref.local)
      contracts == {i \in DOMAIN file.events : ref.pkg = NoName /\ ref.local \in file.events[i].events}
  IN  CASE inDomains -> ResolveDomains(ref, st.packages)
        [] ~inDomains /\ Cardinality(contracts) = 1 ->
             [kind |-> "event", pkg |-> NoName, name |-> ref.local]
        [] OTHER -> Unresolved

\* The end occurrences that declare one end of a message, with multiplicity.
DeclaredEnds(uc, message, side) ==
  LET people == ParticipantsOf(uc)
  IN  UNION {{<<i, k>> : k \in {n \in DOMAIN people[i].occurrences :
                                people[i].occurrences[n] = <<"end", message.name, side>>}}
             : i \in DOMAIN people}

AnchorOf(p, anchor) ==
  CASE anchor \in NamedOccurrences(p) -> <<"occurrence", anchor>>
    [] anchor \in StepNames(p) \ NamedOccurrences(p) -> <<"step", anchor>>
    [] OTHER -> NoName

\* Mutant: an end that is declared and written inline counts once.
EndErrorsLenient(uc, message, side) ==
  When(message[side] = NoName /\ Cardinality(DeclaredEnds(uc, message, side)) # 1, "bad binding")

\* One inline endpoint or one end occurrence, and not both.
EndErrors(uc, message, side) ==
  LET inline == message[side]
      person == FirstOf(ParticipantsOf(uc), LAMBDA p : inline # NoName /\ p.name = inline[1], NoName)
      bindings == Cardinality(DeclaredEnds(uc, message, side)) + (IF inline = NoName THEN 0 ELSE 1)
  IN  When(bindings # 1, "bad binding")
        \cup When(inline # NoName /\ person = NoName, "unknown participant")
        \cup When(inline # NoName /\ person # NoName /\ AnchorOf(person, inline[2]) = NoName, "unknown anchor")

LowerEnd(uc, message, side) ==
  LET inline == message[side]
      person == FirstOf(ParticipantsOf(uc), LAMBDA p : inline # NoName /\ p.name = inline[1], NoName)
      declared == DeclaredEnds(uc, message, side)
  IN  CASE inline # NoName /\ person # NoName -> <<inline[1], AnchorOf(person, inline[2])>>
        [] inline = NoName /\ Cardinality(declared) = 1 ->
             <<ParticipantsOf(uc)[(CHOOSE e \in declared : TRUE)[1]].name, <<"end", side>>>>
        [] OTHER -> NoName

-----------------------------------------------------------------------------
(* Successions.                                                            *)

\* A bare name is a step, else the receipt of a message, else the only
\* occurrence of that name.
NodeOf(uc, ref) ==
  LET people == ParticipantsOf(uc)
      steps == UNION {StepNames(p) : p \in Range(people)}
      declaring == {i \in DOMAIN people : ref[1] = "bare" /\ ref[2] \in NamedOccurrences(people[i])}
      person == FirstOf(people, LAMBDA p : p.name = ref[2], NoName)
  IN  CASE ref[1] \in {"start", "done"} -> ref
        [] ref[1] = "bare" /\ ref[2] \in steps -> <<"step", ref[2]>>
        [] ref[1] = "bare" /\ ref[2] \in MessageNames(uc) \ steps -> <<"message", ref[2], "target">>
        [] ref[1] = "bare" /\ ref[2] \notin MessageNames(uc) \cup steps /\ Cardinality(declaring) = 1 ->
             <<"occurrence", people[CHOOSE i \in declaring : TRUE].name, ref[2]>>
        [] ref[1] = "dotted" /\ ref[3] \in {"source", "target"} /\ ref[2] \in MessageNames(uc) ->
             <<"message", ref[2], ref[3]>>
        [] ref[1] = "dotted" /\ ref[3] \notin {"source", "target"} /\ person # NoName
             /\ ref[3] \in NamedOccurrences(person) -> <<"occurrence", ref[2], ref[3]>>
        [] ref[1] = "dotted" /\ ref[3] \notin {"source", "target"} /\ person # NoName
             /\ ref[3] \in StepNames(person) \ NamedOccurrences(person) -> <<"step", ref[3]>>
        [] OTHER -> NoName

ScenarioEdges(uc) ==
  {<<NodeOf(uc, s[1]), NodeOf(uc, s[2])>> : s \in Range(uc.successions)}

\* What the scenario has to order: steps and both ends of every message.
ScenarioNodes(uc) ==
  (UNION {{<<"step", s>> : s \in StepNames(p)} : p \in Range(ParticipantsOf(uc))})
    \cup {<<"message", m, side>> : m \in MessageNames(uc), side \in {"source", "target"}}

\* Unresolved references make no edge; a cycle hides what is unreachable.
GraphErrors(uc) ==
  LET edges == {e \in ScenarioEdges(uc) : e[1] # NoName /\ e[2] # NoName}
      reached == ReachedFrom(edges, <<"start">>)
  IN  When(\E e \in ScenarioEdges(uc) : e[1] = NoName \/ e[2] = NoName, "unknown node")
        \cup CASE uc.successions = <<>> -> {}
               [] \E e \in edges : Reaches(edges, e[1], e[1]) -> {"cycle"}
               [] OTHER -> When(<<"done">> \notin reached, "done unreachable")
                             \cup When(~(ScenarioNodes(uc) \subseteq reached), "unreachable")

-----------------------------------------------------------------------------
(* Authority.                                                              *)

\* Over all provided actor models; one hop of delegation, by design.
OfActors(file, field) == UNION {file.actors[i][field] : i \in DOMAIN file.actors}
CapabilityKnown(file, c) == c \in OfActors(file, "capabilities")
HoldsPermit(file, actor, c) == <<actor, c>> \in OfActors(file, "permits")
HoldsForbid(file, actor, c) == <<actor, c>> \in OfActors(file, "forbids")

\* The subject is no principal, and a typed participant none either.
BareActors(uc) == {p.name : p \in {a \in Range(uc.actors) : a.type = NoName}}

RequiredCapabilities(uc) ==
  IF uc.subject = NoName THEN {} ELSE UNION {s.requires : s \in Range(uc.subject.steps)}

CoverageErrors(file, uc) ==
  LET required == RequiredCapabilities(uc)
      holders(c) == {a \in BareActors(uc) : HoldsPermit(file, a, c)}
  IN  (UNION {IF ~CapabilityKnown(file, c) THEN {"unknown capability"}
             ELSE When(\A a \in holders(c) : HoldsForbid(file, a, c), "capability not held")
             : c \in required})
        \cup When(\E pair \in OfActors(file, "neverBoth") : pair \subseteq required, "never both")

Scenario(uc) ==
  [name |-> uc.name, nodes |-> ScenarioNodes(uc), edges |-> ScenarioEdges(uc),
   messages |-> [m \in MessageNames(uc) |->
      LET message == FirstOf(uc.messages, LAMBDA n : n.name = m, NoName)
      IN  [source |-> LowerEnd(uc, message, "source"), target |-> LowerEnd(uc, message, "target")]]]

UseCaseErrors(st, file, uc) ==
  LET people == DOMAIN ParticipantsOf(uc)
      payloads == {m.payload : m \in Range(uc.messages)} \ {NoName}
  IN  When(\E i \in DOMAIN st.lowered : st.lowered[i].name = uc.name, "duplicate use case")
        \cup NameErrors(uc)
        \cup (UNION {ParticipantErrors(st, file, uc, i) \cup StepErrors(st, uc, i) : i \in people})
        \cup When(\E r \in payloads : PayloadOf(st, file, r) = Unresolved, "unknown payload")
        \cup (UNION {EndErrors(uc, m, side) : m \in Range(uc.messages), side \in {"source", "target"}})
        \cup GraphErrors(uc)
        \cup CoverageErrors(file, uc)
        \cup UNION {BindingErrorsTo(file, r) : r \in uc.realizes}

LowerUseCase(st, file, uc) ==
  [st EXCEPT !.lowered = Append(@, Scenario(uc)), !.errors = @ \cup UseCaseErrors(st, file, uc)]

-----------------------------------------------------------------------------
(* The lowering of a .cmmn file: roles, case file and the tree of plan      *)
(* items, which becomes a flat list; the sentries refer to items by name.   *)
(*                                                                         *)
(* A plan item is [name, kind, discretionary, performer, execute, entry,    *)
(* exit].  The tree of a case is a function from the places of its items:   *)
(* <<2>> is the second item, <<2, 1>> the first of that stage.  A criterion *)
(* is [on, when] with on-parts <<source, word>>, word = NoName for an       *)
(* event.  A condition is whether it parses, whether it is boolean, and the *)
(* paths <<name>> or <<name, feature>> it reads.                            *)

CmmnRole(r) == HasFields(r, {"name", "actor"})
CmmnFileItem(f) == HasFields(f, {"name", "type"}) /\ TypeReference(f.type)

CmmnOnPart(part) == part = <<part[1], part[2]>>

CmmnCriterion(c) ==
  /\ HasFields(c, {"on", "when"}) /\ IsList(c.on)
  /\ \A part \in Range(c.on) : CmmnOnPart(part)
  /\ c.when # NoName => HasFields(c.when, {"parses", "boolean", "paths"})

CmmnExecute(e) == e # NoName => HasFields(e, {"alias", "service", "operation"})

CmmnItemDecl(item) ==
  /\ HasFields(item, {"name", "kind", "discretionary", "performer", "execute", "entry", "exit"})
  /\ item.kind \in {"task", "service", "milestone", "stage"} /\ item.discretionary \in BOOLEAN
  /\ CmmnExecute(item.execute)
  /\ IsList(item.entry) /\ IsList(item.exit)
  /\ \A c \in Range(item.entry) \cup Range(item.exit) : CmmnCriterion(c)

\* Places are those of a tree: below a stage, and after an elder.
CmmnPlaces(places) ==
  /\ IsFiniteSet(places)
  /\ \A p \in places :
       /\ p \in Seq(Nat \ {0}) /\ p # <<>>
       /\ Len(p) > 1 => Front(p) \in places
       /\ Last(p) > 1 => [p EXCEPT ![Len(p)] = @ - 1] \in places

CmmnCase(case) ==
  /\ HasFields(case, {"name", "roles", "caseFile", "planItems"})
  /\ IsList(case.roles) /\ \A r \in Range(case.roles) : CmmnRole(r)
  /\ IsList(case.caseFile) /\ \A f \in Range(case.caseFile) : CmmnFileItem(f)
  /\ CmmnPlaces(DOMAIN case.planItems)
  /\ \A p \in DOMAIN case.planItems :
       CmmnItemDecl(case.planItems[p]) /\ (Len(p) > 1 => case.planItems[Front(p)].kind = "stage")

CmmnFile(file) == IsList(file.cases) /\ \A c \in Range(file.cases) : CmmnCase(c)

PlanWords == {"create", "enable", "start", "complete", "terminate", "fail", "occur"}
FileWords == {"create", "update", "delete", "addChild", "removeChild"}

-----------------------------------------------------------------------------

\* Depth first: a stage, its children, then its siblings.
Precedes(p, q) ==
  \E k \in DOMAIN q :
    /\ \A j \in 1..(k - 1) : j \in DOMAIN p /\ p[j] = q[j]
    /\ k \in DOMAIN p => p[k] < q[k]

Position(places, p) == 1 + Cardinality({q \in places : Precedes(q, p)})

\* The places of a tree in the order of the walk.
Walk(places) == [i \in 1..Cardinality(places) |-> CHOOSE p \in places : Position(places, p) = i]

\* What a stage contains, in source order.
ChildrenOf(places, p) ==
  [k \in 1..Cardinality({q \in places : q # <<>> /\ Front(q) = p}) |-> Append(p, k)]

Places(case) == Walk(DOMAIN case.planItems)
PlanItems(case) == [i \in DOMAIN Places(case) |-> case.planItems[Places(case)[i]]]
PlanNames(case) == {p.name : p \in Range(PlanItems(case))}
FileNames(case) == {f.name : f \in Range(case.caseFile)}

\* What a condition may read: the case's features lead to its file and to its
\* items.  A class inserted later replaces one of the same name.
Universe(case) ==
  LET file == "case_file" :> FileNames(case)
      items == [p \in PlanNames(case) |-> PlanWords]
      root == case.name :> (FileNames(case) \cup {"case_file"} \cup PlanNames(case))
  IN  root @@ items @@ file

PathResolves(case, path) ==
  /\ path[1] \in Universe(case)[case.name]
  /\ Len(path) = 2 => /\ path[1] \in PlanNames(case) \cup {"case_file"}
                      /\ path[2] \in Universe(case)[path[1]]

-----------------------------------------------------------------------------
\* A repeated role is reported and dropped, its actor unchecked.
RoleErrors(file, case) ==
  LET Fresh(i) == \A j \in 1..(i - 1) : case.roles[j].name # case.roles[i].name
  IN  When(\E i \in DOMAIN case.roles : ~Fresh(i), "duplicate role")
        \cup When(\E i \in DOMAIN case.roles :
                    Fresh(i) /\ case.roles[i].actor # NoName /\ ~ActorKnown(file, case.roles[i].actor),
                  "unknown actor")

\* Mutant: an item's name is compared with its siblings only.
SharedNameErrorsBySibling(case) ==
  When((\E p, q \in DOMAIN case.planItems :
          p # q /\ Front(p) = Front(q) /\ case.planItems[p].name = case.planItems[q].name)
         \/ Repeated([i \in DOMAIN case.caseFile |-> case.caseFile[i].name]) # {}
         \/ FileNames(case) \cap PlanNames(case) # {}, "duplicate name")

\* Items of the case file and of the plan, wherever they nest, share a
\* namespace.
SharedNameErrors(case) ==
  When(Repeated([i \in DOMAIN PlanItems(case) |-> PlanItems(case)[i].name]) # {}
         \/ Repeated([i \in DOMAIN case.caseFile |-> case.caseFile[i].name]) # {}
         \/ FileNames(case) \cap PlanNames(case) # {}, "duplicate name")

FileItemErrors(st, case) ==
  When(\E f \in Range(case.caseFile) : ResolveDomains(f.type, st.packages) = Unresolved, "unknown type")

-----------------------------------------------------------------------------
\* A name of the case file hides a plan item of that name.
OnPartErrors(file, case, part) ==
  LET contracts == {i \in DOMAIN file.events : part[1] \in file.events[i].events}
  IN  CASE part[2] = NoName -> When(Cardinality(contracts) # 1, "unknown event")
        [] part[2] # NoName /\ part[1] \in FileNames(case) ->
             When(part[2] \notin FileWords, "unknown transition")
        [] part[2] # NoName /\ part[1] \in PlanNames(case) \ FileNames(case) ->
             When(part[2] \notin PlanWords, "unknown transition")
        [] OTHER -> {"unknown item"}

CriterionErrors(file, case, criterion) ==
  (UNION {OnPartErrors(file, case, part) : part \in Range(criterion.on)})
    \cup When(/\ criterion.when # NoName
              /\ \/ ~criterion.when.parses
                 \/ ~criterion.when.boolean
                 \/ \E path \in criterion.when.paths : ~PathResolves(case, path), "invalid condition")

PlanItemErrors(file, case, item) ==
  LET roles == {r.name : r \in Range(case.roles)}
  IN  When(item.discretionary /\ item.kind = "milestone", "discretionary milestone")
        \cup When(item.performer # NoName /\ item.kind # "task", "misplaced performer")
        \cup When(item.performer # NoName /\ item.kind = "task" /\ item.performer \notin roles, "unknown role")
        \cup When(item.execute # NoName /\ item.kind # "service", "misplaced execute")
        \cup (IF item.kind # "service" THEN {}
              ELSE IF item.execute = NoName THEN {"no execute"} ELSE BindingErrorsTo(file, item.execute))
        \cup When(item.kind = "milestone" /\ item.exit # <<>>, "exit of a milestone")
        \cup UNION {CriterionErrors(file, case, c) : c \in Range(item.entry) \cup Range(item.exit)}

LowerItem(case, place) ==
  LET item == case.planItems[place]
      children == ChildrenOf(DOMAIN case.planItems, place)
  IN  [name |-> item.name, kind |-> item.kind,
       children |-> [k \in DOMAIN children |-> case.planItems[children[k]].name],
       on |-> UNION {Range(c.on) : c \in Range(item.entry) \cup Range(item.exit)}]

CaseErrors(st, file, case) ==
  When(\E i \in DOMAIN st.lowered : st.lowered[i].name = case.name, "duplicate case")
    \cup RoleErrors(file, case)
    \cup SharedNameErrors(case)
    \cup FileItemErrors(st, case)
    \cup UNION {PlanItemErrors(file, case, item) : item \in Range(PlanItems(case))}

LoweredCase(case) ==
  [name |-> case.name, file |-> FileNames(case),
   items |-> [i \in DOMAIN Places(case) |-> LowerItem(case, Places(case)[i])]]

LowerCase(st, file, case) ==
  [st EXCEPT !.lowered = Append(@, LoweredCase(case)), !.errors = @ \cup CaseErrors(st, file, case)]
=============================================================================
