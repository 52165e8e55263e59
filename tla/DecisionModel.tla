---------------------------- MODULE DecisionModel ----------------------------
(***************************************************************************)
(* The lowering of a .dmn file (rex-driver dmn.rs): inputs, knowledge       *)
(* sources and models, decisions with their logic, three relations of       *)
(* requirements, services and views, and the external decision tables.      *)
(*                                                                         *)
(* A decision is [name, outputs, logic], a knowledge model [name,           *)
(* parameters, output, logic]; a logic is [kind, name, text, bindings],     *)
(* name the table's path or the invoked model; a requirement is <<requiring,*)
(* required>>.  A FEEL text is "good", "bad" or "conditional"; a provided   *)
(* table is the names of its input and output clauses, NoName when the      *)
(* recognizer refuses it.  Descriptions and metadata values are left out.   *)
(***************************************************************************)
EXTENDS NameScope

(* The syntax tree.                                                        *)

DmnMetadata(metadata) == IsList(metadata)

\* The parser leaves NoName where a type is missing.
DmnInput(input) == HasFields(input, {"name", "type"}) /\ (input.type # NoName => TypeReference(input.type))
DmnOutput(output) == DmnInput(output)

DmnKnowledgeSource(source) == HasFields(source, {"name"})

DmnBinding(binding) == HasFields(binding, {"name", "text"})

DmnLogic(logic) ==
  /\ HasFields(logic, {"kind", "name", "text", "bindings"})
  /\ logic.kind \in {"table", "expression", "invoke"}
  /\ IsList(logic.bindings) /\ \A b \in Range(logic.bindings) : DmnBinding(b)

\* A knowledge model always has a logic, a decision may go without.
DmnBkm(model) ==
  /\ HasFields(model, {"name", "parameters", "output", "logic"})
  /\ IsList(model.parameters) /\ \A p \in Range(model.parameters) : DmnInput(p)
  /\ model.output # NoName => TypeReference(model.output)
  /\ DmnLogic(model.logic) /\ model.logic.kind # "table"

DmnDecision(decision) ==
  /\ HasFields(decision, {"name", "outputs", "logic"})
  /\ IsList(decision.outputs) /\ \A o \in Range(decision.outputs) : DmnOutput(o)
  /\ decision.logic # NoName => DmnLogic(decision.logic)

DmnRequirement(r) == r = <<r[1], r[2]>>
DmnService(service) == HasFields(service, {"name", "inputs", "outputs", "encapsulates"})
DmnView(view) == HasFields(view, {"name", "show"})

DmnDecisionModel(model) ==
  /\ HasFields(model, {"metadata", "inputs", "sources", "models", "decisions", "services", "views",
                       "information", "knowledge", "authority"})
  /\ \A section \in DOMAIN model : IsList(model[section])
  /\ DmnMetadata(model.metadata)
  /\ \A i \in Range(model.inputs) : DmnInput(i)
  /\ \A s \in Range(model.sources) : DmnKnowledgeSource(s)
  /\ \A b \in Range(model.models) : DmnBkm(b)
  /\ \A d \in Range(model.decisions) : DmnDecision(d)
  /\ \A s \in Range(model.services) : DmnService(s)
  /\ \A v \in Range(model.views) : DmnView(v)
  /\ \A r \in Range(model.information \o model.knowledge \o model.authority) : DmnRequirement(r)

\* A file has at most one model.
DmnFile(file) == IsList(file.models) /\ Len(file.models) <= 1 /\ \A m \in Range(file.models) : DmnDecisionModel(m)

-----------------------------------------------------------------------------
OpenDecisions(file) ==
  LET units == DomainUnits(file.imports, file.files)
      paths == {units[i].path : i \in DOMAIN units}
  IN  [packages |-> Lowered(units), lowered |-> <<>>, cycles |-> <<>>, search |-> NoName,
       errors |-> EngineErrors(file.parseErrors,
                               \E i \in DOMAIN file.imports : file.imports[i].path \notin paths,
                               units)]

-----------------------------------------------------------------------------
(* Names, types and requirements.                                          *)

NamesIn(model, section) == {e.name : e \in Range(model[section])}

\* All sections share one namespace; each kind of metadata is given once.
ElementNames(model) ==
  NameList(model.inputs) \o NameList(model.sources) \o NameList(model.models)
    \o NameList(model.decisions) \o NameList(model.services) \o NameList(model.views)

DuplicateErrors(model) ==
  When(Repeated(ElementNames(model)) # {}, "duplicate name")
    \cup When(Repeated(model.metadata) # {}, "duplicate metadata")

\* The parser leaves NoName where a type is missing, and has reported it.
TypesOf(model) ==
  {i.type : i \in Range(model.inputs)}
    \cup (UNION {{b.output} \cup {p.type : p \in Range(b.parameters)} : b \in Range(model.models)})
    \cup UNION {{o.type : o \in Range(d.outputs)} : d \in Range(model.decisions)}

UnknownTypeErrors(packages, model) ==
  When(\E t \in TypesOf(model) \ {NoName} : ~Resolves(t, packages, NoName), "unknown type")

\* Decisions require; what they may require depends on the relation.
RequirementErrors(model) ==
  LET decisions == NamesIn(model, "decisions")
      Lands(r, universe) == r[1] \in decisions /\ r[2] \in universe
  IN  When(\E r \in Range(model.information) : ~Lands(r, decisions \cup NamesIn(model, "inputs")),
           "unknown information requirement")
        \cup When(\E r \in Range(model.knowledge) : ~Lands(r, NamesIn(model, "models")),
                  "unknown knowledge model")
        \cup When(\E r \in Range(model.authority) : ~Lands(r, NamesIn(model, "sources")),
                  "unknown knowledge source")

EndpointErrors(model) ==
  LET decisions == NamesIn(model, "decisions")
  IN  When(\E s \in Range(model.services) :
             \/ ~(s.inputs \subseteq NamesIn(model, "inputs"))
             \/ ~(s.outputs \subseteq decisions)
             \/ ~(s.encapsulates \subseteq decisions \cup NamesIn(model, "models")),
           "unknown service endpoint")

\* A view shows anything but views.
ViewErrors(model) ==
  LET shown == UNION {v.show : v \in Range(model.views)}
  IN  When(~(shown \subseteq UNION {NamesIn(model, s) : s \in {"inputs", "sources", "models", "decisions", "services"}}), "unknown view element")

-----------------------------------------------------------------------------
(* The information graph.                                                  *)

\* Where the decisions a decision requires are written.
EdgesFrom(model, decision) ==
  {i \in DOMAIN model.information :
     model.information[i][1] = decision /\ model.information[i][2] \in NamesIn(model, "decisions")}

\* A search in three colours: the decisions it has still to start from, those
\* being visited, outermost first, where the last requirement followed from
\* each is, and the first cycle, empty while there is none.
StartSearch(model, roots) ==
  LET names == NamesIn(model, "decisions")
  IN  [roots |-> roots, color |-> [d \in names |-> "white"], followed |-> [d \in names |-> 0],
       stack |-> <<>>, cycle |-> <<>>]

\* Mutant: the search starts at the first decision only.
UnvisitedFirst(model) ==
  StartSearch(model, IF model.decisions = <<>> THEN <<>> ELSE <<model.decisions[1].name>>)

\* From every decision in source order.
Unvisited(model) == StartSearch(model, NameList(model.decisions))

SearchOver(search) == search.cycle # <<>> \/ (search.roots = <<>> /\ search.stack = <<>>)

Enter(search, decision) ==
  [search EXCEPT !.color[decision] = "gray", !.stack = Append(@, decision)]

\* The next start, if it is still white.
TakeRoot(search) ==
  LET root == Head(search.roots)
      rest == [search EXCEPT !.roots = Tail(@)]
  IN  IF search.color[root] = "white" THEN Enter(rest, root) ELSE rest

\* The requirements of the decision being visited that are still to follow.
Pending(search, model) ==
  LET node == Last(search.stack)
  IN  {i \in EdgesFrom(model, node) : i > search.followed[node]}

\* A requirement of a decision being visited closes a cycle: the part of the
\* stack from that decision on.
Follow(search, model) ==
  LET next == CHOOSE i \in Pending(search, model) : \A j \in Pending(search, model) : i <= j
      required == model.information[next][2]
      past == [search EXCEPT !.followed[Last(search.stack)] = next]
      from == CHOOSE i \in DOMAIN search.stack : search.stack[i] = required
  IN  CASE search.color[required] = "white" -> Enter(past, required)
        [] search.color[required] = "gray" ->
             [past EXCEPT !.cycle = Append(SubSeq(search.stack, from, Len(search.stack)), required)]
        [] OTHER -> past

Leave(search) ==
  [search EXCEPT !.stack = Front(@), !.color[Last(search.stack)] = "black"]

Visit(search, model) ==
  IF search.stack = <<>> THEN TakeRoot(search)
  ELSE IF Pending(search, model) # {} THEN Follow(search, model)
  ELSE Leave(search)

-----------------------------------------------------------------------------
(* Logic and tables.                                                       *)

\* Conditional texts are not gated: the recognizer refuses valid ones.
InvalidFeel(text) == text = "bad"

\* The first knowledge model of the name.
Invoked(model, logic) == FirstOf(model.models, LAMBDA b : b.name = logic.name, NoName)

LogicErrors(model, logic) ==
  LET invoked == Invoked(model, logic)
      parameters == {p.name : p \in Range(invoked.parameters)}
      bound == [i \in DOMAIN logic.bindings |-> logic.bindings[i].name]
  IN  CASE logic.kind = "expression" -> When(InvalidFeel(logic.text), "invalid expression")
        [] logic.kind = "invoke" /\ invoked = NoName -> {"unknown knowledge model"}
        [] logic.kind = "invoke" /\ invoked # NoName ->
             When(\E b \in Range(logic.bindings) : InvalidFeel(b.text), "invalid expression")
               \cup When(Range(bound) # parameters \/ Repeated(bound) # {}, "binding mismatch")
        [] OTHER -> {}

RequiredInputs(model, decision) ==
  {r[2] : r \in {q \in Range(model.information) : q[1] = decision.name}} \cap NamesIn(model, "inputs")

ProvidedTable(file, decision) == FirstOf(file.tables, LAMBDA t : t.path = decision.logic.name, NoName)

\* A table's input clauses are the required inputs; of several outputs each
\* named clause is a declared one, and there are as many.
TableErrors(file, model, decision) ==
  LET provided == ProvidedTable(file, decision)
      table == provided.table
  IN  CASE provided = NoName -> {"table not provided"}
        [] provided # NoName /\ table = NoName -> {"unreadable table"}
        [] OTHER ->
             When(Range(table.inputs) # RequiredInputs(model, decision), "table inputs")
               \cup When(\/ Len(table.outputs) # Len(decision.outputs)
                         \/ /\ Len(decision.outputs) # 1
                            /\ ~(Range(table.outputs) \subseteq
                                   {NoName} \cup {o.name : o \in Range(decision.outputs)}),
                         "table outputs")

-----------------------------------------------------------------------------
\* Everything but the search for a cycle, which is to follow.
LowerDecisionModel(st, file, model) ==
  LET decided == {d \in Range(model.decisions) : d.logic # NoName}
      logics == {d.logic : d \in decided} \cup {b.logic : b \in Range(model.models)}
      tables == {d \in decided : d.logic.kind = "table"}
  IN  [st EXCEPT
         !.lowered = Append(@, model),
         !.search = Unvisited(model),
         !.errors = @ \cup DuplicateErrors(model) \cup UnknownTypeErrors(st.packages, model)
                      \cup RequirementErrors(model) \cup EndpointErrors(model) \cup ViewErrors(model)
                      \cup (UNION {LogicErrors(model, l) : l \in logics})
                      \cup UNION {TableErrors(file, model, d) : d \in tables}]

ReportCycle(st) ==
  [st EXCEPT !.cycles = Append(@, st.search.cycle),
             !.search = NoName,
             !.errors = @ \cup When(st.search.cycle # <<>>, "decision cycle")]
=============================================================================
