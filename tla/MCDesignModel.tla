---------------------------- MODULE MCDesignModel ----------------------------
(***************************************************************************)
(* Small design files, in slices: each varies what a few rules look at and *)
(* leaves the rest of the file at a valid default.                         *)
(***************************************************************************)
EXTENDS NameScope

Ref(p, n) == [pkg |-> p, local |-> n]
Type(k, p, n) == [kind |-> k, pkg |-> p, name |-> n]
Attribute(n, type) == [name |-> n, kind |-> "attribute", type |-> type, readonly |-> FALSE, derived |-> FALSE]
Part(n, class) == [Attribute(n, Type("class", class[1], class[2])) EXCEPT !.kind = "containment"]
Link(n, class) == [Attribute(n, Type("class", class[1], class[2])) EXCEPT !.kind = "cross"]
Class(features) == [features |-> features, extends |-> {}]

StatusType == Type("enum", "shop", "Status")
Status == Attribute("status", StatusType)
Total == Attribute("total", Type("primitive", NoName, "Int"))
Title == Attribute("title", Type("primitive", NoName, "String"))

Shop(order, line, note) ==
  [name |-> "shop",
   classes |-> [c \in {"Order", "Line", "Note"} |->
                  CASE c = "Order" -> Class({Status, Total} \cup order)
                    [] c = "Line" -> Class(line) [] OTHER -> Class(note)],
   enums |-> [e \in {"Status"} |-> {"Draft", "Posted", "Void"}],
   others |-> [o \in {"Staff"} |-> "actors"]]

\* A second package, with a class of its own and a name of the first.
Crm(client) ==
  [name |-> "crm",
   classes |-> [c \in {"Client", "Note"} |->
                  IF c = "Client" THEN [features |-> client, extends |-> {<<"shop", "Order">>}]
                  ELSE Class({Title})],
   enums |-> NoEntries, others |-> NoEntries]

File(p, packages) == [path |-> p, normal |-> p, model |-> packages, errors |-> FALSE]
Import(p) == [path |-> p, joined |-> p, dmn |-> FALSE]

Flags == [scaffold |-> NoName, auditable |-> NoName, optimisticLocking |-> NoName,
          nonPersistent |-> NoName, cache |-> NoName]
Design(class) == [class |-> class, stereotype |-> "entity", flags |-> Flags,
                  repository |-> NoName, machine |-> NoName]
Op(n) == [name |-> n, types |-> {}, delegation |-> NoName, when |-> NoName, builtin |-> FALSE,
          capabilities |-> {}, invokes |-> {}]
Repository(n) == [name |-> n, operations |-> <<[Op("find") EXCEPT !.builtin = TRUE], Op("close")>>]
Service(n, ops) == [name |-> n, operations |-> ops, dependencies |-> {}, decisions |-> {}]
Search(n, entity) == [name |-> n, entity |-> entity, text |-> {}, keys |-> {}, document |-> <<>>,
                      pagination |-> NoName, capabilities |-> {}]
Module(n, services, designs, searches) ==
  [name |-> n, services |-> services, designs |-> designs, searches |-> searches]
Machine == [field |-> "status", type |-> Ref(NoName, "Status"), initial |-> "Draft",
            terminals |-> <<"Posted">>,
            transitions |-> <<[from |-> "Draft", to |-> "Posted", trigger |-> "post", guard |-> NoName]>>]
Condition(names) == [parses |-> TRUE, boolean |-> TRUE, names |-> names]

\* A domain withheld for a Rune file it imports has no error of its own.
Withheld == [File("crm.mox", <<>>) EXCEPT !.model = NoName]
WithWithheld(compilation) ==
  [compilation EXCEPT !.imports = Append(@, Import("crm.mox")), !.files = Append(@, Withheld)]

File1 == File("shop.mox", <<Shop({Part("lines", <<"shop", "Line">>)}, {}, {})>>)
Compilation(modules) ==
  [application |-> [base |-> NoName, modules |-> modules], parsed |-> TRUE, parseErrors |-> FALSE,
   imports |-> <<Import("shop.mox")>>, files |-> <<File1>>, actors |-> <<>>, decisions |-> <<>>]

Seqs(S, n) == UNION {[1..k -> S] : k \in 0..n}

\* Machines over three literals and a misspelt one.
Edges == [from : {"Draft", "Posted"}, to : {"Posted", "Void", "Typo"},
          trigger : {NoName, "post", "posted"}, guard : {NoName}]
          \ {e \in [from : {"Draft", "Posted"}, to : {"Typo"},
                    trigger : {"post", "posted"}, guard : {NoName}] : TRUE}
Machines ==
  [field : {"status"}, type : {Ref(NoName, "Status")}, initial : {"Draft"},
   terminals : {<<"Void">>, <<"Void", "Posted">>}, transitions : Seqs(Edges, 2)]
  \cup [field : {"status"}, type : {Ref(NoName, "Status")}, initial : {"Draft"}, terminals : {<<"Void">>},
         transitions : [1..3 -> {e \in Edges : e.to # "Typo" /\ e.trigger # "post"}]]
  \cup [field : {"status", "total", "gone"}, type : {Ref(NoName, "Status"), Ref(NoName, "Line")},
        initial : {NoName, "Draft", "Posted"},
        terminals : {<<>>, <<"Posted">>, <<"Draft">>, <<"Posted", "Posted">>}, transitions : Seqs(Edges, 1)]
  \cup [field : {"status"}, type : {Ref(NoName, "Status")}, initial : {"Draft"}, terminals : {<<"Posted">>},
        transitions : {<<[from |-> "Draft", to |-> "Posted", trigger |-> NoName, guard |-> g]>> :
                         g \in {Condition({"Posted"}), Condition({"Void"}), Condition({"total"}),
                                [Condition({}) EXCEPT !.boolean = FALSE]}}]
MachineSlice ==
  {Compilation(<<Module("m", <<>>, <<[Design("Order") EXCEPT !.machine = k, !.stereotype = st]>>, <<>>)>>) :
     k \in Machines, st \in {"entity"}}
  \cup {Compilation(<<Module("m", <<>>, <<[Design("Order") EXCEPT !.machine = Machine, !.stereotype = "dto"]>>, <<>>)>>)}
  \cup {WithWithheld(Compilation(<<Module("m", <<>>, <<[Design("Order") EXCEPT !.machine = k]>>, <<>>)>>)) :
          k \in {[Machine EXCEPT !.terminals = <<s>>, !.transitions[1].to = t] : s, t \in {"Posted", "Typo"}}}

\* Two modules: what services of either reach of the other, declared before or
\* after the service.
Targets == {NoName} \cup {[target |-> t, operation |-> o] :
                            t \in {"Svc", "Repo", "Hits"}, o \in {"close", "search"}}
Holder(n, services, hasRepository, searches) ==
  Module(n, services, <<[Design("Order") EXCEPT !.repository = IF hasRepository THEN Repository("Repo") ELSE NoName]>>,
         searches)
DelegationSlice ==
  {Compilation(IF swap THEN <<b, a>> ELSE <<a, b>>) :
     swap \in BOOLEAN,
     a \in {Module(n, <<[Service(s, <<[Op("close") EXCEPT !.delegation = t, !.capabilities = {"Close"}]>>)
                           EXCEPT !.dependencies = d]>>, <<>>, q) :
              n \in {"a", "b"}, s \in {"Svc", "Main"}, t \in Targets, d \in {{}, {"Hits"}}, 
              q \in {<<>>, <<Search("Hits", Ref(NoName, "Order"))>>}},
     b \in {Holder("b", s, h, q) :
              s \in {<<>>, <<Service("Svc", <<Op("close"), Op("open")>>)>>, <<Service("Repo", <<Op("open"), Op("open")>>)>>},
              h \in BOOLEAN, q \in {<<>>, <<Search("Hits", Ref(NoName, "Order"))>>}}}
  \cup {Compilation(<<Holder("b", <<[Service("Svc", <<[Op("close") EXCEPT !.delegation = t]>>)
                                      EXCEPT !.dependencies = {"Repo"}]>>, TRUE,
                             <<Search("Hits", Ref(NoName, "Order"))>>)>>) : t \in Targets}

\* Who contains and references whom, over two modules' designs.
Links == {{}, {Part("p", <<"shop", "Line">>)}, {Part("p", <<"shop", "Note">>)},
          {Link("l", <<"shop", "Line">>)}, {Link("l", <<"shop", "Note">>)}, {Link("l", <<"shop", "Order">>)},
          {Part("p", <<"shop", "Note">>), Link("l", <<"shop", "Note">>)}}
BoundarySlice ==
  {[Compilation(<<Module("a", <<>>, <<[Design("Order") EXCEPT !.repository = Repository("Orders")]>>, <<>>),
                  Module("b", <<>>, <<[Design(c) EXCEPT !.repository = r], [Design(IF c = "Note" THEN "Line" ELSE "Note") EXCEPT !.stereotype = st]>>, <<>>)>>)
      EXCEPT !.files = <<File("shop.mox", <<Shop(o, l, n)>>)>>] :
     o \in Links, l \in {k \in Links : Cardinality(k) < 2},
     n \in {{}, {Part("p", <<"shop", "Note">>)}, {Link("l", <<"shop", "Line">>)}},
     c \in {"Line", "Note"}, st \in {"entity", "dto"},
     r \in {NoName, Repository("Lines")}}
  \cup {WithWithheld([Compilation(<<Module("a", <<>>, <<[Design("Order") EXCEPT !.repository = Repository("Orders")],
                                                        Design("Line")>>, <<>>)>>)
                        EXCEPT !.files = <<File("shop.mox", <<Shop({}, l, {})>>)>>]) : l \in Links \cup {{Part("p", <<"shop", "Order">>)}}}

\* Flags, contracts and repositories of single designs; a class designed twice.
ContractSlice ==
  {Compilation(<<Module("a", <<>>, <<[Design(c) EXCEPT !.stereotype = st, !.repository = r,
                                        !.flags.scaffold = f, !.flags.nonPersistent = g]>>, <<>>),
                 Module(n, <<>>, <<Design("Line")>>, <<>>)>>) :
     c \in {"Order", "Line", "Staff", "Gone"}, st \in {"entity", "value", "dto"}, n \in {"a", "b"},
     r \in {NoName, Repository("Repo")}, f \in {NoName, "on", "off"}, g \in {NoName, "on"}}

\* Conditions in a module with none, one or two machines, the second sharing
\* a state with the first.
ConditionSlice ==
  {Compilation(<<Module("a", <<Service("Svc", <<[Op("close") EXCEPT !.when = w, !.types = y]>>)>>,
                        SubSeq(<<[Design("Order") EXCEPT !.machine = Machine],
                                 [Design("Line") EXCEPT
                                    !.machine = IF two THEN [Machine EXCEPT !.transitions[1].guard = w] ELSE NoName,
                                    !.repository = [Repository("Lines") EXCEPT !.operations[2].when = w]]>>, 1, k),
                        <<>>)>>) :
     w \in {NoName, Condition({"Posted"}), Condition({"Void"}), Condition({"total"}),
            [Condition({}) EXCEPT !.parses = FALSE], [Condition({}) EXCEPT !.boolean = FALSE]},
     y \in {{}, {Ref(NoName, "Status"), Ref("shop", "Order")}, {Ref("crm", "Order")}}, two \in BOOLEAN, k \in 0..2}

\* Searches over an entity of either module.
SearchSlice ==
  {Compilation(<<Module("a", <<>>, <<Design("Order")>>, <<[Search("Hits", e) EXCEPT
                     !.text = {[path |-> p, boost |-> b] : p \in t}, !.keys = q, !.document = d, !.pagination = g]>>),
                 Module("b", <<>>, <<Design("Line")>>, <<>>)>>) :
     e \in {NoName, Ref(NoName, "Order"), Ref("shop", "Line"), Ref(NoName, "Status")},
     t \in {{}, {<<"status">>}, {<<"total">>}, {<<"lines", "total">>}}, b \in {0, 2},
     q \in {{}, {<<"lines">>}, {<<"gone">>}, {<<"total">>}},
     d \in {<<>>, <<[name |-> "x", expr |-> Condition({"total"})]>>,
            <<[name |-> "x", expr |-> Condition({})], [name |-> "x", expr |-> Condition({})]>>},
     g \in {NoName, [limit |-> 5, max |-> 3], [limit |-> NoName, max |-> 3]}}

\* Imports: missing, repeated, another spelling, a domain that did not lower,
\* a base package, decision and actor models.
ImportSlice ==
  {[Compilation(<<Module("a", <<[Service("Svc", <<[Op("close") EXCEPT !.capabilities = {"Close"},
                                                      !.types = {Ref(NoName, "Note")}]>>)
                                  EXCEPT !.decisions = {"Score"}]>>, <<Design("Order")>>, <<>>)>>)
      EXCEPT !.imports = i, !.files = f, !.application.base = b, !.actors = a, !.decisions = s, !.parseErrors = e] :
     i \in {<<Import("shop.mox")>>, <<Import("shop.mox"), Import("crm.mox")>>,
            <<Import("shop.mox"), [path |-> "x/crm.mox", joined |-> "crm.mox", dmn |-> FALSE], Import("shop.mox")>>,
            <<Import("shop.mox"), [Import("score.dmn") EXCEPT !.dmn = TRUE]>>},
     f \in {<<File1>>, <<File("crm.mox", <<Crm({})>>), File1>>,
            <<[File("crm.mox", <<>>) EXCEPT !.model = NoName, !.errors = TRUE], File1>>},
     b \in {NoName, "shop", "crm", "none"}, a \in {<<>>, <<{"Close"}>>, <<{}>>},
     s \in {<<>>, <<[path |-> "score.dmn", normal |-> "score.dmn", services |-> {"Score"}]>>,
            <<[path |-> "other.dmn", normal |-> "other.dmn", services |-> {}]>>},
     e \in {FALSE}}
  \cup {[Compilation(<<>>) EXCEPT !.parseErrors = e, !.application = a, !.parsed = a # NoName] :
          e \in BOOLEAN, a \in {NoName, [base |-> NoName, modules |-> <<>>]}}

MCDesigns == {MachineSlice, DelegationSlice, BoundarySlice, ContractSlice,
              ConditionSlice, SearchSlice, ImportSlice}
=============================================================================
