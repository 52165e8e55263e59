--------------------------- MODULE MCSurfaceEngine ---------------------------
(***************************************************************************)
(* Small contract, use case, case, decision and deployment files, in        *)
(* slices: each varies what a few rules look at and leaves the rest valid.  *)
(* Designs are those of MCDesignModel, models those of MCMoxModel.         *)
(***************************************************************************)
EXTENDS SurfaceEngine

DesignFiles == INSTANCE MCDesignModel
MoxFiles == INSTANCE MCMoxModel

MCDerivedTrigger == [s \in {"Draft", "Posted", "Void", "Typo"} |->
  CASE s = "Draft" -> "draft" [] s = "Posted" -> "posted" [] s = "Void" -> "void" [] OTHER -> "typo"]

Ref(n) == [pkg |-> NoName, local |-> n]
SeqsUpTo(S, n) == UNION {[1..k -> S] : k \in 0..n}
Attribute(n) == [name |-> n, kind |-> "attribute"]
Order == [features |-> {Attribute("total")}, extends |-> {<<"crm", "Base">>}, operations |-> {"close"}]
Base == [features |-> {Attribute("code")}, extends |-> {}, operations |-> {"audit"}]
Shop == [name |-> "shop", classes |-> "Order" :> Order @@ "Note" :> [Base EXCEPT !.operations = {}],
         enums |-> "Status" :> {"Draft"}, others |-> "Staff" :> "actors"]
Crm == [name |-> "crm", classes |-> "Base" :> Base @@ "Note" :> Base, enums |-> NoEntries, others |-> NoEntries]
Domain(p, packages, errors) == [path |-> p, normal |-> p, model |-> packages, errors |-> errors]
Import(p) == [path |-> p, joined |-> p, dmn |-> FALSE, alias |-> NoName]
Domains == <<Domain("shop.mox", <<Shop>>, FALSE), Domain("crm.mox", <<Crm>>, FALSE)>>
Imports == <<Import("shop.mox"), Import("crm.mox")>>

-----------------------------------------------------------------------------
(* Event contracts.                                                        *)

Field(n, t) == [name |-> n, type |-> Ref(t)]
Event(n, fields) == [name |-> n, fields |-> fields, pii |-> {}, cloudEvents |-> "full"]
Channel(n, events) == [name |-> n, publishes |-> events]
Filter(needs) == [parses |-> TRUE, boolean |-> TRUE, needs |-> needs]
Whole(n) == <<n, [kind |-> "primitive", pkg |-> NoName, name |-> "Int"]>>
Letters(n) == <<n, [kind |-> "primitive", pkg |-> NoName, name |-> "String"]>>
Delivery(attempts, dead) == [mode |-> NoName, knobs |-> "maxAttempts" :> attempts, deadLetter |-> dead]
Subscription(n, events) ==
  [name |-> n, events |-> events, consumer |-> "billing", when |-> NoName, delivery |-> NoName]

EventsWith(events, channels, subscriptions) ==
  [parsed |-> TRUE, parseErrors |-> FALSE, imports |-> Imports, files |-> Domains,
   declared |-> [events |-> events, channels |-> channels, subscriptions |-> subscriptions]]

Fields == {<<>>, <<Field("id", "Int")>>, <<Field("id", "String")>>,
           <<Field("id", "Int"), Field("order", "Order")>>}
Placed == Event("Placed", <<Field("id", "Int")>>)

\* Filters over two events; names declared twice.
FilterSlice ==
  {EventsWith(<<Event(n[1], f1), Event(n[2], f2)>>, <<>>,
            <<[Subscription("S", s) EXCEPT !.when = w]>>) :
     n \in {<<"Placed", "Closed">>, <<"Placed", "Placed">>}, f1 \in Fields, f2 \in Fields,
     s \in {<<>>, <<"Placed">>, <<"Placed", "Closed">>, <<"Closed", "Gone">>},
     w \in {NoName, Filter({Whole("id")}), Filter({Letters("id")}),
            [Filter({}) EXCEPT !.boolean = FALSE], [Filter({}) EXCEPT !.parses = FALSE]}}

\* Delivery, channels and what they publish.
DeliverySlice ==
  {EventsWith(<<Placed>>, c, <<[Subscription("S", <<"Placed">>) EXCEPT !.delivery = d]>>) :
     c \in SeqsUpTo({Channel("out", {"Placed"}), Channel("out", {"Gone", NoName}), Channel("dead", {NoName})}, 2),
     d \in {Delivery(a, t) : a \in {-1, 0, 1, 2, 8}, t \in {NoName, "out", "dead"}}
             \cup {[Delivery(1, NoName) EXCEPT !.mode = m] : m \in {"at_most_once", "twice"}}}

\* Types, metadata, repeated declarations, imports and domains in error.
EventSlice ==
  {EventsWith(<<e>>, <<>>, s) :
     e \in {Event("Placed", <<Field("a", t[1]), Field(t[2], "Int")>>) :
              t \in {"Int", "Order", "Note", "Staff", "Gone"} \X {"a", "b"}}
             \cup {[Placed EXCEPT !.pii = p, !.cloudEvents = ce] :
                     p \in {{"id"}, {"name"}}, ce \in {"absent", "full", "empty"}},
     s \in {<<>>, <<Subscription("S", <<"Placed">>), Subscription("S", <<"Placed">>)>>,
            <<[Subscription("S", <<"Placed">>) EXCEPT !.consumer = NoName]>>}}
    \cup {[EventsWith(<<Placed>>, <<>>, <<>>) EXCEPT !.imports = i, !.files = f, !.parseErrors = p, !.parsed = a] :
            i \in {Imports, Imports \o Imports, <<Import("gone.mox")>>},
            f \in {Domains, <<Domain("shop.mox", <<Shop>>, TRUE)>>, <<Domain("shop.mox", NoName, TRUE)>>},
            p \in BOOLEAN, a \in BOOLEAN}

-----------------------------------------------------------------------------
(* Use cases.                                                              *)

Actors == [path |-> "p.actor", normal |-> "p.actor", actors |-> {"Clerk", "Boss"},
           capabilities |-> {"Pay", "Check"}, permits |-> {<<"Clerk", "Pay">>, <<"Clerk", "Check">>},
           forbids |-> {}, neverBoth |-> {}]
Design == [path |-> "d.ddd", normal |-> "d.ddd", modules |-> {"Sales"},
           services |-> <<[name |-> "Orders", operations |-> {"place"}]>>]
Events(path, names) == [path |-> path, normal |-> path, events |-> names]

Step(n) == [name |-> n, operation |-> "close", requires |-> {}, when |-> NoName]
Person(n) == [name |-> n, type |-> NoName, occurrences |-> <<>>, steps |-> <<>>]
Subject == [Person("sys") EXCEPT !.type = Ref("Order"), !.steps = <<Step("a")>>]
Message == [name |-> "m", payload |-> NoName, source |-> <<"Clerk", "ask">>, target |-> <<"sys", "a">>]
Clerk == [Person("Clerk") EXCEPT !.occurrences = <<<<"named", "ask">>>>]
UC(subject, actors, messages, successions) ==
  [name |-> "Buy", subject |-> subject, actors |-> actors, messages |-> messages,
   successions |-> successions, realizes |-> {}]
UcWith(uc) ==
  [parsed |-> TRUE, parseErrors |-> FALSE, files |-> Domains, useCases |-> <<uc>>,
   imports |-> Imports \o <<[Import("d.ddd") EXCEPT !.alias = "d"], Import("p.actor"), Import("e.evt")>>,
   designs |-> <<Design>>, actors |-> <<Actors>>, events |-> <<Events("e.evt", {"Placed"})>>]

Bare(n) == <<"bare", n>>
Dotted(n, t) == <<"dotted", n, t>>
Start == <<"start">>
Done == <<"done">>

\* Up to four successions between two steps, an occurrence and the ends.
GraphNodes == {Start, Done, Bare("a"), Bare("b"), Bare("ask"), Dotted("Clerk", "ask")}
GraphSlice ==
  {UcWith(UC([Subject EXCEPT !.steps = <<Step("a"), Step("b")>>], <<Clerk>>, <<>>, s)) :
     s \in {<<>>}
       \cup {<<<<Start, x>>, <<y, z>>, <<z, Done>>>> : x \in GraphNodes, y \in GraphNodes, z \in GraphNodes}
       \cup {<<<<Start, Bare("a")>>, <<Bare("a"), x>>, <<x, y>>, <<y, z>>>> :
               x \in GraphNodes, y \in GraphNodes, z \in GraphNodes}}

\* Messages: every way to anchor an end, and references to their ends.
EndSlice ==
  {UcWith(UC(Subject, <<[Clerk EXCEPT !.occurrences = o]>>, <<[Message EXCEPT !.source = f, !.target = t]>>,
             <<<<Start, x>>, <<x, y>>, <<y, Bare("a")>>, <<Bare("a"), Done>>>>)) :
     o \in {<<>>, <<<<"named", "ask">>>>, <<<<"named", "ask">>, <<"end", "m", "source">>>>,
            <<<<"end", "m", "target">>>>, <<<<"end", "m", "source">>, <<"end", "m", "source">>>>,
            <<<<"named", "ask">>, <<"named", "ask">>>>, <<<<"end", "gone", "source">>>>},
     f \in {NoName, <<"Clerk", "ask">>, <<"Gone", "ask">>}, t \in {NoName, <<"sys", "a">>, <<"sys", "b">>},
     x \in {Dotted("m", "source"), Bare("m")}, y \in {Dotted("m", "target"), Bare("m"), Bare("ask"), Dotted("m", "ask")}}

\* Participants: types, names, guards, operations, payloads.
PeopleSlice ==
  {UcWith(UC(s, a, m, <<>>)) :
     s \in {NoName, Subject, [Subject EXCEPT !.type = Ref("Status")], [Subject EXCEPT !.type = Ref("Note")],
            [Subject EXCEPT !.type = NoName], [Subject EXCEPT !.steps = <<Step("a"), Step("a")>>]}
       \cup {[Subject EXCEPT !.steps = <<[Step("a") EXCEPT !.operation = o, !.when = g]>>] :
               o \in {"audit", "open"},
               g \in {NoName, [parses |-> TRUE, boolean |-> TRUE, names |-> {"total", "code"}],
                      [parses |-> TRUE, boolean |-> TRUE, names |-> {"gone"}],
                      [parses |-> FALSE, boolean |-> FALSE, names |-> {}]}},
     a \in {<<Clerk>>, <<Person("Nobody")>>, <<Clerk, Clerk>>, <<[Clerk EXCEPT !.steps = <<Step("b")>>]>>,
            <<[Clerk EXCEPT !.type = Ref("Gone")]>>},
     m \in {<<>>, <<Message>>} \cup {<<[Message EXCEPT !.payload = Ref(p)]>> : p \in {"Order", "Note", "Placed", "Gone"}}}

\* Authority, bindings, imports, and a name two participants have.
AuthoritySlice ==
  {[UcWith([UC([Subject EXCEPT !.steps = <<[Step("a") EXCEPT !.requires = r]>>], p, <<>>, <<>>) EXCEPT !.realizes = b])
      EXCEPT !.actors = <<[Actors EXCEPT !.forbids = f, !.neverBoth = n]>>] :
     r \in {{"Pay"}, {"Pay", "Check"}, {"Gone"}}, p \in {<<Clerk>>, <<Person("Boss")>>, <<Clerk, Person("Boss")>>},
     f \in {{}, {<<"Clerk", "Pay">>}, {<<"Boss", "Pay">>}}, n \in {{}, {{"Pay", "Check"}}},
     b \in {{}} \cup {{[alias |-> x, service |-> y, operation |-> z]} :
                        x \in {"d", "e"}, y \in {"Orders", "Gone"}, z \in {"place", "gone"}}}
    \cup {[UcWith(UC(Subject, <<[Clerk EXCEPT !.occurrences = <<<<"named", "go">>>>],
                               [Person("Boss") EXCEPT !.occurrences = o]>>, <<>>,
                     <<<<Start, x>>, <<x, Bare("a")>>, <<Bare("a"), Done>>>>))
             EXCEPT !.imports = i, !.designs = d] :
            o \in {<<>>, <<<<"named", "go">>>>}, x \in {Bare("go"), Dotted("Boss", "go"), Dotted("sys", "a")},
            i \in {Imports, Imports \o <<Import("gone.ddd")>>,
                   <<[Import("shop.mox") EXCEPT !.alias = "s"], Import("crm.mox")>>},
            d \in {<<Design>>, <<>>}}

-----------------------------------------------------------------------------
(* Cases.                                                                  *)

Item(n, kind) == [name |-> n, kind |-> kind, discretionary |-> FALSE, performer |-> NoName,
                  execute |-> NoName, entry |-> <<>>, exit |-> <<>>]
\* Trees: items side by side, and a stage with what it contains.
Flat(items) == [p \in {<<i>> : i \in DOMAIN items} |-> items[p[1]]]
Stage(i, n, tree) == [p \in {<<i>>} \cup {<<i>> \o q : q \in DOMAIN tree} |->
                        IF p = <<i>> THEN Item(n, "stage") ELSE tree[Tail(p)]]
On(source, word) == [on |-> <<<<source, word>>>>, when |-> NoName]
Reads(paths) == [on |-> <<>>, when |-> [parses |-> TRUE, boolean |-> TRUE, paths |-> paths]]
CmmnWith(roles, fileItems, tree) ==
  [parsed |-> TRUE, parseErrors |-> FALSE, files |-> Domains,
   imports |-> Imports \o <<[Import("d.ddd") EXCEPT !.alias = "d"]>>,
   designs |-> <<Design>>, actors |-> <<Actors>>,
   events |-> <<Events("e.evt", {"Placed", "Both"}), Events("f.evt", {"Both"})>>,
   cases |-> <<[name |-> "Loan", roles |-> roles, caseFile |-> fileItems, planItems |-> tree]>>]
Clerks == <<[name |-> "clerk", actor |-> "Clerk"]>>
Doc == <<Field("doc", "Order")>>

\* Trees of up to five items over three names.
Names == {"x", "y", "z"}
Leaves == {Item(n, "task") : n \in Names}
TreeSlice ==
  {CmmnWith(Clerks, f, t) :
     f \in {<<>>, <<Field("x", "Order")>>},
     t \in {Stage(1, "s", Flat(a)) @@ Stage(2, "t", Flat(b)) @@ (<<3>> :> l) :
              a \in SeqsUpTo(Leaves, 1), b \in SeqsUpTo(Leaves, 2), l \in Leaves}
         \cup {Stage(1, "s", Stage(1, n, Flat(<<l>>)) @@ (<<2>> :> k)) : n \in Names, l \in Leaves, k \in Leaves}}

\* Sentries: every kind of source and word.
SentrySlice ==
  {CmmnWith(Clerks, Doc, Flat(<<[Item("x", k) EXCEPT !.entry = c, !.exit = e], Item(n, "milestone")>>)) :
     k \in {"task", "milestone"}, n \in {"y", "doc", "Loan", "case_file"},
     c \in {<<On(s, w)>> : s \in {"y", "doc", "x", "Placed", "Both"}, w \in {NoName, "complete", "update"}}
         \cup {<<Reads({p})>> : p \in {<<"y">>, <<"doc">>, <<"y", "complete">>, <<"case_file", "doc">>,
                                       <<"case_file", "complete">>, <<"Loan", "doc">>, <<"y", "doc">>, <<"gone">>}},
     e \in {<<>>, <<On("x", "complete")>>}}

\* Clauses by kind, roles, execute bindings.
ClauseSlice ==
  {CmmnWith(r, f, Flat(<<[Item("x", k) EXCEPT !.performer = p, !.execute = b, !.discretionary = d]>>)) :
     r \in {Clerks, Clerks \o Clerks, <<[name |-> "clerk", actor |-> "Gone"]>>},
     f \in {Doc, Doc \o Doc, <<Field("doc", "Note")>>}, k \in {"task", "service", "milestone", "stage"},
     p \in {NoName, "clerk", "gone"}, d \in BOOLEAN,
     b \in {NoName, [alias |-> "d", service |-> "Orders", operation |-> "place"],
            [alias |-> "d", service |-> "Gone", operation |-> "place"]}}

-----------------------------------------------------------------------------
(* Deployments.                                                            *)

Setting(path, value) == [path |-> path, value |-> value]
WordOf(w) == <<"word", w>>
Component(n, kind, settings) ==
  [name |-> n, kind |-> kind, requires |-> {}, settings |-> settings, env |-> <<>>, designs |-> {}, flows |-> {}]
App(components) == [name |-> "App", components |-> components, connections |-> {}]
Profile(target, defaults, policies) ==
  [name |-> "prod", target |-> target, defaults |-> defaults, policies |-> policies, mappings |-> {}]
Deploy(configure) == [name |-> "live", application |-> "App", profile |-> "prod", configure |-> configure]
DeployWith(applications, profiles, deployments) ==
  [parsed |-> TRUE, parseErrors |-> FALSE, imports |-> <<>>, applications |-> applications, profiles |-> profiles,
   deployments |-> deployments, designs |-> <<Design>>,
   flows |-> <<[path |-> "f.ifml", normal |-> "f.ifml", modules |-> {"Front"}]>>]

\* Three levels of settings against targets and policies.
Require(e) == [prohibit |-> FALSE, parses |-> TRUE, expr |-> e]
Apply(op, operands) == operands \o <<<<op>>>>
Number(n) == <<<<"int", n>>>>
Truth == <<<<"bool", TRUE>>>>
Replicas == <<<<"path", "api", "replicas">>>>
Policies ==
  {{}, {Require(Apply("==", <<<<"path", "db", "engine">>, <<"text", "postgres">>>>))},
   {Require(Apply("<", Number(1) \o Replicas))},
   {[Require(Apply("or", Apply("==", Replicas \o Number(2)) \o Apply("<", Apply("/", Number(4) \o Replicas) \o Number(3))))
       EXCEPT !.prohibit = TRUE]}}
LevelSlice ==
  {DeployWith(<<App(<<Component("api", "api", b), Component("db", "database", <<Setting(<<"engine">>, WordOf(e))>>)>>)>>,
              <<Profile(t, d, p)>>, <<Deploy(c)>>) :
     b \in {<<>>, <<Setting(<<"replicas">>, <<"int", 0>>), Setting(<<"runtime">>, WordOf("container"))>>},
     e \in {"sqlite", "postgres"}, t \in Targets, p \in Policies,
     d \in {<<>>, <<Setting(<<"db", "engine">>, WordOf("d1")), Setting(<<"api", "replicas">>, <<"int", 2>>)>>,
            <<Setting(<<"api", "runtime">>, WordOf("embedded"))>>},
     c \in {<<>>, <<Setting(<<"db", "engine">>, WordOf("postgres"))>>,
            <<Setting(<<"api", "replicas">>, <<"int", 1>>), Setting(<<"db", "engine">>, WordOf("d1"))>>}}

\* Settings that do not fit their kind or level, repeated or misplaced.
SettingSlice ==
  LET odd == {<<>>, <<Setting(<<"api", "port">>, <<"text", "80">>)>>, <<Setting(<<"api", "entrypoint">>, <<"text", "x">>)>>,
              <<Setting(<<"gone", "port">>, <<"int", 1>>)>>, <<Setting(<<"port">>, <<"int", 1>>)>>,
              <<Setting(<<"api", "port">>, <<"int", 1>>), Setting(<<"api", "port">>, <<"int", 2>>)>>}
  IN  {DeployWith(<<App(<<[Component("api", k, b) EXCEPT !.requires = r]>>)>>, <<Profile(t, d, {})>>, <<Deploy(c)>>) :
         k \in {"api", "worker", "queue", "objectStore", "frontend", "gone"}, r \in {{}, {"container"}, {"gone"}},
         b \in {<<>>, <<Setting(<<"port">>, <<"int", 1>>)>>, <<Setting(<<"port">>, WordOf("x"))>>},
         t \in {"kubernetes", "cloudflareWorkers", "gone"}, d \in odd, c \in odd}

\* Bindings, connections, environments, policies, repeated declarations.
ShapeSlice ==
  {[DeployWith(<<[App(<<[Component("api", "api", <<>>) EXCEPT !.designs = b, !.env = e]>>) EXCEPT !.connections = n]>>,
               <<Profile("standalone", <<>>, p)>>, d) EXCEPT !.imports = i] :
     b \in {{}} \cup {{[Import(x) EXCEPT !.alias = NoName] @@ [module |-> m]} :
                        x \in {"d.ddd", "gone.ddd"}, m \in {NoName, "Sales", "Gone"}},
     e \in {<<>>, <<"A", "A">>, <<NoName>>}, n \in {{}, {<<"api", "api">>}, {<<"api", "gone">>}},
     i \in {<<>>, <<Import("d.ddd") @@ [kind |-> "ddd"]>>, <<Import("f.ifml") @@ [kind |-> "other"]>>,
            <<Import("gone.ddd") @@ [kind |-> "ddd"]>>},
     p \in {{}, {[Require(Truth) EXCEPT !.parses = FALSE]},
            {Require(Apply("not", Apply("and", Truth \o Apply("==", Apply("neg", Number(1)) \o Apply("*", Number(1) \o Number(-1))))))},
            {Require(Apply("==", Apply("/", Number(1) \o Number(0)) \o Number(1)))},
            {Require(Apply("<", Apply("+", Number(7) \o Number(7)) \o Number(7)))},
            {Require(<<<<"name", "api">>>>)}},
     d \in {<<Deploy(<<>>)>>, <<Deploy(<<>>), Deploy(<<>>)>>, <<[Deploy(<<>>) EXCEPT !.profile = "gone"]>>,
            <<[Deploy(<<>>) EXCEPT !.application = "gone"]>>}}

-----------------------------------------------------------------------------
(* Decision models.                                                        *)

Valued(n) == [name |-> n, type |-> Ref("Int")]
Logic(kind, n, text, bindings) == [kind |-> kind, name |-> n, text |-> text, bindings |-> bindings]
Expression(text) == Logic("expression", NoName, text, <<>>)
Invoke(n, bindings) ==
  Logic("invoke", n, NoName, [i \in DOMAIN bindings |-> [name |-> bindings[i][1], text |-> bindings[i][2]]])
Decision(n, logic) == [name |-> n, outputs |-> <<Valued(NoName)>>, logic |-> logic]
Knowledge(n, parameters, logic) ==
  [name |-> n, parameters |-> [i \in DOMAIN parameters |-> Valued(parameters[i])], output |-> Ref("Int"), logic |-> logic]
Model(decisions, information) ==
  [metadata |-> <<>>, inputs |-> <<Valued("in"), Valued("alt")>>, sources |-> <<>>, models |-> <<>>,
   decisions |-> decisions, services |-> <<>>, views |-> <<>>,
   information |-> information, knowledge |-> <<>>, authority |-> <<>>]
DecisionsWith(models) ==
  [parsed |-> TRUE, parseErrors |-> FALSE, imports |-> Imports, files |-> Domains, models |-> models,
   tables |-> <<>>]

\* Every graph over three decisions, one also declared twice; short lists of
\* requirements in every order, of anything by anything.
Decisions3 == <<Decision("a", NoName), Decision("b", NoName), Decision("c", NoName)>>
Pairs == [i \in 1..9 |-> <<<<"a", "b", "c">>[(i + 2) \div 3], <<"a", "b", "c">>[(i % 3) + 1]>>]
InformationSlice ==
  {DecisionsWith(<<Model(Decisions3, SelectSeq(Pairs, LAMBDA e : e \in r))>>) : r \in SUBSET Range(Pairs)}
  \cup {DecisionsWith(<<Model(d, r)>>) :
          d \in {Decisions3, <<Decision("b", NoName), Decision("a", NoName), Decision("b", NoName)>>},
          r \in SeqsUpTo({"a", "b", "in"} \X {"a", "b", "c", "in", "gone"}, 2)}

\* Tables with the wrong clauses, and tables nobody provides.
TableSlice ==
  {[DecisionsWith(<<Model(<<[Decision("a", Logic("table", "t.md", NoName, <<>>)) EXCEPT !.outputs = o]>>, r)>>)
      EXCEPT !.tables = t] :
     o \in {<<Valued(NoName)>>, <<Valued("x"), Valued("y")>>, <<>>},
     r \in {<<>>, <<<<"a", "in">>>>, <<<<"a", "alt">>, <<"a", "in">>>>},
     t \in {<<>>, <<[path |-> "t.md", table |-> NoName]>>}
             \cup {<<[path |-> p, table |-> [inputs |-> i, outputs |-> u]]>> :
                     p \in {"t.md", "u.md"}, i \in {<<>>, <<"in">>, <<"in", "alt">>, <<"in", "gone">>},
                     u \in SeqsUpTo({NoName, "x", "y", "z"}, 2)}}

\* Knowledge models, two of one name, called by decisions and by each other.
InvokeSlice ==
  {[DecisionsWith(<<[Model(<<Decision("a", l)>>, <<>>) EXCEPT !.models = m, !.knowledge = k]>>) EXCEPT !.files = Domains] :
     l \in {NoName, Expression("good"), Expression("bad"), Expression("conditional")}
             \cup {Invoke(n, b) : n \in {"rate", "gone"}, b \in SeqsUpTo({"p", "q"} \X {"good", "bad"}, 2)},
     m \in {<<Knowledge("rate", <<"p">>, Expression("good"))>>,
            <<Knowledge("rate", <<"p", "q">>, Expression("conditional")), Knowledge("rate", <<>>, Expression("good"))>>,
            <<Knowledge("rate", <<"p">>, Invoke("rate", <<<<"p", "good">>>>))>>,
            <<Knowledge("rate", <<>>, Invoke("other", <<>>)), Knowledge("other", <<"p">>, Expression("good"))>>},
     k \in {<<>>, <<<<"a", "rate">>>>, <<<<"a", "a">>>>, <<<<"rate", "rate">>>>}}

\* Names across sections, types, metadata, authority, services and views.
SectionSlice ==
  {[DecisionsWith(<<[Model(<<[Decision("a", NoName) EXCEPT !.outputs[1].type = y]>>, <<>>) EXCEPT
        !.metadata = d, !.sources = s, !.services = e, !.views = v, !.authority = u]>>)
      EXCEPT !.parseErrors = x] :
     y \in {Ref("Int"), Ref("Note"), Ref("Order"), NoName}, d \in {<<>>, <<"id", "version">>, <<"id", "id">>},
     s \in {<<>>, <<[name |-> "law"]>>, <<[name |-> "in"]>>},
     e \in {<<>>} \cup {<<[name |-> n, inputs |-> i, outputs |-> o, encapsulates |-> p]>> :
                          n \in {"svc", "a"}, i \in {{}, {"in"}, {"a"}}, o \in {{"a"}, {"in"}}, p \in {{}, {"gone"}}},
     v \in {<<>>, <<[name |-> "view", show |-> {"in", "a", "law"}]>>, <<[name |-> "view", show |-> {"view"}]>>},
     u \in {<<>>, <<<<"a", "law">>>>, <<<<"law", "law">>>>}, x \in {FALSE}}
  \cup {[DecisionsWith(<<>>) EXCEPT !.parsed = p, !.parseErrors = ~p] : p \in BOOLEAN}

-----------------------------------------------------------------------------
Of(surface, files) == {[surface |-> surface, file |-> f] : f \in files}

MCFiles ==
  {Of("ddd", s) : s \in DesignFiles!MCDesigns} \cup {Of("mox", s) : s \in MoxFiles!MCModels} \cup
  {Of("dmn", InformationSlice), Of("dmn", TableSlice), Of("dmn", InvokeSlice), Of("dmn", SectionSlice),
   Of("evt", FilterSlice), Of("evt", DeliverySlice), Of("evt", EventSlice),
   Of("uc", GraphSlice), Of("uc", EndSlice), Of("uc", PeopleSlice), Of("uc", AuthoritySlice),
   Of("cmmn", TreeSlice), Of("cmmn", SentrySlice), Of("cmmn", ClauseSlice),
   Of("deploy", LevelSlice), Of("deploy", SettingSlice), Of("deploy", ShapeSlice)}
=============================================================================
