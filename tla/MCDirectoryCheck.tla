-------------------------- MODULE MCDirectoryCheck --------------------------
EXTENDS DirectoryCheck, TLC

MCLower(name) == IF name = "Pay" THEN "pay" ELSE name

Empty(path, imports) ==
  [path |-> path, imports |-> imports, fault |-> "none", lints |-> FALSE,
   declares |-> {}, actors |-> {}, grants |-> {}, carries |-> {}, operations |-> <<>>,
   emits |-> {}, invokes |-> {}, services |-> {}, events |-> {}, consumers |-> {},
   components |-> {}, actions |-> {}, requires |-> {}, commands |-> {}, roles |-> {}]

\* One application, its parts and the ways they can be wrong.
Domain == Empty(<<"d", "mox">>, <<>>)
OtherDomain == Empty(<<"e", "mox">>, <<>>)
Policy == [Empty(<<"p", "actor">>, <<Domain.path>>) EXCEPT
             !.declares = {"Cap"}, !.actors = {"Clerk"}, !.grants = {"Cap"}]
Design == [Empty(<<"o", "ddd">>, <<Domain.path>>) EXCEPT
             !.carries = {"Cap"}, !.operations = <<"pay">>, !.emits = {"Paid"}]
OtherDesign == [Empty(<<"q", "ddd">>, <<OtherDomain.path>>) EXCEPT
             !.carries = {"Cap"}, !.operations = <<"ship">>]
Contract == [Empty(<<"x", "evt">>, <<Domain.path>>) EXCEPT !.events = {"Paid"}, !.consumers = {"Bill"}]
Deployment == [Empty(<<"y", "deploy">>, <<Design.path>>) EXCEPT !.components = {"Bill"}]
Flow == [Empty(<<"f", "ifml">>, <<Domain.path, Policy.path>>) EXCEPT
             !.actions = {"Pay"}, !.requires = {"Cap"}, !.commands = {"Clerk"}, !.roles = {"Clerk"}]
Decision == [Empty(<<"r", "dmn">>, <<Domain.path>>) EXCEPT !.services = {"Risk"}]
Case == Empty(<<"k", "cmmn">>, <<Design.path, Policy.path, Contract.path>>)

Faulty(f) == {f, [f EXCEPT !.fault = "rules"], [f EXCEPT !.fault = "syntax"]}
Orders(files) == {s \in [1..Cardinality(files) -> files] : \A i, j \in DOMAIN s : s[i] = s[j] => i = j}
Tree(listing, outside, deny) == [listing |-> listing, outside |-> outside, deny |-> deny]

\* One field of one file changed.
Variants(f) ==
  Faulty(f) \cup
  CASE Extension(f.path) = "actor" ->
         {[f EXCEPT !.declares = {}], [f EXCEPT !.grants = {"Cap", "New"}], [f EXCEPT !.actors = {}],
          [f EXCEPT !.imports = <<OtherDomain.path>>], [f EXCEPT !.declares = {"Cap", "New"}]}
    [] Extension(f.path) = "ddd" ->
         {[f EXCEPT !.carries = {}], [f EXCEPT !.carries = {"New"}], [f EXCEPT !.carries = {"New"}, !.emits = {"Lost"}],
          [f EXCEPT !.operations = <<"pay", "Pay">>], [f EXCEPT !.operations = <<>>],
          [f EXCEPT !.emits = {}], [f EXCEPT !.invokes = {"Risk"}], [f EXCEPT !.imports = <<OtherDomain.path>>],
          [f EXCEPT !.imports = @ \o <<Decision.path>>, !.invokes = {"Risk"}]}
    [] Extension(f.path) = "evt" ->
         {[f EXCEPT !.events = {}], [f EXCEPT !.consumers = {"Gone"}], [f EXCEPT !.imports = <<OtherDomain.path>>]}
    [] Extension(f.path) = "deploy" ->
         {[f EXCEPT !.components = {}], [f EXCEPT !.imports = @ \o <<Flow.path>>], [f EXCEPT !.imports = <<>>]}
    [] Extension(f.path) = "ifml" ->
         {[f EXCEPT !.lints = TRUE], [f EXCEPT !.actions = {"Ship"}], [f EXCEPT !.requires = {"Clerk"}],
          [f EXCEPT !.imports = <<Domain.path>>], [f EXCEPT !.imports = <<Policy.path>>, !.roles = {"Cap"}],
          [f EXCEPT !.imports = <<OtherDomain.path>>, !.commands = {"Boss"}]}
    [] Extension(f.path) = "dmn" -> {[f EXCEPT !.services = {}]}
    [] OTHER -> {}

\* Every order of three or four files, one of them varied.
Ordered ==
  {Tree(s, {}, deny) : deny \in BOOLEAN, s \in
     (UNION {Orders({Domain, a, b, c}) : a \in Variants(Policy), b \in Variants(Design), c \in {Flow}})
     \cup UNION {Orders({Domain, a, b}) : a \in Variants(Design), b \in Variants(Decision)}}

\* Whole applications, two files varied; another one beside them, or bridged.
Whole ==
  {Tree(<<Domain, OtherDomain, f, d, p, OtherDesign, x, y>>, {}, deny) :
     deny \in BOOLEAN, f \in Variants(Flow), d \in Variants(Design), p \in Variants(Policy),
     x \in {Contract}, y \in {Deployment}}
  \cup {Tree(<<m, OtherDomain, Flow, d, Policy, OtherDesign, x, y>>, {}, FALSE) :
     m \in Faulty(Domain), d \in Variants(Design), x \in Variants(Contract), y \in Variants(Deployment)}

\* Imports that leave the directory, imports that lead nowhere, a file listed
\* twice, flows that import each other, cases and use cases.
Outside ==
  {Tree(s, {p}, FALSE) : p \in Variants(Policy),
     s \in Orders({Domain, Design, Flow}) \cup Orders({Domain, Design, Case, Contract})}
SecondFlow == Empty(<<"g", "ifml">>, <<Flow.path>>)
Odd ==
  {Tree(s, {}, FALSE) : s \in
     Orders({Domain, Design, Flow}) \cup Orders({Policy, Design})
     \cup {<<Domain, Design, Design, OtherDesign, f, g, Policy>> :
             f \in Variants(Flow) \cup {[Flow EXCEPT !.imports = @ \o <<<<"g", "ifml">>>>]},
             g \in Faulty(SecondFlow) \cup {[SecondFlow EXCEPT !.actions = {"Pay"}]}}
     \cup {<<Domain, Case, d, [Case EXCEPT !.path = <<"u", "uc">>], p, Contract, Decision>> :
             d \in Variants(Design), p \in Variants(Policy)}}

MCTrees == {Ordered, Whole, Outside, Odd}
=============================================================================
