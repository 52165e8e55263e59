--------------------------- MODULE MCPolicySurface ---------------------------
(* Compilations of one block, and of two and three blocks in several files.  *)
EXTENDS PolicySurface, TLC

AllNamed == {"A", "B", "C"}

Human(n, parent) == [name |-> n, parent |-> parent, kind |-> "undeclared"]
Agent(n, parent) == [name |-> n, parent |-> parent, kind |-> "agent"]

Entry(effect, c) == [effect |-> effect, capability |-> c, obligations |-> {}]
Grant(n, entries) == [actor |-> n, entries |-> entries]
Hand(name, from, to, c) ==
    [name |-> name, from |-> from, to |-> to, purpose |-> Nothing, entries |-> <<Entry("permit", c)>>]

BothCapabilities == <<[name |-> "x", onClass |-> TRUE], [name |-> "y", onClass |-> TRUE]>>

Block(file, name, actors, grants, delegations, neverBoth) ==
    [file |-> file, name |-> name, actors |-> actors, grants |-> grants,
     delegations |-> delegations, neverBoth |-> neverBoth, capabilities |-> BothCapabilities,
     purposes |-> <<"p">>, obligations |-> <<"o">>]

Single(b) == [host |-> "single", own |-> b, domains |-> <<>>, designs |-> Nothing]
Multi(files) == [host |-> "multi", own |-> <<>>, domains |-> files, designs |-> Nothing]
Actor(own, files, designs) == [host |-> "actor", own |-> own, domains |-> files, designs |-> designs]
File(path, state, blocks) == [path |-> path, state |-> state, blocks |-> blocks]

-----------------------------------------------------------------------------
(* One block: chains of up to three, kinds declared and inherited, and what    *)
(* the lowering refuses (a name twice, a cycle, a parent declared too late).   *)
Chains ==
    {<<Human("A", Nothing), k, l>> : k \in {Human("B", "A"), Agent("B", "A"), Agent("B", Nothing)},
                                     l \in {Human("C", "B"), Human("C", "A")}}
    \cup {<<Agent("A", Nothing), Human("B", "A")>>}
Refused ==
    {<<Human("A", "A")>>, <<Human("A", "B"), Agent("B", "A")>>, <<Agent("B", "A"), Human("A", Nothing)>>,
     <<Agent("A", Nothing), Human("A", Nothing), Human("B", "A")>>}

SomeGrants ==
    {Grant(n, <<e>>) : n \in AllNamed, e \in {Entry("permit", "x"), Entry("permit", "y"), Entry("forbid", "x")}}
    \cup {Grant("B", <<[Entry("cedar", "x") EXCEPT !.obligations = {}], Entry("permit", "y")>>),
          Grant("A", <<[Entry("permit", "x") EXCEPT !.obligations = {"o"}]>>),
          Grant("A", <<[Entry("permit", "x") EXCEPT !.obligations = {"q"}]>>)}
GrantLists == {SetToSeq(S) : S \in UNION {kSubset(k, SomeGrants) : k \in 0..2}}

DelegationLists ==
    {<<>>, <<Hand("d", "A", "B", "x")>>, <<Hand("d", "A", "C", "y")>>,
     <<Hand("d", "A", "B", "x"), Hand("e", "B", "C", "x")>>,
     <<[Hand("d", "A", "C", "y") EXCEPT !.purpose = "p"], [Hand("e", "A", "B", "y") EXCEPT !.purpose = "q"]>>,
     <<[Hand("d", "A", "C", "x") EXCEPT !.entries[1].effect = "forbid"]>>}
NeverBoths == {<<>>, <<<<"x", "y">>>>}

OneBlock ==
    {Single(<<Block("own", "P", a, g, d, n)>>) :
        a \in Chains, g \in GrantLists, d \in DelegationLists, n \in NeverBoths}
    \cup {Single(<<Block("own", "P", a, g, <<Hand("d", "A", "B", "x")>>, <<<<"x">>>>)>>) :
        a \in Refused, g \in {<<h>> : h \in SomeGrants}}
    \cup {Single(<<[Block("own", "P", <<Agent("A", Nothing)>>, <<Grant("A", <<Entry("permit", "x")>>)>>, <<>>, <<>>)
                    EXCEPT !.capabilities = cs]>>) :
        cs \in {<<>>, BothCapabilities \o BothCapabilities, <<[name |-> "x", onClass |-> FALSE]>>}}

-----------------------------------------------------------------------------
(* Two blocks of which neither shows the conflict alone, in one file or two.   *)
SmallActors ==
    {<<Human("A", Nothing)>>, <<Agent("B", Nothing)>>,
     <<Human("A", Nothing), Agent("B", "A")>>, <<Human("B", Nothing), Agent("A", "B")>>}
SmallGrants ==
    {<<>>} \cup {<<Grant(n, <<Entry("permit", c)>>)>> : n \in {"A", "B"}, c \in {"x", "y"}}
Small(file, name) ==
    {Block(file, name, a, g, d, n) :
        a \in SmallActors, g \in SmallGrants, d \in {<<>>, <<Hand("d", "A", "B", "x")>>}, n \in NeverBoths}
Plain(file, name) == {b \in Small(file, name) : b.delegations = <<>>}

TwoFiles ==
    {Multi(<<File("m", "fine", <<b>>), File("n", "fine", <<c>>)>>) :
        b \in Small("m", "P"), c \in Plain("n", "P")}
OneFileTwice ==
    {Single(<<b, c>>) : b \in Plain("own", "P"), c \in Plain("own", "P") \cup Plain("own", "Q")}
WithDomain ==
    {Actor(<<b>>, <<File("m", "fine", <<c>>)>>, Nothing) : b \in Plain("own", "P"), c \in Small("m", "Q")}
    \cup {Actor(<<b>>, <<File("m", state, <<c>>)>>, designs) :
             b \in Plain("own", "P"),
             c \in {Block("m", name, <<Human("A", Nothing)>>, <<Grant("A", <<Entry("permit", "x")>>)>>, <<>>, <<>>) :
                       name \in {"P", "Q"}},
             state \in {"fine", "errors", "unparsed"}, designs \in {Nothing, {"x"}, {"x", "y"}}}

\* The rule in the policy file, one half of the conflict in each domain.
TwoDomains ==
    {Actor(<<Block("own", "P", <<Human("A", Nothing), Agent("B", "A")>>, <<>>, <<>>, <<<<"x", "y">>>>)>>,
           <<File("m", state, <<b>>), File("n", "fine", <<c>>)>>, Nothing) :
        b \in Plain("m", "Q"), c \in Plain("n", "R"), state \in {"fine", "errors"}}

SeveralBlocks == TwoFiles \cup OneFileTwice \cup WithDomain \cup TwoDomains

AllInputs == OneBlock \cup SeveralBlocks
=============================================================================
