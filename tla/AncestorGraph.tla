---------------------------- MODULE AncestorGraph ----------------------------
(***************************************************************************)
(* The semantic-graph kernel of rex-verify: nodes that are never removed,  *)
(* references, and containment edges that `link` refuses when they would   *)
(* close a cycle.  The guard of link is the walk is_ancestor over parent   *)
(* lists, a mark-on-push search with a budget of pops; it is modelled one  *)
(* loop iteration at a time.                                               *)
(***************************************************************************)
EXTENDS Naturals, Sequences, FiniteSets

CONSTANTS MaxNodes,      \* bound on the nodes of a graph
          MaxReferences  \* bound on the references of a node

ASSUME KernelAssumption == MaxNodes \in Nat /\ MaxReferences \in Nat

VARIABLES
    count,       \* how many nodes there are; the next id
    parents,     \* node -> the nodes that contain it
    contains,    \* node -> the nodes it contains
    references,  \* node -> the nodes it refers to
    pc,          \* "idle", or the loop the running link call is in
    edge,        \* [parent, child] of that call
    seen,        \* nodes that have been on the stack
    stack,
    budget,      \* how many nodes may still be popped
    cur,         \* the popped node whose parents are pushed
    next,        \* the position in its parent list
    answer       \* what the last link call returned

graphVars == <<count, parents, contains, references>>
walkVars == <<edge, seen, stack, budget, cur, next>>
kernelVars == <<graphVars, walkVars, pc, answer>>

Ids == 0..(MaxNodes - 1)
Nodes == 0..(count - 1)

In(x, seq) == \E i \in 1..Len(seq) : seq[i] = x
Last(seq) == seq[Len(seq)]
Front(seq) == SubSeq(seq, 1, Len(seq) - 1)

-----------------------------------------------------------------------------
\* The lists of no nodes.
NoLists == [n \in {} |-> <<>>]

KernelInit ==
    /\ count = 0
    /\ parents = NoLists /\ contains = NoLists /\ references = NoLists
    /\ pc = "idle" /\ answer = "none"
    /\ edge = [parent |-> 0, child |-> 0]
    /\ seen = {} /\ stack = <<>> /\ budget = 0 /\ cur = 0 /\ next = 1

\* A node without edges under the next id.
WithNode(lists) == [n \in 0..count |-> IF n < count THEN lists[n] ELSE <<>>]

AddNode ==
    /\ pc = "idle"
    /\ count < MaxNodes
    /\ count' = count + 1
    /\ parents' = WithNode(parents)
    /\ contains' = WithNode(contains)
    /\ references' = WithNode(references)
    /\ answer' = "none"
    /\ UNCHANGED <<pc, walkVars>>

\* reference: a shared edge, recorded once.
Reference(from, to) ==
    /\ pc = "idle"
    /\ {from, to} \subseteq Nodes
    /\ Len(references[from]) < MaxReferences
    /\ references' = [references EXCEPT ![from] = IF In(to, @) THEN @ ELSE Append(@, to)]
    /\ answer' = "none"
    /\ UNCHANGED <<count, parents, contains, pc, walkVars>>

\* The head of link: foreign ids and a node itself are refused, an edge that is
\* recorded already is a success; for any other the walk starts at the parent.
CallLink(parent, child) ==
    /\ pc = "idle"
    /\ edge' = [parent |-> parent, child |-> child]
    /\ IF {parent, child} \subseteq Nodes /\ parent # child /\ ~In(parent, parents[child])
       THEN /\ pc' = "pop"
            /\ seen' = {parent} /\ stack' = <<parent>> /\ budget' = count + 1
            /\ answer' = "none"
       ELSE /\ answer' = IF {parent, child} \subseteq Nodes /\ parent # child
                         THEN "linked" ELSE "refused"
            /\ UNCHANGED <<pc, seen, stack, budget>>
    /\ UNCHANGED <<graphVars, cur, next>>

\* What the walk kept is gone when it returns.
WalkOver == seen' = {} /\ stack' = <<>> /\ budget' = 0 /\ cur' = 0 /\ next' = 1

\* The child is an ancestor of the parent: the edge would close a cycle.
PopChild ==
    /\ pc = "pop" /\ budget > 0 /\ stack # <<>>
    /\ Last(stack) = edge.child
    /\ pc' = "idle" /\ answer' = "refused"
    /\ WalkOver
    /\ UNCHANGED <<graphVars, edge>>

PopOther ==
    /\ pc = "pop" /\ budget > 0 /\ stack # <<>>
    /\ Last(stack) # edge.child
    /\ pc' = "parents"
    /\ cur' = Last(stack) /\ next' = 1
    /\ stack' = Front(stack) /\ budget' = budget - 1
    /\ UNCHANGED <<graphVars, edge, seen, answer>>

\* Mutant: marking is left to the pop.
PushParentUnmarked ==
    /\ pc = "parents" /\ next <= Len(parents[cur])
    /\ next' = next + 1
    /\ stack' = IF parents[cur][next] \in seen THEN stack ELSE Append(stack, parents[cur][next])
    /\ UNCHANGED <<graphVars, pc, edge, seen, budget, cur, answer>>

\* Mutant: only the first parent is followed.
PushFirstParent ==
    /\ pc = "parents" /\ next <= Len(parents[cur])
    /\ LET p == parents[cur][next]
       IN  IF p \in seen \/ next > 1 THEN UNCHANGED <<seen, stack>>
           ELSE seen' = seen \cup {p} /\ stack' = Append(stack, p)
    /\ next' = next + 1
    /\ UNCHANGED <<graphVars, pc, edge, budget, cur, answer>>

PushParent ==
    /\ pc = "parents" /\ next <= Len(parents[cur])
    /\ LET p == parents[cur][next]
       IN  IF p \in seen THEN UNCHANGED <<seen, stack>>
           ELSE seen' = seen \cup {p} /\ stack' = Append(stack, p)
    /\ next' = next + 1
    /\ UNCHANGED <<graphVars, pc, edge, budget, cur, answer>>

ParentsPushed ==
    /\ pc = "parents" /\ next > Len(parents[cur])
    /\ pc' = "pop"
    /\ UNCHANGED <<graphVars, walkVars, answer>>

\* The walk ended without the child, or ran out of its budget: the edge is
\* recorded at both ends.
Record ==
    /\ pc = "pop" /\ (stack = <<>> \/ budget = 0)
    /\ parents' = [parents EXCEPT ![edge.child] = Append(@, edge.parent)]
    /\ contains' = [contains EXCEPT ![edge.parent] = Append(@, edge.child)]
    /\ pc' = "idle" /\ answer' = "linked"
    /\ WalkOver
    /\ UNCHANGED <<count, references, edge>>

\* The steps of a running link call.
LinkStep == PopChild \/ PopOther \/ PushParent \/ ParentsPushed \/ Record

KernelNext ==
    \/ AddNode
    \/ \E from, to \in Ids : Reference(from, to)
    \/ \E parent, child \in Ids : CallLink(parent, child)
    \/ LinkStep

\* A client that calls the kernel in any order.
KernelSpec == KernelInit /\ [][KernelNext]_kernelVars

-----------------------------------------------------------------------------
(* Properties. *)

Lists == [Nodes -> Seq(Nodes)]

KernelTypeOK ==
    /\ count \in 0..MaxNodes
    /\ parents \in Lists /\ contains \in Lists /\ references \in Lists
    /\ pc \in {"idle", "pop", "parents"}
    /\ answer \in {"none", "linked", "refused"}
    /\ edge \in [parent : Nat, child : Nat]
    /\ budget \in Nat /\ cur \in Nat /\ next \in Nat \ {0}
    /\ pc # "idle" =>
          /\ {edge.parent, edge.child} \subseteq Nodes
          /\ seen \subseteq Nodes
          /\ stack \in Seq(seen)
    /\ pc = "parents" => cur \in seen /\ next <= Len(parents[cur]) + 1

\* check_invariants: both ends record an edge, once, and no node contains itself.
WellFormed ==
    \A m, n \in Nodes :
        /\ In(m, parents[n]) <=> In(n, contains[m])
        /\ In(m, parents[n]) => m # n

\* No set of nodes has a parent within the set for each of its nodes: the
\* containment relation has no cycle.
Acyclic ==
    \A S \in SUBSET Nodes : S # {} => \E n \in S : \A m \in S : ~In(m, parents[n])

\* A set that holds the parents of its members.
Closed(S) == \A n \in S : \A m \in Nodes : In(m, parents[n]) => m \in S

\* The nodes reached from n through parents, n included.
IsAncestor(a, n) == \A S \in SUBSET Nodes : n \in S /\ Closed(S) => a \in S

\* The budget of pops never cuts a walk short, so no edge goes unchecked.
BudgetSuffices == pc = "pop" /\ stack # <<>> => budget > 0

\* link refuses an edge between two nodes exactly when it would close a cycle.
RefusesExactlyCycles ==
    [][/\ PopChild => IsAncestor(edge.child, edge.parent)
       /\ Record => ~IsAncestor(edge.child, edge.parent)]_kernelVars
=============================================================================
