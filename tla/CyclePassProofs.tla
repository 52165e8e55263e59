--------------------------- MODULE CyclePassProofs ---------------------------
(***************************************************************************)
(* What TLAPS proves of the graph kernel, for graphs of any size: the walk *)
(* of link finds the child among the ancestors of the parent exactly when  *)
(* it is one, its budget is never what ends it, and so the containment     *)
(* relation never has a cycle; and of the inheritance passes over it, for  *)
(* every compilation: a pass that ends reports a ring exactly when the     *)
(* declarations' extends relation has a cycle, and what it reports is a    *)
(* cycle of that relation.                                                 *)
(***************************************************************************)
EXTENDS CyclePass, FiniteSetTheorems, SequenceTheorems, WellFoundedInduction, TLAPS

-----------------------------------------------------------------------------
(* The invariant of the walk. *)

\* The walk only marks what every closed set around the parent holds.
SeenIsReached ==
    \A S \in SUBSET Nodes : edge.parent \in S /\ Closed(S) => seen \subseteq S

\* A marked node waits on the stack, is the one in hand, or is done with: it is
\* not the child, and its parents are marked.
Explored(n) == n # edge.child /\ \A m \in Nodes : In(m, parents[n]) => m \in seen

SeenIsHandled ==
    \A n \in seen : In(n, stack) \/ (pc = "parents" /\ n = cur) \/ Explored(n)

\* The parents of the node in hand are marked up to the position in its list.
HandIsMarked ==
    pc = "parents" => cur # edge.child /\ \A i \in 1..(next - 1) : parents[cur][i] \in seen

\* Every pop was paid for by a mark.
PopsArePaid == budget + Cardinality(seen) = count + 1 + Len(stack)

WalkInv ==
    pc # "idle" =>
        /\ edge.parent # edge.child
        /\ edge.parent \in seen
        /\ SeenIsReached /\ SeenIsHandled /\ HandIsMarked /\ PopsArePaid

KInv == KernelTypeOK /\ WellFormed /\ Acyclic /\ WalkInv

-----------------------------------------------------------------------------
(* Sequences. *)

LEMMA AppendIn ==
    ASSUME NEW S, NEW s \in Seq(S), NEW x \in S, NEW y
    PROVE  In(y, Append(s, x)) <=> In(y, s) \/ y = x
BY DEF In

LEMMA LastFront ==
    ASSUME NEW S, NEW s \in Seq(S), s # <<>>
    PROVE  /\ Last(s) \in S
           /\ Front(s) \in Seq(S)
           /\ Len(Front(s)) = Len(s) - 1
           /\ \A i \in 1..(Len(s) - 1) : Front(s)[i] = s[i]
           /\ \A y : In(y, s) <=> y = Last(s) \/ In(y, Front(s))
<1>1. Len(s) \in Nat /\ Len(s) >= 1
  OBVIOUS
<1>2. Last(s) \in S
  BY <1>1 DEF Last
<1>3. /\ Front(s) \in Seq(S) /\ Len(Front(s)) = Len(s) - 1
      /\ \A i \in 1..(Len(s) - 1) : Front(s)[i] = s[i]
  <2>. DEFINE n == Len(s) - 1
              t == SubSeq(s, 1, n)
  <2>1. n \in Int /\ \A i \in 1..n : s[i] \in S
    BY <1>1
  <2>2. Front(s) = t
    BY DEF Front
  <2>3. /\ t \in Seq(S)
        /\ Len(t) = IF 1 <= n THEN n - 1 + 1 ELSE 0
        /\ \A i \in 1..(n - 1 + 1) : t[i] = s[1 + i - 1]
    BY <2>1, SubSeqProperties
  <2>4. n \in Nat
    BY <1>1
  <2>. HIDE DEF t, n
  <2>5. Len(t) = n /\ \A i \in 1..n : t[i] = s[i]
    <3>1. \A i \in 1..n : i \in Int /\ 1 + i - 1 = i
      OBVIOUS
    <3>2. n - 1 + 1 = n
      BY <2>4
    <3>. QED
      BY <2>3, <2>4, <3>1, <3>2
  <2>. QED
    BY <2>2, <2>3, <2>5 DEF n
<1>4. ASSUME NEW y
      PROVE  In(y, s) <=> y = Last(s) \/ In(y, Front(s))
  BY <1>1, <1>3 DEF In, Last
<1>. QED
  BY <1>2, <1>3, <1>4

LEMMA NothingIn == \A y : ~In(y, <<>>)
BY DEF In

-----------------------------------------------------------------------------
(* Graphs. *)

\* The nodes are finitely many, and a set of them is no larger.
LEMMA NodesFinite ==
    ASSUME count \in Nat, NEW S \in SUBSET Nodes
    PROVE  IsFiniteSet(S) /\ Cardinality(S) \in Nat /\ Cardinality(S) <= count
<1>1. IsFiniteSet(Nodes) /\ Cardinality(Nodes) = count
  BY FS_Interval DEF Nodes
<1>. QED
  BY <1>1, FS_Subset, FS_CardinalityType

\* What a finished walk has marked is closed, and holds the parent but not the child.
LEMMA WalkDone ==
    ASSUME KInv, pc = "pop", stack = <<>>
    PROVE  seen \in SUBSET Nodes /\ Closed(seen) /\ edge.parent \in seen /\ edge.child \notin seen
<1>1. \A n \in seen : Explored(n)
  BY NothingIn DEF KInv, WalkInv, SeenIsHandled
<1>. QED
  BY <1>1 DEF KInv, KernelTypeOK, WalkInv, Explored, Closed

\* The budget never ends the walk.
LEMMA BudgetIsLeft ==
    ASSUME KInv, pc # "idle"
    PROVE  budget > Len(stack)
<1>1. seen \in SUBSET Nodes /\ count \in Nat /\ Len(stack) \in Nat /\ budget \in Nat
  BY DEF KInv, KernelTypeOK
<1>2. Cardinality(seen) \in Nat /\ Cardinality(seen) <= count
  BY <1>1, NodesFinite
<1>3. budget + Cardinality(seen) = count + 1 + Len(stack)
  BY DEF KInv, WalkInv, PopsArePaid
<1>. QED
  BY <1>1, <1>2, <1>3

\* A child that is popped was reached.
LEMMA PopChildIsAncestor ==
    ASSUME KInv, PopChild
    PROVE  IsAncestor(edge.child, edge.parent)
<1>1. stack \in Seq(seen) /\ stack # <<>> /\ Last(stack) = edge.child /\ SeenIsReached
  BY DEF KInv, KernelTypeOK, WalkInv, PopChild
<1>2. edge.child \in seen
  BY <1>1, LastFront
<1>. QED
  BY <1>1, <1>2 DEF IsAncestor, SeenIsReached

-----------------------------------------------------------------------------
(* The invariant holds at first, and every step keeps it. *)

LEMMA InitKInv == KernelInit => KInv
<1>. SUFFICES ASSUME KernelInit PROVE KInv
  OBVIOUS
<1>. USE DEF KernelInit
<1>1. Nodes = {}
  BY DEF Nodes
<1>2. NoLists \in Lists
  BY <1>1 DEF NoLists, Lists
<1>3. KernelTypeOK
  BY <1>2, KernelAssumption DEF KernelTypeOK
<1>. QED
  BY <1>1, <1>3 DEF KInv, WellFormed, Acyclic, WalkInv

LEMMA AddNodeKeepsKInv ==
    ASSUME KInv, AddNode
    PROVE  KInv'
<1>. USE DEF KInv, AddNode
<1>1. count \in Nat /\ Nodes' = 0..count /\ Nodes = 0..(count - 1) /\ Nodes \subseteq Nodes'
  BY KernelAssumption DEF KernelTypeOK, Nodes
<1>2. ASSUME NEW lists \in Lists
      PROVE  WithNode(lists) \in Lists'
  <2>1. \A n \in 0..count : n < count => n \in Nodes
    BY <1>1
  <2>2. \A n \in 0..count : n < count => lists[n] \in Seq(0..count)
    BY <1>1, <2>1 DEF Lists
  <2>3. <<>> \in Seq(0..count)
    OBVIOUS
  <2>4. WithNode(lists) \in [0..count -> Seq(0..count)]
    BY <2>2, <2>3 DEF WithNode
  <2>5. Lists' = [0..count -> Seq(0..count)]
    BY <1>1 DEF Lists
  <2>. QED
    BY <2>4, <2>5
<1>3. KernelTypeOK'
  <2>1. parents' \in Lists' /\ contains' \in Lists' /\ references' \in Lists'
    BY <1>2 DEF KernelTypeOK
  <2>2. count' \in 0..MaxNodes
    BY <1>1, KernelAssumption DEF KernelTypeOK
  <2>. QED
    BY <2>1, <2>2 DEF KernelTypeOK, walkVars
<1>4. ASSUME NEW n \in Nodes'
      PROVE  IF n = count THEN parents'[n] = <<>> /\ contains'[n] = <<>>
             ELSE n \in Nodes /\ parents'[n] = parents[n] /\ contains'[n] = contains[n]
  BY <1>1 DEF WithNode
<1>5. ASSUME NEW m \in Nodes
      PROVE  ~In(count, parents[m]) /\ ~In(count, contains[m])
  <2>1. parents[m] \in Seq(Nodes) /\ contains[m] \in Seq(Nodes)
    BY DEF KernelTypeOK, Lists
  <2>2. count \notin Nodes
    BY <1>1
  <2>. QED
    BY <2>1, <2>2 DEF In
<1>6. count \notin Nodes
  BY <1>1
<1>7. WellFormed'
  <2>. SUFFICES ASSUME NEW m \in Nodes', NEW n \in Nodes'
                PROVE  /\ In(m, parents'[n]) <=> In(n, contains'[m])
                       /\ In(m, parents'[n]) => m # n
    BY DEF WellFormed, In
  <2>1. CASE n = count
    BY <1>4, <1>5, <2>1, NothingIn
  <2>2. CASE n # count /\ m = count
    BY <1>4, <1>5, <2>2, NothingIn
  <2>3. CASE n # count /\ m # count
    BY <1>4, <2>3 DEF WellFormed
  <2>. QED
    BY <2>1, <2>2, <2>3
<1>8. Acyclic'
  <2>. SUFFICES ASSUME NEW S \in SUBSET Nodes', S # {}
                PROVE  \E n \in S : \A m \in S : ~In(m, parents'[n])
    BY DEF Acyclic, In
  <2>1. CASE count \in S
    BY <1>4, <2>1, NothingIn
  <2>2. CASE count \notin S
    <3>1. S \in SUBSET Nodes /\ \A n \in S : parents'[n] = parents[n]
      BY <1>4, <2>2
    <3>2. PICK n \in S : \A m \in S : ~In(m, parents[n])
      BY <3>1 DEF Acyclic
    <3>. QED
      BY <3>1, <3>2
  <2>. QED
    BY <2>1, <2>2
<1>. QED
  BY <1>3, <1>7, <1>8 DEF WalkInv

\* Steps that leave the containment edges alone keep what is said of them.
LEMMA SameEdges ==
    ASSUME KInv, UNCHANGED <<count, parents, contains>>
    PROVE  WellFormed' /\ Acyclic' /\ Nodes' = Nodes /\ Lists' = Lists
BY DEF KInv, WellFormed, Acyclic, Nodes, Lists, In

LEMMA ReferenceKeepsKInv ==
    ASSUME KInv, NEW from \in Ids, NEW to \in Ids, Reference(from, to)
    PROVE  KInv'
<1>. USE DEF KInv, Reference
<1>1. WellFormed' /\ Acyclic' /\ Nodes' = Nodes /\ Lists' = Lists
  BY SameEdges
<1>2. references' \in Lists
  <2>1. references \in [Nodes -> Seq(Nodes)] /\ from \in Nodes /\ to \in Nodes
    BY DEF KernelTypeOK, Lists
  <2>2. Append(references[from], to) \in Seq(Nodes) /\ references[from] \in Seq(Nodes)
    BY <2>1
  <2>. QED
    BY <2>1, <2>2 DEF Lists
<1>3. KernelTypeOK'
  BY <1>1, <1>2 DEF KernelTypeOK, walkVars
<1>. QED
  BY <1>1, <1>3 DEF WalkInv

LEMMA CallLinkKeepsKInv ==
    ASSUME KInv, NEW parent \in Ids, NEW child \in Ids, CallLink(parent, child)
    PROVE  KInv'
<1>. USE DEF KInv, CallLink, graphVars
<1>1. WellFormed' /\ Acyclic' /\ Nodes' = Nodes /\ Lists' = Lists
  BY SameEdges
<1>2. parent \in Nat /\ child \in Nat /\ count \in Nat
  BY KernelAssumption DEF Ids, KernelTypeOK
<1>3. CASE {parent, child} \subseteq Nodes /\ parent # child /\ ~In(parent, parents[child])
  <2>1. /\ pc' = "pop" /\ seen' = {parent} /\ stack' = <<parent>> /\ budget' = count + 1
        /\ edge' = [parent |-> parent, child |-> child] /\ answer' = "none"
    BY <1>3
  <2>2. KernelTypeOK'
    <3>1. stack' \in Seq(seen')
      BY <2>1
    <3>2. edge' \in [parent : Nat, child : Nat] /\ edge'.parent = parent /\ edge'.child = child
      BY <1>2, <2>1
    <3>. QED
      BY <1>1, <1>2, <1>3, <2>1, <3>1, <3>2 DEF KernelTypeOK
  <2>3. PopsArePaid'
    <3>1. Cardinality({parent}) = 1 /\ Len(<<parent>>) = 1
      BY FS_Singleton
    <3>. QED
      BY <1>2, <2>1, <3>1 DEF PopsArePaid
  <2>4. SeenIsHandled'
    BY <2>1 DEF SeenIsHandled, In
  <2>5. SeenIsReached' /\ HandIsMarked'
    BY <2>1 DEF SeenIsReached, HandIsMarked
  <2>. QED
    BY <1>1, <1>3, <2>1, <2>2, <2>3, <2>4, <2>5 DEF WalkInv
<1>4. CASE ~({parent, child} \subseteq Nodes /\ parent # child /\ ~In(parent, parents[child]))
  <2>1. pc' = "idle" /\ answer' \in {"linked", "refused"} /\ UNCHANGED <<seen, stack, budget, cur, next>>
    BY <1>4
  <2>. QED
    BY <1>1, <1>2, <2>1 DEF KernelTypeOK, WalkInv
<1>. QED
  BY <1>3, <1>4

LEMMA PopChildKeepsKInv ==
    ASSUME KInv, PopChild
    PROVE  KInv'
<1>1. WellFormed' /\ Acyclic' /\ Nodes' = Nodes /\ Lists' = Lists
  BY SameEdges DEF PopChild, graphVars
<1>. QED
  BY <1>1 DEF KInv, PopChild, WalkOver, graphVars, KernelTypeOK, WalkInv

LEMMA PopOtherKeepsKInv ==
    ASSUME KInv, PopOther
    PROVE  KInv'
<1>. USE DEF KInv, PopOther, graphVars
<1>1. WellFormed' /\ Acyclic' /\ Nodes' = Nodes /\ Lists' = Lists
  BY SameEdges
<1>2. /\ seen \in SUBSET Nodes /\ stack \in Seq(seen) /\ count \in Nat /\ budget \in Nat
      /\ edge.parent # edge.child /\ edge.parent \in seen
      /\ SeenIsReached /\ SeenIsHandled /\ PopsArePaid
  BY DEF KernelTypeOK, WalkInv
<1>3. /\ cur' \in seen /\ stack' \in Seq(seen) /\ Len(stack') = Len(stack) - 1
      /\ \A y : In(y, stack) <=> y = cur' \/ In(y, stack')
  BY <1>2, LastFront
<1>4. cur' \in Nodes /\ parents[cur'] \in Seq(Nodes)
  BY <1>2, <1>3 DEF KernelTypeOK, Lists
<1>5. KernelTypeOK'
  <2>1. budget' \in Nat /\ cur' \in Nat /\ next' \in Nat \ {0}
    BY <1>2, <1>4 DEF Nodes
  <2>2. next' <= Len(parents[cur']) + 1
    BY <1>4
  <2>. QED
    BY <1>1, <1>3, <2>1, <2>2 DEF KernelTypeOK
<1>6. SeenIsHandled'
  <2>. SUFFICES ASSUME NEW n \in seen
                PROVE  In(n, stack') \/ n = cur' \/ Explored(n)'
    BY DEF SeenIsHandled, In
  <2>1. Explored(n) => Explored(n)'
    BY <1>1 DEF Explored, In
  <2>2. In(n, stack) \/ Explored(n)
    BY <1>2 DEF SeenIsHandled
  <2>. QED
    BY <1>3, <2>1, <2>2
<1>7. SeenIsReached' /\ HandIsMarked'
  BY <1>1, <1>2 DEF SeenIsReached, HandIsMarked, Closed, In
<1>8. PopsArePaid'
  <2>1. Cardinality(seen) \in Nat /\ Len(stack) \in Nat
    BY <1>2, NodesFinite
  <2>2. seen' = seen /\ count' = count /\ budget' = budget - 1
    OBVIOUS
  <2>3. budget + Cardinality(seen) = count + 1 + Len(stack)
    BY <1>2 DEF PopsArePaid
  <2>4. budget - 1 + Cardinality(seen) = count + 1 + (Len(stack) - 1)
    BY <1>2, <2>1, <2>3
  <2>. QED
    BY <1>3, <2>2, <2>4 DEF PopsArePaid
<1>. QED
  BY <1>1, <1>2, <1>5, <1>6, <1>7, <1>8 DEF WalkInv

LEMMA PushParentKeepsKInv ==
    ASSUME KInv, PushParent
    PROVE  KInv'
<1>. USE DEF KInv, graphVars
<1>. DEFINE p == parents[cur][next]
<1>1. WellFormed' /\ Acyclic' /\ Nodes' = Nodes /\ Lists' = Lists
  BY SameEdges DEF PushParent
<1>2. /\ seen \in SUBSET Nodes /\ stack \in Seq(seen) /\ count \in Nat /\ budget \in Nat
      /\ cur \in seen /\ cur \in Nodes /\ parents[cur] \in Seq(Nodes) /\ next \in Nat \ {0}
      /\ pc = "parents" /\ next <= Len(parents[cur])
  BY DEF KernelTypeOK, Lists, PushParent
<1>3. p \in Nodes /\ In(p, parents[cur]) /\ next' = next + 1 /\ next' \in Nat \ {0}
  BY <1>2 DEF In, PushParent
<1>4. UNCHANGED <<count, parents, contains, references, pc, edge, budget, cur, answer>>
  BY DEF PushParent
<1>5. /\ edge.parent # edge.child /\ edge.parent \in seen
      /\ SeenIsReached /\ SeenIsHandled /\ HandIsMarked /\ PopsArePaid
  BY <1>2 DEF WalkInv
<1>6. HandIsMarked' /\ seen \subseteq seen'
  <2>1. p \in seen' /\ seen \subseteq seen'
    BY DEF PushParent
  <2>2. \A i \in 1..next : i = next \/ i \in 1..(next - 1)
    BY <1>2
  <2>. QED
    BY <1>2, <1>3, <1>4, <1>5, <2>1, <2>2 DEF HandIsMarked
<1>7. ASSUME NEW n, Explored(n)
      PROVE  Explored(n)'
  BY <1>1, <1>4, <1>6, <1>7 DEF Explored, In
<1>8. ASSUME NEW S \in SUBSET Nodes, edge.parent \in S, Closed(S)
      PROVE  seen \subseteq S /\ p \in S
  <2>1. seen \subseteq S
    BY <1>5, <1>8 DEF SeenIsReached
  <2>. QED
    BY <1>2, <1>3, <1>8, <2>1 DEF Closed
<1>9. \A S : Closed(S)' => Closed(S)
  BY <1>1, <1>4 DEF Closed, In
<1>10. CASE p \in seen
  <2>1. seen' = seen /\ stack' = stack
    BY <1>10 DEF PushParent
  <2>2. KernelTypeOK'
    BY <1>1, <1>2, <1>3, <1>4, <2>1 DEF KernelTypeOK
  <2>3. SeenIsHandled'
    BY <1>4, <1>5, <1>7, <2>1 DEF SeenIsHandled, In
  <2>4. SeenIsReached' /\ PopsArePaid'
    BY <1>1, <1>4, <1>5, <1>9, <2>1 DEF SeenIsReached, PopsArePaid
  <2>. QED
    BY <1>1, <1>4, <1>5, <1>6, <2>2, <2>3, <2>4 DEF WalkInv
<1>11. CASE p \notin seen
  <2>1. seen' = seen \cup {p} /\ stack' = Append(stack, p)
    BY <1>11 DEF PushParent
  <2>2. stack' \in Seq(seen') /\ Len(stack') = Len(stack) + 1 /\ Len(stack) \in Nat
    BY <1>2, <2>1
  <2>3. KernelTypeOK'
    <3>1. seen' \in SUBSET Nodes /\ cur \in seen'
      BY <1>2, <1>3, <2>1
    <3>2. next' <= Len(parents[cur]) + 1
      BY <1>2, <1>3
    <3>. HIDE DEF p
    <3>. QED
      BY <1>1, <1>2, <1>3, <1>4, <2>2, <3>1, <3>2 DEF KernelTypeOK
  <2>4. SeenIsHandled'
    <3>1. \A y : In(y, stack') <=> In(y, stack) \/ y = p
      <4>1. stack \in Seq(Nodes)
        BY <1>2
      <4>. HIDE DEF p
      <4>. QED
        BY <1>3, <2>1, <4>1, AppendIn
    <3>. SUFFICES ASSUME NEW n \in seen'
                  PROVE  In(n, stack') \/ n = cur \/ Explored(n)'
      BY <1>2, <1>4 DEF SeenIsHandled, In
    <3>2. n = p \/ In(n, stack) \/ n = cur \/ Explored(n)
      BY <1>5, <2>1 DEF SeenIsHandled
    <3>. QED
      BY <1>7, <3>1, <3>2
  <2>5. SeenIsReached'
    BY <1>1, <1>4, <1>8, <1>9, <2>1 DEF SeenIsReached
  <2>6. PopsArePaid'
    <3>1. IsFiniteSet(seen) /\ Cardinality(seen) \in Nat
      BY <1>2, NodesFinite
    <3>2. Cardinality(seen') = Cardinality(seen) + 1
      <4>. HIDE DEF p
      <4>. QED
        BY <1>11, <2>1, <3>1, FS_AddElement
    <3>3. budget + Cardinality(seen) = count + 1 + Len(stack)
      BY <1>5 DEF PopsArePaid
    <3>4. budget + (Cardinality(seen) + 1) = count + 1 + (Len(stack) + 1)
      BY <1>2, <2>2, <3>1, <3>3
    <3>. QED
      BY <1>4, <2>2, <3>2, <3>4 DEF PopsArePaid
  <2>. QED
    BY <1>1, <1>4, <1>5, <1>6, <2>1, <2>3, <2>4, <2>5, <2>6 DEF WalkInv
<1>. QED
  BY <1>10, <1>11

LEMMA ParentsPushedKeepsKInv ==
    ASSUME KInv, ParentsPushed
    PROVE  KInv'
<1>. USE DEF KInv, ParentsPushed, graphVars, walkVars
<1>1. WellFormed' /\ Acyclic' /\ Nodes' = Nodes /\ Lists' = Lists
  BY SameEdges
<1>2. /\ cur \in seen /\ cur \in Nodes /\ parents[cur] \in Seq(Nodes) /\ next \in Nat \ {0}
      /\ next > Len(parents[cur])
      /\ edge.parent # edge.child /\ edge.parent \in seen
      /\ SeenIsReached /\ SeenIsHandled /\ HandIsMarked /\ PopsArePaid
  BY DEF KernelTypeOK, Lists, WalkInv
<1>3. KernelTypeOK'
  BY <1>1 DEF KernelTypeOK
<1>4. Explored(cur)
  <2>1. cur # edge.child /\ \A i \in 1..(next - 1) : parents[cur][i] \in seen
    BY <1>2 DEF HandIsMarked
  <2>2. \A i \in 1..Len(parents[cur]) : i \in 1..(next - 1)
    BY <1>2
  <2>. QED
    BY <2>1, <2>2 DEF Explored, In
<1>5. SeenIsHandled'
  BY <1>1, <1>2, <1>4 DEF SeenIsHandled, Explored, In
<1>6. SeenIsReached' /\ HandIsMarked' /\ PopsArePaid'
  BY <1>1, <1>2 DEF SeenIsReached, HandIsMarked, PopsArePaid, Closed, In
<1>. QED
  BY <1>1, <1>2, <1>3, <1>5, <1>6 DEF WalkInv

LEMMA RecordKeepsKInv ==
    ASSUME KInv, Record
    PROVE  KInv'
<1>. USE DEF KInv
<1>. DEFINE c == edge.child
            p == edge.parent
<1>1. /\ pc = "pop" /\ stack = <<>>
      /\ parents' = [parents EXCEPT ![c] = Append(@, p)]
      /\ contains' = [contains EXCEPT ![p] = Append(@, c)]
      /\ pc' = "idle" /\ answer' = "linked" /\ WalkOver
      /\ UNCHANGED <<count, references, edge>>
  <2>1. pc = "pop" /\ (stack = <<>> \/ budget = 0)
    BY DEF Record
  <2>2. Len(stack) \in Nat /\ budget > Len(stack)
    BY <2>1, BudgetIsLeft DEF KernelTypeOK
  <2>3. stack = <<>>
    BY <2>1, <2>2
  <2>. QED
    BY <2>3 DEF Record
<1>2. p \in Nodes /\ c \in Nodes /\ p # c
  BY <1>1 DEF KernelTypeOK, WalkInv
<1>3. parents \in [Nodes -> Seq(Nodes)] /\ contains \in [Nodes -> Seq(Nodes)]
  BY DEF KernelTypeOK, Lists
<1>4. seen \in SUBSET Nodes /\ Closed(seen) /\ p \in seen /\ c \notin seen
  BY <1>1, WalkDone
<1>5. Nodes' = Nodes /\ Lists' = Lists
  BY <1>1 DEF Nodes, Lists
<1>. HIDE DEF c, p
<1>6. KernelTypeOK'
  <2>1. Append(parents[c], p) \in Seq(Nodes) /\ Append(contains[p], c) \in Seq(Nodes)
    BY <1>2, <1>3
  <2>2. parents' \in Lists /\ contains' \in Lists
    BY <1>1, <1>3, <2>1 DEF Lists
  <2>. QED
    BY <1>1, <1>5, <2>2 DEF KernelTypeOK, WalkOver
<1>7. ASSUME NEW n \in Nodes, NEW m
      PROVE  /\ In(m, parents'[n]) <=> In(m, parents[n]) \/ (n = c /\ m = p)
             /\ In(m, contains'[n]) <=> In(m, contains[n]) \/ (n = p /\ m = c)
  <2>1. /\ In(m, Append(parents[n], p)) <=> In(m, parents[n]) \/ m = p
        /\ In(m, Append(contains[n], c)) <=> In(m, contains[n]) \/ m = c
    BY <1>2, <1>3, AppendIn
  <2>2. /\ parents'[n] = IF n = c THEN Append(parents[n], p) ELSE parents[n]
        /\ contains'[n] = IF n = p THEN Append(contains[n], c) ELSE contains[n]
    BY <1>1, <1>3
  <2>. QED
    BY <2>1, <2>2
<1>8. WellFormed'
  <2>. SUFFICES ASSUME NEW m \in Nodes, NEW n \in Nodes
                PROVE  /\ In(m, parents'[n]) <=> In(n, contains'[m])
                       /\ In(m, parents'[n]) => m # n
    BY <1>5 DEF WellFormed, In
  <2>. QED
    BY <1>2, <1>7 DEF WellFormed
<1>9. Acyclic'
  <2>. SUFFICES ASSUME NEW S \in SUBSET Nodes, S # {}
                PROVE  \E n \in S : \A m \in S : ~In(m, parents'[n])
    BY <1>5 DEF Acyclic, In
  \* The edge only matters to a set that holds both its ends; the part of such a
  \* set that the walk has marked has a member without parents in that part,
  \* which is not the child, and whose parents are all marked.
  <2>1. CASE ~(c \in S /\ p \in S)
    <3>1. PICK n \in S : \A m \in S : ~In(m, parents[n])
      BY DEF Acyclic
    <3>. QED
      BY <1>7, <2>1, <3>1
  <2>2. CASE c \in S /\ p \in S
    <3>1. PICK n \in S \cap seen : \A m \in S \cap seen : ~In(m, parents[n])
      BY <1>4, <2>2 DEF Acyclic
    <3>2. \A m \in S : ~In(m, parents[n])
      BY <1>4, <3>1 DEF Closed
    <3>3. n # c
      BY <1>4, <3>1
    <3>. QED
      BY <1>7, <3>1, <3>2, <3>3
  <2>. QED
    BY <2>1, <2>2
<1>. QED
  BY <1>1, <1>6, <1>8, <1>9 DEF WalkInv

LEMMA StutterKeepsKInv ==
    ASSUME KInv, UNCHANGED kernelVars
    PROVE  KInv'
<1>. USE DEF kernelVars, graphVars, walkVars
<1>1. WellFormed' /\ Acyclic' /\ Nodes' = Nodes /\ Lists' = Lists
  BY SameEdges
<1>2. KernelTypeOK'
  BY <1>1 DEF KInv, KernelTypeOK
<1>3. WalkInv'
  BY <1>1 DEF KInv, WalkInv, SeenIsReached, SeenIsHandled, HandIsMarked, PopsArePaid, Explored, Closed, In
<1>. QED
  BY <1>1, <1>2, <1>3 DEF KInv

LEMMA StepKeepsKInv ==
    ASSUME KInv, [KernelNext]_kernelVars
    PROVE  KInv'
<1>1. CASE AddNode
  BY <1>1, AddNodeKeepsKInv
<1>2. CASE \E from, to \in Ids : Reference(from, to)
  BY <1>2, ReferenceKeepsKInv
<1>3. CASE \E parent, child \in Ids : CallLink(parent, child)
  BY <1>3, CallLinkKeepsKInv
<1>4. CASE LinkStep
  BY <1>4, PopChildKeepsKInv, PopOtherKeepsKInv, PushParentKeepsKInv,
     ParentsPushedKeepsKInv, RecordKeepsKInv DEF LinkStep
<1>5. CASE UNCHANGED kernelVars
  BY <1>5, StutterKeepsKInv
<1>. QED
  BY <1>1, <1>2, <1>3, <1>4, <1>5 DEF KernelNext

-----------------------------------------------------------------------------
(* The theorems. *)

\* KInv is an invariant of the kernel, whatever its client calls.
THEOREM KInvHolds == KernelSpec => []KInv
<1>1. KInv /\ [KernelNext]_kernelVars => KInv'
  BY StepKeepsKInv
<1>. QED
  BY InitKInv, <1>1, PTL DEF KernelSpec

\* The kernel's types.
THEOREM KernelIsTyped == KernelSpec => []KernelTypeOK
<1>1. KInv => KernelTypeOK
  BY DEF KInv
<1>. QED
  BY KInvHolds, <1>1, PTL

\* Both ends of an edge know of it, and no node contains itself: what
\* check_invariants tests and well_formed states.
THEOREM EdgesAgree == KernelSpec => []WellFormed
<1>1. KInv => WellFormed
  BY DEF KInv
<1>. QED
  BY KInvHolds, <1>1, PTL

\* The containment relation of a graph never has a cycle (register row V3).
THEOREM NeverCyclic == KernelSpec => []Acyclic
<1>1. KInv => Acyclic
  BY DEF KInv
<1>. QED
  BY KInvHolds, <1>1, PTL

\* The budget of is_ancestor is never what ends its walk.
THEOREM BudgetNeverCuts == KernelSpec => []BudgetSuffices
<1>1. KInv => BudgetSuffices
  <2>. SUFFICES ASSUME KInv, pc = "pop", stack # <<>>
                PROVE  budget > 0
    BY DEF BudgetSuffices
  <2>1. Len(stack) \in Nat /\ budget \in Nat
    BY DEF KInv, KernelTypeOK
  <2>2. budget > Len(stack)
    BY BudgetIsLeft
  <2>. QED
    BY <2>1, <2>2
<1>. QED
  BY KInvHolds, <1>1, PTL

\* link refuses an edge exactly when the child is an ancestor of the parent:
\* the specification of is_ancestor that the register leaves open (row V7).
THEOREM RefusalsAreCycles == KernelSpec => RefusesExactlyCycles
<1>1. ASSUME KInv, PopChild
      PROVE  IsAncestor(edge.child, edge.parent)
  BY <1>1, PopChildIsAncestor
<1>2. ASSUME KInv, Record
      PROVE  ~IsAncestor(edge.child, edge.parent)
  <2>1. pc = "pop" /\ (stack = <<>> \/ budget = 0)
    BY <1>2 DEF Record
  <2>2. Len(stack) \in Nat /\ budget > Len(stack)
    BY <1>2, <2>1, BudgetIsLeft DEF KInv, KernelTypeOK
  <2>3. stack = <<>>
    BY <2>1, <2>2
  <2>4. seen \in SUBSET Nodes /\ Closed(seen) /\ edge.parent \in seen /\ edge.child \notin seen
    BY <1>2, <2>1, <2>3, WalkDone
  <2>. QED
    BY <2>4 DEF IsAncestor
<1>3. KInv => [/\ PopChild => IsAncestor(edge.child, edge.parent)
               /\ Record => ~IsAncestor(edge.child, edge.parent)]_kernelVars
  BY <1>1, <1>2
<1>. QED
  BY KInvHolds, <1>3, PTL DEF RefusesExactlyCycles

-----------------------------------------------------------------------------
(* The invariant of a pass. *)

Linking == phase \in {"links", "ring", "done"}

\* Nodes come before edges, one for each declaration.
NodesFirst ==
    /\ phase = "nodes" =>
          /\ pc = "idle" /\ answer = "none" /\ at = 1 /\ sup = 1
          /\ count <= Len(Declarations)
          /\ \A n \in Nodes : parents[n] = <<>>
    /\ Linking => count = Len(Declarations)

\* An edge of the graph is something a declaration says.
EdgesMean ==
    Linking => \A m, n \in Nodes : In(m, parents[n]) => Extends(Name(n + 1), Name(m + 1))

\* The call in hand is about the declaration and superclass that are visited.
InHand == phase = "ring" \/ (phase = "links" /\ (pc # "idle" \/ answer # "none"))

EdgeInHand ==
    InHand =>
        /\ at \in DOMAIN Declarations /\ sup \in DOMAIN Supers(at) /\ Super \in Names
        /\ edge.parent = IdOf(Super) /\ edge.child = IdOf(Name(at))

\* What the answers mean to the pass.
AnswersMean ==
    /\ phase = "ring" => pc = "idle" /\ edge.parent # edge.child
    /\ phase = "ring" \/ (phase = "links" /\ pc = "idle" /\ answer = "refused") =>
          edge.parent = edge.child \/ IsAncestor(edge.child, edge.parent)
    /\ phase = "links" /\ pc = "idle" /\ answer = "linked" =>
          In(edge.parent, parents[edge.child])

\* Everything before the visited superclass is in the graph.
Visited(i, j) == i < at \/ (i = at /\ j < sup)

AllLinked ==
    phase \in {"links", "done"} /\ report = NoRing =>
        \A i \in DOMAIN Declarations : \A j \in DOMAIN Supers(i) :
            (phase = "done" \/ Visited(i, j)) /\ Supers(i)[j] \in Names =>
                In(IdOf(Supers(i)[j]), parents[IdOf(Name(i))])

\* The search for the ring: the chain is a path from the refused parent, and a
\* node that has left it was not the child and leads nowhere new.
RingSearch ==
    phase = "ring" =>
        /\ chain \in Seq(Nodes) /\ met \in SUBSET Nodes
        /\ edge.parent \in met
        /\ chain # <<>> => chain[1] = edge.parent
        /\ \A i \in 1..(Len(chain) - 1) : In(chain[i + 1], parents[chain[i]])
        /\ \A n \in met :
              In(n, chain) \/ (n # edge.child /\ \A m \in Nodes : In(m, parents[n]) => m \in met)

Reported ==
    /\ phase # "done" => report = NoRing
    /\ report # NoRing => report \in Seq(AllNames)
    /\ RingIsCycle

PInv ==
    /\ KInv /\ input \in Inputs /\ at \in Nat \ {0} /\ sup \in Nat \ {0}
    /\ NodesFirst /\ EdgesMean /\ EdgeInHand /\ AnswersMean
    /\ AllLinked /\ RingSearch /\ Reported

-----------------------------------------------------------------------------
(* Names and ids. *)

LEMMA HasLeast ==
    ASSUME NEW T \in SUBSET Nat, T # {}
    PROVE  \E k \in T : \A l \in T : k <= l
<1>. DEFINE R == OpToRel(<, Nat)
<1>1. IsWellFoundedOn(R, Nat)
  BY NatLessThanWellFounded
<1>2. \A a, b \in Nat : a < b => <<a, b>> \in R
  BY DEF OpToRel
<1>. HIDE DEF R
<1>3. PICK k \in T : \A l \in T : ~(<<l, k>> \in R)
  BY <1>1, WFMin
<1>4. \A l \in T : ~(l < k)
  BY <1>2, <1>3
<1>5. \A l \in T : l \in Nat /\ k \in Nat
  OBVIOUS
<1>. QED
  BY <1>4, <1>5

LEMMA LastOfIsIn ==
    ASSUME NEW N \in Nat, NEW S \in SUBSET (1..N), S # {}
    PROVE  LastOf(S) \in S
<1>. DEFINE Above == {k \in Nat : \A j \in S : j <= k}
<1>1. N \in Above
  OBVIOUS
<1>2. PICK k \in Above : \A l \in Above : k <= l
  <2>. Above \in SUBSET Nat /\ Above # {}
    BY <1>1
  <2>. HIDE DEF Above
  <2>. QED
    BY HasLeast
<1>3. k \in S
  <2>. SUFFICES ASSUME k \notin S PROVE FALSE
    OBVIOUS
  <2>1. PICK s \in S : TRUE
    OBVIOUS
  <2>2. k - 1 \in Nat /\ \A j \in S : j <= k - 1
    BY <1>2, <2>1
  <2>. QED
    BY <1>2, <2>2
<1>4. \A j \in S : j <= k
  BY <1>2
<1>. QED
  BY <1>3, <1>4 DEF LastOf

\* What a compilation is made of.
LEMMA Inputs1 ==
    ASSUME input \in Inputs
    PROVE  /\ Len(Declarations) \in Nat /\ DOMAIN Declarations = 1..Len(Declarations)
           /\ \A i \in DOMAIN Declarations :
                 Name(i) \in AllNames /\ Name(i) \in Names /\ Declarations[i].extends \in Seq(AllNames)
           /\ Names \subseteq AllNames
<1>1. Declarations \in Seq([name : AllNames, extends : Seq(AllNames)])
  BY PassAssumption DEF InputOK, Declarations
<1>2. Len(Declarations) \in Nat /\ DOMAIN Declarations = 1..Len(Declarations)
  BY <1>1
<1>3. ASSUME NEW i \in DOMAIN Declarations
      PROVE  Declarations[i] \in [name : AllNames, extends : Seq(AllNames)]
  <2>. DEFINE D == Declarations
              R == [name : AllNames, extends : Seq(AllNames)]
  <2>1. D \in Seq(R) /\ i \in DOMAIN D
    BY <1>1
  <2>. HIDE DEF D, R
  <2>2. D[i] \in R
    BY <2>1
  <2>. QED
    BY <2>2 DEF D, R
<1>4. \A i \in DOMAIN Declarations : Name(i) \in AllNames /\ Declarations[i].extends \in Seq(AllNames)
  BY <1>3 DEF Name
<1>. QED
  BY <1>2, <1>4 DEF Names

LEMMA SupersAreNames ==
    ASSUME input \in Inputs, NEW i \in DOMAIN Declarations
    PROVE  Supers(i) \in Seq(AllNames)
<1>. DEFINE same == {j \in DOMAIN Declarations : Name(j) = Name(i) /\ Declarations[j].extends # <<>>}
<1>1. CASE input.pass = "classes"
  BY <1>1, Inputs1 DEF Supers
<1>2. CASE input.pass # "classes" /\ same = {}
  BY <1>2 DEF Supers
<1>3. CASE input.pass # "classes" /\ same # {}
  <2>1. same \in SUBSET (1..Len(Declarations)) /\ Len(Declarations) \in Nat
    BY Inputs1
  <2>2. LastOf(same) \in same
    BY <1>3, <2>1, LastOfIsIn
  <2>3. Supers(i) = Declarations[LastOf(same)].extends
    BY <1>3 DEF Supers
  <2>. QED
    BY <2>2, <2>3, Inputs1
<1>. QED
  BY <1>1, <1>2, <1>3

\* The id of a name is a declaration of it.
LEMMA IdsAreTheirs ==
    ASSUME input \in Inputs, NEW x \in Names
    PROVE  /\ IdOf(x) \in 0..(Len(Declarations) - 1)
           /\ IdOf(x) + 1 \in DOMAIN Declarations
           /\ Name(IdOf(x) + 1) = x
<1>. DEFINE S == {i \in DOMAIN Declarations : Name(i) = x}
<1>1. S \in SUBSET (1..Len(Declarations)) /\ Len(Declarations) \in Nat /\ S # {}
  BY Inputs1 DEF Names
<1>2. LastOf(S) \in S
  BY <1>1, LastOfIsIn
<1>3. IdOf(x) = LastOf(S) - 1
  BY DEF IdOf
<1>4. LastOf(S) \in 1..Len(Declarations) /\ Name(LastOf(S)) = x
  BY <1>1, <1>2
<1>. HIDE DEF S
<1>5. IdOf(x) + 1 = LastOf(S) /\ IdOf(x) \in 0..(Len(Declarations) - 1)
  BY <1>1, <1>3, <1>4
<1>. QED
  BY <1>4, <1>5, Inputs1

\* What the call in hand says, in names.
LEMMA InHandMeans ==
    ASSUME PInv, InHand
    PROVE  /\ edge.parent \in Nodes /\ edge.child \in Nodes
           /\ Name(edge.parent + 1) = Super /\ Name(edge.child + 1) = Name(at)
           /\ Super \in AllNames /\ Super \in Names
           /\ Extends(Name(edge.child + 1), Name(edge.parent + 1))
<1>1. /\ at \in DOMAIN Declarations /\ sup \in DOMAIN Supers(at) /\ Super \in Names
      /\ edge.parent = IdOf(Super) /\ edge.child = IdOf(Name(at)) /\ input \in Inputs
  BY DEF PInv, EdgeInHand
<1>2. Name(at) \in Names /\ Names \subseteq AllNames /\ Supers(at) \in Seq(AllNames)
  BY <1>1, Inputs1, SupersAreNames
<1>3. Nodes = 0..(Len(Declarations) - 1)
  BY DEF PInv, NodesFirst, Linking, InHand, Nodes
<1>4. /\ edge.parent \in Nodes /\ edge.child \in Nodes
      /\ Name(edge.parent + 1) = Super /\ Name(edge.child + 1) = Name(at)
  BY <1>1, <1>2, <1>3, IdsAreTheirs
<1>5. In(Super, Supers(at))
  BY <1>1, <1>2 DEF In, Super
<1>. QED
  BY <1>1, <1>2, <1>4, <1>5 DEF Extends

\* What is said of the input alone stays.
LEMMA SameInput ==
    ASSUME UNCHANGED input
    PROVE  /\ Declarations' = Declarations /\ Names' = Names
           /\ \A i : Name(i)' = Name(i) /\ Supers(i)' = Supers(i)
           /\ \A x : IdOf(x)' = IdOf(x)
           /\ \A x, y : Extends(x, y)' <=> Extends(x, y)
<1>1. Declarations' = Declarations
  BY DEF Declarations
<1>2. \A i : Name(i)' = Name(i)
  BY <1>1 DEF Name
<1>3. Names' = Names
  BY <1>1, <1>2 DEF Names
<1>4. \A i : Supers(i)' = Supers(i)
  BY <1>1, <1>2 DEF Supers
<1>5. \A x : IdOf(x)' = IdOf(x)
  BY <1>1, <1>2 DEF IdOf
<1>6. \A x, y : Extends(x, y)' <=> Extends(x, y)
  BY <1>1, <1>2, <1>4 DEF Extends
<1>. QED
  BY <1>1, <1>2, <1>3, <1>4, <1>5, <1>6

LEMMA SameMeaning ==
    ASSUME EdgesMean, UNCHANGED <<input, phase, parents, count>>
    PROVE  EdgesMean'
<1>1. \A x, y : Extends(x, y)' <=> Extends(x, y)
  BY SameInput
<1>2. \A i : Name(i)' = Name(i)
  BY SameInput
<1>3. Nodes' = Nodes /\ (Linking' <=> Linking)
  BY DEF Nodes, Linking
<1>. QED
  BY <1>1, <1>2, <1>3 DEF EdgesMean, In

\* Steps that leave the graph alone, and the walk, keep the kernel's invariant.
LEMMA AnswerOnly ==
    ASSUME KInv, UNCHANGED <<graphVars, walkVars, pc>>, answer' \in {"none", "linked", "refused"}
    PROVE  KInv'
<1>. USE DEF graphVars, walkVars
<1>1. WellFormed' /\ Acyclic' /\ Nodes' = Nodes /\ Lists' = Lists
  BY SameEdges
<1>2. KernelTypeOK'
  BY <1>1 DEF KInv, KernelTypeOK
<1>3. WalkInv'
  BY <1>1 DEF KInv, WalkInv, SeenIsReached, SeenIsHandled, HandIsMarked, PopsArePaid, Explored, Closed, In
<1>. QED
  BY <1>1, <1>2, <1>3 DEF KInv

LEMMA SameAncestors ==
    ASSUME UNCHANGED <<count, parents>>, NEW a, NEW n
    PROVE  IsAncestor(a, n)' <=> IsAncestor(a, n)
<1>1. Nodes' = Nodes
  BY DEF Nodes
<1>. QED
  BY <1>1 DEF IsAncestor, Closed, In

-----------------------------------------------------------------------------
(* The steps of a pass. *)

LEMMA InitPInv == Init => PInv
<1>. SUFFICES ASSUME Init PROVE PInv
  OBVIOUS
<1>. USE DEF Init
<1>1. KInv /\ count = 0 /\ pc = "idle" /\ answer = "none"
  BY InitKInv DEF KernelInit
<1>2. phase \in {"free", "nodes"} /\ input \in Inputs
  OBVIOUS
<1>3. NodesFirst
  <2>1. Nodes = {} /\ Len(Declarations) \in Nat
    BY <1>1, <1>2, Inputs1 DEF Nodes
  <2>. QED
    BY <1>1, <1>2, <2>1 DEF NodesFirst, Linking
<1>4. EdgesMean /\ EdgeInHand /\ AnswersMean /\ AllLinked /\ RingSearch
  BY <1>2 DEF EdgesMean, Linking, EdgeInHand, InHand, AnswersMean, AllLinked, RingSearch
<1>5. Reported
  BY DEF Reported, RingIsCycle
<1>. QED
  BY <1>1, <1>2, <1>3, <1>4, <1>5 DEF PInv

LEMMA AddDeclarationKeepsPInv ==
    ASSUME PInv, AddDeclaration
    PROVE  PInv'
<1>. USE DEF PInv, AddDeclaration
<1>1. /\ pc = "idle" /\ answer = "none" /\ at = 1 /\ sup = 1 /\ phase = "nodes"
      /\ count <= Len(Declarations) /\ \A n \in Nodes : parents[n] = <<>>
  BY DEF NodesFirst
<1>2. UNCHANGED <<input, at, sup, chain, met, report>>
  OBVIOUS
<1>3. Declarations' = Declarations /\ Len(Declarations) \in Nat /\ count \in Nat
  BY <1>2, SameInput, Inputs1 DEF KInv, KernelTypeOK
<1>4. report = NoRing /\ Reported'
  BY <1>1, <1>2 DEF Reported, RingIsCycle
<1>5. CASE count < Len(Declarations)
  <2>1. AddNode /\ phase' = phase
    BY <1>5
  <2>2. KInv'
    BY <2>1, AddNodeKeepsKInv
  <2>3. NodesFirst'
    <3>1. /\ pc' = "idle" /\ answer' = "none" /\ count' <= Len(Declarations)
          /\ Nodes' = 0..count /\ parents' = WithNode(parents)
      BY <1>1, <1>3, <1>5, <2>1 DEF AddNode, Nodes
    <3>2. ASSUME NEW n \in 0..count
          PROVE  parents'[n] = <<>>
      <4>1. n < count => n \in Nodes
        BY <1>3 DEF Nodes
      <4>. QED
        BY <1>1, <3>1, <4>1 DEF WithNode
    <3>. QED
      BY <1>1, <1>2, <1>3, <2>1, <3>1, <3>2 DEF NodesFirst, Linking
  <2>4. EdgesMean' /\ EdgeInHand' /\ AnswersMean' /\ AllLinked' /\ RingSearch'
    BY <1>1, <2>1 DEF EdgesMean, Linking, EdgeInHand, InHand, AnswersMean, AllLinked, RingSearch
  <2>. QED
    BY <1>2, <1>4, <2>2, <2>3, <2>4
<1>6. CASE ~(count < Len(Declarations))
  <2>1. phase' = "links" /\ UNCHANGED kernelVars
    BY <1>6
  <2>2. KInv' /\ UNCHANGED <<count, parents, pc, answer, edge>>
    BY <2>1, StutterKeepsKInv DEF kernelVars, graphVars, walkVars
  <2>3. Nodes' = Nodes
    BY <2>2 DEF Nodes
  <2>4. NodesFirst'
    BY <1>1, <1>3, <1>6, <2>1, <2>2 DEF NodesFirst, Linking
  <2>5. EdgesMean'
    BY <1>1, <2>2, <2>3, NothingIn DEF EdgesMean, In
  <2>6. EdgeInHand' /\ AnswersMean' /\ RingSearch'
    BY <1>1, <2>1, <2>2 DEF EdgeInHand, InHand, AnswersMean, RingSearch
  <2>7. AllLinked'
    <3>1. \A i \in DOMAIN Declarations : i \in Nat /\ i >= 1
      BY Inputs1
    <3>2. \A i \in DOMAIN Declarations : \A j \in DOMAIN Supers(i) : j \in Nat /\ j >= 1
      BY SupersAreNames
    <3>3. \A i \in DOMAIN Declarations : \A j \in DOMAIN Supers(i) : ~Visited(i, j)'
      BY <1>1, <1>2, <3>1, <3>2 DEF Visited
    <3>4. \A i : Supers(i)' = Supers(i)
      BY <1>2, SameInput
    <3>. QED
      BY <1>3, <2>1, <3>3, <3>4 DEF AllLinked
  <2>. QED
    BY <1>2, <1>4, <2>2, <2>4, <2>5, <2>6, <2>7
<1>. QED
  BY <1>5, <1>6

LEMMA SkipUnknownKeepsPInv ==
    ASSUME PInv, SkipUnknown
    PROVE  PInv'
<1>. USE DEF PInv, SkipUnknown
<1>1. /\ phase = "links" /\ pc = "idle" /\ Super \notin Names /\ sup' = sup + 1
      /\ UNCHANGED <<kernelVars, input, phase, at, chain, met, report>>
  BY DEF AtEdge
<1>2. KInv' /\ UNCHANGED <<count, parents, pc, answer, edge>>
  BY <1>1, StutterKeepsKInv DEF kernelVars, graphVars, walkVars
<1>3. answer = "none" /\ ~InHand /\ ~InHand'
  BY <1>1, <1>2 DEF EdgeInHand, InHand
<1>4. EdgesMean'
  BY <1>1, <1>2, SameMeaning
<1>5. /\ Declarations' = Declarations /\ Names' = Names
      /\ \A i : Supers(i)' = Supers(i) /\ Name(i)' = Name(i)
      /\ \A x : IdOf(x)' = IdOf(x)
      /\ \A x, y : Extends(x, y)' <=> Extends(x, y)
  BY <1>1, SameInput
<1>6. NodesFirst' /\ EdgeInHand' /\ AnswersMean' /\ RingSearch'
  BY <1>1, <1>2, <1>3, <1>5 DEF NodesFirst, Linking, EdgeInHand, AnswersMean, RingSearch
<1>7. AllLinked'
  <2>. SUFFICES ASSUME report = NoRing,
                       NEW i \in DOMAIN Declarations, NEW j \in DOMAIN Supers(i),
                       Visited(i, j)', Supers(i)[j] \in Names
                PROVE  In(IdOf(Supers(i)[j]), parents[IdOf(Name(i))])
    BY <1>1, <1>2, <1>5 DEF AllLinked, In
  <2>1. j \in Nat /\ Supers(i) \in Seq(AllNames)
    BY SupersAreNames
  <2>2. ~(i = at /\ j = sup)
    BY <1>1 DEF Super
  <2>3. Visited(i, j)
    BY <1>1, <2>1, <2>2 DEF Visited
  <2>. QED
    BY <1>1, <2>3 DEF AllLinked
<1>8. Reported'
  BY <1>1, <1>5 DEF Reported, RingIsCycle
<1>. QED
  BY <1>1, <1>2, <1>4, <1>6, <1>7, <1>8

LEMMA LinkEdgeKeepsPInv ==
    ASSUME PInv, LinkEdge
    PROVE  PInv'
<1>. USE DEF PInv, LinkEdge
<1>. DEFINE p == IdOf(Super)
            c == IdOf(Name(at))
<1>1. /\ phase = "links" /\ pc = "idle" /\ answer = "none" /\ Super \in Names
      /\ CallLink(p, c)
      /\ UNCHANGED <<input, phase, at, sup, chain, met, report>>
  BY DEF AtEdge, passVars
<1>2. /\ at \in DOMAIN Declarations /\ sup \in DOMAIN Supers(at)
      /\ Len(Declarations) \in Nat /\ count = Len(Declarations)
  <2>1. at \in DOMAIN Declarations /\ Len(Declarations) \in Nat
    BY Inputs1 DEF AtEdge
  <2>2. Supers(at) \in Seq(AllNames)
    BY <2>1, SupersAreNames
  <2>. QED
    BY <1>1, <2>1, <2>2 DEF AtEdge, NodesFirst, Linking
<1>3. p \in Nodes /\ c \in Nodes
  BY <1>1, <1>2, Inputs1, IdsAreTheirs DEF Nodes
<1>4. KInv'
  <2>1. count \in 0..MaxNodes
    BY DEF KInv, KernelTypeOK
  <2>2. p \in Ids /\ c \in Ids
    BY <1>3, <2>1, KernelAssumption DEF Ids, Nodes
  <2>. QED
    BY <1>1, <2>2, CallLinkKeepsKInv
<1>5. UNCHANGED <<count, parents, contains, references>> /\ edge' = [parent |-> p, child |-> c]
  BY <1>1 DEF CallLink, graphVars
<1>6. EdgesMean'
  BY <1>1, <1>5, SameMeaning
<1>7. /\ Declarations' = Declarations /\ Names' = Names
      /\ \A i : Supers(i)' = Supers(i) /\ Name(i)' = Name(i)
      /\ \A x : IdOf(x)' = IdOf(x)
      /\ \A x, y : Extends(x, y)' <=> Extends(x, y)
  BY <1>1, SameInput
<1>8. NodesFirst' /\ RingSearch'
  BY <1>1, <1>5, <1>7 DEF NodesFirst, Linking, RingSearch
<1>9. EdgeInHand'
  <2>1. Super' = Super
    BY <1>1, <1>7 DEF Super
  <2>. QED
    BY <1>1, <1>2, <1>5, <1>7, <2>1 DEF EdgeInHand
<1>10. AnswersMean'
  <2>1. pc' # "idle" \/ (answer' = "refused" /\ p = c) \/ (answer' = "linked" /\ In(p, parents[c]))
    BY <1>1, <1>3 DEF CallLink
  <2>2. edge'.parent = p /\ edge'.child = c
    BY <1>5
  <2>. HIDE DEF p, c
  <2>. QED
    BY <1>1, <1>5, <2>1, <2>2 DEF AnswersMean, In
<1>11. AllLinked'
  BY <1>1, <1>5, <1>7 DEF AllLinked, Visited, In
<1>12. Reported'
  BY <1>1, <1>7 DEF Reported, RingIsCycle
<1>. QED
  BY <1>1, <1>4, <1>6, <1>8, <1>9, <1>10, <1>11, <1>12

LEMMA EdgeLinkedKeepsPInv ==
    ASSUME PInv, EdgeLinked
    PROVE  PInv'
<1>. USE DEF PInv, EdgeLinked
<1>1. /\ phase = "links" /\ pc = "idle" /\ answer = "linked" /\ answer' = "none" /\ sup' = sup + 1
      /\ UNCHANGED <<input, phase, at, chain, met, report>>
      /\ UNCHANGED <<graphVars, walkVars, pc>>
  BY DEF Answered
<1>2. KInv' /\ UNCHANGED <<count, parents, pc, edge>>
  BY <1>1, AnswerOnly DEF graphVars, walkVars
<1>3. ~InHand'
  BY <1>1, <1>2 DEF InHand
<1>4. EdgesMean'
  BY <1>1, <1>2, SameMeaning
<1>5. /\ Declarations' = Declarations /\ Names' = Names
      /\ \A i : Supers(i)' = Supers(i) /\ Name(i)' = Name(i)
      /\ \A x : IdOf(x)' = IdOf(x)
      /\ \A x, y : Extends(x, y)' <=> Extends(x, y)
  BY <1>1, SameInput
<1>6. NodesFirst' /\ EdgeInHand' /\ AnswersMean' /\ RingSearch'
  BY <1>1, <1>2, <1>3, <1>5 DEF NodesFirst, Linking, EdgeInHand, AnswersMean, RingSearch
<1>7. AllLinked'
  <2>. SUFFICES ASSUME report = NoRing,
                       NEW i \in DOMAIN Declarations, NEW j \in DOMAIN Supers(i),
                       Visited(i, j)', Supers(i)[j] \in Names
                PROVE  In(IdOf(Supers(i)[j]), parents[IdOf(Name(i))])
    BY <1>1, <1>2, <1>5 DEF AllLinked, In
  <2>1. j \in Nat /\ Supers(i) \in Seq(AllNames)
    BY SupersAreNames
  <2>2. CASE i = at /\ j = sup
    <3>1. edge.parent = IdOf(Supers(i)[j]) /\ edge.child = IdOf(Name(i))
      BY <1>1, <2>2 DEF EdgeInHand, InHand, Super
    <3>. QED
      BY <1>1, <3>1 DEF AnswersMean
  <2>3. CASE ~(i = at /\ j = sup)
    <3>1. Visited(i, j)
      BY <1>1, <2>1, <2>3 DEF Visited
    <3>. QED
      BY <1>1, <3>1 DEF AllLinked
  <2>. QED
    BY <2>2, <2>3
<1>8. Reported'
  BY <1>1, <1>5 DEF Reported, RingIsCycle
<1>. QED
  BY <1>1, <1>2, <1>4, <1>6, <1>7, <1>8

LEMMA WalkEdgeKeepsPInv ==
    ASSUME PInv, WalkEdge
    PROVE  PInv'
<1>. USE DEF PInv, WalkEdge
<1>1. /\ phase = "links" /\ pc # "idle" /\ LinkStep
      /\ UNCHANGED <<input, phase, at, sup, chain, met, report>>
  BY DEF passVars
<1>2. KInv'
  BY <1>1, StepKeepsKInv DEF KernelNext
<1>3. UNCHANGED <<count, edge>>
  BY <1>1 DEF LinkStep, PopChild, PopOther, PushParent, ParentsPushed, Record, graphVars, walkVars
<1>4. /\ Declarations' = Declarations /\ Names' = Names
      /\ \A i : Supers(i)' = Supers(i) /\ Name(i)' = Name(i)
      /\ \A x : IdOf(x)' = IdOf(x)
      /\ \A x, y : Extends(x, y)' <=> Extends(x, y)
  BY <1>1, SameInput
<1>5. NodesFirst' /\ RingSearch' /\ Reported'
  BY <1>1, <1>3, <1>4 DEF NodesFirst, Linking, RingSearch, Reported, RingIsCycle
<1>6. InHand /\ EdgeInHand'
  <2>1. Super' = Super
    BY <1>1, <1>4 DEF Super
  <2>. QED
    BY <1>1, <1>3, <1>4, <2>1 DEF EdgeInHand, InHand
<1>7. CASE PopChild
  <2>1. UNCHANGED parents /\ IsAncestor(edge.child, edge.parent) /\ answer' = "refused" /\ pc' = "idle"
    BY <1>7, PopChildIsAncestor DEF PopChild, graphVars
  <2>2. EdgesMean'
    BY <1>1, <1>3, <2>1, SameMeaning
  <2>3. AllLinked'
    BY <1>1, <1>4, <2>1 DEF AllLinked, Visited, In
  <2>4. AnswersMean'
    <3>1. \A a, n : IsAncestor(a, n)' <=> IsAncestor(a, n)
      BY <1>3, <2>1, SameAncestors
    <3>. QED
      BY <1>1, <1>3, <2>1, <3>1 DEF AnswersMean
  <2>. QED
    BY <1>1, <1>2, <1>5, <1>6, <2>2, <2>3, <2>4
<1>8. CASE PopOther \/ PushParent \/ ParentsPushed
  <2>1. UNCHANGED parents /\ pc' # "idle"
    BY <1>8 DEF PopOther, PushParent, ParentsPushed, graphVars
  <2>2. EdgesMean'
    BY <1>1, <1>3, <2>1, SameMeaning
  <2>3. AllLinked'
    BY <1>1, <1>4, <2>1 DEF AllLinked, Visited, In
  <2>4. AnswersMean'
    BY <1>1, <2>1 DEF AnswersMean
  <2>. QED
    BY <1>1, <1>2, <1>5, <1>6, <2>2, <2>3, <2>4
<1>9. CASE Record
  <2>. DEFINE c == edge.child
              p == edge.parent
  <2>1. parents' = [parents EXCEPT ![c] = Append(@, p)] /\ pc' = "idle" /\ answer' = "linked"
    BY <1>9 DEF Record
  <2>2. /\ p \in Nodes /\ c \in Nodes /\ parents \in [Nodes -> Seq(Nodes)] /\ Nodes' = Nodes
        /\ Extends(Name(c + 1), Name(p + 1))
    BY <1>3, <1>6, InHandMeans DEF KInv, KernelTypeOK, Lists, Nodes
  <2>. HIDE DEF c, p
  <2>3. ASSUME NEW n \in Nodes, NEW m
        PROVE  In(m, parents'[n]) <=> In(m, parents[n]) \/ (n = c /\ m = p)
    <3>1. In(m, Append(parents[n], p)) <=> In(m, parents[n]) \/ m = p
      BY <2>2, AppendIn
    <3>2. parents'[n] = IF n = c THEN Append(parents[n], p) ELSE parents[n]
      BY <2>1, <2>2
    <3>. QED
      BY <3>1, <3>2
  <2>4. EdgesMean'
    <3>. SUFFICES ASSUME NEW m \in Nodes, NEW n \in Nodes, In(m, parents'[n])
                  PROVE  Extends(Name(n + 1), Name(m + 1))
      BY <1>4, <2>2 DEF EdgesMean, In
    <3>1. In(m, parents[n]) \/ (n = c /\ m = p)
      BY <2>3
    <3>2. In(m, parents[n]) => Extends(Name(n + 1), Name(m + 1))
      BY <1>1 DEF EdgesMean, Linking
    <3>. QED
      BY <2>2, <3>1, <3>2
  <2>5. AllLinked'
    <3>. SUFFICES ASSUME report = NoRing,
                         NEW i \in DOMAIN Declarations, NEW j \in DOMAIN Supers(i),
                         Visited(i, j), Supers(i)[j] \in Names
                  PROVE  In(IdOf(Supers(i)[j]), parents'[IdOf(Name(i))])
      BY <1>1, <1>4 DEF AllLinked, Visited, In
    <3>1. IdOf(Name(i)) \in Nodes
      BY <1>1, Inputs1, IdsAreTheirs DEF NodesFirst, Linking, Nodes
    <3>2. In(IdOf(Supers(i)[j]), parents[IdOf(Name(i))])
      BY <1>1 DEF AllLinked
    <3>. QED
      BY <2>3, <3>1, <3>2
  <2>6. AnswersMean'
    <3>1. In(p, parents'[c])
      BY <2>2, <2>3
    <3>2. edge' = edge /\ phase' = "links" /\ answer' # "refused"
      BY <1>1, <1>3, <2>1
    <3>. QED
      BY <3>1, <3>2 DEF AnswersMean, In, c, p
  <2>. QED
    BY <1>1, <1>2, <1>5, <1>6, <2>4, <2>5, <2>6
<1>. QED
  BY <1>1, <1>7, <1>8, <1>9 DEF LinkStep

LEMMA SelfRefusedKeepsPInv ==
    ASSUME PInv, SelfRefused
    PROVE  PInv'
<1>. USE DEF PInv, SelfRefused
<1>1. /\ phase = "links" /\ pc = "idle" /\ answer = "refused" /\ answer' = "none"
      /\ edge.parent = edge.child /\ report' = <<Super, Super>> /\ phase' = "done"
      /\ UNCHANGED <<input, at, sup, chain, met>>
      /\ UNCHANGED <<graphVars, walkVars, pc>>
  BY DEF Answered
<1>2. KInv' /\ UNCHANGED <<count, parents, pc, edge>> /\ Nodes' = Nodes
  BY <1>1, AnswerOnly DEF graphVars, walkVars, Nodes
<1>3. /\ Declarations' = Declarations
      /\ \A i : Name(i)' = Name(i)
      /\ \A x, y : Extends(x, y)' <=> Extends(x, y)
  BY <1>1, SameInput
<1>4. NodesFirst' /\ EdgesMean'
  BY <1>1, <1>2, <1>3 DEF NodesFirst, EdgesMean, Linking, In
<1>5. EdgeInHand' /\ AnswersMean' /\ RingSearch'
  BY <1>1 DEF EdgeInHand, InHand, AnswersMean, RingSearch
<1>6. Super \in AllNames /\ Extends(Super, Super)
  <2>1. InHand
    BY <1>1 DEF InHand
  <2>. QED
    BY <1>1, <2>1, InHandMeans
<1>7. AllLinked'
  <2>1. <<Super, Super>> \in Seq(AllNames)
    BY <1>6
  <2>2. report' # NoRing
    BY <1>1, <2>1, PassAssumption
  <2>. QED
    BY <2>2 DEF AllLinked
<1>8. Reported'
  <2>1. \A i \in 1..(Len(<<Super, Super>>) - 1) : i = 1
    OBVIOUS
  <2>2. RingIsCycle'
    BY <1>1, <1>3, <1>6, <2>1 DEF RingIsCycle
  <2>3. report' \in Seq(AllNames)
    BY <1>1, <1>6
  <2>. QED
    BY <1>1, <2>2, <2>3 DEF Reported
<1>. QED
  BY <1>1, <1>2, <1>4, <1>5, <1>7, <1>8

LEMMA RingFromKeepsPInv ==
    ASSUME PInv, RingFrom
    PROVE  PInv'
<1>. USE DEF PInv, RingFrom
<1>1. /\ phase = "links" /\ pc = "idle" /\ answer = "refused" /\ answer' = "none"
      /\ edge.parent # edge.child /\ phase' = "ring"
      /\ chain' = <<edge.parent>> /\ met' = {edge.parent}
      /\ UNCHANGED <<input, at, sup, report>>
      /\ UNCHANGED <<graphVars, walkVars, pc>>
  BY DEF Answered
<1>2. KInv' /\ UNCHANGED <<count, parents, pc, edge>> /\ Nodes' = Nodes
  BY <1>1, AnswerOnly DEF graphVars, walkVars, Nodes
<1>3. /\ Declarations' = Declarations /\ Names' = Names
      /\ \A i : Supers(i)' = Supers(i) /\ Name(i)' = Name(i)
      /\ \A x : IdOf(x)' = IdOf(x)
      /\ \A x, y : Extends(x, y)' <=> Extends(x, y)
  BY <1>1, SameInput
<1>4. NodesFirst' /\ EdgesMean'
  BY <1>1, <1>2, <1>3 DEF NodesFirst, EdgesMean, Linking, In
<1>5. InHand
  BY <1>1 DEF InHand
<1>6. EdgeInHand'
  <2>1. Super' = Super
    BY <1>1, <1>3 DEF Super
  <2>. QED
    BY <1>1, <1>2, <1>3, <1>5, <2>1 DEF EdgeInHand
<1>7. AnswersMean'
  <2>1. \A a, n : IsAncestor(a, n)' <=> IsAncestor(a, n)
    BY <1>2, SameAncestors
  <2>. QED
    BY <1>1, <1>2, <2>1 DEF AnswersMean
<1>8. RingSearch'
  <2>1. edge.parent \in Nodes
    BY <1>5, InHandMeans
  <2>2. In(edge.parent, <<edge.parent>>) /\ Len(<<edge.parent>>) = 1
    BY DEF In
  <2>. QED
    BY <1>1, <1>2, <2>1, <2>2 DEF RingSearch, In
<1>9. AllLinked' /\ Reported'
  BY <1>1, <1>3 DEF AllLinked, Reported, RingIsCycle
<1>. QED
  BY <1>1, <1>2, <1>4, <1>6, <1>7, <1>8, <1>9

LEMMA NextDeclarationKeepsPInv ==
    ASSUME PInv, NextDeclaration
    PROVE  PInv'
<1>. USE DEF PInv, NextDeclaration
<1>1. /\ phase = "links" /\ pc = "idle" /\ sup > Len(Supers(at)) /\ at' = at + 1 /\ sup' = 1
      /\ UNCHANGED <<kernelVars, input, phase, chain, met, report>>
  OBVIOUS
<1>2. KInv' /\ UNCHANGED <<count, parents, pc, answer, edge>>
  BY <1>1, StutterKeepsKInv DEF kernelVars, graphVars, walkVars
<1>3. at \in DOMAIN Declarations /\ Supers(at) \in Seq(AllNames)
  <2>1. at \in DOMAIN Declarations
    BY Inputs1
  <2>. QED
    BY <2>1, SupersAreNames
<1>4. answer = "none" /\ ~InHand'
  <2>1. sup \notin DOMAIN Supers(at)
    BY <1>1, <1>3
  <2>. QED
    BY <1>1, <1>2, <2>1 DEF EdgeInHand, InHand, KInv, KernelTypeOK
<1>5. EdgesMean'
  BY <1>1, <1>2, SameMeaning
<1>6. /\ Declarations' = Declarations /\ Names' = Names
      /\ \A i : Supers(i)' = Supers(i) /\ Name(i)' = Name(i)
      /\ \A x : IdOf(x)' = IdOf(x)
      /\ \A x, y : Extends(x, y)' <=> Extends(x, y)
  BY <1>1, SameInput
<1>7. NodesFirst' /\ EdgeInHand' /\ AnswersMean' /\ RingSearch'
  BY <1>1, <1>2, <1>4, <1>6 DEF NodesFirst, Linking, EdgeInHand, AnswersMean, RingSearch
<1>8. AllLinked'
  <2>. SUFFICES ASSUME report = NoRing,
                       NEW i \in DOMAIN Declarations, NEW j \in DOMAIN Supers(i),
                       Visited(i, j)', Supers(i)[j] \in Names
                PROVE  In(IdOf(Supers(i)[j]), parents[IdOf(Name(i))])
    BY <1>1, <1>2, <1>6 DEF AllLinked, In
  <2>1. i \in Nat /\ j \in Nat /\ j >= 1
    BY Inputs1, SupersAreNames
  <2>2. i = at => j < sup
    BY <1>1, <1>3, <2>1
  <2>3. Visited(i, j)
    BY <1>1, <2>1, <2>2 DEF Visited
  <2>. QED
    BY <1>1, <2>3 DEF AllLinked
<1>9. Reported'
  BY <1>1, <1>6 DEF Reported, RingIsCycle
<1>. QED
  BY <1>1, <1>2, <1>5, <1>7, <1>8, <1>9

LEMMA NoCycleKeepsPInv ==
    ASSUME PInv, NoCycle
    PROVE  PInv'
<1>. USE DEF PInv, NoCycle
<1>1. /\ phase = "links" /\ at > Len(Declarations) /\ phase' = "done"
      /\ UNCHANGED <<kernelVars, input, at, sup, chain, met, report>>
  OBVIOUS
<1>2. KInv' /\ UNCHANGED <<count, parents, pc, answer, edge>> /\ Nodes' = Nodes
  BY <1>1, StutterKeepsKInv DEF kernelVars, graphVars, walkVars, Nodes
<1>3. /\ Declarations' = Declarations /\ Names' = Names
      /\ \A i : Supers(i)' = Supers(i) /\ Name(i)' = Name(i)
      /\ \A x : IdOf(x)' = IdOf(x)
      /\ \A x, y : Extends(x, y)' <=> Extends(x, y)
  BY <1>1, SameInput
<1>4. NodesFirst' /\ EdgesMean'
  BY <1>1, <1>2, <1>3 DEF NodesFirst, EdgesMean, Linking, In
<1>5. EdgeInHand' /\ AnswersMean' /\ RingSearch'
  BY <1>1 DEF EdgeInHand, InHand, AnswersMean, RingSearch
<1>6. AllLinked'
  <2>1. \A i \in DOMAIN Declarations : i < at
    BY <1>1, Inputs1
  <2>. QED
    BY <1>1, <1>2, <1>3, <2>1 DEF AllLinked, Visited, In
<1>7. Reported'
  BY <1>1, <1>3 DEF Reported, RingIsCycle
<1>. QED
  BY <1>1, <1>2, <1>4, <1>5, <1>6, <1>7

\* What a step of the search for the ring leaves as it was.
LEMMA RingStep ==
    ASSUME PInv, phase = "ring", phase' = "ring", UNCHANGED <<kernelVars, input, at, sup, report>>
    PROVE  /\ KInv' /\ UNCHANGED <<parents, edge>> /\ Nodes' = Nodes
           /\ NodesFirst' /\ EdgesMean' /\ EdgeInHand' /\ AnswersMean' /\ AllLinked' /\ Reported'
<1>. USE DEF PInv
<1>1. KInv' /\ UNCHANGED <<count, parents, pc, answer, edge>> /\ Nodes' = Nodes
  BY StutterKeepsKInv DEF kernelVars, graphVars, walkVars, Nodes
<1>2. /\ Declarations' = Declarations /\ Names' = Names
      /\ \A i : Supers(i)' = Supers(i) /\ Name(i)' = Name(i)
      /\ \A x : IdOf(x)' = IdOf(x)
      /\ \A x, y : Extends(x, y)' <=> Extends(x, y)
  BY SameInput
<1>3. NodesFirst' /\ EdgesMean'
  BY <1>1, <1>2 DEF NodesFirst, EdgesMean, Linking, In
<1>4. EdgeInHand'
  <2>1. Super' = Super
    BY <1>2 DEF Super
  <2>. QED
    BY <1>1, <1>2, <2>1 DEF EdgeInHand, InHand
<1>5. AnswersMean'
  <2>1. \A a, n : IsAncestor(a, n)' <=> IsAncestor(a, n)
    BY <1>1, SameAncestors
  <2>. QED
    BY <1>1, <2>1 DEF AnswersMean
<1>6. AllLinked' /\ Reported'
  BY <1>2 DEF AllLinked, Reported, RingIsCycle
<1>. QED
  BY <1>1, <1>3, <1>4, <1>5, <1>6

LEMMA ExtendKeepsPInv ==
    ASSUME PInv, Extend
    PROVE  PInv'
<1>. DEFINE last == Last(chain)
            k == CHOOSE i \in Unmet : \A j \in Unmet : i <= j
            p == parents[last][k]
<1>1. /\ phase = "ring" /\ phase' = "ring" /\ chain # <<>> /\ Unmet # {}
      /\ chain' = Append(chain, p) /\ met' = met \cup {p}
      /\ UNCHANGED <<kernelVars, input, at, sup, report>>
  BY DEF Extend, WalkingRing
<1>2. /\ KInv' /\ UNCHANGED <<parents, edge>> /\ Nodes' = Nodes
      /\ NodesFirst' /\ EdgesMean' /\ EdgeInHand' /\ AnswersMean' /\ AllLinked' /\ Reported'
  BY <1>1, RingStep
<1>3. /\ chain \in Seq(Nodes) /\ met \in SUBSET Nodes /\ edge.parent \in met
      /\ chain[1] = edge.parent
      /\ \A i \in 1..(Len(chain) - 1) : In(chain[i + 1], parents[chain[i]])
      /\ \A n \in met :
            In(n, chain) \/ (n # edge.child /\ \A m \in Nodes : In(m, parents[n]) => m \in met)
  BY <1>1 DEF PInv, RingSearch
<1>4. last \in Nodes /\ parents[last] \in Seq(Nodes) /\ last = chain[Len(chain)]
  BY <1>1, <1>3, LastFront DEF PInv, KInv, KernelTypeOK, Lists, Last
<1>5. k \in Unmet
  <2>1. Unmet \in SUBSET Nat
    BY <1>4 DEF Unmet
  <2>2. \E i \in Unmet : \A j \in Unmet : i <= j
    BY <1>1, <2>1, HasLeast
  <2>. QED
    BY <2>2
<1>6. p \in Nodes /\ In(p, parents[last])
  <2>1. k \in 1..Len(parents[last])
    BY <1>5 DEF Unmet
  <2>. HIDE DEF k, last
  <2>. QED
    BY <1>4, <2>1 DEF In
<1>. HIDE DEF p, last
<1>7. /\ chain' \in Seq(Nodes) /\ Len(chain') = Len(chain) + 1 /\ Len(chain) \in Nat /\ Len(chain) >= 1
      /\ \A i \in 1..Len(chain) : chain'[i] = chain[i]
      /\ chain'[Len(chain) + 1] = p
  BY <1>1, <1>3, <1>6
<1>8. \A y : In(y, chain') <=> In(y, chain) \/ y = p
  BY <1>1, <1>3, <1>6, AppendIn
<1>9. \A i \in 1..(Len(chain') - 1) : In(chain'[i + 1], parents[chain'[i]])
  <2>. SUFFICES ASSUME NEW i \in 1..Len(chain)
                PROVE  In(chain'[i + 1], parents[chain'[i]])
    BY <1>7
  <2>1. CASE i = Len(chain)
    BY <1>4, <1>6, <1>7, <2>1
  <2>2. CASE i # Len(chain)
    <3>1. i \in 1..(Len(chain) - 1) /\ i + 1 \in 1..Len(chain)
      BY <1>7, <2>2
    <3>. QED
      BY <1>3, <1>7, <3>1
  <2>. QED
    BY <2>1, <2>2
<1>10. RingSearch'
  <2>1. \A n \in met' :
           In(n, chain') \/ (n # edge.child /\ \A m \in Nodes : In(m, parents[n]) => m \in met')
    BY <1>1, <1>3, <1>8
  <2>2. met' \in SUBSET Nodes /\ edge.parent \in met' /\ chain'[1] = edge.parent
    BY <1>1, <1>3, <1>6, <1>7
  <2>. QED
    BY <1>2, <1>7, <1>9, <2>1, <2>2 DEF RingSearch, In
<1>. QED
  BY <1>1, <1>2, <1>10 DEF PInv

LEMMA BackUpKeepsPInv ==
    ASSUME PInv, BackUp
    PROVE  PInv'
<1>. DEFINE last == Last(chain)
<1>1. /\ phase = "ring" /\ phase' = "ring" /\ chain # <<>> /\ last # edge.child /\ Unmet = {}
      /\ chain' = Front(chain) /\ met' = met
      /\ UNCHANGED <<kernelVars, input, at, sup, report>>
  BY DEF BackUp, WalkingRing
<1>2. /\ KInv' /\ UNCHANGED <<parents, edge>> /\ Nodes' = Nodes
      /\ NodesFirst' /\ EdgesMean' /\ EdgeInHand' /\ AnswersMean' /\ AllLinked' /\ Reported'
  BY <1>1, RingStep
<1>3. /\ chain \in Seq(Nodes) /\ met \in SUBSET Nodes /\ edge.parent \in met
      /\ chain[1] = edge.parent
      /\ \A i \in 1..(Len(chain) - 1) : In(chain[i + 1], parents[chain[i]])
      /\ \A n \in met :
            In(n, chain) \/ (n # edge.child /\ \A m \in Nodes : In(m, parents[n]) => m \in met)
  BY <1>1 DEF PInv, RingSearch
<1>4. /\ last \in Nodes /\ chain' \in Seq(Nodes) /\ Len(chain') = Len(chain) - 1 /\ Len(chain) \in Nat
      /\ \A i \in 1..(Len(chain) - 1) : chain'[i] = chain[i]
      /\ \A y : In(y, chain) <=> y = last \/ In(y, chain')
  <2>1. /\ last \in Nodes /\ Front(chain) \in Seq(Nodes) /\ Len(Front(chain)) = Len(chain) - 1
        /\ \A i \in 1..(Len(chain) - 1) : Front(chain)[i] = chain[i]
        /\ \A y : In(y, chain) <=> y = last \/ In(y, Front(chain))
    BY <1>1, <1>3, LastFront
  <2>2. Len(chain) \in Nat
    BY <1>3
  <2>. HIDE DEF last
  <2>. QED
    BY <1>1, <2>1, <2>2
<1>5. \A m \in Nodes : In(m, parents[last]) => m \in met
  BY <1>1 DEF Unmet, In
<1>. HIDE DEF last
<1>6. \A n \in met :
         In(n, chain') \/ (n # edge.child /\ \A m \in Nodes : In(m, parents[n]) => m \in met)
  BY <1>1, <1>3, <1>4, <1>5
<1>7. \A i \in 1..(Len(chain') - 1) : In(chain'[i + 1], parents[chain'[i]])
  <2>. SUFFICES ASSUME NEW i \in 1..(Len(chain) - 1 - 1)
                PROVE  In(chain'[i + 1], parents[chain'[i]])
    BY <1>4
  <2>1. i \in 1..(Len(chain) - 1) /\ i + 1 \in 1..(Len(chain) - 1)
    BY <1>4
  <2>. QED
    BY <1>3, <1>4, <2>1
<1>8. chain' # <<>> => chain'[1] = edge.parent
  <2>. SUFFICES ASSUME chain' # <<>> PROVE chain'[1] = edge.parent
    OBVIOUS
  <2>1. 1 \in 1..(Len(chain) - 1)
    BY <1>4
  <2>. QED
    BY <1>3, <1>4, <2>1
<1>9. RingSearch'
  BY <1>1, <1>2, <1>3, <1>4, <1>6, <1>7, <1>8 DEF RingSearch, In
<1>. QED
  BY <1>1, <1>2, <1>9 DEF PInv

LEMMA ReportRingKeepsPInv ==
    ASSUME PInv, ReportRing
    PROVE  PInv'
<1>. USE DEF PInv, ReportRing
<1>. DEFINE c == edge.child
            p == edge.parent
            n == Len(chain)
<1>1. /\ phase = "ring" /\ phase' = "done" /\ (chain = <<>> \/ Last(chain) = c)
      /\ report' = RingNames
      /\ UNCHANGED <<kernelVars, input, at, sup, chain, met>>
  OBVIOUS
<1>2. KInv' /\ UNCHANGED <<count, parents, pc, answer, edge>> /\ Nodes' = Nodes
  BY <1>1, StutterKeepsKInv DEF kernelVars, graphVars, walkVars, Nodes
<1>3. /\ Declarations' = Declarations
      /\ \A i : Name(i)' = Name(i)
      /\ \A x, y : Extends(x, y)' <=> Extends(x, y)
  BY <1>1, SameInput
<1>4. NodesFirst' /\ EdgesMean'
  BY <1>1, <1>2, <1>3 DEF NodesFirst, EdgesMean, Linking, In
<1>5. EdgeInHand' /\ AnswersMean' /\ RingSearch'
  BY <1>1 DEF EdgeInHand, InHand, AnswersMean, RingSearch
<1>6. p \in Nodes /\ c \in Nodes /\ Extends(Name(c + 1), Name(p + 1))
  BY <1>1, InHandMeans DEF InHand
<1>7. /\ chain \in Seq(Nodes) /\ met \in SUBSET Nodes /\ p \in met
      /\ chain # <<>> => chain[1] = p
      /\ \A i \in 1..(n - 1) : In(chain[i + 1], parents[chain[i]])
      /\ \A x \in met : In(x, chain) \/ (x # c /\ \A m \in Nodes : In(m, parents[x]) => m \in met)
  BY <1>1 DEF RingSearch
\* The search cannot fail: what it met would be closed, hold the parent, and not
\* the child, which is an ancestor of the parent.
<1>8. chain # <<>>
  <2>. SUFFICES ASSUME chain = <<>> PROVE FALSE
    OBVIOUS
  <2>1. Closed(met) /\ c \notin met
    BY <1>7, NothingIn DEF Closed
  <2>2. IsAncestor(c, p)
    BY <1>1 DEF AnswersMean
  <2>. QED
    BY <1>7, <2>1, <2>2 DEF IsAncestor
<1>9. n \in Nat /\ n >= 1 /\ chain[1] = p /\ chain[n] = c
  BY <1>1, <1>7, <1>8 DEF Last
<1>10. /\ Len(report') = n + 1
       /\ \A i \in 1..n : report'[i] = Name(chain[i] + 1)
       /\ report'[n + 1] = Name(p + 1)
       /\ report' \in Seq(AllNames)
  <2>1. \A x \in Nodes : Name(x + 1) \in AllNames
    <3>1. \A x \in Nodes : x + 1 \in DOMAIN Declarations
      BY <1>1, Inputs1 DEF NodesFirst, Linking, Nodes
    <3>. QED
      BY <3>1, Inputs1
  <2>2. report' = [i \in 1..(n + 1) |-> Name((IF i <= n THEN chain[i] ELSE p) + 1)]
    BY <1>1 DEF RingNames
  <2>3. \A i \in 1..n : chain[i] \in Nodes
    BY <1>7
  <2>. HIDE DEF n, p, c
  <2>4. \A i \in 1..(n + 1) : (IF i <= n THEN chain[i] ELSE p) \in Nodes
    BY <1>6, <1>9, <2>3
  <2>5. report' \in [1..(n + 1) -> AllNames]
    BY <2>1, <2>2, <2>4
  <2>. QED
    BY <1>9, <2>2, <2>5
<1>11. RingIsCycle'
  <2>1. \A i \in 1..n : Extends(report'[i], report'[i + 1])
    <3>. SUFFICES ASSUME NEW i \in 1..n PROVE Extends(report'[i], report'[i + 1])
      OBVIOUS
    <3>1. CASE i = n
      BY <1>6, <1>9, <1>10, <3>1
    <3>2. CASE i # n
      <4>1. i \in 1..(n - 1) /\ i + 1 \in 1..n
        BY <1>9, <3>2
      <4>2. chain[i] \in Nodes /\ chain[i + 1] \in Nodes /\ In(chain[i + 1], parents[chain[i]])
        BY <1>7, <4>1
      <4>3. Extends(Name(chain[i] + 1), Name(chain[i + 1] + 1))
        BY <1>1, <4>2 DEF EdgesMean, Linking
      <4>. QED
        BY <1>10, <4>1, <4>3
    <3>. QED
      BY <3>1, <3>2
  <2>2. Len(report') > 1 /\ report'[1] = report'[Len(report')] /\ Len(report') - 1 = n
    BY <1>9, <1>10
  <2>. HIDE DEF n
  <2>. QED
    BY <1>3, <2>1, <2>2 DEF RingIsCycle
<1>12. AllLinked' /\ Reported'
  <2>1. report' # NoRing
    BY <1>10, PassAssumption
  <2>. QED
    BY <1>1, <1>10, <1>11, <2>1 DEF AllLinked, Reported
<1>. QED
  BY <1>1, <1>2, <1>4, <1>5, <1>12

LEMMA OtherClientKeepsPInv ==
    ASSUME PInv, KInv', phase = "free" \/ UNCHANGED kernelVars, UNCHANGED <<input, passVars>>
    PROVE  PInv'
<1>. USE DEF PInv, passVars
<1>1. /\ Declarations' = Declarations /\ Names' = Names
      /\ \A i : Supers(i)' = Supers(i) /\ Name(i)' = Name(i)
      /\ \A x : IdOf(x)' = IdOf(x)
      /\ \A x, y : Extends(x, y)' <=> Extends(x, y)
  BY SameInput
<1>2. Reported'
  BY <1>1 DEF Reported, RingIsCycle
<1>3. CASE phase = "free"
  BY <1>2, <1>3 DEF NodesFirst, EdgesMean, Linking, EdgeInHand, InHand, AnswersMean, AllLinked, RingSearch
<1>4. CASE UNCHANGED kernelVars
  <2>1. UNCHANGED <<count, parents, pc, answer, edge>> /\ Nodes' = Nodes
    BY <1>4 DEF kernelVars, graphVars, walkVars, Nodes
  <2>2. NodesFirst' /\ EdgesMean'
    BY <1>1, <2>1 DEF NodesFirst, EdgesMean, Linking, In
  <2>3. EdgeInHand'
    <3>1. Super' = Super
      BY <1>1 DEF Super
    <3>. QED
      BY <1>1, <2>1, <3>1 DEF EdgeInHand, InHand
  <2>4. AnswersMean'
    <3>1. \A a, n : IsAncestor(a, n)' <=> IsAncestor(a, n)
      BY <2>1, SameAncestors
    <3>. QED
      BY <2>1, <3>1 DEF AnswersMean, In
  <2>5. AllLinked' /\ RingSearch'
    BY <1>1, <2>1 DEF AllLinked, Visited, RingSearch, In
  <2>. QED
    BY <1>2, <2>2, <2>3, <2>4, <2>5
<1>. QED
  BY <1>3, <1>4

LEMMA StepKeepsPInv ==
    ASSUME PInv, [Next]_vars
    PROVE  PInv'
<1>1. CASE PassNext
  BY <1>1, AddDeclarationKeepsPInv, SkipUnknownKeepsPInv, LinkEdgeKeepsPInv, WalkEdgeKeepsPInv,
     EdgeLinkedKeepsPInv, SelfRefusedKeepsPInv, RingFromKeepsPInv, NextDeclarationKeepsPInv,
     NoCycleKeepsPInv, ExtendKeepsPInv, BackUpKeepsPInv, ReportRingKeepsPInv DEF PassNext
<1>2. CASE FreeNext
  <2>1. KInv'
    BY <1>2, StepKeepsKInv DEF FreeNext, PInv
  <2>. QED
    BY <1>2, <2>1, OtherClientKeepsPInv DEF FreeNext
<1>3. CASE UNCHANGED vars
  <2>1. KInv'
    BY <1>3, StutterKeepsKInv DEF vars, PInv
  <2>. QED
    BY <1>3, <2>1, OtherClientKeepsPInv DEF vars
<1>. QED
  BY <1>1, <1>2, <1>3 DEF Next

-----------------------------------------------------------------------------
(* The theorems. *)

\* PInv is an invariant of a pass over any compilation.
THEOREM PInvHolds == Spec => []PInv
<1>1. PInv /\ [Next]_vars => PInv'
  BY StepKeepsPInv
<1>. QED
  BY InitPInv, <1>1, PTL DEF Spec

\* The graphs that the passes build keep the kernel's invariants.
THEOREM PassKeepsKernel == Spec => [](KernelTypeOK /\ WellFormed /\ Acyclic)
<1>1. PInv => KernelTypeOK /\ WellFormed /\ Acyclic
  BY DEF PInv, KInv
<1>. QED
  BY PInvHolds, <1>1, PTL

\* A ring that detect_inheritance_cycles or detect_actor_cycles reports is a
\* cycle of what the declarations extend.
THEOREM RingsAreCycles == Spec => []RingIsCycle
<1>1. PInv => RingIsCycle
  BY DEF PInv, Reported
<1>. QED
  BY PInvHolds, <1>1, PTL

\* A pass that is done has reported a ring exactly when there is a cycle.
THEOREM ReportsExactlyCycles == Spec => []ReportsIffCyclic
<1>1. ASSUME PInv, phase = "done", report = NoRing,
             NEW S \in SUBSET Names, S # {}
      PROVE  \E x \in S : \A y \in S : ~Extends(x, y)
  <2>. USE <1>1 DEF PInv
  <2>. DEFINE T == {IdOf(x) : x \in S}
  <2>1. T \in SUBSET Nodes /\ T # {}
    BY IdsAreTheirs DEF NodesFirst, Linking, Nodes
  <2>2. PICK x \in S : \A m \in T : ~In(m, parents[IdOf(x)])
    BY <2>1 DEF KInv, Acyclic
  <2>3. ASSUME NEW y \in S, Extends(x, y)
        PROVE  FALSE
    <3>1. PICK i \in DOMAIN Declarations : Name(i) = x /\ In(y, Supers(i))
      BY <2>3 DEF Extends
    <3>2. PICK j \in DOMAIN Supers(i) : Supers(i)[j] = y
      BY <3>1, SupersAreNames DEF In
    <3>3. In(IdOf(y), parents[IdOf(x)])
      BY <3>1, <3>2 DEF AllLinked
    <3>. QED
      BY <2>2, <3>3
  <2>. QED
    BY <2>3
<1>2. ASSUME PInv, report # NoRing
      PROVE  \E S \in SUBSET Names : S # {} /\ \A x \in S : \E y \in S : Extends(x, y)
  <2>. DEFINE n == Len(report) - 1
              S == {report[i] : i \in 1..n}
  <2>1. Len(report) > 1 /\ report[1] = report[Len(report)] /\ \A i \in 1..n : Extends(report[i], report[i + 1])
    BY <1>2 DEF PInv, Reported, RingIsCycle
  <2>2. S \in SUBSET Names
    BY <2>1 DEF Extends, Names
  <2>3. n \in Nat /\ n >= 1
    <3>1. Len(report) \in Nat
      BY <1>2 DEF PInv, Reported
    <3>. QED
      BY <2>1, <3>1
  <2>4. ASSUME NEW i \in 1..n
        PROVE  report[i + 1] \in S
    <3>1. CASE i = n
      <4>1. report[n + 1] = report[1] /\ 1 \in 1..n
        BY <2>1, <2>3
      <4>. QED
        BY <3>1, <4>1
    <3>2. CASE i # n
      <4>1. i + 1 \in 1..n
        BY <2>3, <3>2
      <4>. QED
        BY <4>1
    <3>. QED
      BY <3>1, <3>2
  <2>5. S # {}
    <3>1. 1 \in 1..n
      BY <2>3
    <3>2. report[1] \in S
      BY <3>1
    <3>. QED
      BY <3>2
  <2>6. \A x \in S : \E y \in S : Extends(x, y)
    BY <2>1, <2>4
  <2>. QED
    BY <2>2, <2>5, <2>6
<1>3. PInv => ReportsIffCyclic
  BY <1>1, <1>2 DEF ReportsIffCyclic
<1>. QED
  BY PInvHolds, <1>3, PTL

\* Both halves of what the runs check of a report: a pass reports a ring exactly
\* when the declarations have a cycle, and the ring is one.
THEOREM ReportsHold == Spec => []ReportsAreRight
<1>1. RingIsCycle /\ ReportsIffCyclic => ReportsAreRight
  BY DEF ReportsAreRight
<1>. QED
  BY RingsAreCycles, ReportsExactlyCycles, <1>1, PTL
=============================================================================
