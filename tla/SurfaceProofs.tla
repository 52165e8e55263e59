----------------------------- MODULE SurfaceProofs -----------------------------
(***************************************************************************)
(* What an accepted file of a surface promises, for every file: proofs      *)
(* about the compilation of SurfaceEngine.                                 *)
(***************************************************************************)
EXTENDS SurfaceEngine, FiniteSetTheorems, SequenceTheorems, WellFoundedInduction, TLAPS

-----------------------------------------------------------------------------
(* Lists and errors.                                                       *)

LEMMA NoErrorWhen ==
  ASSUME NEW condition \in BOOLEAN, NEW element, When(condition, element) = {}
  PROVE  ~condition
BY DEF When

LEMMA ListOf ==
  ASSUME NEW S, NEW s \in Seq(S)
  PROVE  IsList(s) /\ Range(s) \subseteq S /\ Len(s) \in Nat /\ DOMAIN s = 1..Len(s)
<1>1. Len(s) \in Nat /\ s \in [1..Len(s) -> S]
  OBVIOUS
<1>2. \A i \in 1..Len(s) : s[i] \in Range(s) /\ s[i] \in S
  BY <1>1 DEF Range
<1>3. s \in [1..Len(s) -> Range(s)]
  BY <1>1, <1>2
<1>4. s \in Seq(Range(s))
  BY <1>1, <1>3, SeqDef
<1> QED BY <1>1, <1>2, <1>4 DEF IsList, Range

LEMMA ListAppend ==
  ASSUME NEW s, NEW e, IsList(s)
  PROVE  /\ IsList(Append(s, e))
         /\ Len(s) \in Nat /\ DOMAIN s = 1..Len(s)
         /\ DOMAIN Append(s, e) = 1..(Len(s) + 1)
         /\ \A i \in DOMAIN s : Append(s, e)[i] = s[i]
         /\ Append(s, e)[Len(s) + 1] = e
         /\ Range(Append(s, e)) = Range(s) \cup {e}
<1> DEFINE t == Append(s, e)
<1>1. s \in Seq(Range(s)) /\ s \in Seq(Range(s) \cup {e})
  BY DEF IsList
<1>2. t \in Seq(Range(s) \cup {e}) /\ Len(t) = Len(s) + 1 /\ DOMAIN t = 1..(Len(s) + 1)
      /\ Len(s) \in Nat /\ DOMAIN s = 1..Len(s)
  BY <1>1
<1>3. (\A i \in DOMAIN s : t[i] = s[i]) /\ t[Len(s) + 1] = e
  BY <1>1, <1>2
<1>4. Range(t) = Range(s) \cup {e}
  <2>1. Range(t) \subseteq Range(s) \cup {e}
    BY <1>2, <1>3 DEF Range
  <2>2. ASSUME NEW x \in Range(s) PROVE x \in Range(t)
    <3>1. PICK i \in DOMAIN s : x = s[i]
      BY DEF Range
    <3>2. i \in DOMAIN t /\ t[i] = x
      BY <3>1, <1>2, <1>3
    <3> QED BY <3>2 DEF Range
  <2>3. e \in Range(t)
    BY <1>2, <1>3 DEF Range
  <2> QED BY <2>1, <2>2, <2>3
<1> HIDE DEF t
<1>5. IsList(t)
  BY <1>2, <1>4 DEF IsList
<1> QED BY <1>2, <1>3, <1>4, <1>5 DEF t

LEMMA ListTail ==
  ASSUME NEW s, IsList(s), s # <<>>
  PROVE  /\ IsList(Tail(s)) /\ Head(s) \in Range(s) /\ Range(Tail(s)) \subseteq Range(s)
         /\ Len(s) \in Nat /\ Len(Tail(s)) = Len(s) - 1 /\ Len(s) > 0
         /\ \A i \in 1..(Len(s) - 1) : Tail(s)[i] = s[i + 1]
<1> DEFINE t == Tail(s)
<1>1. s \in Seq(Range(s)) /\ Len(s) \in Nat /\ Len(s) > 0 /\ DOMAIN s = 1..Len(s)
  BY DEF IsList
<1>2. t \in Seq(Range(s)) /\ Len(t) = Len(s) - 1 /\ DOMAIN t = 1..(Len(s) - 1)
      /\ \A i \in 1..(Len(s) - 1) : t[i] = s[i + 1]
  BY <1>1
<1>3. Head(s) \in Range(s)
  BY <1>1 DEF Range
<1>4. Range(t) \subseteq Range(s)
  BY <1>1, <1>2 DEF Range
<1>5. IsList(t)
  BY <1>2, ListOf
<1> QED BY <1>1, <1>2, <1>3, <1>4, <1>5

LEMMA ListConcat ==
  ASSUME NEW s, NEW t, IsList(s), IsList(t)
  PROVE  /\ IsList(s \o t) /\ Range(s \o t) = Range(s) \cup Range(t)
         /\ Len(s) \in Nat /\ Len(t) \in Nat /\ Len(s \o t) = Len(s) + Len(t)
         /\ \A i \in 1..Len(s) : (s \o t)[i] = s[i]
         /\ \A i \in 1..Len(t) : (s \o t)[Len(s) + i] = t[i]
<1> DEFINE S == Range(s) \cup Range(t)
           u == s \o t
<1>1. s \in Seq(S) /\ t \in Seq(S)
  BY DEF IsList
<1>2. u \in Seq(S) /\ Len(u) = Len(s) + Len(t) /\ Len(s) \in Nat /\ Len(t) \in Nat
      /\ DOMAIN s = 1..Len(s) /\ DOMAIN t = 1..Len(t) /\ DOMAIN u = 1..(Len(s) + Len(t))
  BY <1>1
<1>3. /\ \A i \in 1..Len(s) : u[i] = s[i]
      /\ \A i \in 1..Len(t) : u[Len(s) + i] = t[i]
  BY <1>1, <1>2
<1> HIDE DEF u
<1>4. IsList(u) /\ Range(u) \subseteq S
  BY <1>2, ListOf
<1>5. ASSUME NEW x \in Range(s) PROVE x \in Range(u)
  <2>1. PICK i \in 1..Len(s) : x = s[i]
    BY <1>2 DEF Range
  <2>2. i \in DOMAIN u /\ u[i] = x
    BY <2>1, <1>2, <1>3
  <2> QED BY <2>2 DEF Range
<1>6. ASSUME NEW x \in Range(t) PROVE x \in Range(u)
  <2>1. PICK i \in 1..Len(t) : x = t[i]
    BY <1>2 DEF Range
  <2>2. Len(s) + i \in DOMAIN u /\ u[Len(s) + i] = x
    BY <2>1, <1>2, <1>3
  <2> QED BY <2>2 DEF Range
<1> QED BY <1>2, <1>3, <1>4, <1>5, <1>6 DEF u

LEMMA ItemsAreListed ==
  ASSUME NEW kind, NEW items, IsList(items)
  PROVE  /\ IsList(Items(kind, items))
         /\ \A x \in Range(Items(kind, items)) : x.kind = kind /\ x.item \in Range(items)
<1> DEFINE s == Items(kind, items)
           S == Range(s)
<1>1. Len(items) \in Nat /\ DOMAIN items = 1..Len(items)
  BY DEF IsList
<1>2. s = [i \in 1..Len(items) |-> [kind |-> kind, item |-> items[i]]]
  BY <1>1 DEF Items
<1>3. s \in [1..Len(items) -> S]
  BY <1>2 DEF Range
<1>4. s \in Seq(S)
  BY <1>1, <1>3, SeqDef
<1>5. \A x \in Range(s) : x.kind = kind /\ x.item \in Range(items)
  BY <1>1, <1>2 DEF Range
<1> QED BY <1>4, <1>5 DEF IsList

-----------------------------------------------------------------------------
(* What a walk along edges reaches.                                        *)

LEMMA SetInduction ==
  ASSUME NEW S, 0 \in S, \A n \in Nat : n \in S => n + 1 \in S
  PROVE  Nat \subseteq S
<1> SUFFICES ASSUME NEW bad \in Nat, bad \notin S PROVE FALSE
  OBVIOUS
<1> DEFINE R == OpToRel(<, Nat)
           Bad == Nat \ S
<1>1. IsWellFoundedOn(R, Nat)
  BY NatLessThanWellFounded
<1>2. \A a, b \in Nat : <<a, b>> \in R <=> a < b
  BY DEF OpToRel
<1> HIDE DEF R
<1>3. PICK n \in Bad : \A m \in Bad : ~(<<m, n>> \in R)
  BY <1>1, WFMin
<1>4. n \in Nat /\ n # 0 /\ n - 1 \in Nat
  BY <1>3
<1>5. n - 1 \notin Bad
  <2>1. n - 1 < n /\ n \in Nat
    BY <1>4
  <2>2. <<n - 1, n>> \in R
    BY <1>2, <1>4, <2>1
  <2> QED BY <1>3, <2>2
<1> QED BY <1>3, <1>4, <1>5

\* The walk of ReachedFrom, step by step.
Near(edges, start, n, f) ==
  f = [k \in 0..n |-> IF k = 0 THEN Successors(edges, {start})
                      ELSE f[k - 1] \cup Successors(edges, f[k - 1])]

LEMMA NearExists ==
  ASSUME NEW edges, NEW start
  PROVE  \A n \in Nat : \E f : Near(edges, start, n, f)
<1> DEFINE S == {n \in Nat : \E f : Near(edges, start, n, f)}
<1>1. 0 \in S
  <2> DEFINE f == [k \in 0..0 |-> Successors(edges, {start})]
  <2>1. Near(edges, start, 0, f)
    BY DEF Near
  <2> QED BY <2>1
<1>2. ASSUME NEW n \in Nat, n \in S PROVE n + 1 \in S
  <2>1. PICK g : Near(edges, start, n, g)
    BY <1>2
  <2> DEFINE f == [k \in 0..(n + 1) |-> IF k = n + 1 THEN g[n] \cup Successors(edges, g[n]) ELSE g[k]]
  <2>2. ASSUME NEW k \in 0..(n + 1)
        PROVE  f[k] = IF k = 0 THEN Successors(edges, {start}) ELSE f[k - 1] \cup Successors(edges, f[k - 1])
    <3>1. CASE k = n + 1
      <4>1. f[k] = g[n] \cup Successors(edges, g[n]) /\ f[k - 1] = g[n] /\ k # 0
        BY <3>1
      <4> QED BY <4>1
    <3>2. CASE k # n + 1
      <4>1. k \in 0..n /\ f[k] = g[k] /\ (k # 0 => f[k - 1] = g[k - 1])
        BY <3>2
      <4>2. g[k] = IF k = 0 THEN Successors(edges, {start}) ELSE g[k - 1] \cup Successors(edges, g[k - 1])
        BY <2>1, <4>1 DEF Near
      <4> QED BY <4>1, <4>2
    <3> QED BY <3>1, <3>2
  <2>3. Near(edges, start, n + 1, f)
    <3>1. f = [k \in 0..(n + 1) |-> f[k]]
      OBVIOUS
    <3> HIDE DEF f
    <3> QED BY <2>2, <3>1 DEF Near
  <2> QED BY <2>3
<1> HIDE DEF S
<1>3. Nat \subseteq S
  BY <1>1, <1>2, SetInduction
<1> QED BY <1>3 DEF S

\* It is closed under the edges, and least.
THEOREM ReachedFromIsLeast ==
  ASSUME NEW edges, NEW start, IsFiniteSet(edges)
  PROVE  LET R == ReachedFrom(edges, start)
         IN  /\ Successors(edges, {start}) \subseteq R
             /\ \A e \in edges : e[1] \in R => e[2] \in R
             /\ \A C : /\ Successors(edges, {start}) \subseteq C
                       /\ \A e \in edges : e[1] \in C => e[2] \in C
                       => R \subseteq C
<1> DEFINE N == Cardinality(edges)
           T == {e[2] : e \in edges}
           f == CHOOSE g : Near(edges, start, N, g)
           Closed(C) == \A e \in edges : e[1] \in C => e[2] \in C
<1>1. N \in Nat
  BY FS_CardinalityType
<1>2. Near(edges, start, N, f)
  BY <1>1, NearExists
<1>3. ReachedFrom(edges, start) = f[N]
  BY DEF ReachedFrom, Near
<1> HIDE DEF N, f
<1>4. /\ f[0] = Successors(edges, {start})
      /\ \A k \in 1..N : f[k] = f[k - 1] \cup Successors(edges, f[k - 1])
  <2>1. \A k \in 0..N : f[k] = IF k = 0 THEN Successors(edges, {start})
                                ELSE f[k - 1] \cup Successors(edges, f[k - 1])
    BY <1>2 DEF Near
  <2>2. 0 \in 0..N /\ \A k \in 1..N : k \in 0..N /\ k # 0
    BY <1>1
  <2> QED BY <2>1, <2>2
<1>5. ASSUME NEW C, Successors(edges, {start}) \subseteq C, Closed(C)
      PROVE  f[N] \subseteq C
  <2> DEFINE S == {k \in Nat : k <= N => f[k] \subseteq C}
  <2>1. 0 \in S
    BY <1>4, <1>5
  <2>2. ASSUME NEW k \in Nat, k \in S PROVE k + 1 \in S
    <3> SUFFICES ASSUME k + 1 <= N PROVE f[k + 1] \subseteq C
      OBVIOUS
    <3>1. f[k] \subseteq C /\ f[k + 1] = f[k] \cup Successors(edges, f[k])
      BY <1>1, <1>4, <2>2
    <3> QED BY <3>1, <1>5 DEF Successors
  <2> HIDE DEF S
  <2>3. Nat \subseteq S
    BY <2>1, <2>2, SetInduction
  <2> QED BY <2>3, <1>1 DEF S
<1>6. Successors(edges, {start}) \subseteq f[N]
  <2> DEFINE S == {k \in Nat : k <= N => Successors(edges, {start}) \subseteq f[k]}
  <2>1. 0 \in S
    BY <1>4
  <2>2. ASSUME NEW k \in Nat, k \in S PROVE k + 1 \in S
    <3> SUFFICES ASSUME k + 1 <= N PROVE Successors(edges, {start}) \subseteq f[k + 1]
      OBVIOUS
    <3>1. Successors(edges, {start}) \subseteq f[k]
      BY <1>1, <2>2
    <3>2. f[k + 1] = f[k] \cup Successors(edges, f[k])
      BY <1>1, <1>4
    <3> QED BY <3>1, <3>2
  <2> HIDE DEF S
  <2>3. Nat \subseteq S
    BY <2>1, <2>2, SetInduction
  <2> QED BY <2>3, <1>1 DEF S
<1>7. IsFiniteSet(T) /\ Cardinality(T) <= N
  <2> DEFINE g == [e \in edges |-> e[2]]
  <2>1. g \in Surjection(edges, T)
    BY DEF Surjection
  <2> HIDE DEF g
  <2> QED BY <2>1, FS_Surjection DEF N
<1>8. f[N] \subseteq T
  BY <1>5 DEF Successors
<1>9. ASSUME Successors(edges, {start}) # {} PROVE Closed(f[N])
  <2> DEFINE Grown(k) == /\ f[k] \subseteq T
                         /\ Closed(f[k]) \/ Cardinality(f[k]) >= k + 1
             S == {k \in Nat : k <= N => Grown(k)}
  <2>1. 0 \in S
    <3>1. f[0] \subseteq T /\ f[0] # {}
      BY <1>4, <1>9 DEF Successors
    <3>2. IsFiniteSet(f[0]) /\ Cardinality(f[0]) \in Nat /\ Cardinality(f[0]) # 0
      BY <3>1, <1>7, FS_Subset, FS_CardinalityType, FS_EmptySet
    <3> QED BY <3>1, <3>2
  <2>2. ASSUME NEW k \in Nat, k \in S PROVE k + 1 \in S
    <3> SUFFICES ASSUME k + 1 <= N
                 PROVE  /\ f[k + 1] \subseteq T
                        /\ Closed(f[k + 1]) \/ Cardinality(f[k + 1]) >= (k + 1) + 1
      OBVIOUS
    <3>1. f[k] \subseteq T /\ (Closed(f[k]) \/ Cardinality(f[k]) >= k + 1)
      <4> HIDE DEF Grown
      <4>1. Grown(k)
        BY <1>1, <2>2
      <4> QED BY <4>1 DEF Grown
    <3>2. f[k + 1] = f[k] \cup Successors(edges, f[k])
      BY <1>1, <1>4
    <3>3. f[k + 1] \subseteq T
      BY <3>1, <3>2 DEF Successors
    <3>4. CASE Closed(f[k])
      <4>1. f[k + 1] = f[k]
        BY <3>2, <3>4 DEF Successors
      <4> QED BY <3>3, <3>4, <4>1
    <3>5. CASE ~Closed(f[k])
      <4>1. PICK e \in edges : e[1] \in f[k] /\ e[2] \notin f[k]
        BY <3>5
      <4>2. e[2] \in f[k + 1]
        BY <3>2, <4>1 DEF Successors
      <4>3. f[k] \cup {e[2]} \subseteq f[k + 1]
        BY <3>2, <4>2
      <4>4. IsFiniteSet(f[k]) /\ IsFiniteSet(f[k + 1])
        BY <1>7, <3>1, <3>3, FS_Subset
      <4>5. Cardinality(f[k] \cup {e[2]}) = Cardinality(f[k]) + 1
        BY <4>1, <4>4, FS_AddElement
      <4>6. Cardinality(f[k] \cup {e[2]}) <= Cardinality(f[k + 1])
        BY <4>3, <4>4, FS_Subset
      <4>7. Cardinality(f[k]) \in Nat /\ Cardinality(f[k + 1]) \in Nat
        BY <4>4, FS_CardinalityType
      <4> QED BY <3>1, <3>3, <3>5, <4>5, <4>6, <4>7
    <3> QED BY <3>4, <3>5
  <2> HIDE DEF S
  <2>3. Nat \subseteq S
    BY <2>1, <2>2, SetInduction
  <2>4. Closed(f[N]) \/ Cardinality(f[N]) >= N + 1
    BY <2>3, <1>1 DEF S
  <2>5. Cardinality(f[N]) <= Cardinality(T) /\ Cardinality(f[N]) \in Nat /\ Cardinality(T) \in Nat
    BY <1>7, <1>8, FS_Subset, FS_CardinalityType
  <2> QED BY <2>4, <2>5, <1>1, <1>7
<1>10. ASSUME Successors(edges, {start}) = {} PROVE Closed(f[N])
  BY <1>5, <1>10
<1> QED BY <1>3, <1>5, <1>6, <1>9, <1>10

LEMMA ListIsFinite ==
  ASSUME NEW s, IsList(s)
  PROVE  IsFiniteSet(Range(s)) /\ IsFiniteSet(DOMAIN s)
<1>1. Len(s) \in Nat /\ DOMAIN s = 1..Len(s)
  BY DEF IsList
<1>2. IsFiniteSet(1..Len(s))
  BY <1>1, FS_Interval
<1> DEFINE g == [i \in DOMAIN s |-> s[i]]
<1>3. g \in Surjection(DOMAIN s, Range(s))
  BY DEF Surjection, Range
<1> HIDE DEF g
<1> QED BY <1>1, <1>2, <1>3, FS_Surjection

LEMMA LeastIn ==
  ASSUME NEW T \in SUBSET Nat, T # {}
  PROVE  LET k == CHOOSE i \in T : \A j \in T : i <= j
         IN  k \in T /\ \A j \in T : k <= j
<1> DEFINE S == {n \in Nat : \A j \in Nat : j <= n => j \notin T}
<1> SUFFICES \E i \in T : \A j \in T : i <= j
  OBVIOUS
<1> SUFFICES ASSUME \A i \in T : \E j \in T : ~(i <= j) PROVE FALSE
  OBVIOUS
<1>0. \A i \in T : \E j \in T : j < i
  OBVIOUS
<1>1. 0 \in S
  BY <1>0
<1>2. ASSUME NEW n \in Nat, n \in S PROVE n + 1 \in S
  <2>1. \A j \in Nat : j <= n => j \notin T
    BY <1>2
  <2>2. n + 1 \notin T
    BY <1>0, <2>1
  <2>3. ASSUME NEW j \in Nat, j <= n + 1 PROVE j \notin T
    <3>1. j <= n \/ j = n + 1
      BY <2>3
    <3> QED BY <2>1, <2>2, <3>1
  <2> QED BY <2>3
<1> HIDE DEF S
<1>3. Nat \subseteq S
  BY <1>1, <1>2, SetInduction
<1>4. PICK i \in T : TRUE
  OBVIOUS
<1>5. i \in S /\ i \in Nat
  BY <1>3
<1> QED BY <1>4, <1>5 DEF S

\* Where no edge starts a way back to its start, every set of nodes has one
\* that no edge from the set leads to.
THEOREM AcyclicHasFirst ==
  ASSUME NEW edges, IsFiniteSet(edges), \A e \in edges : ~Reaches(edges, e[1], e[1]),
         NEW S, S # {}
  PROVE  \E n \in S : \A e \in edges : e[2] = n => e[1] \notin S
<1> SUFFICES ASSUME \A n \in S : \E e \in edges : e[2] = n /\ e[1] \in S
             PROVE  FALSE
  OBVIOUS
<1> DEFINE R(n) == ReachedFrom(edges, n)
           T == {e[2] : e \in edges}
           K == {Cardinality(T) - Cardinality(R(n)) : n \in S}
<1>1. IsFiniteSet(T)
  <2> DEFINE g == [e \in edges |-> e[2]]
  <2>1. g \in Surjection(edges, T)
    BY DEF Surjection
  <2> HIDE DEF g
  <2> QED BY <2>1, FS_Surjection
<1>2. ASSUME NEW n
      PROVE  /\ \A e \in edges : e[1] = n \/ e[1] \in R(n) => e[2] \in R(n)
             /\ R(n) \subseteq T
             /\ \A C : (\A e \in edges : e[1] = n \/ e[1] \in C => e[2] \in C) => R(n) \subseteq C
  <2>1. /\ Successors(edges, {n}) \subseteq R(n)
        /\ \A e \in edges : e[1] \in R(n) => e[2] \in R(n)
        /\ \A C : /\ Successors(edges, {n}) \subseteq C
                  /\ \A e \in edges : e[1] \in C => e[2] \in C
                  => R(n) \subseteq C
    BY ReachedFromIsLeast
  <2> HIDE DEF R
  <2>2. \A e \in edges : e[1] = n => e[2] \in Successors(edges, {n})
    BY DEF Successors
  <2>3. \A C : (\A e \in edges : e[1] = n => e[2] \in C) => Successors(edges, {n}) \subseteq C
    BY DEF Successors
  <2>4. \A C : (\A e \in edges : e[1] = n \/ e[1] \in C => e[2] \in C) => R(n) \subseteq C
    BY <2>1, <2>3
  <2>5. R(n) \subseteq T
    <3>1. \A e \in edges : e[2] \in T
      OBVIOUS
    <3> HIDE DEF T
    <3> QED BY <2>4, <3>1
  <2> QED BY <2>1, <2>2, <2>4, <2>5
<1> HIDE DEF R
<1>3. ASSUME NEW n PROVE n \notin R(n)
  <2>1. SUFFICES ASSUME n \in R(n) PROVE FALSE
    OBVIOUS
  <2>2. ~(R(n) \subseteq {})
    BY <2>1
  <2>3. \E e \in edges : e[1] = n
    <3>1. SUFFICES ASSUME \A e \in edges : e[1] # n PROVE FALSE
      OBVIOUS
    <3> DEFINE None == {}
    <3>2. \A e \in edges : e[1] = n \/ e[1] \in None => e[2] \in None
      BY <3>1
    <3>3. ~(R(n) \subseteq None)
      BY <2>2
    <3> HIDE DEF None
    <3> QED BY <1>2, <3>2, <3>3
  <2> QED BY <2>1, <2>3 DEF R, Reaches
<1>4. ASSUME NEW n PROVE IsFiniteSet(R(n)) /\ Cardinality(R(n)) \in Nat /\ Cardinality(T) - Cardinality(R(n)) \in Nat
  <2>1. R(n) \in SUBSET T
    BY <1>2
  <2>2. IsFiniteSet(R(n)) /\ Cardinality(R(n)) <= Cardinality(T)
    BY <2>1, <1>1, FS_Subset
  <2>3. Cardinality(R(n)) \in Nat /\ Cardinality(T) \in Nat
    BY <2>2, <1>1, FS_CardinalityType
  <2> QED BY <2>2, <2>3
<1>5. K \in SUBSET Nat /\ K # {}
  BY <1>4
<1>6. PICK k \in K : \A j \in K : k <= j
  <2> HIDE DEF K
  <2> QED BY <1>5, LeastIn
<1>7. PICK n \in S : k = Cardinality(T) - Cardinality(R(n))
  OBVIOUS
<1>8. PICK e \in edges : e[2] = n /\ e[1] \in S
  OBVIOUS
<1> DEFINE m == e[1]
<1>9. R(n) \cup {n} \subseteq R(m)
  <2>1. n \in R(m)
    BY <1>2, <1>8
  <2>2. \A d \in edges : d[1] = n \/ d[1] \in R(m) => d[2] \in R(m)
    BY <1>2, <2>1
  <2> QED BY <1>2, <2>1, <2>2
<1>10. Cardinality(R(n) \cup {n}) = Cardinality(R(n)) + 1
  BY <1>3, <1>4, FS_AddElement
<1>11. Cardinality(R(n) \cup {n}) <= Cardinality(R(m))
  BY <1>9, <1>4, FS_Subset
<1>12. Cardinality(T) - Cardinality(R(m)) \in K
  BY <1>8
<1>13. Cardinality(T) \in Nat
  BY <1>1, FS_CardinalityType
<1> HIDE DEF m, K, T
<1>14. Cardinality(T) - Cardinality(R(n)) <= Cardinality(T) - Cardinality(R(m))
  BY <1>6, <1>7, <1>12
<1> QED BY <1>4, <1>10, <1>11, <1>13, <1>14

-----------------------------------------------------------------------------
(* Event contracts: every step of one lowers one declaration.              *)

EventKinds == {"event", "channel", "subscription"}

EventItem(x) ==
  /\ x.kind \in EventKinds
  /\ x.kind = "event" => EventDecl(x.item)
  /\ x.kind = "channel" => ChannelDecl(x.item)
  /\ x.kind = "subscription" => SubscriptionDecl(x.item)

EventState(s) ==
  /\ HasFields(s, {"packages", "events", "channels", "subscriptions", "errors"})
  /\ IsList(s.events) /\ IsList(s.channels) /\ IsList(s.subscriptions)

UniqueEvents(s) == \A i, j \in DOMAIN s.events : s.events[i].name = s.events[j].name => i = j

\* What the declarations lowered so far are for each other, if no error was
\* reported on the way.
Publishable(s) == \A c \in Range(s.channels) : c.publishes \subseteq NamesOf(s.events)

Servable(s, subscription) ==
  /\ Range(subscription.events) \subseteq NamesOf(s.events)
  /\ \A e \in Range(s.events) :
       e.name \in Range(subscription.events) /\ subscription.when # NoName =>
         Fits(subscription.when, e.fields)
  /\ subscription.delivery # NoName /\ subscription.delivery.deadLetter # NoName =>
       subscription.delivery.deadLetter \in NamesOf(s.channels)

EventsFit(s) ==
  s.errors = {} =>
    /\ UniqueEvents(s) /\ Publishable(s)
    /\ \A subscription \in Range(s.subscriptions) : Servable(s, subscription)

EventsInv ==
  input.surface = "evt" =>
    /\ file.parsed => SyntaxTree(input)
    /\ IsList(agenda) /\ \A x \in Range(agenda) : EventItem(x)
    /\ pc = "open" => agenda = <<>> /\ artifact = NoName
    /\ pc # "open" => EventState(st) /\ EventsFit(st)
    /\ artifact # NoName => st.errors = {} /\ artifact = EventArtifact(st) /\ pc = "done"

LEMMA EventsOpen ==
  ASSUME NEW f, f.parsed => EvtFile(f)
  PROVE  /\ EventState(OpenEvents(f)) /\ EventsFit(OpenEvents(f))
         /\ f.parsed => LET a == Items("event", f.declared.events) \o Items("channel", f.declared.channels)
                                   \o Items("subscription", f.declared.subscriptions)
                        IN  IsList(a) /\ \A x \in Range(a) : EventItem(x)
<1> DEFINE s == OpenEvents(f)
<1>1. /\ HasFields(s, {"packages", "events", "channels", "subscriptions", "errors"})
      /\ s.events = <<>> /\ s.channels = <<>> /\ s.subscriptions = <<>>
  BY DEF OpenEvents, HasFields
<1>2. IsList(<<>>) /\ Range(<<>>) = {} /\ DOMAIN <<>> = {}
  BY DEF IsList, Range
<1> HIDE DEF s
<1>3. EventState(s) /\ EventsFit(s)
  BY <1>1, <1>2 DEF EventState, EventsFit, UniqueEvents, Publishable
<1>4. ASSUME f.parsed
      PROVE  LET a == Items("event", f.declared.events) \o Items("channel", f.declared.channels)
                        \o Items("subscription", f.declared.subscriptions)
             IN  IsList(a) /\ \A x \in Range(a) : EventItem(x)
  <2> DEFINE a == Items("event", f.declared.events)
             b == Items("channel", f.declared.channels)
             c == Items("subscription", f.declared.subscriptions)
  <2>1. /\ IsList(f.declared.events) /\ IsList(f.declared.channels) /\ IsList(f.declared.subscriptions)
        /\ \A e \in Range(f.declared.events) : EventDecl(e)
        /\ \A d \in Range(f.declared.channels) : ChannelDecl(d)
        /\ \A d \in Range(f.declared.subscriptions) : SubscriptionDecl(d)
    BY <1>4 DEF EvtFile
  <2>2. /\ IsList(a) /\ \A x \in Range(a) : x.kind = "event" /\ x.item \in Range(f.declared.events)
        /\ IsList(b) /\ \A x \in Range(b) : x.kind = "channel" /\ x.item \in Range(f.declared.channels)
        /\ IsList(c) /\ \A x \in Range(c) : x.kind = "subscription" /\ x.item \in Range(f.declared.subscriptions)
    BY <2>1, ItemsAreListed
  <2> HIDE DEF a, b, c
  <2>3. IsList(a \o b) /\ Range(a \o b) = Range(a) \cup Range(b)
    BY <2>2, ListConcat
  <2>4. IsList((a \o b) \o c) /\ Range((a \o b) \o c) = Range(a) \cup Range(b) \cup Range(c)
    BY <2>2, <2>3, ListConcat
  <2>5. \A x \in Range((a \o b) \o c) : EventItem(x)
    BY <2>1, <2>2, <2>4 DEF EventItem, EventKinds
  <2> QED BY <2>4, <2>5 DEF a, b, c
<1> QED BY <1>3, <1>4 DEF s

LEMMA NamesAppend ==
  ASSUME NEW s, NEW e, IsList(s)
  PROVE  NamesOf(Append(s, e)) = NamesOf(s) \cup {e.name}
<1>1. Range(Append(s, e)) = Range(s) \cup {e}
  BY ListAppend
<1> QED BY <1>1 DEF NamesOf

LEMMA EventKeeps ==
  ASSUME NEW s, NEW event, EventState(s), EventsFit(s)
  PROVE  EventState(LowerEvent(s, event)) /\ EventsFit(LowerEvent(s, event))
<1> DEFINE t == LowerEvent(s, event)
           fields == FieldTypes(s.packages, event)
           names == {f[1] : f \in fields}
           e == [name |-> event.name, fields |-> fields, pii |-> event.pii \cap names]
<1>1. /\ DOMAIN t = DOMAIN s
      /\ t.events = Append(s.events, e) /\ t.channels = s.channels /\ t.subscriptions = s.subscriptions
      /\ s.errors \subseteq t.errors
      /\ When(event.name \in NamesOf(s.events), "duplicate event") \subseteq t.errors
  BY DEF LowerEvent, EventState, HasFields
<1>2. IsList(s.events) /\ IsList(s.channels) /\ IsList(s.subscriptions)
  BY DEF EventState
<1>3. e.name = event.name
  OBVIOUS
<1> HIDE DEF t, e
<1>4. EventState(t)
  <2>1. IsList(Append(s.events, e))
    BY <1>2, ListAppend
  <2> QED BY <1>1, <1>2, <2>1 DEF EventState, HasFields
<1>5. ASSUME t.errors = {}
      PROVE  /\ UniqueEvents(t) /\ Publishable(t)
             /\ \A subscription \in Range(t.subscriptions) : Servable(t, subscription)
  <2>1. s.errors = {} /\ event.name \notin NamesOf(s.events)
    <3>1. When(event.name \in NamesOf(s.events), "duplicate event") = {}
      BY <1>1, <1>5
    <3> QED BY <3>1, <1>1, <1>5, NoErrorWhen
  <2>2. /\ UniqueEvents(s) /\ Publishable(s)
        /\ \A subscription \in Range(s.subscriptions) : Servable(s, subscription)
    BY <2>1 DEF EventsFit
  <2>3. t.events = Append(s.events, e) /\ t.channels = s.channels /\ t.subscriptions = s.subscriptions
    BY <1>1
  <2>4. NamesOf(t.events) = NamesOf(s.events) \cup {event.name} /\ Range(t.events) = Range(s.events) \cup {e}
    BY <2>3, <1>2, <1>3, NamesAppend, ListAppend
  <2>5. /\ Len(s.events) \in Nat /\ DOMAIN s.events = 1..Len(s.events)
        /\ DOMAIN t.events = 1..(Len(s.events) + 1)
        /\ \A i \in DOMAIN s.events : t.events[i] = s.events[i]
        /\ t.events[Len(s.events) + 1] = e
    BY <2>3, <1>2, ListAppend
  <2>6. \A i \in DOMAIN s.events : s.events[i].name \in NamesOf(s.events)
    BY DEF NamesOf, Range
  <2>7. UniqueEvents(t)
    BY <2>1, <2>2, <2>5, <2>6, <1>3 DEF UniqueEvents
  <2>8. Publishable(t)
    BY <2>2, <2>3, <2>4 DEF Publishable
  <2>9. ASSUME NEW x \in Range(t.subscriptions) PROVE Servable(t, x)
    <3>1. Servable(s, x)
      BY <2>2, <2>3, <2>9
    <3>2. e.name \notin Range(x.events)
      BY <3>1, <2>1, <1>3 DEF Servable
    <3> QED BY <3>1, <3>2, <2>3, <2>4 DEF Servable
  <2> QED BY <2>7, <2>8, <2>9
<1> QED BY <1>4, <1>5 DEF t, EventsFit

LEMMA ChannelKeeps ==
  ASSUME NEW s, NEW channel, EventState(s), EventsFit(s), ChannelDecl(channel)
  PROVE  EventState(LowerChannel(s, channel)) /\ EventsFit(LowerChannel(s, channel))
<1> DEFINE t == LowerChannel(s, channel)
           published == channel.publishes \ {NoName}
           c == [channel EXCEPT !.publishes = published]
<1>1. /\ DOMAIN t = DOMAIN s
      /\ t.events = s.events /\ t.channels = Append(s.channels, c) /\ t.subscriptions = s.subscriptions
      /\ s.errors \subseteq t.errors
      /\ When(~(published \subseteq NamesOf(s.events)), "unknown event") \subseteq t.errors
  BY DEF LowerChannel, EventState, HasFields
<1>2. IsList(s.events) /\ IsList(s.channels) /\ IsList(s.subscriptions)
  BY DEF EventState
<1>3. c.publishes = published
  BY DEF ChannelDecl, HasFields
<1> HIDE DEF t, c, published
<1>4. EventState(t)
  <2>1. IsList(Append(s.channels, c))
    BY <1>2, ListAppend
  <2> QED BY <1>1, <1>2, <2>1 DEF EventState, HasFields
<1>5. ASSUME t.errors = {}
      PROVE  /\ UniqueEvents(t) /\ Publishable(t)
             /\ \A subscription \in Range(t.subscriptions) : Servable(t, subscription)
  <2>1. s.errors = {} /\ published \subseteq NamesOf(s.events)
    <3>1. When(~(published \subseteq NamesOf(s.events)), "unknown event") = {}
      BY <1>1, <1>5
    <3> QED BY <3>1, <1>1, <1>5, NoErrorWhen
  <2>2. /\ UniqueEvents(s) /\ Publishable(s)
        /\ \A subscription \in Range(s.subscriptions) : Servable(s, subscription)
    BY <2>1 DEF EventsFit
  <2>3. t.channels = Append(s.channels, c) /\ t.events = s.events /\ t.subscriptions = s.subscriptions
    BY <1>1
  <2>4. NamesOf(s.channels) \subseteq NamesOf(t.channels) /\ Range(t.channels) = Range(s.channels) \cup {c}
    BY <2>3, <1>2, NamesAppend, ListAppend
  <2>5. UniqueEvents(t)
    BY <2>2, <2>3 DEF UniqueEvents
  <2>6. Publishable(t)
    BY <2>1, <2>2, <2>3, <2>4, <1>3 DEF Publishable
  <2>7. \A x \in Range(t.subscriptions) : Servable(t, x)
    BY <2>2, <2>3, <2>4 DEF Servable
  <2> QED BY <2>5, <2>6, <2>7
<1> QED BY <1>4, <1>5 DEF t, EventsFit

\* With unique names the event a filter is checked against is the only one of
\* its name.
LEMMA DeclaredEvent ==
  ASSUME NEW s, UniqueEvents(s), NEW e \in Range(s.events)
  PROVE  FirstOf(s.events, LAMBDA d : d.name = e.name, NoName) = e
<1>1. PICK i \in DOMAIN s.events : s.events[i] = e
  BY DEF Range
<1>2. {k \in DOMAIN s.events : s.events[k].name = e.name} = {i}
  BY <1>1 DEF UniqueEvents
<1>3. (CHOOSE k \in {i} : \A j \in {i} : k <= j) = i
  OBVIOUS
<1> QED BY <1>1, <1>2, <1>3 DEF FirstOf

LEMMA SubscriptionKeeps ==
  ASSUME NEW s, NEW subscription, EventState(s), EventsFit(s), SubscriptionDecl(subscription)
  PROVE  /\ EventState(LowerSubscription(s, subscription))
         /\ EventsFit(LowerSubscription(s, subscription))
<1> DEFINE t == LowerSubscription(s, subscription)
           filter == subscription.when
           d == subscription.delivery
           x == [name |-> subscription.name, events |-> subscription.events,
                 when |-> IF filter = NoName \/ ~filter.parses THEN NoName ELSE filter,
                 delivery |-> LowerDelivery(s, d)]
<1>1. /\ DOMAIN t = DOMAIN s
      /\ t.events = s.events /\ t.channels = s.channels /\ t.subscriptions = Append(s.subscriptions, x)
      /\ s.errors \subseteq t.errors
      /\ When(~(Range(subscription.events) \subseteq NamesOf(s.events)), "unknown event") \subseteq t.errors
      /\ FilterErrors(s, subscription) \subseteq t.errors
  BY DEF LowerSubscription, EventState, HasFields
<1>2. IsList(s.events) /\ IsList(s.channels) /\ IsList(s.subscriptions)
  BY DEF EventState
<1>3. x.events = subscription.events /\ x.delivery = LowerDelivery(s, d)
      /\ x.when = IF filter = NoName \/ ~filter.parses THEN NoName ELSE filter
  OBVIOUS
<1> HIDE DEF t, x, d
<1>4. EventState(t)
  <2>1. IsList(Append(s.subscriptions, x))
    BY <1>2, ListAppend
  <2> QED BY <1>1, <1>2, <2>1 DEF EventState, HasFields
<1>5. ASSUME t.errors = {}
      PROVE  /\ UniqueEvents(t) /\ Publishable(t)
             /\ \A y \in Range(t.subscriptions) : Servable(t, y)
  <2>1. s.errors = {} /\ Range(subscription.events) \subseteq NamesOf(s.events)
        /\ FilterErrors(s, subscription) = {}
    <3>1. When(~(Range(subscription.events) \subseteq NamesOf(s.events)), "unknown event") = {}
      BY <1>1, <1>5
    <3> QED BY <3>1, <1>1, <1>5, NoErrorWhen
  <2>2. UniqueEvents(s) /\ Publishable(s) /\ \A y \in Range(s.subscriptions) : Servable(s, y)
    BY <2>1 DEF EventsFit
  <2>3. Range(t.subscriptions) = Range(s.subscriptions) \cup {x}
    <3>1. Range(Append(s.subscriptions, x)) = Range(s.subscriptions) \cup {x}
      BY <1>2, ListAppend
    <3> QED BY <3>1, <1>1
  <2>4. UniqueEvents(t) /\ Publishable(t)
    BY <1>1, <2>2 DEF UniqueEvents, Publishable
  <2>5. \A y \in Range(s.subscriptions) : Servable(t, y)
    BY <1>1, <2>2 DEF Servable
  <2>6. ASSUME NEW e \in Range(s.events), e.name \in Range(subscription.events), x.when # NoName
        PROVE  Fits(x.when, e.fields)
    <3>1. x.when = filter /\ filter # NoName
      BY <1>3, <2>6
    <3>2. ~(\/ ~filter.parses
            \/ \E n \in Range(subscription.events) \cap NamesOf(s.events) :
                 ~Fits(filter, FirstOf(s.events, LAMBDA q : q.name = n, NoName).fields))
      <4> DEFINE c == \/ ~filter.parses
                      \/ \E n \in Range(subscription.events) \cap NamesOf(s.events) :
                           ~Fits(filter, FirstOf(s.events, LAMBDA q : q.name = n, NoName).fields)
      <4>1. c \in BOOLEAN
        OBVIOUS
      <4>2. When(c, "invalid filter") = {}
        BY <2>1, <3>1 DEF FilterErrors
      <4> HIDE DEF c
      <4>3. ~c
        BY <4>1, <4>2, NoErrorWhen
      <4> QED BY <4>3 DEF c
    <3>3. e.name \in Range(subscription.events) \cap NamesOf(s.events)
      BY <2>6 DEF NamesOf
    <3>4. Fits(filter, FirstOf(s.events, LAMBDA q : q.name = e.name, NoName).fields)
      BY <3>2, <3>3
    <3> QED BY <3>1, <3>4, <2>2, DeclaredEvent
  <2>7. ASSUME x.delivery # NoName, x.delivery.deadLetter # NoName
        PROVE  x.delivery.deadLetter \in NamesOf(s.channels)
    BY <2>7, <1>3 DEF LowerDelivery
  <2>8. Servable(t, x)
    BY <1>1, <1>3, <2>1, <2>6, <2>7 DEF Servable
  <2> QED BY <2>3, <2>4, <2>5, <2>8
<1> QED BY <1>4, <1>5 DEF t, EventsFit

-----------------------------------------------------------------------------
(* The invariant, and what it says of an accepted contract.                *)

\* Only the declarations of its own kinds are on the agenda of a contract.
LEMMA EventSteps ==
  ASSUME input.surface = "evt", \A x \in Range(agenda) : x.kind \in EventKinds, IsList(agenda), [Next]_vars
  PROVE  OpenFile \/ EventStep \/ ChannelStep \/ SubscriptionStep \/ Finish \/ UNCHANGED vars
<1>1. agenda # <<>> => Head(agenda).kind \in EventKinds
  BY ListTail
<1> USE <1>1 DEF AtHead, Lowering, EventKinds
<1>2. ~ModuleStep /\ ~ServiceStep /\ ~DesignStep /\ ~SearchStep
  BY DEF ModuleStep, ServiceStep, DesignStep, SearchStep
<1>3. ~UseCaseStep /\ ~CaseStep /\ ~DecisionStep /\ ~VisitStep /\ ~CycleStep
  BY DEF UseCaseStep, CaseStep, DecisionStep, VisitStep, CycleStep
<1>4. ~ApplicationStep /\ ~ProfileStep /\ ~DeploymentStep
  BY DEF ApplicationStep, ProfileStep, DeploymentStep
<1>5. ~EnumStep /\ ~DatatypeStep /\ ~InterfaceStep /\ ~ClassStep
  BY DEF EnumStep, DatatypeStep, InterfaceStep, ClassStep
<1> QED BY <1>2, <1>3, <1>4, <1>5 DEF Next, Finished

LEMMA EventsAtFirst == Init => EventsInv
<1> SUFFICES ASSUME Init, input.surface = "evt" PROVE EventsInv
  BY DEF EventsInv
<1>1. file.parsed => SyntaxTree(input)
  BY FilesAssumption DEF Init, file
<1>2. IsList(<<>>) /\ Range(<<>>) = {}
  BY DEF IsList, Range
<1> QED BY <1>1, <1>2 DEF Init, EventsInv

LEMMA EventsNext == EventsInv /\ [Next]_vars => EventsInv'
<1> SUFFICES ASSUME EventsInv, [Next]_vars, input'.surface = "evt" PROVE EventsInv'
  BY DEF EventsInv
<1>0. input' = input
  BY DEF Next, vars, OpenFile, ModuleStep, ServiceStep, DesignStep, SearchStep, EventStep, ChannelStep, SubscriptionStep,
         UseCaseStep, CaseStep, DecisionStep, VisitStep, CycleStep, ApplicationStep, ProfileStep, DeploymentStep,
         EnumStep, DatatypeStep, InterfaceStep, ClassStep, Finish, Finished, Lowering
<1>1. /\ input.surface = "evt"
      /\ file.parsed => SyntaxTree(input)
      /\ IsList(agenda) /\ \A x \in Range(agenda) : EventItem(x)
      /\ pc = "open" => agenda = <<>> /\ artifact = NoName
      /\ pc # "open" => EventState(st) /\ EventsFit(st)
      /\ artifact # NoName => st.errors = {} /\ artifact = EventArtifact(st) /\ pc = "done"
  BY <1>0 DEF EventsInv
<1>2. OpenFile \/ EventStep \/ ChannelStep \/ SubscriptionStep \/ Finish \/ UNCHANGED vars
  <2>1. \A x \in Range(agenda) : x.kind \in EventKinds
    BY <1>1 DEF EventItem
  <2> QED BY <1>1, <2>1, EventSteps
<1>3. file' = file
  BY <1>0 DEF file
<1>4. CASE OpenFile
  <2>1. file.parsed => EvtFile(file)
    BY <1>1 DEF SyntaxTree, file
  <2>2. st' = OpenEvents(file)
    BY <1>1, <1>4 DEF OpenFile, Open, file
  <2>3. EventState(st') /\ EventsFit(st')
    BY <2>1, <2>2, EventsOpen
  <2>4. IsList(agenda') /\ \A x \in Range(agenda') : EventItem(x)
    <3>1. CASE file.parsed
      <4>1. agenda' = Items("event", file.declared.events) \o Items("channel", file.declared.channels)
                        \o Items("subscription", file.declared.subscriptions)
        BY <1>1, <1>4, <3>1 DEF OpenFile, Agenda, file, Items
      <4> QED BY <4>1, <3>1, <2>1, EventsOpen
    <3>2. CASE ~file.parsed
      <4>1. agenda' = <<>>
        BY <1>4, <3>2 DEF OpenFile
      <4>2. IsList(<<>>) /\ Range(<<>>) = {}
        BY DEF IsList, Range
      <4> QED BY <4>1, <4>2
    <3> QED BY <3>1, <3>2
  <2>5. artifact' = NoName /\ pc' # "open"
    BY <1>1, <1>4 DEF OpenFile
  <2> QED BY <1>0, <1>1, <1>3, <2>3, <2>4, <2>5 DEF EventsInv, SyntaxTree
<1>5. ASSUME pc = "lower", agenda # <<>>, agenda' = Tail(agenda), UNCHANGED <<pc, artifact>>,
             EventState(st') /\ EventsFit(st')
      PROVE  EventsInv'
  <2>1. IsList(agenda') /\ Range(agenda') \subseteq Range(agenda)
    BY <1>1, <1>5, ListTail
  <2>2. artifact' = NoName /\ pc' = "lower"
    BY <1>1, <1>5
  <2> QED BY <1>0, <1>1, <1>3, <1>5, <2>1, <2>2 DEF EventsInv, SyntaxTree
<1>6. agenda # <<>> => EventItem(Head(agenda))
  BY <1>1, ListTail
<1>7. CASE EventStep
  <2>1. AtHead("event") /\ st' = LowerEvent(st, Head(agenda).item) /\ agenda' = Tail(agenda) /\ UNCHANGED <<pc, artifact>>
    BY <1>7 DEF EventStep, Lowering
  <2>2. EventState(st') /\ EventsFit(st')
    BY <1>1, <2>1, EventKeeps DEF AtHead
  <2> QED BY <2>1, <2>2, <1>5 DEF AtHead
<1>8. CASE ChannelStep
  <2>1. AtHead("channel") /\ st' = LowerChannel(st, Head(agenda).item) /\ agenda' = Tail(agenda) /\ UNCHANGED <<pc, artifact>>
    BY <1>8 DEF ChannelStep, Lowering
  <2>2. ChannelDecl(Head(agenda).item)
    BY <1>6, <2>1 DEF AtHead, EventItem
  <2>3. EventState(st') /\ EventsFit(st')
    BY <1>1, <2>1, <2>2, ChannelKeeps DEF AtHead
  <2> QED BY <2>1, <2>3, <1>5 DEF AtHead
<1>9. CASE SubscriptionStep
  <2>1. AtHead("subscription") /\ st' = LowerSubscription(st, Head(agenda).item) /\ agenda' = Tail(agenda)
          /\ UNCHANGED <<pc, artifact>>
    BY <1>9 DEF SubscriptionStep, Lowering
  <2>2. SubscriptionDecl(Head(agenda).item)
    BY <1>6, <2>1 DEF AtHead, EventItem
  <2>3. EventState(st') /\ EventsFit(st')
    BY <1>1, <2>1, <2>2, SubscriptionKeeps DEF AtHead
  <2> QED BY <2>1, <2>3, <1>5 DEF AtHead
<1>10. CASE Finish
  <2>1. st' = st /\ artifact' = (IF st'.errors = {} THEN EventArtifact(st') ELSE NoName) /\ pc' = "done" /\ agenda' = agenda
    BY <1>1, <1>10 DEF Finish, Close, Outcome, ArtifactOf
  <2>2. EventState(st') /\ EventsFit(st')
    BY <1>1, <1>10, <2>1 DEF Finish
  <2> QED BY <1>0, <1>1, <1>3, <2>1, <2>2 DEF EventsInv, SyntaxTree
<1>11. CASE UNCHANGED vars
  BY <1>1, <1>11 DEF vars, EventsInv, file
<1> QED BY <1>2, <1>4, <1>7, <1>8, <1>9, <1>10, <1>11

LEMMA EventsAccepted == EventsInv => ContractsLand
<1> SUFFICES ASSUME EventsInv, input.surface = "evt", artifact # NoName PROVE ContractsLand
  BY DEF ContractsLand, Accepted
<1>1. artifact = EventArtifact(st) /\ EventState(st) /\ st.errors = {} /\ EventsFit(st)
  BY DEF EventsInv
<1>2. artifact.events = st.events /\ artifact.channels = st.channels /\ artifact.subscriptions = st.subscriptions
  BY <1>1 DEF EventArtifact
<1>3. /\ UniqueEvents(st) /\ Publishable(st)
      /\ \A s \in Range(st.subscriptions) : Servable(st, s)
  BY <1>1 DEF EventsFit
<1>4. ASSUME NEW s \in Range(st.subscriptions), NEW e \in Range(st.events), e.name \in Range(s.events), s.when # NoName
      PROVE  s.when.boolean /\ \A need \in s.when.needs : \E f \in e.fields : f = need
  BY <1>3, <1>4 DEF Servable, Fits
<1>5. ASSUME NEW s \in Range(st.subscriptions), NEW n \in Range(s.events)
      PROVE  Cardinality({i \in DOMAIN artifact.events : artifact.events[i].name = n}) = 1
  <2>1. n \in NamesOf(st.events)
    BY <1>3 DEF Servable
  <2>2. PICK i \in DOMAIN st.events : st.events[i].name = n
    BY <2>1 DEF NamesOf, Range
  <2>3. {j \in DOMAIN artifact.events : artifact.events[j].name = n} = {i}
    BY <2>2, <1>2, <1>3 DEF UniqueEvents
  <2> QED BY <2>3, FS_Singleton
<1>6. ASSUME NEW s \in Range(st.subscriptions), s.delivery # NoName, s.delivery.deadLetter # NoName
      PROVE  \E c \in Range(st.channels) :
               c.name = s.delivery.deadLetter /\ \A n \in c.publishes : \E e \in Range(st.events) : e.name = n
  <2>1. PICK c \in Range(st.channels) : c.name = s.delivery.deadLetter
    BY <1>3, <1>6 DEF Servable, NamesOf
  <2>2. c.publishes \subseteq NamesOf(st.events)
    BY <1>3 DEF Publishable
  <2> QED BY <2>1, <2>2 DEF NamesOf
<1>7. \A s \in Range(artifact.subscriptions), e \in Range(artifact.events) :
        e.name \in Range(s.events) /\ s.when # NoName =>
          s.when.boolean /\ \A need \in s.when.needs : \E f \in e.fields : f = need
  BY <1>2, <1>4
<1>8. \A s \in Range(artifact.subscriptions) : \A n \in Range(s.events) :
        Cardinality({i \in DOMAIN artifact.events : artifact.events[i].name = n}) = 1
  BY <1>2, <1>5
<1>9. \A s \in Range(artifact.subscriptions) : s.delivery # NoName /\ s.delivery.deadLetter # NoName =>
        \E c \in Range(artifact.channels) : c.name = s.delivery.deadLetter
            /\ \A n \in c.publishes : \E e \in Range(artifact.events) : e.name = n
  BY <1>2, <1>6
<1> QED BY <1>7, <1>8, <1>9, Zenon DEF ContractsLand

(* Whatever a contract declares, an accepted one can be served: a filter is *)
(* a boolean over every event it may receive, each of these is declared     *)
(* once, and dead letters go to a channel of declared events.               *)
(* (events.rs compile_evt_file)                                            *)
THEOREM ContractsAlwaysLand == Spec => []ContractsLand
BY EventsAtFirst, EventsNext, EventsAccepted, PTL DEF Spec

-----------------------------------------------------------------------------
(* Use cases: the scenarios lowered so far are the first ones of the file.  *)

ScenarioFits(uc) ==
  /\ GraphErrors(uc) = {}
  /\ \A m \in Range(uc.messages), side \in {"source", "target"} : EndErrors(uc, m, side) = {}

ScenariosSoFar(s, rest, cases) ==
  /\ HasFields(s, {"packages", "lowered", "errors"}) /\ IsList(s.lowered)
  /\ Len(s.lowered) + Len(rest) = Len(cases)
  /\ \A i \in 1..Len(rest) : rest[i].kind = "use case" /\ rest[i].item = cases[Len(s.lowered) + i]
  /\ \A i \in DOMAIN s.lowered : s.lowered[i] = Scenario(cases[i])
  /\ s.errors = {} => \A i \in DOMAIN s.lowered :
       ScenarioFits(cases[i]) /\ \A j \in DOMAIN s.lowered : cases[i].name = cases[j].name => i = j

ScenariosDone ==
  /\ pc = "done" /\ agenda = <<>> /\ st.errors = {} /\ artifact = [lowered |-> st.lowered]
  /\ file.parsed /\ ScenariosSoFar(st, agenda, file.useCases)

ScenariosInv ==
  input.surface = "uc" =>
    /\ file.parsed => UcFile(file)
    /\ IsList(agenda)
    /\ pc = "open" => agenda = <<>> /\ artifact = NoName
    /\ pc = "lower" => file.parsed /\ artifact = NoName /\ ScenariosSoFar(st, agenda, file.useCases)
    /\ artifact # NoName => ScenariosDone

LEMMA ScenarioKeeps ==
  ASSUME NEW s, NEW rest, NEW cases, NEW f, IsList(rest), IsList(cases), rest # <<>>,
         ScenariosSoFar(s, rest, cases)
  PROVE  ScenariosSoFar(LowerUseCase(s, f, Head(rest).item), Tail(rest), cases)
<1> DEFINE uc == Head(rest).item
           new == Scenario(uc)
           t == LowerUseCase(s, f, uc)
           n == Len(s.lowered) + 1
           ends == UNION {EndErrors(uc, m, side) : m \in Range(uc.messages), side \in {"source", "target"}}
           known == \E i \in DOMAIN s.lowered : s.lowered[i].name = uc.name
<1>0. HasFields(s, {"packages", "lowered", "errors"})
  BY DEF ScenariosSoFar
<1>1. /\ DOMAIN t = DOMAIN s /\ t.lowered = Append(s.lowered, new) /\ s.errors \subseteq t.errors
      /\ When(known, "duplicate use case") \subseteq t.errors
      /\ GraphErrors(uc) \subseteq t.errors
      /\ \A m \in Range(uc.messages), side \in {"source", "target"} : EndErrors(uc, m, side) \subseteq t.errors
  <2> HIDE DEF uc, new, known
  <2>0. DOMAIN t = DOMAIN s /\ t.lowered = Append(s.lowered, Scenario(uc))
    BY <1>0 DEF LowerUseCase, HasFields
  <2>4. t.errors = s.errors \cup UseCaseErrors(s, f, uc)
    BY <1>0 DEF LowerUseCase, HasFields
  <2>1. /\ s.errors \subseteq t.errors
        /\ GraphErrors(uc) \subseteq t.errors
        /\ ends \subseteq t.errors
        /\ When(known, "duplicate use case") \subseteq t.errors
    <3> DEFINE A == When(known, "duplicate use case")
               B == UNION {ParticipantErrors(s, f, uc, i) \cup StepErrors(s, uc, i) : i \in DOMAIN ParticipantsOf(uc)}
               C == When(\E r \in {m.payload : m \in Range(uc.messages)} \ {NoName} : PayloadOf(s, f, r) = Unresolved,
                         "unknown payload")
               E == UNION {BindingErrorsTo(f, r) : r \in uc.realizes}
    <3>1. UseCaseErrors(s, f, uc) = A \cup NameErrors(uc) \cup B \cup C \cup ends \cup GraphErrors(uc)
                                      \cup CoverageErrors(f, uc) \cup E
      BY DEF UseCaseErrors, known
    <3> HIDE DEF A, B, C, ends, E, t
    <3>2. A \subseteq t.errors /\ ends \subseteq t.errors /\ GraphErrors(uc) \subseteq t.errors /\ s.errors \subseteq t.errors
      BY <2>4, <3>1
    <3> QED BY <3>2 DEF A
  <2>2. \A m \in Range(uc.messages), side \in {"source", "target"} : EndErrors(uc, m, side) \subseteq ends
    OBVIOUS
  <2>3. t.lowered = Append(s.lowered, new)
    BY <2>0 DEF new
  <2> HIDE DEF t, ends
  <2>5. \A m \in Range(uc.messages), side \in {"source", "target"} : EndErrors(uc, m, side) \subseteq t.errors
    BY <2>1, <2>2
  <2> QED BY <2>0, <2>1, <2>3, <2>5
<1> HIDE DEF t, uc
<1>2. /\ HasFields(s, {"packages", "lowered", "errors"}) /\ IsList(s.lowered)
      /\ Len(s.lowered) + Len(rest) = Len(cases)
      /\ \A i \in 1..Len(rest) : rest[i].kind = "use case" /\ rest[i].item = cases[Len(s.lowered) + i]
      /\ \A i \in DOMAIN s.lowered : s.lowered[i] = Scenario(cases[i])
      /\ s.errors = {} => \A i \in DOMAIN s.lowered :
           ScenarioFits(cases[i]) /\ \A j \in DOMAIN s.lowered : cases[i].name = cases[j].name => i = j
  BY DEF ScenariosSoFar
<1>3. /\ IsList(Tail(rest)) /\ Len(rest) \in Nat /\ Len(Tail(rest)) = Len(rest) - 1 /\ Len(rest) > 0
      /\ \A i \in 1..(Len(rest) - 1) : Tail(rest)[i] = rest[i + 1]
  BY ListTail
<1>4. /\ IsList(t.lowered)
      /\ Len(s.lowered) \in Nat /\ DOMAIN s.lowered = 1..Len(s.lowered)
      /\ DOMAIN t.lowered = 1..n
      /\ \A i \in DOMAIN s.lowered : t.lowered[i] = s.lowered[i]
      /\ t.lowered[n] = Scenario(uc)
  <2> HIDE DEF new
  <2>1. /\ IsList(Append(s.lowered, new))
        /\ Len(s.lowered) \in Nat /\ DOMAIN s.lowered = 1..Len(s.lowered)
        /\ DOMAIN Append(s.lowered, new) = 1..(Len(s.lowered) + 1)
        /\ \A i \in DOMAIN s.lowered : Append(s.lowered, new)[i] = s.lowered[i]
        /\ Append(s.lowered, new)[Len(s.lowered) + 1] = new
    <3>1. IsList(s.lowered)
      BY <1>2
    <3> QED BY <3>1, ListAppend
  <2> QED BY <2>1, <1>1 DEF new
<1>5. Len(t.lowered) = n
  <2>1. t.lowered \in Seq(Range(t.lowered)) /\ DOMAIN t.lowered = 1..n /\ n \in Nat
    BY <1>4 DEF IsList
  <2>2. Len(t.lowered) \in Nat /\ DOMAIN t.lowered = 1..Len(t.lowered)
    BY <2>1
  <2> QED BY <2>1, <2>2
<1>6. uc = cases[n] /\ Head(rest) = rest[1]
  <2>1. Head(rest) = rest[1] /\ 1 \in 1..Len(rest)
    <3>1. rest \in Seq(Range(rest)) /\ Len(rest) > 0 /\ Len(rest) \in Nat
      BY <1>3 DEF IsList
    <3> QED BY <3>1
  <2>2. rest[1].item = cases[n]
    BY <1>2, <2>1
  <2> QED BY <2>1, <2>2 DEF uc
<1>7. \A i \in 1..Len(Tail(rest)) : Tail(rest)[i].kind = "use case" /\ Tail(rest)[i].item = cases[n + i]
  <2> SUFFICES ASSUME NEW i \in 1..Len(Tail(rest))
               PROVE  Tail(rest)[i].kind = "use case" /\ Tail(rest)[i].item = cases[n + i]
    OBVIOUS
  <2>1. i \in 1..(Len(rest) - 1) /\ i + 1 \in 1..Len(rest) /\ Len(s.lowered) + (i + 1) = n + i
    <3> DEFINE a == Len(rest)
               b == Len(s.lowered)
               c == Len(Tail(rest))
    <3>1. a \in Nat /\ b \in Nat /\ c = a - 1 /\ i \in 1..c
      BY <1>3, <1>4
    <3> HIDE DEF a, b, c
    <3>2. i \in 1..(a - 1) /\ i + 1 \in 1..a /\ b + (i + 1) = (b + 1) + i
      BY <3>1
    <3> QED BY <3>2 DEF a, b, c
  <2> QED BY <2>1, <1>2, <1>3
<1>8. \A i \in DOMAIN t.lowered : t.lowered[i] = Scenario(cases[i])
  <2>1. \A i \in 1..n : i \in DOMAIN s.lowered \/ i = n
    BY <1>4
  <2> QED BY <2>1, <1>1, <1>2, <1>4, <1>6
<1>9. ASSUME t.errors = {}, NEW i \in DOMAIN t.lowered
      PROVE  ScenarioFits(cases[i]) /\ \A j \in DOMAIN t.lowered : cases[i].name = cases[j].name => i = j
  <2>1. s.errors = {} /\ ScenarioFits(uc)
    BY <1>1, <1>9 DEF ScenarioFits
  <2>2. ~known
    <3> HIDE DEF known
    <3>1. When(known, "duplicate use case") = {}
      BY <1>1, <1>9
    <3> QED BY <3>1, NoErrorWhen DEF known
  <2>3. \A j \in DOMAIN s.lowered : cases[j].name # uc.name
    <3>1. \A c : Scenario(c).name = c.name
      BY DEF Scenario
    <3>2. \A j \in DOMAIN s.lowered : s.lowered[j].name = cases[j].name
      BY <1>2, <3>1
    <3>3. \A j \in DOMAIN s.lowered : s.lowered[j].name # uc.name
      BY <2>2 DEF known
    <3> QED BY <3>2, <3>3
  <2>4. DOMAIN t.lowered = 1..n /\ \A j \in 1..n : j \in DOMAIN s.lowered \/ j = n
    BY <1>4
  <2>5. CASE i = n
    <3>1. ScenarioFits(cases[i])
      BY <2>1, <2>5, <1>6
    <3>2. \A j \in DOMAIN s.lowered : cases[j].name # cases[i].name
      BY <2>3, <2>5, <1>6
    <3> QED BY <3>1, <3>2, <2>4, <2>5
  <2>6. CASE i \in DOMAIN s.lowered
    <3>1. ScenarioFits(cases[i]) /\ \A j \in DOMAIN s.lowered : cases[i].name = cases[j].name => i = j
      BY <2>1, <2>6, <1>2
    <3>2. cases[i].name # cases[n].name
      BY <2>3, <2>6, <1>6
    <3> QED BY <3>1, <3>2, <2>4
  <2> QED BY <2>4, <2>5, <2>6
<1>10. Len(t.lowered) + Len(Tail(rest)) = Len(cases)
  <2> DEFINE a == Len(rest)
             b == Len(s.lowered)
             c == Len(Tail(rest))
             d == Len(cases)
             e == Len(t.lowered)
  <2>1. a \in Nat /\ b \in Nat /\ c = a - 1 /\ b + a = d /\ e = b + 1
    BY <1>2, <1>3, <1>4, <1>5
  <2> HIDE DEF a, b, c, d, e
  <2>2. e + c = d
    BY <2>1
  <2> QED BY <2>2 DEF a, b, c, d, e
<1>11. \A i \in 1..Len(Tail(rest)) : Tail(rest)[i].item = cases[Len(t.lowered) + i]
  BY <1>5, <1>7
<1>12. HasFields(t, {"packages", "lowered", "errors"}) /\ IsList(t.lowered)
  BY <1>0, <1>1, <1>4 DEF HasFields
<1>13. \A i \in 1..Len(Tail(rest)) : Tail(rest)[i].kind = "use case" /\ Tail(rest)[i].item = cases[Len(t.lowered) + i]
  BY <1>7, <1>11
<1>14. t.errors = {} => \A i \in DOMAIN t.lowered :
         ScenarioFits(cases[i]) /\ \A j \in DOMAIN t.lowered : cases[i].name = cases[j].name => i = j
  BY <1>9
<1>15. ScenariosSoFar(t, Tail(rest), cases)
  BY ONLY <1>8, <1>10, <1>12, <1>13, <1>14 DEF ScenariosSoFar
<1> QED BY <1>15 DEF t, uc

LEMMA InputStays == [Next]_vars => input' = input /\ file' = file
BY DEF Next, vars, OpenFile, ModuleStep, ServiceStep, DesignStep, SearchStep, EventStep, ChannelStep, SubscriptionStep,
       UseCaseStep, CaseStep, DecisionStep, VisitStep, CycleStep, ApplicationStep, ProfileStep, DeploymentStep,
       EnumStep, DatatypeStep, InterfaceStep, ClassStep, Finish, Finished, Lowering, file

LEMMA UseCaseSteps ==
  ASSUME pc = "lower" /\ agenda # <<>> => Head(agenda).kind = "use case", [Next]_vars
  PROVE  OpenFile \/ UseCaseStep \/ Finish \/ UNCHANGED vars
<1> USE DEF AtHead, Lowering
<1>1. ~ModuleStep /\ ~ServiceStep /\ ~DesignStep /\ ~SearchStep
  BY DEF ModuleStep, ServiceStep, DesignStep, SearchStep
<1>2. ~EventStep /\ ~ChannelStep /\ ~SubscriptionStep
  BY DEF EventStep, ChannelStep, SubscriptionStep
<1>3. ~CaseStep /\ ~DecisionStep /\ ~VisitStep /\ ~CycleStep
  BY DEF CaseStep, DecisionStep, VisitStep, CycleStep
<1>4. ~ApplicationStep /\ ~ProfileStep /\ ~DeploymentStep
  BY DEF ApplicationStep, ProfileStep, DeploymentStep
<1>5. ~EnumStep /\ ~DatatypeStep /\ ~InterfaceStep /\ ~ClassStep
  BY DEF EnumStep, DatatypeStep, InterfaceStep, ClassStep
<1> QED BY <1>1, <1>2, <1>3, <1>4, <1>5 DEF Next, Finished

LEMMA EmptyList == IsList(<<>>) /\ Range(<<>>) = {} /\ DOMAIN <<>> = {} /\ Len(<<>>) = 0
BY DEF IsList, Range

LEMMA ScenariosAtFirst == Init => ScenariosInv
<1> SUFFICES ASSUME Init, input.surface = "uc" PROVE ScenariosInv
  BY DEF ScenariosInv
<1>1. file.parsed => UcFile(file)
  BY FilesAssumption DEF Init, file, SyntaxTree
<1> QED BY <1>1, EmptyList DEF Init, ScenariosInv

\* At first no scenario is lowered.
LEMMA ScenariosOpen ==
  ASSUME NEW f, UcFile(f)
  PROVE  /\ IsList(Items("use case", f.useCases))
         /\ ScenariosSoFar(OpenSurface(f), Items("use case", f.useCases), f.useCases)
<1> DEFINE s == OpenSurface(f)
           cases == f.useCases
           a == Items("use case", cases)
<1>1. HasFields(s, {"packages", "lowered", "errors"}) /\ s.lowered = <<>>
  BY DEF OpenSurface, HasFields
<1>2. IsList(cases)
  BY DEF UcFile
<1>3. Len(cases) \in Nat /\ DOMAIN cases = 1..Len(cases)
  BY <1>2 DEF IsList
<1>4. IsList(a)
  BY <1>2, ItemsAreListed
<1>5. DOMAIN a = 1..Len(cases) /\ \A i \in 1..Len(cases) : a[i].kind = "use case" /\ a[i].item = cases[i]
  BY <1>3 DEF Items
<1> HIDE DEF s, a, cases
<1>6. Len(a) = Len(cases)
  <2>1. Len(a) \in Nat /\ DOMAIN a = 1..Len(a)
    BY <1>4 DEF IsList
  <2> DEFINE m == Len(a)
             k == Len(cases)
  <2>2. m \in Nat /\ k \in Nat /\ 1..m = 1..k
    BY <2>1, <1>3, <1>5
  <2> HIDE DEF m, k
  <2>3. m = k
    BY <2>2
  <2> QED BY <2>3 DEF m, k
<1>7. Len(s.lowered) = 0 /\ DOMAIN s.lowered = {} /\ IsList(s.lowered)
  BY <1>1, EmptyList
<1>8. Len(s.lowered) + Len(a) = Len(cases)
  BY <1>3, <1>6, <1>7
<1>9. \A i \in 1..Len(a) : a[i].kind = "use case" /\ a[i].item = cases[Len(s.lowered) + i]
  <2>1. \A i \in 1..Len(a) : Len(s.lowered) + i = i
    BY <1>3, <1>6, <1>7
  <2> QED BY <2>1, <1>5, <1>6
<1>10. ScenariosSoFar(s, a, cases)
  BY <1>1, <1>7, <1>8, <1>9 DEF ScenariosSoFar
<1> QED BY <1>4, <1>10 DEF s, a, cases

LEMMA ScenariosNext == ScenariosInv /\ [Next]_vars => ScenariosInv'
<1> SUFFICES ASSUME ScenariosInv, [Next]_vars, input'.surface = "uc" PROVE ScenariosInv'
  BY DEF ScenariosInv
<1>0. input' = input /\ file' = file /\ input.surface = "uc"
  BY InputStays
<1>1. /\ file.parsed => UcFile(file)
      /\ IsList(agenda)
      /\ pc = "open" => agenda = <<>> /\ artifact = NoName
      /\ pc = "lower" => file.parsed /\ artifact = NoName /\ ScenariosSoFar(st, agenda, file.useCases)
      /\ artifact # NoName => ScenariosDone
  BY <1>0 DEF ScenariosInv
<1>2. ASSUME pc = "lower", agenda # <<>> PROVE Head(agenda).kind = "use case"
  <2>1. agenda \in Seq(Range(agenda)) /\ Len(agenda) > 0 /\ Len(agenda) \in Nat
    BY <1>1, <1>2, ListTail DEF IsList
  <2>2. Head(agenda) = agenda[1] /\ 1 \in 1..Len(agenda)
    BY <2>1
  <2> QED BY <1>1, <1>2, <2>2 DEF ScenariosSoFar
<1>3. OpenFile \/ UseCaseStep \/ Finish \/ UNCHANGED vars
  BY <1>2, UseCaseSteps
<1>4. CASE OpenFile
  <2>1. st' = OpenSurface(file) /\ artifact' = NoName /\ pc' # "open"
    BY <1>0, <1>1, <1>4 DEF OpenFile, Open, file
  <2>2. CASE file.parsed
    <3>1. agenda' = Items("use case", file.useCases)
      BY <1>0, <1>4, <2>2 DEF OpenFile, Agenda, file, Items
    <3>2. IsList(agenda') /\ ScenariosSoFar(st', agenda', file.useCases)
      BY <3>1, <2>1, <2>2, <1>1, ScenariosOpen
    <3> QED BY <1>0, <1>1, <2>1, <2>2, <3>2 DEF ScenariosInv
  <2>3. CASE ~file.parsed
    <3>1. agenda' = <<>> /\ pc' = "done"
      BY <1>4, <2>3 DEF OpenFile
    <3> QED BY <1>0, <1>1, <2>1, <3>1, EmptyList DEF ScenariosInv
  <2> QED BY <2>2, <2>3
<1>5. CASE UseCaseStep
  <2>1. /\ pc = "lower" /\ agenda # <<>> /\ agenda' = Tail(agenda) /\ pc' = pc /\ artifact' = artifact
        /\ st' = LowerUseCase(st, file, Head(agenda).item)
    BY <1>5 DEF UseCaseStep, Lowering, AtHead
  <2>2. IsList(file.useCases) /\ ScenariosSoFar(st, agenda, file.useCases) /\ IsList(agenda)
    BY <1>1, <2>1 DEF UcFile
  <2>3. ScenariosSoFar(st', agenda', file.useCases) /\ IsList(agenda')
    BY <2>1, <2>2, ScenarioKeeps, ListTail
  <2> QED BY <1>0, <1>1, <2>1, <2>3 DEF ScenariosInv
<1>6. CASE Finish
  <2>1. /\ pc = "lower" /\ agenda = <<>> /\ agenda' = agenda /\ pc' = "done" /\ st' = st
        /\ artifact' = (IF st'.errors = {} THEN [lowered |-> st'.lowered] ELSE NoName)
    BY <1>0, <1>6 DEF Finish, Close, Outcome, ArtifactOf
  <2>2. file.parsed /\ ScenariosSoFar(st', agenda', file'.useCases)
    BY <1>0, <1>1, <2>1
  <2>3. artifact' # NoName => ScenariosDone'
    BY <1>0, <2>1, <2>2 DEF ScenariosDone
  <2> QED BY <1>0, <1>1, <2>1, <2>3 DEF ScenariosInv
<1>7. CASE UNCHANGED vars
  <2>1. pc' = pc /\ agenda' = agenda /\ st' = st /\ artifact' = artifact
    BY <1>7 DEF vars
  <2>2. ScenariosDone' <=> ScenariosDone
    BY <1>0, <2>1 DEF ScenariosDone
  <2> QED BY <1>0, <1>1, <2>1, <2>2 DEF ScenariosInv
<1> QED BY <1>3, <1>4, <1>5, <1>6, <1>7

-----------------------------------------------------------------------------
(* What a use case without errors is.                                      *)

LEMMA ScenarioGraph ==
  ASSUME NEW uc, UcDecl(uc), GraphErrors(uc) = {}
  PROVE  LET edges == ScenarioEdges(uc)
         IN  /\ IsFiniteSet(edges) /\ \A e \in edges : ~Reaches(edges, e[1], e[1])
             /\ edges # {} => ScenarioNodes(uc) \cup {<<"done">>} \subseteq ReachedFrom(edges, <<"start">>)
<1> DEFINE E == ScenarioEdges(uc)
           bad == \E e \in E : e[1] = NoName \/ e[2] = NoName
           G == {e \in E : e[1] # NoName /\ e[2] # NoName}
           R == ReachedFrom(G, <<"start">>)
           cyclic == \E e \in G : Reaches(G, e[1], e[1])
           lost == When(<<"done">> \notin R, "done unreachable") \cup When(~(ScenarioNodes(uc) \subseteq R), "unreachable")
           rest == CASE uc.successions = <<>> -> {} [] cyclic -> {"cycle"} [] OTHER -> lost
<1>1. When(bad, "unknown node") = {} /\ rest = {}
  BY DEF GraphErrors
<1>2. G = E
  <2>1. ~bad
    <3> HIDE DEF bad
    <3>1. bad \in BOOLEAN
      BY DEF bad
    <3> QED BY <1>1, <3>1, NoErrorWhen
  <2> QED BY <2>1
<1>3. IsFiniteSet(E)
  <2> DEFINE S == Range(uc.successions)
             g == [s \in S |-> <<NodeOf(uc, s[1]), NodeOf(uc, s[2])>>]
  <2>1. IsFiniteSet(S)
    BY ListIsFinite DEF UcDecl
  <2>2. g \in Surjection(S, E)
    BY DEF Surjection, ScenarioEdges
  <2> HIDE DEF S, g, E
  <2> QED BY <2>1, <2>2, FS_Surjection
<1>4. CASE uc.successions = <<>>
  <2>1. Range(uc.successions) = {}
    BY <1>4, EmptyList
  <2>2. E = {}
    BY <2>1 DEF ScenarioEdges
  <2> QED BY <2>2, <1>3
<1>5. CASE uc.successions # <<>>
  <2>1. ~cyclic /\ lost = {}
    <3> HIDE DEF cyclic, lost
    <3> QED BY <1>1, <1>5, EmptyList
  <2>2. \A e \in E : ~Reaches(E, e[1], e[1])
    BY <2>1, <1>2
  <2>3. <<"done">> \in R /\ ScenarioNodes(uc) \subseteq R
    <3> HIDE DEF R
    <3>1. When(<<"done">> \notin R, "done unreachable") = {} /\ When(~(ScenarioNodes(uc) \subseteq R), "unreachable") = {}
      BY <2>1
    <3> QED BY <3>1, NoErrorWhen
  <2>4. R = ReachedFrom(E, <<"start">>)
    BY <1>2
  <2> QED BY <1>3, <2>2, <2>3, <2>4
<1> QED BY <1>4, <1>5

LEMMA PeopleAreListed ==
  ASSUME NEW uc, UcDecl(uc)
  PROVE  IsList(ParticipantsOf(uc))
<1> DEFINE s == IF uc.subject = NoName THEN <<>> ELSE <<uc.subject>>
<1>1. IsList(s)
  <2>1. IsList(<<uc.subject>>)
    BY DEF IsList, Range
  <2> QED BY <2>1, EmptyList
<1>2. IsList(uc.actors)
  BY DEF UcDecl
<1> HIDE DEF s
<1>3. IsList(s \o uc.actors)
  BY <1>1, <1>2, ListConcat
<1> QED BY <1>3 DEF ParticipantsOf, s

LEMMA FiniteImage ==
  ASSUME NEW g, IsFiniteSet(DOMAIN g)
  PROVE  IsFiniteSet({g[x] : x \in DOMAIN g})
<1> DEFINE T == {g[x] : x \in DOMAIN g}
           h == [x \in DOMAIN g |-> g[x]]
<1>1. h \in Surjection(DOMAIN g, T)
  BY DEF Surjection
<1> HIDE DEF T, h
<1> QED BY <1>1, FS_Surjection DEF T

LEMMA EndsAreFinite ==
  ASSUME NEW uc, UcDecl(uc), NEW message, NEW side
  PROVE  IsFiniteSet(DeclaredEnds(uc, message, side))
<1> DEFINE people == ParticipantsOf(uc)
           Here(i) == {n \in DOMAIN people[i].occurrences : people[i].occurrences[n] = <<"end", message.name, side>>}
           pairs == [i \in DOMAIN people |-> {<<i, k>> : k \in Here(i)}]
<1>1. IsFiniteSet(DOMAIN people)
  BY PeopleAreListed, ListIsFinite
<1>2. ASSUME NEW i \in DOMAIN people PROVE IsFiniteSet(pairs[i])
  <2>1. people[i] \in Range(people)
    BY DEF Range
  <2>2. IsList(people[i].occurrences)
    BY <2>1 DEF UcDecl, UcParticipant
  <2>3. IsFiniteSet(Here(i))
    BY <2>2, ListIsFinite, FS_Subset
  <2> DEFINE g == [k \in Here(i) |-> <<i, k>>]
  <2>4. pairs[i] = {g[k] : k \in DOMAIN g} /\ DOMAIN g = Here(i)
    OBVIOUS
  <2> HIDE DEF g, pairs, Here
  <2> QED BY <2>3, <2>4, FiniteImage
<1>3. DeclaredEnds(uc, message, side) = UNION {pairs[i] : i \in DOMAIN pairs} /\ DOMAIN pairs = DOMAIN people
  BY DEF DeclaredEnds
<1> HIDE DEF pairs
<1>4. IsFiniteSet({pairs[i] : i \in DOMAIN pairs})
  BY <1>1, <1>3, FiniteImage
<1>5. \A T \in {pairs[i] : i \in DOMAIN pairs} : IsFiniteSet(T)
  BY <1>2, <1>3
<1> QED BY <1>3, <1>4, <1>5, FS_UNION

LEMMA MessageOf ==
  ASSUME NEW uc, UcDecl(uc), NEW name \in MessageNames(uc)
  PROVE  LET message == FirstOf(uc.messages, LAMBDA n : n.name = name, NoName)
         IN  message \in Range(uc.messages) /\ message.name = name
<1> DEFINE hits == {i \in DOMAIN uc.messages : uc.messages[i].name = name}
           k == CHOOSE i \in hits : \A j \in hits : i <= j
<1>1. hits # {} /\ hits \in SUBSET Nat
  BY DEF MessageNames, Range, UcDecl, IsList
<1>2. k \in hits
  <2> HIDE DEF hits
  <2> QED BY <1>1, LeastIn
<1>3. FirstOf(uc.messages, LAMBDA n : n.name = name, NoName) = uc.messages[k]
  BY <1>1 DEF FirstOf
<1> HIDE DEF k
<1> QED BY <1>2, <1>3 DEF Range

LEMMA PersonNamed ==
  ASSUME NEW uc, UcDecl(uc), NEW inline, inline # NoName,
         FirstOf(ParticipantsOf(uc), LAMBDA p : inline # NoName /\ p.name = inline[1], NoName) # NoName
  PROVE  LET person == FirstOf(ParticipantsOf(uc), LAMBDA p : inline # NoName /\ p.name = inline[1], NoName)
         IN  person \in Range(ParticipantsOf(uc)) /\ person.name = inline[1]
<1> DEFINE people == ParticipantsOf(uc)
           hits == {i \in DOMAIN people : inline # NoName /\ people[i].name = inline[1]}
           k == CHOOSE i \in hits : \A j \in hits : i <= j
           person == FirstOf(people, LAMBDA p : inline # NoName /\ p.name = inline[1], NoName)
<1>1. hits # {}
  BY DEF FirstOf
<1>2. hits \in SUBSET Nat
  BY PeopleAreListed DEF IsList
<1>3. k \in hits
  <2> HIDE DEF hits
  <2> QED BY <1>1, <1>2, LeastIn
<1>4. person = people[k]
  BY <1>1 DEF FirstOf
<1> HIDE DEF k
<1>5. person \in Range(people) /\ person.name = inline[1]
  BY <1>3, <1>4 DEF Range
<1> QED BY <1>5

\* A message without a bad binding: written inline at an anchor that exists,
\* or by one end occurrence.
LEMMA EndFits ==
  ASSUME NEW uc, UcDecl(uc), NEW message \in Range(uc.messages), NEW side \in {"source", "target"},
         EndErrors(uc, message, side) = {}
  PROVE  LET end == LowerEnd(uc, message, side)
         IN  /\ end # NoName
             /\ Cardinality(DeclaredEnds(uc, message, side)) = (IF end[2][1] = "end" THEN 1 ELSE 0)
<1> DEFINE inline == message[side]
           person == FirstOf(ParticipantsOf(uc), LAMBDA p : inline # NoName /\ p.name = inline[1], NoName)
           declared == DeclaredEnds(uc, message, side)
           bindings == Cardinality(declared) + (IF inline = NoName THEN 0 ELSE 1)
           strange == inline # NoName /\ person = NoName
           loose == inline # NoName /\ person # NoName /\ AnchorOf(person, inline[2]) = NoName
           end == LowerEnd(uc, message, side)
<1>1. bindings = 1 /\ ~strange /\ ~loose
  <2>1. EndErrors(uc, message, side)
          = When(bindings # 1, "bad binding") \cup When(strange, "unknown participant") \cup When(loose, "unknown anchor")
    BY DEF EndErrors
  <2> HIDE DEF bindings, strange, loose
  <2>2. When(bindings # 1, "bad binding") = {} /\ When(strange, "unknown participant") = {}
        /\ When(loose, "unknown anchor") = {}
    BY <2>1
  <2>3. strange \in BOOLEAN /\ loose \in BOOLEAN
    BY DEF strange, loose
  <2> QED BY <2>2, <2>3, NoErrorWhen
<1>2. Cardinality(declared) \in Nat
  BY EndsAreFinite, FS_CardinalityType
<1>3. CASE inline = NoName
  <2>1. Cardinality(declared) = 1
    BY <1>1, <1>2, <1>3
  <2> DEFINE who == ParticipantsOf(uc)[(CHOOSE e \in declared : TRUE)[1]].name
  <2>2. end = <<who, <<"end", side>>>>
    <3> HIDE DEF declared
    <3> QED BY <1>3, <2>1 DEF LowerEnd, declared
  <2>3. \E p \in Range(ParticipantsOf(uc)) : who = p.name /\ <<"end", side>> \in Anchors(p)
    <3>1. declared # {}
      BY <2>1, FS_EmptySet
    <3>2. (CHOOSE e \in declared : TRUE) \in declared
      BY <3>1
    <3>5. \A e \in declared : e[1] \in DOMAIN ParticipantsOf(uc)
      BY DEF DeclaredEnds
    <3>3. (CHOOSE e \in declared : TRUE)[1] \in DOMAIN ParticipantsOf(uc)
      <4> HIDE DEF declared
      <4> QED BY <3>2, <3>5
    <3>4. ParticipantsOf(uc)[(CHOOSE e \in declared : TRUE)[1]] \in Range(ParticipantsOf(uc))
      BY <3>3 DEF Range
    <3> HIDE DEF declared
    <3> QED BY <3>4 DEF Anchors
  <2> HIDE DEF who
  <2>4. <<who, <<"end", side>>>> # NoName
    BY <2>3 DEF UcDecl
  <2> HIDE DEF end, declared
  <2>5. end # NoName /\ end[2][1] = "end"
    BY <2>2, <2>4
  <2> QED BY <2>1, <2>5 DEF end, declared
<1>4. CASE inline # NoName
  <2>1. person # NoName /\ AnchorOf(person, inline[2]) # NoName
    BY <1>1, <1>4
  <2>2. person \in Range(ParticipantsOf(uc)) /\ person.name = inline[1]
    BY <1>4, <2>1, PersonNamed
  <2>3. end = <<inline[1], AnchorOf(person, inline[2])>>
    <3> HIDE DEF inline, person
    <3> QED BY <1>4, <2>1 DEF LowerEnd, inline, person
  <2> HIDE DEF inline, person, end
  <2>4. AnchorOf(person, inline[2]) \in Anchors(person) /\ AnchorOf(person, inline[2])[1] \in {"occurrence", "step"}
    <3> DEFINE a == inline[2]
    <3>1. CASE a \in NamedOccurrences(person)
      <4>1. AnchorOf(person, a) = <<"occurrence", a>>
        BY <3>1 DEF AnchorOf
      <4>2. \E o \in Range(person.occurrences) : a = o[2]
        BY <3>1 DEF NamedOccurrences
      <4>3. <<"occurrence", a>> \in Anchors(person)
        BY <4>2 DEF Anchors
      <4> QED BY <4>1, <4>3
    <3>2. CASE a \notin NamedOccurrences(person)
      <4>1. a \in StepNames(person) /\ AnchorOf(person, a) = <<"step", a>>
        BY <3>2, <2>1 DEF AnchorOf
      <4>2. <<"step", a>> \in Anchors(person)
        BY <4>1 DEF Anchors, StepNames
      <4> QED BY <4>1, <4>2
    <3> QED BY <3>1, <3>2
  <2>5. end # NoName /\ end[2][1] # "end"
    <3>1. <<inline[1], AnchorOf(person, inline[2])>> # NoName
      BY <2>2, <2>4 DEF UcDecl
    <3>2. end[2] = AnchorOf(person, inline[2])
      BY <2>3
    <3> QED BY <2>3, <2>4, <3>1, <3>2
  <2>6. Cardinality(declared) = 0
    BY <1>1, <1>2, <1>4 DEF inline
  <2> QED BY <2>5, <2>6 DEF end
<1> QED BY <1>3, <1>4

\* With unique names the end occurrences of a message in the use cases of a
\* name are those of one use case.
LEMMA EndsAsWritten ==
  ASSUME IsList(file.useCases), NEW k \in DOMAIN file.useCases, UcDecl(file.useCases[k]),
         \A j \in DOMAIN file.useCases : file.useCases[k].name = file.useCases[j].name => j = k,
         NEW message, NEW side
  PROVE  Cardinality(WrittenEnds(file.useCases[k].name, message.name, side))
         = Cardinality(DeclaredEnds(file.useCases[k], message, side))
<1> DEFINE uc == file.useCases[k]
           D == DeclaredEnds(uc, message, side)
           W == WrittenEnds(uc.name, message.name, side)
           Ends(i) == {o \in DOMAIN ParticipantsOf(uc)[i].occurrences :
                         ParticipantsOf(uc)[i].occurrences[o] = <<"end", message.name, side>>}
           g == [d \in D |-> <<k, d[1], d[2]>>]
<1>1. {j \in DOMAIN file.useCases : file.useCases[j].name = uc.name} = {k}
  OBVIOUS
<1>2. W = UNION {{<<k, i, o>> : o \in Ends(i)} : i \in DOMAIN ParticipantsOf(uc)}
  BY <1>1 DEF WrittenEnds
<1>3. D = UNION {{<<i, o>> : o \in Ends(i)} : i \in DOMAIN ParticipantsOf(uc)}
  BY DEF DeclaredEnds
<1> HIDE DEF D, W
<1>4. g \in Bijection(D, W)
  <2>1. \A d \in D : d = <<d[1], d[2]>> /\ d[1] \in DOMAIN ParticipantsOf(uc) /\ d[2] \in Ends(d[1])
    BY <1>3
  <2>2. \A d \in D : g[d] \in W
    BY <1>2, <2>1
  <2>3. \A w \in W : \E d \in D : g[d] = w
    <3> SUFFICES ASSUME NEW w \in W PROVE \E d \in D : g[d] = w
      OBVIOUS
    <3>1. PICK i \in DOMAIN ParticipantsOf(uc) : \E o \in Ends(i) : w = <<k, i, o>>
      BY <1>2
    <3>2. PICK o \in Ends(i) : w = <<k, i, o>>
      BY <3>1
    <3>3. <<i, o>> \in D
      <4>1. <<i, o>> \in {<<i, q>> : q \in Ends(i)}
        OBVIOUS
      <4> HIDE DEF Ends
      <4> QED BY <4>1, <1>3
    <3>4. g[<<i, o>>] = w
      BY <3>2, <3>3
    <3> QED BY <3>3, <3>4
  <2>4. \A d, e \in D : g[d] = g[e] => d = e
    BY <2>1
  <2>5. g \in [D -> W]
    BY <2>2
  <2> HIDE DEF g
  <2>6. g \in Surjection(D, W)
    BY <2>3, <2>5 DEF Surjection
  <2>7. g \in Injection(D, W)
    BY <2>4, <2>5 DEF Injection, IsInjective
  <2> QED BY <2>6, <2>7 DEF Bijection
<1>5. IsFiniteSet(D)
  BY EndsAreFinite DEF D
<1> HIDE DEF g
<1>6. Cardinality(D) = Cardinality(W)
  BY <1>4, <1>5, FS_Bijection DEF ExistsBijection
<1> QED BY <1>6 DEF D, W

\* What the property asks of one scenario.
Playable(u) ==
  LET nodes == u.nodes \cup UNION {{e[1], e[2]} : e \in u.edges}
  IN  /\ \A S \in (SUBSET nodes) \ {{}} : \E n \in S : \A e \in u.edges : e[2] = n => e[1] \notin S
      /\ u.edges # {} =>
           \A C \in SUBSET nodes :
             <<"start">> \in C /\ (\A e \in u.edges : e[1] \in C => e[2] \in C)
               => u.nodes \cup {<<"done">>} \subseteq C
      /\ \A m \in DOMAIN u.messages, side \in {"source", "target"} :
           /\ u.messages[m][side] # NoName
           /\ Cardinality(WrittenEnds(u.name, m, side))
              = (IF u.messages[m][side][2][1] = "end" THEN 1 ELSE 0)

LEMMA ScenarioPlays ==
  ASSUME IsList(file.useCases), NEW k \in DOMAIN file.useCases, UcDecl(file.useCases[k]), ScenarioFits(file.useCases[k]),
         \A j \in DOMAIN file.useCases : file.useCases[k].name = file.useCases[j].name => j = k,
         NEW u, u = Scenario(file.useCases[k])
  PROVE  Playable(u)
<1> DEFINE uc == file.useCases[k]
           nodes == u.nodes \cup UNION {{e[1], e[2]} : e \in u.edges}
           Sent(m) == FirstOf(uc.messages, LAMBDA n : n.name = m, NoName)
<1>1. /\ u.name = uc.name /\ u.nodes = ScenarioNodes(uc) /\ u.edges = ScenarioEdges(uc)
      /\ DOMAIN u.messages = MessageNames(uc)
      /\ \A m \in MessageNames(uc) : /\ u.messages[m]["source"] = LowerEnd(uc, Sent(m), "source")
                                     /\ u.messages[m]["target"] = LowerEnd(uc, Sent(m), "target")
  BY DEF Scenario
<1>2. /\ IsFiniteSet(u.edges) /\ \A e \in u.edges : ~Reaches(u.edges, e[1], e[1])
      /\ u.edges # {} => u.nodes \cup {<<"done">>} \subseteq ReachedFrom(u.edges, <<"start">>)
  BY <1>1, ScenarioGraph DEF ScenarioFits
<1>3. \A S \in (SUBSET nodes) \ {{}} : \E n \in S : \A e \in u.edges : e[2] = n => e[1] \notin S
  <2> SUFFICES ASSUME NEW S \in (SUBSET nodes) \ {{}} PROVE \E n \in S : \A e \in u.edges : e[2] = n => e[1] \notin S
    OBVIOUS
  <2> DEFINE edges == u.edges
  <2>1. S # {} /\ IsFiniteSet(edges) /\ \A e \in edges : ~Reaches(edges, e[1], e[1])
    BY <1>2
  <2> HIDE DEF edges
  <2>2. \E n \in S : \A e \in edges : e[2] = n => e[1] \notin S
    BY <2>1, AcyclicHasFirst
  <2> QED BY <2>2 DEF edges
<1>4. ASSUME u.edges # {}, NEW C \in SUBSET nodes, <<"start">> \in C, \A e \in u.edges : e[1] \in C => e[2] \in C
      PROVE  u.nodes \cup {<<"done">>} \subseteq C
  <2> DEFINE edges == u.edges
             start == <<"start">>
  <2>1. IsFiniteSet(edges) /\ (\A e \in edges : e[1] \in C => e[2] \in C)
        /\ \A e \in edges : e[1] = start => e[2] \in C
    BY <1>2, <1>4
  <2> HIDE DEF edges, start
  <2>3. Successors(edges, {start}) \subseteq C
    BY <2>1 DEF Successors
  <2>2. ReachedFrom(edges, start) \subseteq C
    BY <2>1, <2>3, ReachedFromIsLeast
  <2> QED BY <2>2, <1>2, <1>4 DEF edges, start
<1>5. ASSUME NEW m \in DOMAIN u.messages, NEW side \in {"source", "target"}
      PROVE  /\ u.messages[m][side] # NoName
             /\ Cardinality(WrittenEnds(u.name, m, side))
                = (IF u.messages[m][side][2][1] = "end" THEN 1 ELSE 0)
  <2> DEFINE message == Sent(m)
             end == LowerEnd(uc, message, side)
  <2>1. message \in Range(uc.messages) /\ message.name = m
    BY <1>1, MessageOf
  <2> HIDE DEF message
  <2>2. u.messages[m][side] = end
    BY <1>1 DEF message
  <2>3. EndErrors(uc, message, side) = {}
    BY <2>1 DEF ScenarioFits
  <2>4. end # NoName /\ Cardinality(DeclaredEnds(uc, message, side)) = (IF end[2][1] = "end" THEN 1 ELSE 0)
    BY <2>1, <2>3, EndFits
  <2>5. Cardinality(WrittenEnds(uc.name, message.name, side)) = Cardinality(DeclaredEnds(uc, message, side))
    BY EndsAsWritten
  <2> HIDE DEF end, uc
  <2> QED BY <2>1, <2>2, <2>4, <2>5, <1>1
<1> HIDE DEF uc, Sent
<1> QED BY <1>3, <1>4, <1>5 DEF Playable

LEMMA ScenariosAccepted == ScenariosInv => ScenariosHold
<1> SUFFICES ASSUME ScenariosInv, input.surface = "uc", artifact # NoName, NEW u \in Range(artifact.lowered)
             PROVE  Playable(u)
  BY DEF ScenariosHold, Accepted, Playable
<1> DEFINE cases == file.useCases
<1>1. /\ UcFile(file) /\ ScenariosSoFar(st, agenda, cases) /\ agenda = <<>> /\ st.errors = {}
      /\ artifact = [lowered |-> st.lowered]
  BY DEF ScenariosInv, ScenariosDone
<1>2. /\ IsList(st.lowered) /\ Len(st.lowered) + Len(agenda) = Len(cases) /\ Len(agenda) = 0
      /\ \A i \in DOMAIN st.lowered : st.lowered[i] = Scenario(cases[i])
      /\ \A i \in DOMAIN st.lowered :
           ScenarioFits(cases[i]) /\ \A j \in DOMAIN st.lowered : cases[i].name = cases[j].name => i = j
  BY <1>1, EmptyList DEF ScenariosSoFar
<1>3. IsList(cases) /\ \A uc \in Range(cases) : UcDecl(uc)
  BY <1>1 DEF UcFile
<1> HIDE DEF cases
<1>4. DOMAIN st.lowered = DOMAIN cases
  <2>1. /\ Len(st.lowered) \in Nat /\ DOMAIN st.lowered = 1..Len(st.lowered)
        /\ Len(cases) \in Nat /\ DOMAIN cases = 1..Len(cases)
    BY <1>2, <1>3 DEF IsList
  <2> DEFINE m == Len(st.lowered)
             n == Len(cases)
             o == Len(agenda)
  <2>2. m \in Nat /\ n \in Nat /\ o = 0 /\ m + o = n
    BY <2>1, <1>2
  <2> HIDE DEF m, n, o
  <2>3. m = n
    BY <2>2
  <2> QED BY <2>1, <2>3 DEF m, n
<1>5. PICK k \in DOMAIN st.lowered : u = st.lowered[k]
  BY <1>1 DEF Range
<1>6. UcDecl(cases[k]) /\ k \in DOMAIN cases
  BY <1>3, <1>4, <1>5 DEF Range
<1>7. /\ ScenarioFits(cases[k]) /\ u = Scenario(cases[k])
      /\ \A j \in DOMAIN cases : cases[k].name = cases[j].name => j = k
  BY <1>2, <1>4, <1>5
<1> QED BY <1>3, <1>6, <1>7, ScenarioPlays DEF cases

(* Whatever scenarios a file has, each of an accepted one can be played out *)
(* in an order, reaches everything from its start, and anchors each end of  *)
(* a message where its participant says.  (usecases.rs compile_uc_file)    *)
THEOREM ScenariosAlwaysHold == Spec => []ScenariosHold
BY ScenariosAtFirst, ScenariosNext, ScenariosAccepted, PTL DEF Spec

-----------------------------------------------------------------------------
(* The search for a cycle of decisions.                                    *)

LEMMA ListFront ==
  ASSUME NEW s, IsList(s), s # <<>>
  PROVE  /\ IsList(Front(s)) /\ Len(s) \in Nat /\ Len(s) > 0 /\ DOMAIN s = 1..Len(s)
         /\ Len(Front(s)) = Len(s) - 1 /\ DOMAIN Front(s) = 1..(Len(s) - 1)
         /\ \A i \in 1..(Len(s) - 1) : Front(s)[i] = s[i]
         /\ Range(Front(s)) \subseteq Range(s) /\ Last(s) \in Range(s)
<1> DEFINE t == SubSeq(s, 1, Len(s) - 1)
<1>1. s \in Seq(Range(s)) /\ Len(s) \in Nat /\ Len(s) > 0 /\ DOMAIN s = 1..Len(s)
  BY DEF IsList
<1>2. \A i \in 1..(Len(s) - 1) : s[i] \in Range(s)
  BY <1>1 DEF Range
<1>3. /\ t \in Seq(Range(s)) /\ Len(t) = Len(s) - 1
      /\ \A i \in 1..(Len(s) - 1) : t[i] = s[i]
  BY <1>1, <1>2, SubSeqProperties
<1>4. t = Front(s)
  BY DEF Front
<1> HIDE DEF t
<1>5. IsList(t) /\ Range(t) \subseteq Range(s) /\ DOMAIN t = 1..(Len(s) - 1)
  BY <1>1, <1>3, ListOf
<1>6. Last(s) \in Range(s)
  BY <1>1 DEF Last, Range
<1> QED BY <1>1, <1>3, <1>4, <1>5, <1>6

LEMMA NamesAreListed ==
  ASSUME NEW s, IsList(s)
  PROVE  /\ IsList(NameList(s)) /\ DOMAIN NameList(s) = DOMAIN s
         /\ Range(NameList(s)) = {e.name : e \in Range(s)}
<1> DEFINE t == NameList(s)
<1>1. Len(s) \in Nat /\ DOMAIN s = 1..Len(s)
  BY DEF IsList
<1>2. t = [i \in 1..Len(s) |-> s[i].name]
  BY <1>1 DEF NameList
<1>3. Range(t) = {e.name : e \in Range(s)}
  BY <1>1, <1>2 DEF Range
<1>4. t \in [1..Len(s) -> Range(t)]
  BY <1>2 DEF Range
<1>5. t \in Seq(Range(t))
  BY <1>1, <1>4, SeqDef
<1> QED BY <1>1, <1>2, <1>3, <1>5 DEF IsList

Names(model) == NamesIn(model, "decisions")

Black(model, s) == {n \in Names(model) : s.color[n] = "black"}

SearchState(model, s) ==
  /\ HasFields(s, {"roots", "color", "followed", "stack", "cycle"})
  /\ IsList(s.roots) /\ Range(s.roots) \subseteq Names(model)
  /\ s.color \in [Names(model) -> {"white", "gray", "black"}]
  /\ s.followed \in [Names(model) -> Nat]

\* The stack is a path of the decisions being visited.
IsPath(model, s) ==
  /\ IsList(s.stack) /\ Range(s.stack) \subseteq Names(model)
  /\ \A n \in Names(model) : s.color[n] = "gray" <=> n \in Range(s.stack)
  /\ \A i, j \in DOMAIN s.stack : s.stack[i] = s.stack[j] => i = j
  /\ \A i \in DOMAIN s.stack : i + 1 \in DOMAIN s.stack => <<s.stack[i], s.stack[i + 1]>> \in Range(model.information)

\* What has been left can be evaluated, and requires nothing else.
Ranked(model, settled) ==
  \E rank \in [settled -> 1..Cardinality(settled)] :
    \A r \in Range(model.information) : r[1] \in settled /\ r[2] \in Names(model) =>
      r[2] \in settled /\ rank[r[2]] < rank[r[1]]

\* What was followed from a decision is settled, or being visited next.
Explored(model, s, coming) ==
  /\ \A n \in Names(model) : s.color[n] = "white" => s.followed[n] = 0
  /\ \A k \in DOMAIN s.stack : \A i \in EdgesFrom(model, s.stack[k]) : i <= s.followed[s.stack[k]] =>
       \/ s.color[model.information[i][2]] = "black"
       \/ k + 1 \in DOMAIN s.stack /\ model.information[i][2] = s.stack[k + 1]
       \/ k = Len(s.stack) /\ model.information[i][2] \in coming

Searching(model, s, coming) ==
  /\ SearchState(model, s) /\ IsPath(model, s) /\ Ranked(model, Black(model, s)) /\ Explored(model, s, coming)
  /\ \A n \in Names(model) \ coming : s.color[n] = "white" => n \in Range(s.roots)

IsCycle(model, cycle) ==
  /\ IsList(cycle) /\ Len(cycle) > 1 /\ Head(cycle) = Last(cycle) /\ Range(cycle) \subseteq Names(model)
  /\ \A i \in 1..(Len(cycle) - 1) : <<cycle[i], cycle[i + 1]>> \in Range(model.information)

SearchInv(model, s) ==
  IF s.cycle = <<>> THEN Searching(model, s, {}) ELSE IsCycle(model, s.cycle)

LEMMA RequirementsAreListed ==
  ASSUME NEW model, DmnDecisionModel(model)
  PROVE  /\ IsList(model.information)
         /\ \A i \in DOMAIN model.information : /\ i \in Nat /\ i > 0
              /\ model.information[i] = <<model.information[i][1], model.information[i][2]>>
              /\ model.information[i] \in Range(model.information)
         /\ \A r \in Range(model.information) : r = <<r[1], r[2]>>
         /\ \A n : EdgesFrom(model, n) \subseteq DOMAIN model.information
<1>1. IsList(model.information) /\ IsList(model.knowledge) /\ IsList(model.authority)
  BY DEF DmnDecisionModel, HasFields
<1>2. DOMAIN model.information = 1..Len(model.information) /\ Len(model.information) \in Nat
  BY <1>1 DEF IsList
<1> DEFINE a == model.information \o model.knowledge
<1>3. IsList(a) /\ Range(a) = Range(model.information) \cup Range(model.knowledge)
  BY <1>1, ListConcat
<1>4. Range(a \o model.authority) = Range(a) \cup Range(model.authority)
  BY <1>1, <1>3, ListConcat
<1>5. \A r \in Range(a \o model.authority) : r = <<r[1], r[2]>>
  BY DEF DmnDecisionModel, DmnRequirement
<1> HIDE DEF a
<1>6. \A r \in Range(model.information) : r = <<r[1], r[2]>>
  BY <1>3, <1>4, <1>5
<1> QED BY <1>1, <1>2, <1>6 DEF Range, EdgesFrom

LEMMA SearchStarts ==
  ASSUME NEW model, DmnDecisionModel(model)
  PROVE  SearchInv(model, Unvisited(model))
<1> DEFINE s == Unvisited(model)
           names == Names(model)
<1>1. IsList(model.decisions)
  BY DEF DmnDecisionModel, HasFields
<1>2. IsList(NameList(model.decisions)) /\ Range(NameList(model.decisions)) = names
  BY <1>1, NamesAreListed DEF Names, NamesIn
<1>3. /\ HasFields(s, {"roots", "color", "followed", "stack", "cycle"})
      /\ s.roots = NameList(model.decisions) /\ s.stack = <<>> /\ s.cycle = <<>>
      /\ s.color = [n \in names |-> "white"] /\ s.followed = [n \in names |-> 0]
  BY DEF Unvisited, StartSearch, HasFields, Names
<1> HIDE DEF s
<1>4. SearchState(model, s)
  BY <1>2, <1>3 DEF SearchState
<1>5. IsPath(model, s) /\ Explored(model, s, {})
  BY <1>3, EmptyList DEF IsPath, Explored
<1>6. Black(model, s) = {}
  BY <1>3 DEF Black
<1>7. Ranked(model, {})
  <2>1. Cardinality({}) = 0
    BY FS_EmptySet
  <2>2. [n \in {} |-> 1] \in [{} -> 1..Cardinality({})]
    OBVIOUS
  <2> QED BY <2>2 DEF Ranked
<1> QED BY <1>2, <1>3, <1>4, <1>5, <1>6, <1>7 DEF SearchInv, Searching, s

LEMMA EnterKeeps ==
  ASSUME NEW model, DmnDecisionModel(model), NEW s, NEW d \in Names(model), s.cycle = <<>>,
         Searching(model, s, {d}), s.color[d] = "white",
         s.stack # <<>> => <<Last(s.stack), d>> \in Range(model.information)
  PROVE  SearchInv(model, Enter(s, d))
<1> DEFINE t == Enter(s, d)
           names == Names(model)
           n0 == Len(s.stack)
<1>1. /\ SearchState(model, s) /\ IsPath(model, s) /\ Ranked(model, Black(model, s)) /\ Explored(model, s, {d})
      /\ \A n \in names \ {d} : s.color[n] = "white" => n \in Range(s.roots)
  BY DEF Searching
<1>2. DOMAIN s = {"roots", "color", "followed", "stack", "cycle"}
  BY <1>1 DEF SearchState, HasFields
<1>3. /\ DOMAIN t = DOMAIN s /\ t.roots = s.roots /\ t.followed = s.followed /\ t.cycle = s.cycle
      /\ t.color = [s.color EXCEPT ![d] = "gray"] /\ t.stack = Append(s.stack, d)
  BY <1>2 DEF Enter
<1> HIDE DEF t
<1>4. /\ s.color \in [names -> {"white", "gray", "black"}] /\ s.followed \in [names -> Nat]
  BY <1>1 DEF SearchState
<1>5. t.color[d] = "gray" /\ \A n \in names \ {d} : t.color[n] = s.color[n]
  BY <1>3, <1>4
<1>6. SearchState(model, t)
  BY <1>1, <1>3, <1>4 DEF SearchState, HasFields
<1>7. /\ IsList(s.stack) /\ Range(s.stack) \subseteq names
      /\ \A n \in names : s.color[n] = "gray" <=> n \in Range(s.stack)
      /\ \A i, j \in DOMAIN s.stack : s.stack[i] = s.stack[j] => i = j
      /\ \A i \in DOMAIN s.stack : i + 1 \in DOMAIN s.stack => <<s.stack[i], s.stack[i + 1]>> \in Range(model.information)
  BY <1>1 DEF IsPath
<1>8. /\ IsList(t.stack) /\ n0 \in Nat /\ DOMAIN s.stack = 1..n0 /\ DOMAIN t.stack = 1..(n0 + 1)
      /\ (\A i \in 1..n0 : t.stack[i] = s.stack[i]) /\ t.stack[n0 + 1] = d
      /\ Range(t.stack) = Range(s.stack) \cup {d}
  BY <1>3, <1>7, ListAppend
<1>9. d \notin Range(s.stack) /\ \A i \in 1..n0 : s.stack[i] # d /\ s.stack[i] \in names
  BY <1>7, <1>8 DEF Range
<1>10. n0 # 0 => s.stack # <<>> /\ s.stack[n0] = Last(s.stack)
  BY <1>8, EmptyList DEF Last
<1> HIDE DEF n0
<1>11. IsPath(model, t)
  <2>1. \A n \in names : t.color[n] = "gray" <=> n \in Range(t.stack)
    BY <1>5, <1>7, <1>8, <1>9
  <2>2. \A i, j \in DOMAIN t.stack : t.stack[i] = t.stack[j] => i = j
    <3>1. SUFFICES ASSUME NEW i \in 1..(n0 + 1), NEW j \in 1..(n0 + 1), t.stack[i] = t.stack[j] PROVE i = j
      BY <1>8
    <3>2. CASE i \in 1..n0 /\ j \in 1..n0
      BY <3>1, <3>2, <1>7, <1>8
    <3>3. CASE i = n0 + 1 \/ j = n0 + 1
      BY <3>1, <3>3, <1>8, <1>9
    <3> QED BY <3>2, <3>3, <1>8
  <2>3. ASSUME NEW i \in DOMAIN t.stack, i + 1 \in DOMAIN t.stack
        PROVE  <<t.stack[i], t.stack[i + 1]>> \in Range(model.information)
    <3>1. i \in 1..n0
      BY <2>3, <1>8
    <3>2. CASE i = n0
      <4>1. t.stack[i] = Last(s.stack) /\ t.stack[i + 1] = d /\ s.stack # <<>>
        BY <3>1, <3>2, <1>8, <1>10
      <4> QED BY <4>1
    <3>3. CASE i # n0
      <4>1. i + 1 \in 1..n0
        BY <3>1, <3>3, <1>8
      <4> QED BY <3>1, <4>1, <1>7, <1>8
    <3> QED BY <3>2, <3>3
  <2> QED BY <1>7, <1>8, <2>1, <2>2, <2>3 DEF IsPath
<1>12. Black(model, t) = Black(model, s)
  BY <1>5 DEF Black
<1>13. Explored(model, t, {})
  <2>1. \A n \in names : t.color[n] = "white" => t.followed[n] = 0
    BY <1>1, <1>3, <1>5 DEF Explored
  <2>2. ASSUME NEW k \in DOMAIN t.stack, NEW i \in EdgesFrom(model, t.stack[k]), i <= t.followed[t.stack[k]]
        PROVE  \/ t.color[model.information[i][2]] = "black"
               \/ k + 1 \in DOMAIN t.stack /\ model.information[i][2] = t.stack[k + 1]
    <3>1. i \in Nat /\ i > 0 /\ model.information[i][2] \in names
      BY RequirementsAreListed DEF EdgesFrom, Names
    <3>2. CASE k = n0 + 1
      <4>1. t.followed[t.stack[k]] = 0
        BY <3>2, <1>1, <1>3, <1>8 DEF Explored
      <4> QED BY <2>2, <3>1, <4>1
    <3>3. CASE k \in 1..n0
      <4>1. t.stack[k] = s.stack[k] /\ i <= s.followed[s.stack[k]]
        BY <2>2, <3>3, <1>3, <1>8
      <4>2. \/ s.color[model.information[i][2]] = "black"
            \/ k + 1 \in DOMAIN s.stack /\ model.information[i][2] = s.stack[k + 1]
            \/ k = n0 /\ model.information[i][2] \in {d}
        BY <4>1, <3>3, <1>1, <1>8 DEF Explored, n0
      <4>3. CASE s.color[model.information[i][2]] = "black"
        BY <4>3, <3>1, <1>5
      <4>4. CASE k + 1 \in DOMAIN s.stack /\ model.information[i][2] = s.stack[k + 1]
        BY <4>4, <3>3, <1>8
      <4>5. CASE k = n0 /\ model.information[i][2] \in {d}
        BY <4>5, <1>8
      <4> QED BY <4>2, <4>3, <4>4, <4>5
    <3> QED BY <3>2, <3>3, <1>8
  <2> QED BY <2>1, <2>2 DEF Explored
<1>14. \A n \in names \ {} : t.color[n] = "white" => n \in Range(t.roots)
  BY <1>1, <1>3, <1>5
<1> QED BY <1>1, <1>3, <1>6, <1>11, <1>12, <1>13, <1>14 DEF SearchInv, Searching, t

LEMMA TakeRootKeeps ==
  ASSUME NEW model, DmnDecisionModel(model), NEW s, SearchInv(model, s), s.cycle = <<>>, s.stack = <<>>, s.roots # <<>>
  PROVE  SearchInv(model, TakeRoot(s))
<1> DEFINE root == Head(s.roots)
           rest == [s EXCEPT !.roots = Tail(@)]
           names == Names(model)
<1>1. /\ SearchState(model, s) /\ IsPath(model, s) /\ Ranked(model, Black(model, s)) /\ Explored(model, s, {})
      /\ \A n \in names \ {} : s.color[n] = "white" => n \in Range(s.roots)
  BY DEF SearchInv, Searching
<1>2. DOMAIN s = {"roots", "color", "followed", "stack", "cycle"} /\ IsList(s.roots) /\ Range(s.roots) \subseteq names
  BY <1>1 DEF SearchState, HasFields
<1>3. /\ DOMAIN rest = DOMAIN s /\ rest.roots = Tail(s.roots) /\ rest.followed = s.followed /\ rest.cycle = s.cycle
      /\ rest.color = s.color /\ rest.stack = s.stack
  BY <1>2
<1>4. /\ IsList(rest.roots) /\ root \in Range(s.roots) /\ Range(rest.roots) \subseteq Range(s.roots)
      /\ Range(s.roots) \subseteq {root} \cup Range(rest.roots)
  <2>1. /\ IsList(Tail(s.roots)) /\ Head(s.roots) \in Range(s.roots) /\ Range(Tail(s.roots)) \subseteq Range(s.roots)
        /\ Len(s.roots) \in Nat /\ Len(Tail(s.roots)) = Len(s.roots) - 1 /\ Len(s.roots) > 0
        /\ \A i \in 1..(Len(s.roots) - 1) : Tail(s.roots)[i] = s.roots[i + 1]
    BY <1>2, ListTail
  <2>2. DOMAIN s.roots = 1..Len(s.roots) /\ DOMAIN Tail(s.roots) = 1..Len(Tail(s.roots)) /\ Head(s.roots) = s.roots[1]
    BY <1>2, <2>1 DEF IsList
  <2>3. ASSUME NEW x \in Range(s.roots), x # Head(s.roots) PROVE x \in Range(Tail(s.roots))
    <3>1. PICK i \in 1..Len(s.roots) : x = s.roots[i]
      BY <2>2 DEF Range
    <3>2. i - 1 \in 1..(Len(s.roots) - 1) /\ Tail(s.roots)[i - 1] = s.roots[(i - 1) + 1] /\ (i - 1) + 1 = i
      BY <3>1, <2>1, <2>2, <2>3
    <3> QED BY <3>1, <3>2, <2>1, <2>2 DEF Range
  <2> QED BY <1>3, <2>1, <2>3
<1> HIDE DEF rest, root
<1>5. SearchState(model, rest)
  BY <1>1, <1>2, <1>3, <1>4 DEF SearchState, HasFields
<1>6. IsPath(model, rest) /\ Ranked(model, Black(model, rest))
  BY <1>1, <1>3 DEF IsPath, Black
<1>7. \A coming : Explored(model, rest, coming)
  BY <1>1, <1>3, EmptyList DEF Explored
<1>8. CASE s.color[root] = "white"
  <2>1. Searching(model, rest, {root})
    BY <1>1, <1>3, <1>4, <1>5, <1>6, <1>7 DEF Searching
  <2>2. SearchInv(model, Enter(rest, root))
    BY <1>2, <1>3, <1>4, <1>8, <2>1, EnterKeeps
  <2> QED BY <1>8, <2>2 DEF TakeRoot, root, rest
<1>9. CASE s.color[root] # "white"
  <2>1. Searching(model, rest, {})
    BY <1>1, <1>3, <1>4, <1>5, <1>6, <1>7, <1>9 DEF Searching
  <2>2. SearchInv(model, rest)
    BY <1>3, <2>1 DEF SearchInv
  <2> QED BY <1>9, <2>2 DEF TakeRoot, root, rest
<1> QED BY <1>8, <1>9

LEMMA LeaveKeeps ==
  ASSUME NEW model, DmnDecisionModel(model), NEW s, SearchInv(model, s), s.cycle = <<>>, s.stack # <<>>,
         Pending(s, model) = {}
  PROVE  SearchInv(model, Leave(s))
<1> DEFINE t == Leave(s)
           names == Names(model)
           n0 == Len(s.stack)
           top == Last(s.stack)
           B == Black(model, s)
<1>1. /\ SearchState(model, s) /\ IsPath(model, s) /\ Ranked(model, B) /\ Explored(model, s, {})
      /\ \A n \in names \ {} : s.color[n] = "white" => n \in Range(s.roots)
  BY DEF SearchInv, Searching
<1>2. DOMAIN s = {"roots", "color", "followed", "stack", "cycle"}
  BY <1>1 DEF SearchState, HasFields
<1>3. /\ DOMAIN t = DOMAIN s /\ t.roots = s.roots /\ t.followed = s.followed /\ t.cycle = s.cycle
      /\ t.color = [s.color EXCEPT ![top] = "black"] /\ t.stack = Front(s.stack)
  BY <1>2 DEF Leave
<1> HIDE DEF t
<1>4. /\ s.color \in [names -> {"white", "gray", "black"}] /\ s.followed \in [names -> Nat]
  BY <1>1 DEF SearchState
<1>7. /\ IsList(s.stack) /\ Range(s.stack) \subseteq names
      /\ \A n \in names : s.color[n] = "gray" <=> n \in Range(s.stack)
      /\ \A i, j \in DOMAIN s.stack : s.stack[i] = s.stack[j] => i = j
      /\ \A i \in DOMAIN s.stack : i + 1 \in DOMAIN s.stack => <<s.stack[i], s.stack[i + 1]>> \in Range(model.information)
  BY <1>1 DEF IsPath
<1>8. /\ IsList(t.stack) /\ n0 \in Nat /\ n0 > 0 /\ DOMAIN s.stack = 1..n0
      /\ DOMAIN t.stack = 1..(n0 - 1) /\ Len(t.stack) = n0 - 1
      /\ (\A i \in 1..(n0 - 1) : t.stack[i] = s.stack[i])
      /\ Range(t.stack) \subseteq Range(s.stack) /\ top \in Range(s.stack) /\ top = s.stack[n0]
  <2>1. /\ IsList(Front(s.stack)) /\ Len(s.stack) \in Nat /\ Len(s.stack) > 0 /\ DOMAIN s.stack = 1..Len(s.stack)
        /\ Len(Front(s.stack)) = Len(s.stack) - 1 /\ DOMAIN Front(s.stack) = 1..(Len(s.stack) - 1)
        /\ \A i \in 1..(Len(s.stack) - 1) : Front(s.stack)[i] = s.stack[i]
        /\ Range(Front(s.stack)) \subseteq Range(s.stack) /\ Last(s.stack) \in Range(s.stack)
    BY <1>7, ListFront
  <2> QED BY <2>1, <1>3 DEF Last
<1>9. top \in names /\ s.color[top] = "gray"
  BY <1>7, <1>8
<1>10. t.color[top] = "black" /\ \A n \in names \ {top} : t.color[n] = s.color[n]
  BY <1>3, <1>4, <1>9
<1>11. \A i \in EdgesFrom(model, top) : s.color[model.information[i][2]] = "black" /\ model.information[i][2] \in names
  <2> TAKE i \in EdgesFrom(model, top)
  <2>1. i \in Nat /\ model.information[i][2] \in names
    BY RequirementsAreListed DEF EdgesFrom, Names
  <2>2. ~(i > s.followed[top]) /\ s.followed[top] \in Nat
    BY <1>4, <1>9 DEF Pending
  <2>3. i <= s.followed[top]
    BY <2>1, <2>2
  <2>4. n0 \in DOMAIN s.stack /\ n0 + 1 \notin DOMAIN s.stack
    BY <1>8
  <2>5. \/ s.color[model.information[i][2]] = "black"
        \/ n0 + 1 \in DOMAIN s.stack /\ model.information[i][2] = s.stack[n0 + 1]
        \/ n0 = Len(s.stack) /\ model.information[i][2] \in {}
    BY <2>3, <2>4, <1>1, <1>8 DEF Explored
  <2> QED BY <2>1, <2>4, <2>5
<1> HIDE DEF n0, top, B
<1>12. SearchState(model, t)
  <2>1. t.color \in [names -> {"white", "gray", "black"}]
    BY <1>3, <1>4
  <2> QED BY <2>1, <1>1, <1>3 DEF SearchState, HasFields
<1>13. \A i \in 1..(n0 - 1) : t.stack[i] # top /\ i \in DOMAIN s.stack
  <2> TAKE i \in 1..(n0 - 1)
  <2>1. i \in 1..n0 /\ n0 \in 1..n0 /\ i # n0
    BY <1>8
  <2> QED BY <2>1, <1>7, <1>8
<1>14. top \notin Range(t.stack)
  BY <1>8, <1>13 DEF Range
<1>15. \A n \in Range(s.stack) : n # top => n \in Range(t.stack)
  <2> TAKE n \in Range(s.stack)
  <2> HAVE n # top
  <2>1. PICK i \in 1..n0 : n = s.stack[i]
    BY <1>8 DEF Range
  <2>2. i \in 1..(n0 - 1)
    BY <2>1, <1>8
  <2> QED BY <2>1, <2>2, <1>8 DEF Range
<1>16. IsPath(model, t)
  <2>1. \A n \in names : t.color[n] = "gray" <=> n \in Range(t.stack)
    <3> TAKE n \in names
    <3>1. CASE n = top
      BY <3>1, <1>10, <1>14
    <3>2. CASE n # top
      <4>1. t.color[n] = s.color[n]
        BY <3>2, <1>10
      <4> QED BY <4>1, <3>2, <1>7, <1>8, <1>15
    <3> QED BY <3>1, <3>2
  <2>2. \A i, j \in DOMAIN t.stack : t.stack[i] = t.stack[j] => i = j
    BY <1>7, <1>8, <1>13
  <2>3. ASSUME NEW i \in DOMAIN t.stack, i + 1 \in DOMAIN t.stack
        PROVE  <<t.stack[i], t.stack[i + 1]>> \in Range(model.information)
    <3>1. i \in DOMAIN s.stack /\ i + 1 \in DOMAIN s.stack /\ t.stack[i] = s.stack[i] /\ t.stack[i + 1] = s.stack[i + 1]
      BY <2>3, <1>8, <1>13
    <3> QED BY <3>1, <1>7
  <2>4. Range(t.stack) \subseteq names
    BY <1>7, <1>8
  <2> QED BY <1>8, <2>1, <2>2, <2>3, <2>4 DEF IsPath
<1>17. Explored(model, t, {})
  <2>1. \A n \in names : t.color[n] = "white" => t.followed[n] = 0
    BY <1>1, <1>3, <1>10 DEF Explored
  <2>2. ASSUME NEW k \in DOMAIN t.stack, NEW i \in EdgesFrom(model, t.stack[k]), i <= t.followed[t.stack[k]]
        PROVE  \/ t.color[model.information[i][2]] = "black"
               \/ k + 1 \in DOMAIN t.stack /\ model.information[i][2] = t.stack[k + 1]
    <3>1. model.information[i][2] \in names
      BY DEF EdgesFrom, Names
    <3>2. k \in 1..(n0 - 1) /\ k \in DOMAIN s.stack /\ t.stack[k] = s.stack[k] /\ i <= s.followed[s.stack[k]]
      BY <2>2, <1>3, <1>8, <1>13
    <3>3. \/ s.color[model.information[i][2]] = "black"
          \/ k + 1 \in DOMAIN s.stack /\ model.information[i][2] = s.stack[k + 1]
      BY <3>2, <1>1 DEF Explored
    <3>4. CASE s.color[model.information[i][2]] = "black"
      BY <3>1, <3>4, <1>10
    <3>5. CASE k + 1 \in DOMAIN s.stack /\ model.information[i][2] = s.stack[k + 1]
      <4>1. CASE k + 1 = n0
        BY <3>5, <4>1, <1>8, <1>10
      <4>2. CASE k + 1 # n0
        <5>1. k + 1 \in 1..(n0 - 1)
          BY <3>2, <4>2, <1>8
        <5> QED BY <5>1, <3>5, <1>8
      <4> QED BY <4>1, <4>2
    <3> QED BY <3>3, <3>4, <3>5
  <2> QED BY <2>1, <2>2 DEF Explored
<1>18. \A n \in names \ {} : t.color[n] = "white" => n \in Range(t.roots)
  BY <1>1, <1>3, <1>10
<1>19. Black(model, t) = B \cup {top} /\ top \notin B /\ \A n \in B : n \in names /\ s.color[n] = "black"
  BY <1>9, <1>10 DEF Black, B
<1>20. Ranked(model, B \cup {top})
  <2>1. IsFiniteSet(names)
    <3>1. IsList(model.decisions)
      BY DEF DmnDecisionModel, HasFields
    <3>2. IsFiniteSet(Range(model.decisions))
      BY <3>1, ListIsFinite
    <3> DEFINE f == [d \in Range(model.decisions) |-> d.name]
    <3>3. f \in Surjection(Range(model.decisions), names)
      BY DEF Surjection, Names, NamesIn
    <3> HIDE DEF f
    <3> QED BY <3>2, <3>3, FS_Surjection
  <2>2. IsFiniteSet(B)
    BY <2>1, FS_Subset DEF B, Black
  <2> DEFINE c == Cardinality(B)
             C == B \cup {top}
  <2>3. c \in Nat /\ Cardinality(C) = c + 1
    BY <2>2, <1>19, FS_CardinalityType, FS_AddElement
  <2>4. PICK rank \in [B -> 1..c] : \A r \in Range(model.information) : r[1] \in B /\ r[2] \in names =>
          r[2] \in B /\ rank[r[2]] < rank[r[1]]
    BY <1>1 DEF Ranked, names
  <2> HIDE DEF c
  <2> DEFINE up == [n \in C |-> IF n = top THEN c + 1 ELSE rank[n]]
  <2>5. up \in [C -> 1..(c + 1)]
    <3>1. ASSUME NEW n \in C PROVE up[n] \in 1..(c + 1)
      <4>1. CASE n = top
        BY <4>1, <2>3
      <4>2. CASE n # top
        <5>1. n \in B /\ rank[n] \in 1..c /\ up[n] = rank[n]
          BY <4>2, <2>4
        <5> QED BY <5>1, <2>3
      <4> QED BY <4>1, <4>2
    <3> QED BY <3>1
  <2>6. ASSUME NEW r \in Range(model.information), r[1] \in C, r[2] \in names
        PROVE  r[2] \in C /\ up[r[2]] < up[r[1]]
    <3>1. CASE r[1] \in B
      <4>1. r[2] \in B /\ rank[r[2]] < rank[r[1]]
        BY <3>1, <2>4, <2>6
      <4>2. up[r[2]] = rank[r[2]] /\ up[r[1]] = rank[r[1]]
        BY <3>1, <4>1, <1>19
      <4> QED BY <4>1, <4>2
    <3>2. CASE r[1] = top
      <4>1. PICK i \in DOMAIN model.information : r = model.information[i]
        BY DEF Range
      <4>2. i \in EdgesFrom(model, top)
        BY <4>1, <3>2, <2>6 DEF EdgesFrom, Names
      <4>3. r[2] \in B
        BY <4>1, <4>2, <1>11 DEF B, Black
      <4>4. up[r[2]] = rank[r[2]] /\ up[r[1]] = c + 1 /\ rank[r[2]] \in 1..c
        BY <3>2, <4>3, <1>19, <2>4
      <4> QED BY <4>3, <4>4, <2>3
    <3> QED BY <3>1, <3>2, <2>6
  <2> HIDE DEF up
  <2>7. \A r \in Range(model.information) : r[1] \in C /\ r[2] \in names => r[2] \in C /\ up[r[2]] < up[r[1]]
    BY <2>6
  <2>8. up \in [C -> 1..Cardinality(C)]
    BY <2>3, <2>5
  <2> HIDE DEF C
  <2>9. Ranked(model, C)
    BY <2>7, <2>8 DEF Ranked, names
  <2> QED BY <2>9 DEF C
<1> QED BY <1>1, <1>3, <1>12, <1>16, <1>17, <1>18, <1>19, <1>20 DEF SearchInv, Searching, t

LEMMA FollowKeeps ==
  ASSUME NEW model, DmnDecisionModel(model), NEW s, SearchInv(model, s), s.cycle = <<>>, s.stack # <<>>,
         Pending(s, model) # {}
  PROVE  SearchInv(model, Follow(s, model))
<1> DEFINE names == Names(model)
           n0 == Len(s.stack)
           top == Last(s.stack)
           next == CHOOSE i \in Pending(s, model) : \A j \in Pending(s, model) : i <= j
           required == model.information[next][2]
           past == [s EXCEPT !.followed[top] = next]
           from == CHOOSE i \in DOMAIN s.stack : s.stack[i] = required
<1>1. /\ SearchState(model, s) /\ IsPath(model, s) /\ Ranked(model, Black(model, s)) /\ Explored(model, s, {})
      /\ \A n \in names \ {} : s.color[n] = "white" => n \in Range(s.roots)
  BY DEF SearchInv, Searching
<1>2. DOMAIN s = {"roots", "color", "followed", "stack", "cycle"}
  BY <1>1 DEF SearchState, HasFields
<1>3. /\ DOMAIN past = DOMAIN s /\ past.roots = s.roots /\ past.cycle = s.cycle /\ past.color = s.color
      /\ past.stack = s.stack /\ past.followed = [s.followed EXCEPT ![top] = next]
  BY <1>2
<1>4. /\ s.color \in [names -> {"white", "gray", "black"}] /\ s.followed \in [names -> Nat]
  BY <1>1 DEF SearchState
<1>5. /\ IsList(s.stack) /\ Range(s.stack) \subseteq names
      /\ \A n \in names : s.color[n] = "gray" <=> n \in Range(s.stack)
      /\ \A i, j \in DOMAIN s.stack : s.stack[i] = s.stack[j] => i = j
      /\ \A i \in DOMAIN s.stack : i + 1 \in DOMAIN s.stack => <<s.stack[i], s.stack[i + 1]>> \in Range(model.information)
  BY <1>1 DEF IsPath
<1>6. n0 \in Nat /\ n0 > 0 /\ DOMAIN s.stack = 1..n0 /\ top \in Range(s.stack) /\ top = s.stack[n0]
  BY <1>5, ListFront DEF Last
<1>7. top \in names /\ s.color[top] = "gray" /\ \A k \in 1..n0 : s.stack[k] = top => k = n0
  <2>1. n0 \in 1..n0
    BY <1>6
  <2> QED BY <2>1, <1>5, <1>6
<1>8. /\ next \in EdgesFrom(model, top) /\ next \in Nat
      /\ \A i \in EdgesFrom(model, top) : i < next => i <= s.followed[top]
  <2> DEFINE P == Pending(s, model)
  <2>1. P \subseteq Nat /\ P # {} /\ \A i \in EdgesFrom(model, top) : i \in Nat
    BY RequirementsAreListed DEF Pending
  <2>2. next \in P /\ \A j \in P : next <= j
    <3> HIDE DEF P
    <3>1. LET k == CHOOSE i \in P : \A j \in P : i <= j IN k \in P /\ \A j \in P : k <= j
      BY <2>1, LeastIn
    <3> QED BY <3>1 DEF P
  <2>3. P = {i \in EdgesFrom(model, top) : i > s.followed[top]} /\ s.followed[top] \in Nat
    BY <1>4, <1>7 DEF Pending
  <2> HIDE DEF P, next
  <2>4. ASSUME NEW i \in EdgesFrom(model, top), i < next PROVE i <= s.followed[top]
    <3>1. i \notin P /\ i \in Nat /\ next \in Nat
      BY <2>1, <2>2, <2>4
    <3> QED BY <3>1, <2>3
  <2> QED BY <2>1, <2>2, <2>3, <2>4
<1> HIDE DEF next
<1>9. /\ required \in names /\ model.information[next] = <<top, required>>
      /\ <<top, required>> \in Range(model.information)
  <2>1. next \in DOMAIN model.information /\ model.information[next][1] = top /\ required \in names
    BY <1>8 DEF EdgesFrom, Names
  <2>2. model.information[next] = <<model.information[next][1], model.information[next][2]>>
        /\ model.information[next] \in Range(model.information)
    BY <2>1, RequirementsAreListed
  <2> QED BY <2>1, <2>2
<1> HIDE DEF n0, top, past, required, from
<1>10. SearchState(model, past)
  <2>1. past.followed \in [names -> Nat]
    BY <1>3, <1>4, <1>8
  <2> QED BY <2>1, <1>1, <1>2, <1>3 DEF SearchState, HasFields
<1>11. IsPath(model, past) /\ Ranked(model, Black(model, past))
  BY <1>1, <1>3 DEF IsPath, Black
<1>12. past.followed[top] = next /\ \A n \in names \ {top} : past.followed[n] = s.followed[n]
  BY <1>3, <1>4, <1>7
<1>13. \A n \in names : past.color[n] = "white" => past.followed[n] = 0
  BY <1>1, <1>3, <1>7, <1>12 DEF Explored
<1>14. ASSUME NEW k \in DOMAIN past.stack, NEW i \in EdgesFrom(model, past.stack[k]), i <= past.followed[past.stack[k]]
       PROVE  \/ past.color[model.information[i][2]] = "black"
              \/ k + 1 \in DOMAIN past.stack /\ model.information[i][2] = past.stack[k + 1]
              \/ k = Len(past.stack) /\ model.information[i][2] = required
  <2>1. k \in 1..n0 /\ past.stack[k] = s.stack[k] /\ s.stack[k] \in names
    BY <1>3, <1>5, <1>6 DEF Range
  <2>2. CASE s.stack[k] # top \/ i # next
    <3>1. i <= s.followed[s.stack[k]]
      <4>1. CASE s.stack[k] # top
        BY <4>1, <1>12, <1>14, <2>1
      <4>2. CASE s.stack[k] = top /\ i # next
        <5>1. i \in Nat /\ i <= next
          BY <4>2, <1>12, <1>14, <2>1, RequirementsAreListed
        <5> QED BY <5>1, <4>2, <1>8, <1>14, <2>1
      <4> QED BY <2>2, <4>1, <4>2
    <3>2. \/ s.color[model.information[i][2]] = "black"
          \/ k + 1 \in DOMAIN s.stack /\ model.information[i][2] = s.stack[k + 1]
      BY <3>1, <1>1, <1>6, <2>1 DEF Explored
    <3> QED BY <3>2, <1>3
  <2>3. CASE s.stack[k] = top /\ i = next
    BY <2>1, <2>3, <1>3, <1>7 DEF n0, required
  <2> QED BY <2>2, <2>3
<1>15. CASE s.color[required] = "white"
  <2>1. Searching(model, past, {required})
    BY <1>1, <1>3, <1>10, <1>11, <1>13, <1>14 DEF Searching, Explored
  <2>2. SearchInv(model, Enter(past, required))
    BY <1>3, <1>9, <1>15, <2>1, EnterKeeps DEF top
  <2> QED BY <1>15, <2>2 DEF Follow, required, past, next, top
<1>16. CASE s.color[required] = "black"
  <2>1. Explored(model, past, {})
    BY <1>3, <1>13, <1>14, <1>16 DEF Explored
  <2>2. Searching(model, past, {})
    BY <1>1, <1>3, <1>10, <1>11, <2>1 DEF Searching
  <2>3. SearchInv(model, past)
    BY <1>3, <2>2 DEF SearchInv
  <2> QED BY <1>16, <2>3 DEF Follow, required, past, next, top
<1>17. CASE s.color[required] = "gray"
  <2>1. from \in 1..n0 /\ s.stack[from] = required
    <3>1. \E i \in DOMAIN s.stack : s.stack[i] = required
      BY <1>5, <1>9, <1>17 DEF Range
    <3> QED BY <3>1, <1>6 DEF from
  <2> DEFINE part == SubSeq(s.stack, from, n0)
             cycle == Append(part, required)
             m == n0 - from + 1
  <2>2. /\ part \in Seq(Range(s.stack)) /\ Len(part) = m /\ m \in Nat /\ m > 0
        /\ \A i \in 1..m : part[i] = s.stack[from + i - 1]
    <3>1. \A i \in from..n0 : s.stack[i] \in Range(s.stack)
      BY <2>1, <1>6 DEF Range
    <3>2. /\ part \in Seq(Range(s.stack)) /\ Len(part) = IF from <= n0 THEN n0 - from + 1 ELSE 0
          /\ \A i \in 1..(n0 - from + 1) : part[i] = s.stack[from + i - 1]
      BY <3>1, <2>1, <1>6, SubSeqProperties
    <3> QED BY <3>2, <2>1, <1>6
  <2>3. IsList(part) /\ Range(part) \subseteq names
    BY <2>2, <1>5, ListOf
  <2> HIDE DEF part, m
  <2>4. /\ IsList(cycle) /\ DOMAIN cycle = 1..(m + 1) /\ cycle[m + 1] = required
        /\ (\A i \in 1..m : cycle[i] = part[i]) /\ Range(cycle) = Range(part) \cup {required}
    <3>1. DOMAIN part = 1..m
      BY <2>2
    <3> QED BY <3>1, <2>2, <2>3, ListAppend
  <2> HIDE DEF cycle
  <2>5. Len(cycle) = m + 1 /\ Head(cycle) = cycle[1] /\ cycle # <<>>
    <3>1. cycle \in Seq(Range(cycle))
      BY <2>4 DEF IsList
    <3>2. Len(cycle) \in Nat /\ DOMAIN cycle = 1..Len(cycle)
      BY <3>1
    <3>3. Len(cycle) = m + 1
      <4> DEFINE l == Len(cycle)
      <4>1. l \in Nat /\ m \in Nat /\ 1..l = 1..(m + 1)
        BY <3>2, <2>2, <2>4
      <4> HIDE DEF l
      <4>2. l = m + 1
        BY <4>1
      <4> QED BY <4>2 DEF l
    <3> QED BY <3>1, <3>3, <2>2
  <2>6. cycle[1] = required /\ Last(cycle) = required
    <3>1. 1 \in 1..m /\ from + 1 - 1 = from
      BY <2>1, <2>2
    <3> QED BY <3>1, <2>1, <2>2, <2>4, <2>5 DEF Last
  <2>7. ASSUME NEW i \in 1..m PROVE <<cycle[i], cycle[i + 1]>> \in Range(model.information)
    <3>1. cycle[i] = s.stack[from + i - 1] /\ from + i - 1 \in 1..n0 /\ from + i - 1 \in DOMAIN s.stack
      BY <2>1, <2>2, <2>4, <1>6 DEF m
    <3>2. CASE i = m
      <4>1. from + i - 1 = n0
        BY <3>2, <2>1, <1>6 DEF m
      <4> QED BY <4>1, <3>1, <3>2, <2>4, <1>6, <1>9
    <3>3. CASE i # m
      <4>1. /\ i + 1 \in 1..m /\ from + (i + 1) - 1 = (from + i - 1) + 1
            /\ (from + i - 1) + 1 \in 1..n0
        BY <3>3, <2>1, <2>2, <1>6 DEF m
      <4>2. cycle[i + 1] = s.stack[(from + i - 1) + 1]
        BY <4>1, <2>2, <2>4
      <4> QED BY <4>1, <4>2, <3>1, <1>5, <1>6
    <3> QED BY <3>2, <3>3
  <2>8. IsCycle(model, cycle)
    <3>1. \A i \in 1..(Len(cycle) - 1) : <<cycle[i], cycle[i + 1]>> \in Range(model.information)
      BY <2>2, <2>5, <2>7
    <3>2. Len(cycle) > 1 /\ Range(cycle) \subseteq names
      BY <2>2, <2>3, <2>4, <2>5, <1>9
    <3> QED BY <3>1, <3>2, <2>4, <2>5, <2>6 DEF IsCycle
  <2> DEFINE t == [past EXCEPT !.cycle = cycle]
  <2>9. t.cycle = cycle
    BY <1>2, <1>3
  <2>10. SearchInv(model, t)
    BY <2>5, <2>8, <2>9 DEF SearchInv
  <2>11. Follow(s, model) = t
    BY <1>17 DEF Follow, cycle, part, from, required, past, next, top, n0
  <2> QED BY <2>10, <2>11
<1> QED BY <1>4, <1>9, <1>15, <1>16, <1>17

LEMMA VisitKeeps ==
  ASSUME NEW model, DmnDecisionModel(model), NEW s, SearchInv(model, s), ~SearchOver(s)
  PROVE  SearchInv(model, Visit(s, model))
BY TakeRootKeeps, FollowKeeps, LeaveKeeps DEF Visit, SearchOver

\* A path along requirements goes down in rank.
LEMMA CyclesHaveNoRank ==
  ASSUME NEW model, NEW cycle, IsCycle(model, cycle)
  PROVE  ~Evaluable(model)
<1> SUFFICES ASSUME Evaluable(model) PROVE FALSE
  OBVIOUS
<1> DEFINE N == Cardinality(Names(model))
           m == Len(cycle)
<1>1. PICK rank \in [Names(model) -> 1..N] :
        \A r \in Range(model.information) : r[1] \in Names(model) /\ r[2] \in Names(model) => rank[r[2]] < rank[r[1]]
  BY DEF Evaluable, Names, NamesIn
<1>2. cycle \in Seq(Range(cycle)) /\ m \in Nat /\ m > 1 /\ DOMAIN cycle = 1..m /\ cycle[1] = cycle[m]
  BY DEF IsCycle, IsList, Last
<1>3. \A i \in 1..m : cycle[i] \in Names(model) /\ rank[cycle[i]] \in Int
  BY <1>1, <1>2 DEF IsCycle, Range
<1>4. \A i \in 1..(m - 1) : rank[cycle[i + 1]] < rank[cycle[i]]
  <2> TAKE i \in 1..(m - 1)
  <2>1. <<cycle[i], cycle[i + 1]>> \in Range(model.information) /\ i \in 1..m /\ i + 1 \in 1..m
    BY <1>2 DEF IsCycle
  <2> QED BY <2>1, <1>1, <1>3
<1> HIDE DEF m, N
<1> DEFINE S == {i \in Nat : i + 2 \in 1..m => rank[cycle[i + 2]] < rank[cycle[1]]}
<1>5. 0 \in S
  <2>1. 1 \in 1..(m - 1) /\ 0 + 2 = 1 + 1
    BY <1>2
  <2> QED BY <2>1, <1>4
<1>6. ASSUME NEW n \in Nat, n \in S PROVE n + 1 \in S
  <2>1. ASSUME n + 1 + 2 \in 1..m PROVE rank[cycle[n + 1 + 2]] < rank[cycle[1]]
    <3>1. n + 2 \in 1..m /\ n + 2 \in 1..(m - 1) /\ n + 1 + 2 = (n + 2) + 1 /\ 1 \in 1..m
      BY <2>1, <1>2
    <3>2. rank[cycle[n + 2]] < rank[cycle[1]]
      BY <3>1, <1>6
    <3>3. rank[cycle[(n + 2) + 1]] < rank[cycle[n + 2]]
      BY <3>1, <1>4
    <3>4. rank[cycle[(n + 2) + 1]] \in Int /\ rank[cycle[n + 2]] \in Int /\ rank[cycle[1]] \in Int
      BY <3>1, <2>1, <1>3
    <3> QED BY <3>1, <3>2, <3>3, <3>4
  <2> QED BY <2>1
<1> HIDE DEF S
<1>7. Nat \subseteq S
  BY <1>5, <1>6, SetInduction
<1>8. m - 2 \in S /\ (m - 2) + 2 = m /\ m \in 1..m /\ m - 2 \in Nat
  BY <1>2, <1>7
<1>9. rank[cycle[m]] < rank[cycle[1]] /\ rank[cycle[1]] \in Int
  BY <1>2, <1>3, <1>8 DEF S
<1> QED BY <1>2, <1>9

LEMMA SearchEnds ==
  ASSUME NEW model, DmnDecisionModel(model), NEW s, SearchInv(model, s), SearchOver(s)
  PROVE  /\ s.cycle = <<>> <=> Evaluable(model)
         /\ s.cycle # <<>> => IsCycle(model, s.cycle)
<1>1. CASE s.cycle = <<>>
  <2>1. Searching(model, s, {}) /\ s.roots = <<>> /\ s.stack = <<>>
    BY <1>1 DEF SearchInv, SearchOver
  <2>2. \A n \in Names(model) : s.color[n] = "black"
    BY <2>1, EmptyList DEF Searching, IsPath, SearchState
  <2>3. Black(model, s) = Names(model)
    BY <2>2 DEF Black
  <2>4. Evaluable(model)
    BY <2>1, <2>3 DEF Searching, Ranked, Evaluable, Names, NamesIn
  <2> QED BY <1>1, <2>4
<1>2. CASE s.cycle # <<>>
  BY <1>2, CyclesHaveNoRank DEF SearchInv
<1> QED BY <1>1, <1>2

-----------------------------------------------------------------------------
(* What a decision model without errors is.                                *)

LEMMA NamedOnce ==
  ASSUME NEW s, IsList(s), Repeated(s) = {}, NEW n \in Range(s)
  PROVE  Cardinality({i \in DOMAIN s : s[i] = n}) = 1
<1>1. DOMAIN s = 1..Len(s) /\ Len(s) \in Nat
  BY DEF IsList
<1>2. PICK k \in DOMAIN s : s[k] = n
  BY DEF Range
<1>3. ASSUME NEW i \in DOMAIN s, NEW j \in DOMAIN s, s[i] = s[j] PROVE ~(i < j)
  <2> SUFFICES ASSUME i < j PROVE FALSE
    OBVIOUS
  <2>1. i \in 1..(j - 1)
    BY <1>1
  <2>2. s[j] \in Repeated(s)
    BY <1>3, <2>1 DEF Repeated
  <2> QED BY <2>2
<1>4. \A i \in DOMAIN s : s[i] = n => i = k
  BY <1>1, <1>2, <1>3
<1>5. {i \in DOMAIN s : s[i] = n} = {k}
  BY <1>2, <1>4
<1> QED BY <1>5, FS_Singleton

LEMMA ElementsAreNamed ==
  ASSUME NEW model, DmnDecisionModel(model)
  PROVE  /\ IsList(ElementNames(model))
         /\ \A section \in {"inputs", "sources", "models", "decisions"} :
              NamesIn(model, section) \subseteq Range(ElementNames(model))
<1>1. /\ IsList(model.inputs) /\ IsList(model.sources) /\ IsList(model.models)
      /\ IsList(model.decisions) /\ IsList(model.services) /\ IsList(model.views)
  BY DEF DmnDecisionModel, HasFields
<1> DEFINE i == NameList(model.inputs)
           s == NameList(model.sources)
           m == NameList(model.models)
           d == NameList(model.decisions)
           e == NameList(model.services)
           v == NameList(model.views)
<1>2. /\ IsList(i) /\ IsList(s) /\ IsList(m) /\ IsList(d) /\ IsList(e) /\ IsList(v)
      /\ Range(i) = NamesIn(model, "inputs") /\ Range(s) = NamesIn(model, "sources")
      /\ Range(m) = NamesIn(model, "models") /\ Range(d) = NamesIn(model, "decisions")
  BY <1>1, NamesAreListed DEF NamesIn
<1>3. ElementNames(model) = i \o s \o m \o d \o e \o v
  BY DEF ElementNames
<1> HIDE DEF i, s, m, d, e, v
<1>4. IsList(i \o s) /\ Range(i \o s) = Range(i) \cup Range(s)
  BY <1>2, ListConcat
<1>5. IsList(i \o s \o m) /\ Range(i \o s \o m) = Range(i \o s) \cup Range(m)
  BY <1>2, <1>4, ListConcat
<1>6. IsList(i \o s \o m \o d) /\ Range(i \o s \o m \o d) = Range(i \o s \o m) \cup Range(d)
  BY <1>2, <1>5, ListConcat
<1>7. IsList(i \o s \o m \o d \o e) /\ Range(i \o s \o m \o d \o e) = Range(i \o s \o m \o d) \cup Range(e)
  BY <1>2, <1>6, ListConcat
<1>8. /\ IsList(i \o s \o m \o d \o e \o v)
      /\ Range(i \o s \o m \o d \o e \o v) = Range(i \o s \o m \o d \o e) \cup Range(v)
  BY <1>2, <1>7, ListConcat
<1> QED BY <1>2, <1>3, <1>4, <1>5, <1>6, <1>7, <1>8

\* What the lowering of a model found nothing wrong with.
DecisionsOf(model) == {d \in Range(model.decisions) : d.logic # NoName}
LogicsOf(model) == {d.logic : d \in DecisionsOf(model)} \cup {b.logic : b \in Range(model.models)}

Clean(f, model) ==
  /\ DuplicateErrors(model) = {} /\ RequirementErrors(model) = {}
  /\ \A l \in LogicsOf(model) : LogicErrors(model, l) = {}
  /\ \A d \in DecisionsOf(model) : d.logic.kind = "table" => TableErrors(f, model, d) = {}

RequirementsLand(model) ==
  LET Bearers(n) == {i \in DOMAIN ElementNames(model) : ElementNames(model)[i] = n}
  IN  \A r \in Range(model.information \o model.knowledge \o model.authority) :
        Cardinality(Bearers(r[1])) = 1 /\ Cardinality(Bearers(r[2])) = 1

LEMMA RequirementsAreSound ==
  ASSUME NEW model, DmnDecisionModel(model), DuplicateErrors(model) = {}, RequirementErrors(model) = {}
  PROVE  RequirementsLand(model)
<1> DEFINE names == ElementNames(model)
           i == model.information
           k == model.knowledge
           a == model.authority
<1> SUFFICES ASSUME NEW r \in Range(i \o k \o a) PROVE r[1] \in Range(names) /\ r[2] \in Range(names)
  <2>1. Repeated(names) = {}
    BY NoErrorWhen DEF DuplicateErrors
  <2>2. IsList(names)
    BY ElementsAreNamed
  <2> HIDE DEF names
  <2>3. \A n \in Range(names) : Cardinality({x \in DOMAIN names : names[x] = n}) = 1
    BY <2>1, <2>2, NamedOnce
  <2> QED BY <2>3 DEF RequirementsLand, names
<1>1. IsList(i) /\ IsList(k) /\ IsList(a)
  BY DEF DmnDecisionModel, HasFields
<1>2. IsList(i \o k) /\ Range(i \o k) = Range(i) \cup Range(k)
  BY <1>1, ListConcat
<1>3. Range(i \o k \o a) = Range(i \o k) \cup Range(a)
  BY <1>1, <1>2, ListConcat
<1>4. r \in Range(i) \/ r \in Range(k) \/ r \in Range(a)
  BY <1>2, <1>3
<1> DEFINE decisions == NamesIn(model, "decisions")
<1>5. /\ r \in Range(i) => r[1] \in decisions /\ r[2] \in decisions \cup NamesIn(model, "inputs")
      /\ r \in Range(k) => r[1] \in decisions /\ r[2] \in NamesIn(model, "models")
      /\ r \in Range(a) => r[1] \in decisions /\ r[2] \in NamesIn(model, "sources")
  BY DEF RequirementErrors, When
<1> HIDE DEF decisions, i, k, a, names
<1>6. /\ decisions \subseteq Range(names) /\ NamesIn(model, "inputs") \subseteq Range(names)
      /\ NamesIn(model, "models") \subseteq Range(names) /\ NamesIn(model, "sources") \subseteq Range(names)
  BY ElementsAreNamed DEF decisions, names
<1> QED BY <1>4, <1>5, <1>6

TableFits(f, model, d) ==
  \E t \in Range(f.tables) :
    /\ t.path = d.logic.name
    /\ Len(t.table.outputs) = Len(d.outputs)
    /\ \A i \in Range(model.inputs) :
         <<d.name, i.name>> \in Range(model.information) <=> i.name \in Range(t.table.inputs)

LEMMA TablesAreSound ==
  ASSUME NEW f, IsList(f.tables), NEW model, DmnDecisionModel(model), NEW d, TableErrors(f, model, d) = {}
  PROVE  TableFits(f, model, d)
<1> DEFINE hits == {k \in DOMAIN f.tables : f.tables[k].path = d.logic.name}
           k == CHOOSE i \in hits : \A j \in hits : i <= j
           t == ProvidedTable(f, d)
<1>1. t # NoName
  BY DEF TableErrors
<1>2. hits # {} /\ t = f.tables[k]
  BY <1>1 DEF FirstOf, ProvidedTable
<1>3. hits \in SUBSET Nat
  BY DEF IsList
<1>4. k \in hits
  <2> HIDE DEF hits
  <2> QED BY <1>2, <1>3, LeastIn
<1>5. t \in Range(f.tables) /\ t.path = d.logic.name
  <2> HIDE DEF k, t
  <2> QED BY <1>2, <1>4 DEF Range
<1>6. Range(t.table.inputs) = RequiredInputs(model, d) /\ Len(t.table.outputs) = Len(d.outputs)
  BY <1>1 DEF TableErrors, When
<1> HIDE DEF t
<1>7. ASSUME NEW i \in Range(model.inputs)
      PROVE  <<d.name, i.name>> \in Range(model.information) <=> i.name \in RequiredInputs(model, d)
  <2>1. \A r \in Range(model.information) : r = <<r[1], r[2]>>
    BY RequirementsAreListed
  <2>2. i.name \in NamesIn(model, "inputs")
    BY DEF NamesIn
  <2> QED BY <2>1, <2>2 DEF RequiredInputs
<1> QED BY <1>5, <1>6, <1>7 DEF TableFits

CallFits(model, l) ==
  \E b \in Range(model.models) :
    /\ b.name = l.name
    /\ \A p \in Range(b.parameters) :
         Cardinality({i \in DOMAIN l.bindings : l.bindings[i].name = p.name}) = 1

LEMMA CallsAreSound ==
  ASSUME NEW model, DmnDecisionModel(model), NEW l, DmnLogic(l), l.kind = "invoke", LogicErrors(model, l) = {}
  PROVE  CallFits(model, l)
<1> DEFINE hits == {k \in DOMAIN model.models : model.models[k].name = l.name}
           k == CHOOSE i \in hits : \A j \in hits : i <= j
           b == Invoked(model, l)
           bound == NameList(l.bindings)
<1>1. b # NoName
  BY DEF LogicErrors
<1>2. hits # {} /\ b = model.models[k]
  BY <1>1 DEF FirstOf, Invoked
<1>3. hits \in SUBSET Nat
  BY DEF DmnDecisionModel, HasFields, IsList
<1>4. k \in hits
  <2> HIDE DEF hits
  <2> QED BY <1>2, <1>3, LeastIn
<1>5. b \in Range(model.models) /\ b.name = l.name
  <2> HIDE DEF k, b
  <2> QED BY <1>2, <1>4 DEF Range
<1>6. {p.name : p \in Range(b.parameters)} = Range(bound) /\ Repeated(bound) = {}
  BY <1>1 DEF LogicErrors, When, NameList
<1>7. IsList(l.bindings) /\ IsList(bound) /\ DOMAIN bound = DOMAIN l.bindings
  <2>1. IsList(l.bindings)
    BY DEF DmnLogic
  <2> QED BY <2>1, NamesAreListed
<1>8. \A i \in DOMAIN l.bindings : bound[i] = l.bindings[i].name
  BY DEF NameList
<1> HIDE DEF b, bound
<1>9. ASSUME NEW p \in Range(b.parameters)
      PROVE  Cardinality({i \in DOMAIN l.bindings : l.bindings[i].name = p.name}) = 1
  <2>1. p.name \in Range(bound)
    BY <1>6
  <2>2. Cardinality({i \in DOMAIN bound : bound[i] = p.name}) = 1
    BY <1>6, <1>7, <2>1, NamedOnce
  <2>3. {i \in DOMAIN bound : bound[i] = p.name} = {i \in DOMAIN l.bindings : l.bindings[i].name = p.name}
    BY <1>7, <1>8
  <2> QED BY <2>2, <2>3
<1> QED BY <1>5, <1>9 DEF CallFits

LEMMA CleanIsSound ==
  ASSUME NEW f, IsList(f.tables), NEW model, DmnDecisionModel(model), Clean(f, model)
  PROVE  /\ RequirementsLand(model)
         /\ \A d \in DecisionsOf(model) : d.logic.kind = "table" => TableFits(f, model, d)
         /\ \A l \in LogicsOf(model) : l # NoName /\ l.kind = "invoke" => CallFits(model, l)
<1>1. RequirementsLand(model)
  BY RequirementsAreSound DEF Clean
<1>2. \A d \in DecisionsOf(model) : d.logic.kind = "table" => TableFits(f, model, d)
  BY TablesAreSound DEF Clean
<1>3. \A l \in LogicsOf(model) : DmnLogic(l)
  BY DEF LogicsOf, DecisionsOf, DmnDecisionModel, DmnDecision, DmnBkm
<1>4. \A l \in LogicsOf(model) : l.kind = "invoke" => CallFits(model, l)
  BY <1>3, CallsAreSound DEF Clean
<1> QED BY <1>1, <1>2, <1>4

-----------------------------------------------------------------------------
(* Decision models: a file has one at most, lowered and then searched.      *)

Settled(model, cycle) ==
  /\ cycle = <<>> <=> Evaluable(model)
  /\ cycle # <<>> => IsCycle(model, cycle)

AwaitsModel(s, rest) ==
  /\ s.lowered = <<>> /\ s.cycles = <<>> /\ Len(rest) <= 1
  /\ \A x \in Range(rest) : x.kind = "decisions" /\ DmnDecisionModel(x.item)

AwaitsSearch(s, rest, model) ==
  /\ s.cycles = <<>> /\ SearchInv(model, s.search)
  /\ Len(rest) = 1 /\ \A x \in Range(rest) : x.kind = "cycle" /\ x.item = model

AwaitsNothing(s, rest, model) ==
  /\ \E cycle : s.cycles = <<cycle>> /\ Settled(model, cycle)
  /\ Len(rest) = 0

DecisionsSoFar(f, s, rest) ==
  /\ HasFields(s, {"packages", "lowered", "cycles", "search", "errors"}) /\ IsList(rest)
  /\ \/ AwaitsModel(s, rest)
     \/ \E model : /\ DmnDecisionModel(model) /\ s.lowered = <<model>>
                   /\ s.errors = {} => Clean(f, model)
                   /\ AwaitsSearch(s, rest, model) \/ AwaitsNothing(s, rest, model)

DecisionsInv ==
  input.surface = "dmn" =>
    /\ (file.parsed => DmnFile(file)) /\ IsList(file.tables)
    /\ pc = "open" => st = NoEntries /\ agenda = <<>> /\ artifact = NoName
    /\ pc # "open" => DecisionsSoFar(file, st, agenda)
    /\ artifact # NoName => pc = "done" /\ st.errors = {}

LEMMA NoneLeft ==
  ASSUME NEW s, IsList(s), Len(s) = 0
  PROVE  s = <<>>
BY DEF IsList

LEMMA ModelIsLowered ==
  ASSUME NEW f, NEW s, NEW rest, DecisionsSoFar(f, s, rest), rest # <<>>, Head(rest).kind = "decisions"
  PROVE  DecisionsSoFar(f, LowerDecisionModel(s, f, Head(rest).item),
                        <<[kind |-> "cycle", item |-> Head(rest).item]>> \o Tail(rest))
<1> DEFINE model == Head(rest).item
           t == LowerDecisionModel(s, f, model)
           next == <<[kind |-> "cycle", item |-> model]>>
<1>1. IsList(rest) /\ HasFields(s, {"packages", "lowered", "cycles", "search", "errors"})
  BY DEF DecisionsSoFar
<1>2. Head(rest) \in Range(rest) /\ Len(rest) \in Nat /\ Len(rest) > 0 /\ IsList(Tail(rest))
      /\ Len(Tail(rest)) = Len(rest) - 1 /\ Range(Tail(rest)) \subseteq Range(rest)
  BY <1>1, ListTail
<1> DEFINE n == Len(rest)
<1>3. AwaitsModel(s, rest)
  <2>1. ASSUME NEW m, AwaitsSearch(s, rest, m) PROVE FALSE
    BY <1>2, <2>1 DEF AwaitsSearch
  <2>2. ASSUME NEW m, AwaitsNothing(s, rest, m) PROVE FALSE
    BY <1>2, <2>2 DEF AwaitsNothing
  <2> QED BY <2>1, <2>2 DEF DecisionsSoFar
<1>4. DmnDecisionModel(model) /\ s.lowered = <<>> /\ s.cycles = <<>> /\ n = 1
  <2>1. DmnDecisionModel(model) /\ s.lowered = <<>> /\ s.cycles = <<>>
    BY <1>2, <1>3 DEF AwaitsModel
  <2>2. n <= 1 /\ n > 0 /\ n \in Nat
    BY <1>2, <1>3 DEF AwaitsModel
  <2> HIDE DEF n
  <2> QED BY <2>1, <2>2
<1>5. IsList(next) /\ Len(next) = 1 /\ Range(next) = {[kind |-> "cycle", item |-> model]}
  <2> DEFINE e == [kind |-> "cycle", item |-> model]
  <2> HIDE DEF e
  <2>1. IsList(<<e>>) /\ Len(<<e>>) = 1 /\ Range(<<e>>) = {e}
    BY DEF IsList, Range
  <2> QED BY <2>1 DEF e
<1>6. Tail(rest) = <<>>
  <2> DEFINE o == Len(Tail(rest))
  <2>1. o = n - 1 /\ n = 1
    BY <1>2, <1>4
  <2> HIDE DEF n, o
  <2>2. o = 0
    BY <2>1
  <2> QED BY <1>2, <2>2, NoneLeft DEF o
<1> HIDE DEF n
<1>7. next \o Tail(rest) = next
  <2> HIDE DEF next
  <2>1. next \o <<>> = next
    BY <1>5 DEF IsList
  <2> QED BY <2>1, <1>6
<1>8. DOMAIN t = DOMAIN s /\ t.packages = s.packages /\ t.cycles = s.cycles
      /\ t.search = Unvisited(model) /\ t.lowered = <<model>>
  <2>1. DOMAIN s = {"packages", "lowered", "cycles", "search", "errors"}
    BY <1>1 DEF HasFields
  <2>2. Append(s.lowered, model) = <<model>>
    <3> HIDE DEF model
    <3> QED BY <1>4
  <2> HIDE DEF model
  <2> QED BY <2>1, <2>2 DEF LowerDecisionModel
<1>9. t.errors = {} => Clean(f, model)
  <2> DEFINE decided == {d \in Range(model.decisions) : d.logic # NoName}
             logics == {d.logic : d \in decided} \cup {b.logic : b \in Range(model.models)}
             tables == {d \in decided : d.logic.kind = "table"}
             first == s.errors \cup DuplicateErrors(model) \cup UnknownTypeErrors(s.packages, model)
                        \cup RequirementErrors(model) \cup EndpointErrors(model) \cup ViewErrors(model)
  <2>1. t.errors = first \cup (UNION {LogicErrors(model, l) : l \in logics}) \cup UNION {TableErrors(f, model, d) : d \in tables}
    <3>1. "errors" \in DOMAIN s
      BY <1>1 DEF HasFields
    <3> HIDE DEF model
    <3> QED BY <3>1 DEF LowerDecisionModel
  <2>2. logics = LogicsOf(model) /\ decided = DecisionsOf(model)
    BY DEF LogicsOf, DecisionsOf
  <2> HIDE DEF logics, decided, model, t
  <2> SUFFICES ASSUME t.errors = {} PROVE Clean(f, model)
    OBVIOUS
  <2>3. first = {} /\ (UNION {LogicErrors(model, l) : l \in logics}) = {} /\ (UNION {TableErrors(f, model, d) : d \in tables}) = {}
    <3> HIDE DEF first, tables
    <3> QED BY <2>1
  <2>4. DuplicateErrors(model) = {} /\ RequirementErrors(model) = {}
    BY <2>3
  <2>5. \A l \in logics : LogicErrors(model, l) = {}
    BY <2>3
  <2>6. \A d \in tables : TableErrors(f, model, d) = {}
    BY <2>3
  <2> QED BY <2>2, <2>4, <2>5, <2>6 DEF Clean
<1>10. SearchInv(model, t.search)
  BY <1>4, <1>8, SearchStarts
<1> HIDE DEF t, next, model
<1>11. AwaitsSearch(t, next, model)
  BY <1>4, <1>5, <1>8, <1>10 DEF AwaitsSearch
<1>12. DecisionsSoFar(f, t, next)
  BY <1>1, <1>4, <1>5, <1>8, <1>9, <1>11 DEF DecisionsSoFar, HasFields
<1> QED BY <1>7, <1>12 DEF t, next, model

LEMMA ModelIsSearched ==
  ASSUME NEW f, NEW s, NEW rest, DecisionsSoFar(f, s, rest), rest # <<>>, Head(rest).kind = "cycle"
  PROVE  \E model : /\ DmnDecisionModel(model) /\ s.lowered = <<model>>
                    /\ s.errors = {} => Clean(f, model)
                    /\ AwaitsSearch(s, rest, model) /\ Head(rest).item = model
<1>1. IsList(rest)
  BY DEF DecisionsSoFar
<1>2. Head(rest) \in Range(rest) /\ Len(rest) \in Nat /\ Len(rest) > 0
  BY <1>1, ListTail
<1>3. ~AwaitsModel(s, rest)
  BY <1>2 DEF AwaitsModel
<1>4. PICK model : /\ DmnDecisionModel(model) /\ s.lowered = <<model>>
                   /\ s.errors = {} => Clean(f, model)
                   /\ AwaitsSearch(s, rest, model) \/ AwaitsNothing(s, rest, model)
  BY <1>3 DEF DecisionsSoFar
<1>5. AwaitsSearch(s, rest, model)
  BY <1>2, <1>4 DEF AwaitsNothing
<1>6. Head(rest).item = model
  BY <1>2, <1>5 DEF AwaitsSearch
<1> QED BY <1>4, <1>5, <1>6

LEMMA SearchGoesOn ==
  ASSUME NEW f, NEW s, NEW rest, DecisionsSoFar(f, s, rest), rest # <<>>, Head(rest).kind = "cycle", ~SearchOver(s.search)
  PROVE  DecisionsSoFar(f, [s EXCEPT !.search = Visit(@, Head(rest).item)], rest)
<1>1. PICK model : /\ DmnDecisionModel(model) /\ s.lowered = <<model>>
                   /\ s.errors = {} => Clean(f, model)
                   /\ AwaitsSearch(s, rest, model) /\ Head(rest).item = model
  BY ModelIsSearched
<1> DEFINE t == [s EXCEPT !.search = Visit(@, model)]
<1>2. IsList(rest) /\ DOMAIN s = {"packages", "lowered", "cycles", "search", "errors"}
  BY DEF DecisionsSoFar, HasFields
<1>3. /\ DOMAIN t = DOMAIN s /\ t.lowered = s.lowered /\ t.cycles = s.cycles /\ t.errors = s.errors
      /\ t.search = Visit(s.search, model)
  BY <1>2
<1>4. SearchInv(model, t.search)
  BY <1>1, <1>3, VisitKeeps DEF AwaitsSearch
<1> HIDE DEF t
<1>5. AwaitsSearch(t, rest, model)
  BY <1>1, <1>3, <1>4 DEF AwaitsSearch
<1>6. DecisionsSoFar(f, t, rest)
  BY <1>1, <1>2, <1>3, <1>5 DEF DecisionsSoFar, HasFields
<1> QED BY <1>1, <1>6 DEF t

LEMMA CycleIsReported ==
  ASSUME NEW f, NEW s, NEW rest, DecisionsSoFar(f, s, rest), rest # <<>>, Head(rest).kind = "cycle", SearchOver(s.search)
  PROVE  DecisionsSoFar(f, ReportCycle(s), Tail(rest))
<1>1. PICK model : /\ DmnDecisionModel(model) /\ s.lowered = <<model>>
                   /\ s.errors = {} => Clean(f, model)
                   /\ AwaitsSearch(s, rest, model) /\ Head(rest).item = model
  BY ModelIsSearched
<1> DEFINE t == ReportCycle(s)
           cycle == s.search.cycle
<1>2. IsList(rest) /\ DOMAIN s = {"packages", "lowered", "cycles", "search", "errors"}
  BY DEF DecisionsSoFar, HasFields
<1>3. IsList(Tail(rest)) /\ Len(Tail(rest)) = 0
  <2>1. IsList(Tail(rest)) /\ Len(Tail(rest)) = Len(rest) - 1 /\ Len(rest) = 1
    BY <1>1, <1>2, ListTail DEF AwaitsSearch
  <2> QED BY <2>1
<1>4. Settled(model, cycle)
  BY <1>1, SearchEnds DEF AwaitsSearch, Settled
<1>5. DOMAIN t = DOMAIN s /\ t.lowered = s.lowered /\ t.cycles = <<cycle>> /\ (t.errors = {} => s.errors = {})
  <2>1. Append(s.cycles, cycle) = <<cycle>>
    BY <1>1 DEF AwaitsSearch
  <2> HIDE DEF cycle
  <2>2. DOMAIN t = DOMAIN s /\ t.lowered = s.lowered
    BY <1>2 DEF ReportCycle
  <2>3. t.cycles = Append(s.cycles, cycle)
    BY <1>2 DEF ReportCycle, cycle
  <2>4. t.errors = s.errors \cup When(cycle # <<>>, "decision cycle")
    BY <1>2 DEF ReportCycle, cycle
  <2> QED BY <2>1, <2>2, <2>3, <2>4
<1> HIDE DEF t, cycle
<1>6. AwaitsNothing(t, Tail(rest), model)
  BY <1>3, <1>4, <1>5 DEF AwaitsNothing
<1>7. DecisionsSoFar(f, t, Tail(rest))
  BY <1>1, <1>2, <1>3, <1>5, <1>6 DEF DecisionsSoFar, HasFields
<1> QED BY <1>7 DEF t

LEMMA DecisionsOpen ==
  ASSUME NEW f, DmnFile(f)
  PROVE  DecisionsSoFar(f, OpenDecisions(f), Items("decisions", f.models))
<1> DEFINE s == OpenDecisions(f)
           a == Items("decisions", f.models)
<1>1. HasFields(s, {"packages", "lowered", "cycles", "search", "errors"}) /\ s.lowered = <<>> /\ s.cycles = <<>>
  BY DEF OpenDecisions, HasFields
<1>2. IsList(f.models) /\ Len(f.models) <= 1
  BY DEF DmnFile
<1>3. IsList(a) /\ DOMAIN a = DOMAIN f.models
  BY <1>2, ItemsAreListed DEF Items
<1>4. \A x \in Range(a) : x.kind = "decisions" /\ DmnDecisionModel(x.item)
  BY <1>2, ItemsAreListed DEF DmnFile
<1>5. Len(a) <= 1
  <2> DEFINE m == Len(a)
             n == Len(f.models)
  <2>1. m \in Nat /\ n \in Nat /\ DOMAIN a = 1..m /\ DOMAIN f.models = 1..n /\ n <= 1
    BY <1>2, <1>3 DEF IsList
  <2> HIDE DEF a
  <2>2. 1..m = 1..n
    BY <2>1, <1>3
  <2> HIDE DEF m, n
  <2>3. m <= 1
    BY <2>1, <2>2
  <2> QED BY <2>3 DEF m
<1> HIDE DEF s, a
<1>6. AwaitsModel(s, a)
  BY <1>1, <1>4, <1>5 DEF AwaitsModel
<1> QED BY <1>1, <1>3, <1>6 DEF DecisionsSoFar, s, a

LEMMA DecisionSteps ==
  ASSUME pc = "lower" /\ agenda # <<>> => Head(agenda).kind \in {"decisions", "cycle"}, [Next]_vars
  PROVE  OpenFile \/ DecisionStep \/ VisitStep \/ CycleStep \/ Finish \/ UNCHANGED vars
<1> USE DEF AtHead, Lowering
<1>1. ~ModuleStep /\ ~ServiceStep /\ ~DesignStep /\ ~SearchStep
  BY DEF ModuleStep, ServiceStep, DesignStep, SearchStep
<1>2. ~EventStep /\ ~ChannelStep /\ ~SubscriptionStep
  BY DEF EventStep, ChannelStep, SubscriptionStep
<1>3. ~UseCaseStep /\ ~CaseStep
  BY DEF UseCaseStep, CaseStep
<1>4. ~ApplicationStep /\ ~ProfileStep /\ ~DeploymentStep
  BY DEF ApplicationStep, ProfileStep, DeploymentStep
<1>5. ~EnumStep /\ ~DatatypeStep /\ ~InterfaceStep /\ ~ClassStep
  BY DEF EnumStep, DatatypeStep, InterfaceStep, ClassStep
<1> QED BY <1>1, <1>2, <1>3, <1>4, <1>5 DEF Next, Finished

LEMMA DecisionsAtFirst == Init => DecisionsInv
<1> SUFFICES ASSUME Init, input.surface = "dmn" PROVE DecisionsInv
  BY DEF DecisionsInv
<1>1. (file.parsed => DmnFile(file)) /\ IsList(file.tables)
  BY FilesAssumption DEF Init, file, SyntaxTree, HostsProvide
<1> QED BY <1>1 DEF Init, DecisionsInv

LEMMA DecisionsNext == DecisionsInv /\ [Next]_vars => DecisionsInv'
<1> SUFFICES ASSUME DecisionsInv, [Next]_vars, input'.surface = "dmn" PROVE DecisionsInv'
  BY DEF DecisionsInv
<1>0. input' = input /\ file' = file /\ input.surface = "dmn"
  BY InputStays
<1>1. /\ (file.parsed => DmnFile(file)) /\ IsList(file.tables)
      /\ pc = "open" => st = NoEntries /\ agenda = <<>> /\ artifact = NoName
      /\ pc # "open" => DecisionsSoFar(file, st, agenda)
      /\ artifact # NoName => pc = "done" /\ st.errors = {}
  BY <1>0 DEF DecisionsInv
<1>2. ASSUME pc = "lower", agenda # <<>> PROVE Head(agenda).kind \in {"decisions", "cycle"}
  <2>1. DecisionsSoFar(file, st, agenda)
    BY <1>1, <1>2
  <2>2. IsList(agenda)
    BY <2>1 DEF DecisionsSoFar
  <2>3. Head(agenda) \in Range(agenda) /\ Len(agenda) > 0 /\ Len(agenda) \in Nat
    BY <1>2, <2>2, ListTail
  <2> QED BY <2>1, <2>3 DEF DecisionsSoFar, AwaitsModel, AwaitsSearch, AwaitsNothing
<1>3. OpenFile \/ DecisionStep \/ VisitStep \/ CycleStep \/ Finish \/ UNCHANGED vars
  BY <1>2, DecisionSteps
<1>4. CASE OpenFile
  <2>1. st' = OpenDecisions(file) /\ artifact' = NoName /\ pc' # "open"
    BY <1>0, <1>1, <1>4 DEF OpenFile, Open, file
  <2>2. CASE file.parsed
    <3>1. agenda' = Items("decisions", file.models)
      BY <1>0, <1>4, <2>2 DEF OpenFile, Agenda, file, Items
    <3>2. DecisionsSoFar(file, st', agenda')
      BY <3>1, <2>1, <2>2, <1>1, DecisionsOpen
    <3> QED BY <1>0, <1>1, <2>1, <3>2 DEF DecisionsInv
  <2>3. CASE ~file.parsed
    <3>1. agenda' = <<>>
      BY <1>4, <2>3 DEF OpenFile
    <3>2. HasFields(st', {"packages", "lowered", "cycles", "search", "errors"}) /\ st'.lowered = <<>> /\ st'.cycles = <<>>
      BY <2>1 DEF OpenDecisions, HasFields
    <3>3. AwaitsModel(st', agenda') /\ IsList(agenda')
      BY <3>1, <3>2, EmptyList DEF AwaitsModel
    <3>4. DecisionsSoFar(file, st', agenda')
      BY <3>2, <3>3 DEF DecisionsSoFar
    <3> QED BY <1>0, <1>1, <2>1, <3>4 DEF DecisionsInv
  <2> QED BY <2>2, <2>3
<1>5. CASE DecisionStep
  <2>1. /\ pc = "lower" /\ agenda # <<>> /\ Head(agenda).kind = "decisions" /\ pc' = pc /\ artifact' = artifact
        /\ st' = LowerDecisionModel(st, file, Head(agenda).item)
        /\ agenda' = <<[kind |-> "cycle", item |-> Head(agenda).item]>> \o Tail(agenda)
    BY <1>5 DEF DecisionStep, AtHead
  <2>2. DecisionsSoFar(file, st', agenda')
    BY <1>1, <2>1, ModelIsLowered
  <2> QED BY <1>0, <1>1, <2>1, <2>2 DEF DecisionsInv
<1>6. CASE VisitStep
  <2>1. /\ pc = "lower" /\ agenda # <<>> /\ Head(agenda).kind = "cycle" /\ pc' = pc /\ artifact' = artifact
        /\ ~SearchOver(st.search) /\ agenda' = agenda
        /\ st' = [st EXCEPT !.search = Visit(@, Head(agenda).item)]
    BY <1>6 DEF VisitStep, AtHead
  <2>2. DecisionsSoFar(file, st', agenda')
    BY <1>1, <2>1, SearchGoesOn
  <2> QED BY <1>0, <1>1, <2>1, <2>2 DEF DecisionsInv
<1>7. CASE CycleStep
  <2>1. /\ pc = "lower" /\ agenda # <<>> /\ Head(agenda).kind = "cycle" /\ pc' = pc /\ artifact' = artifact
        /\ SearchOver(st.search) /\ agenda' = Tail(agenda) /\ st' = ReportCycle(st)
    BY <1>7 DEF CycleStep, AtHead
  <2>2. DecisionsSoFar(file, st', agenda')
    BY <1>1, <2>1, CycleIsReported
  <2> QED BY <1>0, <1>1, <2>1, <2>2 DEF DecisionsInv
<1>8. CASE Finish
  <2>1. /\ pc = "lower" /\ agenda = <<>> /\ agenda' = agenda /\ pc' = "done" /\ st' = st
        /\ artifact' = (IF st'.errors = {} THEN [lowered |-> st'.lowered] ELSE NoName)
    BY <1>0, <1>8 DEF Finish, Close, Outcome, ArtifactOf
  <2>2. DecisionsSoFar(file, st', agenda')
    BY <1>1, <2>1
  <2> QED BY <1>0, <1>1, <2>1, <2>2 DEF DecisionsInv
<1>9. CASE UNCHANGED vars
  <2>1. pc' = pc /\ agenda' = agenda /\ st' = st /\ artifact' = artifact
    BY <1>9 DEF vars
  <2> QED BY <1>0, <1>1, <2>1 DEF DecisionsInv
<1> QED BY <1>3, <1>4, <1>5, <1>6, <1>7, <1>8, <1>9

LEMMA DecisionsFit ==
  ASSUME DecisionsInv, input.surface = "dmn", st # NoEntries, NEW k \in DOMAIN st.cycles
  PROVE  /\ DmnDecisionModel(st.lowered[k]) /\ Settled(st.lowered[k], st.cycles[k])
         /\ artifact # NoName => IsList(file.tables) /\ Clean(file, st.lowered[k])
<1>1. pc # "open" /\ DecisionsSoFar(file, st, agenda) /\ IsList(file.tables) /\ (artifact # NoName => st.errors = {})
  BY DEF DecisionsInv
<1>2. ~AwaitsModel(st, agenda)
  BY EmptyList DEF AwaitsModel
<1>3. PICK model : /\ DmnDecisionModel(model) /\ st.lowered = <<model>>
                   /\ st.errors = {} => Clean(file, model)
                   /\ AwaitsSearch(st, agenda, model) \/ AwaitsNothing(st, agenda, model)
  BY <1>1, <1>2 DEF DecisionsSoFar
<1>4. AwaitsNothing(st, agenda, model)
  BY <1>3, EmptyList DEF AwaitsSearch
<1>5. PICK cycle : st.cycles = <<cycle>> /\ Settled(model, cycle)
  BY <1>4 DEF AwaitsNothing
<1>6. k = 1 /\ st.lowered[k] = model /\ st.cycles[k] = cycle
  BY <1>3, <1>5
<1> QED BY <1>1, <1>3, <1>5, <1>6

LEMMA DecisionsAccepted == DecisionsInv => DecisionsSettle
<1> SUFFICES ASSUME DecisionsInv, input.surface = "dmn", st # NoEntries PROVE DecisionsSettle
  BY DEF DecisionsSettle
<1> DEFINE Bearers(model, n) == {i \in DOMAIN ElementNames(model) : ElementNames(model)[i] = n}
           Calls(model) == {l \in {d.logic : d \in Range(model.decisions)} \cup {b.logic : b \in Range(model.models)} :
                              l # NoName /\ l.kind = "invoke"}
           Judged(model, cycle) ==
             /\ cycle = <<>> <=> Evaluable(model)
             /\ cycle # <<>> =>
                  /\ Len(cycle) > 1 /\ Head(cycle) = Last(cycle)
                  /\ \A i \in 1..(Len(cycle) - 1) : <<cycle[i], cycle[i + 1]>> \in Range(model.information)
             /\ artifact # NoName =>
                  /\ \A r \in Range(model.information \o model.knowledge \o model.authority) :
                       Cardinality(Bearers(model, r[1])) = 1 /\ Cardinality(Bearers(model, r[2])) = 1
                  /\ \A d \in Range(model.decisions) : d.logic # NoName /\ d.logic.kind = "table" => TableFits(file, model, d)
                  /\ \A l \in Calls(model) : CallFits(model, l)
<1>1. ASSUME NEW k \in DOMAIN st.cycles PROVE Judged(st.lowered[k], st.cycles[k])
  <2> DEFINE model == st.lowered[k]
             cycle == st.cycles[k]
  <2>1. DmnDecisionModel(model) /\ Settled(model, cycle) /\ (artifact # NoName => IsList(file.tables) /\ Clean(file, model))
    BY DecisionsFit
  <2> HIDE DEF model, cycle
  <2>2. artifact # NoName =>
          /\ RequirementsLand(model)
          /\ \A d \in DecisionsOf(model) : d.logic.kind = "table" => TableFits(file, model, d)
          /\ \A l \in LogicsOf(model) : l # NoName /\ l.kind = "invoke" => CallFits(model, l)
    BY <2>1, CleanIsSound
  <2>3. RequirementsLand(model) =>
          \A r \in Range(model.information \o model.knowledge \o model.authority) :
            Cardinality(Bearers(model, r[1])) = 1 /\ Cardinality(Bearers(model, r[2])) = 1
    BY DEF RequirementsLand
  <2>4. \A l \in Calls(model) : l \in LogicsOf(model) /\ l # NoName /\ l.kind = "invoke"
    BY DEF LogicsOf, DecisionsOf
  <2>5. \A d \in Range(model.decisions) : d.logic # NoName => d \in DecisionsOf(model)
    BY DEF DecisionsOf
  <2>6. /\ cycle = <<>> <=> Evaluable(model)
        /\ cycle # <<>> =>
             /\ Len(cycle) > 1 /\ Head(cycle) = Last(cycle)
             /\ \A i \in 1..(Len(cycle) - 1) : <<cycle[i], cycle[i + 1]>> \in Range(model.information)
    BY <2>1 DEF Settled, IsCycle
  <2> HIDE DEF Bearers, Calls
  <2>7. Judged(model, cycle)
    BY <2>2, <2>3, <2>4, <2>5, <2>6
  <2> QED BY <2>7 DEF model, cycle
<1>2. (\A k \in DOMAIN st.cycles : Judged(st.lowered[k], st.cycles[k])) => DecisionsSettle
  BY Zenon DEF DecisionsSettle, TableFits, CallFits
<1> QED BY <1>1, <1>2

(* Whatever model a file has, it is reported cyclic exactly when it cannot  *)
(* be evaluated, by a cycle of its requirements; an accepted one requires   *)
(* what is declared once, asks its tables for its inputs, and binds each    *)
(* parameter of a call once.  (dmn.rs compile_dmn_file, find_cycle)         *)
THEOREM DecisionsAlwaysSettle == Spec => []DecisionsSettle
BY DecisionsAtFirst, DecisionsNext, DecisionsAccepted, PTL DEF Spec

-----------------------------------------------------------------------------
(* What the levels of a deployment's settings make of a component.          *)

LEMMA AllAreFirst ==
  ASSUME NEW s, IsList(s), Repeated(s) = {}
  PROVE  Firsts(s) = DOMAIN s /\ \A i, j \in DOMAIN s : s[i] = s[j] => i = j
<1>1. DOMAIN s = 1..Len(s) /\ Len(s) \in Nat
  BY DEF IsList
<1>2. ASSUME NEW i \in DOMAIN s, NEW j \in 1..(i - 1) PROVE s[j] # s[i]
  BY <1>2 DEF Repeated
<1>3. ASSUME NEW i \in DOMAIN s, NEW j \in DOMAIN s, s[i] = s[j] PROVE i = j
  <2>1. ~(j \in 1..(i - 1)) /\ ~(i \in 1..(j - 1))
    BY <1>2, <1>3
  <2>2. i \in Nat /\ j \in Nat /\ i > 0 /\ j > 0
    BY <1>1
  <2> QED BY <2>1, <2>2
<1> QED BY <1>2, <1>3 DEF Firsts

LEMMA PathsAreListed ==
  ASSUME NEW settings, IsList(settings)
  PROVE  /\ IsList(Paths(settings)) /\ DOMAIN Paths(settings) = DOMAIN settings
         /\ IsList(LastNames(settings)) /\ DOMAIN LastNames(settings) = DOMAIN settings
<1>1. Len(settings) \in Nat /\ DOMAIN settings = 1..Len(settings)
  BY DEF IsList
<1> DEFINE p == Paths(settings)
           q == LastNames(settings)
<1>2. p \in [1..Len(settings) -> Range(p)] /\ q \in [1..Len(settings) -> Range(q)]
  BY <1>1 DEF Paths, LastNames, Range
<1>3. p \in Seq(Range(p)) /\ q \in Seq(Range(q))
  BY <1>1, <1>2, SeqDef
<1> QED BY <1>1, <1>2, <1>3 DEF IsList

\* A level without errors makes each setting once, of a component there is.
Level(settings) ==
  /\ IsList(settings) /\ \A s, t \in Range(settings) : s.path = t.path => s = t

LEMMA LevelIsKept ==
  ASSUME NEW application, NEW settings, DeploySettings(settings), LevelErrors(application, settings) = {}
  PROVE  /\ Level(settings)
         /\ Made(application, settings) = Range(settings)
         /\ {settings[i] : i \in Firsts(Paths(settings))} = Range(settings)
         /\ \A s \in Range(settings) : SettingFits(application, s) /\ s.path = <<s.path[1], s.path[2]>>
<1> DEFINE p == Paths(settings)
<1>1. IsList(settings) /\ IsList(p) /\ DOMAIN p = DOMAIN settings /\ \A i \in DOMAIN settings : p[i] = settings[i].path
  BY PathsAreListed DEF DeploySettings, Paths
<1>2. (\A s \in Range(settings) : SettingFits(application, s)) /\ Repeated(p) = {}
  BY DEF LevelErrors, When
<1> HIDE DEF p
<1>3. Firsts(p) = DOMAIN settings /\ \A i, j \in DOMAIN settings : p[i] = p[j] => i = j
  BY <1>1, <1>2, AllAreFirst
<1>4. \A s, t \in Range(settings) : s.path = t.path => s = t
  BY <1>1, <1>3 DEF Range
<1>5. {settings[i] : i \in Firsts(p)} = Range(settings)
  BY <1>3 DEF Range
<1>6. Made(application, settings) = Range(settings)
  BY <1>2, <1>3 DEF Made, Range, p
<1>7. ASSUME NEW s \in Range(settings) PROVE s.path = <<s.path[1], s.path[2]>>
  <2>1. s.path \in Seq(Range(s.path)) /\ Len(s.path) = 2
    BY <1>2 DEF DeploySettings, DeploySetting, IsList, SettingFits
  <2> QED BY <2>1
<1> QED BY <1>1, <1>2, <1>4, <1>5, <1>6, <1>7 DEF Level, p

\* The settings of a list, or of a set, with a path.
At(settings, path) == {v \in settings : v.path = path}

LEMMA LevelAt ==
  ASSUME NEW application, NEW settings, DeploySettings(settings), LevelErrors(application, settings) = {}, NEW n, NEW m
  PROVE  LET set == LevelOf(application, settings, n)
             at == At(Range(settings), <<n, m>>)
         IN  /\ m \in DOMAIN set <=> at # {}
             /\ at # {} => set[m] = (CHOOSE v \in at : TRUE).value
<1> DEFINE made == {s \in Range(settings) : s.path[1] = n}
           at == At(Range(settings), <<n, m>>)
           set == LevelOf(application, settings, n)
<1>1. /\ \A s, t \in Range(settings) : s.path = t.path => s = t
      /\ \A s \in Range(settings) : s.path = <<s.path[1], s.path[2]>>
      /\ Made(application, settings) = Range(settings)
  BY LevelIsKept DEF Level
<1>2. set = [k \in {s.path[2] : s \in made} |-> (CHOOSE s \in made : s.path[2] = k).value]
  BY <1>1 DEF LevelOf
<1> HIDE DEF set
<1>3. \A s \in Range(settings) : s \in at <=> s \in made /\ s.path[2] = m
  BY <1>1 DEF At
<1>4. at \subseteq Range(settings) /\ made \subseteq Range(settings)
  BY DEF At
<1>5. m \in DOMAIN set <=> at # {}
  BY <1>2, <1>3, <1>4
<1>6. ASSUME NEW v \in at PROVE set[m] = (CHOOSE w \in at : TRUE).value
  <2>1. v \in made /\ v.path[2] = m /\ v \in Range(settings)
    BY <1>3, <1>4
  <2>2. \A s \in made : s.path[2] = m => s = v
    BY <1>1, <1>3, <1>4, <2>1 DEF At
  <2>3. (CHOOSE s \in made : s.path[2] = m) = v
    BY <2>1, <2>2
  <2>4. \A w \in at : w = v
    BY <1>3, <1>4, <2>2
  <2>5. (CHOOSE w \in at : TRUE) = v
    BY <2>4
  <2>6. m \in {s.path[2] : s \in made}
    BY <2>1
  <2> HIDE DEF at, made
  <2> QED BY <1>2, <2>3, <2>5, <2>6
<1> QED BY <1>5, <1>6 DEF set

-----------------------------------------------------------------------------
(* Applications, profiles and deployments without errors.                  *)

CleanComponent(c) ==
  /\ DeployComponent(c) /\ c.requires \subseteq Capabilities
  /\ \A s \in Range(c.settings) : Len(s.path) = 1 /\ Fitting(c.kind, Last(s.path), s.value)
  /\ Repeated(LastNames(c.settings)) = {}

CleanApplication(a) ==
  /\ HasFields(a, {"name", "components"})
  /\ \A c \in a.components : CleanComponent(c)
  /\ \A c, e \in a.components : c.name = e.name => c = e

LEMMA OwnAt ==
  ASSUME NEW a, CleanApplication(a), NEW c \in a.components, NEW m
  PROVE  LET set == Baseline(a)[c.name]
             at == At(Range(c.settings), <<m>>)
         IN  /\ DOMAIN Baseline(a) = {e.name : e \in a.components} /\ ComponentOf(a, c.name) = c
             /\ m \in DOMAIN set <=> at # {}
             /\ at # {} => set[m] = (CHOOSE v \in at : TRUE).value
<1> DEFINE settings == c.settings
           last == LastNames(settings)
           at == At(Range(settings), <<m>>)
           set == Baseline(a)[c.name]
           made == {i \in Firsts(last) : Len(settings[i].path) = 1 /\ Fitting(c.kind, settings[i].path[1], settings[i].value)}
<1>1. ComponentOf(a, c.name) = c
  BY DEF ComponentOf, CleanApplication
<1>2. set = [n \in {settings[i].path[1] : i \in made} |-> settings[CHOOSE i \in made : settings[i].path[1] = n].value]
  <2> DEFINE Keeps(e) == {i \in Firsts(LastNames(e.settings)) : Len(e.settings[i].path) = 1 /\ Fitting(e.kind, e.settings[i].path[1], e.settings[i].value)}
             Own(e) == [n \in {e.settings[i].path[1] : i \in Keeps(e)} |-> e.settings[CHOOSE i \in Keeps(e) : e.settings[i].path[1] = n].value]
  <2>1. Baseline(a) = [n \in {e.name : e \in a.components} |-> Own(ComponentOf(a, n))]
    BY DEF Baseline
  <2>2. Own(c) = [n \in {settings[i].path[1] : i \in made} |-> settings[CHOOSE i \in made : settings[i].path[1] = n].value]
    OBVIOUS
  <2> HIDE DEF Own, made, last, settings
  <2>3. Baseline(a)[c.name] = Own(c)
    BY <1>1, <2>1
  <2> QED BY <2>2, <2>3
<1>3. DOMAIN Baseline(a) = {e.name : e \in a.components}
  BY DEF Baseline
<1> HIDE DEF set
<1>4. /\ DeploySettings(settings) /\ Repeated(last) = {}
      /\ \A s \in Range(settings) : Len(s.path) = 1 /\ Fitting(c.kind, Last(s.path), s.value)
  BY DEF CleanApplication, CleanComponent, DeployComponent
<1>5. IsList(settings) /\ IsList(last) /\ DOMAIN last = DOMAIN settings
  BY <1>4, PathsAreListed DEF DeploySettings
<1>6. \A i \in DOMAIN settings : settings[i] \in Range(settings) /\ last[i] = Last(settings[i].path)
  BY DEF Range, LastNames
<1>7. \A s \in Range(settings) : s.path = <<s.path[1]>> /\ Last(s.path) = s.path[1]
  <2> TAKE s \in Range(settings)
  <2>1. s.path \in Seq(Range(s.path)) /\ Len(s.path) = 1
    BY <1>4 DEF DeploySettings, DeploySetting, IsList
  <2> QED BY <2>1 DEF Last
<1> HIDE DEF last, settings
<1>8. Firsts(last) = DOMAIN settings /\ \A i, j \in DOMAIN settings : last[i] = last[j] => i = j
  BY <1>4, <1>5, AllAreFirst
<1>9. made = DOMAIN settings
  <2>1. \A i \in DOMAIN settings : Len(settings[i].path) = 1 /\ Fitting(c.kind, settings[i].path[1], settings[i].value)
    BY <1>4, <1>6, <1>7
  <2> QED BY <2>1, <1>8
<1>10. \A i \in DOMAIN settings : settings[i] \in at <=> settings[i].path[1] = m
  BY <1>6, <1>7 DEF At
<1>11. \A v \in at : \E i \in DOMAIN settings : v = settings[i]
  BY DEF At, Range
<1> HIDE DEF made, at
<1>12. m \in DOMAIN set <=> at # {}
  BY <1>2, <1>9, <1>10, <1>11
<1>13. ASSUME at # {} PROVE set[m] = (CHOOSE v \in at : TRUE).value
  <2>1. PICK i \in DOMAIN settings : settings[i] \in at
    BY <1>11, <1>13
  <2>2. \A j \in DOMAIN settings : settings[j].path[1] = m => j = i
    BY <1>6, <1>7, <1>8, <1>10, <2>1
  <2>3. i \in made /\ settings[i].path[1] = m
    BY <1>9, <1>10, <2>1
  <2>4. (CHOOSE j \in made : settings[j].path[1] = m) = i
    BY <1>9, <2>2, <2>3
  <2>5. \A v \in at : v = settings[i]
    BY <1>10, <1>11, <2>2
  <2>6. (CHOOSE v \in at : TRUE) = settings[i]
    BY <2>1, <2>5
  <2>7. m \in {settings[j].path[1] : j \in made}
    BY <2>3
  <2> QED BY <1>2, <2>4, <2>6, <2>7
<1> QED BY <1>1, <1>3, <1>12, <1>13 DEF at, settings, set

\* The settings of a component as the artifact has them.
LevelIn(p, d, c, s) ==
  CASE At(d.configure, <<c.name, s>>) # {} -> At(d.configure, <<c.name, s>>)
    [] At(d.configure, <<c.name, s>>) = {} /\ At(p.defaults, <<c.name, s>>) # {} -> At(p.defaults, <<c.name, s>>)
    [] OTHER -> At(Range(c.settings), <<s>>)

SettingsIn(p, d, c) ==
  [s \in {n \in DOMAIN Vocabulary(c.kind) : LevelIn(p, d, c, n) # {}} |-> (CHOOSE v \in LevelIn(p, d, c, s) : TRUE).value]

TheComponent(a, n) == CHOOSE k \in a.components : k.name = n

LEMMA TheComponentIs ==
  ASSUME NEW a, CleanApplication(a), NEW c \in a.components
  PROVE  TheComponent(a, c.name) = c
BY DEF CleanApplication, TheComponent

\* A level's setting is of the vocabulary of its component.
LEMMA InVocabulary ==
  ASSUME NEW a, CleanApplication(a), NEW c \in a.components, NEW m
  PROVE  /\ At(Range(c.settings), <<m>>) # {} => m \in DOMAIN Vocabulary(c.kind)
         /\ \A settings : LevelErrors(a, settings) = {} /\ At(Range(settings), <<c.name, m>>) # {} => m \in DOMAIN Vocabulary(c.kind)
<1>1. ASSUME NEW v \in At(Range(c.settings), <<m>>) PROVE m \in DOMAIN Vocabulary(c.kind)
  <2>1. v \in Range(c.settings) /\ v.path = <<m>>
    BY DEF At
  <2>2. Fitting(c.kind, Last(v.path), v.value)
    BY <2>1 DEF CleanApplication, CleanComponent
  <2>3. Last(<<m>>) = m
    BY DEF Last
  <2> QED BY <2>1, <2>2, <2>3 DEF Fitting
<1>2. ASSUME NEW settings, LevelErrors(a, settings) = {}, NEW v \in At(Range(settings), <<c.name, m>>) PROVE m \in DOMAIN Vocabulary(c.kind)
  <2>1. v \in Range(settings) /\ v.path = <<c.name, m>>
    BY DEF At
  <2>2. SettingFits(a, v)
    BY <1>2, <2>1 DEF LevelErrors, When
  <2>3. v.path[1] = c.name /\ v.path[2] = m
    BY <2>1
  <2>4. Fitting(ComponentOf(a, c.name).kind, m, v.value)
    BY <2>2, <2>3 DEF SettingFits
  <2>5. ComponentOf(a, c.name) = c
    BY OwnAt
  <2> QED BY <2>4, <2>5 DEF Fitting
<1> QED BY <1>1, <1>2

\* What the levels make of a component is what the artifact says of it.
LEMMA SettingsOfComponent ==
  ASSUME NEW a, CleanApplication(a), NEW c \in a.components, NEW p, NEW d,
         NEW low, DeploySettings(low), LevelErrors(a, low) = {}, p.defaults = Range(low),
         NEW high, DeploySettings(high), LevelErrors(a, high) = {}, d.configure = Range(high)
  PROVE  SettingsIn(p, d, c) = Over(LevelOf(a, high, c.name), Over(LevelOf(a, low, c.name), Baseline(a)[c.name]))
<1> DEFINE f == LevelOf(a, high, c.name)
           g == LevelOf(a, low, c.name)
           h == Baseline(a)[c.name]
           Top(m) == At(Range(high), <<c.name, m>>)
           Mid(m) == At(Range(low), <<c.name, m>>)
           Own(m) == At(Range(c.settings), <<m>>)
           Pick(set) == (CHOOSE v \in set : TRUE).value
           words == DOMAIN Vocabulary(c.kind)
           In(m) == LevelIn(p, d, c, m)
<1>1. \A m : (m \in DOMAIN f <=> Top(m) # {}) /\ (Top(m) # {} => f[m] = Pick(Top(m)))
  BY LevelAt
<1>2. \A m : (m \in DOMAIN g <=> Mid(m) # {}) /\ (Mid(m) # {} => g[m] = Pick(Mid(m)))
  BY LevelAt
<1>3. \A m : (m \in DOMAIN h <=> Own(m) # {}) /\ (Own(m) # {} => h[m] = Pick(Own(m)))
  BY OwnAt
<1>4. \A m : Top(m) # {} \/ Mid(m) # {} \/ Own(m) # {} => m \in words
  BY InVocabulary
<1>5. \A m : In(m) = IF Top(m) # {} THEN Top(m) ELSE IF Mid(m) # {} THEN Mid(m) ELSE Own(m)
  BY DEF LevelIn
<1>6. SettingsIn(p, d, c) = [m \in {n \in words : In(n) # {}} |-> Pick(In(m))]
  BY DEF SettingsIn
<1> HIDE DEF f, g, h, Top, Mid, Own, Pick, words, In
<1>7. Over(f, Over(g, h)) = [m \in DOMAIN f \cup (DOMAIN g \cup DOMAIN h) |-> IF m \in DOMAIN f THEN f[m] ELSE IF m \in DOMAIN g THEN g[m] ELSE h[m]]
  BY DEF Over
<1>8. {n \in words : In(n) # {}} = DOMAIN f \cup (DOMAIN g \cup DOMAIN h)
  BY <1>1, <1>2, <1>3, <1>4, <1>5
<1>9. \A m \in DOMAIN f \cup (DOMAIN g \cup DOMAIN h) : Pick(In(m)) = IF m \in DOMAIN f THEN f[m] ELSE IF m \in DOMAIN g THEN g[m] ELSE h[m]
  BY <1>1, <1>2, <1>3, <1>5
<1> QED BY <1>6, <1>7, <1>8, <1>9 DEF f, g, h

LEMMA SettingsAgree ==
  ASSUME NEW a, CleanApplication(a), NEW p, NEW d,
         NEW low, DeploySettings(low), LevelErrors(a, low) = {}, p.defaults = Range(low),
         NEW high, DeploySettings(high), LevelErrors(a, high) = {}, d.configure = Range(high)
  PROVE  SettingsOf(a, p, d) = ApplySettings(ApplySettings(Baseline(a), a, low), a, high)
<1> DEFINE names == {c.name : c \in a.components}
           left == SettingsOf(a, p, d)
           right == ApplySettings(ApplySettings(Baseline(a), a, low), a, high)
           L(n) == SettingsIn(p, d, TheComponent(a, n))
           R(n) == Over(LevelOf(a, high, n), Over(LevelOf(a, low, n), Baseline(a)[n]))
<1>1. left = [n \in names |-> L(n)]
  BY Zenon DEF SettingsOf, SettingsIn, LevelIn, At, TheComponent
<1>2. DOMAIN Baseline(a) = names
  BY DEF Baseline
<1>3. right = [n \in names |-> R(n)]
  BY <1>2 DEF ApplySettings
<1>4. ASSUME NEW n \in names PROVE L(n) = R(n)
  <2>1. PICK c \in a.components : c.name = n
    OBVIOUS
  <2>2. TheComponent(a, n) = c
    BY <2>1, TheComponentIs
  <2>3. SettingsIn(p, d, c) = R(c.name)
    BY SettingsOfComponent
  <2> QED BY <2>1, <2>2, <2>3
<1> HIDE DEF L, R
<1> QED BY <1>1, <1>3, <1>4

\* What an application and a profile with a deployment's settings promise.
FitsWith(a, p, effective) ==
  /\ \A c \in a.components :
       /\ \A need \in c.requires \cup KindRequires(c.kind) : need \in TargetCapabilities(p.target)
       /\ Word(effective[c.name], "engine") = "sqlite" => "persistentFilesystem" \in TargetCapabilities(p.target)
       /\ Word(effective[c.name], "runtime") = "container" => "container" \in TargetCapabilities(p.target)
       /\ c.kind = "database" => Word(effective[c.name], "engine") \in TargetEngines(p.target) \cup {NoName}
  /\ \A policy \in p.policies : Evaluate(policy.expr, effective) = <<"bool", ~policy.prohibit>>

LEMMA CheckedFits ==
  ASSUME NEW a, CleanApplication(a), NEW p, NEW effective,
         CapabilityErrors(a, effective, p.target) = {}, PolicyErrors(p.policies, effective) = {}
  PROVE  FitsWith(a, p, effective)
<1> DEFINE capabilities == TargetCapabilities(p.target)
           engines == TargetEngines(p.target)
           E(c) == Word(effective[c.name], "engine")
           R(c) == Word(effective[c.name], "runtime")
<1>1. \A c \in a.components : Required(c, effective[c.name]) \subseteq capabilities
  BY DEF CapabilityErrors, When
<1>2. \A c \in a.components : c.kind = "database" /\ E(c) # NoName => E(c) \in engines
  BY DEF CapabilityErrors, When
<1>3. \A policy \in p.policies : Evaluate(policy.expr, effective) = <<"bool", ~policy.prohibit>>
  BY DEF PolicyErrors, When
<1>4. ASSUME NEW c \in a.components
      PROVE  /\ \A need \in c.requires \cup KindRequires(c.kind) : need \in capabilities
             /\ E(c) = "sqlite" => "persistentFilesystem" \in capabilities
             /\ R(c) = "container" => "container" \in capabilities
  <2> DEFINE needs == KindRequires(c.kind)
  <2>1. c.requires \subseteq Capabilities
    BY DEF CleanApplication, CleanComponent
  <2> HIDE DEF E, R, needs, capabilities
  <2>2. Required(c, effective[c.name]) = needs \cup (c.requires \cap Capabilities)
          \cup When(E(c) = "sqlite", "persistentFilesystem") \cup When(R(c) = "container", "container")
    BY Zenon DEF Required, E, R, needs
  <2>3. Required(c, effective[c.name]) \subseteq capabilities
    BY <1>1
  <2> QED BY <2>1, <2>2, <2>3 DEF When, needs
<1> QED BY <1>2, <1>3, <1>4 DEF FitsWith

\* The first of a list with a name.
FirstNamed(s, n) == FirstOf(s, LAMBDA x : x.name = n, NoName)

LEMMA FoundIn ==
  ASSUME NEW s, IsList(s), NEW n
  PROVE  /\ FirstNamed(s, n) # NoName => FirstNamed(s, n) \in Range(s) /\ FirstNamed(s, n).name = n
         /\ (\E x \in Range(s) : x.name = n) => FirstNamed(s, n) \in Range(s) /\ FirstNamed(s, n).name = n
<1> DEFINE hits == {i \in DOMAIN s : s[i].name = n}
           k == CHOOSE i \in hits : \A j \in hits : i <= j
<1>1. FirstNamed(s, n) = IF hits = {} THEN NoName ELSE s[k]
  BY DEF FirstNamed, FirstOf
<1>2. hits \subseteq Nat
  BY DEF IsList
<1>3. ASSUME hits # {} PROVE s[k] \in Range(s) /\ s[k].name = n
  <2> HIDE DEF hits
  <2>1. k \in hits
    BY <1>2, <1>3, LeastIn
  <2> HIDE DEF k
  <2> QED BY <2>1 DEF Range, hits
<1>4. (\E x \in Range(s) : x.name = n) => hits # {}
  BY DEF Range
<1> HIDE DEF hits, k
<1> QED BY <1>1, <1>3, <1>4

LEMMA ListSplit ==
  ASSUME NEW s, IsList(s), s # <<>>
  PROVE  \A x \in Range(s) : x = Head(s) \/ x \in Range(Tail(s))
<1>1. /\ IsList(Tail(s)) /\ Len(s) \in Nat /\ Len(s) > 0 /\ Len(Tail(s)) = Len(s) - 1
      /\ \A i \in 1..(Len(s) - 1) : Tail(s)[i] = s[i + 1]
  BY ListTail
<1>2. DOMAIN s = 1..Len(s) /\ Head(s) = s[1] /\ DOMAIN Tail(s) = 1..(Len(s) - 1)
  BY <1>1 DEF IsList
<1>3. ASSUME NEW i \in 1..Len(s), i # 1 PROVE s[i] \in Range(Tail(s))
  <2>1. i - 1 \in 1..(Len(s) - 1) /\ (i - 1) + 1 = i
    BY <1>1, <1>3
  <2>2. Tail(s)[i - 1] = s[i] /\ i - 1 \in DOMAIN Tail(s)
    BY <1>1, <1>2, <2>1
  <2> QED BY <2>2 DEF Range
<1> QED BY <1>2, <1>3 DEF Range

-----------------------------------------------------------------------------
(* Deployments while a file is lowered.                                    *)

\* A profile as the artifact has it.
AsKept(profile) == [profile EXCEPT !.defaults = {@[i] : i \in Firsts(Paths(@))}]

DeploymentItem(f, x) ==
  \/ x.kind = "application" /\ x.item \in Range(f.applications)
  \/ x.kind = "profile" /\ x.item \in Range(f.profiles)
  \/ x.kind = "deployment" /\ x.item \in Range(f.deployments)

\* The profiles are lowered before the first deployment.
DeploymentsLast(rest) ==
  \A i, j \in DOMAIN rest : i < j /\ rest[i].kind = "deployment" => rest[j].kind = "deployment"

\* Of the profiles of a file those still to come are not lowered, and any
\* other is, once.
ProfilesSoFar(f, s, rest) ==
  /\ \A p \in Range(s.profiles) : \E x \in Range(f.profiles) : p = AsKept(x)
  /\ \A p, q \in Range(s.profiles) : p.name = q.name => p = q
  /\ \A x \in Range(f.profiles) : AsKept(x) \in Range(s.profiles) \/ \E y \in Range(rest) : y.kind = "profile" /\ y.item = x

Deployable(a, p, d) ==
  a.name = d.application /\ p.name = d.profile /\ FitsWith(a, p, SettingsOf(a, p, d))

Deployed(s) ==
  \A d \in Range(s.deployments) : \E a \in Range(s.applications), p \in Range(s.profiles) : Deployable(a, p, d)

DeploymentsSoFar(f, s, rest) ==
  /\ HasFields(s, {"applications", "profiles", "deployments", "errors"})
  /\ IsList(s.applications) /\ IsList(s.profiles) /\ IsList(s.deployments)
  /\ IsList(rest) /\ DeploymentsLast(rest) /\ \A x \in Range(rest) : DeploymentItem(f, x)
  /\ s.errors = {} =>
       /\ \A a \in Range(s.applications) : CleanApplication(a)
       /\ ProfilesSoFar(f, s, rest)
       /\ Deployed(s)

LEMMA RestOfDeployments ==
  ASSUME NEW f, NEW rest, IsList(rest), rest # <<>>, DeploymentsLast(rest), \A x \in Range(rest) : DeploymentItem(f, x)
  PROVE  /\ IsList(Tail(rest)) /\ DeploymentsLast(Tail(rest)) /\ \A x \in Range(Tail(rest)) : DeploymentItem(f, x)
         /\ DeploymentItem(f, Head(rest)) /\ \A x \in Range(rest) : x = Head(rest) \/ x \in Range(Tail(rest))
         /\ Head(rest).kind = "deployment" => \A x \in Range(rest) : x.kind = "deployment"
<1> DEFINE t == Tail(rest)
           n == Len(rest)
<1>1. /\ IsList(t) /\ Head(rest) \in Range(rest) /\ Range(t) \subseteq Range(rest) /\ n \in Nat /\ n > 0
      /\ Len(t) = n - 1 /\ \A i \in 1..(n - 1) : t[i] = rest[i + 1]
  BY ListTail
<1>2. DOMAIN rest = 1..n /\ Head(rest) = rest[1] /\ DOMAIN t = 1..(n - 1)
  BY <1>1 DEF IsList
<1> HIDE DEF t, n
<1>3. DeploymentsLast(t)
  <2> SUFFICES ASSUME NEW i \in DOMAIN t, NEW j \in DOMAIN t, i < j, t[i].kind = "deployment" PROVE t[j].kind = "deployment"
    BY DEF DeploymentsLast
  <2>1. i + 1 \in DOMAIN rest /\ j + 1 \in DOMAIN rest /\ i + 1 < j + 1 /\ t[i] = rest[i + 1] /\ t[j] = rest[j + 1]
    BY <1>1, <1>2
  <2> QED BY <2>1 DEF DeploymentsLast
<1>4. ASSUME Head(rest).kind = "deployment", NEW x \in Range(rest) PROVE x.kind = "deployment"
  <2>1. PICK i \in DOMAIN rest : x = rest[i]
    BY DEF Range
  <2>2. 1 \in DOMAIN rest /\ (i = 1 \/ 1 < i)
    BY <1>1, <1>2
  <2> QED BY <1>2, <1>4, <2>1, <2>2 DEF DeploymentsLast
<1> QED BY <1>1, <1>3, <1>4, ListSplit DEF t

LEMMA DeployedStays ==
  ASSUME NEW s, NEW t, Deployed(s), t.deployments = s.deployments,
         Range(s.applications) \subseteq Range(t.applications), Range(s.profiles) \subseteq Range(t.profiles)
  PROVE  Deployed(t)
BY DEF Deployed

LEMMA UsableComponents ==
  ASSUME NEW f, NEW s, NEW application, DeployApplication(application),
         HasFields(s, {"applications", "profiles", "deployments", "errors"}),
         LowerApplication(s, f, application).errors = {}
  PROVE  /\ s.errors = {}
         /\ \E a : CleanApplication(a) /\ LowerApplication(s, f, application).applications = Append(s.applications, a)
<1> DEFINE components == application.components
           t == LowerApplication(s, f, application)
           Usable(i) ==
             LET c == components[i]
             IN  c.kind \in Kinds /\ \A j \in 1..(i - 1) : components[j].name # c.name \/ components[j].kind \notin Kinds
           kept == {components[i] : i \in {n \in DOMAIN components : Usable(n)}}
           ends == (UNION {{c[1], c[2]} : c \in application.connections}) \ {NoName}
           a == [name |-> application.name, components |-> kept]
           before == s.errors \cup When(\E i \in DOMAIN s.applications : s.applications[i].name = application.name, "duplicate application")
                       \cup When(Cardinality(kept) # Len(components), "bad component")
<1>1. DOMAIN s = {"applications", "profiles", "deployments", "errors"}
  BY DEF HasFields
<1>2. t.applications = Append(s.applications, a)
  BY <1>1 DEF LowerApplication
<1>3. t.errors = before \cup (UNION {ComponentErrors(f, c) : c \in kept})
                   \cup When(~(ends \subseteq {c.name : c \in kept}), "unknown component")
  BY <1>1 DEF LowerApplication
<1> HIDE DEF t, kept, before, ends
<1>4. before = {} /\ (UNION {ComponentErrors(f, c) : c \in kept}) = {}
  BY <1>3 DEF t
<1>5. s.errors = {}
  BY <1>4 DEF before
<1>6. \A c \in kept : ComponentErrors(f, c) = {}
  BY <1>4
<1>7. IsList(components) /\ \A i \in DOMAIN components : DeployComponent(components[i])
  BY DEF DeployApplication, Range
<1>8. \A c \in kept : \E i \in DOMAIN components : c = components[i] /\ Usable(i)
  BY DEF kept
<1>9. ASSUME NEW c \in kept PROVE CleanComponent(c)
  <2>1. DeployComponent(c)
    BY <1>7, <1>8
  <2>2. /\ c.requires \subseteq Capabilities /\ Repeated(LastNames(c.settings)) = {}
        /\ \A v \in Range(c.settings) : Len(v.path) = 1 /\ Fitting(c.kind, Last(v.path), v.value)
    BY <1>6 DEF ComponentErrors, When
  <2> QED BY <2>1, <2>2 DEF CleanComponent
<1>10. ASSUME NEW c \in kept, NEW e \in kept, c.name = e.name PROVE c = e
  <2>1. PICK i \in DOMAIN components : c = components[i] /\ Usable(i)
    BY <1>8
  <2>2. PICK j \in DOMAIN components : e = components[j] /\ Usable(j)
    BY <1>8
  <2>3. i \in Nat /\ j \in Nat /\ i > 0 /\ j > 0
    BY <1>7 DEF IsList
  <2>4. ~(i \in 1..(j - 1)) /\ ~(j \in 1..(i - 1))
    BY <1>10, <2>1, <2>2
  <2> HIDE DEF Usable, components
  <2>5. i = j
    BY <2>3, <2>4
  <2> QED BY <2>1, <2>2, <2>5
<1>11. CleanApplication(a)
  <2>1. HasFields(a, {"name", "components"}) /\ a.components = kept
    BY DEF HasFields
  <2> HIDE DEF a
  <2> QED BY <1>9, <1>10, <2>1 DEF CleanApplication
<1> HIDE DEF a
<1> QED BY <1>2, <1>5, <1>11 DEF t

LEMMA ApplicationKeeps ==
  ASSUME NEW f, NEW s, NEW rest, DeployFile(f), DeploymentsSoFar(f, s, rest), rest # <<>>, Head(rest).kind = "application"
  PROVE  DeploymentsSoFar(f, LowerApplication(s, f, Head(rest).item), Tail(rest))
<1> DEFINE x == Head(rest).item
           t == LowerApplication(s, f, x)
           r == Tail(rest)
<1>1. /\ HasFields(s, {"applications", "profiles", "deployments", "errors"})
      /\ IsList(s.applications) /\ IsList(s.profiles) /\ IsList(s.deployments)
      /\ IsList(rest) /\ DeploymentsLast(rest) /\ \A y \in Range(rest) : DeploymentItem(f, y)
  BY DEF DeploymentsSoFar
<1>2. /\ IsList(r) /\ DeploymentsLast(r) /\ \A y \in Range(r) : DeploymentItem(f, y)
      /\ DeploymentItem(f, Head(rest)) /\ \A y \in Range(rest) : y = Head(rest) \/ y \in Range(r)
  BY <1>1, RestOfDeployments
<1>3. DeployApplication(x)
  BY <1>2 DEF DeploymentItem, DeployFile
<1>4. \E a : t.applications = Append(s.applications, a)
  <2>1. DOMAIN s = {"applications", "profiles", "deployments", "errors"}
    BY <1>1 DEF HasFields
  <2> HIDE DEF x
  <2> QED BY <2>1 DEF LowerApplication
<1>5. HasFields(t, {"applications", "profiles", "deployments", "errors"}) /\ t.profiles = s.profiles /\ t.deployments = s.deployments
  <2>1. DOMAIN s = {"applications", "profiles", "deployments", "errors"}
    BY <1>1 DEF HasFields
  <2> HIDE DEF x
  <2> QED BY <2>1 DEF LowerApplication, HasFields
<1> HIDE DEF t
<1>6. IsList(t.applications)
  BY <1>1, <1>4, ListAppend
<1>7. ASSUME t.errors = {}
      PROVE  (\A a \in Range(t.applications) : CleanApplication(a)) /\ ProfilesSoFar(f, t, r) /\ Deployed(t)
  <2>1. s.errors = {} /\ \E a : CleanApplication(a) /\ t.applications = Append(s.applications, a)
    BY <1>1, <1>3, <1>7, UsableComponents DEF t
  <2>2. PICK a : CleanApplication(a) /\ t.applications = Append(s.applications, a)
    BY <2>1
  <2>3. Range(t.applications) = Range(s.applications) \cup {a}
    BY <1>1, <2>2, ListAppend
  <2>4. (\A b \in Range(s.applications) : CleanApplication(b)) /\ ProfilesSoFar(f, s, rest) /\ Deployed(s)
    BY <2>1 DEF DeploymentsSoFar
  <2>5. ProfilesSoFar(f, t, r)
    BY <1>2, <1>5, <2>4 DEF ProfilesSoFar
  <2>6. Deployed(t)
    BY <1>5, <2>3, <2>4, DeployedStays
  <2> QED BY <2>2, <2>3, <2>4, <2>5, <2>6
<1> QED BY <1>1, <1>2, <1>5, <1>6, <1>7 DEF DeploymentsSoFar, t

LEMMA ProfileKeeps ==
  ASSUME NEW f, NEW s, NEW rest, DeployFile(f), DeploymentsSoFar(f, s, rest), rest # <<>>, Head(rest).kind = "profile"
  PROVE  DeploymentsSoFar(f, LowerProfile(s, Head(rest).item), Tail(rest))
<1> DEFINE x == Head(rest).item
           t == LowerProfile(s, x)
           r == Tail(rest)
           before == s.errors \cup When(\E i \in DOMAIN s.profiles : s.profiles[i].name = x.name, "duplicate profile")
<1>1. /\ HasFields(s, {"applications", "profiles", "deployments", "errors"})
      /\ IsList(s.applications) /\ IsList(s.profiles) /\ IsList(s.deployments)
      /\ IsList(rest) /\ DeploymentsLast(rest) /\ \A y \in Range(rest) : DeploymentItem(f, y)
  BY DEF DeploymentsSoFar
<1>2. /\ IsList(r) /\ DeploymentsLast(r) /\ \A y \in Range(r) : DeploymentItem(f, y)
      /\ DeploymentItem(f, Head(rest)) /\ \A y \in Range(rest) : y = Head(rest) \/ y \in Range(r)
  BY <1>1, RestOfDeployments
<1>3. DeployProfile(x) /\ x \in Range(f.profiles) /\ \A y \in Range(f.profiles) : DeployProfile(y)
  BY <1>2 DEF DeploymentItem, DeployFile
<1>4. DOMAIN s = {"applications", "profiles", "deployments", "errors"}
  BY <1>1 DEF HasFields
<1> HIDE DEF x
<1>5. /\ HasFields(t, {"applications", "profiles", "deployments", "errors"})
      /\ t.applications = s.applications /\ t.deployments = s.deployments
      /\ t.profiles = Append(s.profiles, AsKept(x)) \/ t.profiles = s.profiles
  BY <1>4 DEF LowerProfile, HasFields, AsKept
<1>6. t.errors = {} => before = {} /\ t.profiles = Append(s.profiles, AsKept(x))
  BY <1>4 DEF LowerProfile, AsKept, When
<1>7. AsKept(x).name = x.name
  BY <1>3 DEF AsKept, DeployProfile, HasFields
<1> HIDE DEF t
<1>8. IsList(t.profiles)
  <2>1. IsList(s.profiles)
    BY <1>1
  <2>2. IsList(Append(s.profiles, AsKept(x)))
    BY <2>1, ListAppend
  <2> QED BY <1>5, <2>1, <2>2
<1>9. ASSUME t.errors = {}
      PROVE  (\A a \in Range(t.applications) : CleanApplication(a)) /\ ProfilesSoFar(f, t, r) /\ Deployed(t)
  <2>1. s.errors = {} /\ (\A i \in DOMAIN s.profiles : s.profiles[i].name # x.name) /\ t.profiles = Append(s.profiles, AsKept(x))
    BY <1>6, <1>9 DEF When
  <2>2. Range(t.profiles) = Range(s.profiles) \cup {AsKept(x)}
    BY <1>1, <2>1, ListAppend
  <2>3. (\A a \in Range(s.applications) : CleanApplication(a)) /\ ProfilesSoFar(f, s, rest) /\ Deployed(s)
    BY <2>1 DEF DeploymentsSoFar
  <2>4. \A p \in Range(s.profiles) : p.name # x.name
    BY <2>1 DEF Range
  <2>5. ProfilesSoFar(f, t, r)
    <3>1. \A p \in Range(t.profiles) : \E y \in Range(f.profiles) : p = AsKept(y)
      BY <1>3, <2>2, <2>3 DEF ProfilesSoFar
    <3>2. \A p, q \in Range(t.profiles) : p.name = q.name => p = q
      BY <1>7, <2>2, <2>3, <2>4 DEF ProfilesSoFar
    <3>3. \A y \in Range(f.profiles) : AsKept(y) \in Range(t.profiles) \/ \E z \in Range(r) : z.kind = "profile" /\ z.item = y
      BY <1>2, <2>2, <2>3 DEF ProfilesSoFar, x
    <3> QED BY <3>1, <3>2, <3>3 DEF ProfilesSoFar
  <2>6. Deployed(t)
    BY <1>5, <2>2, <2>3, DeployedStays
  <2> QED BY <1>5, <2>3, <2>5, <2>6
<1> QED BY <1>1, <1>2, <1>5, <1>8, <1>9 DEF DeploymentsSoFar, t, x

LEMMA KeptProfile ==
  ASSUME NEW x, DeployProfile(x), NEW application, LevelErrors(application, x.defaults) = {}
  PROVE  AsKept(x).defaults = Range(x.defaults)
<1> DEFINE set == {x.defaults[i] : i \in Firsts(Paths(x.defaults))}
<1>1. DeploySettings(x.defaults) /\ "defaults" \in DOMAIN x
  BY DEF DeployProfile, HasFields
<1>2. set = Range(x.defaults)
  BY <1>1, LevelIsKept
<1>3. AsKept(x) = [x EXCEPT !.defaults = set]
  BY DEF AsKept
<1> HIDE DEF set
<1> QED BY <1>1, <1>2, <1>3

LEMMA DeploymentFits ==
  ASSUME NEW f, NEW s, NEW rest, NEW d, DeployFile(f), DeploymentsSoFar(f, s, rest),
         \A y \in Range(rest) : y.kind = "deployment", DeployDeployment(d), LowerDeployment(s, f, d).errors = {}
  PROVE  /\ s.errors = {}
         /\ \E e, a, p : /\ LowerDeployment(s, f, d).deployments = Append(s.deployments, e)
                         /\ a \in Range(s.applications) /\ p \in Range(s.profiles) /\ Deployable(a, p, e)
<1> DEFINE application == FirstNamed(s.applications, d.application)
           profile == FirstNamed(s.profiles, d.profile)
           authored == FirstNamed(f.profiles, d.profile)
           defaults == IF profile = NoName THEN <<>> ELSE authored.defaults
           effective == ApplySettings(ApplySettings(Baseline(application), application, defaults), application, d.configure)
           duplicate == When(\E i \in DOMAIN s.deployments : s.deployments[i].name = d.name, "duplicate deployment")
           levels == LevelErrors(application, defaults) \cup LevelErrors(application, d.configure)
           e == [d EXCEPT !.configure = Made(application, @)]
           t == LowerDeployment(s, f, d)
           last == s.errors \cup duplicate \cup levels \cup CapabilityErrors(application, effective, profile.target)
                     \cup PolicyErrors(profile.policies, effective)
<1>1. t = IF application = NoName THEN [s EXCEPT !.errors = @ \cup duplicate \cup {"unknown application"}]
          ELSE IF profile = NoName THEN [s EXCEPT !.errors = @ \cup duplicate \cup levels \cup {"unknown profile"}]
               ELSE [s EXCEPT !.deployments = Append(@, e),
                              !.errors = @ \cup duplicate \cup levels \cup CapabilityErrors(application, effective, profile.target)
                                           \cup PolicyErrors(profile.policies, effective)]
  BY Zenon DEF LowerDeployment, FirstNamed
<1>2. /\ DOMAIN s = {"applications", "profiles", "deployments", "errors"}
      /\ IsList(s.applications) /\ IsList(s.profiles) /\ IsList(f.profiles) /\ \A x \in Range(f.profiles) : DeployProfile(x)
  BY DEF DeploymentsSoFar, HasFields, DeployFile
<1> HIDE DEF application, profile, authored, defaults, effective, duplicate, levels, e, t
<1>3. application # NoName /\ profile # NoName /\ last = {} /\ t.deployments = Append(s.deployments, e)
  <2>0. t.errors = {}
    BY DEF t
  <2>1. application # NoName
    BY <1>1, <1>2, <2>0
  <2>2. profile # NoName
    BY <1>1, <1>2, <2>0, <2>1
  <2>3. t.errors = last /\ t.deployments = Append(s.deployments, e)
    BY <1>1, <1>2, <2>1, <2>2
  <2> QED BY <2>0, <2>1, <2>2, <2>3
<1>4. /\ s.errors = {} /\ LevelErrors(application, defaults) = {} /\ LevelErrors(application, d.configure) = {}
      /\ CapabilityErrors(application, effective, profile.target) = {} /\ PolicyErrors(profile.policies, effective) = {}
  BY <1>3 DEF levels
<1>5. application \in Range(s.applications) /\ application.name = d.application
  BY <1>2, <1>3, FoundIn DEF application
<1>6. profile \in Range(s.profiles) /\ profile.name = d.profile
  BY <1>2, <1>3, FoundIn DEF profile
<1>7. /\ \A a \in Range(s.applications) : CleanApplication(a)
      /\ ProfilesSoFar(f, s, rest)
  BY <1>4 DEF DeploymentsSoFar
<1>8. \A x \in Range(f.profiles) : AsKept(x).name = x.name /\ AsKept(x).target = x.target /\ AsKept(x).policies = x.policies
  BY <1>2 DEF AsKept, DeployProfile, HasFields
<1>9. authored \in Range(f.profiles) /\ authored.name = d.profile
  <2>1. \E x \in Range(f.profiles) : x.name = d.profile
    BY <1>6, <1>7, <1>8 DEF ProfilesSoFar
  <2> QED BY <1>2, <2>1, FoundIn DEF authored
<1>10. profile = AsKept(authored)
  <2>1. AsKept(authored) \in Range(s.profiles)
    BY <1>7, <1>9 DEF ProfilesSoFar
  <2>2. AsKept(authored).name = profile.name
    BY <1>6, <1>8, <1>9
  <2> QED BY <1>6, <1>7, <2>1, <2>2 DEF ProfilesSoFar
<1>11. defaults = authored.defaults /\ DeployProfile(authored) /\ DeploySettings(defaults)
  BY <1>2, <1>3, <1>9 DEF defaults, DeployProfile
<1>12. profile.defaults = Range(defaults)
  BY <1>4, <1>10, <1>11, KeptProfile
<1>13. DeploySettings(d.configure) /\ DOMAIN d = {"name", "application", "profile", "configure"}
  BY DEF DeployDeployment, HasFields
<1>14. Made(application, d.configure) = Range(d.configure)
  BY <1>4, <1>13, LevelIsKept
<1>15. e.configure = Range(d.configure) /\ e.application = d.application /\ e.profile = d.profile
  BY <1>13, <1>14 DEF e
<1>16. CleanApplication(application)
  BY <1>5, <1>7
<1>17. SettingsOf(application, profile, e) = effective
  BY <1>4, <1>11, <1>12, <1>13, <1>15, <1>16, SettingsAgree DEF effective
<1>18. FitsWith(application, profile, effective)
  BY <1>4, <1>16, CheckedFits
<1>19. Deployable(application, profile, e)
  BY <1>5, <1>6, <1>15, <1>17, <1>18 DEF Deployable
<1> QED BY <1>3, <1>4, <1>5, <1>6, <1>19 DEF t

LEMMA DeploymentKeeps ==
  ASSUME NEW f, NEW s, NEW rest, DeployFile(f), DeploymentsSoFar(f, s, rest), rest # <<>>, Head(rest).kind = "deployment"
  PROVE  DeploymentsSoFar(f, LowerDeployment(s, f, Head(rest).item), Tail(rest))
<1> DEFINE d == Head(rest).item
           t == LowerDeployment(s, f, d)
           r == Tail(rest)
<1>1. /\ HasFields(s, {"applications", "profiles", "deployments", "errors"})
      /\ IsList(s.applications) /\ IsList(s.profiles) /\ IsList(s.deployments)
      /\ IsList(rest) /\ DeploymentsLast(rest) /\ \A y \in Range(rest) : DeploymentItem(f, y)
  BY DEF DeploymentsSoFar
<1>2. /\ IsList(r) /\ DeploymentsLast(r) /\ \A y \in Range(r) : DeploymentItem(f, y)
      /\ DeploymentItem(f, Head(rest)) /\ \A y \in Range(rest) : y = Head(rest) \/ y \in Range(r)
      /\ \A y \in Range(rest) : y.kind = "deployment"
  BY <1>1, RestOfDeployments
<1>3. DeployDeployment(d)
  BY <1>2 DEF DeploymentItem, DeployFile
<1>4. DOMAIN s = {"applications", "profiles", "deployments", "errors"}
  BY <1>1 DEF HasFields
<1> HIDE DEF d
<1>5. /\ DOMAIN t = DOMAIN s /\ t.applications = s.applications /\ t.profiles = s.profiles
      /\ t.deployments = s.deployments \/ \E e : t.deployments = Append(s.deployments, e)
  <2> DEFINE application == FirstNamed(s.applications, d.application)
             profile == FirstNamed(s.profiles, d.profile)
  <2>1. \/ \E errors : t = [s EXCEPT !.errors = errors]
        \/ \E e, errors : t = [s EXCEPT !.deployments = Append(@, e), !.errors = errors]
    BY Zenon DEF LowerDeployment
  <2> HIDE DEF t
  <2> QED BY <1>4, <2>1
<1> HIDE DEF t
<1>6. IsList(t.deployments)
  <2>1. IsList(s.deployments)
    BY <1>1
  <2>2. \A e : IsList(Append(s.deployments, e))
    BY <2>1, ListAppend
  <2> QED BY <1>5, <2>1, <2>2
<1>7. ASSUME t.errors = {}
      PROVE  (\A a \in Range(t.applications) : CleanApplication(a)) /\ ProfilesSoFar(f, t, r) /\ Deployed(t)
  <2>1. /\ s.errors = {}
        /\ \E e, a, p : /\ t.deployments = Append(s.deployments, e)
                        /\ a \in Range(s.applications) /\ p \in Range(s.profiles) /\ Deployable(a, p, e)
    BY <1>2, <1>3, <1>7, DeploymentFits DEF t
  <2>2. PICK e, a, p : /\ t.deployments = Append(s.deployments, e)
                       /\ a \in Range(s.applications) /\ p \in Range(s.profiles) /\ Deployable(a, p, e)
    BY <2>1
  <2>3. Range(t.deployments) = Range(s.deployments) \cup {e}
    BY <1>1, <2>2, ListAppend
  <2>4. (\A b \in Range(s.applications) : CleanApplication(b)) /\ ProfilesSoFar(f, s, rest) /\ Deployed(s)
    BY <2>1 DEF DeploymentsSoFar
  <2>5. ProfilesSoFar(f, t, r)
    BY <1>2, <1>5, <2>4 DEF ProfilesSoFar
  <2>6. Deployed(t)
    BY <1>5, <2>2, <2>3, <2>4 DEF Deployed
  <2> QED BY <1>5, <2>4, <2>5, <2>6
<1> QED BY <1>1, <1>2, <1>4, <1>5, <1>6, <1>7 DEF DeploymentsSoFar, HasFields, t, d

LEMMA DeploymentsOpen ==
  ASSUME NEW f, DeployFile(f)
  PROVE  DeploymentsSoFar(f, OpenDeployment(f), Items("application", f.applications) \o Items("profile", f.profiles)
                                                  \o Items("deployment", f.deployments))
<1> DEFINE s == OpenDeployment(f)
           A == Items("application", f.applications)
           P == Items("profile", f.profiles)
           D == Items("deployment", f.deployments)
           early == A \o P
           rest == early \o D
           n == Len(early)
           m == Len(D)
<1>1. /\ HasFields(s, {"applications", "profiles", "deployments", "errors"})
      /\ s.applications = <<>> /\ s.profiles = <<>> /\ s.deployments = <<>>
  BY DEF OpenDeployment, HasFields
<1>2. IsList(f.applications) /\ IsList(f.profiles) /\ IsList(f.deployments)
  BY DEF DeployFile
<1>3. /\ IsList(A) /\ \A x \in Range(A) : x.kind = "application" /\ x.item \in Range(f.applications)
      /\ IsList(P) /\ \A x \in Range(P) : x.kind = "profile" /\ x.item \in Range(f.profiles)
      /\ IsList(D) /\ \A x \in Range(D) : x.kind = "deployment" /\ x.item \in Range(f.deployments)
  BY <1>2, ItemsAreListed
<1>4. \A x \in Range(f.profiles) : \E y \in Range(P) : y.kind = "profile" /\ y.item = x
  <2> TAKE x \in Range(f.profiles)
  <2>1. PICK i \in DOMAIN f.profiles : x = f.profiles[i]
    BY DEF Range
  <2>2. i \in DOMAIN P /\ P[i] = [kind |-> "profile", item |-> x]
    BY <2>1 DEF Items
  <2>3. P[i] \in Range(P) /\ P[i].kind = "profile" /\ P[i].item = x
    BY <2>2 DEF Range
  <2> QED BY <2>3
<1> HIDE DEF s, A, P, D
<1>5. IsList(early) /\ Range(early) = Range(A) \cup Range(P)
  BY <1>3, ListConcat
<1> HIDE DEF early
<1>6. /\ IsList(rest) /\ Range(rest) = Range(early) \cup Range(D) /\ n \in Nat /\ m \in Nat /\ Len(rest) = n + m
      /\ \A i \in 1..n : rest[i] = early[i]
      /\ \A i \in 1..m : rest[n + i] = D[i]
  BY <1>3, <1>5, ListConcat
<1>7. DOMAIN rest = 1..(n + m) /\ DOMAIN early = 1..n /\ DOMAIN D = 1..m
  BY <1>3, <1>5, <1>6 DEF IsList
<1> HIDE DEF rest, n, m
<1>8. \A x \in Range(rest) : DeploymentItem(f, x)
  BY <1>3, <1>5, <1>6 DEF DeploymentItem
<1>9. DeploymentsLast(rest)
  <2> SUFFICES ASSUME NEW i \in DOMAIN rest, NEW j \in DOMAIN rest, i < j, rest[i].kind = "deployment"
               PROVE  rest[j].kind = "deployment"
    BY DEF DeploymentsLast
  <2>1. ~(i \in 1..n)
    <3> SUFFICES ASSUME i \in 1..n PROVE FALSE
      OBVIOUS
    <3>1. rest[i] \in Range(early)
      BY <1>6, <1>7 DEF Range
    <3> QED BY <1>3, <1>5, <3>1
  <2>2. j - n \in 1..m /\ n + (j - n) = j
    BY <1>6, <1>7, <2>1
  <2>3. rest[j] = D[j - n] /\ j - n \in DOMAIN D
    BY <1>6, <1>7, <2>2
  <2> QED BY <1>3, <2>3 DEF Range
<1>10. Range(<<>>) = {} /\ IsList(<<>>)
  BY EmptyList
<1>11. ProfilesSoFar(f, s, rest) /\ Deployed(s) /\ \A a \in Range(s.applications) : CleanApplication(a)
  <2>1. \A x \in Range(f.profiles) : \E y \in Range(rest) : y.kind = "profile" /\ y.item = x
    BY <1>4, <1>5, <1>6
  <2> QED BY <1>1, <1>10, <2>1 DEF ProfilesSoFar, Deployed
<1>12. DeploymentsSoFar(f, s, rest)
  BY <1>1, <1>6, <1>8, <1>9, <1>10, <1>11 DEF DeploymentsSoFar
<1> QED BY <1>12 DEF s, A, P, D, early, rest

\* A file that is not read to its end has no artifact, so that what is
\* lowered of one only matters where there is a tree.
DeploymentsInv ==
  input.surface = "deploy" =>
    /\ (file.parsed => DeployFile(file))
    /\ pc = "open" => st = NoEntries /\ agenda = <<>> /\ artifact = NoName
    /\ pc # "open" => IF file.parsed THEN DeploymentsSoFar(file, st, agenda) ELSE st.deployments = <<>> /\ pc = "done" /\ agenda = <<>>
    /\ artifact # NoName => pc = "done" /\ file.parsed /\ st.errors = {} /\ artifact = DeployArtifact(st)

LEMMA DeploymentSteps ==
  ASSUME pc = "lower" /\ agenda # <<>> => Head(agenda).kind \in {"application", "profile", "deployment"}, [Next]_vars
  PROVE  OpenFile \/ ApplicationStep \/ ProfileStep \/ DeploymentStep \/ Finish \/ UNCHANGED vars
<1> USE DEF AtHead, Lowering
<1>1. ~ModuleStep /\ ~ServiceStep /\ ~DesignStep /\ ~SearchStep
  BY DEF ModuleStep, ServiceStep, DesignStep, SearchStep
<1>2. ~EventStep /\ ~ChannelStep /\ ~SubscriptionStep
  BY DEF EventStep, ChannelStep, SubscriptionStep
<1>3. ~UseCaseStep /\ ~CaseStep
  BY DEF UseCaseStep, CaseStep
<1>4. ~DecisionStep /\ ~VisitStep /\ ~CycleStep
  BY DEF DecisionStep, VisitStep, CycleStep
<1>5. ~EnumStep /\ ~DatatypeStep /\ ~InterfaceStep /\ ~ClassStep
  BY DEF EnumStep, DatatypeStep, InterfaceStep, ClassStep
<1> QED BY <1>1, <1>2, <1>3, <1>4, <1>5 DEF Next, Finished

LEMMA DeploymentsAtFirst == Init => DeploymentsInv
<1> SUFFICES ASSUME Init, input.surface = "deploy" PROVE DeploymentsInv
  BY DEF DeploymentsInv
<1>1. file.parsed => DeployFile(file)
  BY FilesAssumption DEF Init, file, SyntaxTree
<1> QED BY <1>1 DEF Init, DeploymentsInv

LEMMA DeploymentsNext == DeploymentsInv /\ [Next]_vars => DeploymentsInv'
<1> SUFFICES ASSUME DeploymentsInv, [Next]_vars, input'.surface = "deploy" PROVE DeploymentsInv'
  BY DEF DeploymentsInv
<1>0. input' = input /\ file' = file /\ input.surface = "deploy"
  BY InputStays
<1>1. /\ (file.parsed => DeployFile(file))
      /\ pc = "open" => st = NoEntries /\ agenda = <<>> /\ artifact = NoName
      /\ pc # "open" => IF file.parsed THEN DeploymentsSoFar(file, st, agenda) ELSE st.deployments = <<>> /\ pc = "done" /\ agenda = <<>>
      /\ artifact # NoName => pc = "done" /\ file.parsed /\ st.errors = {} /\ artifact = DeployArtifact(st)
  BY <1>0 DEF DeploymentsInv
<1>2. ASSUME pc = "lower"
      PROVE  /\ file.parsed /\ DeployFile(file) /\ DeploymentsSoFar(file, st, agenda) /\ artifact = NoName
             /\ agenda # <<>> => Head(agenda).kind \in {"application", "profile", "deployment"}
  <2>1. file.parsed /\ DeployFile(file) /\ DeploymentsSoFar(file, st, agenda) /\ artifact = NoName
    BY <1>1, <1>2
  <2>2. IsList(agenda) /\ \A x \in Range(agenda) : DeploymentItem(file, x)
    BY <2>1 DEF DeploymentsSoFar
  <2>3. agenda # <<>> => Head(agenda) \in Range(agenda)
    BY <2>2, ListTail
  <2> QED BY <2>1, <2>2, <2>3 DEF DeploymentItem
<1>3. OpenFile \/ ApplicationStep \/ ProfileStep \/ DeploymentStep \/ Finish \/ UNCHANGED vars
  BY <1>2, DeploymentSteps
<1>4. CASE OpenFile
  <2>1. st' = OpenDeployment(file) /\ artifact' = NoName /\ pc' # "open"
    BY <1>0, <1>1, <1>4 DEF OpenFile, Open, file
  <2>2. CASE file.parsed
    <3>1. agenda' = Items("application", file.applications) \o Items("profile", file.profiles)
                      \o Items("deployment", file.deployments)
      BY <1>0, <1>4, <2>2 DEF OpenFile, Agenda, file, Items
    <3>2. DeploymentsSoFar(file, st', agenda')
      BY <3>1, <2>1, <2>2, <1>1, DeploymentsOpen
    <3> QED BY <1>0, <1>1, <2>1, <2>2, <3>2 DEF DeploymentsInv
  <2>3. CASE ~file.parsed
    <3>1. agenda' = <<>> /\ pc' = "done"
      BY <1>4, <2>3 DEF OpenFile
    <3>2. st'.deployments = <<>>
      BY <2>1 DEF OpenDeployment
    <3> QED BY <1>0, <1>1, <2>1, <2>3, <3>1, <3>2 DEF DeploymentsInv
  <2> QED BY <2>2, <2>3
<1>5. CASE ApplicationStep
  <2>1. /\ pc = "lower" /\ agenda # <<>> /\ Head(agenda).kind = "application" /\ pc' = pc /\ artifact' = artifact
        /\ st' = LowerApplication(st, file, Head(agenda).item) /\ agenda' = Tail(agenda)
    BY <1>5 DEF ApplicationStep, Lowering, AtHead
  <2>2. DeploymentsSoFar(file, st', agenda')
    BY <1>2, <2>1, ApplicationKeeps
  <2> QED BY <1>0, <1>1, <1>2, <2>1, <2>2 DEF DeploymentsInv
<1>6. CASE ProfileStep
  <2>1. /\ pc = "lower" /\ agenda # <<>> /\ Head(agenda).kind = "profile" /\ pc' = pc /\ artifact' = artifact
        /\ st' = LowerProfile(st, Head(agenda).item) /\ agenda' = Tail(agenda)
    BY <1>6 DEF ProfileStep, Lowering, AtHead
  <2>2. DeploymentsSoFar(file, st', agenda')
    BY <1>2, <2>1, ProfileKeeps
  <2> QED BY <1>0, <1>1, <1>2, <2>1, <2>2 DEF DeploymentsInv
<1>7. CASE DeploymentStep
  <2>1. /\ pc = "lower" /\ agenda # <<>> /\ Head(agenda).kind = "deployment" /\ pc' = pc /\ artifact' = artifact
        /\ st' = LowerDeployment(st, file, Head(agenda).item) /\ agenda' = Tail(agenda)
    BY <1>7 DEF DeploymentStep, Lowering, AtHead
  <2>2. DeploymentsSoFar(file, st', agenda')
    BY <1>2, <2>1, DeploymentKeeps
  <2> QED BY <1>0, <1>1, <1>2, <2>1, <2>2 DEF DeploymentsInv
<1>8. CASE Finish
  <2>1. /\ pc = "lower" /\ agenda' = agenda /\ pc' = "done" /\ st' = st
        /\ artifact' = (IF st'.errors = {} THEN DeployArtifact(st') ELSE NoName)
    BY <1>0, <1>8 DEF Finish, Close, Outcome, ArtifactOf
  <2>2. DeploymentsSoFar(file, st', agenda')
    BY <1>2, <2>1
  <2>3. artifact' # NoName => pc' = "done" /\ file'.parsed /\ st'.errors = {} /\ artifact' = DeployArtifact(st')
    BY <1>0, <1>2, <2>1
  <2> QED BY <1>0, <1>1, <1>2, <2>1, <2>2, <2>3 DEF DeploymentsInv
<1>9. CASE UNCHANGED vars
  <2>1. pc' = pc /\ agenda' = agenda /\ st' = st /\ artifact' = artifact
    BY <1>9 DEF vars
  <2> QED BY <1>0, <1>1, <2>1 DEF DeploymentsInv, DeployArtifact
<1> QED BY <1>3, <1>4, <1>5, <1>6, <1>7, <1>8, <1>9

LEMMA DeploymentsAccepted == DeploymentsInv => DeploymentsFit
<1> SUFFICES ASSUME DeploymentsInv, Accepted("deploy") PROVE DeploymentsFit
  BY DEF DeploymentsFit
<1>1. pc = "done" /\ file.parsed /\ st.errors = {} /\ artifact = DeployArtifact(st)
  BY DEF DeploymentsInv, Accepted
<1>2. Deployed(st)
  BY <1>1 DEF DeploymentsInv, Accepted, DeploymentsSoFar
<1>3. artifact.applications = st.applications /\ artifact.profiles = st.profiles /\ artifact.deployments = st.deployments
  BY <1>1 DEF DeployArtifact
<1>4. \A d \in Range(artifact.deployments) : \E a \in Range(artifact.applications), p \in Range(artifact.profiles) : Deployable(a, p, d)
  BY <1>2, <1>3 DEF Deployed
<1> QED BY Zenon, <1>4 DEF DeploymentsFit, Deployable, FitsWith

(* Whatever applications, profiles and deployments a file has, an accepted  *)
(* one fits its target and obeys its policies with the settings the         *)
(* artifact alone gives it, level by level.                                *)
(* (deploy.rs compile_deploy_file, apply_settings)                         *)
THEOREM DeploymentsAlwaysFit == Spec => []DeploymentsFit
BY DeploymentsAtFirst, DeploymentsNext, DeploymentsAccepted, PTL DEF Spec

-----------------------------------------------------------------------------
(* What a machine that was lowered is.                                     *)

Arrows(machine) == {<<t.from, t.to>> : t \in Range(machine.transitions)}

LiteralsIn(env, enum) == IF env.union # NoName THEN EnumLiterals(env.union, enum) ELSE NoName

SoundMachine(env, machine) ==
  LET enum == ResolveType(env, machine.type)
  IN  /\ machine.initial # NoName /\ enum # Unresolved /\ enum.kind = "enum"
      /\ IsFiniteSet(Arrows(machine))
      /\ StateErrors(machine.initial, Range(machine.terminals), Arrows(machine), LiteralsIn(env, enum)) = {}

StatesOf(machine) ==
  {machine.initial} \cup Range(machine.terminals) \cup (UNION {{a[1], a[2]} : a \in Arrows(machine)})

LEMMA PickedAreFinite ==
  ASSUME NEW s, NEW places, IsFiniteSet(places)
  PROVE  IsFiniteSet(Range(Picked(s, places)))
<1> DEFINE N == Cardinality(places)
           g == Picked(s, places)
<1>1. N \in Nat
  BY FS_CardinalityType
<1>2. DOMAIN g = 1..N
  BY DEF Picked
<1>3. IsFiniteSet(DOMAIN g)
  BY <1>1, <1>2, FS_Interval
<1> HIDE DEF N, g
<1>4. IsFiniteSet({g[x] : x \in DOMAIN g})
  BY <1>3, FiniteImage
<1> QED BY Zenon, <1>4 DEF Range, g

LEMMA MachineIsSound ==
  ASSUME NEW env, NEW design, DddDesign(design), design.machine # NoName, NEW class, NEW scopes,
         MachineErrors(env, design.machine, design, class, scopes).withholding = {}
  PROVE  SoundMachine(env, [design.machine EXCEPT !.transitions = EdgesOf(design.machine).edges])
<1> DEFINE m == design.machine
           edges == EdgesOf(m).edges
           k == [m EXCEPT !.transitions = edges]
           enum == ResolveType(env, m.type)
           arrows == {<<e.from, e.to>> : e \in Range(edges)}
           state == StateErrors(InitialOf(m), Range(m.terminals), arrows, LiteralsIn(env, enum))
           found == MachineErrors(env, m, design, class, scopes).withholding
<1>1. /\ IsList(m.transitions)
      /\ DOMAIN m = {"field", "type", "initial", "terminals", "transitions"}
  BY DEF DddDesign, DddMachine, HasFields
<1>2. /\ When(enum = Unresolved, "unknown type") \subseteq found
      /\ When(enum.kind # "enum", "machine over no enum") \subseteq found
      /\ When(m.initial = NoName, "no initial state") \subseteq found
      /\ state \subseteq found
  BY DEF MachineErrors, LiteralsIn
<1>3. k.initial = m.initial /\ k.terminals = m.terminals /\ k.type = m.type /\ k.transitions = edges
  BY <1>1
<1>4. IsFiniteSet(Range(edges))
  <2> DEFINE kept == Firsts([i \in DOMAIN m.transitions |->
                               <<m.transitions[i].from, m.transitions[i].to, m.transitions[i].trigger>>])
  <2>1. edges = Picked(m.transitions, kept)
    BY DEF EdgesOf
  <2>2. kept \subseteq DOMAIN m.transitions
    BY DEF Firsts
  <2>3. IsFiniteSet(DOMAIN m.transitions)
    <3>1. Len(m.transitions) \in Nat /\ DOMAIN m.transitions = 1..Len(m.transitions)
      BY <1>1 DEF IsList
    <3> QED BY <3>1, FS_Interval
  <2> HIDE DEF kept
  <2>4. IsFiniteSet(kept)
    BY <2>2, <2>3, FS_Subset
  <2> HIDE DEF edges
  <2> QED BY <2>1, <2>4, PickedAreFinite
<1>5. found = {}
  OBVIOUS
<1> HIDE DEF edges, enum, state, found, k
<1>6. enum # Unresolved /\ enum.kind = "enum" /\ m.initial # NoName /\ state = {}
  BY <1>2, <1>5 DEF When
<1>7. InitialOf(m) = m.initial
  BY <1>6 DEF InitialOf
<1>8. IsFiniteSet(arrows)
  <2> DEFINE g == [e \in Range(edges) |-> <<e.from, e.to>>]
  <2>1. IsFiniteSet(DOMAIN g) /\ arrows = {g[x] : x \in DOMAIN g}
    BY <1>4
  <2> HIDE DEF g, arrows
  <2> QED BY <2>1, FiniteImage
<1>9. Arrows(k) = arrows
  BY <1>3 DEF Arrows
<1>10. SoundMachine(env, k)
  BY <1>3, <1>6, <1>7, <1>8, <1>9 DEF SoundMachine, state, enum
<1> QED BY <1>10 DEF k, edges

LEMMA MachineStates ==
  ASSUME NEW env, NEW machine, SoundMachine(env, machine)
  PROVE  /\ \A S : /\ machine.initial \in S
                   /\ \A a \in Arrows(machine) : a[1] \in S => a[2] \in S
                   => StatesOf(machine) \subseteq S
         /\ \A s \in StatesOf(machine) : s \in Range(machine.terminals) <=> \A a \in Arrows(machine) : a[1] # s
         /\ LET literals == LiteralsIn(env, ResolveType(env, machine.type))
            IN  literals # NoName => StatesOf(machine) \subseteq literals
<1> DEFINE i == machine.initial
           T == Range(machine.terminals)
           A == Arrows(machine)
           states == StatesOf(machine)
           literals == LiteralsIn(env, ResolveType(env, machine.type))
<1>1. i # NoName /\ IsFiniteSet(A) /\ StateErrors(i, T, A, literals) = {}
  BY DEF SoundMachine
<1>2. When(i # NoName, i) = {i}
  BY <1>1 DEF When
<1> HIDE DEF i, T, A, literals
<1>3. states = {i} \cup T \cup (UNION {{a[1], a[2]} : a \in A})
  BY DEF StatesOf, i, T, A
<1> HIDE DEF states
<1>4. /\ When(\E a \in A : a[1] \in T, "terminal state is left") = {}
      /\ When(literals # NoName /\ ~(states \subseteq literals), "state is no literal") = {}
      /\ When(i # NoName /\ ~(states \subseteq {i} \cup ReachedFrom(A, i)), "unreachable state") = {}
      /\ When(i # NoName /\ \E s \in states \ T : \A a \in A : a[1] # s, "dead end") = {}
  BY <1>1, <1>2, <1>3 DEF StateErrors
<1>5. \A a \in A : a[1] \notin T
  BY <1>4 DEF When
<1>6. literals # NoName => states \subseteq literals
  BY <1>4 DEF When
<1>7. states \subseteq {i} \cup ReachedFrom(A, i)
  BY <1>1, <1>4 DEF When
<1>8. \A s \in states \ T : \E a \in A : a[1] = s
  BY <1>1, <1>4 DEF When
<1>9. ASSUME NEW S, i \in S, \A a \in A : a[1] \in S => a[2] \in S
      PROVE  states \subseteq S
  <2>1. Successors(A, {i}) \subseteq S
    BY <1>9 DEF Successors
  <2>2. ReachedFrom(A, i) \subseteq S
    BY <1>1, <1>9, <2>1, ReachedFromIsLeast
  <2> QED BY <1>7, <1>9, <2>2
<1> QED BY <1>5, <1>6, <1>8, <1>9 DEF i, T, A, states, literals

-----------------------------------------------------------------------------
(* The enum a machine is over, in one namespace.                           *)

\* The packages the rules resolve against, each name once.
UniquePackages(packages) == IrModel(packages) /\ IsInjective(NameList(packages))

LEMMA NamedPackage ==
  ASSUME NEW packages, UniquePackages(packages), NEW p \in Range(packages)
  PROVE  FirstNamed(packages, p.name) = p
<1> DEFINE q == FirstNamed(packages, p.name)
<1>1. IsList(packages)
  BY DEF UniquePackages, IrModel
<1>2. q \in Range(packages) /\ q.name = p.name
  BY <1>1, FoundIn
<1> HIDE DEF q
<1>3. PICK i \in DOMAIN packages : p = packages[i]
  BY DEF Range
<1>4. PICK j \in DOMAIN packages : q = packages[j]
  BY <1>2 DEF Range
<1>5. NameList(packages)[i] = NameList(packages)[j] /\ DOMAIN NameList(packages) = DOMAIN packages
  BY <1>2, <1>3, <1>4 DEF NameList
<1>6. i = j
  BY <1>5 DEF UniquePackages, IsInjective
<1> QED BY <1>3, <1>4, <1>6 DEF q

\* What a reference resolves to is declared by a package, or built in.
LEMMA ResolvedIn ==
  ASSUME NEW packages, IsList(packages), NEW ref, NEW base
  PROVE  LET type == ResolvePreferred(ref, packages, base)
         IN  \/ type = Unresolved
             \/ type = [kind |-> "primitive", pkg |-> NoName, name |-> ref.local]
             \/ \E p \in Range(packages) : type = Classified(p, ref.local)
<1> DEFINE type == ResolvePreferred(ref, packages, base)
           domains == ResolveDomains(ref, packages)
           declaring == {i \in DOMAIN packages : Declares(packages[i], ref.local)}
           named == {i \in DOMAIN packages : packages[i].name = ref.pkg}
           InOne(t) == \E p \in Range(packages) : t = Classified(p, ref.local)
           BuiltIn(t) == t = [kind |-> "primitive", pkg |-> NoName, name |-> ref.local]
<1>1. (type = Classified(FirstNamed(packages, base), ref.local) /\ FirstNamed(packages, base) # NoName) \/ type = domains
  BY Zenon DEF ResolvePreferred, FirstNamed
<1>2. FirstNamed(packages, base) # NoName => FirstNamed(packages, base) \in Range(packages)
  BY FoundIn
<1>3. CASE ref.pkg # NoName
  <2>1. domains = Unresolved \/ (named # {} /\ domains = Classified(FirstNamed(packages, ref.pkg), ref.local))
    BY Zenon, <1>3 DEF ResolveDomains, FirstNamed
  <2>2. named # {} => FirstNamed(packages, ref.pkg) \in Range(packages)
    <3>1. named # {} => \E x \in Range(packages) : x.name = ref.pkg
      BY DEF Range
    <3> QED BY <3>1, FoundIn
  <2> HIDE DEF domains, type, named
  <2> QED BY <1>1, <1>2, <2>1, <2>2 DEF type
<1>4. CASE ref.pkg = NoName
  <2> DEFINE k == CHOOSE i \in declaring : TRUE
  <2>1. domains = CASE Cardinality(declaring) = 1 -> Classified(packages[k], ref.local)
                    [] declaring = {} /\ ref.local \in Primitives ->
                         [kind |-> "primitive", pkg |-> NoName, name |-> ref.local]
                    [] OTHER -> Unresolved
    BY Zenon, <1>4 DEF ResolveDomains
  <2>2. Cardinality(declaring) = 1 => declaring # {}
    BY FS_EmptySet
  <2>3. declaring # {} => packages[k] \in Range(packages)
    BY DEF Range
  <2> HIDE DEF domains, type, declaring, k
  <2>4. CASE Cardinality(declaring) = 1
    <3>1. domains = Classified(packages[k], ref.local)
      BY Zenon, <2>1, <2>2, <2>4
    <3> QED BY <1>1, <1>2, <2>2, <2>3, <2>4, <3>1 DEF type
  <2>5. CASE Cardinality(declaring) # 1
    <3>1. CASE declaring = {} /\ ref.local \in Primitives
      <4>1. BuiltIn(domains)
        BY Zenon, <2>1, <2>5, <3>1
      <4> QED BY <1>1, <1>2, <4>1 DEF type
    <3>2. CASE ~(declaring = {} /\ ref.local \in Primitives)
      <4>1. domains = Unresolved
        BY Zenon, <2>1, <2>5, <3>2
      <4> QED BY <1>1, <1>2, <4>1 DEF type
    <3> QED BY <3>1, <3>2
  <2> QED BY <2>4, <2>5
<1> QED BY <1>3, <1>4

LEMMA EnumIsDeclared ==
  ASSUME NEW packages, UniquePackages(packages), NEW ref, NEW base,
         ResolvePreferred(ref, packages, base) # Unresolved, ResolvePreferred(ref, packages, base).kind = "enum"
  PROVE  LET literals == EnumLiterals(packages, ResolvePreferred(ref, packages, base))
         IN  literals # NoName /\ literals \in UNION {Range(p.enums) : p \in Range(packages)}
<1> DEFINE type == ResolvePreferred(ref, packages, base)
           n == ref.local
<1>1. IsList(packages) /\ \A p \in Range(packages) : IrPackage(p)
  BY DEF UniquePackages, IrModel
<1>2. type # [kind |-> "primitive", pkg |-> NoName, name |-> n]
  OBVIOUS
<1>3. PICK p \in Range(packages) : type = Classified(p, n)
  BY <1>1, <1>2, ResolvedIn
<1> HIDE DEF type
<1>4. type.kind = "enum" /\ type # Unresolved
  BY DEF type
<1>5. type.kind = KindOf(p, n) /\ type.pkg = p.name /\ type.name = n
  BY <1>3, <1>4 DEF Classified
<1>6. IrPackage(p)
  BY <1>1
<1>7. n \in DOMAIN p.enums
  <2>1. KindOf(p, n) = "enum"
    BY <1>4, <1>5
  <2>2. KindOf(p, n) # NoName
    BY <1>3, <1>4 DEF Classified
  <2>3. CASE n \in DOMAIN p.classes
    <3>1. n \notin DOMAIN p.enums /\ n \notin DOMAIN p.others
      BY <1>6, <2>3 DEF IrPackage
    <3>2. KindOf(p, n) = "class"
      BY Zenon, <2>3, <3>1 DEF KindOf
    <3> QED BY <2>1, <3>2
  <2>4. CASE n \in DOMAIN p.others
    <3>1. n \notin DOMAIN p.classes /\ n \notin DOMAIN p.enums
      BY <1>6, <2>4 DEF IrPackage
    <3>2. KindOf(p, n) = p.others[n]
      BY Zenon, <2>4, <3>1 DEF KindOf
    <3>3. p.others[n] \in {"interface", "datatype", "vocabulary", "actors"}
      BY <1>6, <2>4 DEF IrPackage
    <3> QED BY <2>1, <3>2, <3>3
  <2>5. CASE n \notin DOMAIN p.classes /\ n \notin DOMAIN p.enums /\ n \notin DOMAIN p.others
    <3>1. KindOf(p, n) = NoName
      BY Zenon, <2>5 DEF KindOf
    <3> QED BY <2>2, <3>1
  <2> QED BY <2>3, <2>4, <2>5
<1>8. FirstNamed(packages, type.pkg) = p /\ p # NoName
  BY <1>5, <1>6, NamedPackage DEF IrPackage
<1>9. EnumLiterals(packages, type) = p.enums[n]
  <2>1. EnumLiterals(packages, type) = IF type.kind = "enum" /\ FirstNamed(packages, type.pkg) # NoName
                                            /\ type.name \in DOMAIN FirstNamed(packages, type.pkg).enums
                                       THEN FirstNamed(packages, type.pkg).enums[type.name] ELSE NoName
    BY Zenon DEF EnumLiterals, FirstNamed
  <2> QED BY <2>1, <1>4, <1>5, <1>7, <1>8
<1>10. p.enums[n] # NoName
  BY <1>6, <1>7 DEF IrPackage, IrEnumDef
<1>11. p.enums[n] \in Range(p.enums)
  BY <1>7 DEF Range
<1> QED BY <1>9, <1>10, <1>11 DEF type

-----------------------------------------------------------------------------
(* Designs while a file is lowered.                                        *)

DesignItem(x) ==
  \/ x.kind = "module" /\ DddModule(x.item)
  \/ x.kind \in {"service", "search"}
  \/ x.kind = "design" /\ DddDesign(x.item)

DesignScope(env) == UniquePackages(env.packages) /\ (env.union # NoName => env.union = env.packages)

SoundModule(env, m) ==
  /\ "designs" \in DOMAIN m /\ IsList(m.designs)
  /\ \A d \in Range(m.designs) : d.machine # NoName => SoundMachine(env, d.machine)

DesignFields == {"env", "reg", "lowered", "module", "scopes", "errors"}

\* An unsound machine is withheld at once: what is lowered is sound, errors
\* or not.
DesignState(s) ==
  /\ HasFields(s, DesignFields)
  /\ DesignScope(s.env)
  /\ IsList(s.lowered) /\ \A m \in Range(s.lowered) : SoundModule(s.env, m)

LEMMA DesignOpens ==
  ASSUME NEW f, OneNamespace(f)
  PROVE  DesignState(OpenDesign(f))
<1> DEFINE s == OpenDesign(f)
           found == EnvOf(f, NoName)
           base == BasePackage(f.application, found.packages)
           packages == Lowered(DomainUnits(f.imports, f.files))
<1>1. found.packages = packages /\ found.union \in {packages, NoName} /\ DOMAIN found = {"units", "packages", "base", "union"}
  BY DEF EnvOf
<1>2. UniquePackages(packages)
  BY DEF OneNamespace, UniquePackages
<1>3. HasFields(s, DesignFields) /\ s.lowered = <<>> /\ s.env = [found EXCEPT !.base = base.base]
  BY DEF OpenDesign, HasFields, DesignFields
<1> HIDE DEF s, found, base, packages
<1>4. s.env.packages = packages /\ s.env.union \in {packages, NoName}
  BY <1>1, <1>3
<1>5. DesignScope(s.env)
  BY <1>2, <1>4 DEF DesignScope
<1> QED BY <1>3, <1>5, EmptyList DEF DesignState, s

\* What does not touch the designs keeps the state.
LEMMA DesignStays ==
  ASSUME NEW s, NEW t, DesignState(s), HasFields(t, DesignFields), t.env = s.env, t.lowered = s.lowered
  PROVE  DesignState(t)
BY DEF DesignState

LEMMA ModuleOpens ==
  ASSUME NEW s, NEW module, DesignState(s), DddModule(module)
  PROVE  DesignState(OpenModule(s, module))
<1> DEFINE t == OpenModule(s, module)
           opened == [module EXCEPT !.designs = <<>>]
<1>1. HasFields(t, DesignFields) /\ t.env = s.env /\ t.lowered = Append(s.lowered, opened)
  BY DEF OpenModule, DesignState, HasFields, DesignFields
<1>2. "designs" \in DOMAIN opened /\ opened.designs = <<>>
  BY DEF DddModule, HasFields
<1> HIDE DEF t, opened
<1>3. SoundModule(s.env, opened)
  BY <1>2, EmptyList DEF SoundModule
<1>4. IsList(s.lowered) /\ DesignScope(s.env) /\ \A m \in Range(s.lowered) : SoundModule(s.env, m)
  BY DEF DesignState
<1>5. IsList(t.lowered) /\ Range(t.lowered) = Range(s.lowered) \cup {opened}
  BY <1>1, <1>4, ListAppend
<1> QED BY <1>1, <1>3, <1>4, <1>5 DEF DesignState, t

LEMMA ServiceStays ==
  ASSUME NEW s, NEW service, DesignState(s)
  PROVE  DesignState(LowerService(s, service))
<1> DEFINE t == LowerService(s, service)
<1>1. HasFields(t, DesignFields) /\ t.env = s.env /\ t.lowered = s.lowered
  BY DEF LowerService, DesignState, HasFields, DesignFields
<1> HIDE DEF t
<1> QED BY <1>1, DesignStays DEF t

LEMMA SearchStays ==
  ASSUME NEW s, NEW search, DesignState(s)
  PROVE  DesignState(LowerSearch(s, search))
<1> DEFINE t == LowerSearch(s, search)
<1>1. HasFields(t, DesignFields) /\ t.env = s.env /\ t.lowered = s.lowered
  BY DEF LowerSearch, DesignState, HasFields, DesignFields
<1> HIDE DEF t
<1> QED BY <1>1, DesignStays DEF t

LEMMA CrossRulesStay ==
  ASSUME NEW s, NEW f, DesignState(s)
  PROVE  DesignState(CrossModuleRules(s, f)) /\ CrossModuleRules(s, f).lowered = s.lowered
<1> DEFINE t == CrossModuleRules(s, f)
<1>1. HasFields(t, DesignFields) /\ t.env = s.env /\ t.lowered = s.lowered
  BY DEF CrossModuleRules, DesignState, HasFields, DesignFields
<1> HIDE DEF t
<1> QED BY <1>1, DesignStays DEF t

LEMMA DesignAppends ==
  ASSUME NEW env, NEW modules, NEW k, NEW d, IsList(modules), \A m \in Range(modules) : SoundModule(env, m),
         d.machine # NoName => SoundMachine(env, d.machine)
  PROVE  LET after == [modules EXCEPT ![k].designs = Append(@, d)]
         IN  IsList(after) /\ \A m \in Range(after) : SoundModule(env, m)
<1> DEFINE after == [modules EXCEPT ![k].designs = Append(@, d)]
<1>1. DOMAIN after = DOMAIN modules /\ Len(modules) \in Nat /\ DOMAIN modules = 1..Len(modules)
  BY DEF IsList
<1>2. ASSUME NEW i \in DOMAIN modules PROVE SoundModule(env, after[i])
  <2>1. modules[i] \in Range(modules)
    BY DEF Range
  <2>2. SoundModule(env, modules[i])
    BY <2>1
  <2>3. CASE i # k
    <3>1. after[i] = modules[i]
      BY <2>3
    <3> QED BY <2>2, <3>1
  <2>4. CASE i = k
    <3> DEFINE m == modules[i]
               grown == Append(m.designs, d)
               new == [m EXCEPT !.designs = grown]
    <3>1. after[i] = new
      BY <2>4
    <3>2. "designs" \in DOMAIN m /\ IsList(m.designs) /\ \A c \in Range(m.designs) : c.machine # NoName => SoundMachine(env, c.machine)
      BY <2>2 DEF SoundModule
    <3>3. new.designs = grown /\ DOMAIN new = DOMAIN m
      BY <3>2
    <3>4. IsList(grown) /\ Range(grown) = Range(m.designs) \cup {d}
      <4>1. IsList(m.designs)
        BY <3>2
      <4> HIDE DEF m
      <4> QED BY <4>1, ListAppend
    <3> HIDE DEF m, grown, new
    <3>5. SoundModule(env, new)
      BY <3>2, <3>3, <3>4 DEF SoundModule
    <3> QED BY <3>1, <3>5
  <2> QED BY <2>3, <2>4
<1> HIDE DEF after
<1>3. after = [i \in 1..Len(modules) |-> after[i]]
  <2>1. after = [modules EXCEPT ![k].designs = Append(@, d)]
    BY DEF after
  <2> QED BY <1>1, <2>1
<1>4. after \in Seq(Range(after))
  <2>1. after \in [1..Len(modules) -> Range(after)]
    BY <1>1, <1>3 DEF Range
  <2> QED BY <1>1, <2>1, SeqDef
<1>5. \A m \in Range(after) : SoundModule(env, m)
  BY <1>1, <1>2 DEF Range
<1> QED BY <1>4, <1>5 DEF IsList, after

LEMMA DesignKeeps ==
  ASSUME NEW s, NEW design, DesignState(s), DddDesign(design)
  PROVE  DesignState(LowerDesign(s, design))
<1> DEFINE class == ResolveDesigned(s.env, design.class)
           errors == MachineErrors(s.env, design.machine, design, class, s.scopes)
           found == IF design.machine = NoName THEN [withholding |-> {}, other |-> {}] ELSE errors
           lowered == [design.machine EXCEPT !.transitions = EdgesOf(design.machine).edges]
           machine == IF design.machine = NoName \/ found.withholding # {} THEN NoName ELSE lowered
           entered == IF design.repository = NoName THEN s ELSE LowerRepository(s, design, class)
           d == [design EXCEPT !.machine = machine]
           after == [s.lowered EXCEPT ![Len(s.lowered)].designs = Append(@, d)]
           t == LowerDesign(s, design)
<1>1. HasFields(s, DesignFields) /\ IsList(s.lowered) /\ \A m \in Range(s.lowered) : SoundModule(s.env, m)
  BY DEF DesignState
<1>2. HasFields(entered, DesignFields) /\ entered.env = s.env /\ entered.lowered = s.lowered
  BY <1>1 DEF LowerRepository, HasFields, DesignFields
<1>3. HasFields(t, DesignFields) /\ t.env = s.env /\ t.lowered = after
  <2> HIDE DEF errors, lowered
  <2>1. t = [entered EXCEPT
         !.errors = @ \cup When(class = NoName, "unknown class")
                      \cup When((IF class = NoName THEN <<NoName, design.class>> ELSE class) \in s.reg.designed, "duplicate design")
                      \cup FlagErrors(design) \cup ContractErrors(s.env, design, class)
                      \cup found.withholding \cup found.other,
         !.reg.designed = @ \cup {IF class = NoName THEN <<NoName, design.class>> ELSE class},
         !.reg.entities = @ \cup When(design.stereotype = "entity" /\ class # NoName, [class |-> class, module |-> s.module]),
         !.reg.roots = @ \cup When((design.stereotype = "entity" /\ class # NoName) /\ design.repository # NoName, class),
         !.lowered[Len(s.lowered)].designs = Append(@, d)]
    BY Zenon DEF LowerDesign, errors, lowered
  <2> HIDE DEF entered, found, machine, class, d, t
  <2> QED BY <1>2, <2>1 DEF HasFields, DesignFields
<1>4. "machine" \in DOMAIN design
  BY DEF DddDesign, HasFields
<1>5. d.machine = machine
  BY <1>4
<1>6. machine # NoName => SoundMachine(s.env, machine)
  <2> SUFFICES ASSUME machine # NoName PROVE SoundMachine(s.env, machine)
    OBVIOUS
  <2> HIDE DEF errors, lowered
  <2>1. design.machine # NoName /\ errors.withholding = {} /\ machine = lowered
    OBVIOUS
  <2>2. SoundMachine(s.env, lowered)
    BY <2>1, MachineIsSound DEF errors, lowered
  <2> QED BY <2>1, <2>2
<1> HIDE DEF d, machine, t
<1>7. IsList(after) /\ \A m \in Range(after) : SoundModule(s.env, m)
  BY <1>1, <1>5, <1>6, DesignAppends
<1> HIDE DEF after
<1> QED BY <1>3, <1>7 DEF DesignState, t

DesignsInv ==
  input.surface = "ddd" =>
    /\ (file.parsed => DddFile(file)) /\ OneNamespace(file)
    /\ IsList(agenda) /\ \A x \in Range(agenda) : DesignItem(x)
    /\ pc = "open" => agenda = <<>> /\ artifact = NoName
    /\ pc # "open" => DesignState(st)
    /\ artifact # NoName => pc = "done" /\ artifact = st.lowered

LEMMA DesignSteps ==
  ASSUME pc = "lower" /\ agenda # <<>> => Head(agenda).kind \in {"module", "service", "design", "search"}, [Next]_vars
  PROVE  OpenFile \/ ModuleStep \/ ServiceStep \/ DesignStep \/ SearchStep \/ Finish \/ UNCHANGED vars
<1> USE DEF AtHead, Lowering
<1>1. ~EventStep /\ ~ChannelStep /\ ~SubscriptionStep
  BY DEF EventStep, ChannelStep, SubscriptionStep
<1>2. ~UseCaseStep /\ ~CaseStep
  BY DEF UseCaseStep, CaseStep
<1>3. ~DecisionStep /\ ~VisitStep /\ ~CycleStep
  BY DEF DecisionStep, VisitStep, CycleStep
<1>4. ~ApplicationStep /\ ~ProfileStep /\ ~DeploymentStep
  BY DEF ApplicationStep, ProfileStep, DeploymentStep
<1>5. ~EnumStep /\ ~DatatypeStep /\ ~InterfaceStep /\ ~ClassStep
  BY DEF EnumStep, DatatypeStep, InterfaceStep, ClassStep
<1> QED BY <1>1, <1>2, <1>3, <1>4, <1>5 DEF Next, Finished

LEMMA DesignsAtFirst == Init => DesignsInv
<1> SUFFICES ASSUME Init, input.surface = "ddd" PROVE DesignsInv
  BY DEF DesignsInv
<1>1. (file.parsed => DddFile(file)) /\ OneNamespace(file)
  <2>1. (file.parsed => SyntaxTree(input)) /\ HostsProvide(input)
    BY FilesAssumption DEF Init, file
  <2> QED BY <2>1 DEF SyntaxTree, HostsProvide, file
<1> QED BY <1>1, EmptyList DEF Init, DesignsInv

\* What a module puts on the agenda before the next one.
LEMMA ModuleItems ==
  ASSUME NEW module, DddModule(module), NEW rest, IsList(rest), \A x \in Range(rest) : DesignItem(x)
  PROVE  LET after == Items("service", module.services) \o Items("design", module.designs)
                        \o Items("search", module.searches) \o rest
         IN  IsList(after) /\ \A x \in Range(after) : DesignItem(x)
<1> DEFINE S == Items("service", module.services)
           D == Items("design", module.designs)
           H == Items("search", module.searches)
           first == S \o D
           own == first \o H
<1>1. IsList(module.services) /\ IsList(module.designs) /\ IsList(module.searches)
      /\ \A d \in Range(module.designs) : DddDesign(d)
  BY DEF DddModule
<1>2. /\ IsList(S) /\ \A x \in Range(S) : x.kind = "service"
      /\ IsList(D) /\ \A x \in Range(D) : x.kind = "design" /\ x.item \in Range(module.designs)
      /\ IsList(H) /\ \A x \in Range(H) : x.kind = "search"
  BY <1>1, ItemsAreListed
<1> HIDE DEF S, D, H
<1>3. IsList(first) /\ Range(first) = Range(S) \cup Range(D)
  BY <1>2, ListConcat
<1> HIDE DEF first
<1>4. IsList(own) /\ Range(own) = Range(first) \cup Range(H)
  BY <1>2, <1>3, ListConcat
<1> HIDE DEF own
<1>5. IsList(own \o rest) /\ Range(own \o rest) = Range(own) \cup Range(rest)
  BY <1>4, ListConcat
<1>6. \A x \in Range(own \o rest) : DesignItem(x)
  BY <1>1, <1>2, <1>3, <1>4, <1>5 DEF DesignItem
<1> QED BY <1>5, <1>6 DEF own, first, S, D, H

LEMMA DesignsNext == DesignsInv /\ [Next]_vars => DesignsInv'
<1> SUFFICES ASSUME DesignsInv, [Next]_vars, input'.surface = "ddd" PROVE DesignsInv'
  BY DEF DesignsInv
<1>0. input' = input /\ file' = file /\ input.surface = "ddd"
  BY InputStays
<1>1. /\ (file.parsed => DddFile(file)) /\ OneNamespace(file)
      /\ IsList(agenda) /\ \A x \in Range(agenda) : DesignItem(x)
      /\ pc = "open" => agenda = <<>> /\ artifact = NoName
      /\ pc # "open" => DesignState(st)
      /\ artifact # NoName => pc = "done" /\ artifact = st.lowered
  BY <1>0 DEF DesignsInv
<1>2. agenda # <<>> => DesignItem(Head(agenda)) /\ IsList(Tail(agenda)) /\ \A x \in Range(Tail(agenda)) : DesignItem(x)
  BY <1>1, ListTail
<1>3. OpenFile \/ ModuleStep \/ ServiceStep \/ DesignStep \/ SearchStep \/ Finish \/ UNCHANGED vars
  BY <1>2, DesignSteps DEF DesignItem
<1>4. ASSUME pc = "lower", pc' = pc, artifact' = artifact, DesignState(st'),
             IsList(agenda'), \A x \in Range(agenda') : DesignItem(x)
      PROVE  DesignsInv'
  BY <1>0, <1>1, <1>4 DEF DesignsInv
<1>5. CASE OpenFile
  <2>1. st' = OpenDesign(file) /\ artifact' = NoName /\ pc' # "open"
    BY <1>0, <1>1, <1>5 DEF OpenFile, Open, file
  <2>2. DesignState(st')
    BY <1>1, <2>1, DesignOpens
  <2>3. IsList(agenda') /\ \A x \in Range(agenda') : DesignItem(x)
    <3>1. CASE file.parsed
      <4> DEFINE modules == file.application.modules
      <4>1. agenda' = Items("module", modules)
        BY <1>0, <1>5, <3>1 DEF OpenFile, Agenda, file
      <4>2. IsList(modules) /\ \A m \in Range(modules) : DddModule(m)
        BY <1>1, <3>1 DEF DddFile
      <4> HIDE DEF modules
      <4>3. IsList(Items("module", modules)) /\ \A x \in Range(Items("module", modules)) : x.kind = "module" /\ x.item \in Range(modules)
        BY <4>2, ItemsAreListed
      <4> QED BY <4>1, <4>2, <4>3 DEF DesignItem
    <3>2. CASE ~file.parsed
      <4>1. agenda' = <<>>
        BY <1>5, <3>2 DEF OpenFile
      <4> QED BY <4>1, EmptyList
    <3> QED BY <3>1, <3>2
  <2> QED BY <1>0, <1>1, <2>1, <2>2, <2>3 DEF DesignsInv
<1>6. CASE ModuleStep
  <2> DEFINE module == Head(agenda).item
  <2>1. /\ pc = "lower" /\ agenda # <<>> /\ Head(agenda).kind = "module" /\ pc' = pc /\ artifact' = artifact
        /\ st' = OpenModule(st, module)
        /\ agenda' = Items("service", module.services) \o Items("design", module.designs)
                       \o Items("search", module.searches) \o Tail(agenda)
    BY <1>6 DEF ModuleStep, AtHead
  <2>2. DddModule(module)
    BY <1>2, <2>1 DEF DesignItem
  <2> HIDE DEF module
  <2>3. DesignState(st')
    BY <1>1, <2>1, <2>2, ModuleOpens
  <2>4. IsList(agenda') /\ \A x \in Range(agenda') : DesignItem(x)
    BY <1>2, <2>1, <2>2, ModuleItems
  <2> QED BY <1>4, <2>1, <2>3, <2>4
<1>7. CASE ServiceStep
  <2>1. /\ pc = "lower" /\ agenda # <<>> /\ pc' = pc /\ artifact' = artifact
        /\ st' = LowerService(st, Head(agenda).item) /\ agenda' = Tail(agenda)
    BY <1>7 DEF ServiceStep, Lowering, AtHead
  <2>2. DesignState(st')
    BY <1>1, <2>1, ServiceStays
  <2> QED BY <1>2, <1>4, <2>1, <2>2
<1>8. CASE DesignStep
  <2>1. /\ pc = "lower" /\ agenda # <<>> /\ Head(agenda).kind = "design" /\ pc' = pc /\ artifact' = artifact
        /\ st' = LowerDesign(st, Head(agenda).item) /\ agenda' = Tail(agenda)
    BY <1>8 DEF DesignStep, Lowering, AtHead
  <2>2. DddDesign(Head(agenda).item)
    BY <1>2, <2>1 DEF DesignItem
  <2>3. DesignState(st')
    BY <1>1, <2>1, <2>2, DesignKeeps
  <2> QED BY <1>2, <1>4, <2>1, <2>3
<1>9. CASE SearchStep
  <2>1. /\ pc = "lower" /\ agenda # <<>> /\ pc' = pc /\ artifact' = artifact
        /\ st' = LowerSearch(st, Head(agenda).item) /\ agenda' = Tail(agenda)
    BY <1>9 DEF SearchStep, Lowering, AtHead
  <2>2. DesignState(st')
    BY <1>1, <2>1, SearchStays
  <2> QED BY <1>2, <1>4, <2>1, <2>2
<1>10. CASE Finish
  <2>1. /\ pc = "lower" /\ agenda' = agenda /\ pc' = "done" /\ st' = CrossModuleRules(st, file)
        /\ artifact' = (IF st'.errors = {} THEN st'.lowered ELSE NoName)
    BY <1>0, <1>10 DEF Finish, Close, Outcome, ArtifactOf
  <2>2. DesignState(st')
    BY <1>1, <2>1, CrossRulesStay
  <2> QED BY <1>0, <1>1, <2>1, <2>2 DEF DesignsInv
<1>11. CASE UNCHANGED vars
  <2>1. pc' = pc /\ agenda' = agenda /\ st' = st /\ artifact' = artifact
    BY <1>11 DEF vars
  <2> QED BY <1>0, <1>1, <2>1 DEF DesignsInv
<1> QED BY <1>3, <1>5, <1>6, <1>7, <1>8, <1>9, <1>10, <1>11

\* A statechart of the artifact, and what is said of one.
Statechart(machine, m) ==
  /\ m.initial = machine.initial /\ m.final = Range(machine.terminals)
  /\ m.events = {[from |-> t.from, event |-> EventOf(t), to |-> t.to] : t \in Range(machine.transitions)}

Lively(env, m) ==
  LET states == {m.initial} \cup m.final \cup (UNION {{e.from, e.to} : e \in m.events})
      Closed(S) == m.initial \in S /\ \A e \in m.events : e.from \in S => e.to \in S
  IN  /\ \A S \in SUBSET states : Closed(S) => S = states
      /\ \A s \in states : s \in m.final <=> \A e \in m.events : e.from # s
      /\ env.union # NoName => \E enum \in UNION {Range(p.enums) : p \in Range(env.packages)} : states \subseteq enum

LEMMA MachineFits ==
  ASSUME NEW env, DesignScope(env), NEW machine, SoundMachine(env, machine), NEW m, Statechart(machine, m)
  PROVE  Lively(env, m)
<1> DEFINE states == {m.initial} \cup m.final \cup (UNION {{e.from, e.to} : e \in m.events})
           A == Arrows(machine)
           enum == ResolveType(env, machine.type)
<1>0. /\ m.initial = machine.initial /\ m.final = Range(machine.terminals)
      /\ m.events = {[from |-> t.from, event |-> EventOf(t), to |-> t.to] : t \in Range(machine.transitions)}
  BY DEF Statechart
<1>1. /\ \A a \in A : \E e \in m.events : a[1] = e.from /\ a[2] = e.to
      /\ \A e \in m.events : \E a \in A : a[1] = e.from /\ a[2] = e.to
  <2>1. ASSUME NEW t \in Range(machine.transitions)
        PROVE  /\ \E e \in m.events : e.from = t.from /\ e.to = t.to
               /\ \E a \in A : a[1] = t.from /\ a[2] = t.to
    <3> DEFINE e == [from |-> t.from, event |-> EventOf(t), to |-> t.to]
    <3>1. e \in m.events /\ e.from = t.from /\ e.to = t.to
      BY <1>0
    <3>2. <<t.from, t.to>> \in A
      BY DEF Arrows
    <3> QED BY <3>1, <3>2
  <2>2. \A a \in A : \E t \in Range(machine.transitions) : a[1] = t.from /\ a[2] = t.to
    BY DEF Arrows
  <2>3. \A e \in m.events : \E t \in Range(machine.transitions) : e.from = t.from /\ e.to = t.to
    BY <1>0
  <2> HIDE DEF A
  <2>4. ASSUME NEW a \in A PROVE \E e \in m.events : a[1] = e.from /\ a[2] = e.to
    <3>1. PICK t \in Range(machine.transitions) : a[1] = t.from /\ a[2] = t.to
      BY <2>2
    <3> QED BY <2>1, <3>1
  <2>5. ASSUME NEW e \in m.events PROVE \E a \in A : a[1] = e.from /\ a[2] = e.to
    <3>1. PICK t \in Range(machine.transitions) : e.from = t.from /\ e.to = t.to
      BY <2>3
    <3> QED BY <2>1, <3>1
  <2> QED BY <2>4, <2>5
<1>2. states = StatesOf(machine)
  <2> DEFINE E == UNION {{e.from, e.to} : e \in m.events}
             B == UNION {{a[1], a[2]} : a \in A}
  <2> HIDE DEF A
  <2>1. E = B
    BY <1>1
  <2>2. StatesOf(machine) = {machine.initial} \cup Range(machine.terminals) \cup B
    BY DEF StatesOf, A
  <2> HIDE DEF E, B
  <2> QED BY <1>0, <2>1, <2>2 DEF E
<1>3. /\ \A S : /\ machine.initial \in S /\ \A a \in A : a[1] \in S => a[2] \in S
                => StatesOf(machine) \subseteq S
      /\ \A s \in StatesOf(machine) : s \in Range(machine.terminals) <=> \A a \in A : a[1] # s
      /\ LiteralsIn(env, enum) # NoName => StatesOf(machine) \subseteq LiteralsIn(env, enum)
  BY MachineStates
<1> HIDE DEF states, A
<1>4. ASSUME NEW S \in SUBSET states, m.initial \in S, \A e \in m.events : e.from \in S => e.to \in S
      PROVE  S = states
  <2>1. \A a \in A : a[1] \in S => a[2] \in S
    BY <1>1, <1>4
  <2> QED BY <1>0, <1>2, <1>3, <1>4, <2>1
<1>5. \A s \in states : s \in m.final <=> \A e \in m.events : e.from # s
  <2> TAKE s \in states
  <2>1. (\A e \in m.events : e.from # s) <=> \A a \in A : a[1] # s
    BY <1>1
  <2> QED BY <1>0, <1>2, <1>3, <2>1
<1>6. ASSUME env.union # NoName
      PROVE  \E l \in UNION {Range(p.enums) : p \in Range(env.packages)} : states \subseteq l
  <2>1. env.union = env.packages /\ UniquePackages(env.packages)
    BY <1>6 DEF DesignScope
  <2>2. enum # Unresolved /\ enum.kind = "enum"
    BY DEF SoundMachine
  <2>3. /\ EnumLiterals(env.packages, enum) # NoName
        /\ EnumLiterals(env.packages, enum) \in UNION {Range(p.enums) : p \in Range(env.packages)}
    BY <2>1, <2>2, EnumIsDeclared DEF ResolveType
  <2>4. LiteralsIn(env, enum) = EnumLiterals(env.packages, enum)
    BY <1>6, <2>1 DEF LiteralsIn
  <2> QED BY <1>2, <1>3, <2>3, <2>4
<1> QED BY <1>4, <1>5, <1>6 DEF states, Lively

LEMMA DesignsAccepted == DesignsInv => MachinesAreSound
<1> SUFFICES ASSUME DesignsInv, Accepted("ddd") PROVE MachinesAreSound
  BY DEF MachinesAreSound
<1>1. pc = "done" /\ artifact = st.lowered /\ DesignState(st)
  BY DEF DesignsInv, Accepted
<1>2. DesignScope(st.env) /\ \A x \in Range(artifact) : SoundModule(st.env, x)
  BY <1>1 DEF DesignState
<1>3. ASSUME NEW m \in DesignMachines(artifact) PROVE Lively(st.env, m)
  <2>1. PICK d \in UNION {Range(x.designs) : x \in Range(artifact)} :
          d.machine # NoName /\ Statechart(d.machine, m)
    BY DEF DesignMachines, Statechart
  <2>2. PICK x \in Range(artifact) : d \in Range(x.designs)
    BY <2>1
  <2>3. SoundMachine(st.env, d.machine)
    BY <1>2, <2>1, <2>2 DEF SoundModule
  <2> QED BY <1>2, <2>1, <2>3, MachineFits
<1> QED BY Zenon, <1>3 DEF MachinesAreSound, Lively

(* Whatever designs a file has, the machines of an accepted one are sound:  *)
(* every state is reached, only terminal states are never left, and all are *)
(* literals of one enum where every domain lowered.                        *)
(* (ddd.rs lower_design_machine)                                           *)
THEOREM MachinesAlwaysSound == Spec => []MachinesAreSound
BY DesignsAtFirst, DesignsNext, DesignsAccepted, PTL DEF Spec
=============================================================================
