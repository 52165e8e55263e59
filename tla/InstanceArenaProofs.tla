------------------------ MODULE InstanceArenaProofs ------------------------
(***************************************************************************)
(* The two ends of every opposite pair agree after any sequence of         *)
(* mutators, for every model that validate_opposites accepts and any       *)
(* number of objects.                                                      *)
(*                                                                         *)
(* The invariant is proved per field: a pair mutator replaces the fields   *)
(* of one pair by two functions (PairStep), and all there is to show of it *)
(* is that the new fields are good and agree (PairStepKeepsInv).           *)
(***************************************************************************)
EXTENDS InstanceArena, TLAPS

-----------------------------------------------------------------------------
(* Lists. *)

NoRepeats(seq) == \A i, j \in 1..Len(seq) : seq[i] = seq[j] => i = j

\* What `if !list.contains(&x) { list.push(x) }` leaves in the list.
LEMMA PushContents ==
    ASSUME NEW T, NEW s \in Seq(T), NEW x \in T, NoRepeats(s)
    PROVE  /\ Push(s, x) \in Seq(T)
           /\ NoRepeats(Push(s, x))
           /\ \A y : In(y, Push(s, x)) <=> In(y, s) \/ y = x
<1>1. CASE In(x, s)
  BY <1>1 DEF Push, In
<1>2. CASE ~In(x, s)
  <2>1. Push(s, x) = Append(s, x)
    BY <1>2 DEF Push
  <2>2. /\ Append(s, x) \in Seq(T)
        /\ Len(Append(s, x)) = Len(s) + 1
        /\ \A i \in 1..Len(s) : Append(s, x)[i] = s[i]
        /\ Append(s, x)[Len(s) + 1] = x
    OBVIOUS
  <2>3. NoRepeats(Append(s, x))
    BY <2>2, <1>2 DEF NoRepeats, In
  <2>4. \A y : In(y, Append(s, x)) <=> In(y, s) \/ y = x
    BY <2>2 DEF In
  <2> QED
    BY <2>1, <2>2, <2>3, <2>4
<1> QED
  BY <1>1, <1>2

\* What `list.retain(|id| *id != x)` leaves in a list without repetitions.
LEMMA WithoutContents ==
    ASSUME NEW T, NEW s \in Seq(T), NEW x, NoRepeats(s)
    PROVE  /\ Without(s, x) \in Seq(T)
           /\ NoRepeats(Without(s, x))
           /\ Len(Without(s, x)) <= Len(s)
           /\ \A y : In(y, Without(s, x)) <=> In(y, s) /\ y # x
<1>1. CASE ~In(x, s)
  BY <1>1 DEF Without, In
<1>2. CASE In(x, s)
  <2> DEFINE at == CHOOSE i \in 1..Len(s) : s[i] = x
             t == [i \in 1..(Len(s) - 1) |-> IF i < at THEN s[i] ELSE s[i + 1]]
  <2>1. at \in 1..Len(s) /\ s[at] = x
    BY <1>2 DEF In
  <2>2. Without(s, x) = t
    BY <1>2 DEF Without
  <2> HIDE DEF at
  <2>3. Len(s) \in Nat /\ Len(s) - 1 \in Nat
    BY <2>1
  <2>4. t \in Seq(T) /\ Len(t) = Len(s) - 1
    <3>1. \A i \in 1..(Len(s) - 1) : t[i] \in T
      BY <2>1, <2>3
    <3>2. t \in [1..(Len(s) - 1) -> T]
      BY <3>1
    <3> QED
      BY <2>3, <3>2
  <2>5. NoRepeats(t)
    BY <2>1, <2>3, <2>4 DEF NoRepeats
  <2>6. ASSUME NEW y, In(y, t)
        PROVE  In(y, s) /\ y # x
    <3>1. PICK i \in 1..(Len(s) - 1) : t[i] = y
      BY <2>4, <2>6 DEF In
    <3>2. CASE i < at
      BY <2>1, <2>3, <3>1, <3>2 DEF In, NoRepeats
    <3>3. CASE ~(i < at)
      <4>1. i + 1 \in 1..Len(s) /\ i + 1 # at /\ s[i + 1] = y
        BY <2>1, <2>3, <3>1, <3>3
      <4> QED
        BY <2>1, <4>1 DEF In, NoRepeats
    <3> QED
      BY <3>2, <3>3
  <2>7. ASSUME NEW y, In(y, s), y # x
        PROVE  In(y, t)
    <3>1. PICK i \in 1..Len(s) : s[i] = y
      BY <2>7 DEF In
    <3>2. i # at
      BY <2>1, <2>7, <3>1
    <3>3. CASE i < at
      <4>1. i \in 1..(Len(s) - 1) /\ t[i] = y
        BY <2>1, <2>3, <3>1, <3>3
      <4> QED
        BY <2>4, <4>1 DEF In
    <3>4. CASE i > at
      <4>1. i - 1 \in 1..(Len(s) - 1) /\ t[i - 1] = y
        BY <2>1, <2>3, <3>1, <3>4
      <4> QED
        BY <2>4, <4>1 DEF In
    <3> QED
      BY <2>1, <3>1, <3>2, <3>3, <3>4
  <2> QED
    BY <2>2, <2>3, <2>4, <2>5, <2>6, <2>7
<1> QED
  BY <1>1, <1>2

\* Option<Id>: a list of at most one id.
LEMMA SingleContents ==
    ASSUME NEW T, NEW s \in Seq(T), Len(s) <= 1
    PROVE  \A x : In(x, s) <=> s = <<x>>
<1> SUFFICES ASSUME NEW x PROVE In(x, s) <=> s = <<x>>
  OBVIOUS
<1>0. Len(s) \in Nat /\ s = [i \in 1..Len(s) |-> s[i]]
  OBVIOUS
<1>1. Len(s) = 0 \/ Len(s) = 1
  BY <1>0
<1>2. CASE Len(s) = 0
  BY <1>2 DEF In
<1>3. CASE Len(s) = 1
  <2>1. In(x, s) => s[1] = x
    BY <1>3 DEF In
  <2>2. s[1] = x => s = <<x>>
    BY <1>3
  <2>3. s = <<x>> => In(x, s)
    BY DEF In
  <2> QED
    BY <2>1, <2>2, <2>3
<1> QED
  BY <1>1, <1>2, <1>3

-----------------------------------------------------------------------------
(* Fields. *)

Inv == TypeOK /\ NoDuplicates /\ OppositesAgree

\* What a list of feature h may be on the object a.
GoodList(h, a, s) ==
    /\ s \in Seq(Ids(Target(h)))
    /\ NoRepeats(s)
    /\ \A y : In(y, s) => Live(y)
    /\ ~Live(a) => s = <<>>
    /\ ~Many(h) => Len(s) <= 1

GoodField(h, fn) ==
    /\ fn \in [Ids(Class(h)) -> Seq(Ids(Target(h)))]
    /\ \A a \in Ids(Class(h)) : GoodList(h, a, fn[a])

\* The functions ff and gg agree as the two ends of the pair of f.
Agree(f, ff, gg) ==
    \A a \in Ids(Class(f)), b \in Ids(Target(f)) : In(b, ff[a]) <=> In(a, gg[b])

\* A step that at most replaces the fields of f and of its opposite.
PairStep(f, ff, gg) ==
    /\ UNCHANGED <<schema, count, attr>>
    /\ DOMAIN field' = Features
    /\ field'[f] = ff
    /\ field'[Opposite(f)] = gg
    /\ \A h \in Features \ {f, Opposite(f)} : field'[h] = field[h]

\* What ArenaAssumption says of the run's schema.
LEMMA SchemaFacts ==
    ASSUME schema \in Schemas
    PROVE  /\ NoOpposite \notin Features
           /\ \A class \in Classes : Most(class) \in Nat
           /\ \A f \in Features :
                 /\ Class(f) \in Classes /\ Target(f) \in Classes
                 /\ Many(f) \in BOOLEAN
                 /\ Paired(f) =>
                       /\ Opposite(f) \in Features
                       /\ Opposite(f) # f
                       /\ Opposite(Opposite(f)) = f
                       /\ Paired(Opposite(f))
                       /\ Class(Opposite(f)) = Target(f)
                       /\ Target(Opposite(f)) = Class(f)
<1>1. ValidSchema(schema)
  BY ArenaAssumption
<1>2. NoOpposite \notin Features
  BY <1>1 DEF ValidSchema, Features
<1>3. \A class \in Classes : Most(class) \in Nat
  BY <1>1 DEF ValidSchema, Classes, Most
<1>4. ASSUME NEW f \in Features
      PROVE  /\ Class(f) \in Classes /\ Target(f) \in Classes
             /\ ValidFeature(schema, f)
  BY <1>1, <1>4 DEF ValidSchema, Features, Classes, Class, Target
<1>5. ASSUME NEW f \in Features
      PROVE  Many(f) \in BOOLEAN
  BY <1>4 DEF ValidFeature, Many
<1>6. ASSUME NEW f \in Features, Paired(f)
      PROVE  /\ Opposite(f) \in Features
             /\ Opposite(f) # f
             /\ Opposite(Opposite(f)) = f
             /\ Paired(Opposite(f))
             /\ Class(Opposite(f)) = Target(f)
             /\ Target(Opposite(f)) = Class(f)
  BY <1>2, <1>4, <1>6 DEF ValidFeature, Features, Class, Target, Opposite, Paired
<1> QED
  BY <1>2, <1>3, <1>4, <1>5, <1>6

\* The invariant says that every field is good and every pair agrees.
LEMMA InvGivesParts ==
    ASSUME Inv
    PROVE  /\ schema \in Schemas
           /\ \A f \in Features : GoodField(f, field[f])
           /\ \A f \in Features : Paired(f) => Agree(f, field[f], field[Opposite(f)])
<1>1. schema \in Schemas
  BY DEF Inv, TypeOK
<1>2. ASSUME NEW f \in Features
      PROVE  GoodField(f, field[f])
  <2>1. field[f] \in [Ids(Class(f)) -> Seq(Ids(Target(f)))]
    BY DEF Inv, TypeOK
  <2>2. ASSUME NEW a \in Ids(Class(f))
        PROVE  GoodList(f, a, field[f][a])
    <3>1. /\ \A i \in 1..Len(field[f][a]) : Live(field[f][a][i])
          /\ ~Live(a) => field[f][a] = <<>>
          /\ ~Many(f) => Len(field[f][a]) <= 1
      BY DEF Inv, TypeOK
    <3>2. NoRepeats(field[f][a])
      BY DEF Inv, NoDuplicates, NoRepeats
    <3>3. field[f][a] \in Seq(Ids(Target(f)))
      BY <2>1
    <3> QED
      BY <3>1, <3>2, <3>3 DEF GoodList, In
  <2> QED
    BY <2>1, <2>2 DEF GoodField
<1>3. ASSUME NEW f \in Features, Paired(f)
      PROVE  Agree(f, field[f], field[Opposite(f)])
  BY <1>3 DEF Inv, OppositesAgree, Agree
<1> QED
  BY <1>1, <1>2, <1>3

\* The converse, for a step that creates no object.
LEMMA PartsGiveInv ==
    ASSUME Inv, UNCHANGED <<schema, count>>, attr' \in [AllIds -> Seq(Values)],
           DOMAIN field' = Features,
           \A f \in Features : GoodField(f, field'[f]),
           \A f \in Features : Paired(f) => Agree(f, field'[f], field'[Opposite(f)])
    PROVE  Inv'
<1>1. TypeOK'
  <2>1. ASSUME NEW f \in Features, NEW a \in Ids(Class(f))
        PROVE  /\ \A i \in 1..Len(field'[f][a]) : Live(field'[f][a][i])
               /\ ~Live(a) => field'[f][a] = <<>>
               /\ ~Many(f) => Len(field'[f][a]) <= 1
    BY DEF GoodField, GoodList, In
  <2>2. \A f \in Features : field'[f] \in [Ids(Class(f)) -> Seq(Ids(Target(f)))]
    BY DEF GoodField
  <2>3. TypeOK
    BY DEF Inv
  <2>4. /\ (schema \in Schemas)'
        /\ (count \in [Classes -> Nat])'
        /\ (\A class \in Classes : count[class] <= Most(class))'
        /\ (attr \in [AllIds -> Seq(Values)])'
    BY <2>3 DEF TypeOK, Classes, Most, AllIds, Ids
  <2>5. Features' = Features /\ \A f : Ids(Class(f))' = Ids(Class(f))
    BY DEF Features, Ids, Class, Most
  <2>6. ASSUME NEW f \in Features
        PROVE  (field[f] \in [Ids(Class(f)) -> Seq(Ids(Target(f)))])'
    BY <2>2 DEF Ids, Class, Target, Most
  <2>7. ASSUME NEW f \in Features, NEW a \in Ids(Class(f))
        PROVE  (/\ \A i \in 1..Len(field[f][a]) : Live(field[f][a][i])
                /\ ~Live(a) => field[f][a] = <<>>
                /\ ~Many(f) => Len(field[f][a]) <= 1)'
    BY <2>1 DEF Live, Many
  <2>8. (DOMAIN field = Features)'
    BY <2>5
  <2> QED
    BY <2>4, <2>5, <2>6, <2>7, <2>8 DEF TypeOK
<1>2. NoDuplicates'
  <2>1. \A f \in Features : \A a \in Ids(Class(f)) : NoRepeats(field'[f][a])
    BY DEF GoodField, GoodList
  <2> QED
    BY <2>1 DEF NoDuplicates, NoRepeats, Features, Ids, Class, Most
<1>3. OppositesAgree'
  <2>1. \A f \in Features : Paired(f) =>
            \A a \in Ids(Class(f)), b \in Ids(Target(f)) :
                In(b, field'[f][a]) <=> In(a, field'[Opposite(f)][b])
    BY DEF Agree
  <2>2. /\ Features' = Features
        /\ \A f : /\ Ids(Class(f))' = Ids(Class(f))
                  /\ Ids(Target(f))' = Ids(Target(f))
                  /\ Paired(f)' = Paired(f)
                  /\ Opposite(f)' = Opposite(f)
    BY DEF Features, Ids, Class, Target, Most, Paired, Opposite
  <2> QED
    BY <2>1, <2>2 DEF OppositesAgree
<1> QED
  BY <1>1, <1>2, <1>3 DEF Inv

\* A mutator of a pair keeps the invariant when the two fields it leaves are
\* good and agree.
LEMMA PairStepKeepsInv ==
    ASSUME Inv, NEW f \in Features, Paired(f), NEW ff, NEW gg,
           PairStep(f, ff, gg),
           GoodField(f, ff), GoodField(Opposite(f), gg), Agree(f, ff, gg)
    PROVE  Inv'
<1> USE InvGivesParts, SchemaFacts
<1>1. \A h \in Features : GoodField(h, field'[h])
  BY DEF PairStep
<1>2. ASSUME NEW h \in Features, Paired(h)
      PROVE  Agree(h, field'[h], field'[Opposite(h)])
  <2>1. CASE h = f
    BY <2>1 DEF PairStep
  <2>2. CASE h = Opposite(f)
    <3>1. Opposite(h) = f /\ Class(h) = Target(f) /\ Target(h) = Class(f)
      BY <2>2
    <3> QED
      BY <2>2, <3>1 DEF PairStep, Agree
  <2>3. CASE h \notin {f, Opposite(f)}
    <3>1. Opposite(h) \in Features \ {f, Opposite(f)}
      BY <1>2, <2>3
    <3>2. field'[h] = field[h] /\ field'[Opposite(h)] = field[Opposite(h)]
      BY <2>3, <3>1 DEF PairStep
    <3> QED
      BY <1>2, <3>2
  <2> QED
    BY <2>1, <2>2, <2>3
<1>3. /\ DOMAIN field' = Features
      /\ UNCHANGED <<schema, count>>
      /\ attr' \in [AllIds -> Seq(Values)]
  BY DEF PairStep, Inv, TypeOK
<1> QED
  BY <1>1, <1>2, <1>3, PartsGiveInv

\* Pushing a live id to a many-valued list, and removing any id from a list.
LEMMA PushGood ==
    ASSUME NEW h \in Features, NEW a, NEW s, GoodList(h, a, s),
           NEW y \in Ids(Target(h)), Live(a), Live(y), Many(h)
    PROVE  /\ GoodList(h, a, Push(s, y))
           /\ \A x : In(x, Push(s, y)) <=> In(x, s) \/ x = y
BY PushContents DEF GoodList

LEMMA WithoutGood ==
    ASSUME NEW h \in Features, NEW a, NEW s, GoodList(h, a, s), NEW y
    PROVE  /\ GoodList(h, a, Without(s, y))
           /\ \A x : In(x, Without(s, y)) <=> In(x, s) /\ x # y
<1>1. /\ Without(s, y) \in Seq(Ids(Target(h)))
      /\ NoRepeats(Without(s, y))
      /\ Len(Without(s, y)) <= Len(s)
      /\ \A x : In(x, Without(s, y)) <=> In(x, s) /\ x # y
  BY WithoutContents DEF GoodList
<1>2. s = <<>> => Without(s, y) = <<>>
  BY DEF Without, In
<1>3. Len(s) \in Nat /\ Len(Without(s, y)) \in Nat
  BY <1>1 DEF GoodList
<1> QED
  BY <1>1, <1>2, <1>3 DEF GoodList

\* A list of at most one live id is good on a live object.
LEMMA OptionGood ==
    ASSUME NEW h \in Features, NEW a, Live(a), NEW value \in Options(Target(h)),
           \A i \in 1..Len(value) : Live(value[i])
    PROVE  /\ GoodList(h, a, value)
           /\ Len(value) <= 1
           /\ \A x : In(x, value) <=> value = <<x>>
<1>1. CASE value = <<>>
  BY <1>1 DEF GoodList, NoRepeats, In
<1>2. ASSUME NEW id \in Ids(Target(h)), value = <<id>>
      PROVE  /\ GoodList(h, a, value)
             /\ Len(value) <= 1
             /\ \A x : In(x, value) <=> value = <<x>>
  <2>1. Len(value) = 1 /\ value[1] = id /\ value \in Seq(Ids(Target(h)))
    BY <1>2
  <2>2. \A x : In(x, value) <=> x = id
    BY <2>1 DEF In
  <2>3. Live(id)
    BY <2>1
  <2> QED
    BY <1>2, <2>1, <2>2, <2>3 DEF GoodList, NoRepeats
<1> QED
  BY <1>1, <1>2 DEF Options

\* A single field holds at most one id.
LEMMA SingleField ==
    ASSUME NEW h \in Features, NEW a, NEW s, GoodList(h, a, s), ~Many(h)
    PROVE  \A x : In(x, s) <=> s = <<x>>
BY SingleContents DEF GoodList

-----------------------------------------------------------------------------
(* The mutators. *)

\* AddMany and RemoveMany: both ends are many.
LEMMA AddManyKeepsInv ==
    ASSUME Inv, NEW f \in Features, NEW a \in Ids(Class(f)), NEW b \in Ids(Target(f)),
           AddMany(f, a, b)
    PROVE  Inv'
<1> DEFINE g == Opposite(f)
           ff == [field[f] EXCEPT ![a] = Push(field[f][a], b)]
           gg == [field[g] EXCEPT ![b] = Push(field[g][b], a)]
<1>1. /\ g \in Features /\ g # f /\ Paired(f)
      /\ Class(g) = Target(f) /\ Target(g) = Class(f)
      /\ Many(f) /\ Many(g)
      /\ Live(a) /\ Live(b)
  BY InvGivesParts, SchemaFacts DEF AddMany, PairMutator
<1>2. GoodField(f, field[f]) /\ GoodField(g, field[g]) /\ Agree(f, field[f], field[g])
  BY <1>1, InvGivesParts
<1>3. /\ GoodList(f, a, Push(field[f][a], b))
      /\ \A x : In(x, Push(field[f][a], b)) <=> In(x, field[f][a]) \/ x = b
  BY <1>1, <1>2, PushGood DEF GoodField
<1>4. /\ GoodList(g, b, Push(field[g][b], a))
      /\ \A x : In(x, Push(field[g][b], a)) <=> In(x, field[g][b]) \/ x = a
  BY <1>1, <1>2, PushGood DEF GoodField
<1>5. GoodField(f, ff)
  BY <1>2, <1>3 DEF GoodField, GoodList
<1>6. GoodField(g, gg)
  BY <1>1, <1>2, <1>4 DEF GoodField, GoodList
<1>7. Agree(f, ff, gg)
  BY <1>1, <1>2, <1>3, <1>4 DEF Agree, GoodField
<1>8. PairStep(f, ff, gg)
  BY <1>1, InvGivesParts DEF AddMany, PairMutator, PairStep, Inv, TypeOK
<1> QED
  BY <1>1, <1>5, <1>6, <1>7, <1>8, PairStepKeepsInv

LEMMA RemoveManyKeepsInv ==
    ASSUME Inv, NEW f \in Features, NEW a \in Ids(Class(f)), NEW b \in Ids(Target(f)),
           RemoveMany(f, a, b)
    PROVE  Inv'
<1> DEFINE g == Opposite(f)
           ff == [field[f] EXCEPT ![a] = Without(field[f][a], b)]
           gg == [field[g] EXCEPT ![b] = Without(field[g][b], a)]
<1>1. /\ g \in Features /\ g # f /\ Paired(f)
      /\ Class(g) = Target(f) /\ Target(g) = Class(f)
  BY InvGivesParts, SchemaFacts DEF RemoveMany, PairMutator
<1>2. GoodField(f, field[f]) /\ GoodField(g, field[g]) /\ Agree(f, field[f], field[g])
  BY <1>1, InvGivesParts
<1>3. /\ GoodList(f, a, Without(field[f][a], b))
      /\ \A x : In(x, Without(field[f][a], b)) <=> In(x, field[f][a]) /\ x # b
  BY <1>1, <1>2, WithoutGood DEF GoodField
<1>4. /\ GoodList(g, b, Without(field[g][b], a))
      /\ \A x : In(x, Without(field[g][b], a)) <=> In(x, field[g][b]) /\ x # a
  BY <1>1, <1>2, WithoutGood DEF GoodField
<1>5. GoodField(f, ff)
  BY <1>2, <1>3 DEF GoodField, GoodList
<1>6. GoodField(g, gg)
  BY <1>1, <1>2, <1>4 DEF GoodField, GoodList
<1>7. Agree(f, ff, gg)
  BY <1>1, <1>2, <1>3, <1>4 DEF Agree, GoodField
<1>8. PairStep(f, ff, gg)
  BY <1>1, InvGivesParts DEF RemoveMany, PairMutator, PairStep, Inv, TypeOK
<1> QED
  BY <1>1, <1>5, <1>6, <1>7, <1>8, PairStepKeepsInv

\* SetSingle: the previous holder loses a, the new one gains it.
LEMMA SetSingleKeepsInv ==
    ASSUME Inv, NEW f \in Features, NEW a \in Ids(Class(f)),
           NEW value \in Options(Target(f)), SetSingle(f, a, value)
    PROVE  Inv'
<1> DEFINE g == Opposite(f)
           ff == [field[f] EXCEPT ![a] = value]
           gg == [b \in DOMAIN field[g] |->
                     IF In(b, field[f][a]) THEN Without(field[g][b], a)
                     ELSE IF In(b, value) THEN Push(field[g][b], a)
                     ELSE field[g][b]]
<1>1. /\ g \in Features /\ g # f /\ Paired(f)
      /\ Class(g) = Target(f) /\ Target(g) = Class(f)
      /\ ~Many(f) /\ Many(g)
      /\ Live(a) /\ \A i \in 1..Len(value) : Live(value[i])
      /\ field[f][a] # value
  BY InvGivesParts, SchemaFacts DEF SetSingle, PairMutator
<1>2. GoodField(f, field[f]) /\ GoodField(g, field[g]) /\ Agree(f, field[f], field[g])
  BY <1>1, InvGivesParts
<1>3. GoodList(f, a, value) /\ \A x : In(x, value) <=> value = <<x>>
  BY <1>1, OptionGood
<1>4. \A x : In(x, field[f][a]) <=> field[f][a] = <<x>>
  BY <1>1, <1>2, SingleField DEF GoodField
<1>5. GoodField(f, ff)
  BY <1>2, <1>3 DEF GoodField, GoodList
<1>6. ASSUME NEW b \in Ids(Class(g))
      PROVE  /\ GoodList(g, b, gg[b])
             /\ \A x : In(x, gg[b]) <=> IF In(b, field[f][a]) THEN In(x, field[g][b]) /\ x # a
                                        ELSE IF In(b, value) THEN In(x, field[g][b]) \/ x = a
                                        ELSE In(x, field[g][b])
  <2>1. DOMAIN field[g] = Ids(Class(g)) /\ GoodList(g, b, field[g][b])
    BY <1>2 DEF GoodField
  <2>2. CASE In(b, field[f][a])
    BY <1>1, <2>1, <2>2, WithoutGood
  <2>3. CASE ~In(b, field[f][a]) /\ In(b, value)
    <3>1. Live(b)
      BY <1>3, <2>3 DEF GoodList
    <3> QED
      BY <1>1, <2>1, <2>3, <3>1, PushGood
  <2>4. CASE ~In(b, field[f][a]) /\ ~In(b, value)
    BY <2>1, <2>4
  <2> QED
    BY <2>2, <2>3, <2>4
<1>7. GoodField(g, gg)
  BY <1>2, <1>6 DEF GoodField, GoodList
<1>8. Agree(f, ff, gg)
  <2>1. ASSUME NEW x \in Ids(Class(f)), NEW b \in Ids(Target(f))
        PROVE  In(b, ff[x]) <=> In(x, gg[b])
    <3>1. In(b, field[f][x]) <=> In(x, field[g][b])
      BY <1>2 DEF Agree
    <3>2. CASE x = a
      BY <1>1, <1>2, <1>3, <1>4, <1>6, <3>1, <3>2 DEF GoodField
    <3>3. CASE x # a
      BY <1>1, <1>2, <1>6, <3>1, <3>3 DEF GoodField
    <3> QED
      BY <3>2, <3>3
  <2> QED
    BY <2>1 DEF Agree
<1>9. PairStep(f, ff, gg)
  BY <1>1, InvGivesParts DEF SetSingle, PairMutator, PairStep, Inv, TypeOK
<1> QED
  BY <1>1, <1>5, <1>7, <1>8, <1>9, PairStepKeepsInv

\* AddToSingle: the list that held b loses it, a's list gains it.
LEMMA AddToSingleKeepsInv ==
    ASSUME Inv, NEW f \in Features, NEW a \in Ids(Class(f)), NEW b \in Ids(Target(f)),
           AddToSingle(f, a, b)
    PROVE  Inv'
<1> DEFINE g == Opposite(f)
           ff == [x \in DOMAIN field[f] |->
                     IF In(x, field[g][b]) THEN Without(field[f][x], b)
                     ELSE IF x = a THEN Push(field[f][x], b)
                     ELSE field[f][x]]
           gg == [field[g] EXCEPT ![b] = <<a>>]
<1>1. /\ g \in Features /\ g # f /\ Paired(f)
      /\ Class(g) = Target(f) /\ Target(g) = Class(f)
      /\ Many(f) /\ ~Many(g)
      /\ Live(a) /\ Live(b)
      /\ field[g][b] # <<a>>
  BY InvGivesParts, SchemaFacts DEF AddToSingle, PairMutator
<1>2. GoodField(f, field[f]) /\ GoodField(g, field[g]) /\ Agree(f, field[f], field[g])
  BY <1>1, InvGivesParts
<1>3. GoodList(g, b, <<a>>) /\ \A x : In(x, <<a>>) <=> x = a
  <2>1. <<a>> \in Options(Target(g)) /\ \A i \in 1..Len(<<a>>) : Live(<<a>>[i])
    BY <1>1 DEF Options
  <2>2. \A x : <<a>> = <<x>> <=> x = a
    OBVIOUS
  <2> QED
    BY <1>1, <2>1, <2>2, OptionGood
<1>4. \A x : In(x, field[g][b]) <=> field[g][b] = <<x>>
  BY <1>1, <1>2, SingleField DEF GoodField
<1>5. GoodField(g, gg)
  BY <1>1, <1>2, <1>3 DEF GoodField, GoodList
<1>6. ASSUME NEW x \in Ids(Class(f))
      PROVE  /\ GoodList(f, x, ff[x])
             /\ \A y : In(y, ff[x]) <=> IF In(x, field[g][b]) THEN In(y, field[f][x]) /\ y # b
                                        ELSE IF x = a THEN In(y, field[f][x]) \/ y = b
                                        ELSE In(y, field[f][x])
  <2>1. DOMAIN field[f] = Ids(Class(f)) /\ GoodList(f, x, field[f][x])
    BY <1>2 DEF GoodField
  <2>2. CASE In(x, field[g][b])
    BY <1>1, <2>1, <2>2, WithoutGood
  <2>3. CASE ~In(x, field[g][b]) /\ x = a
    BY <1>1, <2>1, <2>3, PushGood
  <2>4. CASE ~In(x, field[g][b]) /\ x # a
    BY <2>1, <2>4
  <2> QED
    BY <2>2, <2>3, <2>4
<1>7. GoodField(f, ff)
  BY <1>2, <1>6 DEF GoodField, GoodList
<1>8. Agree(f, ff, gg)
  <2>1. ASSUME NEW x \in Ids(Class(f)), NEW y \in Ids(Target(f))
        PROVE  In(y, ff[x]) <=> In(x, gg[y])
    <3>1. In(y, field[f][x]) <=> In(x, field[g][y])
      BY <1>2 DEF Agree
    <3>2. CASE y = b
      BY <1>1, <1>2, <1>3, <1>4, <1>6, <3>1, <3>2 DEF GoodField
    <3>3. CASE y # b
      BY <1>1, <1>2, <1>6, <3>1, <3>3 DEF GoodField
    <3> QED
      BY <3>2, <3>3
  <2> QED
    BY <2>1 DEF Agree
<1>9. PairStep(f, ff, gg)
  BY <1>1, InvGivesParts DEF AddToSingle, PairMutator, PairStep, Inv, TypeOK
<1> QED
  BY <1>1, <1>5, <1>7, <1>8, <1>9, PairStepKeepsInv

LEMMA RemoveToSingleKeepsInv ==
    ASSUME Inv, NEW f \in Features, NEW a \in Ids(Class(f)), NEW b \in Ids(Target(f)),
           RemoveToSingle(f, a, b)
    PROVE  Inv'
<1> DEFINE g == Opposite(f)
           ff == [field[f] EXCEPT ![a] = Without(field[f][a], b)]
           gg == [field[g] EXCEPT ![b] = IF field[g][b] = <<a>> THEN <<>> ELSE field[g][b]]
<1>1. /\ g \in Features /\ g # f /\ Paired(f)
      /\ Class(g) = Target(f) /\ Target(g) = Class(f)
      /\ ~Many(g)
  BY InvGivesParts, SchemaFacts DEF RemoveToSingle, PairMutator
<1>2. GoodField(f, field[f]) /\ GoodField(g, field[g]) /\ Agree(f, field[f], field[g])
  BY <1>1, InvGivesParts
<1>3. /\ GoodList(f, a, Without(field[f][a], b))
      /\ \A x : In(x, Without(field[f][a], b)) <=> In(x, field[f][a]) /\ x # b
  BY <1>1, <1>2, WithoutGood DEF GoodField
<1>4. \A x : In(x, field[g][b]) <=> field[g][b] = <<x>>
  BY <1>1, <1>2, SingleField DEF GoodField
<1>5. GoodField(f, ff)
  BY <1>2, <1>3 DEF GoodField, GoodList
<1>6. \A x : ~In(x, <<>>)
  BY DEF In
<1>7. GoodField(g, gg)
  BY <1>1, <1>2, <1>6 DEF GoodField, GoodList, NoRepeats
<1>8. Agree(f, ff, gg)
  <2>1. ASSUME NEW x \in Ids(Class(f)), NEW y \in Ids(Target(f))
        PROVE  In(y, ff[x]) <=> In(x, gg[y])
    <3>1. In(y, field[f][x]) <=> In(x, field[g][y])
      BY <1>2 DEF Agree
    <3>2. CASE y = b /\ field[g][b] = <<a>>
      BY <1>1, <1>2, <1>3, <1>4, <1>6, <3>1, <3>2 DEF GoodField
    <3>3. CASE ~(y = b /\ field[g][b] = <<a>>)
      BY <1>1, <1>2, <1>3, <1>4, <3>1, <3>3 DEF GoodField
    <3> QED
      BY <3>2, <3>3
  <2> QED
    BY <2>1 DEF Agree
<1>9. PairStep(f, ff, gg)
  BY <1>1, InvGivesParts DEF RemoveToSingle, PairMutator, PairStep, Inv, TypeOK
<1> QED
  BY <1>1, <1>5, <1>7, <1>8, <1>9, PairStepKeepsInv

\* SetSingleSingle: the old partners of both objects lose them.
LEMMA SetSingleSingleKeepsInv ==
    ASSUME Inv, NEW f \in Features, NEW a \in Ids(Class(f)),
           NEW value \in Options(Target(f)), SetSingleSingle(f, a, value)
    PROVE  Inv'
<1> DEFINE g == Opposite(f)
           taken(x) == \E i \in 1..Len(value) : In(x, field[g][value[i]])
           ff == [x \in DOMAIN field[f] |->
                     IF x = a THEN value
                     ELSE IF taken(x) THEN <<>>
                     ELSE field[f][x]]
           gg == [b \in DOMAIN field[g] |->
                     IF In(b, value) THEN <<a>>
                     ELSE IF In(b, field[f][a]) /\ field[g][b] = <<a>> THEN <<>>
                     ELSE field[g][b]]
<1>1. /\ g \in Features /\ g # f /\ Paired(f)
      /\ Class(g) = Target(f) /\ Target(g) = Class(f)
      /\ ~Many(f) /\ ~Many(g)
      /\ Live(a) /\ \A i \in 1..Len(value) : Live(value[i])
  BY InvGivesParts, SchemaFacts DEF SetSingleSingle, PairMutator
<1>2. GoodField(f, field[f]) /\ GoodField(g, field[g]) /\ Agree(f, field[f], field[g])
  BY <1>1, InvGivesParts
<1>3. GoodList(f, a, value) /\ \A x : In(x, value) <=> value = <<x>>
  BY <1>1, OptionGood
<1>4. \A x \in Ids(Class(f)) : \A y : In(y, field[f][x]) <=> field[f][x] = <<y>>
  BY <1>1, <1>2, SingleField DEF GoodField
<1>5. \A b \in Ids(Class(g)) : \A y : In(y, field[g][b]) <=> field[g][b] = <<y>>
  BY <1>1, <1>2, SingleField DEF GoodField
<1>6. \A x : ~In(x, <<>>)
  BY DEF In
<1>7. \A x : In(x, <<a>>) <=> x = a
  BY DEF In
<1>8. \A x : taken(x) <=> \E b : In(b, value) /\ In(x, field[g][b])
  BY DEF In
<1>9. \A b : In(b, value) => Live(b) /\ b \in Ids(Class(g))
  BY <1>1, <1>3 DEF Options, GoodList
<1> HIDE DEF taken
<1>10. GoodField(f, ff)
  BY <1>2, <1>3, <1>6 DEF GoodField, GoodList, NoRepeats
<1>11. GoodField(g, gg)
  <2>1. ASSUME NEW b \in Ids(Class(g)), In(b, value)
        PROVE  GoodList(g, b, <<a>>)
    <3>1. <<a>> \in Options(Target(g)) /\ \A i \in 1..Len(<<a>>) : Live(<<a>>[i])
      BY <1>1 DEF Options
    <3> QED
      BY <1>1, <1>9, <2>1, <3>1, OptionGood
  <2>2. \A b \in Ids(Class(g)) : GoodList(g, b, <<>>)
    BY <1>6 DEF GoodList, NoRepeats
  <2> QED
    BY <1>2, <2>1, <2>2 DEF GoodField, GoodList
<1>12. Agree(f, ff, gg)
  <2>1. ASSUME NEW x \in Ids(Class(f)), NEW y \in Ids(Target(f))
        PROVE  In(y, ff[x]) <=> In(x, gg[y])
    <3>1. In(y, field[f][x]) <=> In(x, field[g][y])
      BY <1>2 DEF Agree
    <3>2. /\ ff[x] = IF x = a THEN value ELSE IF taken(x) THEN <<>> ELSE field[f][x]
          /\ gg[y] = IF In(y, value) THEN <<a>>
                     ELSE IF In(y, field[f][a]) /\ field[g][y] = <<a>> THEN <<>>
                     ELSE field[g][y]
      BY <1>1, <1>2 DEF GoodField
    <3>3. CASE x = a
      <4>1. CASE In(y, value)
        BY <1>7, <3>2, <3>3, <4>1
      <4>2. CASE ~In(y, value)
        <5>1. ff[x] = value
          BY <3>2, <3>3
        <5>2. ~In(x, gg[y])
          BY <1>1, <1>5, <1>6, <3>1, <3>2, <3>3, <4>2
        <5> QED
          BY <4>2, <5>1, <5>2
      <4> QED
        BY <4>1, <4>2
    <3>4. CASE x # a /\ taken(x)
      <4>1. PICK b : In(b, value) /\ In(x, field[g][b])
        BY <1>8, <3>4
      <4>2. ~In(y, ff[x])
        BY <1>6, <3>2, <3>4
      <4>3. CASE y = b
        BY <1>7, <3>2, <3>4, <4>1, <4>2, <4>3
      <4>4. CASE y # b
        <5>1. b \in Ids(Target(f)) /\ In(b, field[f][x])
          BY <1>1, <1>2, <1>9, <4>1 DEF Agree
        <5>2. field[f][x] = <<b>> /\ <<b>> # <<y>>
          BY <1>4, <4>4, <5>1
        <5>3. ~In(y, field[f][x])
          BY <1>4, <5>2
        <5>4. ~In(x, field[g][y])
          BY <3>1, <5>3
        <5>5. ~In(x, gg[y])
          BY <1>6, <1>7, <3>2, <3>4, <5>4
        <5> QED
          BY <4>2, <5>5
      <4> QED
        BY <4>3, <4>4
    <3>5. CASE x # a /\ ~taken(x)
      <4>1. ff[x] = field[f][x]
        BY <3>2, <3>5
      <4>2. CASE In(y, value)
        BY <1>7, <1>8, <3>1, <3>2, <3>5, <4>1, <4>2
      <4>3. CASE ~In(y, value) /\ In(y, field[f][a]) /\ field[g][y] = <<a>>
        <5>1. ~In(x, field[g][y])
          BY <1>7, <3>5, <4>3
        <5> QED
          BY <1>6, <3>1, <3>2, <4>1, <4>3, <5>1
      <4>4. CASE ~In(y, value) /\ ~(In(y, field[f][a]) /\ field[g][y] = <<a>>)
        BY <3>1, <3>2, <4>1, <4>4
      <4> QED
        BY <4>2, <4>3, <4>4
    <3> QED
      BY <3>3, <3>4, <3>5
  <2> QED
    BY <2>1 DEF Agree
<1>13. PairStep(f, ff, gg)
  BY <1>1, InvGivesParts DEF SetSingleSingle, PairMutator, PairStep, Inv, TypeOK, taken
<1> QED
  BY <1>1, <1>10, <1>11, <1>12, <1>13, PairStepKeepsInv

\* A one-sided feature is nobody's opposite: only its own field changes.
LEMMA OneSidedStepKeepsInv ==
    ASSUME Inv, NEW f \in Features, ~Paired(f), NEW a \in Ids(Class(f)), NEW list,
           UNCHANGED <<schema, count, attr>>,
           field' = [field EXCEPT ![f][a] = list],
           GoodList(f, a, list)
    PROVE  Inv'
<1>1. DOMAIN field' = Features /\ attr' \in [AllIds -> Seq(Values)]
  BY DEF Inv, TypeOK
<1>2. ASSUME NEW h \in Features
      PROVE  GoodField(h, field'[h])
  <2>1. GoodField(h, field[h])
    BY InvGivesParts
  <2>2. CASE h = f
    <3>1. field'[f] = [field[f] EXCEPT ![a] = list]
      BY DEF Inv, TypeOK
    <3> QED
      BY <2>1, <2>2, <3>1 DEF GoodField, GoodList
  <2>3. CASE h # f
    BY <2>1, <2>3 DEF Inv, TypeOK
  <2> QED
    BY <2>2, <2>3
<1>3. ASSUME NEW h \in Features, Paired(h)
      PROVE  Agree(h, field'[h], field'[Opposite(h)])
  <2>1. h # f /\ Opposite(h) # f /\ Opposite(h) \in Features
    BY <1>3, InvGivesParts, SchemaFacts
  <2>2. field'[h] = field[h] /\ field'[Opposite(h)] = field[Opposite(h)]
    BY <2>1 DEF Inv, TypeOK
  <2> QED
    BY <1>3, <2>2, InvGivesParts
<1> QED
  BY <1>1, <1>2, <1>3, PartsGiveInv

LEMMA OneSidedKeepsInv ==
    ASSUME Inv, NEW f \in Features, NEW a \in Ids(Class(f)), NEW b \in Ids(Target(f)),
           AddOneSided(f, a, b) \/ RemoveOneSided(f, a, b)
    PROVE  Inv'
<1>1. ~Paired(f) /\ Kind(f) = "contains" /\ UNCHANGED <<schema, count, attr>>
  BY DEF AddOneSided, RemoveOneSided, OneSided
<1>2. Many(f)
  BY <1>1, InvGivesParts, ArenaAssumption
  DEF ValidSchema, ValidFeature, Features, Kind, Opposite, Paired, Many
<1>3. GoodList(f, a, field[f][a])
  BY InvGivesParts DEF GoodField
<1>4. CASE AddOneSided(f, a, b)
  <2>1. GoodList(f, a, Push(field[f][a], b))
    BY <1>2, <1>3, <1>4, PushGood DEF AddOneSided
  <2>2. field' = [field EXCEPT ![f][a] = Push(field[f][a], b)]
    BY <1>4 DEF AddOneSided
  <2> QED
    BY <1>1, <2>1, <2>2, OneSidedStepKeepsInv
<1>5. CASE RemoveOneSided(f, a, b)
  <2>1. GoodList(f, a, Without(field[f][a], b))
    BY <1>3, WithoutGood
  <2>2. field' = [field EXCEPT ![f][a] = Without(field[f][a], b)]
    BY <1>5 DEF RemoveOneSided
  <2> QED
    BY <1>1, <2>1, <2>2, OneSidedStepKeepsInv
<1> QED
  BY <1>4, <1>5

LEMMA AssignReferenceKeepsInv ==
    ASSUME Inv, NEW f \in Features, NEW a \in Ids(Class(f)),
           NEW value \in Options(Target(f)), AssignReference(f, a, value)
    PROVE  Inv'
<1>1. GoodList(f, a, value)
  BY OptionGood DEF AssignReference
<1> QED
  BY <1>1, OneSidedStepKeepsInv DEF AssignReference, OneSided

\* A step that leaves the objects and their fields alone.
LEMMA SameFieldsKeepInv ==
    ASSUME Inv, UNCHANGED <<schema, count, field>>, attr' \in [AllIds -> Seq(Values)]
    PROVE  Inv'
<1>1. DOMAIN field' = Features
  BY DEF Inv, TypeOK
<1> QED
  BY <1>1, InvGivesParts, PartsGiveInv

LEMMA SetAttributeKeepsInv ==
    ASSUME Inv, NEW id \in AllIds, NEW values \in AttributeValues, SetAttribute(id, values)
    PROVE  Inv'
<1>1. values \in Seq(Values)
  <2>1. PICK n \in 0..2 : values \in [1..n -> Values]
    BY DEF AttributeValues
  <2> QED
    BY <2>1
<1>2. UNCHANGED <<schema, count, field>> /\ attr' \in [AllIds -> Seq(Values)]
  BY <1>1 DEF SetAttribute, Inv, TypeOK
<1> QED
  BY <1>2, SameFieldsKeepInv

\* A new object appears in a slot whose fields were empty.
LEMMA NewKeepsInv ==
    ASSUME Inv, NEW class \in Classes, New(class)
    PROVE  Inv'
<1>1. /\ schema' = schema /\ field' = field
      /\ count' = [count EXCEPT ![class] = count[class] + 1]
      /\ count[class] < Most(class)
  BY DEF New
<1>2. /\ count \in [Classes -> Nat]
      /\ \A c \in Classes : count[c] <= Most(c) /\ Most(c) \in Nat
  BY InvGivesParts, SchemaFacts DEF Inv, TypeOK
<1>3. /\ count' \in [Classes -> Nat]
      /\ \A c \in Classes : count[c] <= count'[c] /\ count'[c] <= Most(c)
  BY <1>1, <1>2
<1>4. ASSUME NEW c \in Classes, NEW id \in Ids(c), Live(id)
      PROVE  Live(id)'
  <2>1. id[1] = c /\ id[2] \in Nat
    BY <1>2, <1>4 DEF Ids
  <2> QED
    BY <1>2, <1>3, <1>4, <2>1 DEF Live
<1>5. (attr \in [AllIds -> Seq(Values)])'
  <2>1. attr \in [AllIds -> Seq(Values)] /\ AllIds' = AllIds
    BY <1>1 DEF Inv, TypeOK, AllIds, Ids, Classes, Most
  <2>2. <<Default>> \in Seq(Values) /\ <<>> \in Seq(Values)
    BY ArenaAssumption
  <2> QED
    BY <2>1, <2>2 DEF New
<1>6. /\ Features' = Features /\ Classes' = Classes
      /\ \A f : Class(f)' = Class(f) /\ Target(f)' = Target(f) /\ Many(f)' = Many(f)
      /\ \A c : Ids(c)' = Ids(c) /\ Most(c)' = Most(c)
  BY <1>1 DEF Features, Classes, Class, Target, Many, Ids, Most
<1>7. ASSUME NEW f \in Features
      PROVE  /\ (field[f] \in [Ids(Class(f)) -> Seq(Ids(Target(f)))])'
             /\ \A a \in Ids(Class(f)) :
                   (/\ \A i \in 1..Len(field[f][a]) : Live(field[f][a][i])
                    /\ ~Live(a) => field[f][a] = <<>>
                    /\ ~Many(f) => Len(field[f][a]) <= 1)'
  <2>1. Class(f) \in Classes /\ Target(f) \in Classes
    BY InvGivesParts, SchemaFacts
  <2>2. GoodField(f, field[f])
    BY InvGivesParts
  <2>3. field[f] \in [Ids(Class(f)) -> Seq(Ids(Target(f)))]
    BY <2>2 DEF GoodField
  <2>4. (field[f] \in [Ids(Class(f)) -> Seq(Ids(Target(f)))])'
    BY <1>1, <1>6, <2>3
  <2>5. ASSUME NEW a \in Ids(Class(f))
        PROVE  (/\ \A i \in 1..Len(field[f][a]) : Live(field[f][a][i])
                /\ ~Live(a) => field[f][a] = <<>>
                /\ ~Many(f) => Len(field[f][a]) <= 1)'
    <3>1. GoodList(f, a, field[f][a])
      BY <2>2 DEF GoodField
    <3>2. ASSUME NEW i \in 1..Len(field[f][a])
          PROVE  Live(field[f][a][i])'
      <4>1. field[f][a][i] \in Ids(Target(f)) /\ Live(field[f][a][i])
        BY <3>1 DEF GoodList, In
      <4> DEFINE id == field[f][a][i]
      <4>2. id' = id
        BY <1>1
      <4>3. id[1] = Target(f) /\ id[2] \in Nat /\ id[2] < count[Target(f)]
        BY <1>2, <2>1, <4>1, SMTT(30) DEF Live, Ids
      <4>4. id[2] < count'[Target(f)]
        <5>1. /\ count[Target(f)] \in Nat /\ count'[Target(f)] \in Nat
              /\ count[Target(f)] <= count'[Target(f)]
          BY <1>2, <1>3, <2>1
        <5> HIDE DEF id
        <5> QED
          BY <4>3, <5>1
      <4> QED
        BY <4>2, <4>3, <4>4 DEF Live
    <3>3. (~Live(a) => field[f][a] = <<>>)'
      BY <1>1, <1>4, <2>1, <3>1 DEF GoodList
    <3>4. (~Many(f) => Len(field[f][a]) <= 1)'
      BY <1>1, <1>6, <3>1 DEF GoodList
    <3>5. \A i \in 1..Len(field'[f][a]) : Live(field[f][a][i])'
      BY <1>1, <3>2
    <3> QED
      BY <3>3, <3>4, <3>5
  <2> QED
    BY <2>4, <2>5
<1>8. TypeOK'
  <2>1. ASSUME NEW f \in Features
        PROVE  (field[f] \in [Ids(Class(f)) -> Seq(Ids(Target(f)))])'
    BY <1>6, <1>7
  <2>2. ASSUME NEW f \in Features, NEW a \in Ids(Class(f))
        PROVE  (/\ \A i \in 1..Len(field[f][a]) : Live(field[f][a][i])
                /\ ~Live(a) => field[f][a] = <<>>
                /\ ~Many(f) => Len(field[f][a]) <= 1)'
    BY <1>6, <1>7
  <2>3. /\ (schema \in Schemas)'
        /\ (count \in [Classes -> Nat])'
        /\ (\A c \in Classes : count[c] <= Most(c))'
        /\ (DOMAIN field = Features)'
    BY <1>1, <1>3, <1>6 DEF TypeOK, Inv
  <2> QED
    BY <1>5, <1>6, <2>1, <2>2, <2>3 DEF TypeOK
<1>9. NoDuplicates' /\ OppositesAgree'
  BY <1>1 DEF Inv, NoDuplicates, OppositesAgree, Features, Ids, Most, Class, Target,
              Paired, Opposite
<1> QED
  BY <1>8, <1>9 DEF Inv

-----------------------------------------------------------------------------
(* The theorems. *)

LEMMA InitInv == Init => Inv
<1> SUFFICES ASSUME Init
             PROVE  Inv
  OBVIOUS
<1>1. \A class \in Classes : Most(class) \in Nat
  BY SchemaFacts DEF Init
<1>2. TypeOK
  BY <1>1 DEF Init, TypeOK, Live
<1>3. \A f \in Features : \A a \in Ids(Class(f)) : Len(field[f][a]) = 0
  BY DEF Init
<1>4. NoDuplicates
  BY <1>3 DEF NoDuplicates
<1>5. OppositesAgree
  <2>1. ASSUME NEW f \in Features, Paired(f)
        PROVE  \A a \in Ids(Class(f)), b \in Ids(Target(f)) :
                  ~In(b, field[f][a]) /\ ~In(a, field[Opposite(f)][b])
    <3>1. Opposite(f) \in Features /\ Class(Opposite(f)) = Target(f)
      BY <2>1, SchemaFacts DEF Init
    <3> QED
      BY <1>3, <3>1 DEF In
  <2> QED
    BY <2>1 DEF OppositesAgree
<1> QED
  BY <1>2, <1>4, <1>5 DEF Inv

LEMMA NextKeepsInv == Inv /\ [Next]_vars => Inv'
<1> SUFFICES ASSUME Inv, [Next]_vars
             PROVE  Inv'
  OBVIOUS
<1>1. ASSUME NEW class \in Classes, New(class)
      PROVE  Inv'
  BY <1>1, NewKeepsInv
<1>2. ASSUME NEW id \in AllIds, NEW values \in AttributeValues, SetAttribute(id, values)
      PROVE  Inv'
  BY <1>2, SetAttributeKeepsInv
<1>3. ASSUME NEW f \in Features, NEW a \in Ids(Class(f)), NEW b \in Ids(Target(f)),
             \/ AddMany(f, a, b) \/ RemoveMany(f, a, b)
             \/ AddToSingle(f, a, b) \/ RemoveToSingle(f, a, b)
             \/ AddOneSided(f, a, b) \/ RemoveOneSided(f, a, b)
      PROVE  Inv'
  BY <1>3, AddManyKeepsInv, RemoveManyKeepsInv, AddToSingleKeepsInv,
     RemoveToSingleKeepsInv, OneSidedKeepsInv
<1>4. ASSUME NEW f \in Features, NEW a \in Ids(Class(f)), NEW value \in Options(Target(f)),
             \/ SetSingle(f, a, value) \/ SetSingleSingle(f, a, value)
             \/ AssignReference(f, a, value)
      PROVE  Inv'
  BY <1>4, SetSingleKeepsInv, SetSingleSingleKeepsInv, AssignReferenceKeepsInv
<1>5. CASE UNCHANGED vars
  BY <1>5, SameFieldsKeepInv DEF vars, Inv, TypeOK
<1> QED
  BY <1>1, <1>2, <1>3, <1>4, <1>5 DEF Next

\* The invariant holds in every reachable arena, of any size.
THEOREM InvHolds == Spec => []Inv
BY InitInv, NextKeepsInv, PTL DEF Spec

\* Fields hold ids of live objects of their target class, at most one when the
\* feature is single, whatever the mutators were called with: `new_<class>`
\* and the liveness checks of codegen/resource.rs.
THEOREM FieldsAreTyped == Spec => []TypeOK
<1>1. Inv => TypeOK
  BY DEF Inv
<1> QED
  BY <1>1, InvHolds, PTL

\* No list of the arena ever holds an id twice.
THEOREM ListsHaveNoDuplicates == Spec => []NoDuplicates
<1>1. Inv => NoDuplicates
  BY DEF Inv
<1> QED
  BY <1>1, InvHolds, PTL

\* The two ends of every opposite pair agree after any sequence of mutators of
\* codegen/resource.rs, for every model that validate_opposites accepts.
THEOREM PairsStayInStep == Spec => []OppositesAgree
<1>1. Inv => OppositesAgree
  BY DEF Inv
<1> QED
  BY <1>1, InvHolds, PTL

-----------------------------------------------------------------------------
(* The order of lists.                                                       *)

\* The ids of s that are still in t stand there in the order they had.
Keeps(s, t) ==
    \A i, j \in 1..Len(s) :
        i < j /\ In(s[i], t) /\ In(s[j], t)
        => \E k, l \in 1..Len(t) : k < l /\ t[k] = s[i] /\ t[l] = s[j]

LEMMA PushKeeps ==
    ASSUME NEW T, NEW s \in Seq(T), NEW x
    PROVE  Keeps(s, s) /\ Keeps(s, Push(s, x))
<1>1. Keeps(s, s)
  BY DEF Keeps
<1>2. CASE ~In(x, s)
  <2>1. Push(s, x) = Append(s, x)
    BY <1>2 DEF Push
  <2>2. /\ Len(Append(s, x)) = Len(s) + 1 /\ Len(s) \in Nat
        /\ \A i \in 1..Len(s) : Append(s, x)[i] = s[i]
    OBVIOUS
  <2> DEFINE t == Append(s, x)
  <2>3. \A i \in 1..Len(s) : i \in 1..Len(t) /\ t[i] = s[i]
    BY <2>2
  <2> HIDE DEF t
  <2>4. Keeps(s, t)
    BY <2>3 DEF Keeps
  <2> QED
    BY <1>1, <2>1, <2>4 DEF t
<1>3. CASE In(x, s)
  BY <1>1, <1>3 DEF Push
<1> QED
  BY <1>1, <1>2, <1>3

LEMMA WithoutKeeps ==
    ASSUME NEW T, NEW s \in Seq(T), NEW x, NoRepeats(s)
    PROVE  Keeps(s, Without(s, x))
<1>1. CASE ~In(x, s)
  BY <1>1 DEF Without, Keeps
<1>2. CASE In(x, s)
  <2> DEFINE at == CHOOSE i \in 1..Len(s) : s[i] = x
             t == [i \in 1..(Len(s) - 1) |-> IF i < at THEN s[i] ELSE s[i + 1]]
             place(i) == IF i < at THEN i ELSE i - 1
  <2>1. at \in 1..Len(s) /\ s[at] = x
    BY <1>2 DEF In
  <2>2. Without(s, x) = t
    BY <1>2 DEF Without
  <2> HIDE DEF at
  <2>3. Len(s) \in Nat /\ Len(s) - 1 \in Nat
    BY <2>1
  <2>4. Len(t) = Len(s) - 1
    <3>1. \A i \in 1..(Len(s) - 1) : t[i] \in T
      BY <2>1, <2>3
    <3>2. t \in [1..(Len(s) - 1) -> T]
      BY <3>1
    <3> QED
      BY <2>3, <3>2
  <2>5. ~In(x, t)
    BY <1>2, <2>2, WithoutContents
  <2>6. ASSUME NEW i \in 1..Len(s), i # at
        PROVE  place(i) \in 1..Len(t) /\ t[place(i)] = s[i]
    BY <2>1, <2>3, <2>4, <2>6
  <2>7. ASSUME NEW i \in 1..Len(s), NEW j \in 1..Len(s), i < j, In(s[i], t), In(s[j], t)
        PROVE  \E k, l \in 1..Len(t) : k < l /\ t[k] = s[i] /\ t[l] = s[j]
    <3>1. i # at /\ j # at
      BY <2>1, <2>5, <2>7
    <3>2. place(i) < place(j)
      BY <2>1, <2>3, <2>7, <3>1
    <3> HIDE DEF t, place
    <3> QED
      BY <2>6, <3>1, <3>2
  <2> HIDE DEF t
  <2>8. Keeps(s, t)
    BY <2>7 DEF Keeps
  <2> QED
    BY <2>2, <2>8
<1> QED
  BY <1>1, <1>2

\* What a mutator may make of a list: an option is set, a list filtered or
\* appended to.
Edited(h, s, t) ==
    \/ ~Many(h)
    \/ t = s
    \/ \E x : t = Push(s, x) \/ t = Without(s, x)

LEMMA EditedKeeps ==
    ASSUME NEW h \in Features, NEW a, NEW s, GoodList(h, a, s), NEW t, Edited(h, s, t)
    PROVE  Keeps(s, t)
<1>1. s \in Seq(Ids(Target(h))) /\ NoRepeats(s)
  BY DEF GoodList
<1>2. CASE ~Many(h)
  BY <1>1, <1>2 DEF GoodList, Keeps
<1>3. CASE t = s
  BY <1>1, <1>3, PushKeeps
<1>4. ASSUME NEW x, t = Push(s, x) \/ t = Without(s, x)
      PROVE  Keeps(s, t)
  BY <1>1, <1>4, PushKeeps, WithoutKeeps
<1> QED
  BY <1>2, <1>3, <1>4 DEF Edited

EditedField(h, fn) == \A a \in Ids(Class(h)) : Edited(h, field[h][a], fn[a])

LEMMA PairStepEdits ==
    ASSUME Inv, NEW f \in Features, Paired(f), NEW ff, NEW gg, PairStep(f, ff, gg),
           EditedField(f, ff), EditedField(Opposite(f), gg),
           NEW h \in Features, NEW a \in Ids(Class(h))
    PROVE  Keeps(field[h][a], field'[h][a])
<1>1. GoodList(h, a, field[h][a])
  BY InvGivesParts DEF GoodField
<1>2. Edited(h, field[h][a], field'[h][a])
  <2>1. CASE h \notin {f, Opposite(f)}
    BY <2>1 DEF PairStep, Edited
  <2>2. CASE h = f
    BY <2>2 DEF PairStep, EditedField
  <2>3. CASE h = Opposite(f)
    BY <2>3 DEF PairStep, EditedField
  <2> QED
    BY <2>1, <2>2, <2>3
<1> QED
  BY <1>1, <1>2, EditedKeeps

LEMMA ManyMutatorsKeepOrder ==
    ASSUME Inv, NEW f \in Features, NEW a \in Ids(Class(f)), NEW b \in Ids(Target(f)),
           \/ AddMany(f, a, b) \/ RemoveMany(f, a, b)
           \/ AddToSingle(f, a, b) \/ RemoveToSingle(f, a, b),
           NEW h \in Features, NEW c \in Ids(Class(h))
    PROVE  Keeps(field[h][c], field'[h][c])
<1> DEFINE g == Opposite(f)
<1>1. Paired(f)
  BY DEF AddMany, RemoveMany, AddToSingle, RemoveToSingle, PairMutator
<1>2. /\ g \in Features /\ g # f /\ Class(g) = Target(f)
      /\ DOMAIN field = Features /\ DOMAIN field[f] = Ids(Class(f)) /\ DOMAIN field[g] = Ids(Class(g))
  BY <1>1, InvGivesParts, SchemaFacts DEF Inv, TypeOK
<1>3. CASE AddMany(f, a, b)
  <2> DEFINE ff == [field[f] EXCEPT ![a] = Push(field[f][a], b)]
             gg == [field[g] EXCEPT ![b] = Push(field[g][b], a)]
  <2>1. PairStep(f, ff, gg)
    BY <1>2, <1>3 DEF AddMany, PairMutator, PairStep
  <2>2. EditedField(f, ff)
    BY <1>1, <1>2 DEF EditedField, Edited
  <2>3. EditedField(g, gg)
    BY <1>1, <1>2 DEF EditedField, Edited
  <2> HIDE DEF ff, gg
  <2> QED
    BY <1>1, <2>1, <2>2, <2>3, PairStepEdits
<1>4. CASE RemoveMany(f, a, b)
  <2> DEFINE ff == [field[f] EXCEPT ![a] = Without(field[f][a], b)]
             gg == [field[g] EXCEPT ![b] = Without(field[g][b], a)]
  <2>1. PairStep(f, ff, gg)
    BY <1>2, <1>4 DEF RemoveMany, PairMutator, PairStep
  <2>2. EditedField(f, ff)
    BY <1>1, <1>2 DEF EditedField, Edited
  <2>3. EditedField(g, gg)
    BY <1>1, <1>2 DEF EditedField, Edited
  <2> HIDE DEF ff, gg
  <2> QED
    BY <1>1, <2>1, <2>2, <2>3, PairStepEdits
<1>5. CASE AddToSingle(f, a, b)
  <2> DEFINE ff == [x \in DOMAIN field[f] |->
                       IF In(x, field[g][b]) THEN Without(field[f][x], b)
                       ELSE IF x = a THEN Push(field[f][x], b)
                       ELSE field[f][x]]
             gg == [field[g] EXCEPT ![b] = <<a>>]
  <2>1. PairStep(f, ff, gg)
    BY <1>2, <1>5 DEF AddToSingle, PairMutator, PairStep
  <2>2. ~Many(g)
    BY <1>5, InvGivesParts, SchemaFacts DEF AddToSingle, PairMutator
  <2>3. EditedField(f, ff)
    BY <1>1, <1>2 DEF EditedField, Edited
  <2>4. EditedField(g, gg)
    BY <1>1, <1>2, <2>2 DEF EditedField, Edited
  <2> HIDE DEF ff, gg
  <2> QED
    BY <1>1, <2>1, <2>3, <2>4, PairStepEdits
<1>6. CASE RemoveToSingle(f, a, b)
  <2> DEFINE ff == [field[f] EXCEPT ![a] = Without(field[f][a], b)]
             gg == [field[g] EXCEPT ![b] = IF field[g][b] = <<a>> THEN <<>> ELSE field[g][b]]
  <2>1. PairStep(f, ff, gg)
    BY <1>2, <1>6 DEF RemoveToSingle, PairMutator, PairStep
  <2>2. ~Many(g)
    BY <1>6, InvGivesParts, SchemaFacts DEF RemoveToSingle, PairMutator
  <2>3. EditedField(f, ff)
    BY <1>1, <1>2 DEF EditedField, Edited
  <2>4. EditedField(g, gg)
    BY <1>1, <1>2, <2>2 DEF EditedField, Edited
  <2> HIDE DEF ff, gg
  <2> QED
    BY <1>1, <2>1, <2>3, <2>4, PairStepEdits
<1> QED
  BY <1>3, <1>4, <1>5, <1>6

LEMMA SingleMutatorsKeepOrder ==
    ASSUME Inv, NEW f \in Features, NEW a \in Ids(Class(f)), NEW value \in Options(Target(f)),
           SetSingle(f, a, value) \/ SetSingleSingle(f, a, value),
           NEW h \in Features, NEW c \in Ids(Class(h))
    PROVE  Keeps(field[h][c], field'[h][c])
<1> DEFINE g == Opposite(f)
<1>1. Paired(f) /\ ~Many(f)
  BY InvGivesParts, SchemaFacts DEF SetSingle, SetSingleSingle, PairMutator
<1>2. /\ g \in Features /\ g # f /\ Class(g) = Target(f)
      /\ DOMAIN field = Features /\ DOMAIN field[f] = Ids(Class(f)) /\ DOMAIN field[g] = Ids(Class(g))
  BY <1>1, InvGivesParts, SchemaFacts DEF Inv, TypeOK
<1>3. CASE SetSingle(f, a, value)
  <2> DEFINE ff == [field[f] EXCEPT ![a] = value]
             gg == [b \in DOMAIN field[g] |->
                       IF In(b, field[f][a]) THEN Without(field[g][b], a)
                       ELSE IF In(b, value) THEN Push(field[g][b], a)
                       ELSE field[g][b]]
  <2>1. PairStep(f, ff, gg)
    BY <1>2, <1>3 DEF SetSingle, PairMutator, PairStep
  <2>2. EditedField(f, ff)
    BY <1>1, <1>2 DEF EditedField, Edited
  <2>3. EditedField(g, gg)
    BY <1>1, <1>2 DEF EditedField, Edited
  <2> HIDE DEF ff, gg
  <2> QED
    BY <1>1, <2>1, <2>2, <2>3, PairStepEdits
<1>4. CASE SetSingleSingle(f, a, value)
  <2>1. PairStep(f, field'[f], field'[g])
    BY <1>2, <1>4 DEF SetSingleSingle, PairMutator, PairStep
  <2>2. ~Many(g)
    BY <1>4, InvGivesParts, SchemaFacts DEF SetSingleSingle, PairMutator
  <2>3. EditedField(f, field'[f]) /\ EditedField(g, field'[g])
    BY <1>1, <2>2 DEF EditedField, Edited
  <2> QED
    BY <1>1, <2>1, <2>3, PairStepEdits
<1> QED
  BY <1>3, <1>4

LEMMA NextKeepsOrder ==
    ASSUME Inv, [Next]_vars, NEW h \in Features, Paired(h), NEW c \in Ids(Class(h))
    PROVE  Keeps(field[h][c], field'[h][c])
<1>1. GoodList(h, c, field[h][c]) /\ DOMAIN field = Features
  BY InvGivesParts DEF GoodField, Inv, TypeOK
<1>2. CASE field'[h] = field[h]
  BY <1>1, <1>2, EditedKeeps DEF Edited
<1>3. ASSUME NEW f \in Features, NEW a \in Ids(Class(f)), NEW b \in Ids(Target(f)),
             AddOneSided(f, a, b) \/ RemoveOneSided(f, a, b)
      PROVE  field'[h] = field[h]
  BY <1>1, <1>3 DEF AddOneSided, RemoveOneSided, OneSided
<1>4. ASSUME NEW f \in Features, NEW a \in Ids(Class(f)), NEW value \in Options(Target(f)),
             AssignReference(f, a, value)
      PROVE  field'[h] = field[h]
  BY <1>1, <1>4 DEF AssignReference, OneSided
<1>5. CASE \/ \E class \in Classes : New(class)
           \/ \E id \in AllIds, values \in AttributeValues : SetAttribute(id, values)
           \/ UNCHANGED vars
  BY <1>2, <1>5 DEF New, SetAttribute, vars
<1> QED
  BY <1>2, <1>3, <1>4, <1>5, ManyMutatorsKeepOrder, SingleMutatorsKeepOrder DEF Next

\* ListsKeepOrder for every model and any number of objects (push and retain in
\* the mutators of resource.rs): no mutator reorders the ids a list keeps.
THEOREM MutatorsKeepOrder == Spec => ListsKeepOrder
<1>1. ASSUME Inv, [Next]_vars, NEW f \in Features, NEW a \in Ids(Class(f)), Paired(f),
             NEW i \in 1..Len(field[f][a]), NEW j \in 1..Len(field[f][a]),
             i < j, In(field[f][a][i], field'[f][a]), In(field[f][a][j], field'[f][a])
      PROVE  \E k, l \in 1..Len(field'[f][a]) :
                /\ k < l
                /\ field'[f][a][k] = field[f][a][i]
                /\ field'[f][a][l] = field[f][a][j]
  <2>1. Keeps(field[f][a], field'[f][a])
    BY <1>1, NextKeepsOrder
  <2> QED
    BY <1>1, <2>1, SMTT(30) DEF Keeps
<1>2. Inv /\ [Next]_vars =>
        [\A f \in Features : \A a \in Ids(Class(f)) : Paired(f) =>
          \A i, j \in 1..Len(field[f][a]) :
              i < j /\ In(field[f][a][i], field'[f][a]) /\ In(field[f][a][j], field'[f][a])
              => \E k, l \in 1..Len(field'[f][a]) :
                    /\ k < l
                    /\ field'[f][a][k] = field[f][a][i]
                    /\ field'[f][a][l] = field[f][a][j]]_vars
  BY <1>1
<1> QED
  BY <1>2, InvHolds, PTL DEF Spec, ListsKeepOrder
=============================================================================
