---------------------------- MODULE InstanceArena ----------------------------
(***************************************************************************)
(* The Resource arena that rex-backend-rust generates from a model: one    *)
(* slot map per class, features that hold ids, and mutators that keep the  *)
(* two ends of every opposite pair in step (codegen/resource.rs).          *)
(*                                                                         *)
(* A field is represented by the sequence of the ids it holds: a Vec by    *)
(* itself, None by <<>>, Some(id) by <<id>>.  The model is frozen in the   *)
(* variable schema.                                                        *)
(***************************************************************************)
EXTENDS Naturals, Sequences, FiniteSets

CONSTANTS
    Schemas,     \* the models considered, each with its bound on objects
    Values,      \* the values of an attribute
    Default,     \* the value a required attribute starts with
    NoOpposite   \* the opposite of a one-sided feature

VARIABLES
    schema,  \* the generated code's model, fixed for the run
    count,   \* class -> how many objects were created
    field,   \* feature -> object -> the ids it holds
    attr     \* object -> the values its attribute holds

vars == <<schema, count, field, attr>>

-----------------------------------------------------------------------------
(* The model. *)

Classes == {schema.classes[i] : i \in DOMAIN schema.classes}
Features == DOMAIN schema.feature
Class(f) == schema.feature[f].class
Target(f) == schema.feature[f].target
Kind(f) == schema.feature[f].kind
Many(f) == schema.feature[f].many
Opposite(f) == schema.feature[f].opposite
Paired(f) == Opposite(f) # NoOpposite

\* Bound on the objects of a class.
Most(class) == schema.most[class]

\* An id is a class and the position of its object in the class's slot map.
Ids(class) == {class} \X (0..(Most(class) - 1))
AllIds == UNION {Ids(class) : class \in Classes}

Live(id) == id[2] < count[id[1]]

PairOf(kind) ==
    CASE kind = "contains" -> "container"
      [] kind = "container" -> "contains"
      [] OTHER -> "refers"

\* What validate_opposites accepts.  A feature that is its own opposite, a
\* container of many and a one-sided `contains` of one object are left out:
\* the mutators emitted for them are not valid Rust.
ValidFeature(s, f) ==
    LET this == s.feature[f]
        other == s.feature[this.opposite]
    IN  /\ this.kind \in {"contains", "container", "refers"}
        /\ this.many \in BOOLEAN
        /\ this.kind = "container" => ~this.many
        /\ this.kind = "contains" /\ this.opposite = NoOpposite => this.many
        /\ this.opposite # NoOpposite =>
              /\ this.opposite \in DOMAIN s.feature \ {f}
              /\ other.opposite = f
              /\ other.class = this.target
              /\ other.target = this.class
              /\ other.kind = PairOf(this.kind)

ValidSchema(s) ==
    LET classes == {s.classes[i] : i \in DOMAIN s.classes}
    IN  /\ \A f \in DOMAIN s.feature :
              /\ s.feature[f].class \in classes
              /\ s.feature[f].target \in classes
              /\ ValidFeature(s, f)
        /\ NoOpposite \notin DOMAIN s.feature
        /\ s.most \in [classes -> Nat]

ASSUME ArenaAssumption ==
    /\ Default \in Values
    /\ \A s \in Schemas : ValidSchema(s)

-----------------------------------------------------------------------------
(* Lists of ids. *)

In(x, seq) == \E i \in 1..Len(seq) : seq[i] = x

\* if !list.contains(&x) { list.push(x) }
Push(seq, x) == IF In(x, seq) THEN seq ELSE Append(seq, x)

\* Mutant: the last id takes the place of the removed one.
WithoutSwapped(seq, x) ==
    IF ~In(x, seq) THEN seq
    ELSE LET at == CHOOSE i \in 1..Len(seq) : seq[i] = x
         IN  [i \in 1..(Len(seq) - 1) |-> IF i = at THEN seq[Len(seq)] ELSE seq[i]]

\* list.retain(|id| *id != x), on a list that holds no id twice.
Without(seq, x) ==
    IF ~In(x, seq) THEN seq
    ELSE LET at == CHOOSE i \in 1..Len(seq) : seq[i] = x
         IN  [i \in 1..(Len(seq) - 1) |-> IF i < at THEN seq[i] ELSE seq[i + 1]]

-----------------------------------------------------------------------------
Init ==
    /\ schema \in Schemas
    /\ count = [class \in Classes |-> 0]
    /\ field = [f \in Features |-> [id \in Ids(Class(f)) |-> <<>>]]
    /\ attr = [id \in AllIds |-> <<>>]

Fresh(class) == <<class, count[class]>>

\* new_<class>: a default-initialised object in the next slot.
New(class) ==
    /\ class \in Classes
    /\ count[class] < Most(class)
    /\ count' = [count EXCEPT ![class] = @ + 1]
    /\ attr' = [attr EXCEPT ![Fresh(class)] =
                   IF schema.attribute[class] = "required" THEN <<Default>> ELSE <<>>]
    /\ UNCHANGED <<schema, field>>

\* set_<attribute>: one value for a scalar, a list for a many-valued one.
SetAttribute(id, values) ==
    /\ Live(id)
    /\ CASE schema.attribute[id[1]] = "none" -> FALSE
         [] schema.attribute[id[1]] = "many" -> TRUE
         [] OTHER -> Len(values) = 1
    /\ attr' = [attr EXCEPT ![id] = values]
    /\ UNCHANGED <<schema, count, field>>

\* A mutator of f with the object a it is called on; `toMany` tells which of
\* the four shapes emit_pair chooses for f.
PairMutator(f, a, many, toMany) ==
    /\ Paired(f)
    /\ Many(f) = many
    /\ Many(Opposite(f)) = toMany
    /\ a \in Ids(Class(f))
    /\ UNCHANGED <<schema, count, attr>>

\* Mutant: the list is pushed to without the contains check.
AddManyTwice(f, a, b) ==
    /\ PairMutator(f, a, TRUE, TRUE)
    /\ Live(a) /\ Live(b)
    /\ field' = [field EXCEPT ![f][a] = Append(@, b), ![Opposite(f)][b] = Push(@, a)]

\* emit_add_remove_many.
AddMany(f, a, b) ==
    /\ PairMutator(f, a, TRUE, TRUE)
    /\ Live(a) /\ Live(b)
    /\ field' = [field EXCEPT ![f][a] = Push(@, b), ![Opposite(f)][b] = Push(@, a)]

RemoveMany(f, a, b) ==
    /\ PairMutator(f, a, TRUE, TRUE)
    /\ field' = [field EXCEPT ![f][a] = Without(@, b), ![Opposite(f)][b] = Without(@, a)]

\* Mutant: the previous holder is not told.
SetSingleKeepsHolder(f, a, value) ==
    /\ PairMutator(f, a, FALSE, TRUE)
    /\ Live(a)
    /\ \A i \in 1..Len(value) : Live(value[i])
    /\ field[f][a] # value
    /\ field' = [field EXCEPT
          ![f][a] = value,
          ![Opposite(f)] = [b \in DOMAIN @ |-> IF In(b, value) THEN Push(@[b], a) ELSE @[b]]]

\* emit_set_single: a single end whose opposite is many; None is <<>>.
SetSingle(f, a, value) ==
    /\ PairMutator(f, a, FALSE, TRUE)
    /\ Live(a)
    /\ \A i \in 1..Len(value) : Live(value[i])
    /\ field[f][a] # value
    /\ field' = [field EXCEPT
          ![f][a] = value,
          ![Opposite(f)] = [b \in DOMAIN @ |->
              IF In(b, field[f][a]) THEN Without(@[b], a)
              ELSE IF In(b, value) THEN Push(@[b], a)
              ELSE @[b]]]

\* emit_add_remove_to_single: a many end whose opposite is single.
AddToSingle(f, a, b) ==
    /\ PairMutator(f, a, TRUE, FALSE)
    /\ Live(a) /\ Live(b)
    /\ field[Opposite(f)][b] # <<a>>
    /\ field' = [field EXCEPT
          ![f] = [x \in DOMAIN @ |->
              IF In(x, field[Opposite(f)][b]) THEN Without(@[x], b)
              ELSE IF x = a THEN Push(@[x], b)
              ELSE @[x]],
          ![Opposite(f)][b] = <<a>>]

RemoveToSingle(f, a, b) ==
    /\ PairMutator(f, a, TRUE, FALSE)
    /\ field' = [field EXCEPT
          ![f][a] = Without(@, b),
          ![Opposite(f)][b] = IF @ = <<a>> THEN <<>> ELSE @]

\* emit_set_single_single: both the object a pointed to and the one that
\* pointed to the new target are detached.
SetSingleSingle(f, a, value) ==
    /\ PairMutator(f, a, FALSE, FALSE)
    /\ Live(a)
    /\ \A i \in 1..Len(value) : Live(value[i])
    /\ field[f][a] # value
    /\ field' = [field EXCEPT
          ![f] = [x \in DOMAIN @ |->
              IF x = a THEN value
              ELSE IF \E i \in 1..Len(value) : In(x, field[Opposite(f)][value[i]]) THEN <<>>
              ELSE @[x]],
          ![Opposite(f)] = [b \in DOMAIN @ |->
              IF In(b, value) THEN <<a>>
              ELSE IF In(b, field[f][a]) /\ @[b] = <<a>> THEN <<>>
              ELSE @[b]]]

OneSided(f, a, kind) ==
    /\ ~Paired(f)
    /\ Kind(f) = kind
    /\ a \in Ids(Class(f))
    /\ UNCHANGED <<schema, count, attr>>

\* emit_one_sided_containment: no back-pointer to keep in step.
AddOneSided(f, a, b) ==
    /\ OneSided(f, a, "contains")
    /\ Live(a) /\ Live(b)
    /\ field' = [field EXCEPT ![f][a] = Push(@, b)]

RemoveOneSided(f, a, b) ==
    /\ OneSided(f, a, "contains")
    /\ field' = [field EXCEPT ![f][a] = Without(@, b)]

\* A one-sided `refers` has no mutator: its owner assigns the public field.
AssignReference(f, a, value) ==
    /\ OneSided(f, a, "refers")
    /\ Live(a)
    /\ \A i \in 1..Len(value) : Live(value[i])
    /\ field' = [field EXCEPT ![f][a] = value]

\* None or Some(id).
Options(class) == {<<>>} \cup {<<id>> : id \in Ids(class)}

\* What an attribute can be set to: at most two values.
AttributeValues == UNION {[1..n -> Values] : n \in 0..2}

Next ==
    \/ \E class \in Classes : New(class)
    \/ \E id \in AllIds, values \in AttributeValues : SetAttribute(id, values)
    \/ \E f \in Features :
          \/ \E a \in Ids(Class(f)), b \in Ids(Target(f)) :
                \/ AddMany(f, a, b) \/ RemoveMany(f, a, b)
                \/ AddToSingle(f, a, b) \/ RemoveToSingle(f, a, b)
                \/ AddOneSided(f, a, b) \/ RemoveOneSided(f, a, b)
          \/ \E a \in Ids(Class(f)), value \in Options(Target(f)) :
                \/ SetSingle(f, a, value) \/ SetSingleSingle(f, a, value)
                \/ AssignReference(f, a, value)

Spec == Init /\ [][Next]_vars

-----------------------------------------------------------------------------
(* Properties. *)

\* Every field holds ids of live objects of its target class, at most one when
\* its feature is single; an object that does not exist holds nothing.
TypeOK ==
    /\ schema \in Schemas
    /\ count \in [Classes -> Nat]
    /\ \A class \in Classes : count[class] <= Most(class)
    /\ DOMAIN field = Features
    /\ \A f \in Features :
          /\ field[f] \in [Ids(Class(f)) -> Seq(Ids(Target(f)))]
          /\ \A a \in Ids(Class(f)) :
                /\ \A i \in 1..Len(field[f][a]) : Live(field[f][a][i])
                /\ ~Live(a) => field[f][a] = <<>>
                /\ ~Many(f) => Len(field[f][a]) <= 1
    /\ attr \in [AllIds -> Seq(Values)]

\* No list holds an id twice, so removing it once removes it for good.
NoDuplicates ==
    \A f \in Features : \A a \in Ids(Class(f)) :
        \A i, j \in 1..Len(field[f][a]) : field[f][a][i] = field[f][a][j] => i = j

\* The two ends of a pair always agree: b is in a's field exactly when a is in
\* b's opposite field, whatever was attached, detached or moved before.
OppositesAgree ==
    \A f \in Features : Paired(f) =>
        \A a \in Ids(Class(f)), b \in Ids(Target(f)) :
            In(b, field[f][a]) <=> In(a, field[Opposite(f)][b])

\* A mutator only filters a list or appends to it: the ids that stay keep
\* their order, which is the order of the instance document.
ListsKeepOrder ==
    [][\A f \in Features : \A a \in Ids(Class(f)) : Paired(f) =>
          \A i, j \in 1..Len(field[f][a]) :
              i < j /\ In(field[f][a][i], field'[f][a]) /\ In(field[f][a][j], field'[f][a])
              => \E k, l \in 1..Len(field'[f][a]) :
                    /\ k < l
                    /\ field'[f][a][k] = field[f][a][i]
                    /\ field'[f][a][l] = field[f][a][j]]_vars
=============================================================================
