------------------------- MODULE PolicySurfaceProofs -------------------------
(***************************************************************************)
(* What an accepted policy promises, for any number of files, blocks,      *)
(* actors, grants and delegations.                                         *)
(***************************************************************************)
EXTENDS PolicySurface, TLAPS

Given == UNION {ToSet(BlocksOf(f)) : f \in 0..Len(input.domains)}

-----------------------------------------------------------------------------
(* The invariant. *)

Passes == {"lower", "cycles", "never both", "narrowing", "delegations", "obligations",
           "coverage", "end", "done"}

Usable == usable \subseteq 0..Len(input.domains)

Typed ==
    /\ input \in Inputs
    /\ stage \in {"domains", "union"}
    /\ stage = "domains" => input.host = "actor"
    /\ pass \in Passes
    /\ unit \in Nat /\ at \in Nat \ {0}
    /\ records \in Seq(Given)
    /\ Usable

\* The blocks of the files used that lie before the cursor are records.
Gathered ==
    /\ pass # "lower" => unit > Len(input.domains)
    /\ \A f \in usable : \A j \in DOMAIN BlocksOf(f) :
          f < unit \/ (f = unit /\ j < at) => BlocksOf(f)[j] \in ToSet(records)

\* A file is left out only where an error is on record.
NothingDropped ==
    /\ input.host = "single" \/ (input.host = "actor" /\ stage = "union") => 0 \in usable
    /\ ~HasErrors(diags) => \A f \in 1..Len(input.domains) : f \in usable

\* The passes behind have said all they had to say, unless an error made them
\* be skipped.
LowerTold == \A i \in DOMAIN records : LowerErrors(records[i]) \subseteq diags
NamesTold == pass # "lower" => BlockNameErrors \subseteq diags
NeverBothTold ==
    ~HasErrors(diags) /\ pass \notin {"lower", "cycles", "never both"} =>
        \A b \in ToSet(records) : NeverBothViolations(b, PooledWith(b)) \subseteq diags
DelegationsTold ==
    ~HasErrors(diags) /\ pass \notin {"lower", "cycles", "never both", "narrowing", "delegations"} =>
        \A b \in ToSet(records) : \A d \in Delegations(b) :
            DelegationErrors(b, d, PooledWith(b), ParentsFor(b)) \subseteq diags

Told == LowerTold /\ NamesTold /\ NeverBothTold /\ DelegationsTold

Decided ==
    pass = "done" => /\ stage = "union"
                     /\ model = IF HasErrors(diags) THEN Nothing ELSE records

PInv == Typed /\ Gathered /\ NothingDropped /\ Told /\ Decided

-----------------------------------------------------------------------------
(* Inputs. *)

LEMMA InputFacts ==
    ASSUME input \in Inputs
    PROVE  /\ InputOK(input) /\ Len(input.domains) \in Nat
           /\ DOMAIN input.domains = 1..Len(input.domains)
           /\ \A f \in 0..Len(input.domains) :
                 /\ BlocksOf(f) \in Seq(ToSet(BlocksOf(f)))
                 /\ \A j \in DOMAIN BlocksOf(f) : BlockOK(BlocksOf(f)[j]) /\ BlocksOf(f)[j] \in Given
           /\ \A b \in Given : BlockOK(b)
<1>1. InputOK(input)
  BY PolicyAssumption
<1>2. input.domains \in Seq(ToSet(input.domains)) /\ input.own \in Seq(ToSet(input.own))
  BY <1>1 DEF InputOK, IsSequence
<1>3. Len(input.domains) \in Nat /\ DOMAIN input.domains = 1..Len(input.domains)
  BY <1>2
<1>4. ASSUME NEW f \in 0..Len(input.domains)
      PROVE  /\ BlocksOf(f) \in Seq(ToSet(BlocksOf(f)))
             /\ \A j \in DOMAIN BlocksOf(f) : BlockOK(BlocksOf(f)[j])
  <2>1. CASE f = 0
    BY <1>1, <1>2, <2>1 DEF InputOK, BlocksOf
  <2>2. CASE f # 0
    <3>1. f \in DOMAIN input.domains /\ BlocksOf(f) = input.domains[f].blocks
      BY <1>3, <2>2 DEF BlocksOf
    <3> QED
      BY <1>1, <3>1 DEF InputOK, IsSequence
  <2> QED
    BY <2>1, <2>2
<1>5. \A b \in Given : BlockOK(b)
  BY <1>4 DEF Given, ToSet
<1>6. \A f \in 0..Len(input.domains) : \A j \in DOMAIN BlocksOf(f) : BlocksOf(f)[j] \in Given
  BY DEF Given, ToSet
<1> QED
  BY <1>1, <1>3, <1>4, <1>5, <1>6

-----------------------------------------------------------------------------
(* The steps. *)

LEMMA InitHolds == Init => PInv
<1> SUFFICES ASSUME Init PROVE PInv
  OBVIOUS
<1> USE DEF Init
<1>1. Typed
  BY InputFacts DEF Typed, Passes, Usable, Parsed
<1>2. Gathered
  <2>1. ASSUME NEW f \in usable, NEW j \in DOMAIN BlocksOf(f), f < unit \/ (f = unit /\ j < at)
        PROVE  FALSE
    <3>1. f \in 0..Len(input.domains)
      BY InputFacts DEF Parsed
    <3>2. f = 0 /\ j < 1
      BY <2>1, <3>1, InputFacts
    <3>3. j \in Nat /\ j >= 1
      BY <2>1, <3>1, InputFacts
    <3> QED
      BY <3>2, <3>3
  <2> QED
    BY <2>1 DEF Gathered
<1>3. NothingDropped
  <2>1. ASSUME ~HasErrors(diags), NEW f \in 1..Len(input.domains)
        PROVE  f \in usable
    <3>1. InputOK(input) /\ f \in DOMAIN input.domains
      BY InputFacts
    <3>2. input.host # "single"
      BY <3>1 DEF InputOK
    <3>3. input.domains[f].state # "unparsed"
      <4> SUFFICES ASSUME input.domains[f].state = "unparsed" PROVE FALSE
        OBVIOUS
      <4>1. Error(input.domains[f].path, "unparsed", <<>>) \in diags
        BY <3>1 DEF OtherErrors, ToSet
      <4> QED
        BY <2>1, <4>1 DEF HasErrors, Error
    <3> QED
      BY <3>1, <3>2, <3>3 DEF Parsed
  <2> QED
    BY <2>1 DEF NothingDropped
<1>4. Told /\ Decided
  BY DEF Told, LowerTold, NamesTold, NeverBothTold, DelegationsTold, Decided, ToSet
<1> QED
  BY <1>1, <1>2, <1>3, <1>4 DEF PInv

\* What is found depends on the input and the records only.
LEMMA SameFindings ==
    ASSUME UNCHANGED <<input, stage, records>>
    PROVE  /\ BlockNameErrors' = BlockNameErrors
           /\ \A b : NeverBothViolations(b, PooledWith(b))' = NeverBothViolations(b, PooledWith(b))
           /\ \A b, d : DelegationErrors(b, d, PooledWith(b), ParentsFor(b))'
                          = DelegationErrors(b, d, PooledWith(b), ParentsFor(b))
           /\ \A f : BlocksOf(f)' = BlocksOf(f)
           /\ Given' = Given
  BY DEF BlockNameErrors, NeverBothViolations, PooledWith, ParentsFor, DelegationErrors, TargetErrors,
         AllPurposes, BlocksOf, Given

LEMMA Reporting ==
    ASSUME PInv, NEW found, NEW following \in Passes \ {"lower", "done"},
           Report(found, following), unit > Len(input.domains), stage = "domains" \/ pass # "done"
    PROVE  /\ Typed' /\ Gathered' /\ NothingDropped' /\ LowerTold' /\ Decided'
           /\ HasErrors(diags) => HasErrors(diags')
<1> USE DEF PInv, Report
<1>1. UNCHANGED <<input, stage, records, usable, unit, at>> /\ diags \subseteq diags' /\ pass' = following
  BY DEF cursor
<1>2. HasErrors(diags) => HasErrors(diags')
  BY <1>1 DEF HasErrors
<1>3. Typed'
  BY <1>1, SameFindings DEF Typed, Usable
<1>4. Gathered'
  BY <1>1, SameFindings DEF Gathered
<1>5. NothingDropped'
  BY <1>1, <1>2 DEF NothingDropped, HasErrors
<1>6. LowerTold' /\ Decided'
  BY <1>1 DEF Told, LowerTold, Decided
<1> QED
  BY <1>2, <1>3, <1>4, <1>5, <1>6

LEMMA LowerBlockKeeps ==
    ASSUME PInv, LowerBlock PROVE PInv'
<1> USE DEF PInv
<1> DEFINE b == BlocksOf(unit)[at]
<1>1. /\ UNCHANGED <<input, stage, pass, usable, unit, model>> /\ at' = at + 1 /\ at \in DOMAIN BlocksOf(unit)
      /\ pass = "lower" /\ unit \in usable
      /\ records' = Append(records, b) /\ diags' = diags \cup LowerErrors(b)
  BY DEF LowerBlock
<1>2. /\ \A f : BlocksOf(f)' = BlocksOf(f)
      /\ Given' = Given
  BY <1>1 DEF BlocksOf, Given
<1>3. unit \in 0..Len(input.domains) /\ b \in Given
  BY <1>1 DEF Typed, Usable, Given, ToSet
<1>4. /\ records \in Seq(Given) /\ records' \in Seq(Given)
      /\ Len(records') = Len(records) + 1
      /\ \A i \in DOMAIN records : records'[i] = records[i]
      /\ records'[Len(records) + 1] = b
      /\ DOMAIN records' = 1..(Len(records) + 1) /\ DOMAIN records = 1..Len(records)
      /\ Len(records) \in Nat
  BY <1>1, <1>3 DEF Typed
<1>5. ToSet(records) \subseteq ToSet(records') /\ b \in ToSet(records')
  BY <1>4 DEF ToSet
<1>6. HasErrors(diags) => HasErrors(diags')
  BY <1>1 DEF HasErrors
<1>7. Typed'
  BY <1>1, <1>2, <1>4 DEF Typed, Usable
<1>8. Gathered'
  <2> SUFFICES ASSUME NEW f \in usable, NEW j \in DOMAIN BlocksOf(f), f < unit \/ (f = unit /\ j < at + 1)
               PROVE  BlocksOf(f)[j] \in ToSet(records')
    BY <1>1, <1>2 DEF Gathered
  <2>1. f \in 0..Len(input.domains) /\ j \in Nat
    BY InputFacts DEF Typed, Usable
  <2>2. CASE f = unit /\ j = at
    BY <1>5, <2>2
  <2>3. CASE f < unit \/ (f = unit /\ j < at)
    BY <1>5, <2>3 DEF Gathered
  <2> QED
    BY <2>1, <2>2, <2>3 DEF Typed
<1>9. NothingDropped'
  BY <1>1, <1>6 DEF NothingDropped
<1>10. Told' /\ Decided'
  <2>1. LowerTold'
    BY <1>1, <1>4 DEF Told, LowerTold
  <2>2. NamesTold' /\ NeverBothTold' /\ DelegationsTold' /\ Decided'
    BY <1>1 DEF NamesTold, NeverBothTold, DelegationsTold, Decided
  <2> QED
    BY <2>1, <2>2 DEF Told
<1> QED
  BY <1>7, <1>8, <1>9, <1>10

LEMMA NextFileKeeps ==
    ASSUME PInv, NextFile PROVE PInv'
<1> USE DEF PInv
<1>1. /\ UNCHANGED <<input, stage, pass, usable, records, diags, model>> /\ unit' = unit + 1 /\ at' = 1
      /\ pass = "lower" /\ (unit \in usable => at \notin DOMAIN BlocksOf(unit))
  BY DEF NextFile
<1>2. /\ \A f : BlocksOf(f)' = BlocksOf(f)
      /\ Given' = Given
  BY <1>1 DEF BlocksOf, Given
<1>3. Typed'
  BY <1>1, <1>2 DEF Typed, Usable
<1>4. Gathered'
  <2> SUFFICES ASSUME NEW f \in usable, NEW j \in DOMAIN BlocksOf(f), f < unit + 1 \/ (f = unit + 1 /\ j < 1)
               PROVE  BlocksOf(f)[j] \in ToSet(records)
    BY <1>1, <1>2 DEF Gathered
  <2>1. f \in 0..Len(input.domains) /\ j \in Nat /\ j >= 1 /\ DOMAIN BlocksOf(f) = 1..Len(BlocksOf(f))
    BY InputFacts DEF Typed, Usable
  <2>2. CASE f < unit
    BY <2>2 DEF Gathered
  <2>3. CASE f = unit
    <3>1. j < at
      BY <1>1, <2>1, <2>3 DEF Typed
    <3> QED
      BY <2>3, <3>1 DEF Gathered
  <2> QED
    BY <2>1, <2>2, <2>3 DEF Typed
<1>5. NothingDropped' /\ Decided'
  BY <1>1 DEF NothingDropped, Decided
<1>6. Told'
  BY <1>1 DEF Told, LowerTold, NamesTold, NeverBothTold, DelegationsTold
<1> QED
  BY <1>3, <1>4, <1>5, <1>6

LEMMA BlockNamesKeeps ==
    ASSUME PInv, BlockNames PROVE PInv'
<1> USE DEF PInv
<1>1. pass = "lower" /\ unit > Len(input.domains) /\ Report(BlockNameErrors, "cycles")
  BY DEF BlockNames
<1>2. /\ Typed' /\ Gathered' /\ NothingDropped' /\ LowerTold' /\ Decided'
      /\ HasErrors(diags) => HasErrors(diags')
  BY <1>1, Reporting DEF Passes
<1>3. /\ UNCHANGED <<input, stage, records>> /\ diags' = diags \cup BlockNameErrors /\ pass' = "cycles"
  BY <1>1 DEF Report
<1>4. NamesTold'
  BY <1>3, SameFindings DEF NamesTold
<1>5. NeverBothTold' /\ DelegationsTold'
  BY <1>3 DEF NeverBothTold, DelegationsTold
<1> QED
  BY <1>2, <1>4, <1>5 DEF Told

LEMMA DetectCyclesKeeps ==
    ASSUME PInv, DetectCycles PROVE PInv'
<1> USE DEF PInv
<1> DEFINE cyclic == {b \in ToSet(records) : Cyclic(b)}
<1> DEFINE found == {Error(b.file, "actor inheritance cycle", <<b.name>>) : b \in cyclic}
<1> DEFINE following == IF cyclic = {} THEN "never both" ELSE "coverage"
<1>1. pass = "cycles" /\ Report(found, following)
  BY DEF DetectCycles
<1>2. following \in Passes \ {"lower", "done"} /\ unit > Len(input.domains)
  BY <1>1 DEF Passes, Gathered
<1>3. /\ UNCHANGED <<input, stage, records>> /\ diags' = diags \cup found /\ pass' = following
  BY <1>1 DEF Report
<1>4. cyclic # {} => HasErrors(diags')
  <2> SUFFICES ASSUME NEW b \in cyclic PROVE HasErrors(diags')
    OBVIOUS
  <2>1. Error(b.file, "actor inheritance cycle", <<b.name>>) \in diags'
    BY <1>3
  <2> QED
    BY <2>1 DEF HasErrors, Error
<1>5. NeverBothTold' /\ DelegationsTold'
  BY <1>3, <1>4 DEF NeverBothTold, DelegationsTold
<1>6. NamesTold'
  BY <1>1, <1>3, SameFindings DEF Told, NamesTold
<1> HIDE DEF found, following
<1>7. Typed' /\ Gathered' /\ NothingDropped' /\ LowerTold' /\ Decided'
  BY <1>1, <1>2, Reporting
<1> QED
  BY <1>5, <1>6, <1>7 DEF Told

\* A pass after the cycles; what it is about has been said when it ends.
LEMMA PassKeeps ==
    ASSUME PInv, NEW found, NEW following \in Passes \ {"lower", "done"}, Report(found, following),
           pass \notin {"lower", "cycles", "done"},
           \/ pass = "never both" /\ following = "narrowing"
              /\ \A b \in ToSet(records) : NeverBothViolations(b, PooledWith(b)) \subseteq found
           \/ pass = "narrowing" /\ following = "delegations"
           \/ pass = "delegations" /\ following = "obligations"
              /\ \A b \in ToSet(records) : \A d \in Delegations(b) :
                    DelegationErrors(b, d, PooledWith(b), ParentsFor(b)) \subseteq found
           \/ pass = "obligations" /\ following = "coverage"
           \/ pass = "coverage" /\ following = "end"
    PROVE  PInv'
<1> USE DEF PInv
<1>1. unit > Len(input.domains)
  BY DEF Gathered
<1>2. /\ Typed' /\ Gathered' /\ NothingDropped' /\ LowerTold' /\ Decided'
      /\ HasErrors(diags) => HasErrors(diags')
  BY <1>1, Reporting
<1>3. /\ UNCHANGED <<input, stage, records>> /\ diags' = diags \cup found /\ pass' = following
      /\ diags \subseteq diags' /\ ToSet(records)' = ToSet(records)
      /\ \A b : Delegations(b)' = Delegations(b)
  BY DEF Report, ToSet, Delegations
<1>4. NamesTold'
  BY <1>3, SameFindings DEF Told, NamesTold
<1>5. NeverBothTold'
  BY <1>2, <1>3, SameFindings DEF Told, NeverBothTold
<1>6. DelegationsTold'
  BY <1>2, <1>3, SameFindings, ZenonT(40) DEF Told, DelegationsTold
<1> QED
  BY <1>2, <1>4, <1>5, <1>6 DEF Told

LEMMA ValidationKeeps ==
    ASSUME PInv,
           \/ ValidateNeverBoth \/ ValidateSelfNarrowing \/ ValidateDelegations
           \/ ValidateObligations \/ ValidateCoverage
    PROVE  PInv'
<1>1. CASE ValidateNeverBoth
  <2> DEFINE found == UNION {NeverBothViolations(b, PooledWith(b)) : b \in ToSet(records)}
  <2>1. pass = "never both" /\ Report(found, "narrowing")
    BY <1>1 DEF ValidateNeverBoth
  <2>2. \A b \in ToSet(records) : NeverBothViolations(b, PooledWith(b)) \subseteq found
    OBVIOUS
  <2> HIDE DEF found
  <2> QED
    BY <2>1, <2>2, PassKeeps DEF Passes
<1>2. CASE ValidateSelfNarrowing
  BY <1>2, PassKeeps DEF ValidateSelfNarrowing, Passes
<1>3. CASE ValidateDelegations
  <2> DEFINE found == UNION {UNION {DelegationErrors(b, d, PooledWith(b), ParentsFor(b)) :
                                        d \in Delegations(b)} : b \in ToSet(records)}
  <2>1. pass = "delegations" /\ Report(found, "obligations")
    BY <1>3 DEF ValidateDelegations
  <2>2. \A b \in ToSet(records) : \A d \in Delegations(b) :
           DelegationErrors(b, d, PooledWith(b), ParentsFor(b)) \subseteq found
    OBVIOUS
  <2> HIDE DEF found
  <2> QED
    BY <2>1, <2>2, PassKeeps DEF Passes
<1>4. CASE ValidateObligations
  BY <1>4, PassKeeps DEF ValidateObligations, Passes
<1>5. CASE ValidateCoverage
  BY <1>5, PassKeeps DEF ValidateCoverage, Passes
<1> QED
  BY <1>1, <1>2, <1>3, <1>4, <1>5

\* The stage begins again, without the files in error and without records.
LEMMA LowerUnionKeeps ==
    ASSUME PInv, LowerUnion PROVE PInv'
<1> USE DEF PInv
<1>1. /\ UNCHANGED <<input, diags, model>> /\ stage' = "union" /\ usable' = {0} \cup WithModel
      /\ records' = <<>> /\ pass' = "lower" /\ unit' = 0 /\ at' = 1
      /\ stage = "domains"
  BY DEF LowerUnion
<1>2. /\ \A f : BlocksOf(f)' = BlocksOf(f)
      /\ Given' = Given
  BY <1>1 DEF BlocksOf, Given
<1>3. DOMAIN input.domains = 1..Len(input.domains) /\ Len(input.domains) \in Nat
  BY InputFacts DEF Typed
<1>4. Typed'
  <2>1. records' \in Seq(Given') /\ Usable'
    BY <1>1, <1>3 DEF Usable, WithModel
  <2>2. unit' \in Nat /\ at' \in Nat \ {0} /\ pass' \in Passes
    BY <1>1 DEF Passes
  <2> QED
    BY <1>1, <2>1, <2>2 DEF Typed
<1>5. Gathered'
  <2> SUFFICES ASSUME NEW f \in {0} \cup WithModel, NEW j \in DOMAIN BlocksOf(f), f < 0 \/ (f = 0 /\ j < 1)
               PROVE  FALSE
    BY <1>1, <1>2 DEF Gathered
  <2>1. f \in 0..Len(input.domains)
    BY <1>3 DEF WithModel
  <2>2. j \in Nat /\ j >= 1
    BY <2>1, InputFacts DEF Typed
  <2> QED
    BY <2>1, <2>2
<1>6. NothingDropped'
  <2>1. ASSUME ~HasErrors(diags), NEW f \in 1..Len(input.domains)
        PROVE  f \in WithModel
    BY <1>3, <2>1 DEF WithModel, HasErrors
  <2> QED
    BY <1>1, <2>1 DEF NothingDropped
<1>7. LowerTold'
  <2>1. DOMAIN records' = {}
    BY <1>1
  <2> QED
    BY <2>1 DEF LowerTold
<1>8. NamesTold' /\ NeverBothTold' /\ DelegationsTold' /\ Decided'
  BY <1>1 DEF NamesTold, NeverBothTold, DelegationsTold, Decided
<1> QED
  BY <1>4, <1>5, <1>6, <1>7, <1>8 DEF Told

LEMMA FinishKeeps ==
    ASSUME PInv, Finish PROVE PInv'
<1> USE DEF PInv
<1>1. /\ UNCHANGED <<input, stage, usable, unit, at, records, diags>> /\ pass = "end" /\ pass' = "done"
      /\ stage = "union" /\ model' = IF HasErrors(diags) THEN Nothing ELSE records
      /\ ToSet(records)' = ToSet(records) /\ \A b : Delegations(b)' = Delegations(b)
  BY DEF Finish, cursor, ToSet, Delegations
<1>2. Typed' /\ Gathered'
  BY <1>1, SameFindings DEF Typed, Passes, Gathered, Usable
<1>3. NothingDropped' /\ Decided'
  BY <1>1 DEF NothingDropped, Decided
<1>4. LowerTold' /\ NamesTold'
  BY <1>1, SameFindings DEF Told, LowerTold, NamesTold
<1>5. NeverBothTold' /\ DelegationsTold'
  BY <1>1, SameFindings DEF Told, NeverBothTold, DelegationsTold
<1> QED
  BY <1>2, <1>3, <1>4, <1>5 DEF Told

\* The invariant the theorems about accepted policies rest on.
THEOREM PolicyInvariant == Spec => []PInv
<1>1. ASSUME PInv, [Next]_vars PROVE PInv'
  <2>1. CASE UNCHANGED vars
    <3>1. /\ UNCHANGED <<input, stage, pass, usable, unit, at, records, diags, model>>
          /\ ToSet(records)' = ToSet(records) /\ \A b : Delegations(b)' = Delegations(b)
      BY <2>1 DEF vars, cursor, ToSet, Delegations
    <3>2. Typed' /\ Gathered'
      BY <1>1, <3>1, SameFindings DEF PInv, Typed, Gathered, Usable
    <3>3. NothingDropped' /\ Decided' /\ LowerTold' /\ NamesTold'
      BY <1>1, <3>1, SameFindings DEF PInv, NothingDropped, Decided, Told, LowerTold, NamesTold
    <3>4. NeverBothTold' /\ DelegationsTold'
      BY <1>1, <3>1, SameFindings, ZenonT(40) DEF PInv, Told, NeverBothTold, DelegationsTold
    <3> QED
      BY <3>2, <3>3, <3>4 DEF PInv, Told
  <2> QED
    BY <1>1, <2>1, LowerBlockKeeps, NextFileKeeps, BlockNamesKeeps, DetectCyclesKeeps, ValidationKeeps,
       LowerUnionKeeps, FinishKeeps DEF Next
<1> QED
  BY <1>1, InitHolds, PTL DEF Spec

-----------------------------------------------------------------------------
(* The three ways to find a parent agree where no name is declared twice.     *)

LEMMA OnlyMember ==
    ASSUME NEW S, NEW i \in Nat, S = {i}
    PROVE  Max(S) = i /\ Min(S) = i
  BY DEF Max, Min

LEMMA DeclaredOnce ==
    ASSUME NEW b, BlockOK(b), Duplicates(b.actors) = {},
           NEW i \in DOMAIN b.actors, NEW j \in DOMAIN b.actors, b.actors[i].name = b.actors[j].name
    PROVE  i = j
<1> DEFINE names == [k \in DOMAIN b.actors |-> b.actors[k].name]
<1>1. DOMAIN b.actors = 1..Len(b.actors) /\ Len(b.actors) \in Nat
  BY DEF BlockOK, IsSequence
<1>2. \A k \in DOMAIN names : ~\E l \in 1..(k - 1) : names[l] = names[k]
  BY DEF Duplicates, Repeated
<1>3. ASSUME NEW k \in 1..Len(b.actors), NEW l \in 1..Len(b.actors), l < k
      PROVE  names[l] # names[k]
  <2>1. l \in 1..(k - 1) /\ k \in DOMAIN names
    BY <1>1, <1>3
  <2> QED
    BY <1>2, <2>1
<1>4. names[i] = names[j] /\ i \in 1..Len(b.actors) /\ j \in 1..Len(b.actors)
  BY <1>1
<1> HIDE DEF names
<1> QED
  BY <1>1, <1>3, <1>4

LEMMA ParentsAgree ==
    ASSUME NEW b, BlockOK(b), Duplicates(b.actors) = {}
    PROVE  BlockParents(b) = CedarParents(b) /\ UnionParents(<<b>>) = CedarParents(b)
<1> DEFINE declared(n) == {i \in DOMAIN b.actors : b.actors[i].name = n}
<1> DEFINE parent(n) == IF declared(n) = {} THEN Nothing ELSE b.actors[Min(declared(n))].parent
<1>1. DOMAIN b.actors \subseteq Nat
  BY DEF BlockOK, IsSequence
<1>2. ASSUME NEW n \in Names, Extending(b, n) # {}
      PROVE  \E i \in Nat : Extending(b, n) = {i} /\ declared(n) = {i}
  <2>1. PICK i \in DOMAIN b.actors : b.actors[i].name = n /\ b.actors[i].parent # Nothing
    BY <1>2 DEF Extending
  <2>2. declared(n) = {i}
    BY <2>1, DeclaredOnce
  <2>3. Extending(b, n) = {i}
    BY <2>1, <2>2 DEF Extending
  <2> QED
    BY <1>1, <2>2, <2>3
<1>3. ASSUME NEW n \in Names, Extending(b, n) = {}
      PROVE  parent(n) = Nothing
  <2> SUFFICES ASSUME declared(n) # {} PROVE b.actors[Min(declared(n))].parent = Nothing
    OBVIOUS
  <2>1. PICK i \in DOMAIN b.actors : b.actors[i].name = n
    OBVIOUS
  <2>2. declared(n) = {i}
    BY <2>1, DeclaredOnce
  <2>3. Min(declared(n)) = i
    BY <1>1, <2>2, OnlyMember
  <2> QED
    BY <1>3, <2>1, <2>3 DEF Extending
<1>4. ASSUME NEW n \in Names, Extending(b, n) # {}
      PROVE  /\ b.actors[Max(Extending(b, n))].parent = parent(n)
             /\ b.actors[Min(Extending(b, n))].parent = parent(n)
  <2>1. PICK i \in Nat : Extending(b, n) = {i} /\ declared(n) = {i}
    BY <1>2, <1>4
  <2>2. Max(Extending(b, n)) = i /\ Min(Extending(b, n)) = i /\ Min(declared(n)) = i
    BY <2>1, OnlyMember
  <2> QED
    BY <2>1, <2>2
<1>5. BlockParents(b) = [n \in Names |-> parent(n)]
  BY <1>3, <1>4 DEF BlockParents
<1>6. CedarParents(b) = [n \in Names |-> parent(n)]
  BY DEF CedarParents
<1>7. ASSUME NEW n \in Names
      PROVE  UnionParents(<<b>>)[n] = parent(n)
  <2> DEFINE extend == {k \in DOMAIN <<b>> : Extending(<<b>>[k], n) # {}}
  <2>1. DOMAIN <<b>> = {1} /\ <<b>>[1] = b
    OBVIOUS
  <2>2. CASE Extending(b, n) = {}
    <3>1. extend = {}
      BY <2>1, <2>2
    <3> QED
      BY <1>3, <2>2, <3>1 DEF UnionParents
  <2>3. CASE Extending(b, n) # {}
    <3>1. extend = {1}
      BY <2>1, <2>3
    <3>2. Min(extend) = 1
      BY <3>1, OnlyMember
    <3>3. UnionParents(<<b>>)[n] = b.actors[Min(Extending(b, n))].parent
      BY <2>1, <3>1, <3>2 DEF UnionParents
    <3> QED
      BY <1>4, <2>3, <3>3
  <2> QED
    BY <2>2, <2>3
<1>8. UnionParents(<<b>>) = [n \in Names |-> UnionParents(<<b>>)[n]]
  BY DEF UnionParents
<1> QED
  BY <1>5, <1>6, <1>7, <1>8

-----------------------------------------------------------------------------
(* What acceptance tells of a block. *)

LEMMA NoErrors ==
    ASSUME NEW D, D \subseteq diags, ~HasErrors(diags)
    PROVE  \A file, code, about : Error(file, code, about) \notin D
  BY DEF HasErrors, Error

LEMMA AcceptedFacts ==
    ASSUME PInv, Accepted
    PROVE  /\ ~HasErrors(diags) /\ model = records /\ stage = "union" /\ pass = "done"
           /\ \A b \in ToSet(model) :
                 /\ b \in Given /\ BlockOK(b) /\ Duplicates(b.actors) = {}
                 /\ Refs(b) \subseteq NamesOf(b.capabilities)
                 /\ NeverBothViolations(b, PooledWith(b)) = {}
                 /\ \A d \in Delegations(b) : DelegationErrors(b, d, PooledWith(b), ParentsFor(b)) = {}
<1> USE DEF PInv
<1>1. ~HasErrors(diags) /\ model = records /\ stage = "union" /\ pass = "done"
  BY DEF Decided, Accepted
<1> SUFFICES ASSUME NEW b \in ToSet(model)
             PROVE  /\ b \in Given /\ BlockOK(b) /\ Duplicates(b.actors) = {}
                    /\ Refs(b) \subseteq NamesOf(b.capabilities)
                    /\ NeverBothViolations(b, PooledWith(b)) = {}
                    /\ \A d \in Delegations(b) : DelegationErrors(b, d, PooledWith(b), ParentsFor(b)) = {}
  BY <1>1
<1>2. PICK i \in DOMAIN records : records[i] = b
  BY <1>1 DEF ToSet
<1>3. b \in Given
  BY <1>2 DEF Typed
<1>4. BlockOK(b)
  BY <1>3, InputFacts DEF Typed
<1>5. LowerErrors(b) \subseteq diags
  BY <1>2 DEF Told, LowerTold
<1>6. Duplicates(b.actors) = {}
  <2> SUFFICES ASSUME NEW n \in Duplicates(b.actors) PROVE FALSE
    OBVIOUS
  <2>1. Error(b.file, "duplicate actor", <<n>>) \in LowerErrors(b)
    BY DEF LowerErrors, ActorErrors
  <2> QED
    BY <1>1, <1>5, <2>1, NoErrors
<1>7. Refs(b) \subseteq NamesOf(b.capabilities)
  <2> SUFFICES ASSUME NEW c \in Refs(b) \ NamesOf(b.capabilities) PROVE FALSE
    OBVIOUS
  <2>1. Error(b.file, "unknown capability", <<c>>) \in LowerErrors(b)
    BY DEF LowerErrors, GrantErrors
  <2> QED
    BY <1>1, <1>5, <2>1, NoErrors
<1>8. /\ NeverBothViolations(b, PooledWith(b)) \subseteq diags
      /\ \A d \in Delegations(b) : DelegationErrors(b, d, PooledWith(b), ParentsFor(b)) \subseteq diags
  BY <1>1 DEF Told, NeverBothTold, DelegationsTold
<1>9. NeverBothViolations(b, PooledWith(b)) = {}
  <2> SUFFICES ASSUME NEW v \in NeverBothViolations(b, PooledWith(b)) PROVE FALSE
    OBVIOUS
  <2>1. PICK about : v = Error(b.file, "never_both", about)
    BY DEF NeverBothViolations
  <2> QED
    BY <1>1, <1>8, <2>1, NoErrors
<1>10. ASSUME NEW d \in Delegations(b), NEW v \in DelegationErrors(b, d, PooledWith(b), ParentsFor(b))
       PROVE  FALSE
  <2>1. PICK code, about : v = Error(b.file, code, about)
    BY <1>10 DEF DelegationErrors, TargetErrors
  <2> QED
    BY <1>1, <1>8, <1>10, <2>1, NoErrors
<1> QED
  BY <1>3, <1>4, <1>6, <1>7, <1>9, <1>10

LEMMA PooledUnion ==
    ASSUME PInv, Accepted, input.host = "single" => Len(model) = 1
    PROVE  \A b \in ToSet(model) :
              PooledWith(b) = model /\ ParentsFor(b) = UnionParents(model)
<1> SUFFICES ASSUME NEW b \in ToSet(model)
             PROVE  PooledWith(b) = model /\ ParentsFor(b) = UnionParents(model)
  OBVIOUS
<1>1. model = records /\ BlockOK(b) /\ Duplicates(b.actors) = {}
  BY AcceptedFacts
<1>2. CASE input.host # "single"
  BY <1>1, <1>2 DEF PooledWith, ParentsFor
<1>3. CASE input.host = "single"
  <2>1. model \in Seq(Given) /\ Len(model) = 1
    BY <1>1, <1>3 DEF PInv, Typed
  <2>2. PICK i \in DOMAIN model : model[i] = b
    BY DEF ToSet
  <2>3. model = <<b>>
    BY <2>1, <2>2
  <2>4. PooledWith(b) = <<b>> /\ ParentsFor(b) = BlockParents(b)
    BY <1>3 DEF PooledWith, ParentsFor
  <2> QED
    BY <1>1, <2>3, <2>4, ParentsAgree
<1> QED
  BY <1>2, <1>3

-----------------------------------------------------------------------------
(* The theorems. *)

LEMMA PolicyOfEntry ==
    ASSUME NEW b, NEW g \in Grants(b), NEW e \in Entries(g), e.effect # "cedar",
           NEW n \in ActorsInheriting(b, g.actor)
    PROVE  [effect |-> e.effect, principal |-> n, capability |-> e.capability] \in Policies(b)
<1> DEFINE Of(h) == {[effect |-> x.effect, principal |-> m, capability |-> x.capability] :
                        x \in {y \in Entries(h) : y.effect # "cedar"}, m \in ActorsInheriting(b, h.actor)}
<1>1. [effect |-> e.effect, principal |-> n, capability |-> e.capability] \in Of(g)
  OBVIOUS
<1>2. Policies(b) = UNION {Of(h) : h \in Grants(b)}
  BY DEF Policies
<1> HIDE DEF Of
<1> QED
  BY <1>1, <1>2

LEMMA PermitsOfPolicies ==
    ASSUME NEW b, NEW n, n \in ActorNames(b)
    PROVE  PermitsIn(Policies(b), n) = GrantPermits(b, Lineage(CedarParents(b), n))
<1>1. ASSUME NEW c \in PermitsIn(Policies(b), n)
      PROVE  c \in GrantPermits(b, Lineage(CedarParents(b), n))
  <2>1. PICK p \in Policies(b) : p.effect = "permit" /\ p.principal = n /\ p.capability = c
    BY <1>1 DEF PermitsIn
  <2>2. PICK g \in Grants(b) :
           p \in {[effect |-> e.effect, principal |-> m, capability |-> e.capability] :
                    e \in {x \in Entries(g) : x.effect # "cedar"}, m \in ActorsInheriting(b, g.actor)}
    BY <2>1 DEF Policies
  <2>3. PICK e \in Entries(g), m \in ActorsInheriting(b, g.actor) :
           p = [effect |-> e.effect, principal |-> m, capability |-> e.capability]
    BY <2>2
  <2>4. e.effect = "permit" /\ m = n /\ e.capability = c
    BY <2>1, <2>3
  <2>5. g.actor \in Lineage(CedarParents(b), n) /\ c \in Permits(g)
    BY <2>3, <2>4 DEF ActorsInheriting, Permits
  <2> QED
    BY <2>2, <2>5 DEF GrantPermits
<1>2. ASSUME NEW c \in GrantPermits(b, Lineage(CedarParents(b), n))
      PROVE  c \in PermitsIn(Policies(b), n)
  <2>1. PICK g \in Grants(b) : g.actor \in Lineage(CedarParents(b), n) /\ c \in Permits(g)
    BY <1>2 DEF GrantPermits
  <2>2. PICK e \in Entries(g) : e.effect = "permit" /\ e.capability = c
    BY <2>1 DEF Permits
  <2>3. n \in ActorsInheriting(b, g.actor)
    BY <2>1 DEF ActorsInheriting
  <2> DEFINE p == [effect |-> e.effect, principal |-> n, capability |-> e.capability]
  <2>4. p \in Policies(b)
    BY <2>2, <2>3, PolicyOfEntry
  <2>5. p.effect = "permit" /\ p.principal = n /\ p.capability = c
    BY <2>2
  <2> QED
    BY <2>4, <2>5 DEF PermitsIn
<1> QED
  BY <1>1, <1>2

\* CedarSeparated for every input (policy_set, validate_actor_never_both): of
\* what an accepted block forbids anybody to have both of, the generated
\* policies permit nobody both.
THEOREM PoliciesAreSeparated == Spec => []CedarSeparated
<1>1. ASSUME PInv PROVE CedarSeparated
  <2> SUFFICES ASSUME Accepted, NEW b \in ToSet(model), NEW p \in Pairs(b), NEW n \in ActorNames(b),
                      ToSet(p) \subseteq PermitsIn(Policies(b), n)
               PROVE  FALSE
    BY DEF CedarSeparated
  <2>1. BlockOK(b) /\ Duplicates(b.actors) = {} /\ NeverBothViolations(b, PooledWith(b)) = {} /\ model = records
    BY <1>1, AcceptedFacts
  <2>2. b \in ToSet(PooledWith(b))
    BY <2>1 DEF PooledWith, ToSet
  <2>3. PermitsIn(Policies(b), n) = GrantPermits(b, Lineage(BlockParents(b), n))
    BY <2>1, PermitsOfPolicies, ParentsAgree
  <2>4. PermitsIn(Policies(b), n) \subseteq UnionPermits(PooledWith(b), n)
    BY <2>2, <2>3 DEF UnionPermits, EffectivePermits
  <2>5. n \in AllNames(PooledWith(b))
    BY <2>2 DEF AllNames
  <2>6. ToSet(p) \subseteq UnionPermits(PooledWith(b), n)
    BY <2>4
  <2>7. Error(b.file, "never_both", <<n, p>>) \in NeverBothViolations(b, PooledWith(b))
    BY <2>5, <2>6 DEF NeverBothViolations
  <2> QED
    BY <2>1, <2>7
<1> QED
  BY <1>1, PolicyInvariant, PTL

\* DelegationsContained for every input (validate_actor_delegations_union,
\* agent_tool_manifests): nothing is delegated that its target lacks.
THEOREM DelegationsAreContained == Spec => []DelegationsContained
<1>1. ASSUME PInv PROVE DelegationsContained
  <2> SUFFICES ASSUME Accepted, input.host = "single" => Len(model) = 1,
                      NEW b \in ToSet(model), NEW d \in Delegations(b)
               PROVE  d.to \in Agents /\ Permits(d) \subseteq Tools(d.to)
    BY DEF DelegationsContained
  <2>1. /\ Refs(b) \subseteq NamesOf(b.capabilities)
        /\ DelegationErrors(b, d, model, UnionParents(model)) = {}
    BY <1>1, AcceptedFacts, PooledUnion
  <2>2. d.to \in AllNames(model)
    BY <2>1 DEF DelegationErrors
  <2>3. TargetErrors(b, d, model, UnionParents(model)) = {}
    BY <2>1, <2>2 DEF DelegationErrors
  <2>4. KindOf(model, UnionParents(model), d.to) = "agent"
    BY <2>3 DEF TargetErrors
  <2>5. Permits(d) \subseteq Refs(b)
    BY DEF Permits, Refs
  <2>6. Permits(d) \cap NamesOf(b.capabilities) \subseteq Authority(d, model, UnionParents(model))
    BY <2>3 DEF TargetErrors
  <2> QED
    BY <2>1, <2>2, <2>4, <2>5, <2>6 DEF Agents, Tools, Authority
<1> QED
  BY <1>1, PolicyInvariant, PTL

\* SchemaFitsPolicies for every input (policy_set, reaches_capability): the
\* principal types of an action are those some policy or delegation is about.
THEOREM SchemaFits == Spec => []SchemaFitsPolicies
<1>1. ASSUME PInv PROVE SchemaFitsPolicies
  <2> SUFFICES ASSUME Accepted, NEW b \in ToSet(model), NEW c \in NamesOf(b.capabilities)
               PROVE  LET addressed == {p.principal : p \in {q \in Policies(b) : q.capability = c}}
                          delegated == {n \in ActorNames(b) : \E d \in Delegations(b) :
                             /\ c \in {e.capability : e \in Entries(d)}
                             /\ d.to \in Lineage(CedarParents(b), n)}
                      IN  PrincipalTypes(b, c) = addressed \cup delegated
    BY DEF SchemaFitsPolicies
  <2> DEFINE addressed == {p.principal : p \in {q \in Policies(b) : q.capability = c}}
             delegated == {n \in ActorNames(b) : \E d \in Delegations(b) :
                             /\ c \in {e.capability : e \in Entries(d)}
                             /\ d.to \in Lineage(CedarParents(b), n)}
  <2>1. \A d \in Delegations(b) : \A e \in Entries(d) : e.effect # "cedar"
    <3>1. BlockOK(b)
      BY <1>1, AcceptedFacts
    <3> QED
      BY <3>1 DEF BlockOK, DelegationOK, Delegations, Entries, ToSet
  <2>2. ASSUME NEW n \in PrincipalTypes(b, c), n \notin delegated PROVE n \in addressed
    <3>1. PICK m \in Lineage(CedarParents(b), n) : c \in Named(b, m)
      BY <2>2 DEF PrincipalTypes
    <3>2. PICK e : /\ e.effect # "cedar" /\ e.capability = c
                   /\ \/ \E g \in Grants(b) : g.actor = m /\ e \in Entries(g)
                      \/ \E d \in Delegations(b) : d.to = m /\ e \in Entries(d)
      BY <3>1 DEF Named
    <3>3. n \in ActorNames(b)
      BY <2>2 DEF PrincipalTypes
    <3>4. PICK g \in Grants(b) : g.actor = m /\ e \in Entries(g)
      BY <2>2, <3>1, <3>2, <3>3
    <3>5. n \in ActorsInheriting(b, g.actor)
      BY <3>1, <3>3, <3>4 DEF ActorsInheriting
    <3> DEFINE p == [effect |-> e.effect, principal |-> n, capability |-> e.capability]
    <3>6. p \in Policies(b)
      BY <3>2, <3>4, <3>5, PolicyOfEntry
    <3>7. p.capability = c /\ p.principal = n
      BY <3>2
    <3> QED
      BY <3>6, <3>7
  <2>3. ASSUME NEW n \in addressed PROVE n \in PrincipalTypes(b, c)
    <3>1. PICK p \in Policies(b) : p.capability = c /\ p.principal = n
      BY <2>3
    <3>2. PICK g \in Grants(b) :
           p \in {[effect |-> e.effect, principal |-> m, capability |-> e.capability] :
                    e \in {x \in Entries(g) : x.effect # "cedar"}, m \in ActorsInheriting(b, g.actor)}
      BY <3>1 DEF Policies
    <3>3. PICK e \in Entries(g), m \in ActorsInheriting(b, g.actor) :
           e.effect # "cedar" /\ p = [effect |-> e.effect, principal |-> m, capability |-> e.capability]
      BY <3>2
    <3>4. m = n /\ e.capability = c
      BY <3>1, <3>3
    <3>5. g.actor \in Lineage(CedarParents(b), n) /\ n \in ActorNames(b)
      BY <3>3, <3>4 DEF ActorsInheriting
    <3>6. c \in Named(b, g.actor)
      BY <3>2, <3>3, <3>4 DEF Named
    <3> QED
      BY <3>5, <3>6 DEF PrincipalTypes
  <2>4. ASSUME NEW n \in delegated PROVE n \in PrincipalTypes(b, c)
    <3>1. PICK d \in Delegations(b) :
             c \in {e.capability : e \in Entries(d)} /\ d.to \in Lineage(CedarParents(b), n)
      BY <2>4
    <3>2. PICK e \in Entries(d) : e.capability = c
      BY <3>1
    <3>3. e.effect # "cedar"
      BY <2>1, <3>2
    <3>4. c \in Named(b, d.to)
      BY <3>1, <3>2, <3>3 DEF Named
    <3> QED
      BY <2>4, <3>1, <3>4 DEF PrincipalTypes
  <2>5. PrincipalTypes(b, c) \subseteq addressed \cup delegated
    BY <2>2
  <2> QED
    BY <2>3, <2>4, <2>5
<1> QED
  BY <1>1, PolicyInvariant, PTL

\* ToolsArePolicies for every input (effective_tools, policy_set): the tools of
\* an agent are what its policies permit.
THEOREM ToolsAreWhatPoliciesPermit == Spec => []ToolsArePolicies
<1>1. ASSUME PInv PROVE ToolsArePolicies
  <2> SUFFICES ASSUME Accepted, Len(model) = 1, NEW n \in Agents
               PROVE  Tools(n) = PermitsIn(Policies(model[1]), n)
    BY DEF ToolsArePolicies
  <2> DEFINE b == model[1]
  <2>1. model \in Seq(Given)
    BY <1>1, AcceptedFacts DEF PInv, Typed
  <2>2. model = <<b>> /\ ToSet(model) = {b}
    BY <2>1 DEF ToSet
  <2>3. BlockOK(b) /\ Duplicates(b.actors) = {}
    BY <1>1, <2>2, AcceptedFacts
  <2>4. n \in ActorNames(b)
    BY <2>2 DEF Agents, AllNames
  <2> HIDE DEF b
  <2>5. UnionParents(model) = CedarParents(b)
    BY <2>2, <2>3, ParentsAgree
  <2>6. Tools(n) = GrantPermits(b, Lineage(CedarParents(b), n))
    BY <2>2, <2>5 DEF Tools
  <2>7. Tools(n) = PermitsIn(Policies(b), n)
    BY <2>4, <2>6, PermitsOfPolicies
  <2> QED
    BY <2>7 DEF b
<1> QED
  BY <1>1, PolicyInvariant, PTL

\* AllPoliciesWritten for every input (compile_actor_file, generate): every
\* block of every file of an accepted compilation has its policy set.
THEOREM EveryBlockIsWritten == Spec => []AllPoliciesWritten
<1>1. ASSUME PInv PROVE AllPoliciesWritten
  <2> SUFFICES ASSUME Accepted, input.host # "multi",
                      NEW f \in 0..Len(input.domains), NEW b \in ToSet(BlocksOf(f))
               PROVE  b \in ToSet(model) /\ CedarFile(b.name) = Policies(b)
    BY DEF AllPoliciesWritten
  <2> USE DEF PInv
  <2>1. ~HasErrors(diags) /\ model = records /\ stage = "union" /\ pass = "done"
    BY <1>1, AcceptedFacts
  <2>2. InputOK(input) /\ Len(input.domains) \in Nat /\ DOMAIN input.domains = 1..Len(input.domains)
    BY <1>1, InputFacts DEF Typed
  <2>3. f \in usable /\ unit > Len(input.domains) /\ unit \in Nat
    <3>1. input.host \in {"single", "actor"}
      BY <2>2 DEF InputOK
    <3>2. 0 \in usable /\ \A g \in 1..Len(input.domains) : g \in usable
      BY <1>1, <2>1, <3>1 DEF NothingDropped
    <3> QED
      BY <1>1, <2>1, <2>2, <3>2 DEF Gathered, Typed
  <2>4. b \in ToSet(model)
    <3>1. PICK j \in DOMAIN BlocksOf(f) : BlocksOf(f)[j] = b
      BY DEF ToSet
    <3>2. f < unit
      BY <2>2, <2>3
    <3> QED
      BY <1>1, <2>1, <2>3, <3>1, <3>2 DEF Gathered
  <2>5. model \in Seq(Given) /\ DOMAIN model = 1..Len(model) /\ Len(model) \in Nat
    BY <1>1, <2>1 DEF Typed
  <2>6. ASSUME NEW k \in DOMAIN model, NEW l \in 1..(k - 1)
        PROVE  model[l].name # model[k].name
    <3>1. model[k] \in Given /\ model[l] \in Given
      BY <2>5
    <3>2. input.host = "actor" \/ model[l].file = model[k].file
      <4> SUFFICES ASSUME input.host = "single" PROVE model[l].file = model[k].file
        BY <2>2 DEF InputOK
      <4>1. Len(input.domains) = 0
        BY <2>2 DEF InputOK
      <4>2. Given = ToSet(input.own)
        BY <4>1 DEF Given, BlocksOf
      <4> QED
        BY <2>2, <3>1, <4>2 DEF InputOK, ToSet
    <3>3. Error(model[k].file, "duplicate actors block", <<model[k].name>>) \notin BlockNameErrors
      BY <1>1, <2>1, NoErrors DEF Told, NamesTold
    <3> QED
      BY <2>1, <3>2, <3>3 DEF BlockNameErrors
  <2>7. PICK i \in DOMAIN model : model[i] = b
    BY <2>4 DEF ToSet
  <2>8. ASSUME NEW k \in DOMAIN model, model[k].name = b.name PROVE k = i
    <3>1. ~(i < k)
      <4> SUFFICES ASSUME i < k PROVE FALSE
        OBVIOUS
      <4>1. i \in 1..(k - 1)
        BY <2>5
      <4> QED
        BY <2>6, <2>7, <2>8, <4>1
    <3>2. ~(k < i)
      <4> SUFFICES ASSUME k < i PROVE FALSE
        OBVIOUS
      <4>1. k \in 1..(i - 1)
        BY <2>5
      <4> QED
        BY <2>6, <2>7, <2>8, <4>1
    <3> QED
      BY <2>5, <3>1, <3>2
  <2>9. {k \in DOMAIN model : model[k].name = b.name} = {i} /\ i \in Nat
    BY <2>5, <2>7, <2>8
  <2>10. Max({k \in DOMAIN model : model[k].name = b.name}) = i
    BY <2>9, OnlyMember
  <2>11. CedarFile(b.name) = Policies(b)
    BY <2>7, <2>10 DEF CedarFile
  <2> QED
    BY <2>4, <2>11
<1> QED
  BY <1>1, PolicyInvariant, PTL
=============================================================================
