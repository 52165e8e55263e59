------------------------------ MODULE CyclePass ------------------------------
(***************************************************************************)
(* The compiler's inheritance passes: detect_inheritance_cycles over the   *)
(* classes of a compilation and detect_actor_cycles over the actors of a   *)
(* block.  Both build a kernel graph, link each declaration to what it     *)
(* extends, and report the first refused edge as a ring that they find by  *)
(* walking the graph's parent lists.                                       *)
(*                                                                         *)
(* A declaration has a name, not necessarily its own, and the names it     *)
(* extends in order; an actor extends at most one.                         *)
(***************************************************************************)
EXTENDS AncestorGraph

CONSTANTS AllNames, \* what a declaration may be called
          Inputs,   \* the compilations considered, see InputOK
          MaxFree,  \* bound on the nodes of any other client
          NoRing    \* nothing to report

VARIABLES
    input,   \* [pass, declarations]
    phase,   \* "nodes", "links", "ring", "done"; "free" for any other client
    at,      \* the declaration whose edges are linked
    sup,     \* the position in its list of superclasses
    chain,   \* the ring walk's path
    met,     \* the nodes it has been to
    report   \* the reported ring, as names

passVars == <<phase, at, sup, chain, met, report>>
vars == <<kernelVars, input, passVars>>

Declarations == input.declarations
Name(i) == Declarations[i].name
Names == {Name(i) : i \in DOMAIN Declarations}

InputOK(in) ==
    /\ in.pass \in {"classes", "actors", "free"}
    /\ in.declarations \in Seq([name : AllNames, extends : Seq(AllNames)])
    /\ Len(in.declarations) <= MaxNodes
    /\ in.pass = "actors" =>
          \A i \in DOMAIN in.declarations : Len(in.declarations[i].extends) <= 1

ASSUME PassAssumption == (\A in \in Inputs : InputOK(in)) /\ NoRing \notin Seq(AllNames)

\* The maps are filled in declaration order: the last of a name counts.
LastOf(S) == CHOOSE i \in S : \A j \in S : j <= i
IdOf(name) == LastOf({i \in DOMAIN Declarations : Name(i) = name}) - 1

\* What declaration i is linked to: its own list for a class; for an actor the
\* parent that the last actor of its name declares.
Supers(i) ==
    IF input.pass = "classes" THEN Declarations[i].extends
    ELSE LET same == {j \in DOMAIN Declarations :
                        Name(j) = Name(i) /\ Declarations[j].extends # <<>>}
         IN  IF same = {} THEN <<>> ELSE Declarations[LastOf(same)].extends

-----------------------------------------------------------------------------
Init ==
    /\ KernelInit
    /\ input \in Inputs
    /\ phase = IF input.pass = "free" THEN "free" ELSE "nodes"
    /\ at = 1 /\ sup = 1
    /\ chain = <<>> /\ met = {}
    /\ report = NoRing

\* One node for every declaration.
AddDeclaration ==
    /\ phase = "nodes"
    /\ IF count < Len(Declarations)
       THEN AddNode /\ UNCHANGED phase
       ELSE phase' = "links" /\ UNCHANGED kernelVars
    /\ UNCHANGED <<input, at, sup, chain, met, report>>

AtEdge == phase = "links" /\ pc = "idle" /\ at <= Len(Declarations) /\ sup <= Len(Supers(at))
Super == Supers(at)[sup]

\* A name nothing declares is no edge; its diagnostic is another pass's.
SkipUnknown ==
    /\ AtEdge
    /\ Super \notin Names
    /\ sup' = sup + 1
    /\ UNCHANGED <<kernelVars, input, phase, at, chain, met, report>>

LinkEdge ==
    /\ AtEdge /\ answer = "none"
    /\ Super \in Names
    /\ CallLink(IdOf(Super), IdOf(Name(at)))
    /\ UNCHANGED <<input, passVars>>

WalkEdge ==
    /\ phase = "links" /\ pc # "idle"
    /\ LinkStep
    /\ UNCHANGED <<input, passVars>>

\* Consume the answer of link.
Answered == phase = "links" /\ pc = "idle" /\ answer' = "none" /\ UNCHANGED <<graphVars, walkVars, pc>>

\* Mutant: a linked edge ends the declaration.
EdgeLinkedLeaves ==
    /\ Answered /\ answer = "linked"
    /\ at' = at + 1 /\ sup' = 1
    /\ UNCHANGED <<input, phase, chain, met, report>>

EdgeLinked ==
    /\ Answered /\ answer = "linked"
    /\ sup' = sup + 1
    /\ UNCHANGED <<input, phase, at, chain, met, report>>

SelfRefused ==
    /\ Answered /\ answer = "refused"
    /\ edge.parent = edge.child
    /\ report' = <<Super, Super>>
    /\ phase' = "done"
    /\ UNCHANGED <<input, at, sup, chain, met>>

RingFrom ==
    /\ Answered /\ answer = "refused"
    /\ edge.parent # edge.child
    /\ chain' = <<edge.parent>> /\ met' = {edge.parent}
    /\ phase' = "ring"
    /\ UNCHANGED <<input, at, sup, report>>

NextDeclaration ==
    /\ phase = "links" /\ pc = "idle" /\ at <= Len(Declarations) /\ sup > Len(Supers(at))
    /\ at' = at + 1 /\ sup' = 1
    /\ UNCHANGED <<kernelVars, input, phase, chain, met, report>>

NoCycle ==
    /\ phase = "links" /\ at > Len(Declarations)
    /\ phase' = "done"
    /\ UNCHANGED <<kernelVars, input, at, sup, chain, met, report>>

\* The positions of the parents of the chain's end that the walk has not met.
Unmet ==
    {i \in 1..Len(parents[Last(chain)]) : parents[Last(chain)][i] \notin met}

WalkingRing == phase = "ring" /\ chain # <<>> /\ Last(chain) # edge.child

\* Mutant: a dead end stays on the chain's path.
ExtendSkipping ==
    /\ WalkingRing /\ Unmet # {}
    /\ LET p == parents[Last(chain)][CHOOSE i \in Unmet : \A j \in Unmet : i <= j]
       IN  chain' = Append(Front(chain), p) /\ met' = met \cup {p}
    /\ UNCHANGED <<kernelVars, input, phase, at, sup, report>>

Extend ==
    /\ WalkingRing /\ Unmet # {}
    /\ LET p == parents[Last(chain)][CHOOSE i \in Unmet : \A j \in Unmet : i <= j]
       IN  chain' = Append(chain, p) /\ met' = met \cup {p}
    /\ UNCHANGED <<kernelVars, input, phase, at, sup, report>>

\* Mutant: the search turns round instead of backing up.
TurnRound ==
    /\ WalkingRing /\ Unmet = {}
    /\ met' = {Last(chain)}
    /\ UNCHANGED <<kernelVars, input, phase, at, sup, chain, report>>

BackUp ==
    /\ WalkingRing /\ Unmet = {}
    /\ chain' = Front(chain)
    /\ UNCHANGED <<kernelVars, input, phase, at, sup, met, report>>

RingNames == [i \in 1..(Len(chain) + 1) |->
                 Name((IF i <= Len(chain) THEN chain[i] ELSE edge.parent) + 1)]

ReportRing ==
    /\ phase = "ring" /\ (chain = <<>> \/ Last(chain) = edge.child)
    /\ report' = RingNames
    /\ phase' = "done"
    /\ UNCHANGED <<kernelVars, input, at, sup, chain, met>>

PassNext ==
    \/ AddDeclaration \/ SkipUnknown \/ LinkEdge \/ WalkEdge \/ EdgeLinked
    \/ SelfRefused \/ RingFrom \/ NextDeclaration \/ NoCycle
    \/ Extend \/ BackUp \/ ReportRing

\* Any other client of the kernel.
FreeNext == phase = "free" /\ KernelNext /\ count' <= MaxFree /\ UNCHANGED <<input, passVars>>

Next == PassNext \/ FreeNext

\* A pass is a function that runs to its end.
Spec == Init /\ [][Next]_vars /\ WF_vars(PassNext)

-----------------------------------------------------------------------------
(* Properties. *)

\* x extends y, as some declaration says it.
Extends(x, y) ==
    \E i \in DOMAIN Declarations : Name(i) = x /\ In(y, Supers(i))

\* A reported ring is one: each name extends the one after it, back to the
\* first, as the message "a extends b extends a" claims.
RingIsCycle ==
    report # NoRing =>
        /\ Len(report) > 1
        /\ report[1] = report[Len(report)]
        /\ \A i \in 1..(Len(report) - 1) : Extends(report[i], report[i + 1])

\* A pass reports a ring exactly when what the declarations extend is cyclic.
ReportsIffCyclic ==
    phase = "done" =>
        (report # NoRing <=>
            \E S \in SUBSET Names : S # {} /\ \A x \in S : \E y \in S : Extends(x, y))

\* What a pass reports is right: the ring, and that there is one.
ReportsAreRight == RingIsCycle /\ ReportsIffCyclic

\* The loops of the pass, the walks and the search for the ring, all end.
PassEnds == phase # "free" ~> phase = "done"
=============================================================================
