---------------------------- MODULE PolicySurface ----------------------------
(***************************************************************************)
(* Actor policies: the lowering of `actors` blocks, their validation per   *)
(* block or over the union of several files, and the two projections of an *)
(* accepted policy, Cedar policy sets and the tool manifests of agents.    *)
(*                                                                         *)
(* A compilation runs pass by pass, as compile, compile_multi and          *)
(* compile_actor_file do; the latter compiles the imported domains first   *)
(* (stage "domains"), drops those that failed, and lowers the union of the *)
(* actor file and the rest.  Lowering goes file by file and block by block. *)
(* A diagnostic is its file, severity, code and  *)
(* the names it is about.  `when` conditions are left out, and whether the *)
(* class of a capability resolves is a flag of its declaration.            *)
(***************************************************************************)
EXTENDS Naturals, Sequences, FiniteSets, SequencesExt

CONSTANTS
    Names,        \* what actors may be called
    Capabilities, \* what capabilities may be called
    Inputs,       \* the compilations considered
    Nothing       \* no parent, no purpose, no designs

Kinds == {"undeclared", "agent"}
Effects == {"permit", "forbid", "cedar"}

IsSequence(x) == x \in Seq(ToSet(x))

EntryOK(e) == e.effect \in Effects /\ e.capability \in Capabilities /\ IsFiniteSet(e.obligations)
DelegationOK(d) == /\ d.from \in Names /\ d.to \in Names
                   /\ \A i \in DOMAIN d.entries :
                         EntryOK(d.entries[i]) /\ d.entries[i].effect # "cedar"
BlockOK(b) ==
    /\ IsSequence(b.actors)
    /\ \A i \in DOMAIN b.actors : /\ b.actors[i].name \in Names
                                  /\ b.actors[i].parent \in Names \cup {Nothing}
                                  /\ b.actors[i].kind \in Kinds
    /\ \A i \in DOMAIN b.capabilities : b.capabilities[i].name \in Capabilities
    /\ \A i \in DOMAIN b.grants : /\ b.grants[i].actor \in Names
                                  /\ \A j \in DOMAIN b.grants[i].entries :
                                        EntryOK(b.grants[i].entries[j])
    /\ \A i \in DOMAIN b.delegations : DelegationOK(b.delegations[i])

\* host: "single" (one .mox file), "multi" (several) or "actor" (an .actor file
\* and the domains it imports); own: the blocks of the single or the .actor
\* file; domains: the other files; designs: the capabilities they carry.
InputOK(in) ==
    /\ in.host \in {"single", "multi", "actor"}
    /\ in.host = "single" => in.domains = <<>>
    /\ in.host = "multi" => in.own = <<>>
    /\ in.designs = Nothing \/ in.designs \subseteq Capabilities
    /\ IsSequence(in.own) /\ IsSequence(in.domains)
    /\ \A i \in DOMAIN in.own : BlockOK(in.own[i]) /\ in.own[i].file = in.own[1].file
    /\ \A i \in DOMAIN in.domains :
          /\ in.domains[i].state \in {"fine", "errors", "unparsed"}
          /\ IsSequence(in.domains[i].blocks)
          /\ \A j \in DOMAIN in.domains[i].blocks : BlockOK(in.domains[i].blocks[j])

ASSUME PolicyAssumption == Nothing \notin Names /\ \A in \in Inputs : InputOK(in)

VARIABLES
    input,    \* the compilation, fixed
    stage,    \* "domains" or "union"
    pass,     \* the pass that runs next
    usable,   \* the files whose blocks the stage lowers; 0 is the own file
    unit, at, \* the block lowered next: the at-th of a file
    records,  \* the ActorsRecords of the stage: the blocks lowered
    diags,    \* the diagnostics so far
    model     \* the blocks of the artifact, or Nothing

cursor == <<usable, unit, at>>
vars == <<input, stage, pass, cursor, records, diags, model>>

Error(file, code, about) ==
    [file |-> file, severity |-> "error", code |-> code, about |-> about]
Warning(file, code, about) ==
    [file |-> file, severity |-> "warning", code |-> code, about |-> about]
HasErrors(D) == \E d \in D : d.severity = "error"

NamesOf(decls) == {decls[i].name : i \in DOMAIN decls}
ActorNames(b) == NamesOf(b.actors)
Entries(x) == ToSet(x.entries)
Grants(b) == ToSet(b.grants)
Delegations(b) == ToSet(b.delegations)
Pairs(b) == {p \in ToSet(b.neverBoth) : Len(p) = 2}

-----------------------------------------------------------------------------
(* lower_actors. *)

Repeated(seq) == {seq[i] : i \in {k \in DOMAIN seq : \E j \in 1..(k - 1) : seq[j] = seq[k]}}
Duplicates(decls) == Repeated([i \in DOMAIN decls |-> decls[i].name])

\* A parent has to be declared before the actor that extends it.
ActorErrors(b) ==
    {Error(b.file, "duplicate actor", <<n>>) : n \in Duplicates(b.actors)} \cup
    {Error(b.file, "extends unknown actor", <<b.actors[i].name, b.actors[i].parent>>) :
        i \in {k \in DOMAIN b.actors :
                 b.actors[k].parent \notin {Nothing} \cup {b.actors[j].name : j \in 1..(k - 1)}}}

DeclarationErrors(b) ==
    {Error(b.file, "duplicate capability", <<n>>) : n \in Duplicates(b.capabilities)} \cup
    {Error(b.file, "capability class", <<c.name>>) :
        c \in {d \in ToSet(b.capabilities) : ~d.onClass}} \cup
    {Error(b.file, "duplicate delegation", <<n>>) : n \in Duplicates(b.delegations)} \cup
    {Error(b.file, "duplicate purpose or obligation", <<o>>) :
        o \in Repeated(b.purposes) \cup Repeated(b.obligations)}

\* Cedar entries name no capability.
Refs(b) ==
    {e.capability : e \in {x \in UNION {Entries(g) : g \in Grants(b) \cup Delegations(b)} :
                             x.effect # "cedar"}}

GrantErrors(b) ==
    {Error(b.file, "grant names unknown actor", <<g.actor>>) :
        g \in {h \in Grants(b) : h.actor \notin ActorNames(b)}} \cup
    {Error(b.file, "unknown capability", <<c>>) : c \in Refs(b) \ NamesOf(b.capabilities)}

NeverBothErrors(b) ==
    {Error(b.file, "exactly two capabilities", p) : p \in ToSet(b.neverBoth) \ Pairs(b)} \cup
    {Error(b.file, "unknown capability", <<c>>) :
        c \in (UNION {ToSet(p) : p \in ToSet(b.neverBoth)}) \ NamesOf(b.capabilities)}

LowerErrors(b) ==
    ActorErrors(b) \cup DeclarationErrors(b) \cup GrantErrors(b) \cup NeverBothErrors(b)

-----------------------------------------------------------------------------
(* Lineages and what reaches them. *)

\* The declarations of an actor that name a parent.
Extending(b, n) == {i \in DOMAIN b.actors : b.actors[i].name = n /\ b.actors[i].parent # Nothing}

\* actor_parents: of several declarations of a name the last parent counts.
BlockParents(b) ==
    [n \in Names |-> IF Extending(b, n) = {} THEN Nothing
                     ELSE b.actors[Max(Extending(b, n))].parent]

\* union_parents: the first parent declared anywhere counts.
UnionParents(blocks) ==
    [n \in Names |->
        LET extend == {k \in DOMAIN blocks : Extending(blocks[k], n) # {}}
            first == blocks[Min(extend)]
        IN  IF extend = {} THEN Nothing ELSE first.actors[Min(Extending(first, n))].parent]

\* The actor and its ancestors, nearest first; a name met again ends the walk.
Chain(parents, actor) ==
    LET walk[k \in 0..Cardinality(Names)] ==
            IF k = 0 THEN <<actor>>
            ELSE LET c == walk[k - 1]
                 IN  IF parents[Last(c)] \in Names \ ToSet(c)
                     THEN Append(c, parents[Last(c)]) ELSE c
    IN  walk[Cardinality(Names)]

Lineage(parents, actor) == ToSet(Chain(parents, actor))

\* What detect_actor_cycles reports, as CyclePass has it: an actor is among
\* its own ancestors.
Cyclic(b) ==
    \E n \in ActorNames(b) :
        LET c == Chain(BlockParents(b), n) IN BlockParents(b)[Last(c)] \in ToSet(c)

Permits(x) == {e.capability : e \in {y \in Entries(x) : y.effect = "permit"}}

\* effective_grant_permits: what grants alone permit a lineage.
GrantPermits(b, lineage) == UNION {Permits(g) : g \in {h \in Grants(b) : h.actor \in lineage}}

\* effective_permits: delegations to the lineage count as well.
EffectivePermits(b, lineage) ==
    GrantPermits(b, lineage) \cup
    UNION {Permits(d) \cap NamesOf(b.capabilities) :
              d \in {e \in Delegations(b) : e.to \in lineage}}

\* Mutant: an actor has what its own grants permit, not its ancestors'.
OwnPermits(blocks, actor) ==
    UNION {EffectivePermits(b, {actor}) : b \in ToSet(blocks)}

\* union_grants: permits pool over the blocks, each with its own lineage.
UnionPermits(blocks, actor) ==
    UNION {EffectivePermits(b, Lineage(BlockParents(b), actor)) : b \in ToSet(blocks)}

\* The nearest declared kind of the lineage; human when there is none.
KindOf(blocks, parents, actor) ==
    LET declares(n) == \E b \in ToSet(blocks) : \E a \in ToSet(b.actors) :
                          a.name = n /\ a.kind = "agent"
    IN  IF \E n \in Lineage(parents, actor) : declares(n) THEN "agent" ELSE "human"

-----------------------------------------------------------------------------
(* The validation passes.  Where the code has a per-block and a union form,  *)
(* `blocks` is what permits pool over: the block alone, or all of them.       *)

AllNames(blocks) == UNION {ActorNames(b) : b \in ToSet(blocks)}
AllPurposes == UNION {ToSet(b.purposes) : b \in ToSet(records)}
AllObligations == UNION {ToSet(b.obligations) : b \in ToSet(records)}

NeverBothViolations(b, blocks) ==
    UNION {{Error(b.file, "never_both", <<n, p>>) :
               p \in {q \in Pairs(b) : ToSet(q) \subseteq UnionPermits(blocks, n)}} :
           n \in AllNames(blocks)}

\* Only a warning, also where the permit is inherited.
Narrowings(b, blocks) ==
    UNION {{Warning(b.file, "forbids what it permits", <<g.actor, e.capability>>) :
               e \in {x \in Entries(g) : /\ x.effect = "forbid"
                                         /\ x.capability \in UnionPermits(blocks, g.actor)}} :
           g \in Grants(b)}

\* Mutant: delegated permits back delegations.
AuthorityOfDelegations(d, blocks, parents) ==
    UNION {EffectivePermits(b, Lineage(parents, d.to)) : b \in ToSet(blocks)}

\* What the lineage of a delegation's target is granted: other delegations
\* are no source of authority.
Authority(d, blocks, parents) ==
    UNION {GrantPermits(b, Lineage(parents, d.to)) : b \in ToSet(blocks)}

\* A target nobody declares ends the checks of its delegation.
TargetErrors(b, d, blocks, parents) ==
    {Error(b.file, "not an agent", <<d.name, d.to>>) :
        x \in {y \in {d} : KindOf(blocks, parents, d.to) # "agent"}} \cup
    {Error(b.file, "unbacked permit", <<d.name, c>>) :
        c \in (Permits(d) \cap NamesOf(b.capabilities)) \ Authority(d, blocks, parents)} \cup
    {Error(b.file, "unknown purpose", <<d.name, p>>) :
        p \in {d.purpose} \ (AllPurposes \cup {Nothing})}

DelegationErrors(b, d, blocks, parents) ==
    {Error(b.file, "delegation names unknown actor", <<d.name, n>>) :
        n \in {d.from, d.to} \ AllNames(blocks)} \cup
    (IF d.to \in AllNames(blocks) THEN TargetErrors(b, d, blocks, parents) ELSE {})

ObligationErrors(b) ==
    {Error(b.file, "unknown obligation", <<o>>) :
        o \in (UNION {e.obligations : e \in UNION {Entries(x) : x \in Grants(b) \cup Delegations(b)}})
              \ AllObligations}

\* What is granted has to be carried by some design, when there are any.
CoverageErrors(b) ==
    {Error(b.file, "carried by no design", <<c>>) : c \in Refs(b) \ input.designs}

\* Mutant: each file is only checked by itself.
BlockNameErrorsPerFile ==
    {Error(records[i].file, "duplicate actors block", <<records[i].name>>) :
        i \in {k \in DOMAIN records :
                 \E j \in 1..(k - 1) :
                     records[j].name = records[k].name /\ records[j].file = records[k].file}}

\* The names of blocks are distinct within a file, and in the union of an
\* .actor file with its domains over all of them.
BlockNameErrors ==
    {Error(records[i].file, "duplicate actors block", <<records[i].name>>) :
        i \in {k \in DOMAIN records :
                 \E j \in 1..(k - 1) :
                     /\ records[j].name = records[k].name
                     /\ records[j].file = records[k].file \/ (input.host = "actor" /\ stage = "union")}}

-----------------------------------------------------------------------------
(* The passes in order. *)

\* The blocks of the own file, or of a domain.
BlocksOf(f) == IF f = 0 THEN input.own ELSE input.domains[f].blocks

\* The domains that parse.
Parsed(in) == {i \in DOMAIN in.domains : in.domains[i].state # "unparsed"}

\* A file with an error of its own has no model, and its blocks are not used.
WithModel ==
    {i \in DOMAIN input.domains :
        ~\E d \in diags : d.file = input.domains[i].path /\ d.severity = "error"}

\* What is wrong with the files besides their actors: they do not parse, or some
\* class of theirs is in error.
OtherErrors(files) ==
    {Error(f.path, f.state, <<>>) : f \in {g \in ToSet(files) : g.state # "fine"}}

Init ==
    /\ input \in Inputs
    /\ stage = IF input.host = "actor" THEN "domains" ELSE "union"
    /\ usable = IF input.host = "single" THEN {0} ELSE Parsed(input)
    /\ records = <<>>
    /\ diags = OtherErrors(input.domains)
    /\ pass = "lower"
    /\ unit = 0 /\ at = 1
    /\ model = Nothing

Report(found, following) ==
    /\ diags' = diags \cup found
    /\ pass' = following
    /\ UNCHANGED <<input, stage, cursor, records, model>>

\* lower_actors, for a file that has been parsed and is not dropped.
LowerBlock ==
    /\ pass = "lower" /\ unit \in usable
    /\ at \in DOMAIN BlocksOf(unit)
    /\ records' = Append(records, BlocksOf(unit)[at])
    /\ diags' = diags \cup LowerErrors(BlocksOf(unit)[at])
    /\ at' = at + 1
    /\ UNCHANGED <<input, stage, pass, usable, unit, model>>

NextFile ==
    /\ pass = "lower" /\ unit <= Len(input.domains)
    /\ unit \in usable => at \notin DOMAIN BlocksOf(unit)
    /\ unit' = unit + 1 /\ at' = 1
    /\ UNCHANGED <<input, stage, pass, usable, records, diags, model>>

BlockNames ==
    /\ pass = "lower" /\ unit > Len(input.domains)
    /\ Report(BlockNameErrors, "cycles")

\* A cycle anywhere skips the passes that walk lineages.
DetectCycles ==
    /\ pass = "cycles"
    /\ LET cyclic == {b \in ToSet(records) : Cyclic(b)}
       IN  Report({Error(b.file, "actor inheritance cycle", <<b.name>>) : b \in cyclic},
                  IF cyclic = {} THEN "never both" ELSE "coverage")

\* One .mox file is validated block by block, several as a union.
PooledWith(b) == IF input.host = "single" THEN <<b>> ELSE records
ParentsFor(b) == IF input.host = "single" THEN BlockParents(b) ELSE UnionParents(records)

ValidateNeverBoth ==
    /\ pass = "never both"
    /\ Report(UNION {NeverBothViolations(b, PooledWith(b)) : b \in ToSet(records)}, "narrowing")

ValidateSelfNarrowing ==
    /\ pass = "narrowing"
    /\ Report(UNION {Narrowings(b, PooledWith(b)) : b \in ToSet(records)}, "delegations")

ValidateDelegations ==
    /\ pass = "delegations"
    /\ Report(UNION {UNION {DelegationErrors(b, d, PooledWith(b), ParentsFor(b)) :
                                d \in Delegations(b)} : b \in ToSet(records)},
              "obligations")

ValidateObligations ==
    /\ pass = "obligations"
    /\ Report(UNION {ObligationErrors(b) : b \in ToSet(records)}, "coverage")

ValidateCoverage ==
    /\ pass = "coverage"
    /\ Report(IF input.host = "actor" /\ stage = "union" /\ input.designs # Nothing
              THEN UNION {CoverageErrors(b) : b \in ToSet(records)} ELSE {},
              "end")

\* compile_actor_file: its own blocks, then those of the domains left.
LowerUnion ==
    /\ pass = "end" /\ stage = "domains"
    /\ stage' = "union"
    /\ usable' = {0} \cup WithModel
    /\ records' = <<>>
    /\ pass' = "lower"
    /\ unit' = 0 /\ at' = 1
    /\ UNCHANGED <<input, diags, model>>

\* An error in any file withholds the artifact.
Finish ==
    /\ pass = "end" /\ stage = "union"
    /\ pass' = "done"
    /\ model' = IF HasErrors(diags) THEN Nothing ELSE records
    /\ UNCHANGED <<input, stage, cursor, records, diags>>

Next ==
    \/ LowerBlock \/ NextFile \/ BlockNames \/ DetectCycles
    \/ ValidateNeverBoth \/ ValidateSelfNarrowing \/ ValidateDelegations \/ ValidateObligations
    \/ ValidateCoverage \/ LowerUnion \/ Finish

Spec == Init /\ [][Next]_vars

-----------------------------------------------------------------------------
(* The Cedar policy set and schema of a block. *)

Accepted == pass = "done" /\ model # Nothing

\* parent_of: the first declaration of the name decides.
CedarParents(b) ==
    [n \in Names |->
        LET declared == {i \in DOMAIN b.actors : b.actors[i].name = n}
        IN  IF declared = {} THEN Nothing ELSE b.actors[Min(declared)].parent]

\* Mutant: a policy addresses the granted actor only.
GrantedOnly(b, actor) == ActorNames(b) \cap {actor}

\* Cedar's `is` matches one type, so each heir gets a policy of its own.
ActorsInheriting(b, actor) == {n \in ActorNames(b) : actor \in Lineage(CedarParents(b), n)}

Policies(b) ==
    UNION {{[effect |-> e.effect, principal |-> n, capability |-> e.capability] :
               e \in {x \in Entries(g) : x.effect # "cedar"}, n \in ActorsInheriting(b, g.actor)} :
           g \in Grants(b)}

\* What grants and delegations say of an actor itself, permits and forbids.
Named(b, actor) ==
    {e.capability : e \in {x \in UNION ({Entries(g) : g \in {h \in Grants(b) : h.actor = actor}} \cup
                                        {Entries(d) : d \in {c \in Delegations(b) : c.to = actor}}) :
                             x.effect # "cedar"}}

\* Mutant: only the actors named reach an action.
PrincipalTypesNamed(b, capability) == {n \in ActorNames(b) : capability \in Named(b, n)}

\* The principalTypes of an action in the schema.
PrincipalTypes(b, capability) ==
    {n \in ActorNames(b) :
        \E m \in Lineage(CedarParents(b), n) : capability \in Named(b, m)}

\* generate keeps one policy set per name of a block, the last one.
CedarFile(name) == Policies(model[Max({i \in DOMAIN model : model[i].name = name})])

PermitsIn(policies, actor) ==
    {p.capability : p \in {q \in policies : q.effect = "permit" /\ q.principal = actor}}

(* The tool manifests: blocks pool, and delegations are no tools. *)
Agents == {n \in AllNames(model) : KindOf(model, UnionParents(model), n) = "agent"}
Tools(agent) ==
    UNION {GrantPermits(b, Lineage(UnionParents(model), agent)) : b \in ToSet(model)}

-----------------------------------------------------------------------------
(* Properties. *)

\* Separation of duty reaches the generated policies: no principal type of an
\* accepted block's policy set is permitted both capabilities of a never_both,
\* inherited permits included (policy_set, validate_actor_never_both).
CedarSeparated ==
    Accepted => \A b \in ToSet(model) : \A p \in Pairs(b), n \in ActorNames(b) :
                    ~ ToSet(p) \subseteq PermitsIn(Policies(b), n)

\* No delegation of an accepted union hands out what its target does not have:
\* the target gets a tool manifest, and what is delegated is among its tools
\* (validate_actor_delegations_union, agent_tool_manifests).  A file with
\* several blocks is checked block by block while its manifest pools them.
DelegationsContained ==
    Accepted /\ (input.host = "single" => Len(model) = 1) =>
        \A b \in ToSet(model) : \A d \in Delegations(b) :
            d.to \in Agents /\ Permits(d) \subseteq Tools(d.to)

\* Strict validation refuses no request that a policy is about: who has a
\* policy on an action is one of its principal types, and no principal type is
\* there without a policy or a delegation (policy_set, reaches_capability).
SchemaFitsPolicies ==
    Accepted => \A b \in ToSet(model) : \A c \in NamesOf(b.capabilities) :
        LET addressed == {p.principal : p \in {q \in Policies(b) : q.capability = c}}
            delegated == {n \in ActorNames(b) : \E d \in Delegations(b) :
                             /\ c \in {e.capability : e \in Entries(d)}
                             /\ d.to \in Lineage(CedarParents(b), n)}
        IN  PrincipalTypes(b, c) = addressed \cup delegated

\* The two projections of one block agree: an agent's tools are what the policy
\* set permits it, though each walks the inheritance in its own way, up from
\* the agent or down from the granted actor (effective_tools, policy_set).
ToolsArePolicies ==
    Accepted /\ Len(model) = 1 =>
        \A n \in Agents : Tools(n) = PermitsIn(Policies(model[1]), n)

\* An accepted compilation loses nobody's policies: each block of each file it
\* was given has its own policy set (compile_actor_file's union of the files
\* with a model, generate's map by name).  Several .mox files may use one name
\* for their blocks; of those the map keeps the last.
AllPoliciesWritten ==
    Accepted /\ input.host # "multi" =>
        \A f \in 0..Len(input.domains) : \A b \in ToSet(BlocksOf(f)) :
            b \in ToSet(model) /\ CedarFile(b.name) = Policies(b)

\* README: policy checks run over the union, and separation of duty is caught
\* across files.  So no agent of several files' union has both capabilities of
\* a never_both for tools.
ToolsSeparated ==
    Accepted /\ input.host # "single" =>
        \A b \in ToSet(model) : \A p \in Pairs(b), n \in Agents :
            ~ ToSet(p) \subseteq Tools(n)
=============================================================================
