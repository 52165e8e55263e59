----------------------------- MODULE ImportWalk -----------------------------
(***************************************************************************)
(* Gathering the project of one .ifml entry file and resolving its imports: *)
(* the walker of rex-ifml (walk_ifml_imports), the classifying closure of   *)
(* rex-driver                                                              *)
(* (gather_ifml_project) and the host's fetch, which all three hosts (CLI, *)
(* LSP, deploy bridge) build the same way over a map from identities to    *)
(* the disk path an identity was fetched under.                            *)
(*                                                                         *)
(* The walker knows a file by the import string as written, the host knows *)
(* it by its path.  Two directories may hold files that are written the    *)
(* same: what happens then is the difficulty of this component.            *)
(***************************************************************************)
EXTENDS Naturals, Sequences, FiniteSets

CONSTANTS
    Paths,      \* the paths of the workspace, existing or not
    Written,    \* the import strings that occur
    Surface,    \* Written -> "ifml" | "mox" | "actor" | "other"
    Join,       \* Paths -> (Written -> Paths): relative to the file's directory
    Entry,      \* the path of the entry file
    EntryIds,   \* the identities hosts walk it under: its name, its URI
    Projects,   \* the workspaces considered: each gives every path a content
    Missing,    \* the content of a path where there is no file
    OneFilePerName  \* TRUE: an import string means the same file everywhere

Ids == Written \cup EntryIds

Content == [parses : BOOLEAN, imports : Seq(Written)]

ASSUME ImportAssumption ==
    /\ Surface \in [Written -> {"ifml", "mox", "actor", "other"}]
    /\ Join \in [Paths -> [Written -> Paths]]
    /\ Entry \in Paths
    /\ Missing \notin Content
    /\ \A project \in Projects : /\ project \in [Paths -> Content \cup {Missing}]
                                /\ project[Entry] # Missing
    /\ OneFilePerName \in BOOLEAN

VARIABLES
    disk,      \* Paths -> content, fixed for the run
    entryId,   \* the identity of the entry file, fixed for the run
    stage,     \* "walk", then what follows it
    stack,     \* the recursion of walk_file: identity, file and imports left
    visited,   \* the walker's set of identities
    sources,   \* IfmlImportWalk.sources: <<identity, path of its text>>
    pathOf,    \* the host's map, identity -> path; Missing when not mapped
    bundle,    \* IfmlImports: <<importer, import>> -> path of the text
    domains,   \* IfmlProject.domains: paths, in walk order
    actors,    \* IfmlProject.actors: paths, in walk order
    unresolved \* IfmlProject.unresolved

input == <<disk, entryId>>
walkVars == <<stack, visited, sources, pathOf, bundle, domains, actors, unresolved>>

Exists(p) == disk[p] # Missing

\* A text that does not parse has no imports to walk.
ImportsAt(p) == IF disk[p].parses THEN disk[p].imports ELSE <<>>

\* The import strings of the file at p.
Mentions(p) ==
    IF Exists(p) THEN {disk[p].imports[i] : i \in 1..Len(disk[p].imports)} ELSE {}

\* Every identity denotes one file, from whichever file it is written in.
Unambiguous ==
    \A p \in Paths : \A w \in Mentions(p) :
        /\ \A q \in Paths : w \in Mentions(q) => Join[p][w] = Join[q][w]
        /\ w = entryId => Join[p][w] = Entry

Frame(id, p) == [id |-> id, file |-> p, rest |-> ImportsAt(p)]

Init ==
    /\ disk \in Projects
    /\ entryId \in EntryIds
    /\ OneFilePerName => Unambiguous
    /\ stage = "walk"
    /\ stack = <<Frame(entryId, Entry)>>
    /\ visited = {entryId}
    /\ sources = <<<<entryId, Entry>>>>
    /\ pathOf = [id \in Ids |-> IF id = entryId THEN Entry ELSE Missing]
    /\ bundle = <<>>
    /\ domains = <<>>
    /\ actors = <<>>
    /\ unresolved = {}

-----------------------------------------------------------------------------
Top == stack[Len(stack)]
Below == SubSeq(stack, 1, Len(stack) - 1)

\* The stack after the top frame has consumed its first import.
Advanced == Append(Below, [Top EXCEPT !.rest = Tail(@)])

In(x, seq) == \E i \in 1..Len(seq) : seq[i] = x

AppendNew(seq, x) == IF In(x, seq) THEN seq ELSE Append(seq, x)

\* The host resolves an import next to the file it has for the importer.
Resolved(importer, written) == Join[pathOf[importer]][written]

\* The walker is at an import statement of its top file.
AtImport(written, p) ==
    /\ stage = "walk"
    /\ stack # <<>>
    /\ Top.rest # <<>>
    /\ written = Head(Top.rest)
    /\ p = Resolved(Top.id, written)

\* Mutant: a miss abandons the other imports of the file.
FetchMissesAbandons(written, p) ==
    /\ AtImport(written, p)
    /\ ~Exists(p)
    /\ unresolved' = IF Surface[written] = "other" THEN unresolved
                     ELSE unresolved \cup {<<Top.id, written>>}
    /\ stack' = Append(Below, [Top EXCEPT !.rest = <<>>])
    /\ UNCHANGED <<input, stage, visited, sources, pathOf, bundle, domains, actors>>

\* The fetch returns None: the classifier records a surface it tracks.
FetchMisses(written, p) ==
    /\ AtImport(written, p)
    /\ ~Exists(p)
    /\ unresolved' = IF Surface[written] = "other" THEN unresolved
                     ELSE unresolved \cup {<<Top.id, written>>}
    /\ stack' = Advanced
    /\ UNCHANGED <<input, stage, visited, sources, pathOf, bundle, domains, actors>>

\* Mutant: the path is recorded only when the walker recurses into the import.
FetchIfmlUnmapped(written, p) ==
    /\ AtImport(written, p)
    /\ Exists(p)
    /\ Surface[written] = "ifml"
    /\ UNCHANGED pathOf
    /\ bundle' = [key \in DOMAIN bundle \cup {<<Top.id, written>>} |->
                     IF key = <<Top.id, written>> THEN p ELSE bundle[key]]
    /\ IF written \in visited
       THEN stack' = Advanced /\ UNCHANGED <<visited, sources>>
       ELSE /\ stack' = Append(Advanced, Frame(written, p))
            /\ visited' = visited \cup {written}
            /\ sources' = Append(sources, <<written, p>>)
    /\ UNCHANGED <<input, stage, domains, actors, unresolved>>

\* Every successful fetch maps the import string to the path it found, also
\* when the walker then skips it; the bundle gets the text under the walker's
\* own key.
FetchIfml(written, p) ==
    /\ AtImport(written, p)
    /\ Exists(p)
    /\ Surface[written] = "ifml"
    /\ pathOf' = [pathOf EXCEPT ![written] = p]
    /\ bundle' = [key \in DOMAIN bundle \cup {<<Top.id, written>>} |->
                     IF key = <<Top.id, written>> THEN p ELSE bundle[key]]
    /\ IF written \in visited
       THEN stack' = Advanced /\ UNCHANGED <<visited, sources>>
       ELSE /\ stack' = Append(Advanced, Frame(written, p))
            /\ visited' = visited \cup {written}
            /\ sources' = Append(sources, <<written, p>>)
    /\ UNCHANGED <<input, stage, domains, actors, unresolved>>

FetchDomain(written, p) ==
    /\ AtImport(written, p)
    /\ Exists(p)
    /\ Surface[written] = "mox"
    /\ pathOf' = [pathOf EXCEPT ![written] = p]
    /\ domains' = AppendNew(domains, p)
    /\ stack' = Advanced
    /\ UNCHANGED <<input, stage, visited, sources, bundle, actors, unresolved>>

\* The domains an .actor policy imports are fetched under its resolved key,
\* at once; the misses are recorded under that key.
FetchActor(written, p) ==
    /\ AtImport(written, p)
    /\ Exists(p)
    /\ Surface[written] = "actor"
    /\ stack' = Advanced
    /\ IF In(p, actors)
       THEN /\ pathOf' = [pathOf EXCEPT ![written] = p]
            /\ UNCHANGED <<actors, unresolved>>
       ELSE LET nested == {ImportsAt(p)[i] : i \in 1..Len(ImportsAt(p))}
                found == {w \in nested : Exists(Join[p][w])}
            IN  /\ actors' = Append(actors, p)
                /\ unresolved' = unresolved \cup {<<p, w>> : w \in nested \ found}
                /\ pathOf' = [id \in Ids |-> IF id \in found THEN Join[p][id]
                                             ELSE IF id = written THEN p
                                             ELSE pathOf[id]]
    /\ UNCHANGED <<input, stage, visited, sources, bundle, domains>>

\* Any other extension passes through.
FetchOther(written, p) ==
    /\ AtImport(written, p)
    /\ Exists(p)
    /\ Surface[written] = "other"
    /\ pathOf' = [pathOf EXCEPT ![written] = p]
    /\ stack' = Advanced
    /\ UNCHANGED <<input, stage, visited, sources, bundle, domains, actors, unresolved>>

\* walk_file returns to the file that imported this one.
WalkReturn ==
    /\ stage = "walk"
    /\ stack # <<>>
    /\ Top.rest = <<>>
    /\ stack' = Below
    /\ stage' = IF Below = <<>> THEN "walked" ELSE "walk"
    /\ UNCHANGED <<input, visited, sources, pathOf, bundle, domains, actors, unresolved>>

WalkNext ==
    \/ \E written \in Written, p \in Paths :
          \/ FetchMisses(written, p)
          \/ FetchIfml(written, p)
          \/ FetchDomain(written, p)
          \/ FetchActor(written, p)
          \/ FetchOther(written, p)
    \/ WalkReturn

vars == <<input, stage, walkVars>>

Spec == Init /\ [][WalkNext]_vars

-----------------------------------------------------------------------------
(* The import graph of the files themselves. *)

\* The .ifml files that the file at p imports and that exist.
Imports(p) ==
    IF ~Exists(p) THEN {}
    ELSE {Join[p][ImportsAt(p)[i]] : i \in
             {j \in 1..Len(ImportsAt(p)) : /\ Surface[ImportsAt(p)[j]] = "ifml"
                                          /\ Exists(Join[p][ImportsAt(p)[j]])}}

Closed(S) == \A p \in S : Imports(p) \subseteq S

\* The files reached from those of S, S included: what every set of files that
\* holds S and is closed under imports has in common.
ReachedFrom(S) ==
    LET Files == S \cup UNION {Imports(p) : p \in Paths}
        Closures == {T \in SUBSET Files : S \subseteq T /\ Closed(T)}
    IN  {q \in Files : \A T \in Closures : q \in T}

(* Properties. *)

WalkTypeOK ==
    /\ stage \in {"walk", "walked", "resolve", "done", "table"}
    /\ \A i \in 1..Len(stack) : stack[i] \in
          [id : visited, file : Paths, rest : Seq(Written)]
    /\ visited \subseteq Ids
    /\ sources \in Seq(Ids \X Paths)
    /\ pathOf \in [Ids -> Paths \cup {Missing}]
    /\ DOMAIN bundle \subseteq Ids \X Written
    /\ \A key \in DOMAIN bundle : bundle[key] \in {p \in Paths : Exists(p)}
    /\ domains \in Seq(Paths) /\ actors \in Seq(Paths)
    /\ unresolved \subseteq (Ids \cup Paths) \X Written

\* While a file's imports are being walked, the host still has for its identity
\* the path that its text was fetched from, so each import is resolved relative
\* to the directory of the file that really declares it.
ResolvesNextToImporter ==
    \A i \in 1..Len(stack) : pathOf[stack[i].id] = stack[i].file

\* The walk collects exactly the files that the entry file reaches: the entry
\* file, whatever collected files import, and nothing that could be left out.
Collected == {sources[i][2] : i \in 1..Len(sources)}

WalkIsReachability ==
    stage = "walked" =>
        /\ Entry \in Collected
        /\ Closed(Collected)
        /\ \A S \in SUBSET Collected : Entry \in S /\ Closed(S) => S = Collected

-----------------------------------------------------------------------------
(* The import resolution of a compilation (compile_ifml_lenient and        *)
(* resolve_imports of rex-ifml/src/resolve.rs) over the bundle that the    *)
(* walk has filled.  The resolver never reads the disk: what it looks up   *)
(* under (importer, import) is what the walk provided.                     *)

VARIABLES
    rstack,    \* the recursion of resolve_imports: identity and imports left
    rvisited,  \* the resolver's set of identities
    index,     \* IfmlIndex.files: <<identity, path of its text>>
    diags      \* the diagnostics: <<code, file, import>>

resolveVars == <<rstack, rvisited, index, diags>>
allVars == <<input, stage, walkVars, resolveVars>>

RTop == rstack[Len(rstack)]
RBelow == SubSeq(rstack, 1, Len(rstack) - 1)
RAdvanced == Append(RBelow, [RTop EXCEPT !.rest = Tail(@)])

RInit ==
    /\ Init
    /\ rstack = <<>>
    /\ rvisited = {}
    /\ index = <<>>
    /\ diags = {}

\* An entry file that does not parse ends the compilation there.
StartResolve ==
    /\ stage = "walked"
    /\ index' = <<<<entryId, Entry>>>>
    /\ IF disk[Entry].parses
       THEN /\ stage' = "resolve"
            /\ rstack' = <<[id |-> entryId, rest |-> disk[Entry].imports]>>
            /\ rvisited' = {entryId}
            /\ UNCHANGED diags
       ELSE /\ stage' = "done"
            /\ diags' = {<<"E_PARSE", entryId, entryId>>}
            /\ UNCHANGED <<rstack, rvisited>>
    /\ UNCHANGED <<input, walkVars>>

AtStatement(w) ==
    /\ stage = "resolve"
    /\ rstack # <<>>
    /\ RTop.rest # <<>>
    /\ w = Head(RTop.rest)

AtLookup(w) == AtStatement(w) /\ Surface[w] = "ifml"

ActiveInResolve(w) == \E i \in 1..Len(rstack) : rstack[i].id = w

Report(code, file, w) == diags' = diags \cup {<<code, file, w>>}

\* The imports of other surfaces are not the resolver's.
PassThrough(w) ==
    /\ AtStatement(w)
    /\ Surface[w] # "ifml"
    /\ rstack' = RAdvanced
    /\ UNCHANGED <<input, stage, walkVars, rvisited, index, diags>>

Circular(w) ==
    /\ AtLookup(w)
    /\ ActiveInResolve(w)
    /\ Report("E_CIRCULAR", RTop.id, w)
    /\ rstack' = RAdvanced
    /\ UNCHANGED <<input, stage, walkVars, rvisited, index>>

SkipVisited(w) ==
    /\ AtLookup(w)
    /\ ~ActiveInResolve(w)
    /\ w \in rvisited
    /\ rstack' = RAdvanced
    /\ UNCHANGED <<input, stage, walkVars, rvisited, index, diags>>

\* The import must be looked up in the bundle.
NeedsText(w) == AtLookup(w) /\ ~ActiveInResolve(w) /\ w \notin rvisited

NotProvided(w) ==
    /\ NeedsText(w)
    /\ <<RTop.id, w>> \notin DOMAIN bundle
    /\ Report("E_IMPORT_NOT_PROVIDED", RTop.id, w)
    /\ rstack' = RAdvanced
    /\ UNCHANGED <<input, stage, walkVars, rvisited, index>>

\* An import that does not parse is not marked visited.
ParseError(w) ==
    /\ NeedsText(w)
    /\ <<RTop.id, w>> \in DOMAIN bundle
    /\ ~disk[bundle[<<RTop.id, w>>]].parses
    /\ Report("E_PARSE", w, w)
    /\ rstack' = RAdvanced
    /\ UNCHANGED <<input, stage, walkVars, rvisited, index>>

\* Mutant: the file is absorbed after its own imports.
AbsorbLate(w) ==
    /\ NeedsText(w)
    /\ <<RTop.id, w>> \in DOMAIN bundle
    /\ LET p == bundle[<<RTop.id, w>>]
       IN  /\ disk[p].parses
           /\ index' = <<<<w, p>>>> \o index
           /\ rstack' = Append(RAdvanced, [id |-> w, rest |-> disk[p].imports])
    /\ rvisited' = rvisited \cup {w}
    /\ UNCHANGED <<input, stage, walkVars, diags>>

\* Mutant: the file is never put on the active path.
AbsorbInactive(w) ==
    /\ NeedsText(w)
    /\ <<RTop.id, w>> \in DOMAIN bundle
    /\ LET p == bundle[<<RTop.id, w>>]
       IN  /\ disk[p].parses
           /\ index' = Append(index, <<w, p>>)
           /\ rstack' = Append(RAdvanced, [id |-> Missing, rest |-> disk[p].imports])
    /\ rvisited' = rvisited \cup {w}
    /\ UNCHANGED <<input, stage, walkVars, diags>>

\* The parsed import joins the index, then its own imports are resolved.
Absorb(w) ==
    /\ NeedsText(w)
    /\ <<RTop.id, w>> \in DOMAIN bundle
    /\ LET p == bundle[<<RTop.id, w>>]
       IN  /\ disk[p].parses
           /\ index' = Append(index, <<w, p>>)
           /\ rstack' = Append(RAdvanced, [id |-> w, rest |-> disk[p].imports])
    /\ rvisited' = rvisited \cup {w}
    /\ UNCHANGED <<input, stage, walkVars, diags>>

ResolveReturn ==
    /\ stage = "resolve"
    /\ rstack # <<>>
    /\ RTop.rest = <<>>
    /\ rstack' = RBelow
    /\ stage' = IF RBelow = <<>> THEN "done" ELSE "resolve"
    /\ UNCHANGED <<input, walkVars, rvisited, index, diags>>

Finished == stage = "done" /\ UNCHANGED allVars

RNext ==
    \/ Finished
    \/ WalkNext /\ UNCHANGED resolveVars
    \/ StartResolve
    \/ \E w \in Written :
          \/ PassThrough(w) \/ Circular(w) \/ SkipVisited(w)
          \/ NotProvided(w) \/ ParseError(w) \/ Absorb(w)
    \/ ResolveReturn

RSpec == RInit /\ [][RNext]_allVars

-----------------------------------------------------------------------------
(* Properties. *)

\* Walker and resolver agree on the project: an import is reported as not
\* provided only when the fetch found no file for it, and the files of the index
\* are the parseable sources of the walk, with the same text and in the same
\* order.
ResolverFollowsWalk ==
    /\ \A d \in diags :
          d[1] = "E_IMPORT_NOT_PROVIDED" => <<d[2], d[3]>> \in unresolved
    /\ stage = "done" /\ disk[Entry].parses =>
          /\ {index[k] : k \in 1..Len(index)} =
                {sources[i] : i \in {j \in 1..Len(sources) : disk[sources[j][2]].parses}}
          /\ \A k, l \in 1..Len(index) : k < l =>
                \E i, j \in 1..Len(sources) :
                    i < j /\ sources[i] = index[k] /\ sources[j] = index[l]

\* A circular import is reported exactly when a file the entry reaches can
\* reach itself through imports.
CircularIffCycle ==
    stage = "done" =>
        ((\E d \in diags : d[1] = "E_CIRCULAR")
            <=> \E p \in ReachedFrom({Entry}) : p \in ReachedFrom(Imports(p)))
=============================================================================
