--------------------------- MODULE DirectoryCheck ---------------------------
(***************************************************************************)
(* `rexlang check <directory>` (rex-cli commands/check.rs, pipeline.rs,     *)
(* integrity.rs, inputs.rs, project.rs; rex-driver project.rs and           *)
(* integrity.rs).  Phase 1 checks the listed files one by one over one      *)
(* snapshot of texts and one cache of artifacts, both of which every file   *)
(* may extend.  Phase 2 compiles each file again without them, groups the   *)
(* artifacts into the applications their imports connect, and looks in each *)
(* for references that another surface should answer.                       *)
(*                                                                         *)
(* A path is <<name, extension>>.  A file is a record: what it imports (in  *)
(* order, resolved), whether its own rules find a fault in it, and the      *)
(* names other surfaces join on; the other rules of the surfaces are those  *)
(* of SurfaceEngine and PolicySurface.                                      *)
(***************************************************************************)
EXTENDS Naturals, FiniteSets, Sequences, SequencesExt

CONSTANTS
  Trees,       \* sets of inputs [listing, outside, deny]
  Lower(_)     \* ASCII lower case of a name

VARIABLES
  tree,           \* the listed files, sorted; others on the disk; --deny-warnings
  pc,             \* "check", "union", "link", "report" or "done"
  todo,           \* what is left of the listing, or of the contributions and their imports
  project,        \* the snapshot's keys and the cache's
  clean,          \* the paths phase 1 printed OK for
  failed,         \* how many entries of the listing failed
  contributions,  \* the files that phase 2 compiled
  parent,         \* the union-find links between the paths of the import graph
  pending,        \* the applications to report, by their roots
  reported,       \* the integrity findings printed
  errors,         \* whether one of those fails the batch
  exit            \* "none", "success", "failure" or "error"

\* The names the syntax tree of each surface has.
NamesIn ==
  [mox |-> {}, actor |-> {"declares", "actors", "grants"}, ddd |-> {"carries", "emits", "invokes"},
   evt |-> {"events", "consumers"}, dmn |-> {"services"}, uc |-> {}, cmmn |-> {},
   ifml |-> {"actions", "requires", "commands", "roles"}, deploy |-> {"components"}]

\* A path is one file, which has the names of its own surface; only designs have
\* operations, and only flows warnings.
ASSUME TreesAssumption ==
  \A slice \in Trees : \A t \in slice :
    LET disk == Range(t.listing) \cup t.outside
    IN  /\ t.listing \in Seq(Range(t.listing)) /\ IsFiniteSet(t.outside)
        /\ \A f \in disk : /\ f.imports \in Seq(Range(f.imports))
                           /\ f.operations \in Seq(Range(f.operations))
                           /\ \A s \in DOMAIN NamesIn : \A n \in NamesIn[s] : f[n] # {} => f.path[2] = s
                           /\ f.operations # <<>> => f.path[2] = "ddd"
                           /\ f.lints => f.path[2] = "ifml"
        /\ \A f, g \in disk : f.path = g.path => f = g

vars == <<tree, pc, todo, project, clean, failed, contributions, parent, pending, reported, errors, exit>>

-----------------------------------------------------------------------------
(* The disk.                                                               *)

OnDisk == Range(tree.listing) \cup tree.outside
Extension(path) == path[2]
Exists(path) == \E f \in OnDisk : f.path = path
FileAt(path) == CHOOSE f \in OnDisk : f.path = path

Surfaces == {"mox", "actor", "ddd", "evt", "dmn", "uc", "cmmn", "ifml", "deploy"}

\* The imports of a file that a reader has a bucket for.
ImportsOf(f, extensions) == {p \in Range(f.imports) : Extension(p) \in extensions}
Imported(f, extensions) == {FileAt(p) : p \in {q \in ImportsOf(f, extensions) : Exists(q)}}
Unread(f, extensions) == {p \in ImportsOf(f, extensions) : ~Exists(p)}

-----------------------------------------------------------------------------
(* Reading and compiling one file without its siblings.  A reader fails    *)
(* when an import is missing, and when an import it has to compile first    *)
(* does not compile; the surface's own rules come after that.               *)

\* .actor, .ddd, .evt and .dmn: every import is read as a domain.
PairReads(f) == Unread(f, Surfaces) = {}
PairCompiles(f) ==
  PairReads(f) /\ f.fault = "none" /\ \A m \in Imported(f, {"mox"}) : m.fault = "none"

\* .ifml: the walk over the flows it imports, and over theirs.
Bucketed == {"ifml", "mox", "actor"}
FlowsFrom(seen) ==
  LET walk[n \in 0..Cardinality(OnDisk)] ==
        IF n = 0 THEN seen
        ELSE LET last == walk[n - 1] IN last \cup UNION {Imported(g, {"ifml"}) : g \in last}
  IN  walk[Cardinality(OnDisk)]
ReachedBy(f, extension) == UNION {Imported(g, {extension}) : g \in FlowsFrom({f})}

FlowReads(f) ==
  /\ \A g \in FlowsFrom({f}) : Unread(g, Bucketed) = {}
  /\ \A a \in ReachedBy(f, "actor") : Unread(a, Bucketed) = {} /\ PairCompiles(a)
  /\ \A m \in ReachedBy(f, "mox") : m.fault = "none"
FlowResolves(f) == \A g \in FlowsFrom({f}) : g.fault # "syntax" /\ Unread(g, {"ifml"}) = {}
FlowCompiles(f) == FlowReads(f) /\ FlowResolves(f) /\ f.fault = "none"

\* .uc, .cmmn and .deploy: the imports are compiled as they are gathered.
Buckets(f) == IF Extension(f.path) = "deploy" THEN {"ddd", "ifml"} ELSE {"mox", "ddd", "actor", "evt"}
Gathers(p) ==
  /\ Exists(p)
  /\ CASE Extension(p) = "mox" -> TRUE
       [] Extension(p) = "ifml" -> FlowResolves(FileAt(p))
       [] OTHER -> PairCompiles(FileAt(p))
BundleReads(f) == \A p \in ImportsOf(f, Buckets(f)) : Gathers(p)
BundleCompiles(f) ==
  BundleReads(f) /\ f.fault = "none" /\ \A m \in Imported(f, Buckets(f) \cap {"mox"}) : m.fault = "none"

Reads(f) ==
  CASE Extension(f.path) = "mox" -> TRUE
    [] Extension(f.path) = "ifml" -> FlowReads(f)
    [] Extension(f.path) \in {"uc", "cmmn", "deploy"} -> BundleReads(f)
    [] OTHER -> PairReads(f)
Compiles(f) ==
  CASE Extension(f.path) = "mox" -> f.fault = "none"
    [] Extension(f.path) = "ifml" -> FlowCompiles(f)
    [] Extension(f.path) \in {"uc", "cmmn", "deploy"} -> BundleCompiles(f)
    [] OTHER -> PairCompiles(f)

-----------------------------------------------------------------------------
(* The snapshot: map first, then the disk, whose text joins the map.  The  *)
(* gatherers stop at the first import that fails; the other readers go on.  *)

Fetch(snapshot, paths) == [snapshot EXCEPT !.sources = @ \cup {p \in paths : Exists(p)}]
Store(snapshot, f) == [snapshot EXCEPT !.artifacts = @ \cup {f.path}]
Keys(snapshot, extension) == {p \in snapshot.sources : Extension(p) = extension}

FlowFetches(f) ==
  UNION {ImportsOf(g, Bucketed) : g \in FlowsFrom({f}) \cup ReachedBy(f, "actor")}
GatheredWith(p) ==
  {p} \cup (IF ~Exists(p) \/ Extension(p) = "mox" THEN {}
            ELSE IF Extension(p) = "ifml" THEN FlowFetches(FileAt(p)) ELSE Range(FileAt(p).imports))
BundleFetches(f) ==
  LET taken == {i \in DOMAIN f.imports : Extension(f.imports[i]) \in Buckets(f)}
      tried == {i \in taken : \A j \in taken : j < i => Gathers(f.imports[j])}
  IN  UNION {GatheredWith(f.imports[i]) : i \in tried}
Fetches(f) ==
  CASE Extension(f.path) = "mox" -> {}
    [] Extension(f.path) = "ifml" -> FlowFetches(f)
    [] Extension(f.path) \in {"uc", "cmmn", "deploy"} -> BundleFetches(f)
    [] OTHER -> Range(f.imports)

\* Mutant: only the artifacts some earlier check has left in the cache.
SiblingsCached(snapshot, extension, except) ==
  (Keys(snapshot, extension) \cap snapshot.artifacts) \ {except.path}
\* The artifacts of a surface the snapshot holds, but for the file at hand: the
\* cached ones, and those that compile now and are cached from here on.
Siblings(snapshot, extension, except) ==
  {p \in Keys(snapshot, extension) \ {except.path} :
     p \in snapshot.artifacts \/ PairCompiles(FileAt(p))}
GatherSiblings(snapshot, extension, except) ==
  LET tried == Keys(snapshot, extension) \ ({except.path} \cup snapshot.artifacts)
  IN  [Fetch(snapshot, UNION {Range(FileAt(p).imports) : p \in tried})
         EXCEPT !.artifacts = @ \cup Siblings(snapshot, extension, except)]

-----------------------------------------------------------------------------
(* The joins of phase 1.                                                   *)

Union(paths, names) == UNION {FileAt(p)[names] : p \in paths}

\* Rule 10 over every policy, rule 17 over every decision model.
DesignJoins(f, policies, decisions) ==
  /\ policies # {} => f.carries \subseteq Union(policies, "declares")
  /\ decisions # {} => /\ f.invokes \subseteq Union(decisions, "services")
                       /\ ImportsOf(f, {"dmn"}) \subseteq decisions
\* Every capability handed out is carried by a design.
PolicyJoins(f, designs) == designs # {} => f.grants \subseteq Union(designs, "carries")
\* The authorization pass of a flow, over the policies it imports.
FlowJoins(f) ==
  LET policies == ReachedBy(f, "actor")
  IN  policies # {} => /\ f.requires \subseteq UNION {a.declares : a \in policies}
                       /\ f.roles \subseteq UNION {a.actors : a \in policies}

-----------------------------------------------------------------------------
(* Phase 1.                                                                *)

At(extensions) == pc = "check" /\ todo # <<>> /\ Extension(Head(todo).path) \in extensions

\* The file at hand compiled, or did not; warnings fail it when they are denied.
Settle(snapshot, compiled, warned) ==
  LET f == Head(todo)
      ok == compiled /\ ~(tree.deny /\ warned)
  IN  /\ project' = IF compiled THEN Store(snapshot, f) ELSE snapshot
      /\ clean' = IF ok THEN clean \cup {f.path} ELSE clean
      /\ failed' = IF ok THEN failed ELSE failed + 1
      /\ todo' = Tail(todo)
      /\ UNCHANGED <<tree, pc, contributions, parent, pending, reported, errors, exit>>

\* A domain is read from the disk, past the snapshot.
CheckDomain == At({"mox"}) /\ Settle(project, Compiles(Head(todo)), FALSE)

\* A policy that was compiled before is taken from the cache; the others a flow
\* imports are compiled and cached, up to the first that fails.
CheckFlow ==
  /\ At({"ifml"})
  /\ \E read \in {Fetch(project, Fetches(Head(todo)))} :
       LET f == Head(todo)
           fetched == \A g \in FlowsFrom({f}) \cup ReachedBy(f, "actor") : Unread(g, Bucketed) = {}
           good == {a.path : a \in {b \in ReachedBy(f, "actor") : PairCompiles(b)}}
       IN  \E compiled \in (IF Reads(f) THEN {good} ELSE IF fetched THEN SUBSET good ELSE {{}}) :
             Settle([read EXCEPT !.artifacts = @ \cup compiled], Compiles(f) /\ FlowJoins(f), f.lints)

CheckDesign ==
  /\ At({"ddd"})
  /\ \E read \in {Fetch(project, Fetches(Head(todo)))} :
       LET f == Head(todo)
           policies == Siblings(read, "actor", f)
           withPolicies == GatherSiblings(read, "actor", f)
           decisions == Siblings(withPolicies, "dmn", f)
       IN  IF ~Reads(f) THEN Settle(read, FALSE, FALSE)
           ELSE Settle(GatherSiblings(withPolicies, "dmn", f),
                       Compiles(f) /\ DesignJoins(f, policies, decisions), FALSE)

CheckPolicy ==
  /\ At({"actor"})
  /\ \E read \in {Fetch(project, Fetches(Head(todo)))} :
       LET f == Head(todo)
       IN  IF ~Reads(f) THEN Settle(read, FALSE, FALSE)
           ELSE Settle(GatherSiblings(read, "ddd", f),
                       Compiles(f) /\ PolicyJoins(f, Siblings(read, "ddd", f)), FALSE)

\* Contracts, decision models, use cases, cases and deployments have no joins.
CheckOther ==
  /\ At({"evt", "dmn", "uc", "cmmn", "deploy"})
  /\ Settle(Fetch(project, Fetches(Head(todo))), Compiles(Head(todo)), FALSE)

StartUnion ==
  /\ pc = "check" /\ todo = <<>>
  /\ pc' = "union" /\ todo' = tree.listing
  /\ UNCHANGED <<tree, project, clean, failed, contributions, parent, pending, reported, errors, exit>>

-----------------------------------------------------------------------------
(* Phase 2: contributions and applications.                                *)

\* Decision models, use cases and cases are compiled, and leave nothing behind.
Contributes(f) == Compiles(f) /\ Extension(f.path) \notin {"dmn", "uc", "cmmn"}

\* A file that cannot be read ends the pass, and the batch with it.
Contribute ==
  /\ pc = "union" /\ todo # <<>> /\ Reads(Head(todo))
  /\ contributions' = IF Contributes(Head(todo)) THEN Append(contributions, Head(todo)) ELSE contributions
  /\ todo' = Tail(todo)
  /\ UNCHANGED <<tree, pc, project, clean, failed, parent, pending, reported, errors, exit>>
Abort ==
  /\ pc = "union" /\ todo # <<>> /\ ~Reads(Head(todo))
  /\ pc' = "done" /\ exit' = "error" /\ todo' = <<>>
  /\ UNCHANGED <<tree, project, clean, failed, contributions, parent, pending, reported, errors>>

\* The paths a contribution clusters with: what it imports, if it is there.
LinksOf(f) ==
  {p \in Range(f.imports) :
     /\ Exists(p) /\ Extension(f.path) # "mox"
     /\ Extension(f.path) = "deploy" => Extension(p) \in {"ddd", "ifml"}}

\* The contributions become nodes, and what they cluster with; none is linked yet.
StartLinks ==
  /\ pc = "union" /\ todo = <<>>
  /\ todo' = [i \in DOMAIN contributions |-> [from |-> contributions[i], to |-> contributions[i].imports]]
  /\ parent' = [p \in UNION {{f.path} \cup LinksOf(f) : f \in Range(contributions)} |-> p]
  /\ pc' = "link"
  /\ UNCHANGED <<tree, project, clean, failed, contributions, pending, reported, errors, exit>>

\* The links after a search from a node, each node on the way now pointing to
\* its grandparent at the time, and the root it ends in.  No way is longer
\* than there are nodes.
Halve(found) ==
  LET links == [found.links EXCEPT ![found.root] = found.links[found.links[found.root]]]
  IN  IF found.links[found.root] = found.root THEN found ELSE [links |-> links, root |-> links[found.root]]
FindRoot(links, node) ==
  LET walk[n \in 0..Cardinality(DOMAIN links)] ==
        IF n = 0 THEN [links |-> links, root |-> node] ELSE Halve(walk[n - 1])
  IN  walk[Cardinality(DOMAIN links)]

\* Mutant: the importer moves over, and what was joined to it stays behind.
UnionNodeOnly(links, from, to) ==
  LET a == FindRoot(links, from)
      b == FindRoot(a.links, to)
  IN  IF a.root = b.root THEN b.links ELSE [b.links EXCEPT ![from] = b.root]
\* Two nodes in one application from here on.
UnionOf(links, from, to) ==
  LET a == FindRoot(links, from)
      b == FindRoot(a.links, to)
  IN  [b.links EXCEPT ![a.root] = b.root]

\* One import joins two nodes, or leads nowhere.
Link ==
  /\ pc = "link" /\ todo # <<>> /\ Head(todo).to # <<>>
  /\ LET from == Head(todo).from
         to == Head(Head(todo).to)
     IN  parent' = IF to \in LinksOf(from) THEN UnionOf(parent, from.path, to) ELSE parent
  /\ todo' = [todo EXCEPT ![1].to = Tail(@)]
  /\ UNCHANGED <<tree, pc, project, clean, failed, contributions, pending, reported, errors, exit>>
LinkNext ==
  /\ pc = "link" /\ todo # <<>> /\ Head(todo).to = <<>>
  /\ todo' = Tail(todo)
  /\ UNCHANGED <<tree, pc, project, clean, failed, contributions, parent, pending, reported, errors, exit>>

RootOf(path) == FindRoot(parent, path).root
StartReport ==
  /\ pc = "link" /\ todo = <<>>
  /\ pending' = {RootOf(f.path) : f \in Range(contributions)}
  /\ pc' = "report"
  /\ UNCHANGED <<tree, todo, project, clean, failed, contributions, parent, reported, errors, exit>>

-----------------------------------------------------------------------------
(* The integrity of one application: seven checks in a row, each over the   *)
(* files of one surface, and silent without the surface that answers.       *)

Of(app, extension) == {f \in app : Extension(f.path) = extension}
Names(files, names) == UNION {f[names] : f \in files}

\* The operations that answer to an action, service by service.
Carriers(app, action) ==
  UNION {{<<d.path, i>> : i \in {j \in DOMAIN d.operations : Lower(d.operations[j]) = Lower(action)}} :
           d \in Of(app, "ddd")}

CapabilityExistence(app, f) ==
  {<<"X0001", n>> : n \in f.carries \ Names(Of(app, "actor"), "declares")}
CapabilityCoverage(app, f) == {<<"X0002", n>> : n \in f.grants \ Names(Of(app, "ddd"), "carries")}
EmissionExistence(app, f) == {<<"X0003", n>> : n \in f.emits \ Names(Of(app, "evt"), "events")}
EmissionCoverage(app, f) == {<<"X0004", n>> : n \in f.events \ Names(Of(app, "ddd"), "emits")}
ActionBindings(app, f) ==
       {<<"X0005", n>> : n \in {a \in f.actions : Carriers(app, a) = {}}}
  \cup {<<"X0006", n>> : n \in {a \in f.actions : Cardinality(Carriers(app, a)) > 1}}
SubscriptionConsumers(app, f) ==
  {<<"X0007", n>> : n \in f.consumers \ Names(Of(app, "deploy"), "components")}
FlowActorReferences(app, f) ==
  LET actors == Names(Of(app, "actor"), "actors")
      known == actors \cup Names(Of(app, "actor"), "declares")
  IN  {<<"X0008", n>> : n \in ((f.requires \cup f.commands) \ known) \cup (f.roles \ actors)}

\* The checks in their order: the surface each is about, and the one that must be there.
Loose(app, check, f) ==
  CASE check = 1 -> CapabilityExistence(app, f)
    [] check = 2 -> CapabilityCoverage(app, f)
    [] check = 3 -> EmissionExistence(app, f)
    [] check = 4 -> EmissionCoverage(app, f)
    [] check = 5 -> ActionBindings(app, f)
    [] check = 6 -> SubscriptionConsumers(app, f)
    [] check = 7 -> FlowActorReferences(app, f)
Checks == << <<"ddd", "actor">>, <<"actor", "ddd">>, <<"ddd", "evt">>, <<"evt", "ddd">>,
             <<"ifml", "ddd">>, <<"evt", "deploy">>, <<"ifml", "actor">> >>
IsError(finding) == finding[1] \notin {"X0001", "X0002"}

\* Where the files of an application stand among the contributions, a file that
\* contributed twice only where it did first.
Members(root) ==
  {i \in DOMAIN contributions :
     /\ RootOf(contributions[i].path) = root
     /\ \A j \in 1..(i - 1) : contributions[j].path # contributions[i].path}
Application(root) == {contributions[i] : i \in Members(root)}

\* The runs of the application that find something, check by check and file by file.
Findings(root, run) == Loose(Application(root), run[1], contributions[run[2]])
CheckIntegrity(root) ==
  {run \in (DOMAIN Checks) \X Members(root) :
     /\ Extension(contributions[run[2]].path) = Checks[run[1]][1]
     /\ Of(Application(root), Checks[run[1]][2]) # {}
     /\ Findings(root, run) # {}}
Before(run, other) == run[1] < other[1] \/ (run[1] = other[1] /\ run[2] < other[2])

\* Neighbours about one file are rendered together.
GroupByPath(runs, run, other) ==
  /\ run[2] = other[2]
  /\ \A r \in runs : (Before(run, r) /\ Before(r, other)) \/ (Before(other, r) /\ Before(r, run))
                    => r[2] = run[2]

\* Warnings of a file phase 1 refused are left to the error it printed there,
\* unless an error is rendered with them.
Clean(path) == path \in clean
Rendered(root, run) ==
  \/ Clean(contributions[run[2]].path)
  \/ \E other \in CheckIntegrity(root) :
       GroupByPath(CheckIntegrity(root), run, other) /\ \E x \in Findings(root, other) : IsError(x)
Shown(root) ==
  UNION {{contributions[run[2]].path} \X Findings(root, run) :
           run \in {r \in CheckIntegrity(root) : Rendered(root, r)}}

Report ==
  /\ pc = "report"
  /\ \E root \in pending :
       /\ pending' = pending \ {root}
       /\ \E shown \in {Shown(root)} :
            /\ reported' = reported \cup shown
            /\ errors' = (errors \/ \E x \in shown : tree.deny \/ IsError(x[2]))
  /\ UNCHANGED <<tree, pc, todo, project, clean, failed, contributions, parent, exit>>

Finish ==
  /\ pc = "report" /\ pending = {}
  /\ pc' = "done"
  /\ exit' = IF errors \/ failed > 0 THEN "failure" ELSE "success"
  /\ UNCHANGED <<tree, todo, project, clean, failed, contributions, parent, pending, reported, errors>>

Finished == pc = "done" /\ UNCHANGED vars

Init ==
  /\ \E slice \in Trees : tree \in slice
  /\ pc = "check" /\ todo = tree.listing
  /\ project = [sources |-> {f.path : f \in Range(tree.listing)}, artifacts |-> {}]
  /\ clean = {} /\ failed = 0 /\ reported = {} /\ errors = FALSE /\ exit = "none"
  /\ contributions = <<>> /\ parent = [p \in {} |-> p] /\ pending = {}

Next ==
  \/ CheckDomain \/ CheckFlow \/ CheckDesign \/ CheckPolicy \/ CheckOther
  \/ StartUnion \/ Contribute \/ Abort \/ StartLinks \/ Link \/ LinkNext
  \/ StartReport \/ Report \/ Finish \/ Finished

Spec == Init /\ [][Next]_vars

-----------------------------------------------------------------------------
(* What a directory check promises.                                        *)

Listed == Range(tree.listing)
Listing == {f.path : f \in Listed}
SelfContained == \A f \in Listed : \A p \in Range(f.imports) : p \in Listing \/ ~Exists(p)

\* What a file is joined with when it is checked, whatever was checked before:
\* the other files of the surface that compile.
Pool(extension, f) ==
  {g.path : g \in {h \in Listed \ {f} : Extension(h.path) = extension /\ PairCompiles(h)}}
Joined(f) ==
  CASE Extension(f.path) = "ddd" -> DesignJoins(f, Pool("actor", f), Pool("dmn", f))
    [] Extension(f.path) = "actor" -> PolicyJoins(f, Pool("ddd", f))
    [] Extension(f.path) = "ifml" -> FlowJoins(f)
    [] OTHER -> TRUE
Passes(f) == Compiles(f) /\ Joined(f) /\ ~(tree.deny /\ f.lints)

\* The verdict on a file of a directory whose imports stay inside it depends on
\* the texts alone: not on the names that order the listing, nor on what earlier
\* checks have left in the cache (project.rs: a plain map with a lookup before
\* each compute suffices; check.rs: each file checked independently).
OrderIsIrrelevant ==
  pc = "done" /\ SelfContained => \A f \in Listed : Clean(f.path) <=> Passes(f)

\* Two files belong to one application when no set that imports lead neither into
\* nor out of tells them apart, over any files that are there.
Separations(files) ==
  LET edges == UNION {{<<g.path, p>> : p \in LinksOf(g)} : g \in files}
  IN  {S \in SUBSET {g.path : g \in OnDisk} : \A e \in edges : e[1] \in S <=> e[2] \in S}
ApplicationOf(f, files, separations) ==
  {g \in files : \A S \in separations : f.path \in S <=> g.path \in S}

\* What nobody among these files answers, as far as anybody could.
Dangling(f, files) ==
  LET Judged(extension) == \E g \in files : Extension(g.path) = extension
      Bound(a) == UNION {{<<g, i>> : i \in {j \in DOMAIN g.operations : Lower(g.operations[j]) = Lower(a)}} :
                           g \in files}
  IN  {<<"X0003", n>> : n \in {e \in f.emits : Judged("evt") /\ \A g \in files : e \notin g.events}}
 \cup {<<"X0004", n>> : n \in {e \in f.events : Judged("ddd") /\ \A g \in files : e \notin g.emits}}
 \cup {<<"X0005", n>> : n \in {a \in f.actions : Judged("ddd") /\ Bound(a) = {}}}
 \cup {<<"X0006", n>> : n \in {a \in f.actions : \E x, y \in Bound(a) : x # y}}
 \cup {<<"X0007", n>> : n \in {c \in f.consumers : Judged("deploy") /\ \A g \in files : c \notin g.components}}
 \cup {<<"X0008", n>> : n \in {r \in f.requires \cup f.commands :
          Judged("actor") /\ \A g \in files : r \notin g.declares \cup g.actors}}
 \cup {<<"X0008", n>> : n \in {r \in f.roles : Judged("actor") /\ \A g \in files : r \notin g.actors}}
\* The lint channel: what the joins of phase 1 have judged over the directory.
Uncarried(f, files) ==
  LET Judged(extension) == \E g \in files : Extension(g.path) = extension
  IN  {<<"X0001", n>> : n \in {c \in f.carries : Judged("actor") /\ \A g \in files : c \notin g.declares}}
 \cup {<<"X0002", n>> : n \in {c \in f.grants : Judged("ddd") /\ \A g \in files : c \notin g.carries}}

\* A pass that runs to its end reports exactly the dangling references of each
\* application of compiled files, and the lints of the files phase 1 passed, and
\* the batch succeeds just when every file passed and nothing dangles (a file
\* listed twice has to pass twice; integrity.rs: unrelated applications never
\* cross-check each other).
ReportsExactlyDangling ==
  pc = "done" /\ exit # "error" =>
    LET files == {f \in Listed : Contributes(f)}
        Of1(f) == {r[2] : r \in {x \in reported : x[1] = f.path}}
        separations == Separations(files)
        dangling == [f \in files |-> Dangling(f, ApplicationOf(f, files, separations))]
        lints == [f \in files |-> Uncarried(f, ApplicationOf(f, files, separations))]
    IN  /\ \A f \in files : {x \in Of1(f) : IsError(x)} = dangling[f]
        /\ \A f \in files : Clean(f.path) => {x \in Of1(f) : ~IsError(x)} = lints[f]
        /\ \A f \in files : {x \in Of1(f) : ~IsError(x)} \subseteq lints[f]
        /\ LET sound == /\ \A f \in Listed : Clean(f.path)
                        /\ \A f \in files : dangling[f] = {} /\ (tree.deny => lints[f] = {})
               once == \A i, j \in DOMAIN tree.listing : tree.listing[i] = tree.listing[j] => i = j
           IN  /\ exit = "success" => sound
               /\ once /\ sound => exit = "success"
=============================================================================
