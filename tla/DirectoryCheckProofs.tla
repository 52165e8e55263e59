----------------------- MODULE DirectoryCheckProofs -----------------------
(***************************************************************************)
(* Proofs about DirectoryCheck: what phase 1 prints for a file of a        *)
(* directory whose imports stay inside it is a function of the texts, and  *)
(* what phase 2 reports is what dangles in an application.                 *)
(***************************************************************************)
EXTENDS DirectoryCheck, FiniteSetTheorems, SequenceTheorems, WellFoundedInduction, TLAPS

-----------------------------------------------------------------------------
(* The disk, which no step changes.                                        *)

\* What TreesAssumption says of the tree at hand.
TreeHolds ==
  /\ tree.listing \in Seq(Listed) /\ IsFiniteSet(OnDisk)
  /\ \A f \in OnDisk : /\ f.imports \in Seq(Range(f.imports))
                       /\ f.operations \in Seq(Range(f.operations))
                       /\ \A s \in DOMAIN NamesIn : \A n \in NamesIn[s] : f[n] # {} => Extension(f.path) = s
                       /\ f.operations # <<>> => Extension(f.path) = "ddd"
                       /\ f.lints => Extension(f.path) = "ifml"
  /\ \A f, g \in OnDisk : f.path = g.path => f = g

LEMMA PathIsOneFile ==
  ASSUME TreeHolds
  PROVE  /\ \A f \in Listed : FileAt(f.path) = f /\ f \in OnDisk
         /\ \A p \in Listing : FileAt(p) \in Listed
         /\ \A f, g \in Listed : f.path = g.path => f = g
<1>1. \A f, g \in OnDisk : f.path = g.path => f = g
  BY DEF TreeHolds
<1> QED BY <1>1 DEF Listing, FileAt, Listed, OnDisk

LEMMA SameDisk ==
  ASSUME tree' = tree
  PROVE  /\ Listed' = Listed /\ Listing' = Listing /\ OnDisk' = OnDisk
         /\ SelfContained' = SelfContained /\ TreeHolds' = TreeHolds
         /\ \A p : Exists(p)' = Exists(p) /\ FileAt(p)' = FileAt(p)
<1>1. Listed' = Listed /\ OnDisk' = OnDisk /\ Listing' = Listing
  BY DEF Listed, OnDisk, Listing
<1>2. \A p : Exists(p)' = Exists(p) /\ FileAt(p)' = FileAt(p)
  BY <1>1 DEF Exists, FileAt
<1>3. SelfContained' = SelfContained
  BY <1>1, <1>2 DEF SelfContained
<1>4. TreeHolds' = TreeHolds
  BY <1>1 DEF TreeHolds
<1> QED BY <1>1, <1>2, <1>3, <1>4

LEMMA SamePairs ==
  ASSUME tree' = tree
  PROVE  /\ \A f, e : Imported(f, e)' = Imported(f, e) /\ Unread(f, e)' = Unread(f, e)
         /\ \A f : PairReads(f)' = PairReads(f) /\ PairCompiles(f)' = PairCompiles(f)
<1>1. \A p : Exists(p)' = Exists(p) /\ FileAt(p)' = FileAt(p)
  BY SameDisk
<1>2. \A f, e : Imported(f, e)' = Imported(f, e) /\ Unread(f, e)' = Unread(f, e)
  BY <1>1 DEF Imported, Unread
<1>3. \A f : PairReads(f)' = PairReads(f)
  BY <1>2 DEF PairReads
<1>4. \A f : PairCompiles(f)' = PairCompiles(f)
  BY <1>2, <1>3 DEF PairCompiles
<1> QED BY <1>2, <1>3, <1>4

LEMMA SameFlows ==
  ASSUME tree' = tree
  PROVE  /\ \A s : FlowsFrom(s)' = FlowsFrom(s)
         /\ \A f, e : ReachedBy(f, e)' = ReachedBy(f, e)
         /\ \A f : FlowReads(f)' = FlowReads(f) /\ FlowResolves(f)' = FlowResolves(f)
         /\ \A f : FlowCompiles(f)' = FlowCompiles(f)
<1>1. \A s : FlowsFrom(s)' = FlowsFrom(s)
  BY SMT DEF FlowsFrom, Imported, Exists, FileAt, OnDisk
<1>2. \A f, e : ReachedBy(f, e)' = ReachedBy(f, e)
  BY <1>1, SamePairs DEF ReachedBy
<1>3. \A f : FlowReads(f)' = FlowReads(f)
  BY <1>1, <1>2, SamePairs DEF FlowReads
<1>4. \A f : FlowResolves(f)' = FlowResolves(f)
  BY <1>1, SamePairs DEF FlowResolves
<1>5. \A f : FlowCompiles(f)' = FlowCompiles(f)
  BY <1>3, <1>4 DEF FlowCompiles
<1> QED BY <1>1, <1>2, <1>3, <1>4, <1>5

\* What a file compiles to, and what it is joined with, are functions of the tree.
LEMMA SameCompiles ==
  ASSUME tree' = tree
  PROVE  \A f : Compiles(f)' = Compiles(f) /\ Reads(f)' = Reads(f)
<1>1. \A p : Gathers(p)' = Gathers(p)
  BY SameDisk, SamePairs, SameFlows DEF Gathers
<1>2. \A f : BundleReads(f)' = BundleReads(f)
  BY <1>1 DEF BundleReads
<1>3. \A f : BundleCompiles(f)' = BundleCompiles(f)
  BY <1>2, SamePairs DEF BundleCompiles
<1>4. \A f : Compiles(f)' = Compiles(f)
  BY <1>3, SamePairs, SameFlows DEF Compiles
<1>5. \A f : Reads(f)' = Reads(f)
  BY <1>2, SamePairs, SameFlows DEF Reads
<1> QED BY <1>4, <1>5

LEMMA SamePasses ==
  ASSUME tree' = tree
  PROVE  \A f : Passes(f)' = Passes(f)
<1>1. \A f : Compiles(f)' = Compiles(f)
  BY SameCompiles
<1>2. \A e, f : Pool(e, f)' = Pool(e, f)
  BY SameDisk, SamePairs DEF Pool
<1>3. \A paths, names : Union(paths, names)' = Union(paths, names)
  BY SameDisk DEF Union
<1>4. \A f, p, d : DesignJoins(f, p, d)' = DesignJoins(f, p, d)
  BY <1>3 DEF DesignJoins
<1>5. \A f, d : PolicyJoins(f, d)' = PolicyJoins(f, d)
  BY <1>3 DEF PolicyJoins
<1>6. \A f : FlowJoins(f)' = FlowJoins(f)
  BY SameFlows DEF FlowJoins
<1>7. \A f : Joined(f)' = Joined(f)
  BY <1>2, <1>4, <1>5, <1>6 DEF Joined
<1> QED BY <1>1, <1>7 DEF Passes

-----------------------------------------------------------------------------
(* A flow's walk stays among the listed files.                             *)

LEMMA SetInduction ==
  ASSUME NEW S, 0 \in S, \A n \in Nat : n \in S => n + 1 \in S
  PROVE  Nat \subseteq S
<1> SUFFICES ASSUME NEW bad \in Nat, bad \notin S PROVE FALSE
  OBVIOUS
<1> DEFINE R == OpToRel(<, Nat)
           Bad == Nat \ S
<1>1. IsWellFoundedOn(R, Nat)
  BY NatLessThanWellFounded
<1>2. \A a, b \in Nat : <<a, b>> \in R <=> a < b
  BY DEF OpToRel
<1> HIDE DEF R
<1>3. PICK n \in Bad : \A m \in Bad : ~(<<m, n>> \in R)
  BY <1>1, WFMin
<1>4. n \in Nat /\ n # 0 /\ n - 1 \in Nat
  BY <1>3
<1>5. n - 1 \notin Bad
  <2>1. n - 1 < n /\ n \in Nat
    BY <1>4
  <2>2. <<n - 1, n>> \in R
    BY <1>2, <1>4, <2>1
  <2> QED BY <1>3, <2>2
<1> QED BY <1>3, <1>4, <1>5

\* The walk of FlowsFrom, step by step.
Onward(files) == files \cup UNION {Imported(g, {"ifml"}) : g \in files}
Walk(seen, n, walk) == walk = [k \in 0..n |-> IF k = 0 THEN seen ELSE Onward(walk[k - 1])]

LEMMA WalkExists ==
  ASSUME NEW seen
  PROVE  \A n \in Nat : \E walk : Walk(seen, n, walk)
<1> DEFINE S == {n \in Nat : \E walk : Walk(seen, n, walk)}
<1>1. 0 \in S
  <2> DEFINE walk == [k \in 0..0 |-> seen]
  <2>1. Walk(seen, 0, walk)
    BY DEF Walk
  <2> QED BY <2>1
<1>2. ASSUME NEW n \in Nat, n \in S PROVE n + 1 \in S
  <2>1. PICK short : Walk(seen, n, short)
    BY <1>2
  <2> DEFINE long == [k \in 0..(n + 1) |-> IF k = n + 1 THEN Onward(short[n]) ELSE short[k]]
  <2>2. ASSUME NEW k \in 0..(n + 1)
        PROVE  long[k] = IF k = 0 THEN seen ELSE Onward(long[k - 1])
    <3>1. CASE k = n + 1
      <4>1. long[k] = Onward(short[n]) /\ long[k - 1] = short[n] /\ k # 0
        BY <3>1
      <4> QED BY <4>1
    <3>2. CASE k # n + 1
      <4>1. k \in 0..n /\ long[k] = short[k] /\ (k # 0 => long[k - 1] = short[k - 1])
        BY <3>2
      <4>2. short[k] = IF k = 0 THEN seen ELSE Onward(short[k - 1])
        BY <2>1, <4>1 DEF Walk
      <4> QED BY <4>1, <4>2
    <3> QED BY <3>1, <3>2
  <2>3. Walk(seen, n + 1, long)
    <3>1. long = [k \in 0..(n + 1) |-> long[k]]
      OBVIOUS
    <3> HIDE DEF long
    <3> QED BY <2>2, <3>1 DEF Walk
  <2> QED BY <2>3
<1> HIDE DEF S
<1>3. Nat \subseteq S
  BY <1>1, <1>2, SetInduction
<1> QED BY <1>3 DEF S

\* What imports lead to in such a directory, as far as it is there, is listed.
LEMMA ImportedIsListed ==
  ASSUME TreeHolds, SelfContained, NEW f \in Listed, NEW e
  PROVE  /\ Imported(f, e) \subseteq Listed
         /\ \A p \in Range(f.imports) : Exists(p) => p \in Listing
<1>1. \A p \in Range(f.imports) : Exists(p) => p \in Listing
  BY DEF SelfContained
<1>2. \A p \in Listing : FileAt(p) \in Listed
  BY PathIsOneFile
<1> QED BY <1>1, <1>2 DEF Imported, ImportsOf

LEMMA FlowsAreListed ==
  ASSUME TreeHolds, SelfContained, NEW f \in Listed
  PROVE  FlowsFrom({f}) \subseteq Listed
<1> DEFINE N == Cardinality(OnDisk)
           w == CHOOSE walk : Walk({f}, N, walk)
<1>1. N \in Nat
  BY FS_CardinalityType DEF TreeHolds
<1>2. Walk({f}, N, w)
  BY <1>1, WalkExists
<1>3. FlowsFrom({f}) = w[N]
  BY DEF FlowsFrom, Walk, Onward
<1> HIDE DEF N, w
<1>4. w[0] = {f} /\ \A k \in 1..N : w[k] = Onward(w[k - 1])
  <2>1. \A k \in 0..N : w[k] = IF k = 0 THEN {f} ELSE Onward(w[k - 1])
    BY <1>2 DEF Walk
  <2>2. 0 \in 0..N /\ \A k \in 1..N : k \in 0..N /\ k # 0
    BY <1>1
  <2> QED BY <2>1, <2>2
<1> DEFINE S == {k \in Nat : k <= N => w[k] \subseteq Listed}
<1>5. 0 \in S
  BY <1>4
<1>6. ASSUME NEW k \in Nat, k \in S PROVE k + 1 \in S
  <2> SUFFICES ASSUME k + 1 <= N PROVE w[k + 1] \subseteq Listed
    OBVIOUS
  <2>1. w[k] \subseteq Listed /\ w[k + 1] = Onward(w[k])
    BY <1>1, <1>4, <1>6
  <2> QED BY <2>1, ImportedIsListed DEF Onward
<1> HIDE DEF S
<1>7. Nat \subseteq S
  BY <1>5, <1>6, SetInduction
<1> QED BY <1>1, <1>3, <1>7 DEF S

\* So is everything a check fetches.
LEMMA FetchedIsListed ==
  ASSUME TreeHolds, SelfContained, NEW f \in Listed
  PROVE  \A p \in Fetches(f) : Exists(p) => p \in Listing
<1>1. \A g \in Listed : \A p \in Range(g.imports) : Exists(p) => p \in Listing
  BY ImportedIsListed
<1>2. \A p : Exists(p) /\ p \in Listing => FileAt(p) \in Listed
  BY PathIsOneFile
<1>3. ASSUME NEW g \in Listed, NEW p \in FlowFetches(g), Exists(p) PROVE p \in Listing
  <2>1. FlowsFrom({g}) \subseteq Listed
    BY FlowsAreListed
  <2>2. ReachedBy(g, "actor") \subseteq Listed
    <3>1. \A h \in FlowsFrom({g}) : Imported(h, {"actor"}) \subseteq Listed
      BY <2>1, ImportedIsListed
    <3> QED BY <3>1 DEF ReachedBy
  <2>3. PICK h \in FlowsFrom({g}) \cup ReachedBy(g, "actor") : p \in Range(h.imports)
    BY <1>3 DEF FlowFetches, ImportsOf
  <2> QED BY <1>1, <1>3, <2>1, <2>2, <2>3
<1>4. ASSUME NEW p \in Range(f.imports), NEW q \in GatheredWith(p), Exists(q) PROVE q \in Listing
  <2>1. CASE q = p
    BY <1>1, <1>4, <2>1
  <2>2. CASE q # p
    <3>1. Exists(p)
      BY <1>4, <2>2 DEF GatheredWith
    <3>2. FileAt(p) \in Listed
      BY <1>1, <1>2, <3>1
    <3>3. q \in FlowFetches(FileAt(p)) \/ q \in Range(FileAt(p).imports)
      BY <1>4, <2>2 DEF GatheredWith
    <3> QED BY <1>1, <1>3, <1>4, <3>2, <3>3
  <2> QED BY <2>1, <2>2
<1>5. ASSUME NEW q \in BundleFetches(f), Exists(q) PROVE q \in Listing
  <2>1. PICK i \in DOMAIN f.imports : q \in GatheredWith(f.imports[i])
    BY <1>5 DEF BundleFetches
  <2>2. f.imports[i] \in Range(f.imports)
    BY <2>1 DEF Range
  <2> QED BY <1>4, <1>5, <2>1, <2>2
<1>6. Fetches(f) \in {{}, FlowFetches(f), BundleFetches(f), Range(f.imports)}
  BY DEF Fetches
<1> QED BY <1>1, <1>3, <1>5, <1>6

-----------------------------------------------------------------------------
(* The snapshot and the cache while files are checked.                     *)

\* The surfaces whose artifacts a join looks for in the cache.
Paired == {"actor", "ddd", "dmn"}

\* The snapshot holds the listing, and the cache only what compiles, so that
\* what it holds and what compiles now are together what compiles at all.
Sound(snapshot) ==
  /\ DOMAIN snapshot = {"sources", "artifacts"}
  /\ snapshot.sources = Listing
  /\ \A p \in snapshot.artifacts : Extension(p) \in Paired => PairCompiles(FileAt(p))

LEMMA FetchKeepsSound ==
  ASSUME NEW snapshot, Sound(snapshot), NEW paths, \A p \in paths : Exists(p) => p \in Listing
  PROVE  Sound(Fetch(snapshot, paths))
<1> DEFINE new == Fetch(snapshot, paths)
<1>1. DOMAIN new = DOMAIN snapshot /\ new.sources = Listing /\ new.artifacts = snapshot.artifacts
  BY DEF Sound, Fetch
<1> QED BY <1>1 DEF Sound

LEMMA CachingKeepsSound ==
  ASSUME NEW snapshot, Sound(snapshot), NEW new,
         \A p \in new : Extension(p) \in Paired => PairCompiles(FileAt(p))
  PROVE  Sound([snapshot EXCEPT !.artifacts = @ \cup new])
<1> DEFINE s == [snapshot EXCEPT !.artifacts = @ \cup new]
<1>1. DOMAIN s = DOMAIN snapshot /\ s.sources = Listing /\ s.artifacts = snapshot.artifacts \cup new
  BY DEF Sound
<1> HIDE DEF s
<1> QED BY <1>1 DEF Sound

\* Whatever is in the cache, the siblings are those that compile.
LEMMA SiblingsArePool ==
  ASSUME TreeHolds, NEW snapshot, Sound(snapshot), NEW e \in Paired, NEW f \in Listed
  PROVE  Siblings(snapshot, e, f) = Pool(e, f)
<1>1. \A g \in Listed : FileAt(g.path) = g
  BY PathIsOneFile
<1>2. \A p \in Keys(snapshot, e) : Extension(p) = e /\ \E g \in Listed : g.path = p
  BY DEF Keys, Sound, Listing
<1>3. Siblings(snapshot, e, f) = {p \in Keys(snapshot, e) \ {f.path} : PairCompiles(FileAt(p))}
  BY <1>2 DEF Siblings, Keys, Sound
<1>4. \A g \in Listed : g # f <=> g.path # f.path
  BY <1>1
<1>5. \A g \in Listed : Extension(g.path) = e => g.path \in Keys(snapshot, e)
  BY DEF Keys, Sound, Listing
<1>6. ASSUME NEW p \in Siblings(snapshot, e, f) PROVE p \in Pool(e, f)
  <2>1. PICK g \in Listed : g.path = p /\ Extension(g.path) = e /\ PairCompiles(FileAt(g.path)) /\ p # f.path
    BY <1>2, <1>3, <1>6
  <2> QED BY <1>1, <2>1 DEF Pool
<1>7. ASSUME NEW p \in Pool(e, f) PROVE p \in Siblings(snapshot, e, f)
  <2>1. PICK g \in Listed : g # f /\ g.path = p /\ Extension(g.path) = e /\ PairCompiles(g)
    BY <1>7 DEF Pool
  <2> QED BY <1>1, <1>3, <1>4, <1>5, <2>1
<1> QED BY <1>6, <1>7

LEMMA GatherKeepsSound ==
  ASSUME TreeHolds, SelfContained, NEW snapshot, Sound(snapshot), NEW e \in Paired, NEW f \in Listed
  PROVE  Sound(GatherSiblings(snapshot, e, f))
<1> DEFINE tried == Keys(snapshot, e) \ ({f.path} \cup snapshot.artifacts)
           paths == UNION {Range(FileAt(p).imports) : p \in tried}
           read == Fetch(snapshot, paths)
           found == Siblings(snapshot, e, f)
<1>1. \A p \in paths : Exists(p) => p \in Listing
  <2>1. \A p \in tried : FileAt(p) \in Listed
    BY PathIsOneFile DEF Keys, Sound
  <2>2. \A g \in Listed : \A p \in Range(g.imports) : Exists(p) => p \in Listing
    BY DEF SelfContained
  <2> QED BY <2>1, <2>2
<1>2. Sound(read)
  BY <1>1, FetchKeepsSound
<1>3. \A p \in found : Extension(p) \in Paired => PairCompiles(FileAt(p))
  BY DEF Siblings, Keys, Sound
<1>4. GatherSiblings(snapshot, e, f) = [read EXCEPT !.artifacts = @ \cup found]
  BY DEF GatherSiblings
<1> HIDE DEF read, found
<1> QED BY <1>2, <1>3, <1>4, CachingKeepsSound

-----------------------------------------------------------------------------
(* Verdicts while files are checked.                                       *)

\* What was printed OK deserves it, and what deserves it is waiting or was.
Judged ==
  /\ \A f \in Listed : Clean(f.path) => Passes(f)
  /\ \A f \in Listed : Passes(f) => Clean(f.path) \/ (pc = "check" /\ f \in Range(todo))

CheckInv ==
  /\ TreeHolds
  /\ pc = "check" => todo \in Seq(Listed)
  /\ SelfContained => Sound(project) /\ Judged

LEMMA CheckInit == ASSUME Init PROVE CheckInv
<1>1. TreeHolds
  <2>1. PICK slice \in Trees : tree \in slice
    BY DEF Init
  <2>2. /\ tree.listing \in Seq(Range(tree.listing)) /\ IsFiniteSet(tree.outside)
        /\ \A f \in Range(tree.listing) \cup tree.outside :
             /\ f.imports \in Seq(Range(f.imports))
             /\ f.operations \in Seq(Range(f.operations))
             /\ \A s \in DOMAIN NamesIn : \A n \in NamesIn[s] : f[n] # {} => f.path[2] = s
             /\ f.operations # <<>> => f.path[2] = "ddd"
             /\ f.lints => f.path[2] = "ifml"
        /\ \A f, g \in Range(tree.listing) \cup tree.outside : f.path = g.path => f = g
    BY <2>1, TreesAssumption
  <2>3. IsFiniteSet(Range(tree.listing))
    <3> DEFINE l == tree.listing
    <3>1. Len(l) \in Nat /\ DOMAIN l = 1..Len(l)
      BY <2>2
    <3>2. IsFiniteSet(1..Len(l))
      BY <3>1, FS_Interval
    <3>3. l \in Surjection(1..Len(l), Range(l))
      BY <2>2, <3>1 DEF Surjection, Range
    <3> QED BY <3>2, <3>3, FS_Surjection
  <2>4. IsFiniteSet(OnDisk)
    BY <2>2, <2>3, FS_Union DEF OnDisk
  <2> QED BY <2>2, <2>4 DEF TreeHolds, OnDisk, Listed, Extension
<1>2. todo \in Seq(Listed)
  BY <1>1 DEF Init, TreeHolds
<1>3. Sound(project)
  BY DEF Init, Sound, Listing, Listed
<1>4. Judged
  BY DEF Init, Judged, Listed, Clean
<1> QED BY <1>1, <1>2, <1>3, <1>4 DEF CheckInv

\* One verdict, when it is the one the file deserves.
LEMMA SettleKeepsInv ==
  ASSUME CheckInv, pc = "check", todo # <<>>, NEW snapshot, NEW compiled, NEW warned,
         Settle(snapshot, compiled, warned),
         SelfContained => /\ Sound(snapshot)
                          /\ (compiled /\ ~(tree.deny /\ warned)) <=> Passes(Head(todo))
                          /\ compiled => Compiles(Head(todo))
  PROVE  CheckInv'
<1> DEFINE f == Head(todo)
           ok == compiled /\ ~(tree.deny /\ warned)
<1>1. tree' = tree /\ pc' = pc /\ todo' = Tail(todo)
  BY DEF Settle
<1>2. TreeHolds' /\ Listed' = Listed /\ SelfContained' = SelfContained /\ TreeHolds
  BY <1>1, SameDisk DEF CheckInv
<1>3. /\ f \in Listed /\ Tail(todo) \in Seq(Listed)
      /\ \A g \in Range(todo) : g = f \/ g \in Range(Tail(todo))
  <2>1. todo \in Seq(Listed)
    BY DEF CheckInv
  <2>2. f \in Listed /\ Tail(todo) \in Seq(Listed)
    BY <2>1
  <2>3. ASSUME NEW i \in 1..Len(todo), i # 1 PROVE todo[i] \in Range(Tail(todo))
    <3>1. i - 1 \in 1..Len(Tail(todo)) /\ Tail(todo)[i - 1] = todo[i]
      BY <2>1, <2>3
    <3>2. DOMAIN Tail(todo) = 1..Len(Tail(todo))
      BY <2>2
    <3> QED BY <3>1, <3>2 DEF Range
  <2>4. \A g \in Range(todo) : \E i \in 1..Len(todo) : g = todo[i]
    BY <2>1 DEF Range
  <2> QED BY <2>1, <2>2, <2>3, <2>4
<1> SUFFICES ASSUME SelfContained PROVE Sound(project)' /\ Judged'
  BY <1>1, <1>2, <1>3 DEF CheckInv
<1>4. Sound(project)'
  <2>1. Listing' = Listing /\ \A p : PairCompiles(FileAt(p))' = PairCompiles(FileAt(p))
    BY <1>1, SameDisk, SamePairs
  <2>2. Sound(project')
    <3>1. CASE ~compiled
      BY <3>1 DEF Settle
    <3>2. CASE compiled
      <4>1. project' = [snapshot EXCEPT !.artifacts = @ \cup {f.path}]
        BY <3>2 DEF Settle, Store
      <4>2. Compiles(f) /\ FileAt(f.path) = f
        BY <1>2, <1>3, <3>2, PathIsOneFile
      <4>3. Extension(f.path) \in Paired => PairCompiles(f)
        BY <4>2 DEF Compiles, Paired
      <4> QED BY <4>1, <4>2, <4>3, CachingKeepsSound
    <3> QED BY <3>1, <3>2
  <2> QED BY <2>1, <2>2 DEF Sound
<1>5. clean' = IF ok THEN clean \cup {f.path} ELSE clean
  BY DEF Settle
<1>6. ASSUME NEW g \in Listed, g.path \in clean' PROVE Passes(g)
  <2>1. CASE g.path \in clean
    BY <2>1 DEF CheckInv, Judged, Clean
  <2>2. CASE g.path \notin clean
    <3>1. ok /\ g.path = f.path
      BY <1>5, <1>6, <2>2
    <3>2. g = f
      BY <1>2, <1>3, <3>1, PathIsOneFile
    <3> QED BY <3>1, <3>2
  <2> QED BY <2>1, <2>2
<1>7. ASSUME NEW g \in Listed, Passes(g)
      PROVE  g.path \in clean' \/ (pc' = "check" /\ g \in Range(todo'))
  <2>1. CASE g = f
    BY <1>5, <1>7, <2>1
  <2>2. CASE g # f
    <3>1. g.path \in clean \/ g \in Range(Tail(todo))
      BY <1>3, <1>7, <2>2 DEF CheckInv, Judged, Clean
    <3> QED BY <1>1, <1>5, <3>1
  <2> QED BY <2>1, <2>2
<1>8. \A g : Passes(g)' = Passes(g)
  BY <1>1, SamePasses
<1> QED BY <1>2, <1>4, <1>6, <1>7, <1>8 DEF Judged, Clean

\* The joins of each surface.
LEMMA JoinedBySurface ==
  ASSUME NEW f
  PROVE  /\ Extension(f.path) = "ddd" => (Joined(f) <=> DesignJoins(f, Pool("actor", f), Pool("dmn", f)))
         /\ Extension(f.path) = "actor" => (Joined(f) <=> PolicyJoins(f, Pool("ddd", f)))
         /\ Extension(f.path) = "ifml" => (Joined(f) <=> FlowJoins(f))
         /\ Extension(f.path) \notin {"ddd", "actor", "ifml"} => Joined(f)
  BY Zenon DEF Joined

\* The file at hand is listed, what its check fetches leaves the snapshot sound,
\* and only a flow can have warnings.
LEMMA FileAtHand ==
  ASSUME CheckInv, NEW extensions, At(extensions)
  PROVE  /\ Head(todo) \in Listed /\ Extension(Head(todo).path) \in extensions
         /\ SelfContained => Sound(Fetch(project, Fetches(Head(todo))))
         /\ Extension(Head(todo).path) # "ifml" => ~Head(todo).lints
<1>1. Head(todo) \in Listed /\ Extension(Head(todo).path) \in extensions
  BY DEF CheckInv, At
<1>2. ASSUME SelfContained PROVE Sound(Fetch(project, Fetches(Head(todo))))
  BY <1>1, <1>2, FetchedIsListed, FetchKeepsSound DEF CheckInv
<1> QED BY <1>1, <1>2 DEF CheckInv, TreeHolds, Listed, OnDisk

LEMMA CompilesReads == ASSUME NEW f, Compiles(f) PROVE Reads(f)
  BY DEF Compiles, Reads, FlowCompiles, BundleCompiles, PairCompiles

\* No step changes the tree, and none but those of phase 1 the cache or a verdict.
LEMMA CheckStep == ASSUME CheckInv, [Next]_vars PROVE CheckInv'
<1> DEFINE f == Head(todo)
           read == Fetch(project, Fetches(f))
<1>1. CASE CheckDomain
  <2>1. pc = "check" /\ todo # <<>> /\ f \in Listed /\ Extension(f.path) = "mox" /\ ~f.lints
    <3>1. At({"mox"})
      BY <1>1 DEF CheckDomain
    <3> QED BY <3>1, FileAtHand DEF At
  <2>2. Settle(project, Compiles(f), FALSE)
    BY <1>1 DEF CheckDomain
  <2>3. (Compiles(f) /\ ~(tree.deny /\ FALSE)) <=> Passes(f)
    BY <2>1, JoinedBySurface DEF Passes
  <2> QED BY <2>1, <2>2, <2>3, SettleKeepsInv DEF CheckInv
<1>2. CASE CheckOther
  <2>1. /\ pc = "check" /\ todo # <<>> /\ f \in Listed /\ ~f.lints
        /\ Extension(f.path) \in {"evt", "dmn", "uc", "cmmn", "deploy"}
        /\ SelfContained => Sound(read)
    <3>1. At({"evt", "dmn", "uc", "cmmn", "deploy"})
      BY <1>2 DEF CheckOther
    <3> QED BY <3>1, FileAtHand DEF At
  <2>2. Settle(read, Compiles(f), FALSE)
    BY <1>2 DEF CheckOther
  <2>3. (Compiles(f) /\ ~(tree.deny /\ FALSE)) <=> Passes(f)
    BY <2>1, JoinedBySurface DEF Passes
  <2> HIDE DEF read
  <2> QED BY <2>1, <2>2, <2>3, SettleKeepsInv
<1>3. CASE CheckFlow
  <2>1. /\ pc = "check" /\ todo # <<>> /\ f \in Listed /\ Extension(f.path) = "ifml"
        /\ SelfContained => Sound(read)
    <3>1. At({"ifml"})
      BY <1>3 DEF CheckFlow
    <3> QED BY <3>1, FileAtHand DEF At
  <2> DEFINE good == {a.path : a \in {b \in ReachedBy(f, "actor") : PairCompiles(b)}}
  <2>2. PICK compiled \in SUBSET good :
          Settle([read EXCEPT !.artifacts = @ \cup compiled], Compiles(f) /\ FlowJoins(f), f.lints)
    <3>1. \E compiled \in IF Reads(f) THEN {good}
                         ELSE IF \A g \in FlowsFrom({f}) \cup ReachedBy(f, "actor") : Unread(g, Bucketed) = {}
                              THEN SUBSET good ELSE {{}} :
            Settle([read EXCEPT !.artifacts = @ \cup compiled], Compiles(f) /\ FlowJoins(f), f.lints)
      BY <1>3 DEF CheckFlow
    <3> HIDE DEF read, good
    <3> QED BY <3>1
  <2>3. (Compiles(f) /\ FlowJoins(f) /\ ~(tree.deny /\ f.lints)) <=> Passes(f)
    BY <2>1, JoinedBySurface DEF Passes
  <2>4. ASSUME SelfContained PROVE Sound([read EXCEPT !.artifacts = @ \cup compiled])
    <3>1. FlowsFrom({f}) \subseteq Listed
      BY <2>1, <2>4, FlowsAreListed DEF CheckInv
    <3>2. \A h \in FlowsFrom({f}) : Imported(h, {"actor"}) \subseteq Listed
      BY <3>1, <2>4, ImportedIsListed DEF CheckInv
    <3>3. ReachedBy(f, "actor") \subseteq Listed
      BY <3>2 DEF ReachedBy
    <3>4. \A g \in Listed : FileAt(g.path) = g
      BY PathIsOneFile DEF CheckInv
    <3>5. \A p \in compiled : PairCompiles(FileAt(p))
      BY <2>2, <3>3, <3>4
    <3> HIDE DEF read
    <3> QED BY <2>1, <2>4, <3>5, CachingKeepsSound
  <2> HIDE DEF read
  <2> QED BY <2>1, <2>2, <2>3, <2>4, SettleKeepsInv
<1>4. CASE CheckDesign
  <2> DEFINE policies == Siblings(read, "actor", f)
             withPolicies == GatherSiblings(read, "actor", f)
             decisions == Siblings(withPolicies, "dmn", f)
             all == GatherSiblings(withPolicies, "dmn", f)
  <2>1. /\ pc = "check" /\ todo # <<>> /\ f \in Listed /\ Extension(f.path) = "ddd" /\ ~f.lints
        /\ SelfContained => Sound(read)
    <3>1. At({"ddd"})
      BY <1>4 DEF CheckDesign
    <3> QED BY <3>1, FileAtHand DEF At
  <2>2. IF ~Reads(f) THEN Settle(read, FALSE, FALSE)
        ELSE Settle(all, Compiles(f) /\ DesignJoins(f, policies, decisions), FALSE)
    BY <1>4 DEF CheckDesign
  <2>3. ASSUME SelfContained
        PROVE  /\ Sound(all)
               /\ (Compiles(f) /\ DesignJoins(f, policies, decisions)) <=> Passes(f)
    <3> HIDE DEF read
    <3>1. Sound(withPolicies) /\ policies = Pool("actor", f)
      BY <2>1, <2>3, GatherKeepsSound, SiblingsArePool DEF CheckInv, Paired
    <3> HIDE DEF withPolicies, policies
    <3>2. Sound(all) /\ decisions = Pool("dmn", f)
      BY <2>1, <2>3, <3>1, GatherKeepsSound, SiblingsArePool DEF CheckInv, Paired
    <3> HIDE DEF decisions, all
    <3> QED BY <2>1, <3>1, <3>2, JoinedBySurface DEF Passes
  <2> HIDE DEF read, policies, decisions, all
  <2>4. CASE Reads(f)
    BY <2>1, <2>2, <2>3, <2>4, SettleKeepsInv
  <2>5. CASE ~Reads(f)
    <3>1. ~Passes(f)
      BY <2>5, CompilesReads DEF Passes
    <3> QED BY <2>1, <2>2, <2>5, <3>1, SettleKeepsInv
  <2> QED BY <2>4, <2>5
<1>5. CASE CheckPolicy
  <2> DEFINE designs == Siblings(read, "ddd", f)
             all == GatherSiblings(read, "ddd", f)
  <2>1. /\ pc = "check" /\ todo # <<>> /\ f \in Listed /\ Extension(f.path) = "actor" /\ ~f.lints
        /\ SelfContained => Sound(read)
    <3>1. At({"actor"})
      BY <1>5 DEF CheckPolicy
    <3> QED BY <3>1, FileAtHand DEF At
  <2>2. IF ~Reads(f) THEN Settle(read, FALSE, FALSE)
        ELSE Settle(all, Compiles(f) /\ PolicyJoins(f, designs), FALSE)
    BY <1>5 DEF CheckPolicy
  <2>3. ASSUME SelfContained
        PROVE  Sound(all) /\ (Compiles(f) /\ PolicyJoins(f, designs) <=> Passes(f))
    <3> HIDE DEF read
    <3>1. Sound(all) /\ designs = Pool("ddd", f)
      BY <2>1, <2>3, GatherKeepsSound, SiblingsArePool DEF CheckInv, Paired
    <3> HIDE DEF designs, all
    <3> QED BY <2>1, <3>1, JoinedBySurface DEF Passes
  <2> HIDE DEF read, designs, all
  <2>4. CASE Reads(f)
    BY <2>1, <2>2, <2>3, <2>4, SettleKeepsInv
  <2>5. CASE ~Reads(f)
    <3>1. ~Passes(f)
      BY <2>5, CompilesReads DEF Passes
    <3> QED BY <2>1, <2>2, <2>5, <3>1, SettleKeepsInv
  <2> QED BY <2>4, <2>5
<1>6. CASE StartUnion
  <2>1. /\ pc = "check" /\ todo = <<>> /\ pc' = "union"
        /\ tree' = tree /\ project' = project /\ clean' = clean
    BY <1>6 DEF StartUnion
  <2>2. \A g : g \notin Range(todo)
    BY <2>1 DEF Range
  <2>3. SelfContained => Sound(project)' /\ Judged'
    BY <2>1, <2>2, SameDisk, SamePairs, SamePasses DEF CheckInv, Sound, Judged, Clean
  <2> QED BY <2>1, <2>3, SameDisk DEF CheckInv
<1>7. CASE \/ Contribute \/ Abort \/ StartLinks \/ Link \/ LinkNext \/ StartReport \/ Report \/ Finish
           \/ UNCHANGED vars
  <2>1. /\ tree' = tree /\ project' = project /\ clean' = clean
        /\ (pc # "check" /\ pc' # "check") \/ UNCHANGED vars
    BY <1>7 DEF Contribute, Abort, StartLinks, Link, LinkNext, StartReport, Report, Finish, vars
  <2>2. (pc = "check" <=> pc' = "check") /\ (pc' = "check" => todo' = todo)
    BY <2>1 DEF vars
  <2>3. SelfContained => Sound(project)' /\ Judged'
    BY <2>1, <2>2, SameDisk, SamePairs, SamePasses DEF CheckInv, Sound, Judged, Clean
  <2> QED BY <2>1, <2>2, <2>3, SameDisk DEF CheckInv
<1> QED BY <1>1, <1>2, <1>3, <1>4, <1>5, <1>6, <1>7 DEF Next, Finished

\* A batch that is over has judged every listed file as its text and the texts of
\* the directory deserve, in whatever order it came to them (check.rs: each file
\* checked independently).
THEOREM OrderNeverMatters == Spec => []OrderIsIrrelevant
<1>1. CheckInv => OrderIsIrrelevant
  BY DEF CheckInv, Judged, OrderIsIrrelevant
<1> QED BY <1>1, CheckInit, CheckStep, PTL DEF Spec

-----------------------------------------------------------------------------
(* Union-find.  Every node has a class, named by the root its links end    *)
(* in, and a height that grows along the links and is bounded by how many  *)
(* nodes are not roots; so a search is over within as many steps as there  *)
(* are nodes.                                                              *)

Moved(links) == {p \in DOMAIN links : links[p] # p}
Forest(links, height, class) ==
  /\ IsFiniteSet(DOMAIN links)
  /\ links \in [DOMAIN links -> DOMAIN links]
  /\ class \in [DOMAIN links -> DOMAIN links]
  /\ height \in [DOMAIN links -> Nat]
  /\ \A p \in DOMAIN links :
       /\ class[links[p]] = class[p] /\ links[class[p]] = class[p]
       /\ links[p] = p => class[p] = p
       /\ links[p] # p => height[p] < height[links[p]]
       /\ height[p] <= Cardinality(Moved(links))

LEMMA HalveKeepsForest ==
  ASSUME NEW links, NEW height, NEW class, Forest(links, height, class), NEW root \in DOMAIN links
  PROVE  LET next == Halve([links |-> links, root |-> root])
         IN  /\ Forest(next.links, height, class) /\ DOMAIN next.links = DOMAIN links
             /\ next.root \in DOMAIN links /\ class[next.root] = class[root]
             /\ links[root] = root => next.root = root /\ next.links = links
             /\ links[root] # root => height[next.root] > height[root]
<1> DEFINE up == links[root]
           halved == [links EXCEPT ![root] = links[up]]
           D == DOMAIN links
<1>1. CASE links[root] = root
  <2>1. Halve([links |-> links, root |-> root]) = [links |-> links, root |-> root]
    BY <1>1 DEF Halve
  <2> QED BY <1>1, <2>1
<1>2. CASE links[root] # root
  <2>1. Halve([links |-> links, root |-> root]) = [links |-> halved, root |-> halved[root]]
    BY <1>2 DEF Halve
  <2>2. DOMAIN halved = D /\ halved[root] = links[up] /\ \A p \in D : p # root => halved[p] = links[p]
    OBVIOUS
  <2>3. up \in D /\ links[up] \in D /\ height[root] \in Nat /\ height[up] \in Nat /\ height[links[up]] \in Nat
    BY DEF Forest
  <2>4. height[root] < height[links[up]]
    <3>1. height[root] < height[up]
      BY <1>2 DEF Forest
    <3>2. links[up] = up \/ height[up] < height[links[up]]
      BY <2>3 DEF Forest
    <3> QED BY <2>3, <3>1, <3>2
  <2>5. links[up] # root
    BY <2>3, <2>4
  <2>6. Moved(halved) = Moved(links)
    BY <1>2, <2>2, <2>5 DEF Moved
  <2>7. class[links[up]] = class[root]
    BY <2>3 DEF Forest
  <2>8. class[root] # root
    BY <1>2 DEF Forest
  <2>9. Forest(halved, height, class)
    <3>1. halved \in [D -> D] /\ IsFiniteSet(D) /\ class \in [D -> D] /\ height \in [D -> Nat]
      BY <2>2, <2>3 DEF Forest
    <3> HIDE DEF halved
    <3>2. ASSUME NEW p \in D
          PROVE  /\ class[halved[p]] = class[p] /\ halved[class[p]] = class[p]
                 /\ halved[p] = p => class[p] = p
                 /\ halved[p] # p => height[p] < height[halved[p]]
                 /\ height[p] <= Cardinality(Moved(halved))
      <4>1. /\ class[links[p]] = class[p] /\ links[class[p]] = class[p] /\ class[p] \in D
            /\ links[p] = p => class[p] = p
            /\ links[p] # p => height[p] < height[links[p]]
            /\ height[p] <= Cardinality(Moved(halved))
        BY <2>6 DEF Forest
      <4>2. class[p] # root
        BY <4>1, <1>2
      <4>3. CASE p = root
        BY <2>2, <2>4, <2>5, <2>7, <4>1, <4>2, <4>3
      <4>4. CASE p # root
        BY <2>2, <4>1, <4>2, <4>4
      <4> QED BY <4>3, <4>4
    <3> QED BY <2>2, <3>1, <3>2 DEF Forest
  <2> HIDE DEF halved
  <2> QED BY <1>2, <2>1, <2>2, <2>3, <2>4, <2>7, <2>9
<1> QED BY <1>1, <1>2

\* The search of FindRoot, step by step.
Search(links, node, n, search) ==
  search = [k \in 0..n |-> IF k = 0 THEN [links |-> links, root |-> node] ELSE Halve(search[k - 1])]

LEMMA SearchExists ==
  ASSUME NEW links, NEW node
  PROVE  \A n \in Nat : \E search : Search(links, node, n, search)
<1> DEFINE S == {n \in Nat : \E search : Search(links, node, n, search)}
           start == [links |-> links, root |-> node]
<1>1. 0 \in S
  <2> DEFINE search == [k \in 0..0 |-> start]
  <2>1. Search(links, node, 0, search)
    BY DEF Search
  <2> QED BY <2>1
<1>2. ASSUME NEW n \in Nat, n \in S PROVE n + 1 \in S
  <2>1. PICK short : Search(links, node, n, short)
    BY <1>2
  <2> DEFINE long == [k \in 0..(n + 1) |-> IF k = n + 1 THEN Halve(short[n]) ELSE short[k]]
  <2>2. ASSUME NEW k \in 0..(n + 1)
        PROVE  long[k] = IF k = 0 THEN start ELSE Halve(long[k - 1])
    <3>1. CASE k = n + 1
      <4>1. long[k] = Halve(short[n]) /\ long[k - 1] = short[n] /\ k # 0
        BY <3>1
      <4> QED BY <4>1
    <3>2. CASE k # n + 1
      <4>1. k \in 0..n /\ long[k] = short[k] /\ (k # 0 => long[k - 1] = short[k - 1])
        BY <3>2
      <4>2. short[k] = IF k = 0 THEN start ELSE Halve(short[k - 1])
        BY <2>1, <4>1 DEF Search
      <4> QED BY <4>1, <4>2
    <3> QED BY <3>1, <3>2
  <2>3. Search(links, node, n + 1, long)
    <3>1. long = [k \in 0..(n + 1) |-> long[k]]
      OBVIOUS
    <3> HIDE DEF long
    <3> QED BY <2>2, <3>1 DEF Search
  <2> QED BY <2>3
<1> HIDE DEF S
<1>3. Nat \subseteq S
  BY <1>1, <1>2, SetInduction
<1> QED BY <1>3 DEF S

\* A search ends at the name of the class, and leaves classes and heights alone.
LEMMA FindRootFindsClass ==
  ASSUME NEW links, NEW height, NEW class, Forest(links, height, class), NEW node \in DOMAIN links
  PROVE  /\ Forest(FindRoot(links, node).links, height, class)
         /\ DOMAIN FindRoot(links, node).links = DOMAIN links
         /\ FindRoot(links, node).root = class[node]
<1> DEFINE D == DOMAIN links
           N == Cardinality(D)
           s == CHOOSE search : Search(links, node, N, search)
<1>1. N \in Nat
  BY FS_CardinalityType DEF Forest
<1>2. Search(links, node, N, s)
  BY <1>1, SearchExists
<1>3. FindRoot(links, node) = s[N]
  BY DEF FindRoot, Search
<1> HIDE DEF N, s
<1>4. s[0] = [links |-> links, root |-> node] /\ \A k \in 1..N : s[k] = Halve(s[k - 1])
  <2>1. \A k \in 0..N : s[k] = IF k = 0 THEN [links |-> links, root |-> node] ELSE Halve(s[k - 1])
    BY <1>2 DEF Search
  <2>2. 0 \in 0..N /\ \A k \in 1..N : k \in 0..N /\ k # 0
    BY <1>1
  <2> QED BY <2>1, <2>2
<1> DEFINE Good(k) ==
             /\ s[k] = [links |-> s[k].links, root |-> s[k].root]
             /\ Forest(s[k].links, height, class) /\ DOMAIN s[k].links = D
             /\ s[k].root \in D /\ class[s[k].root] = class[node]
             /\ s[k].links[s[k].root] = s[k].root \/ height[s[k].root] >= k
           S == {k \in Nat : k <= N => Good(k)}
<1>5. 0 \in S
  BY <1>4 DEF Forest
<1>6. ASSUME NEW k \in Nat, k \in S PROVE k + 1 \in S
  <2> SUFFICES ASSUME k + 1 <= N PROVE Good(k + 1)
    OBVIOUS
  <2>1. Good(k) /\ s[k + 1] = Halve(s[k])
    BY <1>1, <1>4, <1>6
  <2> DEFINE l == s[k].links
             r == s[k].root
             next == Halve([links |-> l, root |-> r])
  <2>2. s[k + 1] = next /\ r \in DOMAIN l /\ Forest(l, height, class)
    BY <2>1
  <2>3. /\ Forest(next.links, height, class) /\ DOMAIN next.links = DOMAIN l
        /\ next.root \in DOMAIN l /\ class[next.root] = class[r]
        /\ l[r] = r => next.root = r /\ next.links = l
        /\ l[r] # r => height[next.root] > height[r]
    BY <2>2, HalveKeepsForest
  <2>4. next = [links |-> next.links, root |-> next.root]
    BY <2>1 DEF Halve
  <2>5. next.links[next.root] = next.root \/ height[next.root] >= k + 1
    <3>1. CASE l[r] = r
      BY <2>3, <3>1
    <3>2. CASE l[r] # r
      <4>1. height[r] >= k /\ height[next.root] > height[r]
        BY <2>1, <2>3, <3>2
      <4>2. height[r] \in Nat /\ height[next.root] \in Nat
        BY <2>2, <2>3 DEF Forest
      <4> QED BY <4>1, <4>2
    <3> QED BY <3>1, <3>2
  <2> HIDE DEF next
  <2> QED BY <2>1, <2>2, <2>3, <2>4, <2>5
<1> HIDE DEF S
<1>7. Nat \subseteq S
  BY <1>5, <1>6, SetInduction
<1>8. Good(N)
  BY <1>1, <1>7 DEF S
<1> DEFINE l == s[N].links
           r == s[N].root
<1>9. l[r] = r
  <2> SUFFICES ASSUME l[r] # r PROVE FALSE
    OBVIOUS
  <2>1. height[r] >= N /\ l[r] \in D
    BY <1>8 DEF Forest
  <2>2. height[r] < height[l[r]] /\ height[l[r]] <= Cardinality(Moved(l))
    BY <1>8, <2>1 DEF Forest
  <2>3. Cardinality(Moved(l)) <= N /\ Cardinality(Moved(l)) \in Nat
    <3>1. Moved(l) \subseteq D /\ IsFiniteSet(D)
      BY <1>8 DEF Moved, Forest
    <3> QED BY <3>1, FS_Subset, FS_CardinalityType DEF N
  <2>4. height[r] \in Nat /\ height[l[r]] \in Nat
    BY <1>8, <2>1 DEF Forest
  <2> HIDE DEF l, r
  <2> QED BY <1>1, <2>1, <2>2, <2>3, <2>4
<1>10. class[r] = r
  BY <1>8, <1>9 DEF Forest
<1> QED BY <1>3, <1>8, <1>10

\* A union gives the first class the second's name, and makes the heights fit.
Merged(class, from, to) ==
  [p \in DOMAIN class |-> IF class[p] = class[from] THEN class[to] ELSE class[p]]

LEMMA UnionKeepsForest ==
  ASSUME NEW links, NEW height, NEW class, Forest(links, height, class),
         NEW from \in DOMAIN links, NEW to \in DOMAIN links
  PROVE  /\ DOMAIN UnionOf(links, from, to) = DOMAIN links
         /\ \E taller : Forest(UnionOf(links, from, to), taller, Merged(class, from, to))
<1> DEFINE D == DOMAIN links
           a == FindRoot(links, from)
           b == FindRoot(a.links, to)
           L == b.links
           x == class[from]
           y == class[to]
           new == UnionOf(links, from, to)
           merged == Merged(class, from, to)
<1>1. Forest(a.links, height, class) /\ DOMAIN a.links = D /\ a.root = x
  BY FindRootFindsClass
<1>2. Forest(L, height, class) /\ DOMAIN L = D /\ b.root = y
  <2>1. to \in DOMAIN a.links
    BY <1>1
  <2> HIDE DEF a
  <2> QED BY <1>1, <2>1, FindRootFindsClass
<1>3. new = [L EXCEPT ![x] = y]
  BY <1>1, <1>2 DEF UnionOf
<1> HIDE DEF a, b, new
<1>4. /\ IsFiniteSet(D) /\ L \in [D -> D] /\ class \in [D -> D] /\ height \in [D -> Nat]
      /\ \A p \in D : /\ class[L[p]] = class[p] /\ L[class[p]] = class[p]
                      /\ L[p] = p => class[p] = p
                      /\ L[p] # p => height[p] < height[L[p]]
                      /\ height[p] <= Cardinality(Moved(L))
  BY <1>2 DEF Forest
<1>5. x \in D /\ y \in D /\ L[x] = x /\ L[y] = y /\ class[x] = x /\ class[y] = y
  BY <1>4
<1>6. /\ DOMAIN new = D /\ new \in [D -> D] /\ new[x] = y /\ \A p \in D : p # x => new[p] = L[p]
      /\ DOMAIN merged = D /\ merged \in [D -> D]
      /\ \A p \in D : merged[p] = IF class[p] = x THEN y ELSE class[p]
  BY <1>3, <1>4, <1>5 DEF Merged
<1> HIDE DEF merged, L
<1>7. ASSUME NEW p \in D
      PROVE  merged[new[p]] = merged[p] /\ new[merged[p]] = merged[p] /\ (new[p] = p => merged[p] = p)
  <2>1. L[p] \in D /\ class[p] \in D /\ class[L[p]] = class[p] /\ L[class[p]] = class[p] /\ (L[p] = p => class[p] = p)
    BY <1>4
  <2>2. merged[new[p]] = merged[p]
    BY <1>5, <1>6, <2>1
  <2>3. new[merged[p]] = merged[p]
    BY <1>5, <1>6, <2>1
  <2>4. new[p] = p => merged[p] = p
    BY <1>5, <1>6, <2>1
  <2> QED BY <2>2, <2>3, <2>4
<1>8. CASE x = y
  <2>1. ASSUME NEW p \in D PROVE new[p] = L[p]
    BY <1>5, <1>6, <1>8
  <2>2. Moved(new) = Moved(L)
    BY <1>2, <1>6, <2>1 DEF Moved
  <2>3. Forest(new, height, merged)
    BY <1>4, <1>6, <1>7, <2>1, <2>2 DEF Forest
  <2> QED BY <1>6, <2>3 DEF new, merged
<1>9. CASE x # y
  <2> DEFINE m == Cardinality(Moved(L))
             taller == [p \in D |-> IF p = y /\ height[y] <= height[x] THEN height[x] + 1 ELSE height[p]]
  <2>1. m \in Nat /\ Cardinality(Moved(new)) = m + 1
    <3>1. Moved(new) = Moved(L) \cup {x} /\ x \notin Moved(L)
      BY <1>2, <1>5, <1>6, <1>9 DEF Moved
    <3>2. IsFiniteSet(Moved(L))
      BY <1>2, <1>4, FS_Subset DEF Moved
    <3> QED BY <3>1, <3>2, FS_AddElement, FS_CardinalityType
  <2> HIDE DEF m
  <2>2. \A p \in D : height[p] \in Nat /\ height[p] <= m
    BY <1>4 DEF m
  <2>3. ASSUME NEW p \in D PROVE taller[p] \in Nat /\ height[p] <= taller[p] /\ taller[p] <= m + 1
    BY <1>5, <2>1, <2>2
  <2>4. ASSUME NEW p \in D, new[p] # p PROVE taller[p] < taller[new[p]]
    <3>1. CASE p = x
      <4>1. taller[x] = height[x] /\ taller[y] > height[x]
        BY <1>5, <1>9, <2>2
      <4> QED BY <1>6, <3>1, <4>1
    <3>2. CASE p # x
      <4>1. new[p] = L[p] /\ p # y /\ L[p] \in D
        BY <1>4, <1>5, <1>6, <2>4, <3>2
      <4>2. height[p] < height[L[p]] /\ taller[p] = height[p] /\ height[L[p]] <= taller[L[p]]
        BY <1>4, <2>3, <2>4, <4>1
      <4>3. height[p] \in Nat /\ height[L[p]] \in Nat /\ taller[L[p]] \in Nat
        BY <2>2, <2>3, <4>1
      <4> HIDE DEF taller
      <4> QED BY <4>1, <4>2, <4>3
    <3> QED BY <3>1, <3>2
  <2>5. taller \in [D -> Nat]
    BY <2>3
  <2> HIDE DEF taller
  <2>6. Forest(new, taller, merged)
    BY <1>4, <1>6, <1>7, <2>1, <2>3, <2>4, <2>5 DEF Forest
  <2> QED BY <1>6, <2>6 DEF new, merged
<1> QED BY <1>8, <1>9

-----------------------------------------------------------------------------
(* The checks over one application say what dangles in it.                 *)

\* The checks a file is a subject of, and what they find.
Subject(app, f, check) == Extension(f.path) = Checks[check][1] /\ Of(app, Checks[check][2]) # {}
FoundBy(app, f, check) == {x \in Loose(app, check, f) : Subject(app, f, check)}
FoundIn(app, f) == UNION {FoundBy(app, f, check) : check \in 1..7}

LEMMA MoreThanOne ==
  ASSUME NEW S, IsFiniteSet(S)
  PROVE  Cardinality(S) > 1 <=> \E x, y \in S : x # y
<1>1. CASE \E x, y \in S : x # y
  <2>1. PICK x \in S, y \in S : x # y
    BY <1>1
  <2>2. IsFiniteSet({x}) /\ Cardinality({x}) = 1
    BY FS_Singleton
  <2>3. Cardinality({x} \cup {y}) = 2
    BY <2>1, <2>2, FS_AddElement
  <2>4. {x} \cup {y} \in SUBSET S
    BY <2>1
  <2>5. 2 <= Cardinality(S) /\ Cardinality(S) \in Nat
    BY <2>3, <2>4, FS_Subset, FS_CardinalityType
  <2> QED BY <1>1, <2>5
<1>2. CASE S = {}
  BY <1>2, FS_EmptySet
<1>3. CASE S # {} /\ ~ \E x, y \in S : x # y
  <2>1. PICK x : S = {x}
    BY <1>3
  <2>2. Cardinality(S) = 1
    BY <2>1, FS_Singleton
  <2> QED BY <1>3, <2>2
<1> QED BY <1>1, <1>2, <1>3

\* The names the files of a surface have are those any file has.
AnyOf(app, n) == UNION {g[n] : g \in app}
LEMMA NamesAreOfSurface ==
  ASSUME TreeHolds, NEW app \in SUBSET OnDisk
  PROVE  /\ \A e : Of(app, e) # {} <=> \E g \in app : Extension(g.path) = e
         /\ \A s \in DOMAIN NamesIn : \A n \in NamesIn[s] :
              /\ Names(Of(app, s), n) = AnyOf(app, n)
              /\ \A g \in app : g[n] # {} => Extension(g.path) = s
<1>1. \A e : Of(app, e) # {} <=> \E g \in app : Extension(g.path) = e
  BY DEF Of
<1>2. ASSUME NEW s \in DOMAIN NamesIn, NEW n \in NamesIn[s], NEW g \in app, g[n] # {}
      PROVE  Extension(g.path) = s
  BY <1>2 DEF TreeHolds
<1>3. ASSUME NEW s \in DOMAIN NamesIn, NEW n \in NamesIn[s]
      PROVE  Names(Of(app, s), n) = AnyOf(app, n)
  <2>1. ASSUME NEW v, NEW g \in app, v \in g[n] PROVE v \in Names(Of(app, s), n)
    <3>1. g \in Of(app, s)
      BY <1>2, <2>1 DEF Of
    <3> QED BY <2>1, <3>1 DEF Names
  <2>2. ASSUME NEW v \in Names(Of(app, s), n) PROVE v \in AnyOf(app, n)
    BY DEF Names, Of, AnyOf
  <2> QED BY <2>1, <2>2 DEF AnyOf
<1> QED BY <1>1, <1>2, <1>3

\* The operations an action binds to, among the files of an application.
BoundTo(app, a) ==
  UNION {{<<g, i>> : i \in {j \in DOMAIN g.operations : Lower(g.operations[j]) = Lower(a)}} : g \in app}

LEMMA CarriersAreBound ==
  ASSUME TreeHolds, NEW app \in SUBSET OnDisk, NEW a
  PROVE  /\ Carriers(app, a) = {} <=> BoundTo(app, a) = {}
         /\ Cardinality(Carriers(app, a)) > 1 <=> \E x, y \in BoundTo(app, a) : x # y
         /\ BoundTo(app, a) # {} => Of(app, "ddd") # {}
<1> DEFINE Fits(g, i) == i \in DOMAIN g.operations /\ Lower(g.operations[i]) = Lower(a)
<1>1. ASSUME NEW g \in app, NEW i, Fits(g, i) PROVE g \in Of(app, "ddd")
  <2>1. g.operations # <<>>
    BY <1>1
  <2> QED BY <2>1 DEF TreeHolds, Of
<1>2. \A x : x \in BoundTo(app, a) <=> \E g \in app : \E i \in DOMAIN g.operations : x = <<g, i>> /\ Fits(g, i)
  BY DEF BoundTo
<1>3. \A x : x \in Carriers(app, a)
        <=> \E g \in Of(app, "ddd") : \E i \in DOMAIN g.operations : x = <<g.path, i>> /\ Fits(g, i)
  BY DEF Carriers
<1>4. Of(app, "ddd") \subseteq app
  BY DEF Of
<1>5. \A g \in app : \A i : Fits(g, i) => <<g, i>> \in BoundTo(app, a) /\ <<g.path, i>> \in Carriers(app, a)
  BY <1>1, <1>2, <1>3
<1>6. \A g, h \in app : g.path = h.path => g = h
  BY DEF TreeHolds
<1>7. Carriers(app, a) = {} <=> BoundTo(app, a) = {}
  BY <1>2, <1>3, <1>4, <1>5
<1>8. (\E x, y \in Carriers(app, a) : x # y) <=> \E x, y \in BoundTo(app, a) : x # y
  <2>1. ASSUME NEW x \in Carriers(app, a), NEW y \in Carriers(app, a), x # y
        PROVE  \E v, w \in BoundTo(app, a) : v # w
    <3>1. PICK g \in app : \E i : x = <<g.path, i>> /\ Fits(g, i)
      BY <1>3, <1>4
    <3>2. PICK i : x = <<g.path, i>> /\ Fits(g, i)
      BY <3>1
    <3>3. PICK h \in app : \E j : y = <<h.path, j>> /\ Fits(h, j)
      BY <1>3, <1>4
    <3>4. PICK j : y = <<h.path, j>> /\ Fits(h, j)
      BY <3>3
    <3>5. <<g, i>> # <<h, j>>
      BY <2>1, <3>2, <3>4
    <3> QED BY <1>5, <3>2, <3>4, <3>5
  <2>2. ASSUME NEW x \in BoundTo(app, a), NEW y \in BoundTo(app, a), x # y
        PROVE  \E v, w \in Carriers(app, a) : v # w
    <3>1. PICK g \in app : \E i : x = <<g, i>> /\ Fits(g, i)
      BY <1>2
    <3>2. PICK i : x = <<g, i>> /\ Fits(g, i)
      BY <3>1
    <3>3. PICK h \in app : \E j : y = <<h, j>> /\ Fits(h, j)
      BY <1>2
    <3>4. PICK j : y = <<h, j>> /\ Fits(h, j)
      BY <3>3
    <3>5. <<g.path, i>> # <<h.path, j>>
      BY <1>6, <2>2, <3>2, <3>4
    <3> QED BY <1>5, <3>2, <3>4, <3>5
  <2> QED BY <2>1, <2>2
<1>9. IsFiniteSet(Carriers(app, a))
  <2> DEFINE paths == {g.path : g \in app}
             places == UNION {DOMAIN g.operations : g \in app}
             at == [g \in app |-> g.path]
             of == [g \in app |-> DOMAIN g.operations]
  <2>1. IsFiniteSet(app)
    BY FS_Subset DEF TreeHolds
  <2>2. IsFiniteSet(paths)
    <3>1. at \in Surjection(app, paths)
      BY DEF Surjection
    <3> HIDE DEF at, paths
    <3> QED BY <2>1, <3>1, FS_Surjection
  <2>3. IsFiniteSet(places)
    <3> DEFINE Domains == {DOMAIN g.operations : g \in app}
    <3>1. of \in Surjection(app, Domains)
      BY DEF Surjection
    <3> HIDE DEF of
    <3>2. IsFiniteSet(Domains)
      BY <2>1, <3>1, FS_Surjection
    <3>3. ASSUME NEW g \in app PROVE IsFiniteSet(DOMAIN g.operations)
      <4>1. g.operations \in Seq(Range(g.operations))
        BY DEF TreeHolds
      <4>2. Len(g.operations) \in Nat /\ DOMAIN g.operations = 1..Len(g.operations)
        BY <4>1
      <4> QED BY <4>2, FS_Interval
    <3>4. \A d \in Domains : IsFiniteSet(d)
      BY <3>3
    <3> QED BY <3>2, <3>4, FS_UNION
  <2>4. Carriers(app, a) \in SUBSET (paths \X places)
    BY <1>3, <1>4
  <2> HIDE DEF paths, places
  <2> QED BY <2>2, <2>3, <2>4, FS_Product, FS_Subset
<1>10. BoundTo(app, a) # {} => Of(app, "ddd") # {}
  BY <1>1, <1>2
<1> QED BY <1>7, <1>8, <1>9, <1>10, MoreThanOne

LEMMA NamesOfSurfaces ==
  ASSUME TreeHolds, NEW app \in SUBSET OnDisk
  PROVE  /\ Names(Of(app, "actor"), "declares") = UNION {g.declares : g \in app}
         /\ Names(Of(app, "actor"), "actors") = UNION {g.actors : g \in app}
         /\ Names(Of(app, "ddd"), "carries") = UNION {g.carries : g \in app}
         /\ Names(Of(app, "ddd"), "emits") = UNION {g.emits : g \in app}
         /\ Names(Of(app, "evt"), "events") = UNION {g.events : g \in app}
         /\ Names(Of(app, "deploy"), "components") = UNION {g.components : g \in app}
<1>1. ASSUME NEW s \in DOMAIN NamesIn, NEW n \in NamesIn[s] PROVE Names(Of(app, s), n) = AnyOf(app, n)
  BY NamesAreOfSurface
<1> QED BY <1>1 DEF NamesIn, AnyOf

\* What the checks find of a file is what dangles, and what is not carried.
LEMMA ChecksFindDangling ==
  ASSUME TreeHolds, NEW app \in SUBSET OnDisk, NEW f \in app
  PROVE  /\ {x \in FoundIn(app, f) : IsError(x)} = Dangling(f, app)
         /\ {x \in FoundIn(app, f) : ~IsError(x)} = Uncarried(f, app)
<1> DEFINE J(e) == \E g \in app : Extension(g.path) = e
           D1 == {<<"X0001", n>> : n \in {c \in f.carries : J("actor") /\ \A g \in app : c \notin g.declares}}
           D2 == {<<"X0002", n>> : n \in {c \in f.grants : J("ddd") /\ \A g \in app : c \notin g.carries}}
           D3 == {<<"X0003", n>> : n \in {e \in f.emits : J("evt") /\ \A g \in app : e \notin g.events}}
           D4 == {<<"X0004", n>> : n \in {e \in f.events : J("ddd") /\ \A g \in app : e \notin g.emits}}
           D5 == {<<"X0005", n>> : n \in {a \in f.actions : J("ddd") /\ BoundTo(app, a) = {}}}
           D6 == {<<"X0006", n>> : n \in {a \in f.actions : \E x, y \in BoundTo(app, a) : x # y}}
           D7 == {<<"X0007", n>> : n \in {c \in f.consumers : J("deploy") /\ \A g \in app : c \notin g.components}}
           D8 == {<<"X0008", n>> : n \in {r \in f.requires \cup f.commands :
                     J("actor") /\ \A g \in app : r \notin g.declares \cup g.actors}}
           D9 == {<<"X0008", n>> : n \in {r \in f.roles : J("actor") /\ \A g \in app : r \notin g.actors}}
<1>1. Dangling(f, app) = D3 \cup D4 \cup D5 \cup D6 \cup D7 \cup D8 \cup D9
  BY DEF Dangling, BoundTo
<1>2. Uncarried(f, app) = D1 \cup D2
  BY DEF Uncarried
<1>3. \A e : Of(app, e) # {} <=> J(e)
  BY NamesAreOfSurface
<1>4. /\ f.carries # {} => Extension(f.path) = "ddd"
      /\ f.emits # {} => Extension(f.path) = "ddd"
      /\ f.grants # {} => Extension(f.path) = "actor"
      /\ f.events # {} => Extension(f.path) = "evt"
      /\ f.consumers # {} => Extension(f.path) = "evt"
      /\ f.actions # {} => Extension(f.path) = "ifml"
      /\ f.requires # {} => Extension(f.path) = "ifml"
      /\ f.commands # {} => Extension(f.path) = "ifml"
      /\ f.roles # {} => Extension(f.path) = "ifml"
  <2>1. \A s \in DOMAIN NamesIn : \A n \in NamesIn[s] : f[n] # {} => Extension(f.path) = s
    BY NamesAreOfSurface
  <2> QED BY <2>1 DEF NamesIn
<1>5. /\ Names(Of(app, "actor"), "declares") = UNION {g.declares : g \in app}
      /\ Names(Of(app, "actor"), "actors") = UNION {g.actors : g \in app}
      /\ Names(Of(app, "ddd"), "carries") = UNION {g.carries : g \in app}
      /\ Names(Of(app, "ddd"), "emits") = UNION {g.emits : g \in app}
      /\ Names(Of(app, "evt"), "events") = UNION {g.events : g \in app}
      /\ Names(Of(app, "deploy"), "components") = UNION {g.components : g \in app}
  BY NamesOfSurfaces
<1>6. FoundBy(app, f, 1) = D1
  <2>1. Loose(app, 1, f) = {<<"X0001", n>> : n \in f.carries \ UNION {g.declares : g \in app}}
    BY <1>5 DEF Loose, CapabilityExistence
  <2>2. Subject(app, f, 1) <=> Extension(f.path) = "ddd" /\ J("actor")
    BY <1>3 DEF Subject, Checks
  <2> QED BY <1>4, <2>1, <2>2 DEF FoundBy
<1>7. FoundBy(app, f, 2) = D2
  <2>1. Loose(app, 2, f) = {<<"X0002", n>> : n \in f.grants \ UNION {g.carries : g \in app}}
    BY <1>5 DEF Loose, CapabilityCoverage
  <2>2. Subject(app, f, 2) <=> Extension(f.path) = "actor" /\ J("ddd")
    BY <1>3 DEF Subject, Checks
  <2> QED BY <1>4, <2>1, <2>2 DEF FoundBy
<1>8. FoundBy(app, f, 3) = D3
  <2>1. Loose(app, 3, f) = {<<"X0003", n>> : n \in f.emits \ UNION {g.events : g \in app}}
    BY <1>5 DEF Loose, EmissionExistence
  <2>2. Subject(app, f, 3) <=> Extension(f.path) = "ddd" /\ J("evt")
    BY <1>3 DEF Subject, Checks
  <2> QED BY <1>4, <2>1, <2>2 DEF FoundBy
<1>9. FoundBy(app, f, 4) = D4
  <2>1. Loose(app, 4, f) = {<<"X0004", n>> : n \in f.events \ UNION {g.emits : g \in app}}
    BY <1>5 DEF Loose, EmissionCoverage
  <2>2. Subject(app, f, 4) <=> Extension(f.path) = "evt" /\ J("ddd")
    BY <1>3 DEF Subject, Checks
  <2> QED BY <1>4, <2>1, <2>2 DEF FoundBy
<1>10. FoundBy(app, f, 5) = D5 \cup D6
  <2>1. Loose(app, 5, f) =      {<<"X0005", n>> : n \in {a \in f.actions : Carriers(app, a) = {}}}
                           \cup {<<"X0006", n>> : n \in {a \in f.actions : Cardinality(Carriers(app, a)) > 1}}
    BY DEF Loose, ActionBindings
  <2>2. Subject(app, f, 5) <=> Extension(f.path) = "ifml" /\ J("ddd")
    BY <1>3 DEF Subject, Checks
  <2>3. \A a : /\ Carriers(app, a) = {} <=> BoundTo(app, a) = {}
               /\ Cardinality(Carriers(app, a)) > 1 <=> \E x, y \in BoundTo(app, a) : x # y
               /\ (\E x, y \in BoundTo(app, a) : x # y) => J("ddd")
    BY <1>3, CarriersAreBound
  <2> QED BY <1>4, <2>1, <2>2, <2>3 DEF FoundBy
<1>11. FoundBy(app, f, 6) = D7
  <2>1. Loose(app, 6, f) = {<<"X0007", n>> : n \in f.consumers \ UNION {g.components : g \in app}}
    BY <1>5 DEF Loose, SubscriptionConsumers
  <2>2. Subject(app, f, 6) <=> Extension(f.path) = "evt" /\ J("deploy")
    BY <1>3 DEF Subject, Checks
  <2> QED BY <1>4, <2>1, <2>2 DEF FoundBy
<1>12. FoundBy(app, f, 7) = D8 \cup D9
  <2> DEFINE A == UNION {g.actors : g \in app}
             C == UNION {g.declares : g \in app}
  <2>1. Loose(app, 7, f) = {<<"X0008", n>> : n \in ((f.requires \cup f.commands) \ (A \cup C)) \cup (f.roles \ A)}
    BY <1>5 DEF Loose, FlowActorReferences
  <2>2. Subject(app, f, 7) <=> Extension(f.path) = "ifml" /\ J("actor")
    BY <1>3 DEF Subject, Checks
  <2> QED BY <1>4, <2>1, <2>2 DEF FoundBy
<1>13. FoundIn(app, f) = D1 \cup D2 \cup D3 \cup D4 \cup D5 \cup D6 \cup D7 \cup D8 \cup D9
  <2>1. \A x : x \in FoundIn(app, f) <=> \E k \in 1..7 : x \in FoundBy(app, f, k)
    BY DEF FoundIn
  <2>2. \A k \in 1..7 : k \in {1, 2, 3, 4, 5, 6, 7}
    OBVIOUS
  <2> HIDE DEF D1, D2, D3, D4, D5, D6, D7, D8, D9
  <2>3. ASSUME NEW x \in FoundIn(app, f)
        PROVE  x \in D1 \cup D2 \cup D3 \cup D4 \cup D5 \cup D6 \cup D7 \cup D8 \cup D9
    BY <2>1, <2>2, <1>6, <1>7, <1>8, <1>9, <1>10, <1>11, <1>12
  <2>4. D1 \cup D2 \cup D3 \cup D4 \cup D5 \cup D6 \cup D7 \cup D8 \cup D9 \subseteq FoundIn(app, f)
    BY <2>1, <1>6, <1>7, <1>8, <1>9, <1>10, <1>11, <1>12
  <2> QED BY <2>3, <2>4
<1>14. /\ \A x \in D1 \cup D2 : ~IsError(x)
       /\ \A x \in D3 \cup D4 \cup D5 \cup D6 \cup D7 \cup D8 \cup D9 : IsError(x)
  BY DEF IsError
<1> HIDE DEF D1, D2, D3, D4, D5, D6, D7, D8, D9
<1> QED BY <1>1, <1>2, <1>13, <1>14

-----------------------------------------------------------------------------
(* What phase 1 counts.                                                    *)

Waits(f) == pc = "check" /\ f \in Range(todo)
Once == \A i, j \in DOMAIN tree.listing : tree.listing[i] = tree.listing[j] => i = j

\* A count of none means that every file passed or waits; when no file is listed
\* twice, any other count has a file to show for it.
Tallied ==
  /\ failed \in Nat
  /\ failed = 0 => \A f \in Listed : Clean(f.path) \/ Waits(f)
  /\ Once => /\ pc = "check" => \A i, j \in DOMAIN todo : todo[i] = todo[j] => i = j
             /\ \A f \in Listed : ~(Clean(f.path) /\ Waits(f))
             /\ failed # 0 => \E f \in Listed : ~Clean(f.path) /\ ~Waits(f)

\* What the checks of phase 1 have in common.
Ruled ==
  /\ pc = "check" /\ todo # <<>> /\ todo' = Tail(todo)
  /\ UNCHANGED <<tree, pc, contributions, parent, pending, reported, errors, exit>>
  /\ \/ clean' = clean \cup {Head(todo).path} /\ failed' = failed
     \/ clean' = clean /\ failed' = failed + 1

LEMMA ChecksRule ==
  ASSUME CheckDomain \/ CheckFlow \/ CheckDesign \/ CheckPolicy \/ CheckOther
  PROVE  Ruled
<1>1. pc = "check" /\ todo # <<>>
  BY DEF CheckDomain, CheckFlow, CheckDesign, CheckPolicy, CheckOther, At
<1>2. \E snapshot, compiled, warned : Settle(snapshot, compiled, warned)
  <2> DEFINE f == Head(todo)
             read == Fetch(project, Fetches(f))
  <2>1. CASE CheckDomain
    BY <2>1 DEF CheckDomain
  <2>2. CASE CheckOther
    BY <2>2 DEF CheckOther
  <2>3. CASE CheckFlow
    <3>1. \E compiled : Settle([read EXCEPT !.artifacts = @ \cup compiled], Compiles(f) /\ FlowJoins(f), f.lints)
      BY <2>3 DEF CheckFlow
    <3> QED BY <3>1
  <2>4. CASE CheckDesign
    BY <2>4 DEF CheckDesign
  <2>5. CASE CheckPolicy
    BY <2>5 DEF CheckPolicy
  <2> QED BY <2>1, <2>2, <2>3, <2>4, <2>5
<1> QED BY <1>1, <1>2 DEF Ruled, Settle

LEMMA TallyInit == ASSUME Init, TreeHolds PROVE Tallied
  BY DEF Init, Tallied, Waits, Once, Clean, Listed

LEMMA RuleKeepsTally == ASSUME CheckInv, Tallied, Ruled PROVE Tallied'
<1> DEFINE f == Head(todo)
<1>1. /\ pc = "check" /\ pc' = "check" /\ tree' = tree /\ todo' = Tail(todo)
      /\ Listed' = Listed /\ Once' = Once
  BY SameDisk DEF Ruled, CheckInv, Once
<1>2. todo \in Seq(Listed) /\ todo # <<>> /\ f \in Listed /\ Tail(todo) \in Seq(Listed)
  BY DEF CheckInv, Ruled
<1>3. Len(todo) \in Nat /\ DOMAIN todo = 1..Len(todo) /\ DOMAIN Tail(todo) = 1..(Len(todo) - 1)
  BY <1>2
<1>4. ASSUME NEW i \in DOMAIN Tail(todo) PROVE i + 1 \in DOMAIN todo /\ i + 1 # 1 /\ Tail(todo)[i] = todo[i + 1]
  BY <1>2, <1>3
<1>5. 1 \in DOMAIN todo /\ f = todo[1]
  BY <1>2, <1>3
<1>6. \A g : g \in Range(todo) <=> g = f \/ g \in Range(Tail(todo))
  <2>1. ASSUME NEW i \in DOMAIN todo, i # 1 PROVE i - 1 \in DOMAIN Tail(todo) /\ Tail(todo)[i - 1] = todo[i]
    BY <1>2, <1>3, <2>1
  <2> QED BY <1>4, <1>5, <2>1 DEF Range
<1>7. failed \in Nat /\ failed' \in Nat
  BY DEF Tallied, Ruled
<1>8. \A g \in Listed : g.path = f.path => g = f
  BY <1>2, PathIsOneFile DEF CheckInv
<1>9. ASSUME failed' = 0, NEW g \in Listed PROVE g.path \in clean' \/ g \in Range(Tail(todo))
  <2>1. failed = 0 /\ clean' = clean \cup {f.path}
    BY <1>7, <1>9 DEF Ruled
  <2>2. g.path \in clean \/ g \in Range(todo)
    BY <2>1 DEF Tallied, Clean, Waits
  <2> QED BY <1>6, <2>1, <2>2
<1>10. ASSUME Once
       PROVE  /\ \A i, j \in DOMAIN Tail(todo) : Tail(todo)[i] = Tail(todo)[j] => i = j
              /\ \A g \in Listed : ~(g.path \in clean' /\ g \in Range(Tail(todo)))
              /\ failed' # 0 => \E g \in Listed : g.path \notin clean' /\ g \notin Range(Tail(todo))
  <2>1. /\ \A i, j \in DOMAIN todo : todo[i] = todo[j] => i = j
        /\ \A g \in Listed : ~(g.path \in clean /\ g \in Range(todo))
        /\ failed # 0 => \E g \in Listed : g.path \notin clean /\ g \notin Range(todo)
    BY <1>1, <1>10 DEF Tallied, Clean, Waits
  <2>2. ASSUME NEW i \in DOMAIN Tail(todo), NEW j \in DOMAIN Tail(todo), Tail(todo)[i] = Tail(todo)[j]
        PROVE  i = j
    <3>1. i + 1 = j + 1
      BY <1>4, <2>1, <2>2
    <3> QED BY <1>3, <3>1
  <2>3. f \notin Range(Tail(todo))
    BY <1>4, <1>5, <2>1 DEF Range
  <2>4. \A g \in Listed : ~(g.path \in clean' /\ g \in Range(Tail(todo)))
    BY <1>6, <1>8, <2>1, <2>3 DEF Ruled
  <2>5. ASSUME failed' # 0 PROVE \E g \in Listed : g.path \notin clean' /\ g \notin Range(Tail(todo))
    <3>1. CASE clean' = clean
      <4>1. f.path \notin clean
        BY <1>2, <1>6, <2>1
      <4> QED BY <1>2, <2>3, <3>1, <4>1
    <3>2. CASE clean' = clean \cup {f.path} /\ failed' = failed
      <4>1. PICK g \in Listed : g.path \notin clean /\ g \notin Range(todo)
        BY <2>1, <2>5, <3>2
      <4>2. g.path # f.path
        BY <1>6, <1>8, <4>1
      <4> QED BY <1>6, <3>2, <4>1, <4>2
    <3> QED BY <3>1, <3>2 DEF Ruled
  <2> QED BY <2>2, <2>4, <2>5
<1> QED BY <1>1, <1>7, <1>9, <1>10 DEF Tallied, Clean, Waits

\* The steps of phase 2, and those that are none.
Later ==
  \/ Contribute \/ Abort \/ StartLinks \/ Link \/ LinkNext
  \/ StartReport \/ Report \/ Finish \/ UNCHANGED vars

LEMMA TallyStep == ASSUME CheckInv, Tallied, [Next]_vars PROVE Tallied'
<1>1. CASE CheckDomain \/ CheckFlow \/ CheckDesign \/ CheckPolicy \/ CheckOther
  BY <1>1, ChecksRule, RuleKeepsTally
<1>2. CASE StartUnion
  <2>1. /\ pc = "check" /\ todo = <<>> /\ pc' = "union"
        /\ tree' = tree /\ failed' = failed /\ clean' = clean
    BY <1>2 DEF StartUnion
  <2>2. \A g : ~Waits(g) /\ ~Waits(g)'
    BY <2>1 DEF Waits, Range
  <2>3. Listed' = Listed /\ Once' = Once
    BY <2>1, SameDisk DEF Once
  <2> QED BY <2>1, <2>2, <2>3 DEF Tallied, Clean
<1>3. CASE Later
  <2>1. /\ tree' = tree /\ failed' = failed /\ clean' = clean
        /\ (pc # "check" /\ pc' # "check") \/ UNCHANGED <<pc, todo>>
    BY <1>3 DEF Later, Contribute, Abort, StartLinks, Link, LinkNext, StartReport, Report, Finish, vars
  <2>2. \A g : Waits(g)' = Waits(g)
    BY <2>1 DEF Waits
  <2>3. Listed' = Listed /\ Once' = Once
    BY <2>1, SameDisk DEF Once
  <2> QED BY <2>1, <2>2, <2>3 DEF Tallied, Clean
<1> QED BY <1>1, <1>2, <1>3 DEF Next, Finished, Later

-----------------------------------------------------------------------------
(* Phase 2 gathers what compiles, and links what imports connect.          *)

Compiled == {f \in Listed : Contributes(f)}
Nodes == UNION {{f.path} \cup LinksOf(f) : f \in Compiled}
Chores == [from : Compiled, to : Seq(UNION {Range(f.imports) : f \in Listed})]

LEMMA SameLinks ==
  ASSUME tree' = tree
  PROVE  /\ Compiled' = Compiled /\ Nodes' = Nodes /\ Chores' = Chores
         /\ \A f : Contributes(f)' = Contributes(f) /\ LinksOf(f)' = LinksOf(f) /\ Reads(f)' = Reads(f)
         /\ Separations(Compiled)' = Separations(Compiled)
<1>1. \A f : Contributes(f)' = Contributes(f) /\ Reads(f)' = Reads(f)
  BY SameCompiles DEF Contributes
<1>2. \A f : LinksOf(f)' = LinksOf(f)
  BY SameDisk DEF LinksOf
<1>3. Listed' = Listed /\ OnDisk' = OnDisk
  BY SameDisk
<1>4. Compiled' = Compiled
  BY <1>1, <1>3 DEF Compiled
<1>5. Nodes' = Nodes /\ Chores' = Chores
  BY <1>2, <1>3, <1>4 DEF Nodes, Chores
<1>6. Separations(Compiled)' = Separations(Compiled)
  BY <1>2, <1>3, <1>4 DEF Separations
<1> QED BY <1>1, <1>2, <1>4, <1>5, <1>6

LEMMA NodesAreFinite ==
  ASSUME TreeHolds
  PROVE  /\ Nodes \subseteq {g.path : g \in OnDisk} /\ IsFiniteSet(Nodes)
         /\ \A f \in Compiled : f \in OnDisk /\ f.path \in Nodes /\ LinksOf(f) \subseteq Nodes
<1> DEFINE paths == {g.path : g \in OnDisk}
           at == [g \in OnDisk |-> g.path]
<1>1. \A f \in Compiled : f \in OnDisk /\ f.path \in Nodes /\ LinksOf(f) \subseteq Nodes
  BY DEF Compiled, Listed, OnDisk, Nodes
<1>2. Nodes \subseteq paths
  BY <1>1 DEF Nodes, LinksOf, Exists
<1>3. IsFiniteSet(paths)
  <2>1. at \in Surjection(OnDisk, paths)
    BY DEF Surjection
  <2> HIDE DEF at, paths
  <2> QED BY <2>1, FS_Surjection DEF TreeHolds
<1> QED BY <1>1, <1>2, <1>3, FS_Subset

\* How far phase 2 has come.
Gathered ==
  /\ contributions \in Seq(Compiled)
  /\ pc = "check" => contributions = <<>>
  /\ pc = "union" => /\ todo \in Seq(Listed)
                     /\ \A f \in Compiled : f \in Range(todo) \cup Range(contributions)
  /\ pc = "link" => todo \in Seq(Chores)
  /\ pc \in {"check", "union", "link"} => reported = {} /\ ~errors /\ exit = "none"

LEMMA GatherInit == ASSUME Init PROVE Gathered
  BY DEF Init, Gathered

LEMMA GatherStep == ASSUME CheckInv, Gathered, [Next]_vars PROVE Gathered'
<1>1. tree' = tree /\ Compiled' = Compiled /\ Listed' = Listed /\ Chores' = Chores
  <2>1. tree' = tree
    <3>1. CASE CheckDomain \/ CheckFlow \/ CheckDesign \/ CheckPolicy \/ CheckOther
      BY <3>1, ChecksRule DEF Ruled
    <3>2. CASE StartUnion \/ Later
      BY <3>2 DEF StartUnion, Later, Contribute, Abort, StartLinks, Link, LinkNext, StartReport, Report,
                  Finish, vars
    <3> QED BY <3>1, <3>2 DEF Next, Finished, Later
  <2> QED BY <2>1, SameDisk, SameLinks
<1>2. CASE CheckDomain \/ CheckFlow \/ CheckDesign \/ CheckPolicy \/ CheckOther
  <2>1. pc = "check" /\ UNCHANGED <<pc, contributions, reported, errors, exit>>
    BY <1>2, ChecksRule DEF Ruled
  <2> QED BY <1>1, <2>1 DEF Gathered
<1>3. CASE StartUnion
  <2>1. /\ pc = "check" /\ pc' = "union" /\ todo' = tree.listing
        /\ UNCHANGED <<contributions, reported, errors, exit>>
    BY <1>3 DEF StartUnion
  <2>2. tree.listing \in Seq(Listed) /\ \A f \in Compiled : f \in Range(tree.listing)
    BY DEF CheckInv, TreeHolds, Compiled, Listed
  <2> QED BY <1>1, <2>1, <2>2 DEF Gathered
<1>4. CASE Contribute
  <2> DEFINE f == Head(todo)
  <2>1. /\ pc = "union" /\ pc' = "union" /\ todo # <<>> /\ todo' = Tail(todo)
        /\ contributions' = IF Contributes(f) THEN Append(contributions, f) ELSE contributions
        /\ UNCHANGED <<reported, errors, exit>>
    BY <1>4 DEF Contribute
  <2>2. todo \in Seq(Listed) /\ contributions \in Seq(Compiled)
    BY <2>1 DEF Gathered
  <2>3. f \in Listed /\ todo' \in Seq(Listed) /\ f \in (IF Contributes(f) THEN Compiled ELSE {f})
    BY <2>1, <2>2 DEF Compiled
  <2>4. contributions' \in Seq(Compiled)
    BY <2>1, <2>2, <2>3
  <2>5. ASSUME NEW g \in Compiled PROVE g \in Range(todo') \cup Range(contributions')
    <3>1. CASE g \in Range(contributions)
      <4>1. PICK i \in 1..Len(contributions) : contributions[i] = g
        BY <2>2, <3>1 DEF Range
      <4>2. i \in 1..Len(contributions') /\ contributions'[i] = g /\ DOMAIN contributions' = 1..Len(contributions')
        BY <2>1, <2>2, <2>4, <4>1
      <4> QED BY <4>2 DEF Range
    <3>2. CASE g = f
      <4>1. Contributes(f)
        BY <3>2 DEF Compiled
      <4>2. /\ Len(contributions') \in 1..Len(contributions') /\ contributions'[Len(contributions')] = g
            /\ DOMAIN contributions' = 1..Len(contributions')
        BY <2>1, <2>2, <2>3, <3>2, <4>1
      <4> QED BY <4>2 DEF Range
    <3>3. CASE g # f /\ g \notin Range(contributions)
      <4>1. g \in Range(todo)
        BY <2>1, <3>3 DEF Gathered
      <4>2. PICK i \in 1..Len(todo) : todo[i] = g
        BY <2>2, <4>1 DEF Range
      <4>3. i # 1
        BY <2>1, <2>2, <3>3, <4>2
      <4>4. i - 1 \in 1..Len(Tail(todo)) /\ Tail(todo)[i - 1] = g /\ DOMAIN Tail(todo) = 1..Len(Tail(todo))
        BY <2>1, <2>2, <4>2, <4>3
      <4> QED BY <2>1, <4>4 DEF Range
    <3> QED BY <3>1, <3>2, <3>3
  <2> QED BY <1>1, <2>1, <2>3, <2>4, <2>5 DEF Gathered
<1>5. CASE Abort
  <2>1. pc' = "done" /\ UNCHANGED contributions
    BY <1>5 DEF Abort
  <2> QED BY <1>1, <2>1 DEF Gathered
<1>6. CASE StartLinks
  <2>1. /\ pc = "union" /\ pc' = "link"
        /\ todo' = [i \in DOMAIN contributions |-> [from |-> contributions[i], to |-> contributions[i].imports]]
        /\ UNCHANGED <<contributions, reported, errors, exit>>
    BY <1>6 DEF StartLinks
  <2>2. contributions \in Seq(Compiled)
    BY DEF Gathered
  <2>3. \A g \in Compiled : [from |-> g, to |-> g.imports] \in Chores
    <3>1. ASSUME NEW g \in Compiled PROVE g.imports \in Seq(UNION {Range(f.imports) : f \in Listed})
      <4>1. g \in Listed /\ g.imports \in Seq(Range(g.imports))
        BY DEF CheckInv, TreeHolds, Compiled, Listed, OnDisk
      <4>2. Range(g.imports) \subseteq UNION {Range(f.imports) : f \in Listed}
        BY <4>1
      <4> QED BY <4>1, <4>2
    <3> QED BY <3>1 DEF Chores
  <2>4. todo' \in Seq(Chores)
    <3>1. DOMAIN contributions = 1..Len(contributions) /\ Len(contributions) \in Nat
      BY <2>2
    <3>2. \A i \in 1..Len(contributions) : contributions[i] \in Compiled
      BY <2>2
    <3>3. todo' \in [1..Len(contributions) -> Chores]
      BY <2>1, <2>3, <3>1, <3>2
    <3> QED BY <3>1, <3>3
  <2> QED BY <1>1, <2>1, <2>4 DEF Gathered
<1>7. CASE Link \/ LinkNext
  <2>1. pc = "link" /\ todo # <<>> /\ pc' = "link" /\ UNCHANGED <<contributions, reported, errors, exit>>
    BY <1>7 DEF Link, LinkNext
  <2>2. todo \in Seq(Chores) /\ Tail(todo) \in Seq(Chores)
    BY <2>1 DEF Gathered
  <2>3. todo' \in Seq(Chores)
    <3>1. CASE LinkNext
      BY <2>2, <3>1 DEF LinkNext
    <3>2. CASE Link
      <4>1. todo' = [todo EXCEPT ![1].to = Tail(@)] /\ Head(todo).to # <<>>
        BY <3>2 DEF Link
      <4>2. 1 \in DOMAIN todo /\ todo[1] \in Chores /\ Head(todo) = todo[1]
        BY <2>1, <2>2
      <4>3. [todo[1] EXCEPT !.to = Tail(@)] \in Chores
        <5> DEFINE P == UNION {Range(f.imports) : f \in Listed}
        <5>1. todo[1] \in [from : Compiled, to : Seq(P)]
          BY <4>2 DEF Chores
        <5> HIDE DEF P
        <5>2. Tail(todo[1].to) \in Seq(P)
          BY <4>1, <4>2, <5>1
        <5>3. [todo[1] EXCEPT !.to = Tail(@)] \in [from : Compiled, to : Seq(P)]
          BY <5>1, <5>2
        <5> QED BY <5>3 DEF Chores, P
      <4>4. todo' = [todo EXCEPT ![1] = [todo[1] EXCEPT !.to = Tail(@)]]
        BY <4>1
      <4> QED BY <2>2, <4>2, <4>3, <4>4
    <3> QED BY <1>7, <3>1, <3>2
  <2> QED BY <1>1, <2>1, <2>3 DEF Gathered
<1>8. CASE StartReport \/ Report \/ Finish
  <2>1. pc' \in {"report", "done"} /\ UNCHANGED contributions
    BY <1>8 DEF StartReport, Report, Finish
  <2> QED BY <1>1, <2>1 DEF Gathered
<1>9. CASE UNCHANGED vars
  BY <1>1, <1>9 DEF Gathered, vars
<1> QED BY <1>2, <1>3, <1>4, <1>5, <1>6, <1>7, <1>8, <1>9 DEF Next, Finished

\* The sets that no import leads into or out of.
LEMMA SeparationsKeepEdges ==
  ASSUME NEW files, NEW S
  PROVE  S \in Separations(files)
           <=> /\ S \subseteq {g.path : g \in OnDisk}
               /\ \A f \in files : \A p \in LinksOf(f) : f.path \in S <=> p \in S
<1> DEFINE edges == UNION {{<<g.path, p>> : p \in LinksOf(g)} : g \in files}
<1>1. S \in Separations(files) <=> S \subseteq {g.path : g \in OnDisk} /\ \A e \in edges : e[1] \in S <=> e[2] \in S
  BY DEF Separations
<1>2. \A f \in files : \A p \in LinksOf(f) : <<f.path, p>> \in edges
  OBVIOUS
<1>3. \A e \in edges : \E f \in files : \E p \in LinksOf(f) : e = <<f.path, p>>
  OBVIOUS
<1>4. (\A e \in edges : e[1] \in S <=> e[2] \in S) <=> \A f \in files : \A p \in LinksOf(f) : f.path \in S <=> p \in S
  <2> HIDE DEF edges
  <2>1. ASSUME \A e \in edges : e[1] \in S <=> e[2] \in S, NEW f \in files, NEW p \in LinksOf(f)
        PROVE  f.path \in S <=> p \in S
    <3>1. <<f.path, p>>[1] \in S <=> <<f.path, p>>[2] \in S
      BY <1>2, <2>1
    <3> QED BY <3>1
  <2>2. ASSUME \A f \in files : \A p \in LinksOf(f) : f.path \in S <=> p \in S, NEW e \in edges
        PROVE  e[1] \in S <=> e[2] \in S
    BY <1>3, <2>2
  <2> QED BY <2>1, <2>2
<1> QED BY <1>1, <1>4

\* The links in force, under the classes they stand for: no separation tells a
\* node from its class, and what a file imports is in its class or still to come.
Ended == pc = "report" \/ (pc = "done" /\ exit # "error")
Chore(f, p) == pc = "link" /\ \E i \in DOMAIN todo : todo[i].from = f /\ p \in Range(todo[i].to)
Linked(height, class) ==
  /\ Forest(parent, height, class) /\ DOMAIN parent = Nodes
  /\ \A S \in Separations(Compiled) : \A p \in Nodes : p \in S <=> class[p] \in S
  /\ \A f \in Compiled : \A p \in LinksOf(f) : class[p] = class[f.path] \/ Chore(f, p)
Joining ==
  pc = "link" \/ Ended => Range(contributions) = Compiled /\ \E height, class : Linked(height, class)

LEMMA JoinInit == ASSUME Init PROVE Joining
  BY DEF Init, Joining, Ended

\* Every file that compiles is a node, alone in its class.
LEMMA StartKeepsJoining == ASSUME CheckInv, Gathered, StartLinks PROVE Joining'
<1>1. /\ pc = "union" /\ todo = <<>> /\ pc' = "link" /\ tree' = tree /\ contributions' = contributions
      /\ todo' = [i \in DOMAIN contributions |-> [from |-> contributions[i], to |-> contributions[i].imports]]
      /\ parent' = [p \in UNION {{f.path} \cup LinksOf(f) : f \in Range(contributions)} |-> p]
  BY DEF StartLinks
<1>2. Range(contributions) = Compiled
  <2>1. contributions \in Seq(Compiled) /\ \A f \in Compiled : f \in Range(contributions)
    BY <1>1 DEF Gathered, Range
  <2> QED BY <2>1 DEF Range
<1>3. Compiled' = Compiled /\ Nodes' = Nodes /\ \A f : LinksOf(f)' = LinksOf(f)
  BY <1>1, SameLinks
<1> DEFINE height == [p \in Nodes |-> 0]
           class == [p \in Nodes |-> p]
<1>4. parent' = class
  BY <1>1, <1>2 DEF Nodes
<1>5. Forest(parent', height, class)
  <2>1. IsFiniteSet(Nodes)
    BY NodesAreFinite DEF CheckInv
  <2>2. Cardinality(Moved(class)) = 0
    <3>1. Moved(class) = {}
      BY DEF Moved
    <3> QED BY <3>1, FS_EmptySet
  <2>3. /\ IsFiniteSet(DOMAIN class) /\ class \in [DOMAIN class -> DOMAIN class]
        /\ height \in [DOMAIN class -> Nat]
    BY <2>1
  <2>4. ASSUME NEW p \in DOMAIN class
        PROVE  /\ class[class[p]] = class[p] /\ class[p] = p /\ height[p] <= Cardinality(Moved(class))
    BY <2>2
  <2> HIDE DEF class, height
  <2> QED BY <1>4, <2>3, <2>4 DEF Forest
<1>6. ASSUME NEW f \in Compiled, NEW p \in LinksOf(f) PROVE Chore(f, p)'
  <2>1. PICK i \in DOMAIN contributions : contributions[i] = f
    BY <1>2 DEF Range
  <2>2. i \in DOMAIN todo' /\ todo'[i].from = f /\ todo'[i].to = f.imports
    BY <1>1, <2>1
  <2>3. p \in Range(f.imports)
    BY <1>6 DEF LinksOf
  <2> QED BY <1>1, <2>2, <2>3 DEF Chore
<1>7. DOMAIN parent' = Nodes /\ \A S : \A p \in Nodes : p \in S <=> class[p] \in S
  BY <1>4
<1>8. PICK h, c : Forest(parent', h, c) /\ \A S : \A p \in Nodes : p \in S <=> c[p] \in S
  BY <1>5, <1>7
<1> HIDE DEF class, height
<1>9. Linked(h, c)'
  BY <1>3, <1>6, <1>7, <1>8 DEF Linked
<1> QED BY <1>1, <1>2, <1>3, <1>9 DEF Joining

\* One import, out of those that were to come.
LEMMA LinkKeepsJoining ==
  ASSUME CheckInv, Gathered, Joining, Link \/ LinkNext
  PROVE  Joining'
<1> DEFINE from == Head(todo).from
           to == Head(Head(todo).to)
<1>1. pc = "link" /\ pc' = "link" /\ todo # <<>> /\ tree' = tree /\ contributions' = contributions
  BY DEF Link, LinkNext
<1>2. /\ Range(contributions) = Compiled /\ Compiled' = Compiled /\ Nodes' = Nodes
      /\ \A f : LinksOf(f)' = LinksOf(f)
      /\ Separations(Compiled)' = Separations(Compiled)
  BY <1>1, SameLinks DEF Joining
<1>3. PICK height, class : Linked(height, class)
  BY <1>1 DEF Joining
<1>4. /\ todo \in Seq(Chores) /\ Len(todo) \in Nat /\ DOMAIN todo = 1..Len(todo) /\ 1 \in DOMAIN todo
      /\ Head(todo) = todo[1] /\ todo[1] \in Chores
  BY <1>1 DEF Gathered
<1>5. CASE LinkNext
  <2>1. Head(todo).to = <<>> /\ todo' = Tail(todo) /\ parent' = parent
    BY <1>5 DEF LinkNext
  <2>2. ASSUME NEW f, NEW p, Chore(f, p) PROVE Chore(f, p)'
    <3>1. PICK i \in DOMAIN todo : todo[i].from = f /\ p \in Range(todo[i].to)
      BY <2>2 DEF Chore
    <3>2. i # 1
      BY <1>4, <2>1, <3>1 DEF Range
    <3>3. i - 1 \in DOMAIN Tail(todo) /\ Tail(todo)[i - 1] = todo[i]
      BY <1>1, <1>4, <3>2
    <3> QED BY <1>1, <2>1, <3>1, <3>3 DEF Chore
  <2>3. Linked(height, class)'
    BY <1>2, <1>3, <2>1, <2>2 DEF Linked
  <2> QED BY <1>1, <1>2, <2>3 DEF Joining
<1>6. CASE Link
  <2>1. /\ Head(todo).to # <<>> /\ todo' = [todo EXCEPT ![1].to = Tail(@)]
        /\ parent' = IF to \in LinksOf(from) THEN UnionOf(parent, from.path, to) ELSE parent
    BY <1>6 DEF Link
  <2>2. ASSUME NEW f, NEW p, Chore(f, p) PROVE Chore(f, p)' \/ (f = from /\ p = to)
    <3>1. PICK i \in DOMAIN todo : todo[i].from = f /\ p \in Range(todo[i].to)
      BY <2>2 DEF Chore
    <3>2. i \in DOMAIN todo' /\ todo'[i].from = f
      BY <1>4, <2>1, <3>1
    <3>3. CASE i # 1
      <4>1. todo'[i] = todo[i]
        BY <1>4, <2>1, <3>1, <3>3
      <4> QED BY <1>1, <3>1, <3>2, <4>1 DEF Chore
    <3>4. CASE i = 1
      <4>1. todo'[1].to = Tail(todo[1].to)
        BY <1>4, <2>1
      <4>2. todo[1].to \in Seq(UNION {Range(g.imports) : g \in Listed})
        BY <1>4 DEF Chores
      <4>3. p = Head(todo[1].to) \/ p \in Range(Tail(todo[1].to))
        <5> DEFINE l == todo[1].to
        <5>1. PICK j \in 1..Len(l) : l[j] = p
          BY <3>1, <3>4, <4>2 DEF Range
        <5>2. CASE j = 1
          BY <4>2, <5>1, <5>2
        <5>3. CASE j # 1
          <6>1. j - 1 \in DOMAIN Tail(l) /\ Tail(l)[j - 1] = p
            BY <1>4, <2>1, <4>2, <5>1, <5>3
          <6> QED BY <6>1 DEF Range
        <5> QED BY <5>2, <5>3
      <4>4. f = from
        BY <1>4, <3>1, <3>4
      <4> QED BY <1>1, <1>4, <3>2, <3>4, <4>1, <4>3, <4>4 DEF Chore
    <3> QED BY <3>3, <3>4
  <2>3. CASE to \notin LinksOf(from)
    <3>1. Linked(height, class)'
      BY <1>2, <1>3, <2>1, <2>2, <2>3 DEF Linked
    <3> QED BY <1>1, <1>2, <3>1 DEF Joining
  <2>4. CASE to \in LinksOf(from)
    <3>1. from \in Compiled
      BY <1>4 DEF Chores
    <3>2. from.path \in Nodes /\ to \in Nodes /\ \A f \in Compiled : f.path \in Nodes /\ LinksOf(f) \subseteq Nodes
      BY <2>4, <3>1, NodesAreFinite DEF CheckInv
    <3> DEFINE merged == Merged(class, from.path, to)
    <3>3. Forest(parent, height, class) /\ DOMAIN parent = Nodes
      BY <1>3 DEF Linked
    <3>4. /\ DOMAIN parent' = Nodes
          /\ \E taller : Forest(parent', taller, merged)
      BY <2>1, <2>4, <3>2, <3>3, UnionKeepsForest
    <3>5. PICK taller : Forest(parent', taller, merged)
      BY <3>4
    <3>6. \A p \in Nodes : merged[p] = IF class[p] = class[from.path] THEN class[to] ELSE class[p]
      BY <3>3 DEF Merged, Forest
    <3> HIDE DEF merged
    <3>7. ASSUME NEW S \in Separations(Compiled), NEW p \in Nodes PROVE p \in S <=> merged[p] \in S
      <4>1. \A q \in Nodes : q \in S <=> class[q] \in S
        BY <1>3 DEF Linked
      <4>2. from.path \in S <=> to \in S
        BY <2>4, <3>1, SeparationsKeepEdges
      <4> QED BY <3>2, <3>6, <4>1, <4>2
    <3>8. ASSUME NEW f \in Compiled, NEW p \in LinksOf(f) PROVE merged[p] = merged[f.path] \/ Chore(f, p)'
      <4>1. class[p] = class[f.path] \/ Chore(f, p)
        BY <1>3 DEF Linked
      <4>2. p \in Nodes /\ f.path \in Nodes
        BY <3>2
      <4> QED BY <2>2, <3>2, <3>6, <4>1, <4>2
    <3>9. PICK c : /\ Forest(parent', taller, c)
                   /\ \A S \in Separations(Compiled) : \A p \in Nodes : p \in S <=> c[p] \in S
                   /\ \A f \in Compiled : \A p \in LinksOf(f) : c[p] = c[f.path] \/ Chore(f, p)'
      BY <3>5, <3>7, <3>8
    <3>10. Linked(taller, c)'
      BY <1>2, <3>4, <3>9 DEF Linked
    <3> QED BY <1>1, <1>2, <3>10 DEF Joining
  <2> QED BY <2>3, <2>4
<1> QED BY <1>5, <1>6

LEMMA JoinStep == ASSUME CheckInv, Gathered, Joining, [Next]_vars PROVE Joining'
<1>1. CASE CheckDomain \/ CheckFlow \/ CheckDesign \/ CheckPolicy \/ CheckOther
  <2>1. pc' = "check"
    BY <1>1, ChecksRule DEF Ruled
  <2> QED BY <2>1 DEF Joining, Ended
<1>2. CASE StartUnion \/ Contribute \/ Abort
  <2>1. pc' = "union" \/ (pc' = "done" /\ exit' = "error")
    BY <1>2 DEF StartUnion, Contribute, Abort
  <2> QED BY <2>1 DEF Joining, Ended
<1>3. CASE StartLinks
  BY <1>3, StartKeepsJoining
<1>4. CASE Link \/ LinkNext
  BY <1>4, LinkKeepsJoining
<1>5. CASE StartReport \/ Report \/ Finish \/ UNCHANGED vars
  <2>1. /\ tree' = tree /\ parent' = parent /\ contributions' = contributions
        /\ (pc = "link" \/ Ended) \/ ~(pc = "link" \/ Ended)'
        /\ todo = <<>> \/ UNCHANGED <<pc, todo>> \/ pc # "link"
    BY <1>5 DEF StartReport, Report, Finish, vars, Ended
  <2>2. ASSUME NEW f, NEW p, Chore(f, p) PROVE Chore(f, p)'
    <3>1. UNCHANGED <<pc, todo>>
      BY <2>1, <2>2 DEF Chore
    <3> QED BY <2>2, <3>1 DEF Chore
  <2>3. /\ Compiled' = Compiled /\ Nodes' = Nodes /\ \A f : LinksOf(f)' = LinksOf(f)
        /\ Separations(Compiled)' = Separations(Compiled)
    BY <2>1, SameLinks
  <2>4. CASE pc = "link" \/ Ended
    <3>1. PICK height, class : Linked(height, class)
      BY <2>4 DEF Joining
    <3>2. Linked(height, class)'
      BY <2>1, <2>2, <2>3, <3>1 DEF Linked
    <3> QED BY <2>1, <2>3, <2>4, <3>2 DEF Joining
  <2>5. CASE ~(pc = "link" \/ Ended)'
    BY <2>5 DEF Joining
  <2> QED BY <2>1, <2>4, <2>5
<1> QED BY <1>1, <1>2, <1>3, <1>4, <1>5 DEF Next, Finished

-----------------------------------------------------------------------------
(* Once all are linked, a root is the name of an application.              *)

LEMMA FirstPlace ==
  ASSUME NEW S \in SUBSET Nat, NEW n \in S
  PROVE  \E i \in S : \A j \in S : ~(j < i)
<1> DEFINE R == OpToRel(<, Nat)
<1>1. IsWellFoundedOn(R, Nat)
  BY NatLessThanWellFounded
<1>2. \A a, b \in Nat : <<a, b>> \in R <=> a < b
  BY DEF OpToRel
<1> HIDE DEF R
<1>3. PICK i \in S : \A j \in S : ~(<<j, i>> \in R)
  BY <1>1, WFMin
<1> QED BY <1>2, <1>3

\* Every contribution has its first place, so no file is lost with its duplicates.
LEMMA MembersShareRoot ==
  ASSUME TreeHolds, Gathered, Range(contributions) = Compiled, NEW root
  PROVE  /\ Application(root) = {g \in Compiled : RootOf(g.path) = root}
         /\ \A g \in Application(root) : \E i \in Members(root) : contributions[i] = g
         /\ Members(root) \subseteq Nat
<1>1. contributions \in Seq(Compiled) /\ DOMAIN contributions = 1..Len(contributions) /\ Len(contributions) \in Nat
  BY DEF Gathered
<1>2. ASSUME NEW g \in Compiled, RootOf(g.path) = root
      PROVE  \E i \in Members(root) : contributions[i] = g
  <2> DEFINE S == {i \in DOMAIN contributions : contributions[i].path = g.path}
  <2>1. PICK n \in DOMAIN contributions : contributions[n] = g
    BY DEF Range
  <2>2. n \in S /\ S \in SUBSET Nat
    BY <1>1, <2>1
  <2>3. PICK i \in S : \A j \in S : ~(j < i)
    BY <2>2, FirstPlace
  <2>4. contributions[i] \in Listed /\ g \in Listed
    BY <1>1, <2>3 DEF Compiled
  <2>5. contributions[i] = g
    BY <2>3, <2>4, PathIsOneFile
  <2>6. \A j \in 1..(i - 1) : contributions[j].path # contributions[i].path
    BY <1>1, <2>3
  <2>7. i \in Members(root)
    BY <1>2, <2>3, <2>5, <2>6 DEF Members
  <2> QED BY <2>5, <2>7
<1>3. ASSUME NEW i \in Members(root)
      PROVE  contributions[i] \in Compiled /\ RootOf(contributions[i].path) = root /\ i \in Nat
  BY <1>1 DEF Members
<1>4. \A g : g \in Application(root) <=> \E i \in Members(root) : contributions[i] = g
  BY DEF Application
<1>5. \A g : g \in Application(root) <=> g \in Compiled /\ RootOf(g.path) = root
  BY <1>2, <1>3, <1>4
<1> QED BY <1>3, <1>4, <1>5

LEMMA ApplicationsAreClasses ==
  ASSUME TreeHolds, Gathered, Joining, Ended, NEW f \in Compiled
  PROVE  ApplicationOf(f, Compiled, Separations(Compiled)) = Application(RootOf(f.path))
<1>1. Range(contributions) = Compiled
  BY DEF Joining
<1>2. PICK height, class : Linked(height, class)
  BY DEF Joining
<1>3. /\ Forest(parent, height, class) /\ DOMAIN parent = Nodes
      /\ \A S \in Separations(Compiled) : \A p \in Nodes : p \in S <=> class[p] \in S
      /\ \A g \in Compiled : \A p \in LinksOf(g) : class[p] = class[g.path]
  BY <1>2 DEF Linked, Chore, Ended
<1>4. \A p \in Nodes : RootOf(p) = class[p]
  BY <1>3, FindRootFindsClass DEF RootOf
<1>5. \A g \in Compiled : g.path \in Nodes /\ LinksOf(g) \subseteq Nodes
  BY NodesAreFinite
<1>6. ASSUME NEW g \in Compiled, class[g.path] = class[f.path], NEW S \in Separations(Compiled)
      PROVE  f.path \in S <=> g.path \in S
  BY <1>3, <1>5, <1>6
<1>7. ASSUME NEW g \in Compiled, \A S \in Separations(Compiled) : f.path \in S <=> g.path \in S
      PROVE  class[g.path] = class[f.path]
  <2> DEFINE S == {p \in Nodes : class[p] = class[f.path]}
  <2>1. S \subseteq {h.path : h \in OnDisk}
    BY NodesAreFinite
  <2>2. \A h \in Compiled : \A p \in LinksOf(h) : h.path \in S <=> p \in S
    BY <1>3, <1>5
  <2> HIDE DEF S
  <2>3. S \in Separations(Compiled)
    BY <2>1, <2>2, SeparationsKeepEdges
  <2>4. g.path \in S
    <3>1. f.path \in S
      BY <1>5 DEF S
    <3> QED BY <1>7, <2>3, <3>1
  <2> QED BY <2>4 DEF S
<1>8. Application(RootOf(f.path)) = {g \in Compiled : RootOf(g.path) = RootOf(f.path)}
  BY <1>1, MembersShareRoot
<1>9. \A g \in Compiled : RootOf(g.path) = RootOf(f.path) <=> class[g.path] = class[f.path]
  BY <1>4, <1>5
<1>10. \A g : g \in ApplicationOf(f, Compiled, Separations(Compiled))
         <=> g \in Compiled /\ \A S \in Separations(Compiled) : f.path \in S <=> g.path \in S
  BY DEF ApplicationOf
<1> QED BY <1>6, <1>7, <1>8, <1>9, <1>10

\* What an application prints: what its checks find, but for the warnings of files
\* that phase 1 refused, of which some may go.
LEMMA ShownIsFound ==
  ASSUME TreeHolds, Gathered, Range(contributions) = Compiled, NEW root
  PROVE  /\ \A y \in Shown(root) : \E f \in Application(root) : \E x \in FoundIn(Application(root), f) : y = <<f.path, x>>
         /\ \A f \in Application(root) : \A x \in FoundIn(Application(root), f) :
              IsError(x) \/ Clean(f.path) => <<f.path, x>> \in Shown(root)
<1> DEFINE app == Application(root)
           runs == CheckIntegrity(root)
<1>1. DOMAIN Checks = 1..7
  BY DEF Checks
<1>2. \A run : run \in runs
        <=> /\ run \in (1..7) \X Members(root)
            /\ Subject(app, contributions[run[2]], run[1])
            /\ Findings(root, run) # {}
  BY <1>1 DEF CheckIntegrity, Subject
<1>3. ASSUME NEW run \in runs
      PROVE  Findings(root, run) = FoundBy(app, contributions[run[2]], run[1])
  <2>1. Subject(app, contributions[run[2]], run[1])
    BY <1>2
  <2> QED BY <2>1 DEF Findings, FoundBy
<1>4. \A f, x : x \in FoundIn(app, f) <=> \E k \in 1..7 : x \in FoundBy(app, f, k)
  BY DEF FoundIn
<1>5. \A y : y \in Shown(root)
        <=> \E run \in runs : /\ Rendered(root, run)
                              /\ \E x \in Findings(root, run) : y = <<contributions[run[2]].path, x>>
  BY DEF Shown
<1>6. ASSUME NEW y \in Shown(root)
      PROVE  \E f \in app : \E x \in FoundIn(app, f) : y = <<f.path, x>>
  <2>1. PICK run \in runs : \E x \in Findings(root, run) : y = <<contributions[run[2]].path, x>>
    BY <1>5
  <2>2. PICK x \in Findings(root, run) : y = <<contributions[run[2]].path, x>>
    BY <2>1
  <2>3. run[2] \in Members(root) /\ run[1] \in 1..7
    BY <1>2
  <2>4. contributions[run[2]] \in app
    BY <2>3 DEF Application
  <2>5. x \in FoundIn(app, contributions[run[2]])
    BY <1>3, <1>4, <2>2, <2>3
  <2> QED BY <2>2, <2>4, <2>5
<1>7. ASSUME NEW f \in app, NEW x \in FoundIn(app, f), IsError(x) \/ Clean(f.path)
      PROVE  <<f.path, x>> \in Shown(root)
  <2>1. PICK i \in Members(root) : contributions[i] = f
    BY MembersShareRoot
  <2>2. PICK k \in 1..7 : x \in FoundBy(app, f, k)
    BY <1>4
  <2> DEFINE run == <<k, i>>
  <2>3. run \in (1..7) \X Members(root) /\ run[1] = k /\ run[2] = i
    OBVIOUS
  <2>4. Subject(app, contributions[run[2]], run[1]) /\ x \in Findings(root, run)
    BY <2>1, <2>2, <2>3 DEF FoundBy, Findings
  <2>5. run \in runs
    BY <1>2, <2>3, <2>4
  <2>6. GroupByPath(runs, run, run)
    <3>1. k \in Nat /\ i \in Nat
      BY MembersShareRoot
    <3>2. \A r \in runs : r[1] \in Nat /\ r[2] \in Nat
      BY <1>2, MembersShareRoot
    <3>3. \A r \in runs : ~(Before(run, r) /\ Before(r, run))
      BY <2>3, <3>1, <3>2 DEF Before
    <3> QED BY <3>3 DEF GroupByPath
  <2>7. Rendered(root, run)
    BY <1>7, <2>1, <2>3, <2>4, <2>5, <2>6 DEF Rendered
  <2>8. contributions[run[2]].path = f.path
    BY <2>1, <2>3
  <2> HIDE DEF run, runs
  <2> QED BY <1>5, <2>4, <2>5, <2>7, <2>8
<1> QED BY <1>6, <1>7

-----------------------------------------------------------------------------
(* What is reported, application by application.                           *)

Roots == {RootOf(f.path) : f \in Compiled}
Told ==
  Ended => /\ pending \subseteq Roots
           /\ reported = UNION {Shown(root) : root \in Roots \ pending}
           /\ errors <=> \E x \in reported : tree.deny \/ IsError(x[2])
           /\ pc = "done" => /\ pending = {}
                             /\ exit = IF errors \/ failed > 0 THEN "failure" ELSE "success"

LEMMA SameShown ==
  ASSUME UNCHANGED <<tree, contributions, parent, clean>>
  PROVE  Roots' = Roots /\ \A root : Shown(root)' = Shown(root)
<1>1. \A p : RootOf(p)' = RootOf(p)
  BY SMT DEF RootOf, FindRoot
<1>2. Roots' = Roots
  BY <1>1, SameLinks DEF Roots
<1>3. \A root : Members(root)' = Members(root)
  BY <1>1 DEF Members
<1>4. \A root : Application(root)' = Application(root)
  BY <1>3 DEF Application
<1>5. \A root, run : Findings(root, run)' = Findings(root, run)
  BY <1>4 DEF Findings
<1>6. \A root : CheckIntegrity(root)' = CheckIntegrity(root)
  BY <1>3, <1>4, <1>5 DEF CheckIntegrity
<1>7. \A root, run : Rendered(root, run)' = Rendered(root, run)
  BY <1>5, <1>6 DEF Rendered, Clean
<1>8. \A root : Shown(root)' = Shown(root)
  BY <1>5, <1>6, <1>7 DEF Shown
<1> QED BY <1>2, <1>8

LEMMA TellInit == ASSUME Init PROVE Told
  BY DEF Init, Told, Ended

LEMMA TellStep == ASSUME Gathered, Joining, Told, [Next]_vars PROVE Told'
<1>1. CASE CheckDomain \/ CheckFlow \/ CheckDesign \/ CheckPolicy \/ CheckOther
  <2>1. pc' = "check"
    BY <1>1, ChecksRule DEF Ruled
  <2> QED BY <2>1 DEF Told, Ended
<1>2. CASE StartUnion \/ Contribute \/ Abort \/ StartLinks \/ Link \/ LinkNext
  <2>1. pc' \in {"union", "link"} \/ (pc' = "done" /\ exit' = "error")
    BY <1>2 DEF StartUnion, Contribute, Abort, StartLinks, Link, LinkNext
  <2> QED BY <2>1 DEF Told, Ended
<1>3. CASE StartReport
  <2>1. /\ pc = "link" /\ pc' = "report" /\ pending' = {RootOf(f.path) : f \in Range(contributions)}
        /\ UNCHANGED <<tree, clean, contributions, parent, reported, errors>>
    BY <1>3 DEF StartReport
  <2>2. pending' = Roots /\ Roots' = Roots
    BY <2>1, SameShown DEF Joining, Roots
  <2>3. reported' = {} /\ ~errors'
    BY <2>1 DEF Gathered
  <2> QED BY <2>1, <2>2, <2>3 DEF Told
<1>4. CASE Report
  <2>1. PICK root \in pending :
          /\ pending' = pending \ {root} /\ reported' = reported \cup Shown(root)
          /\ errors' = (errors \/ \E x \in Shown(root) : tree.deny \/ IsError(x[2]))
    BY <1>4 DEF Report
  <2>2. pc = "report" /\ pc' = "report" /\ UNCHANGED <<tree, clean, contributions, parent>>
    BY <1>4 DEF Report
  <2>3. Roots' = Roots /\ \A r : Shown(r)' = Shown(r)
    BY <2>2, SameShown
  <2>4. /\ pending \subseteq Roots
        /\ reported = UNION {Shown(r) : r \in Roots \ pending}
        /\ errors <=> \E x \in reported : tree.deny \/ IsError(x[2])
    BY <2>2 DEF Told, Ended
  <2>5. reported' = UNION {Shown(r) : r \in Roots \ pending'}
    <3>1. Roots \ pending' = (Roots \ pending) \cup {root}
      BY <2>1, <2>4
    <3> QED BY <2>1, <2>4, <3>1
  <2>6. errors' <=> \E x \in reported' : tree.deny \/ IsError(x[2])
    BY <2>1, <2>4
  <2>7. pending' \subseteq Roots
    BY <2>1, <2>4
  <2> QED BY <2>2, <2>3, <2>5, <2>6, <2>7 DEF Told
<1>5. CASE Finish
  <2>1. /\ pc = "report" /\ pending = {} /\ exit' = IF errors \/ failed > 0 THEN "failure" ELSE "success"
        /\ UNCHANGED <<tree, clean, failed, contributions, parent, pending, reported, errors>>
    BY <1>5 DEF Finish
  <2>2. Roots' = Roots /\ \A r : Shown(r)' = Shown(r)
    BY <2>1, SameShown
  <2> QED BY <2>1, <2>2 DEF Told, Ended
<1>6. CASE UNCHANGED vars
  <2>1. /\ UNCHANGED <<tree, clean, failed, contributions, parent, pending, reported, errors, pc, exit>>
    BY <1>6 DEF vars
  <2>2. Roots' = Roots /\ \A r : Shown(r)' = Shown(r)
    BY <2>1, SameShown
  <2> QED BY <2>1, <2>2 DEF Told, Ended
<1> QED BY <1>1, <1>2, <1>3, <1>4, <1>5, <1>6 DEF Next, Finished

\* What the report says of one compiled file.
AppOf(f) == ApplicationOf(f, Compiled, Separations(Compiled))
LEMMA ReportSaysFound ==
  ASSUME TreeHolds, Gathered, Joining, Told, pc = "done", exit # "error"
  PROVE  /\ \A y \in reported : \E f \in Compiled : \E x \in FoundIn(AppOf(f), f) : y = <<f.path, x>>
         /\ \A f \in Compiled :
              /\ AppOf(f) \in SUBSET OnDisk /\ f \in AppOf(f)
              /\ \A x \in FoundIn(AppOf(f), f) : IsError(x) \/ Clean(f.path) => <<f.path, x>> \in reported
<1>1. Ended /\ Range(contributions) = Compiled /\ reported = UNION {Shown(root) : root \in Roots}
  BY DEF Told, Joining, Ended
<1>2. \A f \in Compiled : AppOf(f) = Application(RootOf(f.path))
  BY <1>1, ApplicationsAreClasses DEF AppOf
<1>3. \A root : Application(root) = {g \in Compiled : RootOf(g.path) = root}
  BY <1>1, MembersShareRoot
<1>4. ASSUME NEW y \in reported
      PROVE  \E f \in Compiled : \E x \in FoundIn(AppOf(f), f) : y = <<f.path, x>>
  <2>1. PICK root \in Roots : y \in Shown(root)
    BY <1>1
  <2>2. PICK f \in Application(root) : \E x \in FoundIn(Application(root), f) : y = <<f.path, x>>
    BY <1>1, <2>1, ShownIsFound
  <2>3. f \in Compiled /\ RootOf(f.path) = root
    BY <1>3, <2>2
  <2> QED BY <1>2, <2>2, <2>3
<1>5. ASSUME NEW f \in Compiled
      PROVE  /\ AppOf(f) \in SUBSET OnDisk /\ f \in AppOf(f)
             /\ \A x \in FoundIn(AppOf(f), f) : IsError(x) \/ Clean(f.path) => <<f.path, x>> \in reported
  <2>1. f \in Application(RootOf(f.path)) /\ RootOf(f.path) \in Roots
    BY <1>3 DEF Roots
  <2>2. \A x \in FoundIn(AppOf(f), f) : IsError(x) \/ Clean(f.path) => <<f.path, x>> \in Shown(RootOf(f.path))
    BY <1>1, <1>2, <2>1, ShownIsFound
  <2>3. Application(RootOf(f.path)) \subseteq OnDisk
    BY <1>3, NodesAreFinite
  <2> QED BY <1>1, <1>2, <2>1, <2>2, <2>3
<1> QED BY <1>4, <1>5

LEMMA ReportIsExact ==
  ASSUME CheckInv, Tallied, Gathered, Joining, Told
  PROVE  ReportsExactlyDangling
<1> SUFFICES ASSUME pc = "done", exit # "error" PROVE ReportsExactlyDangling
  BY DEF ReportsExactlyDangling
<1> DEFINE Of1(f) == {r[2] : r \in {x \in reported : x[1] = f.path}}
           dangling == [f \in Compiled |-> Dangling(f, AppOf(f))]
           lints == [f \in Compiled |-> Uncarried(f, AppOf(f))]
           sound == /\ \A f \in Listed : Clean(f.path)
                    /\ \A f \in Compiled : dangling[f] = {} /\ (tree.deny => lints[f] = {})
<1>1. \A f \in Compiled :
        /\ dangling[f] = {x \in FoundIn(AppOf(f), f) : IsError(x)}
        /\ lints[f] = {x \in FoundIn(AppOf(f), f) : ~IsError(x)}
  <2>1. ASSUME NEW f \in Compiled
        PROVE  /\ {x \in FoundIn(AppOf(f), f) : IsError(x)} = Dangling(f, AppOf(f))
               /\ {x \in FoundIn(AppOf(f), f) : ~IsError(x)} = Uncarried(f, AppOf(f))
    <3>1. AppOf(f) \in SUBSET OnDisk /\ f \in AppOf(f)
      BY ReportSaysFound DEF CheckInv
    <3> QED BY <3>1, ChecksFindDangling DEF CheckInv
  <2> QED BY <2>1
<1>2. \A y \in reported : \E f \in Compiled : \E x \in FoundIn(AppOf(f), f) : y = <<f.path, x>>
  BY ReportSaysFound DEF CheckInv
<1>3. \A f \in Compiled : \A x \in FoundIn(AppOf(f), f) : IsError(x) \/ Clean(f.path) => <<f.path, x>> \in reported
  BY ReportSaysFound DEF CheckInv
<1>4. \A f, g \in Compiled : f.path = g.path => f = g
  BY PathIsOneFile DEF CheckInv, Compiled
<1>5. \A f, x : x \in Of1(f) <=> \E y \in reported : y[1] = f.path /\ x = y[2]
  OBVIOUS
<1> HIDE DEF dangling, lints, Of1
<1>6. ASSUME NEW f \in Compiled
      PROVE  /\ Of1(f) \subseteq FoundIn(AppOf(f), f)
             /\ \A x \in FoundIn(AppOf(f), f) : IsError(x) \/ Clean(f.path) => x \in Of1(f)
  <2>1. ASSUME NEW x \in Of1(f) PROVE x \in FoundIn(AppOf(f), f)
    <3>1. PICK y \in reported : y[1] = f.path /\ x = y[2]
      BY <1>5
    <3>2. PICK g \in Compiled : \E z \in FoundIn(AppOf(g), g) : y = <<g.path, z>>
      BY <1>2
    <3>3. PICK z \in FoundIn(AppOf(g), g) : y = <<g.path, z>>
      BY <3>2
    <3>4. g = f /\ x = z
      BY <1>4, <3>1, <3>3
    <3> QED BY <3>3, <3>4
  <2>2. ASSUME NEW x \in FoundIn(AppOf(f), f), IsError(x) \/ Clean(f.path) PROVE x \in Of1(f)
    <3>1. <<f.path, x>> \in reported
      BY <1>3, <2>2
    <3> QED BY <1>5, <3>1
  <2> QED BY <2>1, <2>2
<1>7. \A f \in Compiled :
        /\ {x \in Of1(f) : IsError(x)} = dangling[f]
        /\ Clean(f.path) => {x \in Of1(f) : ~IsError(x)} = lints[f]
        /\ {x \in Of1(f) : ~IsError(x)} \subseteq lints[f]
  BY <1>1, <1>6
<1>8. /\ errors <=> \E x \in reported : tree.deny \/ IsError(x[2])
      /\ exit = IF errors \/ failed > 0 THEN "failure" ELSE "success"
  BY DEF Told, Ended
<1>9. \A f : ~Waits(f)
  BY DEF Waits
<1>10. ASSUME exit = "success" PROVE sound
  <2>1. failed = 0 /\ \A x \in reported : ~tree.deny /\ ~IsError(x[2])
    BY <1>8, <1>10 DEF Tallied
  <2>2. \A f \in Listed : Clean(f.path)
    BY <1>9, <2>1 DEF Tallied
  <2>3. ASSUME NEW f \in Compiled PROVE dangling[f] = {} /\ (tree.deny => lints[f] = {})
    <3>1. \A x \in Of1(f) : ~tree.deny /\ ~IsError(x)
      BY <1>5, <2>1
    <3>2. Clean(f.path)
      BY <2>2 DEF Compiled
    <3> QED BY <1>7, <3>1, <3>2
  <2> QED BY <2>2, <2>3
<1>11. ASSUME Once, sound PROVE exit = "success"
  <2>1. failed = 0
    BY <1>9, <1>11 DEF Tallied
  <2>2. ASSUME NEW y \in reported, tree.deny \/ IsError(y[2]) PROVE FALSE
    <3>1. PICK f \in Compiled : \E x \in FoundIn(AppOf(f), f) : y = <<f.path, x>>
      BY <1>2
    <3>2. PICK x \in FoundIn(AppOf(f), f) : y = <<f.path, x>>
      BY <3>1
    <3>3. tree.deny \/ IsError(x)
      BY <2>2, <3>2
    <3> QED BY <1>1, <1>11, <3>2, <3>3
  <2> QED BY <1>8, <2>1, <2>2
<1>12. Compiled = {f \in Listed : Contributes(f)}
  BY DEF Compiled
<1> QED
  <2>1. dangling = [f \in {g \in Listed : Contributes(g)} |-> Dangling(f, ApplicationOf(f, Compiled, Separations(Compiled)))]
    BY <1>12 DEF dangling, AppOf
  <2> QED BY <1>7, <1>10, <1>11, <1>12 DEF ReportsExactlyDangling, Once, dangling, lints, Of1, AppOf

\* A pass that runs to its end reports what dangles in each application, no more
\* and no less, and the batch succeeds just when nothing failed and nothing dangles
\* (integrity.rs: unrelated applications never cross-check each other).
THEOREM ReportsAreExact == Spec => []ReportsExactlyDangling
<1> DEFINE Inv == CheckInv /\ Tallied /\ Gathered /\ Joining /\ Told
<1>1. Init => Inv
  BY CheckInit, TallyInit, GatherInit, JoinInit, TellInit DEF CheckInv
<1>2. Inv /\ [Next]_vars => Inv'
  BY CheckStep, TallyStep, GatherStep, JoinStep, TellStep
<1>3. Inv => ReportsExactlyDangling
  BY ReportIsExact
<1> QED BY <1>1, <1>2, <1>3, PTL DEF Spec
=============================================================================
