-------------------------- MODULE ModuleTableProofs --------------------------
(***************************************************************************)
(* What the import walk, the resolver (ImportWalk) and the module table     *)
(* (ModuleTable) promise for any workspace in which one import string means *)
(* one file, however many files there are and however they import each     *)
(* other, over a whole compilation (CSpec).                                *)
(*                                                                         *)
(* The argument has, after the walk itself, four parts.                    *)
(*   1. The walk lists its sources in depth-first order: each file has a   *)
(*      time at which it was entered, and what a frame has entered so far  *)
(*      lies between its own time and that of what it does next (OInv).    *)
(*   2. The resolver goes through the same files in the same order: it is  *)
(*      at some place m of the walk's list, and its index is the part of   *)
(*      the list before m that parses (RInv).  So a finished index is the  *)
(*      list of the walked files that parse.                               *)
(*   3. A circular import is reported exactly when a file lies behind      *)
(*      itself in the import graph (CycleInv): the files the resolver has  *)
(*      left form a closed set without cycles.                             *)
(*   4. The module table and the uses are functions of the declarations    *)
(*      visited so far (TableInv, UsesInv).                                *)
(***************************************************************************)
EXTENDS ModuleTable, SequenceTheorems, TLAPS

-----------------------------------------------------------------------------
(* The walk. *)

Frames == [id : Ids, file : Paths, rest : Seq(Written)]

\* What an import string means: the entry file, or the file next to one that
\* mentions it.
Denotes(id, p) ==
    \/ id = entryId /\ p = Entry
    \/ \E q \in Paths : id \in Mentions(q) /\ p = Join[q][id]

ImportedBy(p) == {ImportsAt(p)[j] : j \in 1..Len(ImportsAt(p))}

\* The import of q is still to be walked in a frame of the file p.
OwedBy(frames, p, q) ==
    \E i \in 1..Len(frames) :
        /\ frames[i].file = p
        /\ \E k \in 1..Len(frames[i].rest) :
              /\ Surface[frames[i].rest[k]] = "ifml"
              /\ Join[p][frames[i].rest[k]] = q

Owed(p, q) == OwedBy(stack, p, q)

-----------------------------------------------------------------------------
(* The invariant. *)

Typed ==
    /\ disk \in Projects
    /\ entryId \in EntryIds
    /\ stack \in Seq(Frames)
    /\ visited \subseteq Ids
    /\ sources \in Seq(Ids \X Paths)
    /\ pathOf \in [Ids -> Paths \cup {Missing}]

\* An identity that was walked has the path of a collected file, the one it
\* means.
Found ==
    \A id \in visited : pathOf[id] \in Collected /\ Denotes(id, pathOf[id])

Stacked ==
    \A i \in 1..Len(stack) :
        /\ stack[i].id \in visited
        /\ stack[i].file = pathOf[stack[i].id]
        /\ \A k \in 1..Len(stack[i].rest) : stack[i].rest[k] \in ImportedBy(stack[i].file)

Complete ==
    /\ Entry \in Collected
    /\ \A p \in Collected : Exists(p) /\ \A q \in Imports(p) : q \in Collected \/ Owed(p, q)

Least ==
    \A S \in SUBSET Paths : Entry \in S /\ Closed(S) => Collected \subseteq S

WInv ==
    /\ Typed /\ Unambiguous
    /\ Found /\ Stacked /\ Complete /\ Least
    /\ stage # "walk" => stack = <<>>

-----------------------------------------------------------------------------
(* Files and their imports. *)

\* Files that exist have content, and import strings of the workspace only.
LEMMA ContentOfFiles ==
    ASSUME Typed, NEW p \in Paths, Exists(p)
    PROVE  /\ ImportsAt(p) \in Seq(Written)
           /\ ImportedBy(p) \subseteq Mentions(p)
           /\ ImportedBy(p) \subseteq Written
<1>1. disk[p] \in Content
  BY ImportAssumption DEF Typed, Exists
<1>2. disk[p].parses \in BOOLEAN /\ disk[p].imports \in Seq(Written)
  BY <1>1 DEF Content
<1>3. ImportsAt(p) \in Seq(Written)
  BY <1>2 DEF ImportsAt
<1>4. \A j \in 1..Len(ImportsAt(p)) : ImportsAt(p)[j] \in Written /\ ImportsAt(p)[j] \in Mentions(p)
  BY <1>2, <1>3 DEF ImportsAt, Mentions
<1> QED
  BY <1>3, <1>4 DEF ImportedBy

\* A file's imports, by their strings.
LEMMA ImportsByString ==
    ASSUME NEW p, Exists(p), NEW q
    PROVE  q \in Imports(p) <=> \E w \in ImportedBy(p) : Surface[w] = "ifml" /\ Exists(q) /\ q = Join[p][w]
  BY DEF Imports, ImportedBy

\* Where one import string means one file, an identity means one path.
LEMMA OneMeaning ==
    ASSUME Unambiguous, NEW id, NEW p, NEW q, Denotes(id, p), Denotes(id, q)
    PROVE  p = q
  BY DEF Unambiguous, Denotes

\* Collected files are paths.
LEMMA CollectedArePaths ==
    ASSUME Typed
    PROVE  Collected \subseteq Paths
<1>1. \A i \in 1..Len(sources) : sources[i] \in Ids \X Paths
  BY DEF Typed
<1> QED
  BY <1>1 DEF Collected

-----------------------------------------------------------------------------
(* The stack. *)

\* All but the last of a list.
LEMMA WithoutLast ==
    ASSUME NEW S, NEW s \in Seq(S), s # <<>>
    PROVE  /\ SubSeq(s, 1, Len(s) - 1) \in Seq(S)
           /\ Len(SubSeq(s, 1, Len(s) - 1)) = Len(s) - 1
           /\ \A i \in 1..(Len(s) - 1) : SubSeq(s, 1, Len(s) - 1)[i] = s[i]
<1>1. Len(s) \in Nat \ {0} /\ \A i \in 1..Len(s) : s[i] \in S
  OBVIOUS
<1> DEFINE n == Len(s) - 1
<1>2. n \in Int /\ n >= 0 /\ 1 \in Int /\ \A i \in 1..n : s[i] \in S
  BY <1>1
<1>3. /\ SubSeq(s, 1, n) \in Seq(S)
      /\ Len(SubSeq(s, 1, n)) = IF 1 <= n THEN n - 1 + 1 ELSE 0
      /\ \A i \in 1..(n - 1 + 1) : SubSeq(s, 1, n)[i] = s[1 + i - 1]
  <2> HIDE DEF n
  <2> QED
    BY <1>2, SubSeqProperties
<1>4. n - 1 + 1 = n /\ \A i \in 1..n : 1 + i - 1 = i
  BY <1>2
<1> QED
  BY <1>2, <1>3, <1>4

LEMMA FrameWithout ==
    ASSUME NEW f \in Frames, NEW rest
    PROVE  [f EXCEPT !.rest = rest] = [id |-> f.id, file |-> f.file, rest |-> rest]
  BY DEF Frames

\* Consuming an import changes what is left of the top frame, nothing else.
LEMMA AdvancedFrames ==
    ASSUME stack \in Seq(Frames), stack # <<>>, Top.rest # <<>>
    PROVE  /\ Len(stack) \in Nat \ {0} /\ Top \in Frames
           /\ Advanced \in Seq(Frames) /\ Len(Advanced) = Len(stack)
           /\ \A i \in 1..(Len(stack) - 1) : Advanced[i] = stack[i]
           /\ Advanced[Len(stack)] = [id |-> Top.id, file |-> Top.file, rest |-> Tail(Top.rest)]
<1>1. Len(stack) \in Nat \ {0} /\ Top \in Frames
  BY DEF Top
<1>2. [Top EXCEPT !.rest = Tail(@)] = [id |-> Top.id, file |-> Top.file, rest |-> Tail(Top.rest)]
  BY <1>1, FrameWithout
<1>3. Tail(Top.rest) \in Seq(Written) /\ [id |-> Top.id, file |-> Top.file, rest |-> Tail(Top.rest)] \in Frames
  BY <1>1 DEF Frames
<1>4. /\ Below \in Seq(Frames) /\ Len(Below) = Len(stack) - 1
      /\ \A i \in 1..(Len(stack) - 1) : Below[i] = stack[i]
  BY WithoutLast DEF Below
<1> QED
  BY <1>1, <1>2, <1>3, <1>4 DEF Advanced

\* What is left of a list of imports, and its head, is what it had.
LEMMA HeadAndTail ==
    ASSUME NEW rest \in Seq(Written), rest # <<>>
    PROVE  /\ Head(rest) = rest[1] /\ 1 \in 1..Len(rest) /\ Head(rest) \in Written
           /\ \A k \in 1..Len(Tail(rest)) : k + 1 \in 1..Len(rest) /\ Tail(rest)[k] = rest[k + 1]
           /\ \A k \in 1..Len(rest) : k # 1 => k - 1 \in 1..Len(Tail(rest)) /\ Tail(rest)[k - 1] = rest[k]
  OBVIOUS

\* Where the walker is at an import: the string is one of the top file's, which
\* is a collected file, and the host resolves it next to that file.
LEMMA AtTop ==
    ASSUME WInv, NEW written, NEW p, AtImport(written, p)
    PROVE  /\ Top \in Frames /\ Top.rest # <<>> /\ stack # <<>> /\ stage = "walk"
           /\ written = Head(Top.rest) /\ written \in Written
           /\ Top.file \in Collected /\ Top.file \in Paths /\ Exists(Top.file)
           /\ Top.id \in visited
           /\ written \in ImportedBy(Top.file) /\ written \in Mentions(Top.file)
           /\ p = Join[Top.file][written] /\ p \in Paths
           /\ Denotes(written, p)
<1>1. /\ stage = "walk" /\ stack # <<>> /\ Top.rest # <<>> /\ written = Head(Top.rest)
      /\ p = Join[pathOf[Top.id]][written]
  BY DEF AtImport, Resolved
<1>2. stack \in Seq(Frames) /\ Len(stack) \in Nat \ {0} /\ Top \in Frames /\ Len(stack) \in 1..Len(stack)
  BY <1>1, AdvancedFrames DEF WInv, Typed
<1>3. Top.rest \in Seq(Written)
  BY <1>2 DEF Frames
<1>4. Top.id \in visited /\ Top.file = pathOf[Top.id]
      /\ \A k \in 1..Len(Top.rest) : Top.rest[k] \in ImportedBy(Top.file)
  BY <1>2 DEF WInv, Stacked, Top
<1>5. Top.file \in Collected /\ Exists(Top.file)
  BY <1>4 DEF WInv, Found, Complete
<1>6. Top.file \in Paths
  BY <1>5, CollectedArePaths DEF WInv
<1>7. written \in ImportedBy(Top.file) /\ written \in Written
  BY <1>1, <1>3, <1>4, HeadAndTail
<1>8. written \in Mentions(Top.file)
  BY <1>5, <1>6, <1>7, ContentOfFiles DEF WInv
<1>9. p = Join[Top.file][written] /\ p \in Paths
  BY <1>1, <1>4, <1>6, <1>7, ImportAssumption
<1>10. Denotes(written, p)
  BY <1>6, <1>8, <1>9 DEF Denotes
<1> QED
  BY <1>1, <1>2, <1>4, <1>5, <1>6, <1>7, <1>8, <1>9, <1>10

-----------------------------------------------------------------------------
(* The steps. *)

\* What a fetch records for a string is what the string means, so the paths of
\* the identities that were walked stay as they are.
Recorded ==
    /\ pathOf' \in [Ids -> Paths \cup {Missing}]
    /\ \A id \in Ids : pathOf'[id] = pathOf[id] \/ Denotes(id, pathOf'[id])

LEMMA RecordedKeeps ==
    ASSUME WInv, Recorded
    PROVE  \A id \in visited : pathOf'[id] = pathOf[id]
<1> SUFFICES ASSUME NEW id \in visited PROVE pathOf'[id] = pathOf[id]
  OBVIOUS
<1>1. id \in Ids /\ Denotes(id, pathOf[id]) /\ Unambiguous
  BY DEF WInv, Typed, Found
<1> QED
  BY <1>1, OneMeaning DEF Recorded

\* The import in hand is settled, if it is a flow that exists, once its file is
\* collected; whatever else is owed stays owed.
LEMMA AdvancedOwes ==
    ASSUME WInv, NEW written, NEW w, AtImport(written, w),
           NEW p \in Collected, NEW q, Owed(p, q), NEW s,
           \A i \in 1..Len(Advanced) : i \in 1..Len(s) /\ s[i] = Advanced[i]
    PROVE  \/ p = Top.file /\ q = w /\ Surface[written] = "ifml"
           \/ OwedBy(s, p, q)
<1>1. PICK i \in 1..Len(stack) :
        /\ stack[i].file = p
        /\ \E k \in 1..Len(stack[i].rest) : Surface[stack[i].rest[k]] = "ifml" /\ Join[p][stack[i].rest[k]] = q
  BY DEF Owed, OwedBy
<1>2. PICK k \in 1..Len(stack[i].rest) : Surface[stack[i].rest[k]] = "ifml" /\ Join[p][stack[i].rest[k]] = q
  BY <1>1
<1>3. /\ stack \in Seq(Frames) /\ Len(stack) \in Nat \ {0} /\ Top \in Frames
      /\ Advanced \in Seq(Frames) /\ Len(Advanced) = Len(stack)
      /\ \A j \in 1..(Len(stack) - 1) : Advanced[j] = stack[j]
      /\ Advanced[Len(stack)] = [id |-> Top.id, file |-> Top.file, rest |-> Tail(Top.rest)]
  BY AtTop, AdvancedFrames DEF WInv, Typed
<1>4. i \in 1..Len(s) /\ s[i] = Advanced[i]
  BY <1>3
<1>5. CASE i # Len(stack)
  <2>1. s[i] = stack[i]
    BY <1>3, <1>4, <1>5
  <2> QED
    BY <1>1, <1>2, <1>4, <2>1 DEF OwedBy
<1>6. CASE i = Len(stack)
  <2>1. stack[i] = Top
    BY <1>6 DEF Top
  <2>2. CASE k = 1
    BY <1>1, <1>2, <2>1, <2>2, AtTop
  <2>3. CASE k # 1
    <3>1. k - 1 \in 1..Len(Tail(Top.rest)) /\ Tail(Top.rest)[k - 1] = Top.rest[k]
      <4>1. Top.rest \in Seq(Written) /\ Top.rest # <<>>
        BY <1>3, AtTop DEF Frames
      <4> QED
        BY <4>1, <2>1, <2>3, HeadAndTail
    <3>2. s[i].file = p /\ s[i].rest = Tail(Top.rest)
      <4>1. s[i] = [id |-> Top.id, file |-> Top.file, rest |-> Tail(Top.rest)]
        BY <1>3, <1>4, <1>6
      <4> QED
        BY <1>1, <2>1, <4>1
    <3> QED
      BY <1>2, <1>4, <2>1, <3>1, <3>2, ZenonT(40) DEF OwedBy
  <2> QED
    BY <2>2, <2>3
<1> QED
  BY <1>5, <1>6

\* What is said of files does not change while they do not.
LEMMA SameFiles ==
    ASSUME disk' = disk, entryId' = entryId
    PROVE  /\ Unambiguous' <=> Unambiguous
           /\ \A p : (Exists(p)' <=> Exists(p)) /\ Imports(p)' = Imports(p) /\ ImportedBy(p)' = ImportedBy(p)
           /\ \A id, p : Denotes(id, p)' <=> Denotes(id, p)
           /\ \A S : Closed(S)' <=> Closed(S)
<1>1. \A p : /\ Exists(p)' <=> Exists(p)
             /\ ImportsAt(p)' = ImportsAt(p)
             /\ Mentions(p)' = Mentions(p)
  BY DEF Exists, ImportsAt, Mentions
<1>2. \A p : Imports(p)' = Imports(p) /\ ImportedBy(p)' = ImportedBy(p)
  BY <1>1 DEF Imports, ImportedBy, Exists, ImportsAt
<1>3. Unambiguous' <=> Unambiguous
  BY <1>1 DEF Unambiguous
<1>4. \A id, p : Denotes(id, p)' <=> Denotes(id, p)
  BY <1>1 DEF Denotes
<1>5. \A S : Closed(S)' <=> Closed(S)
  BY <1>2 DEF Closed
<1> QED
  BY <1>1, <1>2, <1>3, <1>4, <1>5

\* The frames left when an import is consumed are as sound as before.
LEMMA AdvancedStacked ==
    ASSUME WInv, Recorded, NEW written, NEW p, AtImport(written, p), NEW i \in 1..Len(Advanced)
    PROVE  /\ Advanced[i].id \in visited
           /\ Advanced[i].file = pathOf'[Advanced[i].id]
           /\ \A k \in 1..Len(Advanced[i].rest) : Advanced[i].rest[k] \in ImportedBy(Advanced[i].file)
<1>1. /\ Top \in Frames /\ Top.rest # <<>> /\ Len(stack) \in Nat \ {0}
      /\ Len(Advanced) = Len(stack)
      /\ \A j \in 1..(Len(stack) - 1) : Advanced[j] = stack[j]
      /\ Advanced[Len(stack)] = [id |-> Top.id, file |-> Top.file, rest |-> Tail(Top.rest)]
  BY AtTop, AdvancedFrames DEF WInv, Typed
<1>2. i \in 1..Len(stack) /\ Advanced[i].id = stack[i].id /\ Advanced[i].file = stack[i].file
  BY <1>1 DEF Top
<1>3. /\ stack[i].id \in visited /\ stack[i].file = pathOf[stack[i].id]
      /\ \A k \in 1..Len(stack[i].rest) : stack[i].rest[k] \in ImportedBy(stack[i].file)
  BY <1>2 DEF WInv, Stacked
<1>4. Advanced[i].id \in visited /\ Advanced[i].file = pathOf'[Advanced[i].id]
  BY <1>2, <1>3, RecordedKeeps
<1>5. CASE i # Len(stack)
  <2>1. Advanced[i] = stack[i]
    BY <1>1, <1>2, <1>5
  <2> QED
    BY <1>3, <1>4, <2>1
<1>6. CASE i = Len(stack)
  <2>1. Advanced[i] = [id |-> Top.id, file |-> Top.file, rest |-> Tail(Top.rest)]
    BY <1>1, <1>6
  <2>2. stack[i] = Top
    BY <1>6 DEF Top
  <2>3. Top.rest \in Seq(Written)
    BY <1>1 DEF Frames
  <2>4. \A k \in 1..Len(Tail(Top.rest)) : Tail(Top.rest)[k] \in ImportedBy(Top.file)
    BY <1>1, <1>3, <2>2, <2>3, HeadAndTail
  <2> QED
    BY <1>4, <2>1, <2>4
<1> QED
  BY <1>5, <1>6

\* The walker goes on to the next import of the top file: what it was at is no
\* flow, does not exist, or was collected before.
LEMMA ConsumeKeepsInv ==
    ASSUME WInv, NEW written, NEW p, AtImport(written, p),
           stack' = Advanced, Recorded, UNCHANGED <<disk, entryId, stage, visited, sources>>,
           Surface[written] = "ifml" /\ Exists(p) => p \in Collected
    PROVE  WInv'
<1>1. /\ Top \in Frames /\ Top.rest # <<>> /\ stack # <<>> /\ stage = "walk"
      /\ stack \in Seq(Frames) /\ Len(stack) \in Nat \ {0}
      /\ Advanced \in Seq(Frames) /\ Len(Advanced) = Len(stack)
      /\ \A j \in 1..(Len(stack) - 1) : Advanced[j] = stack[j]
      /\ Advanced[Len(stack)] = [id |-> Top.id, file |-> Top.file, rest |-> Tail(Top.rest)]
  BY AtTop, AdvancedFrames DEF WInv, Typed
<1>2. Typed'
  BY <1>1 DEF WInv, Typed, Recorded
<1>3. Unambiguous' /\ Collected' = Collected /\ (stage' # "walk" => stack' = <<>>)
  BY <1>1, SameFiles DEF WInv, Collected
<1>4. Found'
  BY <1>3, SameFiles, RecordedKeeps DEF WInv, Found
<1>5. Stacked'
  BY <1>1, AdvancedStacked, SameFiles DEF Stacked
<1>6. Complete'
  <2>1. Entry \in Collected' /\ \A a \in Collected' : Exists(a)'
    BY <1>3, SameFiles DEF WInv, Complete
  <2>2. ASSUME NEW a \in Collected, NEW q \in Imports(a)
        PROVE  q \in Collected \/ Owed(a, q)'
    <3>1. CASE q \in Collected
      BY <3>1
    <3>2. CASE Owed(a, q)
      <4>1. CASE a = Top.file /\ q = p /\ Surface[written] = "ifml"
        <5>1. Exists(q)
          BY <2>2, ImportsByString DEF WInv, Complete
        <5> QED
          BY <4>1, <5>1
      <4>2. CASE OwedBy(stack', a, q)
        BY <4>2 DEF Owed
      <4> QED
        BY <3>2, <4>1, <4>2, AdvancedOwes
    <3> QED
      BY <3>1, <3>2 DEF WInv, Complete
  <2> QED
    BY <1>3, <2>1, <2>2, SameFiles DEF Complete
<1>7. Least'
  BY <1>3, SameFiles DEF WInv, Least
<1> QED
  BY <1>2, <1>3, <1>4, <1>5, <1>6, <1>7 DEF WInv

\* The walker recurses into a flow it has not walked: its file is collected and
\* all of its imports are still to be walked.
LEMMA PushKeepsInv ==
    ASSUME WInv, NEW written, NEW p, AtImport(written, p),
           Exists(p), Surface[written] = "ifml", Recorded, pathOf'[written] = p,
           stack' = Append(Advanced, Frame(written, p)),
           visited' = visited \cup {written},
           sources' = Append(sources, <<written, p>>),
           UNCHANGED <<disk, entryId, stage>>
    PROVE  WInv'
<1>1. /\ stage = "walk" /\ written \in Written /\ p \in Paths
      /\ Top.file \in Collected /\ Exists(Top.file)
      /\ written \in ImportedBy(Top.file) /\ p = Join[Top.file][written]
      /\ Denotes(written, p)
  BY AtTop
<1>2. ImportsAt(p) \in Seq(Written) /\ written \in Ids
  BY <1>1, ContentOfFiles DEF WInv, Ids
<1>3. Frame(written, p) \in Frames
  BY <1>1, <1>2 DEF Frames, Frame
<1>4. Advanced \in Seq(Frames)
  BY AtTop, AdvancedFrames DEF WInv, Typed
<1>5. /\ stack' \in Seq(Frames) /\ Len(stack') = Len(Advanced) + 1
      /\ \A i \in 1..Len(Advanced) : stack'[i] = Advanced[i]
      /\ stack'[Len(Advanced) + 1] = Frame(written, p)
  BY <1>3, <1>4
<1>6. Collected' = Collected \cup {p}
  <2>1. sources \in Seq(Ids \X Paths)
    BY DEF WInv, Typed
  <2>2. /\ Len(sources') = Len(sources) + 1 /\ Len(sources) \in Nat
        /\ \A i \in 1..Len(sources) : sources'[i] = sources[i]
        /\ sources'[Len(sources) + 1] = <<written, p>>
    BY <2>1
  <2>3. 1..Len(sources') = 1..Len(sources) \cup {Len(sources) + 1}
    BY <2>2
  <2>4. Collected' = {sources'[i][2] : i \in 1..Len(sources')}
    BY DEF Collected
  <2> QED
    BY <2>2, <2>3, <2>4 DEF Collected
<1>7. Typed'
  <2>1. sources' \in Seq(Ids \X Paths)
    BY <1>1, <1>2 DEF WInv, Typed
  <2> QED
    BY <1>2, <1>5, <2>1 DEF WInv, Typed, Recorded
<1>8. Unambiguous' /\ (stage' # "walk" => stack' = <<>>)
  BY <1>1, SameFiles DEF WInv
<1>9. Found'
  <2>1. \A id \in visited : pathOf'[id] \in Collected /\ Denotes(id, pathOf'[id])
    BY RecordedKeeps DEF WInv, Found
  <2> QED
    BY <1>1, <1>6, <2>1, SameFiles DEF Found
<1>10. Stacked'
  <2> SUFFICES ASSUME NEW i \in 1..Len(stack')
               PROVE  /\ stack'[i].id \in visited'
                      /\ stack'[i].file = pathOf'[stack'[i].id]
                      /\ \A k \in 1..Len(stack'[i].rest) : stack'[i].rest[k] \in ImportedBy(stack'[i].file)
    BY SameFiles DEF Stacked
  <2>1. CASE i \in 1..Len(Advanced)
    BY <1>5, <2>1, AdvancedStacked
  <2>2. CASE i \notin 1..Len(Advanced)
    <3>1. stack'[i] = Frame(written, p)
      BY <1>4, <1>5, <2>2
    <3> QED
      BY <3>1 DEF Frame, ImportedBy
  <2> QED
    BY <2>1, <2>2
<1>11. Complete'
  <2>1. Entry \in Collected' /\ \A a \in Collected' : Exists(a)'
    BY <1>6, SameFiles DEF WInv, Complete
  <2>2. ASSUME NEW a \in Collected, NEW q \in Imports(a)
        PROVE  q \in Collected' \/ Owed(a, q)'
    <3>1. CASE q \in Collected
      BY <1>6, <3>1
    <3>2. CASE Owed(a, q)
      <4>1. CASE q = p
        BY <1>6, <4>1
      <4>2. CASE OwedBy(stack', a, q)
        BY <4>2 DEF Owed
      <4>3. \A i \in 1..Len(Advanced) : i \in 1..Len(stack') /\ stack'[i] = Advanced[i]
        BY <1>4, <1>5
      <4> QED
        BY <3>2, <4>1, <4>2, <4>3, AdvancedOwes
    <3> QED
      BY <3>1, <3>2 DEF WInv, Complete
  <2>3. ASSUME NEW q \in Imports(p)
        PROVE  Owed(p, q)'
    <3>1. PICK k \in 1..Len(ImportsAt(p)) : Surface[ImportsAt(p)[k]] = "ifml" /\ q = Join[p][ImportsAt(p)[k]]
      BY <2>3, ImportsByString DEF ImportedBy
    <3>2. Len(Advanced) + 1 \in 1..Len(stack')
      BY <1>4, <1>5
    <3>3. stack'[Len(Advanced) + 1].file = p /\ stack'[Len(Advanced) + 1].rest = ImportsAt(p)
      BY <1>5 DEF Frame
    <3> QED
      BY <3>1, <3>2, <3>3 DEF Owed, OwedBy
  <2> QED
    BY <1>6, <2>1, <2>2, <2>3, SameFiles DEF Complete
<1>12. Least'
  <2>1. p \in Imports(Top.file)
    BY <1>1, ImportsByString
  <2> SUFFICES ASSUME NEW S \in SUBSET Paths, Entry \in S, Closed(S)
               PROVE  Collected \cup {p} \subseteq S
    BY <1>6, SameFiles DEF Least
  <2>2. Collected \subseteq S
    BY DEF WInv, Least
  <2> QED
    BY <1>1, <2>1, <2>2 DEF Closed
<1> QED
  BY <1>7, <1>8, <1>9, <1>10, <1>11, <1>12 DEF WInv

\* The walker returns from a file with nothing left to walk in it.
LEMMA ReturnKeepsInv ==
    ASSUME WInv, WalkReturn
    PROVE  WInv'
<1>1. /\ stage = "walk" /\ stack # <<>> /\ Top.rest = <<>> /\ stack' = Below
      /\ stage' = IF Below = <<>> THEN "walked" ELSE "walk"
      /\ disk' = disk /\ entryId' = entryId
      /\ visited' = visited /\ sources' = sources /\ pathOf' = pathOf
  BY DEF WalkReturn, input
<1>2. stack \in Seq(Frames) /\ Len(stack) \in Nat \ {0}
  BY <1>1 DEF WInv, Typed
<1>3. /\ stack' \in Seq(Frames) /\ Len(stack') = Len(stack) - 1
      /\ \A i \in 1..(Len(stack) - 1) : stack'[i] = stack[i]
  BY <1>1, <1>2, WithoutLast DEF Below
<1>4. Typed' /\ Unambiguous' /\ Collected' = Collected /\ (stage' # "walk" => stack' = <<>>)
  BY <1>1, <1>3, SameFiles DEF WInv, Typed, Collected
<1>5. Found'
  BY <1>1, <1>4, SameFiles DEF WInv, Found
<1>6. Stacked'
  <2> SUFFICES ASSUME NEW i \in 1..Len(stack')
               PROVE  /\ stack'[i].id \in visited
                      /\ stack'[i].file = pathOf[stack'[i].id]
                      /\ \A k \in 1..Len(stack'[i].rest) : stack'[i].rest[k] \in ImportedBy(stack'[i].file)
    BY <1>1, SameFiles DEF Stacked
  <2>1. i \in 1..Len(stack) /\ stack'[i] = stack[i]
    BY <1>2, <1>3
  <2> QED
    BY <2>1 DEF WInv, Stacked
<1>7. \A a, q : Owed(a, q) => Owed(a, q)'
  <2> SUFFICES ASSUME NEW a, NEW q, Owed(a, q) PROVE Owed(a, q)'
    OBVIOUS
  <2>0. PICK i \in 1..Len(stack) :
          /\ stack[i].file = a
          /\ \E k \in 1..Len(stack[i].rest) :
                Surface[stack[i].rest[k]] = "ifml" /\ Join[a][stack[i].rest[k]] = q
    BY DEF Owed, OwedBy
  <2>1. i # Len(stack)
    BY <1>1, <2>0 DEF Top
  <2>2. i \in 1..Len(stack') /\ stack'[i] = stack[i]
    BY <1>2, <1>3, <2>1
  <2> QED
    BY <2>0, <2>2 DEF Owed, OwedBy
<1>8. Complete'
  BY <1>1, <1>4, <1>7, SameFiles DEF WInv, Complete
<1>9. Least'
  BY <1>1, <1>4, SameFiles DEF WInv, Least
<1> QED
  BY <1>4, <1>5, <1>6, <1>8, <1>9 DEF WInv

\* Nothing outside the walk touches what it has gathered, nor resumes it.
LEMMA OtherKeepsInv ==
    ASSUME WInv, UNCHANGED <<input, walkVars>>, stage' = "walk" \/ stage # "walk"
    PROVE  WInv'
<1>1. /\ disk' = disk /\ entryId' = entryId /\ stack' = stack
      /\ visited' = visited /\ sources' = sources /\ pathOf' = pathOf
  BY DEF input, walkVars
<1>2. Typed' /\ Unambiguous' /\ Collected' = Collected
  BY <1>1, SameFiles DEF WInv, Typed, Collected
<1>3. stage' # "walk" => stack' = <<>>
  BY <1>1 DEF WInv
<1>4. Found' /\ Stacked'
  BY <1>1, <1>2, SameFiles DEF WInv, Found, Stacked
<1>5. \A a, q : Owed(a, q)' <=> Owed(a, q)
  BY <1>1 DEF Owed
<1>6. Complete' /\ Least'
  BY <1>1, <1>2, <1>5, SameFiles DEF WInv, Complete, Least
<1> QED
  BY <1>2, <1>3, <1>4, <1>6 DEF WInv

\* A fetch that maps the string it was asked for to the file it found.
LEMMA OneRecorded ==
    ASSUME WInv, NEW written, NEW p, AtImport(written, p),
           pathOf' = [pathOf EXCEPT ![written] = p]
    PROVE  Recorded /\ pathOf'[written] = p
<1>1. written \in Ids /\ p \in Paths /\ Denotes(written, p)
  BY AtTop DEF Ids
<1> QED
  BY <1>1 DEF WInv, Typed, Recorded

\* A fetched policy maps the strings of its own imports too, each to the file
\* next to the policy.
LEMMA NestedRecorded ==
    ASSUME WInv, NEW written, NEW p, AtImport(written, p), Exists(p),
           NEW found, found \subseteq ImportedBy(p),
           pathOf' = [id \in Ids |-> IF id \in found THEN Join[p][id]
                                    ELSE IF id = written THEN p ELSE pathOf[id]]
    PROVE  Recorded
<1>1. p \in Paths /\ Denotes(written, p)
  BY AtTop
<1>2. \A id \in found : Join[p][id] \in Paths /\ Denotes(id, Join[p][id])
  <2>1. \A id \in found : id \in Written /\ id \in Mentions(p)
    BY <1>1, ContentOfFiles DEF WInv
  <2> QED
    BY <1>1, <2>1, ImportAssumption DEF Denotes
<1>3. pathOf \in [Ids -> Paths \cup {Missing}]
  BY DEF WInv, Typed
<1> QED
  BY <1>1, <1>2, <1>3 DEF Recorded

LEMMA FetchKeepsInv ==
    ASSUME WInv, NEW written \in Written, NEW p \in Paths,
           \/ FetchMisses(written, p) \/ FetchIfml(written, p) \/ FetchDomain(written, p)
           \/ FetchActor(written, p) \/ FetchOther(written, p)
    PROVE  WInv'
<1>1. CASE FetchMisses(written, p)
  <2>1. /\ AtImport(written, p) /\ ~Exists(p) /\ stack' = Advanced
        /\ UNCHANGED <<disk, entryId, stage, visited, sources>> /\ pathOf' = pathOf
    BY <1>1 DEF FetchMisses, input
  <2>2. Recorded
    BY <2>1 DEF Recorded, WInv, Typed
  <2> QED
    BY <2>1, <2>2, ConsumeKeepsInv
<1>2. CASE FetchIfml(written, p)
  <2>1. /\ AtImport(written, p) /\ Exists(p) /\ Surface[written] = "ifml"
        /\ pathOf' = [pathOf EXCEPT ![written] = p]
        /\ UNCHANGED <<disk, entryId, stage>>
    BY <1>2 DEF FetchIfml, input
  <2>2. Recorded /\ pathOf'[written] = p
    BY <2>1, OneRecorded
  <2>3. CASE written \in visited
    <3>1. stack' = Advanced /\ UNCHANGED <<visited, sources>>
      BY <1>2, <2>3 DEF FetchIfml
    <3>2. p \in Collected
      <4>1. pathOf[written] \in Collected /\ Denotes(written, pathOf[written]) /\ Unambiguous
        BY <2>3 DEF WInv, Found
      <4>2. Denotes(written, p)
        BY <2>1, AtTop
      <4> QED
        BY <4>1, <4>2, OneMeaning
    <3> QED
      BY <2>1, <2>2, <3>1, <3>2, ConsumeKeepsInv
  <2>4. CASE written \notin visited
    <3>1. /\ stack' = Append(Advanced, Frame(written, p))
          /\ visited' = visited \cup {written}
          /\ sources' = Append(sources, <<written, p>>)
      BY <1>2, <2>4 DEF FetchIfml
    <3> QED
      BY <2>1, <2>2, <3>1, PushKeepsInv
  <2> QED
    BY <2>3, <2>4
<1>3. CASE FetchDomain(written, p) \/ FetchOther(written, p)
  <2>1. /\ AtImport(written, p) /\ Surface[written] # "ifml" /\ stack' = Advanced
        /\ pathOf' = [pathOf EXCEPT ![written] = p]
        /\ UNCHANGED <<disk, entryId, stage, visited, sources>>
    BY <1>3 DEF FetchDomain, FetchOther, input
  <2>2. Recorded
    BY <2>1, OneRecorded
  <2> QED
    BY <2>1, <2>2, ConsumeKeepsInv
<1>4. CASE FetchActor(written, p)
  <2>1. /\ AtImport(written, p) /\ Exists(p) /\ Surface[written] # "ifml" /\ stack' = Advanced
        /\ UNCHANGED <<disk, entryId, stage, visited, sources>>
    BY <1>4 DEF FetchActor, input
  <2>2. Recorded
    <3>1. CASE In(p, actors)
      <4>1. pathOf' = [pathOf EXCEPT ![written] = p]
        BY <1>4, <3>1 DEF FetchActor
      <4> QED
        BY <2>1, <4>1, OneRecorded
    <3>2. CASE ~In(p, actors)
      <4> DEFINE found == {w \in ImportedBy(p) : Exists(Join[p][w])}
      <4>1. pathOf' = [id \in Ids |-> IF id \in found THEN Join[p][id]
                                      ELSE IF id = written THEN p ELSE pathOf[id]]
        BY <1>4, <3>2 DEF FetchActor, ImportedBy
      <4>2. found \subseteq ImportedBy(p)
        OBVIOUS
      <4> HIDE DEF found
      <4> QED
        BY <2>1, <4>1, <4>2, NestedRecorded
    <3> QED
      BY <3>1, <3>2
  <2> QED
    BY <2>1, <2>2, ConsumeKeepsInv
<1> QED
  BY <1>1, <1>2, <1>3, <1>4

-----------------------------------------------------------------------------
(* The specification. *)

LEMMA InitHasInv ==
    ASSUME OneFilePerName, CInit
    PROVE  WInv
<1>1. /\ disk \in Projects /\ entryId \in EntryIds /\ Unambiguous /\ stage = "walk"
      /\ stack = <<Frame(entryId, Entry)>> /\ visited = {entryId}
      /\ sources = <<<<entryId, Entry>>>>
      /\ pathOf = [id \in Ids |-> IF id = entryId THEN Entry ELSE Missing]
  BY DEF CInit, RInit, Init
<1>2. Entry \in Paths /\ Exists(Entry) /\ entryId \in Ids
  BY <1>1, ImportAssumption DEF Exists, Ids
<1>3. ImportsAt(Entry) \in Seq(Written)
  <2>1. disk[Entry] \in Content
    BY <1>1, <1>2, ImportAssumption DEF Exists
  <2> QED
    BY <2>1 DEF Content, ImportsAt
<1>4. Frame(entryId, Entry) \in Frames
  BY <1>2, <1>3 DEF Frame, Frames
<1>5. /\ stack \in Seq(Frames) /\ Len(stack) = 1 /\ stack[1] = Frame(entryId, Entry)
      /\ sources \in Seq(Ids \X Paths) /\ Collected = {Entry}
  <2>1. sources \in Seq(Ids \X Paths) /\ Len(sources) = 1 /\ sources[1] = <<entryId, Entry>>
    BY <1>1, <1>2
  <2> QED
    BY <1>1, <1>4, <2>1 DEF Collected
<1>6. Typed
  BY <1>1, <1>2, <1>5 DEF Typed
<1>7. Found
  BY <1>1, <1>2, <1>5 DEF Found, Denotes
<1>8. Stacked
  BY <1>1, <1>2, <1>5 DEF Stacked, Frame, ImportedBy
<1>9. Complete
  <2>1. ASSUME NEW q \in Imports(Entry) PROVE Owed(Entry, q)
    <3>1. PICK k \in 1..Len(ImportsAt(Entry)) :
            Surface[ImportsAt(Entry)[k]] = "ifml" /\ q = Join[Entry][ImportsAt(Entry)[k]]
      BY <1>2, <2>1, ImportsByString DEF ImportedBy
    <3>2. 1 \in 1..Len(stack) /\ stack[1].file = Entry /\ stack[1].rest = ImportsAt(Entry)
      BY <1>5 DEF Frame
    <3> QED
      BY <3>1, <3>2 DEF Owed, OwedBy
  <2> QED
    BY <1>2, <1>5, <2>1 DEF Complete
<1>10. Least
  BY <1>5 DEF Least
<1> QED
  BY <1>1, <1>6, <1>7, <1>8, <1>9, <1>10 DEF WInv

LEMMA NextKeepsInv ==
    ASSUME WInv, [CNext]_compilationVars
    PROVE  WInv'
<1>1. CASE WalkNext
  BY <1>1, FetchKeepsInv, ReturnKeepsInv DEF WalkNext
<1>2. CASE \/ Finished \/ StartResolve \/ ResolveReturn
           \/ \E w \in Written : \/ PassThrough(w) \/ Circular(w) \/ SkipVisited(w) \/ NotProvided(w)
                                 \/ ParseError(w) \/ Absorb(w)
  <2>1. UNCHANGED <<input, walkVars>> /\ stage # "walk"
    BY <1>2 DEF Finished, allVars, StartResolve, ResolveReturn, PassThrough, Circular, SkipVisited, NotProvided,
                ParseError, Absorb, AtStatement, AtLookup, NeedsText
  <2> QED
    BY <2>1, OtherKeepsInv
<1>3. CASE StartTable
  <2>1. UNCHANGED <<input, walkVars>> /\ stage # "walk"
    BY <1>3 DEF StartTable
  <2> QED
    BY <2>1, OtherKeepsInv
<1>4. CASE TableNext \/ UNCHANGED compilationVars
  <2>1. UNCHANGED <<input, walkVars, stage>>
    BY <1>4 DEF TableNext, compilationVars, allVars, Duplicate, DeclareLocal, Shadowed,
                BecomeAmbiguous, Claim, NextFile, SkipAmbiguous, Unknown, Resolve, Step, NextUse, NextUsesFile
  <2> QED
    BY <2>1, OtherKeepsInv
<1> QED
  BY <1>1, <1>2, <1>3, <1>4 DEF CNext, RNext

LEMMA WalkInvariant ==
    ASSUME OneFilePerName
    PROVE  CSpec => []WInv
<1>1. CInit => WInv
  BY InitHasInv
<1>2. WInv /\ [CNext]_compilationVars => WInv'
  BY NextKeepsInv
<1> QED
  BY <1>1, <1>2, PTL DEF CSpec

\* In every workspace where an import string means one file, the host has, for
\* each file on the walker's stack, the path that its text came from: whatever
\* is fetched for other files meanwhile, the next import is looked up next to
\* the file that declares it.
THEOREM ImportsResolveNextToImporter ==
    ASSUME OneFilePerName
    PROVE  CSpec => []ResolvesNextToImporter
<1>1. WInv => ResolvesNextToImporter
  BY DEF WInv, Stacked, ResolvesNextToImporter
<1> QED
  BY <1>1, WalkInvariant, PTL

\* In every such workspace the walk, when it is over, has collected exactly the
\* .ifml files that the entry file reaches, cycles, diamonds, missing files and
\* files that do not parse notwithstanding.
THEOREM WalkCollectsReachable ==
    ASSUME OneFilePerName
    PROVE  CSpec => []WalkIsReachability
<1>1. WInv => WalkIsReachability
  <2> SUFFICES ASSUME WInv, stage = "walked"
               PROVE  /\ Entry \in Collected /\ Closed(Collected)
                      /\ \A S \in SUBSET Collected : Entry \in S /\ Closed(S) => S = Collected
    BY DEF WalkIsReachability
  <2>1. stack = <<>>
    BY DEF WInv
  <2>2. Entry \in Collected /\ Closed(Collected)
    BY <2>1 DEF WInv, Complete, Closed, Owed, OwedBy
  <2>3. Collected \subseteq Paths
    BY CollectedArePaths DEF WInv
  <2> QED
    BY <2>2, <2>3 DEF WInv, Least
<1> QED
  BY <1>1, WalkInvariant, PTL

-----------------------------------------------------------------------------
(* What the walk hands on. *)

\* The imports rest are the last of the list.
IsLeft(rest, list) ==
    /\ Len(rest) <= Len(list)
    /\ \A k \in 1..Len(rest) : rest[k] = list[Len(list) - Len(rest) + k]

\* How many imports of its file a frame has done with.
Consumed(frame) == Len(ImportsAt(frame.file)) - Len(frame.rest)

Known(n, id) == \E j \in 1..n : sources[j][1] = id
Walked(id, p) == \E j \in 1..Len(sources) : sources[j] = <<id, p>>

\* Each identity was walked once, the entry first.
Listed ==
    /\ Len(sources) >= 1 /\ sources[1] = <<entryId, Entry>>
    /\ \A i, j \in 1..Len(sources) : sources[i][1] = sources[j][1] => i = j
    /\ \A j \in 1..Len(sources) :
          /\ sources[j][1] \in visited /\ sources[j][2] \in Paths
          /\ Denotes(sources[j][1], sources[j][2]) /\ Exists(sources[j][2])
    /\ \A id \in visited : Known(Len(sources), id)

\* The walker is within different files of the project, the first is the entry.
Framed ==
    /\ \A i \in 1..Len(stack) :
          /\ Walked(stack[i].id, stack[i].file)
          /\ IsLeft(stack[i].rest, ImportsAt(stack[i].file))
          /\ \A h \in 1..Len(stack) : stack[h].id = stack[i].id => h = i
    /\ stack # <<>> => stack[1].id = entryId

\* The steps of a compilation, as the walk sees them.
Consumes(written, p) ==
    /\ AtImport(written, p)
    /\ stack' = Advanced
    /\ UNCHANGED <<disk, entryId, stage, visited, sources>>
    /\ Surface[written] = "ifml" /\ Exists(p) => written \in visited

Pushes(written, p) ==
    /\ AtImport(written, p)
    /\ Surface[written] = "ifml" /\ Exists(p) /\ written \notin visited
    /\ stack' = Append(Advanced, Frame(written, p))
    /\ visited' = visited \cup {written}
    /\ sources' = Append(sources, <<written, p>>)
    /\ UNCHANGED <<disk, entryId, stage>>

Returns ==
    /\ stage = "walk" /\ stack # <<>>
    /\ Top.rest = <<>>
    /\ stack' = Below
    /\ UNCHANGED <<disk, entryId, visited, sources>>

Stays == UNCHANGED <<disk, entryId, stack, visited, sources>>

LEMMA StepsOfWalk ==
    ASSUME WInv, [CNext]_compilationVars
    PROVE  \/ \E written \in Written, p \in Paths : Consumes(written, p) \/ Pushes(written, p)
           \/ Returns \/ Stays
<1>1. CASE WalkNext
  <2>1. ASSUME NEW written \in Written, NEW p \in Paths,
               \/ FetchMisses(written, p) \/ FetchDomain(written, p)
               \/ FetchActor(written, p) \/ FetchOther(written, p)
        PROVE  Consumes(written, p)
    BY <2>1 DEF Consumes, FetchMisses, FetchDomain, FetchActor, FetchOther, input
  <2>2. ASSUME NEW written \in Written, NEW p \in Paths, FetchIfml(written, p)
        PROVE  Consumes(written, p) \/ Pushes(written, p)
    BY <2>2 DEF Consumes, Pushes, FetchIfml, input
  <2>3. WalkReturn => Returns
    BY DEF WalkReturn, Returns, input
  <2> QED
    BY <1>1, <2>1, <2>2, <2>3 DEF WalkNext
<1>2. CASE \/ Finished \/ StartResolve \/ ResolveReturn
           \/ \E w \in Written : \/ PassThrough(w) \/ Circular(w) \/ SkipVisited(w) \/ NotProvided(w)
                                 \/ ParseError(w) \/ Absorb(w)
  BY <1>2 DEF Stays, walkVars, input, Finished, allVars, StartResolve, ResolveReturn, PassThrough,
              Circular, SkipVisited, NotProvided, ParseError, Absorb
<1>3. CASE StartTable \/ TableNext \/ UNCHANGED compilationVars
  BY <1>3 DEF Stays, walkVars, input, StartTable, TableNext, compilationVars, allVars, Duplicate, DeclareLocal,
              Shadowed, BecomeAmbiguous, Claim, NextFile, SkipAmbiguous, Unknown, Resolve, Step, NextUse,
              NextUsesFile
<1> QED
  BY <1>1, <1>2, <1>3 DEF CNext, RNext

\* An import leaves the list that is left from the front.
LEMMA LeftAdvances ==
    ASSUME NEW list \in Seq(Written), NEW rest \in Seq(Written), rest # <<>>, IsLeft(rest, list)
    PROVE  /\ IsLeft(Tail(rest), list) /\ Len(Tail(rest)) = Len(rest) - 1
           /\ Head(rest) = list[Len(list) - Len(rest) + 1]
           /\ Len(list) - Len(rest) + 1 \in 1..Len(list)
<1>1. Len(rest) \in Nat \ {0} /\ Len(list) \in Nat /\ Len(rest) <= Len(list)
  BY DEF IsLeft
<1>2. Head(rest) = rest[1] /\ rest[1] = list[Len(list) - Len(rest) + 1]
  BY <1>1, HeadAndTail DEF IsLeft
<1>3. Len(Tail(rest)) = Len(rest) - 1
  BY <1>1
<1>4. ASSUME NEW k \in 1..Len(Tail(rest))
      PROVE  Tail(rest)[k] = list[Len(list) - Len(Tail(rest)) + k]
  <2>1. Tail(rest)[k] = rest[k + 1] /\ k + 1 \in 1..Len(rest)
    BY HeadAndTail
  <2>2. rest[k + 1] = list[Len(list) - Len(rest) + (k + 1)]
    BY <2>1 DEF IsLeft
  <2>3. Len(list) - Len(rest) + (k + 1) = Len(list) - Len(Tail(rest)) + k
    BY <1>1, <1>3
  <2> QED
    BY <2>1, <2>2, <2>3
<1> QED
  BY <1>1, <1>2, <1>3, <1>4 DEF IsLeft

\* The import in hand, by its place in the top file.
LEMMA InHand ==
    ASSUME WInv, Framed, NEW written, NEW p, AtImport(written, p)
    PROVE  /\ ImportsAt(Top.file) \in Seq(Written)
           /\ Consumed(Top) \in Nat
           /\ Consumed(Top) + 1 \in 1..Len(ImportsAt(Top.file))
           /\ written = ImportsAt(Top.file)[Consumed(Top) + 1]
           /\ Consumed(Advanced[Len(stack)]) = Consumed(Top) + 1
           /\ IsLeft(Advanced[Len(stack)].rest, ImportsAt(Top.file))
           /\ Advanced[Len(stack)].id = Top.id /\ Advanced[Len(stack)].file = Top.file
<1>1. /\ Top \in Frames /\ Top.rest # <<>> /\ written = Head(Top.rest) /\ Top.file \in Paths /\ Exists(Top.file)
      /\ stack # <<>>
  BY AtTop
<1>2. /\ Len(stack) \in Nat \ {0}
      /\ Advanced[Len(stack)] = [id |-> Top.id, file |-> Top.file, rest |-> Tail(Top.rest)]
  BY <1>1, AdvancedFrames DEF WInv, Typed
<1>3. ImportsAt(Top.file) \in Seq(Written) /\ Top.rest \in Seq(Written)
  BY <1>1, ContentOfFiles DEF WInv, Frames
<1>4. IsLeft(Top.rest, ImportsAt(Top.file))
  BY <1>2 DEF Framed, Top
<1> DEFINE list == ImportsAt(Top.file)
           rest == Top.rest
<1>5. /\ IsLeft(Tail(rest), list) /\ Len(Tail(rest)) = Len(rest) - 1
      /\ Head(rest) = list[Len(list) - Len(rest) + 1]
      /\ Len(list) - Len(rest) + 1 \in 1..Len(list)
  <2> HIDE DEF list, rest
  <2>1. list \in Seq(Written) /\ rest \in Seq(Written) /\ rest # <<>> /\ IsLeft(rest, list)
    BY <1>1, <1>3, <1>4 DEF list, rest
  <2> QED
    BY <2>1, LeftAdvances
<1>6. Len(list) \in Nat /\ Len(rest) \in Nat
  BY <1>3
<1>7. Advanced[Len(stack)].file = Top.file /\ Advanced[Len(stack)].id = Top.id /\ Advanced[Len(stack)].rest = Tail(Top.rest)
  BY <1>2
<1>8. Consumed(Top) = Len(list) - Len(rest) /\ Consumed(Advanced[Len(stack)]) = Len(list) - Len(Tail(rest))
  BY <1>7 DEF Consumed
<1> HIDE DEF list, rest
<1>9. Consumed(Top) \in Nat /\ Consumed(Advanced[Len(stack)]) = Consumed(Top) + 1
  <2> DEFINE m == Len(list)
             n == Len(rest)
             t == Len(Tail(rest))
  <2>1. m \in Nat /\ n \in Nat /\ t = n - 1 /\ m - n + 1 \in 1..m
    BY <1>5, <1>6
  <2>2. Consumed(Top) = m - n /\ Consumed(Advanced[Len(stack)]) = m - t
    BY <1>8
  <2> HIDE DEF m, n, t
  <2> QED
    BY <2>1, <2>2
<1>10. written = list[Consumed(Top) + 1] /\ Consumed(Top) + 1 \in 1..Len(list)
  BY <1>1, <1>5, <1>8 DEF rest
<1> QED
  BY <1>3, <1>5, <1>7, <1>9, <1>10 DEF list, rest

\* A step that is within an import goes on from the same files.
LEMMA SameLists ==
    ASSUME disk' = disk
    PROVE  /\ \A p : (Exists(p)' <=> Exists(p)) /\ ImportsAt(p)' = ImportsAt(p)
           /\ \A frame : Consumed(frame)' = Consumed(frame)
<1>1. \A p : (Exists(p)' <=> Exists(p)) /\ ImportsAt(p)' = ImportsAt(p)
  BY DEF Exists, ImportsAt
<1> QED
  BY <1>1 DEF Consumed

LEMMA SourcesExtended ==
    ASSUME WInv, NEW written, NEW p, Pushes(written, p)
    PROVE  /\ Len(sources) \in Nat /\ Len(sources') = Len(sources) + 1
           /\ \A j \in 1..Len(sources) : j \in 1..Len(sources') /\ sources'[j] = sources[j]
           /\ Len(sources) + 1 \in 1..Len(sources')
           /\ sources'[Len(sources) + 1] = <<written, p>>
           /\ \A j \in 1..Len(sources') : j # Len(sources) + 1 => j \in 1..Len(sources)
<1>1. sources \in Seq(Ids \X Paths) /\ sources' = Append(sources, <<written, p>>)
  BY DEF WInv, Typed, Pushes
<1>2. /\ Len(sources) \in Nat /\ Len(sources') = Len(sources) + 1
      /\ \A j \in 1..Len(sources) : sources'[j] = sources[j]
      /\ sources'[Len(sources) + 1] = <<written, p>>
  BY <1>1
<1> QED
  BY <1>2

\* The stack after a step into a file.
LEMMA StackPushed ==
    ASSUME WInv, NEW written, NEW p, Pushes(written, p)
    PROVE  /\ Len(stack) \in Nat \ {0} /\ Len(stack') = Len(stack) + 1
           /\ \A i \in 1..Len(stack) : stack'[i] = Advanced[i]
           /\ \A i \in 1..Len(stack) - 1 : stack'[i] = stack[i]
           /\ stack'[Len(stack) + 1] = Frame(written, p)
<1>1. AtImport(written, p) /\ stack' = Append(Advanced, Frame(written, p))
  BY DEF Pushes
<1>2. stack # <<>> /\ Top.rest # <<>>
  BY <1>1, AtTop
<1>3. /\ Len(stack) \in Nat \ {0} /\ Advanced \in Seq(Frames) /\ Len(Advanced) = Len(stack)
      /\ \A i \in 1..(Len(stack) - 1) : Advanced[i] = stack[i]
  BY <1>2, AdvancedFrames DEF WInv, Typed
<1>4. /\ Len(stack') = Len(Advanced) + 1
      /\ \A i \in 1..Len(Advanced) : stack'[i] = Advanced[i]
      /\ stack'[Len(Advanced) + 1] = Frame(written, p)
  BY <1>1, <1>3
<1> QED
  BY <1>3, <1>4

\* The frames left when the import in hand is consumed are those of before.
LEMMA AdvancedFramed ==
    ASSUME WInv, Framed, NEW written, NEW p, AtImport(written, p), NEW i \in 1..Len(stack)
    PROVE  /\ Walked(Advanced[i].id, Advanced[i].file)
           /\ IsLeft(Advanced[i].rest, ImportsAt(Advanced[i].file))
           /\ Advanced[i].id = stack[i].id /\ Advanced[i].file = stack[i].file
<1>1. stack # <<>> /\ Top.rest # <<>>
  BY AtTop
<1>2. /\ Len(stack) \in Nat \ {0}
      /\ \A j \in 1..(Len(stack) - 1) : Advanced[j] = stack[j]
  BY <1>1, AdvancedFrames DEF WInv, Typed
<1>3. CASE i # Len(stack)
  <2>1. Advanced[i] = stack[i]
    BY <1>2, <1>3
  <2> QED
    BY <2>1 DEF Framed
<1>4. CASE i = Len(stack)
  <2>1. stack[i] = Top
    BY <1>4 DEF Top
  <2> QED
    BY <1>4, <2>1, InHand DEF Framed
<1> QED
  BY <1>3, <1>4

LEMMA ConsumesKeepsPlaces ==
    ASSUME WInv, Listed, Framed, NEW written, NEW p, Consumes(written, p)
    PROVE  Listed' /\ Framed'
<1>1. /\ AtImport(written, p) /\ stack' = Advanced /\ disk' = disk /\ entryId' = entryId
      /\ visited' = visited /\ sources' = sources
  BY DEF Consumes
<1>2. Listed'
  BY <1>1, SameFiles DEF Listed, Known
<1>3. /\ Len(stack') = Len(stack) /\ Len(stack) \in Nat \ {0}
  BY <1>1, AtTop, AdvancedFrames DEF WInv, Typed
<1>4. \A i \in 1..Len(stack') : /\ Walked(stack[i].id, stack[i].file)'
                                /\ IsLeft(stack'[i].rest, ImportsAt(stack'[i].file))
                                /\ stack'[i].id = stack[i].id
  BY <1>1, <1>3, AdvancedFramed, SameLists DEF Walked
<1>5. stack'[1].id = entryId
  BY <1>3, <1>4 DEF Framed
<1> QED
  BY <1>1, <1>2, <1>3, <1>4, <1>5, SameLists DEF Framed

LEMMA PushesKeepsPlaces ==
    ASSUME WInv, Listed, Framed, NEW written, NEW p, Pushes(written, p)
    PROVE  Listed' /\ Framed'
<1>1. /\ AtImport(written, p) /\ disk' = disk /\ entryId' = entryId
      /\ Exists(p) /\ written \notin visited /\ visited' = visited \cup {written}
  BY DEF Pushes
<1>2. /\ Len(sources) \in Nat /\ Len(sources') = Len(sources) + 1
      /\ \A j \in 1..Len(sources) : j \in 1..Len(sources') /\ sources'[j] = sources[j]
      /\ Len(sources) + 1 \in 1..Len(sources')
      /\ sources'[Len(sources) + 1] = <<written, p>>
      /\ \A j \in 1..Len(sources') : j # Len(sources) + 1 => j \in 1..Len(sources)
  BY SourcesExtended
<1>3. /\ Len(stack) \in Nat \ {0} /\ Len(stack') = Len(stack) + 1
      /\ \A i \in 1..Len(stack) : stack'[i] = Advanced[i]
      /\ stack'[Len(stack) + 1] = Frame(written, p)
  BY StackPushed
<1>4. p \in Paths /\ Denotes(written, p)
  BY <1>1, AtTop
<1>5. Listed'
  <2>1. Len(sources') >= 1 /\ sources'[1] = <<entryId, Entry>>
    BY <1>2 DEF Listed
  <2>2. ASSUME NEW j \in 1..Len(sources')
        PROVE  /\ sources'[j][1] \in visited' /\ sources'[j][2] \in Paths
               /\ Denotes(sources'[j][1], sources'[j][2]) /\ Exists(sources'[j][2])
               /\ j # Len(sources) + 1 => sources'[j][1] # written
    BY <1>1, <1>2, <1>4 DEF Listed
  <2>3. \A i, j \in 1..Len(sources') : sources'[i][1] = sources'[j][1] => i = j
    BY <1>2, <2>2 DEF Listed
  <2>4. \A id \in visited' : Known(Len(sources), id)'
    <3>1. ASSUME NEW id \in visited PROVE \E j \in 1..Len(sources') : sources'[j][1] = id
      BY <1>2 DEF Listed, Known
    <3>2. \E j \in 1..Len(sources') : sources'[j][1] = written
      BY <1>2
    <3> QED
      BY <1>1, <3>1, <3>2 DEF Known
  <2> QED
    BY <1>1, <2>1, <2>2, <2>3, <2>4, SameFiles DEF Listed
<1>6. \A id, q : Walked(id, q) => Walked(id, q)'
  BY <1>2 DEF Walked
<1>7. ASSUME NEW i \in 1..Len(stack')
      PROVE  /\ Walked(stack[i].id, stack[i].file)'
             /\ IsLeft(stack'[i].rest, ImportsAt(stack'[i].file))
             /\ i \in 1..Len(stack) => stack'[i].id = stack[i].id /\ stack[i].id \in visited
             /\ i \notin 1..Len(stack) => stack'[i].id = written /\ i = Len(stack')
  <2>1. CASE i \in 1..Len(stack)
    <3>1. /\ Walked(Advanced[i].id, Advanced[i].file) /\ IsLeft(Advanced[i].rest, ImportsAt(Advanced[i].file))
          /\ Advanced[i].id = stack[i].id /\ stack'[i] = Advanced[i]
      BY <1>1, <1>3, <2>1, AdvancedFramed
    <3>2. stack[i].id \in visited
      BY <2>1 DEF WInv, Stacked
    <3> QED
      BY <1>1, <1>6, <2>1, <3>1, <3>2, SameLists
  <2>2. CASE i \notin 1..Len(stack)
    <3>1. i = Len(stack) + 1 /\ stack'[i] = Frame(written, p)
      BY <1>3, <2>2
    <3>2. stack'[i].id = written /\ stack'[i].file = p /\ stack'[i].rest = ImportsAt(p)
      BY <3>1 DEF Frame
    <3>3. Walked(written, p)'
      BY <1>2 DEF Walked
    <3>4. IsLeft(ImportsAt(p), ImportsAt(p))
      <4>1. ImportsAt(p) \in Seq(Written)
        BY <1>1, <1>4, ContentOfFiles DEF WInv
      <4> QED
        BY <4>1 DEF IsLeft
    <3> QED
      BY <1>1, <1>3, <2>2, <3>1, <3>2, <3>3, <3>4, SameLists
  <2> QED
    BY <2>1, <2>2
<1>8. stack'[1].id = entryId
  BY <1>3, <1>7 DEF Framed
<1>9. \A i, h \in 1..Len(stack') : stack'[h].id = stack'[i].id => h = i
  BY <1>1, <1>3, <1>7 DEF Framed
<1> QED
  BY <1>1, <1>5, <1>7, <1>8, <1>9, SameLists DEF Framed

LEMMA StackReturned ==
    ASSUME WInv, Returns
    PROVE  /\ Len(stack) \in Nat \ {0} /\ Len(stack') = Len(stack) - 1
           /\ \A i \in 1..Len(stack') : i \in 1..Len(stack) /\ i # Len(stack) /\ stack'[i] = stack[i]
<1>1. stack \in Seq(Frames) /\ stack # <<>> /\ stack' = Below
  BY DEF WInv, Typed, Returns
<1>2. /\ Len(stack) \in Nat \ {0} /\ Len(stack') = Len(stack) - 1
      /\ \A i \in 1..(Len(stack) - 1) : stack'[i] = stack[i]
  BY <1>1, WithoutLast DEF Below
<1> QED
  BY <1>2

LEMMA ReturnsKeepsPlaces ==
    ASSUME WInv, Listed, Framed, Returns
    PROVE  Listed' /\ Framed'
<1>1. /\ disk' = disk /\ entryId' = entryId /\ visited' = visited /\ sources' = sources
      /\ stack # <<>>
  BY DEF Returns
<1>2. Listed'
  BY <1>1, SameFiles DEF Listed, Known
<1>3. /\ Len(stack) \in Nat \ {0} /\ Len(stack') = Len(stack) - 1
      /\ \A i \in 1..Len(stack') : i \in 1..Len(stack) /\ i # Len(stack) /\ stack'[i] = stack[i]
  BY StackReturned
<1>4. stack' # <<>> => stack'[1].id = entryId
  <2>1. stack' \in Seq(Frames)
    BY WithoutLast DEF Returns, WInv, Typed, Below
  <2>2. stack' # <<>> => 1 \in 1..Len(stack')
    BY <2>1
  <2> QED
    BY <1>1, <1>3, <2>2 DEF Framed
<1>5. \A i \in 1..Len(stack') :
        /\ Walked(stack[i].id, stack[i].file)'
        /\ IsLeft(stack'[i].rest, ImportsAt(stack'[i].file))
        /\ \A h \in 1..Len(stack') : stack'[h].id = stack'[i].id => h = i
  BY <1>1, <1>3, SameLists DEF Framed, Walked
<1> QED
  BY <1>1, <1>2, <1>4, <1>5, SameLists DEF Framed

LEMMA StaysKeepsPlaces ==
    ASSUME Listed, Framed, Stays
    PROVE  Listed' /\ Framed'
<1>1. /\ disk' = disk /\ entryId' = entryId /\ visited' = visited /\ sources' = sources
      /\ stack' = stack
  BY DEF Stays
<1>2. Listed'
  BY <1>1, SameFiles DEF Listed, Known
<1>3. \A id, q : Walked(id, q)' <=> Walked(id, q)
  BY <1>1 DEF Walked
<1>4. Framed'
  BY <1>1, <1>3, SameLists DEF Framed
<1> QED
  BY <1>2, <1>4

-----------------------------------------------------------------------------
(* What the walk has provided. *)

\* The walker is still at an earlier import of the file.
Waits(id, k) == \E i \in 1..Len(stack) : stack[i].id = id /\ k > Consumed(stack[i])

\* A lookup of the import finds the file next to the importer, if there is one,
\* and otherwise the miss is on record.
Provided(id, p, written) ==
    IF Exists(Join[p][written]) THEN <<id, written>> \in DOMAIN bundle
    ELSE <<id, written>> \in unresolved

Bundled ==
    /\ \A id, written : <<id, written>> \in DOMAIN bundle =>
          \E p : /\ Walked(id, p)
                 /\ bundle[<<id, written>>] = Join[p][written]
                 /\ Exists(Join[p][written])
    /\ \A id, p : Walked(id, p) => \A k \in 1..Len(ImportsAt(p)) :
          Surface[ImportsAt(p)[k]] = "ifml" => Provided(id, p, ImportsAt(p)[k]) \/ Waits(id, k)

\* What a step may do to what was provided: add to it.
Adds(id, written, p) ==
    /\ \A key \in DOMAIN bundle : key \in DOMAIN bundle' /\ bundle'[key] = bundle[key]
    /\ \A key \in DOMAIN bundle' : \/ key \in DOMAIN bundle
                                   \/ key = <<id, written>> /\ bundle'[key] = p /\ Exists(p)
    /\ unresolved \subseteq unresolved'
    /\ Surface[written] = "ifml" =>
          IF Exists(p) THEN <<id, written>> \in DOMAIN bundle' ELSE <<id, written>> \in unresolved'

\* The walk provides for what it consumes.
LEMMA FetchAdds ==
    ASSUME WInv, Bundled, Listed, Framed, NEW written \in Written, NEW p \in Paths,
           \/ FetchMisses(written, p) \/ FetchIfml(written, p) \/ FetchDomain(written, p)
           \/ FetchActor(written, p) \/ FetchOther(written, p)
    PROVE  Adds(Top.id, written, p)
<1>1. CASE FetchMisses(written, p)
  BY <1>1 DEF FetchMisses, Adds
<1>2. CASE FetchIfml(written, p)
  <2> DEFINE key == <<Top.id, written>>
  <2>1. /\ AtImport(written, p) /\ Exists(p)
        /\ bundle' = [k \in DOMAIN bundle \cup {key} |-> IF k = key THEN p ELSE bundle[k]]
        /\ unresolved' = unresolved
    BY <1>2 DEF FetchIfml
  <2>2. key \in DOMAIN bundle => bundle[key] = p
    <3>1. ASSUME key \in DOMAIN bundle PROVE bundle[key] = p
      <4>1. PICK q : Walked(Top.id, q) /\ bundle[key] = Join[q][written]
        BY <3>1 DEF Bundled
      <4>2. Top \in Frames /\ Len(stack) \in 1..Len(stack)
        BY <2>1, AtTop, AdvancedFrames DEF WInv, Typed
      <4>3. Walked(Top.id, Top.file)
        BY <4>2 DEF Framed, Top
      <4>4. q = Top.file
        BY <4>1, <4>3 DEF Walked, Listed
      <4> QED
        BY <2>1, <4>1, <4>4, AtTop
    <3> QED
      BY <3>1
  <2>3. /\ DOMAIN bundle' = DOMAIN bundle \cup {key}
        /\ \A k \in DOMAIN bundle' : bundle'[k] = IF k = key THEN p ELSE bundle[k]
    BY <2>1
  <2> QED
    BY <2>1, <2>2, <2>3 DEF Adds
<1>3. CASE FetchDomain(written, p) \/ FetchOther(written, p)
  BY <1>3 DEF FetchDomain, FetchOther, Adds
<1>4. CASE FetchActor(written, p)
  <2>1. bundle' = bundle /\ unresolved \subseteq unresolved' /\ Surface[written] = "actor"
    BY <1>4 DEF FetchActor
  <2> QED
    BY <2>1 DEF Adds
<1> QED
  BY <1>1, <1>2, <1>3, <1>4

\* What is provided stays provided.
LEMMA AddsKeeps ==
    ASSUME disk' = disk, NEW id, NEW written, NEW p, Adds(id, written, p)
    PROVE  \A a, q, w : Provided(a, q, w) => Provided(a, q, w)'
  BY DEF Adds, Provided, Exists

\* Who waits for an import, when the import in hand is consumed.
LEMMA WaitsOn ==
    ASSUME WInv, Framed, disk' = disk, NEW written, NEW p, AtImport(written, p),
           \A i \in 1..Len(stack) : i \in 1..Len(stack') /\ stack'[i] = Advanced[i],
           NEW id, NEW k \in Nat, Waits(id, k)
    PROVE  Waits(id, k)' \/ (id = Top.id /\ k = Consumed(Top) + 1)
<1>1. PICK i \in 1..Len(stack) : stack[i].id = id /\ k > Consumed(stack[i])
  BY DEF Waits
<1>2. /\ stack # <<>> /\ Top.rest # <<>>
      /\ \A j \in 1..(Len(stack) - 1) : Advanced[j] = stack[j]
  BY AtTop, AdvancedFrames DEF WInv, Typed
<1>3. i \in 1..Len(stack') /\ stack'[i] = Advanced[i]
  OBVIOUS
<1>4. CASE i # Len(stack)
  <2>1. stack'[i] = stack[i]
    <3>1. i \in 1..(Len(stack) - 1)
      BY <1>4
    <3> QED
      BY <1>2, <1>3, <3>1
  <2>2. Consumed(stack[i])' = Consumed(stack[i])
    BY <2>1, SameLists DEF Consumed
  <2> QED
    BY <1>1, <1>3, <2>1, <2>2 DEF Waits
<1>5. CASE i = Len(stack)
  <2>1. stack[i] = Top
    BY <1>5 DEF Top
  <2>2. Consumed(Advanced[i]) = Consumed(Top) + 1 /\ Advanced[i].id = Top.id
    BY <1>5, InHand
  <2>3. Consumed(stack[i])' = Consumed(Advanced[i])
    BY <1>3, SameLists DEF Consumed
  <2>4. CASE k > Consumed(Top) + 1
    BY <1>1, <1>3, <2>1, <2>2, <2>3, <2>4 DEF Waits
  <2>5. CASE ~(k > Consumed(Top) + 1)
    <3>1. Consumed(Top) \in Nat
      BY InHand
    <3>2. k > Consumed(Top) /\ id = Top.id
      BY <1>1, <2>1
    <3> QED
      BY <2>5, <3>1, <3>2
  <2> QED
    BY <2>4, <2>5
<1> QED
  BY <1>4, <1>5

LEMMA FetchKeepsBundled ==
    ASSUME WInv, Bundled, Listed, Framed, NEW written \in Written, NEW p \in Paths,
           \/ FetchMisses(written, p) \/ FetchIfml(written, p) \/ FetchDomain(written, p)
           \/ FetchActor(written, p) \/ FetchOther(written, p)
    PROVE  Bundled'
<1>1. Adds(Top.id, written, p)
  BY FetchAdds
<1>2. Consumes(written, p) \/ Pushes(written, p)
  BY DEF Consumes, Pushes, FetchMisses, FetchIfml, FetchDomain, FetchActor, FetchOther, input
<1>3. AtImport(written, p) /\ disk' = disk
  BY <1>2 DEF Consumes, Pushes
<1>4. /\ Top.id \in visited /\ Top.file \in Paths /\ p = Join[Top.file][written]
      /\ stack # <<>> /\ Top.rest # <<>>
  BY <1>3, AtTop
<1>5. \A i \in 1..Len(stack) : i \in 1..Len(stack') /\ stack'[i] = Advanced[i]
  <2>1. CASE Consumes(written, p)
    BY <1>4, <2>1, AdvancedFrames DEF WInv, Typed, Consumes
  <2>2. CASE Pushes(written, p)
    BY <2>2, StackPushed
  <2> QED
    BY <1>2, <2>1, <2>2
<1>6. Walked(Top.id, Top.file)
  <2>1. Len(stack) \in 1..Len(stack)
    BY <1>4, AdvancedFrames DEF WInv, Typed
  <2> QED
    BY <2>1 DEF Framed, Top
<1>7. \A id, q : Walked(id, q) => Walked(id, q)'
  BY <1>2, SourcesExtended DEF Walked, Consumes
<1>8. \A id, q : Walked(id, q)' => Walked(id, q) \/ (Pushes(written, p) /\ id = written /\ q = p)
  <2>1. CASE Consumes(written, p)
    BY <2>1 DEF Consumes, Walked
  <2>2. CASE Pushes(written, p)
    <3> SUFFICES ASSUME NEW id, NEW q, Walked(id, q)', ~Walked(id, q)
                 PROVE  id = written /\ q = p
      BY <2>2
    <3>1. PICK j \in 1..Len(sources') : sources'[j] = <<id, q>>
      BY DEF Walked
    <3>2. j = Len(sources) + 1
      BY <2>2, <3>1, SourcesExtended DEF Walked
    <3> QED
      BY <2>2, <3>1, <3>2, SourcesExtended
  <2> QED
    BY <1>2, <2>1, <2>2
<1>9. ASSUME NEW id, NEW w, <<id, w>> \in DOMAIN bundle'
      PROVE  \E q : /\ Walked(id, q)'
                    /\ bundle'[<<id, w>>] = Join[q][w]
                    /\ Exists(Join[q][w])
  <2>1. CASE <<id, w>> \in DOMAIN bundle
    <3>1. PICK q : Walked(id, q) /\ bundle[<<id, w>>] = Join[q][w] /\ Exists(Join[q][w])
      BY <2>1 DEF Bundled
    <3>2. bundle'[<<id, w>>] = bundle[<<id, w>>]
      BY <1>1, <2>1 DEF Adds
    <3> QED
      BY <1>7, <3>1, <3>2
  <2>2. CASE <<id, w>> \notin DOMAIN bundle
    <3>1. /\ <<id, w>> = <<Top.id, written>> /\ bundle'[<<id, w>>] = p /\ Exists(p)
      BY <1>1, <1>9, <2>2 DEF Adds
    <3>2. id = Top.id /\ w = written
      BY <3>1
    <3> QED
      BY <1>4, <1>6, <1>7, <3>1, <3>2
  <2> QED
    BY <2>1, <2>2
<1>10. ASSUME NEW id, NEW q, Walked(id, q)', NEW k \in 1..Len(ImportsAt(q)),
              NEW w, w = ImportsAt(q)[k], Surface[w] = "ifml"
       PROVE  Provided(id, q, w)' \/ Waits(id, k)'
  <2>1. CASE Walked(id, q)
    <3>1. CASE Provided(id, q, w)
      BY <1>1, <1>3, <3>1, AddsKeeps
    <3>2. CASE Waits(id, k)
      <4>1. CASE Waits(id, k)'
        BY <4>1
      <4>2. CASE id = Top.id /\ k = Consumed(Top) + 1
        <5>1. q = Top.file
          BY <1>6, <2>1, <4>2 DEF Walked, Listed
        <5>2. w = written
          BY <1>3, <1>10, <4>2, <5>1, InHand
        <5>3. Provided(id, q, written)'
          BY <1>1, <1>3, <1>4, <1>10, <4>2, <5>1, <5>2, SameLists DEF Adds, Provided
        <5> QED
          BY <5>2, <5>3
      <4> QED
        BY <1>3, <1>5, <3>2, <4>1, <4>2, WaitsOn
    <3> QED
      BY <1>10, <2>1, <3>1, <3>2 DEF Bundled
  <2>2. CASE Pushes(written, p) /\ id = written /\ q = p
    <3>1. Len(stack) + 1 \in 1..Len(stack') /\ stack'[Len(stack) + 1] = Frame(written, p)
      BY <2>2, StackPushed
    <3>2. stack'[Len(stack) + 1].id = written /\ Consumed(Frame(written, p)) = 0
      <4>1. ImportsAt(p) \in Seq(Written)
        BY <2>2, ContentOfFiles DEF WInv, Pushes
      <4>2. Len(ImportsAt(p)) - Len(ImportsAt(p)) = 0
        BY <4>1
      <4> QED
        BY <3>1, <4>2 DEF Frame, Consumed
    <3> QED
      <4> DEFINE n == Len(stack) + 1
      <4>1. n \in 1..Len(stack') /\ stack'[n].id = id /\ k > 0
        BY <2>2, <3>1, <3>2
      <4>2. Consumed(stack'[n]) = 0
        BY <3>1, <3>2
      <4>3. \A frame : Consumed(frame)' = Consumed(frame)
        BY <1>3, SameLists
      <4> HIDE DEF n
      <4> QED
        BY <4>1, <4>2, <4>3 DEF Waits
  <2> QED
    BY <1>8, <1>10, <2>1, <2>2
<1> QED
  BY <1>3, <1>9, <1>10, SameLists DEF Bundled

LEMMA ReturnKeepsBundled ==
    ASSUME WInv, Bundled, Listed, Framed, WalkReturn
    PROVE  Bundled'
<1>1. /\ Returns /\ bundle' = bundle /\ unresolved' = unresolved /\ disk' = disk /\ sources' = sources
      /\ stack # <<>> /\ Top.rest = <<>>
  BY DEF WalkReturn, Returns, input
<1>2. /\ Len(stack) \in Nat \ {0} /\ Len(stack') = Len(stack) - 1
      /\ \A i \in 1..Len(stack') : i \in 1..Len(stack) /\ i # Len(stack) /\ stack'[i] = stack[i]
  BY <1>1, StackReturned
<1>3. \A id, q : Walked(id, q)' <=> Walked(id, q)
  BY <1>1 DEF Walked
<1>4. \A id, q, w : Provided(id, q, w) => Provided(id, q, w)'
  BY <1>1 DEF Provided, Exists
<1>5. ASSUME NEW id, NEW q, Walked(id, q), NEW k \in 1..Len(ImportsAt(q)), Waits(id, k)
      PROVE  Waits(id, k)'
  <2>1. PICK i \in 1..Len(stack) : stack[i].id = id /\ k > Consumed(stack[i])
    BY <1>5 DEF Waits
  <2>2. CASE i # Len(stack)
    <3>1. i \in 1..Len(stack') /\ stack'[i] = stack[i]
      <4>1. i \in 1..Len(stack')
        BY <1>2, <2>2
      <4> QED
        BY <1>2, <4>1
    <3>2. \A frame : Consumed(frame)' = Consumed(frame)
      BY <1>1, SameLists
    <3> QED
      BY <2>1, <3>1, <3>2 DEF Waits
  <2>3. CASE i = Len(stack)
    <3>1. stack[i] = Top
      BY <2>3 DEF Top
    <3>2. Top.file = q
      <4>1. Walked(id, Top.file)
        BY <2>1, <3>1 DEF Framed
      <4> QED
        BY <1>5, <4>1 DEF Walked, Listed
    <3>3. Consumed(Top) = Len(ImportsAt(q))
      <4>1. q \in Paths /\ Exists(q)
        BY <1>5 DEF Walked, Listed
      <4>2. Len(ImportsAt(q)) \in Nat
        BY <4>1, ContentOfFiles DEF WInv
      <4> QED
        BY <1>1, <3>2, <4>2 DEF Consumed
    <3> QED
      BY <2>1, <3>1, <3>3
  <2> QED
    BY <2>2, <2>3
<1>6. \A id, q : Walked(id, q)' => \A k \in 1..Len(ImportsAt(q)) :
         Surface[ImportsAt(q)[k]] = "ifml" =>
            \A w : w = ImportsAt(q)[k] => Provided(id, q, w)' \/ Waits(id, k)'
  BY <1>3, <1>4, <1>5 DEF Bundled
<1>7. \A id, w : <<id, w>> \in DOMAIN bundle =>
          \E p : Walked(id, p)' /\ bundle[<<id, w>>] = Join[p][w] /\ Exists(Join[p][w])
  BY <1>3 DEF Bundled
<1> QED
  BY <1>1, <1>6, <1>7, SameLists DEF Bundled

LEMMA OtherKeepsBundled ==
    ASSUME Bundled, UNCHANGED <<disk, stack, sources, bundle, unresolved>>
    PROVE  Bundled'
<1>1. /\ \A id, q : Walked(id, q)' <=> Walked(id, q)
      /\ \A id, q, w : Provided(id, q, w)' <=> Provided(id, q, w)
  BY DEF Walked, Provided, Exists
<1>2. \A id, k : Waits(id, k)' <=> Waits(id, k)
  <2>1. \A frame : Consumed(frame)' = Consumed(frame)
    BY SameLists
  <2> QED
    BY <2>1 DEF Waits
<1> QED
  BY <1>1, <1>2, SameLists DEF Bundled

\* What is known of the walk, short of its order.
PInv == WInv /\ Listed /\ Framed /\ Bundled

LEMMA InitHasPlaces ==
    ASSUME OneFilePerName, CInit
    PROVE  PInv
<1>1. WInv
  BY InitHasInv
<1>2. /\ disk \in Projects /\ stack = <<Frame(entryId, Entry)>> /\ visited = {entryId}
      /\ sources = <<<<entryId, Entry>>>> /\ bundle = <<>>
  BY DEF CInit, RInit, Init
<1>3. Entry \in Paths /\ Exists(Entry)
  BY <1>2, ImportAssumption DEF Exists
<1>4. ImportsAt(Entry) \in Seq(Written)
  BY <1>1, <1>3, ContentOfFiles DEF WInv
<1>5. /\ Len(sources) = 1 /\ sources[1] = <<entryId, Entry>>
      /\ Len(stack) = 1 /\ stack[1] = Frame(entryId, Entry)
  BY <1>2
<1>6. Listed
  BY <1>2, <1>3, <1>5 DEF Listed, Known, Denotes
<1>7. Walked(entryId, Entry) /\ \A id, q : Walked(id, q) => id = entryId /\ q = Entry
  BY <1>5 DEF Walked
<1>8. Framed
  <2>1. stack[1].id = entryId /\ stack[1].file = Entry /\ stack[1].rest = ImportsAt(Entry)
    BY <1>5 DEF Frame
  <2>2. IsLeft(ImportsAt(Entry), ImportsAt(Entry))
    BY <1>4 DEF IsLeft
  <2> QED
    BY <1>5, <1>7, <2>1, <2>2 DEF Framed
<1>9. Bundled
  <2>1. DOMAIN bundle = {}
    BY <1>2
  <2>2. ASSUME NEW k \in 1..Len(ImportsAt(Entry)) PROVE Waits(entryId, k)
    <3>1. Consumed(stack[1]) = 0
      BY <1>4, <1>5 DEF Consumed, Frame
    <3> QED
      BY <1>5, <3>1 DEF Waits, Frame
  <2> QED
    BY <1>7, <2>1, <2>2 DEF Bundled
<1> QED
  BY <1>1, <1>6, <1>8, <1>9 DEF PInv

LEMMA NextKeepsPlaces ==
    ASSUME PInv, [CNext]_compilationVars
    PROVE  PInv'
<1>1. WInv' /\ WInv /\ Listed /\ Framed /\ Bundled
  BY NextKeepsInv DEF PInv
<1>2. Listed' /\ Framed'
  <2>1. CASE \E written \in Written, p \in Paths : Consumes(written, p) \/ Pushes(written, p)
    BY <1>1, <2>1, ConsumesKeepsPlaces, PushesKeepsPlaces
  <2> QED
    BY <1>1, <2>1, StepsOfWalk, ReturnsKeepsPlaces, StaysKeepsPlaces
<1>3. Bundled'
  <2>1. CASE WalkNext
    BY <1>1, <2>1, FetchKeepsBundled, ReturnKeepsBundled DEF WalkNext
  <2>2. CASE \/ Finished \/ StartResolve \/ ResolveReturn
             \/ \E w \in Written : \/ PassThrough(w) \/ Circular(w) \/ SkipVisited(w) \/ NotProvided(w)
                                   \/ ParseError(w) \/ Absorb(w)
    <3>1. UNCHANGED <<disk, stack, sources, bundle, unresolved>>
      BY <2>2 DEF walkVars, input, Finished, allVars, StartResolve, ResolveReturn, PassThrough,
                  Circular, SkipVisited, NotProvided, ParseError, Absorb
    <3> QED
      BY <1>1, <3>1, OtherKeepsBundled
  <2>3. CASE StartTable \/ TableNext \/ UNCHANGED compilationVars
    <3>1. UNCHANGED <<disk, stack, sources, bundle, unresolved>>
      BY <2>3 DEF walkVars, input, StartTable, TableNext, compilationVars, allVars, Duplicate, DeclareLocal,
                  Shadowed, BecomeAmbiguous, Claim, NextFile, SkipAmbiguous, Unknown, Resolve, Step, NextUse,
                  NextUsesFile
    <3> QED
      BY <1>1, <3>1, OtherKeepsBundled
  <2> QED
    BY <2>1, <2>2, <2>3 DEF CNext, RNext
<1> QED
  BY <1>1, <1>2, <1>3 DEF PInv

-----------------------------------------------------------------------------
(* The order of the walk.  The time T[id][k] is the number of files that had *)
(* been collected when the walk of id was done with its first k imports.     *)

SetTime(T, id, k, n) ==
    [x \in Ids |-> [i \in Nat |-> IF x = id /\ i = k THEN n ELSE T[x][i]]]

LEMMA TimeSet ==
    ASSUME NEW T, NEW id, NEW k, NEW n, NEW x \in Ids, NEW i \in Nat
    PROVE  SetTime(T, id, k, n)[x][i] = IF x = id /\ i = k THEN n ELSE T[x][i]
  BY DEF SetTime

Ends(T, id, p) == T[id][Len(ImportsAt(p))]

\* The walk, at the k-th import of the file, came to a flow it had not seen.
Opens(T, id, p, k) ==
    /\ Surface[ImportsAt(p)[k]] = "ifml"
    /\ Exists(Join[p][ImportsAt(p)[k]])
    /\ ~Known(T[id][k - 1], ImportsAt(p)[k])

SourceAt(n, id) == n \in 1..Len(sources) /\ sources[n][1] = id

Active(id) == \E i \in 1..Len(stack) : stack[i].id = id

\* The walk is over with the k-th import: the file it opened, if any, came next
\* in the list, and has been left.
Settled(T, id, p, k) ==
    /\ T[id][k - 1] \in 0..Len(sources)
    /\ Opens(T, id, p, k) =>
          /\ SourceAt(T[id][k - 1] + 1, ImportsAt(p)[k])
          /\ ~Active(ImportsAt(p)[k])
          /\ T[id][k] = Ends(T, ImportsAt(p)[k], Join[p][ImportsAt(p)[k]])
    /\ ~Opens(T, id, p, k) => T[id][k] = T[id][k - 1]

\* The walk is before or within the k-th import of the file.
Pending(id, k) ==
    \E i \in 1..Len(stack) :
        /\ stack[i].id = id
        /\ k > Consumed(stack[i]) \/ (k = Consumed(stack[i]) /\ i < Len(stack))

\* The frame is within its last consumed import, which opened the next frame.
Entered(T, frame, id) ==
    /\ Consumed(frame) \in Nat \ {0}
    /\ Consumed(frame) \in 1..Len(ImportsAt(frame.file))
    /\ Opens(T, frame.id, frame.file, Consumed(frame))
    /\ T[frame.id][Consumed(frame) - 1] \in 0..Len(sources)
    /\ ImportsAt(frame.file)[Consumed(frame)] = id
    /\ SourceAt(T[frame.id][Consumed(frame) - 1] + 1, id)

Timed(T) ==
    /\ \A j \in 1..Len(sources) : T[sources[j][1]][0] = j
    /\ \A i \in 1..Len(stack) :
          /\ i = Len(stack) => T[stack[i].id][Consumed(stack[i])] = Len(sources)
          /\ i < Len(stack) => Entered(T, stack[i], stack[i + 1].id)
    /\ \A id, p : Walked(id, p) => \A k \in 1..Len(ImportsAt(p)) : Settled(T, id, p, k) \/ Pending(id, k)
    /\ stack = <<>> => Ends(T, entryId, Entry) = Len(sources)

\* What was settled stays so, as long as its times do and it is not entered.
LEMMA SettledStays ==
    ASSUME NEW T, NEW S, NEW id, NEW p, NEW k \in Nat \ {0}, Settled(T, id, p, k), disk' = disk,
           Len(sources) \in Nat, Len(sources') \in Nat, Len(sources) <= Len(sources'),
           \A j \in 1..Len(sources) : sources'[j] = sources[j],
           S[id][k - 1] = T[id][k - 1], S[id][k] = T[id][k],
           NEW w, w = ImportsAt(p)[k],
           SourceAt(T[id][k - 1] + 1, w) /\ ~Active(w) =>
              ~Active(w)' /\ Ends(S, w, Join[p][w]) = Ends(T, w, Join[p][w])
    PROVE  Settled(S, id, p, k)'
<1> DEFINE n == T[id][k - 1]
<1>1. n \in 0..Len(sources) /\ n \in 0..Len(sources')
  BY DEF Settled
<1>2. Known(n, w)' <=> Known(n, w)
  <2>1. \A j \in 1..n : j \in 1..Len(sources)
    BY <1>1
  <2> HIDE DEF n
  <2> QED
    BY <2>1 DEF Known
<1>3. Opens(S, id, p, k)' <=> Opens(T, id, p, k)
  <2>1. Opens(T, id, p, k) <=> Surface[w] = "ifml" /\ Exists(Join[p][w]) /\ ~Known(n, w)
    BY DEF Opens
  <2>2. ImportsAt(p)' = ImportsAt(p) /\ \A q : Exists(q)' <=> Exists(q)
    BY SameLists
  <2>3. Opens(S, id, p, k)' <=> Surface[w] = "ifml" /\ Exists(Join[p][w])' /\ ~Known(S[id][k - 1], w)'
    BY <2>2 DEF Opens
  <2>4. Known(S[id][k - 1], w)' <=> Known(n, w)'
    OBVIOUS
  <2> QED
    BY <1>2, <2>1, <2>2, <2>3, <2>4
<1>4. ImportsAt(p)' = ImportsAt(p) /\ \A q : ImportsAt(q)' = ImportsAt(q)
  BY SameLists
<1>5. CASE Opens(T, id, p, k)
  <2>1. SourceAt(n + 1, w) /\ ~Active(w) /\ T[id][k] = Ends(T, w, Join[p][w])
    BY <1>5 DEF Settled
  <2>2. SourceAt(n + 1, w)'
    BY <1>1, <2>1 DEF SourceAt
  <2>3. ~Active(w)' /\ Ends(S, w, Join[p][w]) = Ends(T, w, Join[p][w])
    BY <2>1
  <2>4. Ends(S, w, Join[p][w])' = Ends(S, w, Join[p][w])
    BY <1>4 DEF Ends
  <2>5. S[id][k - 1] = n /\ S[id][k] = Ends(S, w, Join[p][w])'
    BY <2>1, <2>3, <2>4
  <2> HIDE DEF n
  <2>6. SourceAt(S[id][k - 1] + 1, ImportsAt(p)[k])'
    BY <1>4, <2>2, <2>5
  <2>7. ~Active(ImportsAt(p)[k])' /\ S[id][k] = Ends(S, ImportsAt(p)[k], Join[p][ImportsAt(p)[k]])'
    BY <1>4, <2>3, <2>5
  <2> QED
    BY <1>1, <1>3, <1>5, <2>5, <2>6, <2>7 DEF Settled
<1>6. CASE ~Opens(T, id, p, k)
  <2>1. S[id][k] = S[id][k - 1] /\ S[id][k - 1] \in 0..Len(sources')
    BY <1>1, <1>6 DEF Settled
  <2> QED
    BY <1>3, <1>6, <2>1 DEF Settled
<1> QED
  BY <1>5, <1>6

\* Likewise for the import a frame is within.
LEMMA EnteredStays ==
    ASSUME NEW T, NEW S, NEW frame, NEW id, Entered(T, frame, id), disk' = disk,
           Len(sources) \in Nat, Len(sources') \in Nat, Len(sources) <= Len(sources'),
           \A j \in 1..Len(sources) : sources'[j] = sources[j],
           S[frame.id][Consumed(frame) - 1] = T[frame.id][Consumed(frame) - 1]
    PROVE  Entered(S, frame, id)'
<1>0. PICK n : n = T[frame.id][Consumed(frame) - 1]
  OBVIOUS
<1>1. n \in 0..Len(sources) /\ n \in 0..Len(sources')
  BY <1>0 DEF Entered
<1>2. /\ ImportsAt(frame.file)' = ImportsAt(frame.file) /\ Consumed(frame)' = Consumed(frame)
      /\ \A q : Exists(q)' <=> Exists(q)
  BY SameLists
<1>3. \A w : Known(n, w)' <=> Known(n, w)
  <2>1. \A j \in 1..n : j \in 1..Len(sources)
    BY <1>1
  <2> QED
    BY <2>1 DEF Known
<1>4. SourceAt(n + 1, id) /\ SourceAt(n + 1, id)'
  <2>1. SourceAt(n + 1, id)
    BY <1>0 DEF Entered
  <2> QED
    BY <1>1, <2>1 DEF SourceAt
<1>5. S[frame.id][Consumed(frame)' - 1] = n
  BY <1>0, <1>2
<1>6. Opens(S, frame.id, frame.file, Consumed(frame))'
  <2>1. /\ Surface[ImportsAt(frame.file)[Consumed(frame)]] = "ifml"
        /\ Exists(Join[frame.file][ImportsAt(frame.file)[Consumed(frame)]])
        /\ ~Known(n, ImportsAt(frame.file)[Consumed(frame)])
    BY <1>0 DEF Entered, Opens
  <2> QED
    BY <1>2, <1>3, <1>5, <2>1 DEF Opens
<1>7. SourceAt(S[frame.id][Consumed(frame) - 1] + 1, id)'
  BY <1>4, <1>5
<1>8. S[frame.id][Consumed(frame)' - 1] \in 0..Len(sources')
  BY <1>1, <1>5
<1> QED
  BY <1>2, <1>6, <1>7, <1>8 DEF Entered

\* An identity has one file, which is in the list.
LEMMA OneWalked ==
    ASSUME PInv, NEW id, NEW p, Walked(id, p)
    PROVE  /\ id \in Ids /\ id \in visited /\ p \in Paths /\ Exists(p) /\ Denotes(id, p)
           /\ ImportsAt(p) \in Seq(Written) /\ Len(ImportsAt(p)) \in Nat
           /\ \A q : Walked(id, q) => q = p
<1>1. PICK j \in 1..Len(sources) : sources[j] = <<id, p>>
  BY DEF Walked
<1>2. id \in visited /\ p \in Paths /\ Exists(p) /\ Denotes(id, p)
  BY <1>1 DEF PInv, Listed
<1>3. ImportsAt(p) \in Seq(Written)
  BY <1>2, ContentOfFiles DEF PInv, WInv
<1>4. \A q : Walked(id, q) => q = p
  BY <1>1 DEF Walked, PInv, Listed
<1>5. id \in Ids
  BY <1>2 DEF PInv, WInv, Typed
<1> QED
  BY <1>2, <1>3, <1>4, <1>5

\* The file the walk is in.
LEMMA TopIsWalked ==
    ASSUME PInv, stack # <<>>
    PROVE  /\ Len(stack) \in Nat \ {0} /\ Top = stack[Len(stack)] /\ Walked(Top.id, Top.file)
           /\ \A i \in 1..Len(stack) : Walked(stack[i].id, stack[i].file)
           /\ \A i \in 1..Len(stack) : Consumed(stack[i]) \in Nat
           /\ \A i \in 1..Len(stack) : stack[i].id = Top.id => i = Len(stack)
<1>1. Len(stack) \in Nat \ {0} /\ stack \in Seq(Frames)
  BY DEF PInv, WInv, Typed
<1>2. \A i \in 1..Len(stack) : Walked(stack[i].id, stack[i].file)
  BY DEF PInv, Framed
<1>3. \A i \in 1..Len(stack) : Consumed(stack[i]) \in Nat
  <2> TAKE i \in 1..Len(stack)
  <2>1. stack[i].rest \in Seq(Written) /\ IsLeft(stack[i].rest, ImportsAt(stack[i].file))
    <3>1. stack[i] \in Frames
      BY <1>1
    <3>2. IsLeft(stack[i].rest, ImportsAt(stack[i].file))
      BY DEF PInv, Framed
    <3> QED
      BY <3>1, <3>2 DEF Frames
  <2>2. Len(ImportsAt(stack[i].file)) \in Nat /\ Len(stack[i].rest) \in Nat
    BY <1>2, <2>1, OneWalked
  <2>3. Len(stack[i].rest) <= Len(ImportsAt(stack[i].file))
    BY <2>1 DEF IsLeft
  <2> QED
    BY <2>2, <2>3 DEF Consumed
<1>4. \A i \in 1..Len(stack) : stack[i].id = Top.id => i = Len(stack)
  BY <1>1 DEF Top, PInv, Framed
<1> QED
  BY <1>1, <1>2, <1>3, <1>4 DEF Top

\* The file that a settled import opened is a walked one.
LEMMA OpenedIsWalked ==
    ASSUME PInv, NEW id, NEW p, Walked(id, p), NEW k \in 1..Len(ImportsAt(p)),
           NEW w, w = ImportsAt(p)[k], NEW n, SourceAt(n, w)
    PROVE  w \in Ids /\ w \in visited /\ Walked(w, Join[p][w]) /\ Len(ImportsAt(Join[p][w])) \in Nat
<1>1. p \in Paths /\ Exists(p) /\ ImportsAt(p) \in Seq(Written)
  BY OneWalked
<1>2. w \in Mentions(p) /\ w \in Written
  <2>1. w \in ImportedBy(p)
    BY DEF ImportedBy
  <2> QED
    BY <1>1, <2>1, ContentOfFiles DEF PInv, WInv
<1>3. Denotes(w, Join[p][w])
  BY <1>1, <1>2 DEF Denotes
<1>4. n \in 1..Len(sources) /\ sources[n] = <<w, sources[n][2]>>
  <2>1. n \in 1..Len(sources) /\ sources[n] \in Ids \X Paths
    BY DEF SourceAt, PInv, WInv, Typed
  <2> QED
    BY <2>1 DEF SourceAt
<1>5. Walked(w, sources[n][2]) /\ Denotes(w, sources[n][2])
  BY <1>4 DEF Walked, PInv, Listed
<1>6. sources[n][2] = Join[p][w]
  BY <1>3, <1>5, OneMeaning DEF PInv, WInv
<1> QED
  BY <1>5, <1>6, OneWalked

LEMMA ConsumesKeepsTimes ==
    ASSUME PInv, NEW T, Timed(T), NEW written, NEW p, Consumes(written, p)
    PROVE  \E S : Timed(S)'
<1>1. /\ AtImport(written, p) /\ stack' = Advanced /\ disk' = disk /\ entryId' = entryId
      /\ sources' = sources /\ (Surface[written] = "ifml" /\ Exists(p) => written \in visited)
  BY DEF Consumes
<1>2. /\ stack # <<>> /\ Top.rest # <<>> /\ WInv /\ Framed /\ Listed
  BY <1>1, AtTop DEF PInv
<1>3. PICK u, f, c, n : u = Top.id /\ f = Top.file /\ c = Consumed(Top) /\ n = Len(sources)
  OBVIOUS
<1>4. /\ Len(stack) \in Nat \ {0} /\ Top = stack[Len(stack)] /\ Walked(u, f) /\ c \in Nat
      /\ \A i \in 1..Len(stack) : stack[i].id = u => i = Len(stack)
      /\ \A i \in 1..Len(stack) : Consumed(stack[i]) \in Nat
  BY <1>2, <1>3, TopIsWalked
<1>5. /\ Len(stack') = Len(stack)
      /\ \A i \in 1..(Len(stack) - 1) : stack'[i] = stack[i]
      /\ stack'[Len(stack)] = Advanced[Len(stack)]
  BY <1>1, <1>2, AdvancedFrames DEF WInv, Typed
<1>6. /\ Consumed(stack'[Len(stack)]) = c + 1 /\ stack'[Len(stack)].id = u /\ stack'[Len(stack)].file = f
      /\ written = ImportsAt(f)[c + 1] /\ c + 1 \in 1..Len(ImportsAt(f)) /\ p = Join[f][written]
  BY <1>1, <1>2, <1>3, <1>5, InHand, AtTop
<1>7. \A i \in 1..Len(stack') : stack'[i].id = stack[i].id
  <2> TAKE i \in 1..Len(stack')
  <2>1. CASE i = Len(stack)
    BY <1>3, <1>4, <1>6, <2>1
  <2>2. CASE i # Len(stack)
    BY <1>4, <1>5, <2>2
  <2> QED
    BY <2>1, <2>2
<1>8. T[u][c] = n /\ n \in Nat \ {0}
  <2>1. Len(stack) \in 1..Len(stack)
    BY <1>4
  <2>2. Len(sources) \in Nat
    BY <1>2 DEF WInv, Typed
  <2> QED
    BY <1>2, <1>3, <1>4, <2>1, <2>2 DEF Timed, Listed
<1>9. PICK S : S = SetTime(T, u, c + 1, n)
  OBVIOUS
<1>10. \A x \in Ids, i \in Nat : S[x][i] = IF x = u /\ i = c + 1 THEN n ELSE T[x][i]
  BY <1>9, TimeSet
<1>11. u \in Ids /\ \A id, q : Walked(id, q) => id \in Ids /\ Len(ImportsAt(q)) \in Nat
  BY <1>4, OneWalked
<1>12. \A frame : Consumed(frame)' = Consumed(frame)
  BY <1>1, SameLists
<1>13. \A id : Active(id)' <=> Active(id)
  BY <1>5, <1>7 DEF Active
<1>14. \A id, q : Walked(id, q)' <=> Walked(id, q)
  BY <1>1 DEF Walked
<1>15. \A j \in 1..Len(sources') : S[sources'[j][1]][0] = j
  <2> TAKE j \in 1..Len(sources')
  <2>1. sources[j][1] \in Ids /\ T[sources[j][1]][0] = j
    BY <1>1, <1>2 DEF Timed, WInv, Typed, Listed
  <2> QED
    BY <1>1, <1>4, <1>10, <2>1
<1>16. \A i \in 1..Len(stack') : i = Len(stack') => S[stack'[i].id][Consumed(stack'[i])] = Len(sources')
  BY <1>1, <1>3, <1>4, <1>5, <1>6, <1>10, <1>11
<1>17. ASSUME NEW i \in 1..Len(stack'), i < Len(stack')
       PROVE  Entered(S, stack[i], stack[i + 1].id)'
  <2>1. i \in 1..Len(stack) /\ i < Len(stack) /\ i + 1 \in 1..Len(stack) /\ i # Len(stack)
    BY <1>4, <1>5, <1>17
  <2>2. Entered(T, stack[i], stack[i + 1].id) /\ stack'[i] = stack[i] /\ stack'[i + 1].id = stack[i + 1].id
    <3>1. i \in 1..(Len(stack) - 1)
      BY <1>4, <2>1
    <3> QED
      BY <1>5, <1>7, <2>1, <3>1 DEF Timed
  <2>3. stack[i].id # u /\ stack[i].id \in Ids /\ Consumed(stack[i]) - 1 \in Nat
    <3>1. Walked(stack[i].id, stack[i].file)
      BY <1>2, <2>1 DEF Framed
    <3> QED
      BY <1>4, <1>11, <2>1, <2>2, <3>1 DEF Entered
  <2>4. S[stack[i].id][Consumed(stack[i]) - 1] = T[stack[i].id][Consumed(stack[i]) - 1]
    BY <1>10, <2>3
  <2>5. Len(sources) \in Nat /\ Len(sources') \in Nat /\ Len(sources) <= Len(sources')
    BY <1>1, <1>3, <1>8
  <2>6. \A x, y : x = stack[i] /\ y = stack[i + 1].id => Entered(S, x, y)'
    BY <1>1, <2>2, <2>4, <2>5, EnteredStays
  <2> QED
    BY <2>2, <2>6
<1>18. ASSUME NEW id, NEW q, Walked(id, q), NEW k \in 1..Len(ImportsAt(q))
       PROVE  Settled(S, id, q, k)' \/ Pending(id, k)'
  <2>1. k \in Nat \ {0} /\ id \in Ids /\ k - 1 \in Nat
    BY <1>11, <1>18
  <2>2. CASE Pending(id, k)
    <3>1. PICK i \in 1..Len(stack) :
            stack[i].id = id /\ (k > Consumed(stack[i]) \/ (k = Consumed(stack[i]) /\ i < Len(stack)))
      BY <2>2 DEF Pending
    <3>2. CASE i # Len(stack)
      <4>1. i \in 1..Len(stack') /\ stack'[i] = stack[i] /\ i < Len(stack')
        BY <1>4, <1>5, <3>2
      <4> QED
        BY <1>5, <1>12, <3>1, <4>1 DEF Pending
    <3>3. CASE i = Len(stack) /\ k # c + 1
      <4>1. stack[i] = Top /\ id = u /\ k > c
        BY <1>3, <1>4, <3>1, <3>3
      <4>2. i \in 1..Len(stack') /\ stack'[i].id = id /\ k > Consumed(stack'[i])
        BY <1>4, <1>5, <1>6, <2>1, <3>3, <4>1
      <4> QED
        BY <1>12, <4>2 DEF Pending
    <3>4. CASE i = Len(stack) /\ k = c + 1
      <4>1. id = u /\ q = f
        BY <1>3, <1>4, <1>18, <3>1, <3>4, OneWalked
      <4>2. S[id][k - 1] = n /\ S[id][k] = n
        BY <1>4, <1>8, <1>10, <1>11, <3>4, <4>1
      <4>3. ImportsAt(q)[k] = written /\ p = Join[q][written]
        BY <1>6, <3>4, <4>1
      <4>4. Surface[written] = "ifml" /\ Exists(p) => Known(n, written)'
        BY <1>1, <1>2, <1>3 DEF Listed, Known
      <4>5. ImportsAt(q)' = ImportsAt(q) /\ \A x : Exists(x)' <=> Exists(x)
        BY <1>1, SameLists
      <4>6. ~Opens(S, id, q, k)'
        BY <4>2, <4>3, <4>4, <4>5 DEF Opens
      <4>7. n \in 0..Len(sources')
        BY <1>1, <1>3, <1>8
      <4> QED
        BY <4>2, <4>6, <4>7 DEF Settled
    <3> QED
      BY <3>2, <3>3, <3>4
  <2>3. CASE Settled(T, id, q, k) /\ ~Pending(id, k)
    <3>1. id = u => k <= c
      <4> SUFFICES ASSUME id = u PROVE ~(k > c)
        BY <1>4, <2>1
      <4>1. Len(stack) \in 1..Len(stack) /\ stack[Len(stack)].id = u /\ Consumed(stack[Len(stack)]) = c
        BY <1>3, <1>4
      <4> QED
        BY <2>3, <4>1 DEF Pending
    <3>2. S[id][k] = T[id][k] /\ S[id][k - 1] = T[id][k - 1]
      BY <1>4, <1>10, <2>1, <3>1
    <3>3. ASSUME NEW w, w = ImportsAt(q)[k], SourceAt(T[id][k - 1] + 1, w), ~Active(w)
          PROVE  ~Active(w)' /\ Ends(S, w, Join[q][w]) = Ends(T, w, Join[q][w])
      <4>1. w # u
        <5>1. Active(u)
          BY <1>3, <1>4 DEF Active
        <5> QED
          BY <3>3, <5>1
      <4>2. w \in Ids /\ Len(ImportsAt(Join[q][w])) \in Nat
        BY <1>18, <3>3, OpenedIsWalked
      <4> QED
        BY <1>10, <1>13, <3>3, <4>1, <4>2 DEF Ends
    <3>4. Len(sources) \in Nat /\ Len(sources') \in Nat /\ Len(sources) <= Len(sources')
      BY <1>1, <1>3, <1>8
    <3> QED
      BY <1>1, <2>1, <2>3, <3>2, <3>3, <3>4, SettledStays
  <2> QED
    BY <1>18, <2>2, <2>3 DEF Timed
<1>19. stack' # <<>>
  <2>1. stack' \in Seq(Frames) /\ Len(stack') \in Nat \ {0}
    BY <1>1, <1>2, <1>4, <1>5, AdvancedFrames DEF WInv, Typed
  <2> QED
    BY <2>1
<1>20. Timed(S)'
  <2>1. \A id, q : Walked(id, q)' => \A k \in 1..Len(ImportsAt(q)) : Settled(S, id, q, k)' \/ Pending(id, k)'
    BY <1>14, <1>18
  <2> QED
    BY <1>1, <1>12, <1>15, <1>16, <1>17, <1>19, <2>1, SameLists DEF Timed
<1> QED
  BY <1>20

LEMMA PushesKeepsTimes ==
    ASSUME PInv, NEW T, Timed(T), NEW written, NEW p, Pushes(written, p)
    PROVE  \E S : Timed(S)'
<1>1. /\ AtImport(written, p) /\ disk' = disk /\ entryId' = entryId
      /\ Surface[written] = "ifml" /\ Exists(p) /\ written \notin visited
  BY DEF Pushes
<1>2. /\ stack # <<>> /\ Top.rest # <<>> /\ WInv /\ Framed /\ Listed /\ written \in Ids /\ p \in Paths
  BY <1>1, AtTop DEF PInv, Ids
<1>3. PICK u, f, c, n : u = Top.id /\ f = Top.file /\ c = Consumed(Top) /\ n = Len(sources)
  OBVIOUS
<1>4. /\ Len(stack) \in Nat \ {0} /\ Top = stack[Len(stack)] /\ Walked(u, f) /\ c \in Nat
      /\ \A i \in 1..Len(stack) : stack[i].id = u => i = Len(stack)
      /\ \A i \in 1..Len(stack) : Consumed(stack[i]) \in Nat
      /\ \A i \in 1..Len(stack) : Walked(stack[i].id, stack[i].file)
  BY <1>2, <1>3, TopIsWalked
<1>5. /\ Len(stack') = Len(stack) + 1
      /\ \A i \in 1..(Len(stack) - 1) : stack'[i] = stack[i]
      /\ stack'[Len(stack)] = Advanced[Len(stack)]
      /\ stack'[Len(stack) + 1] = Frame(written, p)
  BY <1>4, StackPushed, <1>2
<1>6. /\ Consumed(stack'[Len(stack)]) = c + 1 /\ stack'[Len(stack)].id = u /\ stack'[Len(stack)].file = f
      /\ written = ImportsAt(f)[c + 1] /\ c + 1 \in 1..Len(ImportsAt(f)) /\ p = Join[f][written]
  BY <1>1, <1>2, <1>3, <1>5, InHand, AtTop
<1>7. /\ n \in Nat \ {0} /\ Len(sources') = n + 1
      /\ \A j \in 1..n : j \in 1..Len(sources') /\ sources'[j] = sources[j]
      /\ sources'[n + 1] = <<written, p>>
      /\ \A j \in 1..Len(sources') : j # n + 1 => j \in 1..n
  <2>1. Len(sources) \in Nat /\ Len(sources) >= 1
    BY <1>2 DEF WInv, Typed, Listed
  <2> QED
    BY <1>2, <1>3, <2>1, SourcesExtended
<1>8. T[u][c] = n
  <2>1. Len(stack) \in 1..Len(stack)
    BY <1>4
  <2> QED
    BY <1>3, <1>4, <2>1 DEF Timed
<1>9. PICK S : S = SetTime(T, written, 0, n + 1)
  OBVIOUS
<1>10. \A x \in Ids, i \in Nat : S[x][i] = IF x = written /\ i = 0 THEN n + 1 ELSE T[x][i]
  BY <1>9, TimeSet
<1>11. /\ \A id, q : Walked(id, q) => id \in Ids /\ id # written /\ Len(ImportsAt(q)) \in Nat
       /\ Len(ImportsAt(p)) \in Nat
  <2>1. \A id, q : Walked(id, q) => id \in Ids /\ id # written /\ Len(ImportsAt(q)) \in Nat
    BY <1>1, OneWalked
  <2>2. ImportsAt(p) \in Seq(Written)
    BY <1>1, <1>2, ContentOfFiles DEF WInv
  <2> QED
    BY <2>1, <2>2
<1>12. \A frame : Consumed(frame)' = Consumed(frame)
  BY <1>1, SameLists
<1>13. /\ Consumed(Frame(written, p)) = 0
       /\ stack'[Len(stack) + 1].id = written
  BY <1>5, <1>11 DEF Consumed, Frame
<1>14. ASSUME NEW id PROVE Active(id)' => Active(id) \/ id = written
  <2> SUFFICES ASSUME NEW i \in 1..Len(stack'), stack'[i].id = id PROVE Active(id) \/ id = written
    BY DEF Active
  <2>1. CASE i = Len(stack) + 1
    BY <1>13, <2>1
  <2>2. CASE i # Len(stack) + 1
    <3>1. i \in 1..Len(stack)
      BY <1>4, <1>5, <2>2
    <3>2. stack[i].id = id
      BY <1>3, <1>4, <1>5, <1>6, <3>1, SMTT(30)
    <3> QED
      BY <3>1, <3>2 DEF Active
  <2> QED
    BY <2>1, <2>2
<1>15. ASSUME NEW id, NEW q, Walked(id, q)' PROVE Walked(id, q) \/ (id = written /\ q = p)
  <2>1. PICK j \in 1..Len(sources') : sources'[j] = <<id, q>>
    BY <1>15 DEF Walked
  <2>2. CASE j = n + 1
    BY <1>7, <2>1, <2>2
  <2>3. CASE j # n + 1
    BY <1>3, <1>7, <2>1, <2>3 DEF Walked
  <2> QED
    BY <2>2, <2>3
<1>16. \A j \in 1..Len(sources') : S[sources'[j][1]][0] = j
  <2> TAKE j \in 1..Len(sources')
  <2>1. CASE j = n + 1
    BY <1>2, <1>7, <1>10, <2>1
  <2>2. CASE j # n + 1
    <3>1. j \in 1..Len(sources) /\ sources'[j] = sources[j]
      BY <1>3, <1>7, <2>2
    <3>2. sources[j][1] \in Ids /\ T[sources[j][1]][0] = j /\ sources[j][1] # written
      BY <1>1, <1>2, <3>1 DEF Timed, WInv, Typed, Listed
    <3> QED
      BY <1>10, <3>1, <3>2
  <2> QED
    BY <2>1, <2>2
<1>17. S[stack'[Len(stack')].id][Consumed(stack'[Len(stack')])] = Len(sources')
  BY <1>2, <1>5, <1>7, <1>10, <1>13, SMTT(30)
<1>18. Len(sources) \in Nat /\ Len(sources') \in Nat /\ Len(sources) <= Len(sources')
  BY <1>3, <1>7
<1>19. ASSUME NEW i \in 1..Len(stack'), i < Len(stack')
       PROVE  Entered(S, stack[i], stack[i + 1].id)'
  <2>1. CASE i # Len(stack)
    <3>1. i \in 1..(Len(stack) - 1) /\ i \in 1..Len(stack) /\ i < Len(stack) /\ i + 1 \in 1..Len(stack)
      BY <1>4, <1>5, <1>19, <2>1
    <3>2. Entered(T, stack[i], stack[i + 1].id) /\ stack'[i] = stack[i]
      BY <1>5, <3>1 DEF Timed
    <3>3. stack'[i + 1].id = stack[i + 1].id
      <4>1. CASE i + 1 = Len(stack)
        BY <1>3, <1>4, <1>6, <4>1
      <4>2. CASE i + 1 # Len(stack)
        BY <1>4, <1>5, <3>1, <4>2
      <4> QED
        BY <4>1, <4>2
    <3>4. stack[i].id # written /\ stack[i].id \in Ids /\ Consumed(stack[i]) - 1 \in Nat
      <4>1. Walked(stack[i].id, stack[i].file)
        BY <1>4, <3>1
      <4>2. Consumed(stack[i]) \in Nat \ {0}
        BY <3>2 DEF Entered
      <4> QED
        BY <1>11, <4>1, <4>2
    <3>5. S[stack[i].id][Consumed(stack[i]) - 1] = T[stack[i].id][Consumed(stack[i]) - 1]
      BY <1>10, <3>4
    <3>6. \A x, y : x = stack[i] /\ y = stack[i + 1].id => Entered(S, x, y)'
      BY <1>1, <1>3, <1>7, <1>18, <3>2, <3>5, EnteredStays
    <3> QED
      BY <3>2, <3>3, <3>6
  <2>2. CASE i = Len(stack)
    <3>1. stack'[i].id = u /\ stack'[i].file = f /\ Consumed(stack'[i]) = c + 1 /\ stack'[i + 1].id = written
      BY <1>6, <1>13, <2>2
    <3>2. S[u][c] = n
      BY <1>4, <1>8, <1>10, <1>11
    <3>3. ~Known(n, written)'
      BY <1>1, <1>2, <1>3, <1>7 DEF Known, Listed
    <3>4. ImportsAt(f)' = ImportsAt(f) /\ (Exists(p)' <=> Exists(p))
      BY <1>1, SameLists
    <3>5. ASSUME NEW x, x.id = u, x.file = f, Consumed(x)' = c + 1 PROVE Entered(S, x, written)'
      <4>1. Opens(S, x.id, x.file, c + 1)'
        <5>1. (c + 1) - 1 = c
          BY <1>4
        <5> QED
          BY <1>1, <1>6, <3>2, <3>3, <3>4, <3>5, <5>1 DEF Opens
      <4>2. SourceAt(n + 1, written)'
        BY <1>7 DEF SourceAt
      <4>3. n \in 0..Len(sources') /\ c + 1 \in Nat \ {0} /\ (c + 1) - 1 = c
        BY <1>4, <1>7
      <4> QED
        BY <1>6, <3>2, <3>4, <3>5, <4>1, <4>2, <4>3 DEF Entered
    <3> QED
      BY <1>12, <3>1, <3>5
  <2> QED
    BY <2>1, <2>2
<1>20. ASSUME NEW id, NEW q, Walked(id, q)', NEW k \in 1..Len(ImportsAt(q))
       PROVE  Settled(S, id, q, k)' \/ Pending(id, k)'
  <2>1. k \in Nat \ {0} /\ k - 1 \in Nat
    BY <1>11, <1>15, <1>20
  <2>2. CASE id = written /\ q = p
    <3>1. /\ Len(stack) + 1 \in 1..Len(stack') /\ Consumed(stack'[Len(stack) + 1]) = 0
          /\ stack'[Len(stack) + 1].id = id /\ k > 0
      BY <1>4, <1>5, <1>13, <2>1, <2>2
    <3> QED
      BY <1>12, <3>1 DEF Pending
  <2>3. CASE Walked(id, q) /\ Pending(id, k)
    <3>1. PICK i \in 1..Len(stack) :
            stack[i].id = id /\ (k > Consumed(stack[i]) \/ (k = Consumed(stack[i]) /\ i < Len(stack)))
      BY <2>3 DEF Pending
    <3>2. CASE i # Len(stack)
      <4>1. i \in 1..Len(stack') /\ stack'[i] = stack[i] /\ i < Len(stack')
        BY <1>4, <1>5, <3>2
      <4> QED
        BY <1>12, <3>1, <4>1 DEF Pending
    <3>3. CASE i = Len(stack)
      <4>1. stack[i] = Top /\ id = u /\ k > c
        BY <1>3, <1>4, <3>1, <3>3
      <4>2. /\ i \in 1..Len(stack') /\ stack'[i].id = id /\ i < Len(stack')
            /\ k > Consumed(stack'[i]) \/ k = Consumed(stack'[i])
        BY <1>4, <1>5, <1>6, <2>1, <3>3, <4>1
      <4> QED
        BY <1>12, <4>2 DEF Pending
    <3> QED
      BY <3>2, <3>3
  <2>4. CASE Walked(id, q) /\ Settled(T, id, q, k)
    <3>1. id \in Ids /\ id # written
      BY <1>11, <2>4
    <3>2. S[id][k] = T[id][k] /\ S[id][k - 1] = T[id][k - 1]
      BY <1>10, <2>1, <3>1
    <3>3. ASSUME NEW w, w = ImportsAt(q)[k], SourceAt(T[id][k - 1] + 1, w), ~Active(w)
          PROVE  ~Active(w)' /\ Ends(S, w, Join[q][w]) = Ends(T, w, Join[q][w])
      <4>1. w \in Ids /\ w \in visited /\ Len(ImportsAt(Join[q][w])) \in Nat
        BY <1>20, <2>4, <3>3, OpenedIsWalked
      <4>2. w # written
        BY <1>1, <4>1
      <4> QED
        BY <1>10, <1>14, <3>3, <4>1, <4>2 DEF Ends
    <3> QED
      BY <1>1, <1>3, <1>7, <1>18, <2>1, <2>4, <3>2, <3>3, SettledStays
  <2> QED
    BY <1>15, <1>20, <2>2, <2>3, <2>4 DEF Timed
<1>21. stack' # <<>>
  <2>1. stack' = Append(Advanced, Frame(written, p)) /\ Advanced \in Seq(Frames)
    BY <1>2, AdvancedFrames DEF Pushes, WInv, Typed
  <2> QED
    BY <2>1
<1>22. Timed(S)'
  <2>1. \A id, q : Walked(id, q)' => \A k \in 1..Len(ImportsAt(q)) : Settled(S, id, q, k)' \/ Pending(id, k)'
    BY <1>20
  <2> QED
    BY <1>1, <1>12, <1>16, <1>17, <1>19, <1>21, <2>1, SameLists DEF Timed
<1> QED
  BY <1>22

LEMMA ReturnsKeepsTimes ==
    ASSUME PInv, NEW T, Timed(T), Returns
    PROVE  \E S : Timed(S)'
<1>1. /\ disk' = disk /\ entryId' = entryId /\ sources' = sources
      /\ stack # <<>> /\ Top.rest = <<>> /\ WInv /\ Framed /\ Listed
  BY DEF Returns, PInv
<1>2. PICK u, f, n : u = Top.id /\ f = Top.file /\ n = Len(sources)
  OBVIOUS
<1>3. /\ Len(stack) \in Nat \ {0} /\ Top = stack[Len(stack)] /\ Walked(u, f)
      /\ \A i \in 1..Len(stack) : stack[i].id = u => i = Len(stack)
      /\ \A i \in 1..Len(stack) : Consumed(stack[i]) \in Nat
      /\ \A i \in 1..Len(stack) : Walked(stack[i].id, stack[i].file)
  BY <1>1, <1>2, TopIsWalked
<1>4. /\ Len(stack') = Len(stack) - 1
      /\ \A i \in 1..Len(stack') : i \in 1..Len(stack) /\ i # Len(stack) /\ stack'[i] = stack[i]
  BY <1>1, StackReturned
<1>5. PICK c : c = Consumed(Top)
  OBVIOUS
<1>6. c = Len(ImportsAt(f)) /\ c \in Nat
  <2>1. Len(ImportsAt(f)) \in Nat
    BY <1>3, OneWalked
  <2> QED
    BY <1>1, <1>2, <1>5, <2>1 DEF Consumed
<1>7. T[u][c] = n /\ n \in Nat /\ Len(sources') = n
  <2>1. Len(stack) \in 1..Len(stack)
    BY <1>3
  <2>2. Len(sources) \in Nat
    BY <1>1 DEF WInv, Typed
  <2> QED
    BY <1>1, <1>2, <1>3, <1>5, <2>1, <2>2 DEF Timed
<1>8. u \in Ids /\ \A id, q : Walked(id, q) => id \in Ids /\ Len(ImportsAt(q)) \in Nat
  BY <1>3, OneWalked
<1>9. /\ \A frame : Consumed(frame)' = Consumed(frame)
      /\ \A q : ImportsAt(q)' = ImportsAt(q)
  BY <1>1, SameLists
<1>10. \A id : Active(id)' => Active(id) /\ id # u
  <2> SUFFICES ASSUME NEW i \in 1..Len(stack') PROVE Active(stack'[i].id) /\ stack'[i].id # u
    BY DEF Active
  <2> QED
    BY <1>3, <1>4 DEF Active
<1>11. \A id, q : Walked(id, q)' <=> Walked(id, q)
  BY <1>1 DEF Walked
<1>12. Len(sources) \in Nat /\ Len(sources') \in Nat /\ Len(sources) <= Len(sources')
  BY <1>2, <1>7
<1>13. ASSUME NEW id, NEW q, Walked(id, q), NEW k \in 1..Len(ImportsAt(q)), Pending(id, k)
       PROVE  \E i \in 1..Len(stack') :
                 /\ stack[i].id = id
                 /\ k > Consumed(stack[i]) \/ k = Consumed(stack[i])
  <2>1. PICK i \in 1..Len(stack) :
          stack[i].id = id /\ (k > Consumed(stack[i]) \/ (k = Consumed(stack[i]) /\ i < Len(stack)))
    BY <1>13 DEF Pending
  <2>2. i # Len(stack)
    <3> SUFFICES ASSUME i = Len(stack) PROVE FALSE
      OBVIOUS
    <3>1. id = u /\ q = f /\ k > c
      BY <1>2, <1>3, <1>5, <1>13, <2>1, OneWalked
    <3> QED
      BY <1>6, <3>1
  <2>3. i \in 1..Len(stack')
    BY <1>3, <1>4, <2>2, SMTT(30)
  <2> QED
    BY <2>1, <2>3
<1>14. CASE Len(stack) = 1
  <2>1. \A i : i \notin 1..Len(stack')
    BY <1>4, <1>14
  <2>2. \A id, q : Walked(id, q)' => \A k \in 1..Len(ImportsAt(q)) : Settled(T, id, q, k)'
    <3> SUFFICES ASSUME NEW id, NEW q, Walked(id, q), NEW k \in 1..Len(ImportsAt(q))
                 PROVE  Settled(T, id, q, k)'
      BY <1>9, <1>11
    <3>1. Settled(T, id, q, k) /\ k \in Nat \ {0}
      <4>1. ~Pending(id, k)
        BY <1>13, <2>1
      <4>2. k \in Nat \ {0}
        BY <1>8
      <4> QED
        BY <4>1, <4>2 DEF Timed
    <3>2. \A w : ~Active(w)'
      BY <2>1 DEF Active
    <3> QED
      BY <1>1, <1>12, <3>1, <3>2, SettledStays
  <2>3. Ends(T, entryId, Entry) = n
    <3>1. u = entryId
      BY <1>1, <1>2, <1>3, <1>14 DEF Framed
    <3>2. Walked(entryId, Entry)
      BY <1>1 DEF Listed, Walked
    <3> QED
      BY <1>3, <1>6, <1>7, <3>1, <3>2, OneWalked DEF Ends
  <2>4. Timed(T)'
    <3>1. Ends(T, entryId, Entry)' = n
      BY <1>1, <1>9, <2>3 DEF Ends
    <3>2. \A j \in 1..Len(sources') : T[sources'[j][1]][0] = j
      BY <1>1 DEF Timed
    <3> QED
      BY <1>7, <1>9, <2>1, <2>2, <3>1, <3>2 DEF Timed
  <2> QED
    BY <2>4
<1>15. CASE Len(stack) # 1
  <2>1. PICK m : m = Len(stack) - 1
    OBVIOUS
  <2>2. m \in 1..Len(stack) /\ m < Len(stack) /\ m + 1 = Len(stack) /\ Len(stack') = m /\ m \in 1..Len(stack')
    BY <1>3, <1>4, <1>15, <2>1
  <2>3. PICK v, g, d : v = stack[m].id /\ g = stack[m].file /\ d = Consumed(stack[m])
    OBVIOUS
  <2>4. /\ Walked(v, g) /\ v # u /\ d \in Nat /\ v \in Ids /\ Active(v)
        /\ \A i \in 1..Len(stack) : stack[i].id = v => i = m
    BY <1>1, <1>3, <1>8, <2>2, <2>3 DEF Active, Framed
  <2>5. Entered(T, stack[m], u)
    BY <1>2, <1>3, <2>2 DEF Timed
  <2>6. /\ d \in Nat \ {0} /\ d \in 1..Len(ImportsAt(g)) /\ Opens(T, v, g, d)
        /\ T[v][d - 1] \in 0..Len(sources) /\ ImportsAt(g)[d] = u
        /\ SourceAt(T[v][d - 1] + 1, u)
    BY <2>3, <2>5 DEF Entered
  <2>7. PICK S : S = SetTime(T, v, d, n)
    OBVIOUS
  <2>8. \A x \in Ids, i \in Nat : S[x][i] = IF x = v /\ i = d THEN n ELSE T[x][i]
    BY <2>7, TimeSet
  <2>9. \A j \in 1..Len(sources') : S[sources'[j][1]][0] = j
    <3> TAKE j \in 1..Len(sources')
    <3>1. sources[j][1] \in Ids /\ T[sources[j][1]][0] = j
      BY <1>1 DEF Timed, WInv, Typed, Listed
    <3> QED
      BY <1>1, <2>6, <2>8, <3>1
  <2>10. S[stack'[Len(stack')].id][Consumed(stack'[Len(stack')])] = Len(sources')
    BY <1>4, <1>7, <2>2, <2>3, <2>4, <2>8
  <2>11. ASSUME NEW i \in 1..Len(stack'), i < Len(stack')
         PROVE  Entered(S, stack[i], stack[i + 1].id)'
    <3>1. i \in 1..Len(stack) /\ i < Len(stack) /\ i # m /\ i + 1 \in 1..Len(stack')
      BY <1>4, <2>2, <2>11
    <3>2. Entered(T, stack[i], stack[i + 1].id) /\ stack'[i] = stack[i] /\ stack'[i + 1] = stack[i + 1]
      BY <1>4, <3>1 DEF Timed
    <3>3. stack[i].id # v /\ stack[i].id \in Ids /\ Consumed(stack[i]) - 1 \in Nat
      <4>1. stack[i].id \in Ids
        BY <1>3, <1>8, <3>1
      <4> QED
        BY <2>4, <3>1, <3>2, <4>1 DEF Entered
    <3>4. S[stack[i].id][Consumed(stack[i]) - 1] = T[stack[i].id][Consumed(stack[i]) - 1]
      BY <2>8, <3>3
    <3>5. \A x, y : x = stack[i] /\ y = stack[i + 1].id => Entered(S, x, y)'
      BY <1>1, <1>12, <3>2, <3>4, EnteredStays
    <3> QED
      BY <3>2, <3>5
  <2>12. ASSUME NEW id, NEW q, Walked(id, q), NEW k \in 1..Len(ImportsAt(q))
         PROVE  Settled(S, id, q, k)' \/ Pending(id, k)'
    <3>1. k \in Nat \ {0} /\ id \in Ids /\ k - 1 \in Nat
      BY <1>8, <2>12
    <3>2. CASE Pending(id, k)
      <4>1. PICK i \in 1..Len(stack') : stack[i].id = id /\ (k > Consumed(stack[i]) \/ k = Consumed(stack[i]))
        BY <1>13, <2>12, <3>2
      <4>2. stack'[i] = stack[i] /\ i \in 1..Len(stack)
        BY <1>4
      <4>3. CASE k > Consumed(stack[i]) \/ i # m
        <5>1. k > Consumed(stack[i]) \/ (k = Consumed(stack[i]) /\ i < Len(stack'))
          BY <2>2, <4>1, <4>3
        <5> QED
          BY <1>9, <4>1, <4>2, <5>1 DEF Pending
      <4>4. CASE k = Consumed(stack[i]) /\ i = m
        <5>1. id = v /\ k = d /\ q = g
          BY <2>3, <2>4, <2>12, <4>1, <4>4, OneWalked
        <5>2. S[v][d] = n /\ S[v][d - 1] = T[v][d - 1] /\ d - 1 \in Nat
          BY <2>4, <2>6, <2>8
        <5>3. Ends(S, u, Join[g][u]) = n
          <6>1. Join[g][u] = f
            <7>1. Walked(u, Join[g][u])
              BY <2>4, <2>6, OpenedIsWalked, <1>1
            <7> QED
              BY <1>3, <7>1, OneWalked
          <6> QED
            BY <1>6, <1>7, <1>8, <2>4, <2>8, <6>1 DEF Ends
        <5>4. SourceAt(S[v][d - 1] + 1, u)'
          BY <1>1, <2>6, <5>2 DEF SourceAt
        <5>5. ~Active(u)'
          BY <1>10
        <5>6. Opens(S, v, g, d)'
          <6>1. \A w, j : Known(j, w)' <=> Known(j, w)
            BY <1>1 DEF Known
          <6>2. \A x : Exists(x)' <=> Exists(x)
            BY <1>1, SameLists
          <6>3. ~Known(T[v][d - 1], u) /\ Surface[u] = "ifml" /\ Exists(Join[g][u])
            BY <2>6 DEF Opens
          <6> QED
            BY <1>9, <2>6, <5>2, <6>1, <6>2, <6>3 DEF Opens
        <5>7. Ends(S, u, Join[g][u])' = n
          BY <1>9, <5>3 DEF Ends
        <5>8. Settled(S, v, g, d)'
          BY <1>1, <1>9, <2>6, <5>2, <5>4, <5>5, <5>6, <5>7 DEF Settled
        <5> QED
          BY <5>1, <5>8
      <4> QED
        BY <4>1, <4>3, <4>4
    <3>3. CASE Settled(T, id, q, k) /\ ~Pending(id, k)
      <4>1. id = v => k < d
        <5> SUFFICES ASSUME id = v PROVE ~(k > d) /\ k # d
          BY <2>4, <3>1
        <5> QED
          BY <2>2, <2>3, <3>3 DEF Pending
      <4>2. S[id][k] = T[id][k] /\ S[id][k - 1] = T[id][k - 1]
        BY <2>4, <2>8, <3>1, <4>1
      <4>3. ASSUME NEW w, w = ImportsAt(q)[k], SourceAt(T[id][k - 1] + 1, w), ~Active(w)
            PROVE  ~Active(w)' /\ Ends(S, w, Join[q][w]) = Ends(T, w, Join[q][w])
        <5>1. w # v
          BY <2>4, <4>3
        <5>2. w \in Ids /\ Len(ImportsAt(Join[q][w])) \in Nat
          BY <2>12, <4>3, OpenedIsWalked
        <5> QED
          BY <1>10, <2>8, <4>3, <5>1, <5>2 DEF Ends
      <4> QED
        BY <1>1, <1>12, <3>1, <3>3, <4>2, <4>3, SettledStays
    <3> QED
      BY <2>12, <3>2, <3>3 DEF Timed
  <2>13. stack' # <<>>
    <3>1. stack' \in Seq(Frames) /\ Len(stack') \in Nat \ {0}
      BY <1>1, <2>2, WithoutLast DEF Returns, WInv, Typed, Below
    <3> QED
      BY <3>1
  <2>14. Timed(S)'
    <3>1. \A id, q : Walked(id, q)' => \A k \in 1..Len(ImportsAt(q)) : Settled(S, id, q, k)' \/ Pending(id, k)'
      BY <1>11, <2>12
    <3> QED
      BY <1>1, <1>9, <2>9, <2>10, <2>11, <2>13, <3>1 DEF Timed
  <2> QED
    BY <2>14
<1> QED
  BY <1>14, <1>15

LEMMA StaysKeepsTimes ==
    ASSUME PInv, NEW T, Timed(T), Stays
    PROVE  Timed(T)'
<1>1. /\ disk' = disk /\ entryId' = entryId /\ sources' = sources /\ stack' = stack
      /\ Len(sources) \in Nat /\ Len(sources') \in Nat /\ Len(sources) <= Len(sources')
  BY DEF Stays, PInv, WInv, Typed
<1>2. /\ \A frame : Consumed(frame)' = Consumed(frame)
      /\ \A q : ImportsAt(q)' = ImportsAt(q)
  BY <1>1, SameLists
<1>3. /\ \A id, q : Walked(id, q)' <=> Walked(id, q)
      /\ \A id : Active(id)' <=> Active(id)
  BY <1>1 DEF Walked, Active
<1>4. \A id, k : Pending(id, k) => Pending(id, k)'
  BY <1>1, <1>2 DEF Pending
<1>5. ASSUME NEW id, NEW q, Walked(id, q), NEW k \in 1..Len(ImportsAt(q)), Settled(T, id, q, k)
      PROVE  Settled(T, id, q, k)'
  <2>1. k \in Nat \ {0}
    BY <1>5, OneWalked
  <2> QED
    BY <1>1, <1>3, <1>5, <2>1, SettledStays
<1>6. ASSUME NEW i \in 1..Len(stack), i < Len(stack)
      PROVE  Entered(T, stack[i], stack[i + 1].id)'
  <2>1. Entered(T, stack[i], stack[i + 1].id)
    BY <1>6 DEF Timed
  <2>2. \A x, y : x = stack[i] /\ y = stack[i + 1].id => Entered(T, x, y)'
    BY <1>1, <2>1, EnteredStays
  <2> QED
    BY <1>1, <2>2
<1>7. \A id, q : Walked(id, q)' => \A k \in 1..Len(ImportsAt(q)) : Settled(T, id, q, k)' \/ Pending(id, k)'
  BY <1>3, <1>4, <1>5 DEF Timed
<1>8. stack' = <<>> => Ends(T, entryId, Entry)' = Len(sources')
  BY <1>1, <1>2 DEF Timed, Ends
<1>9. /\ \A j \in 1..Len(sources') : T[sources'[j][1]][0] = j
      /\ \A i \in 1..Len(stack') : i = Len(stack') => T[stack'[i].id][Consumed(stack'[i])] = Len(sources')
  BY <1>1, <1>2 DEF Timed
<1> QED
  BY <1>1, <1>2, <1>6, <1>7, <1>8, <1>9 DEF Timed

OInv == PInv /\ \E T : Timed(T)

LEMMA InitHasOrder ==
    ASSUME OneFilePerName, CInit
    PROVE  OInv
<1>1. PInv
  BY InitHasPlaces
<1>2. stack = <<Frame(entryId, Entry)>> /\ sources = <<<<entryId, Entry>>>>
  BY DEF CInit, RInit, Init
<1>3. /\ Len(sources) = 1 /\ sources[1] = <<entryId, Entry>>
      /\ Len(stack) = 1 /\ stack[1] = Frame(entryId, Entry) /\ stack # <<>>
  BY <1>2
<1>4. Walked(entryId, Entry)
  BY <1>3 DEF Walked
<1>5. Consumed(stack[1]) = 0 /\ stack[1].id = entryId /\ entryId \in Ids
  BY <1>1, <1>3, <1>4, OneWalked DEF Consumed, Frame
<1>6. PICK T : T = [id \in Ids |-> [k \in Nat |-> 1]]
  OBVIOUS
<1>7. T[entryId][0] = 1
  BY <1>5, <1>6
<1>8. ASSUME NEW id, NEW p, Walked(id, p), NEW k \in 1..Len(ImportsAt(p)) PROVE Pending(id, k)
  <2>1. id = entryId
    BY <1>3, <1>8 DEF Walked
  <2>2. k > 0
    BY <1>1, <1>8, OneWalked
  <2> QED
    BY <1>3, <1>5, <2>1, <2>2 DEF Pending
<1>9. Timed(T)
  BY <1>3, <1>5, <1>7, <1>8 DEF Timed
<1> QED
  BY <1>1, <1>9 DEF OInv

LEMMA NextKeepsOrder ==
    ASSUME OInv, [CNext]_compilationVars
    PROVE  OInv'
<1>1. PInv /\ PInv' /\ WInv
  BY NextKeepsPlaces DEF OInv, PInv
<1>2. PICK T : Timed(T)
  BY DEF OInv
<1>3. ASSUME NEW written \in Written, NEW p \in Paths, Consumes(written, p) PROVE \E S : Timed(S)'
  BY <1>1, <1>2, <1>3, ConsumesKeepsTimes
<1>4. ASSUME NEW written \in Written, NEW p \in Paths, Pushes(written, p) PROVE \E S : Timed(S)'
  BY <1>1, <1>2, <1>4, PushesKeepsTimes
<1>5. ASSUME Returns PROVE \E S : Timed(S)'
  BY <1>1, <1>2, <1>5, ReturnsKeepsTimes
<1>6. ASSUME Stays PROVE \E S : Timed(S)'
  BY <1>1, <1>2, <1>6, StaysKeepsTimes
<1>7. \E S : Timed(S)'
  BY <1>1, <1>3, <1>4, <1>5, <1>6, StepsOfWalk
<1> QED
  BY <1>1, <1>7 DEF OInv

\* What a walk leaves behind once it is over.
LEMMA AfterWalk ==
    ASSUME PInv, NEW T, Timed(T), stage # "walk",
           NEW id, NEW p, Walked(id, p), NEW k \in 1..Len(ImportsAt(p)), NEW w, w = ImportsAt(p)[k]
    PROVE  /\ Settled(T, id, p, k)
           /\ Surface[w] = "ifml" =>
                 IF Exists(Join[p][w])
                 THEN <<id, w>> \in DOMAIN bundle /\ bundle[<<id, w>>] = Join[p][w]
                 ELSE <<id, w>> \notin DOMAIN bundle /\ <<id, w>> \in unresolved
<1>1. stack = <<>>
  BY DEF PInv, WInv
<1>2. ~Pending(id, k) /\ ~Waits(id, k)
  BY <1>1 DEF Pending, Waits
<1>3. Settled(T, id, p, k)
  BY <1>2 DEF Timed
<1>4. ASSUME <<id, w>> \in DOMAIN bundle
      PROVE  bundle[<<id, w>>] = Join[p][w] /\ Exists(Join[p][w])
  <2>1. PICK q : Walked(id, q) /\ bundle[<<id, w>>] = Join[q][w] /\ Exists(Join[q][w])
    BY <1>4 DEF PInv, Bundled
  <2> QED
    BY <2>1, OneWalked
<1>5. Surface[w] = "ifml" => Provided(id, p, w)
  BY <1>2 DEF PInv, Bundled
<1> QED
  BY <1>3, <1>4, <1>5 DEF Provided

LEMMA FileOfVisited ==
    ASSUME PInv, NEW id \in visited
    PROVE  Walked(id, pathOf[id])
<1>1. PICK j \in 1..Len(sources) : sources[j][1] = id
  BY DEF PInv, Listed, Known
<1>2. Denotes(id, sources[j][2]) /\ Denotes(id, pathOf[id])
  BY <1>1 DEF PInv, Listed, WInv, Found
<1>3. sources[j][2] = pathOf[id]
  BY <1>2, OneMeaning DEF PInv, WInv
<1>4. sources[j] \in Ids \X Paths
  BY DEF PInv, WInv, Typed
<1> QED
  BY <1>1, <1>3, <1>4 DEF Walked

-----------------------------------------------------------------------------
(* The resolver follows the walk. *)

RFrames == [id : Ids, rest : Seq(Written)]

FileOf(id) == pathOf[id]
Parsed(source) == disk[source[2]].parses

RConsumed(frame) == Len(ImportsAt(FileOf(frame.id))) - Len(frame.rest)

\* The resolver's position: it has come to the first m files of the walk.
Reached(m) ==
    /\ m \in 1..Len(sources)
    /\ \A id : id \in rvisited <=> \E j \in 1..m : sources[j][1] = id /\ Parsed(sources[j])
    /\ index \in Seq(Ids \X Paths) /\ Len(index) >= 1 /\ index[1] = <<entryId, Entry>>
    /\ \A k \in 1..Len(index) : \E j \in 1..m : Parsed(sources[j]) /\ sources[j] = index[k]
    /\ \A j \in 1..m : Parsed(sources[j]) => \E k \in 1..Len(index) : index[k] = sources[j]
    /\ \A k, l \in 1..Len(index) : k < l =>
          \E i, j \in 1..m : i < j /\ sources[i] = index[k] /\ sources[j] = index[l]

\* The resolver's frame is within its last consumed import, as the walker was.
REntered(T, frame, id) ==
    /\ RConsumed(frame) \in Nat \ {0}
    /\ RConsumed(frame) \in 1..Len(ImportsAt(FileOf(frame.id)))
    /\ Opens(T, frame.id, FileOf(frame.id), RConsumed(frame))
    /\ ImportsAt(FileOf(frame.id))[RConsumed(frame)] = id

Follows(T, m) ==
    /\ rstack \in Seq(RFrames)
    /\ rstack # <<>> => rstack[1].id = entryId
    /\ \A i \in 1..Len(rstack) :
          /\ rstack[i].id \in rvisited
          /\ IsLeft(rstack[i].rest, ImportsAt(FileOf(rstack[i].id)))
          /\ i = Len(rstack) => T[rstack[i].id][RConsumed(rstack[i])] = m
          /\ i < Len(rstack) => REntered(T, rstack[i], rstack[i + 1].id)

Resolving ==
    \E T, m :
        /\ Timed(T) /\ Reached(m) /\ Follows(T, m)
        /\ stage # "resolve" => m = Len(sources)

NotProvidedIsUnresolved ==
    \A d \in diags : d[1] = "E_IMPORT_NOT_PROVIDED" => <<d[2], d[3]>> \in unresolved

RInv ==
    /\ OInv
    /\ stage \in {"walk", "walked", "resolve", "done", "table"}
    /\ stage \in {"walk", "walked"} => rstack = <<>> /\ rvisited = {} /\ index = <<>> /\ diags = {}
    /\ stage \in {"resolve", "table"} => disk[Entry].parses
    /\ stage = "resolve" => rstack # <<>>
    /\ stage \in {"done", "table"} => rstack = <<>>
    /\ stage \notin {"walk", "walked"} /\ disk[Entry].parses => Resolving
    /\ NotProvidedIsUnresolved

\* The resolver changes nothing of the walk.
LEMMA SameWalk ==
    ASSUME UNCHANGED <<input, walkVars>>
    PROVE  /\ disk' = disk /\ entryId' = entryId /\ stack' = stack /\ sources' = sources
           /\ unresolved' = unresolved /\ visited' = visited
           /\ \A id : FileOf(id)' = FileOf(id)
           /\ \A p : ImportsAt(p)' = ImportsAt(p) /\ (Exists(p)' <=> Exists(p))
           /\ \A frame : RConsumed(frame)' = RConsumed(frame)
           /\ \A source : Parsed(source)' <=> Parsed(source)
           /\ \A T, id, p, k : Opens(T, id, p, k)' <=> Opens(T, id, p, k)
           /\ \A T, frame, id : REntered(T, frame, id)' <=> REntered(T, frame, id)
<1>1. /\ disk' = disk /\ entryId' = entryId /\ sources' = sources /\ pathOf' = pathOf
      /\ stack' = stack /\ unresolved' = unresolved /\ visited' = visited
  BY DEF input, walkVars
<1>2. \A id : FileOf(id)' = FileOf(id)
  BY <1>1 DEF FileOf
<1>3. \A p : ImportsAt(p)' = ImportsAt(p) /\ (Exists(p)' <=> Exists(p))
  BY <1>1, SameLists
<1>4. \A frame : RConsumed(frame)' = RConsumed(frame)
  BY <1>2, <1>3 DEF RConsumed
<1>5. \A source : Parsed(source)' <=> Parsed(source)
  BY <1>1 DEF Parsed
<1>6. \A n, w : Known(n, w)' <=> Known(n, w)
  BY <1>1 DEF Known
<1>7. \A T, id, p, k : Opens(T, id, p, k)' <=> Opens(T, id, p, k)
  BY <1>3, <1>6 DEF Opens
<1>8. \A T, frame, id : REntered(T, frame, id)' <=> REntered(T, frame, id)
  BY <1>2, <1>3, <1>4, <1>7 DEF REntered
<1> QED
  BY <1>1, <1>2, <1>3, <1>4, <1>5, <1>7, <1>8

\* The files the resolver is within are walked ones.
LEMMA ResolverFiles ==
    ASSUME PInv, NEW T, NEW m, Reached(m), Follows(T, m)
    PROVE  /\ rvisited \subseteq visited
           /\ m \in Nat \ {0} /\ Len(rstack) \in Nat
           /\ \A i \in 1..Len(rstack) :
                 /\ rstack[i] \in RFrames
                 /\ Walked(rstack[i].id, FileOf(rstack[i].id))
                 /\ RConsumed(rstack[i]) \in Nat
<1>1. rvisited \subseteq visited
  <2> SUFFICES ASSUME NEW id \in rvisited PROVE id \in visited
    OBVIOUS
  <2>1. m \in 1..Len(sources) /\ Len(sources) \in Nat
    BY DEF Reached, PInv, WInv, Typed
  <2>2. PICK j \in 1..m : sources[j][1] = id
    BY DEF Reached
  <2>3. j \in 1..Len(sources)
    BY <2>1, <2>2
  <2> QED
    BY <2>2, <2>3 DEF PInv, Listed
<1>2. m \in Nat \ {0} /\ Len(rstack) \in Nat /\ rstack \in Seq(RFrames)
  BY DEF Reached, Follows, PInv, WInv, Typed
<1>3. ASSUME NEW i \in 1..Len(rstack)
      PROVE  /\ rstack[i] \in RFrames
             /\ Walked(rstack[i].id, FileOf(rstack[i].id))
             /\ RConsumed(rstack[i]) \in Nat
  <2>1. rstack[i] \in RFrames /\ rstack[i].id \in visited
    BY <1>1, <1>2 DEF Follows
  <2>2. Walked(rstack[i].id, FileOf(rstack[i].id))
    BY <2>1, FileOfVisited DEF FileOf
  <2>3. Len(ImportsAt(FileOf(rstack[i].id))) \in Nat
    BY <2>2, OneWalked
  <2>4. Len(rstack[i].rest) \in Nat
    BY <2>1 DEF RFrames
  <2>5. Len(rstack[i].rest) <= Len(ImportsAt(FileOf(rstack[i].id)))
    BY DEF Follows, IsLeft
  <2> QED
    BY <2>1, <2>2, <2>3, <2>4, <2>5 DEF RConsumed
<1> QED
  BY <1>1, <1>2, <1>3

LEMMA RFrameWithout ==
    ASSUME NEW f \in RFrames, NEW rest
    PROVE  [f EXCEPT !.rest = rest] = [id |-> f.id, rest |-> rest]
  BY DEF RFrames

\* The import the resolver is at, and its stack once it has consumed it.
LEMMA RInHand ==
    ASSUME PInv, NEW T, NEW m, Reached(m), Follows(T, m), NEW w, AtStatement(w),
           NEW u, NEW f, NEW c, u = RTop.id, f = FileOf(RTop.id), c = RConsumed(RTop)
    PROVE  /\ rstack # <<>> /\ Len(rstack) \in Nat \ {0} /\ RTop = rstack[Len(rstack)]
           /\ u \in visited /\ u \in rvisited /\ Walked(u, f) /\ c \in Nat /\ T[u][c] = m
           /\ ImportsAt(f) \in Seq(Written)
           /\ c + 1 \in 1..Len(ImportsAt(f)) /\ w = ImportsAt(f)[c + 1] /\ w \in Written
           /\ RAdvanced \in Seq(RFrames) /\ Len(RAdvanced) = Len(rstack)
           /\ \A i \in 1..(Len(rstack) - 1) : RAdvanced[i] = rstack[i]
           /\ \A i \in 1..Len(rstack) : RAdvanced[i].id = rstack[i].id
           /\ RAdvanced[Len(rstack)].id = u
           /\ IsLeft(RAdvanced[Len(rstack)].rest, ImportsAt(f))
           /\ RConsumed(RAdvanced[Len(rstack)]) = c + 1
<1>1. /\ rstack # <<>> /\ RTop.rest # <<>> /\ w = Head(RTop.rest) /\ rstack \in Seq(RFrames)
  BY DEF AtStatement, Follows
<1>2. Len(rstack) \in Nat \ {0} /\ Len(rstack) \in 1..Len(rstack) /\ RTop = rstack[Len(rstack)]
  BY <1>1 DEF RTop
<1>3. /\ RTop \in RFrames /\ Walked(u, f) /\ c \in Nat /\ u \in visited /\ u \in rvisited /\ T[u][c] = m
      /\ IsLeft(RTop.rest, ImportsAt(f))
  BY <1>2, ResolverFiles DEF Follows
<1>4. ImportsAt(f) \in Seq(Written) /\ RTop.rest \in Seq(Written)
  BY <1>3, OneWalked DEF RFrames
<1>5. PICK list, rest : list = ImportsAt(f) /\ rest = RTop.rest
  OBVIOUS
<1>6. /\ IsLeft(Tail(rest), list) /\ Len(Tail(rest)) = Len(rest) - 1
      /\ Head(rest) = list[Len(list) - Len(rest) + 1]
      /\ Len(list) - Len(rest) + 1 \in 1..Len(list)
  BY <1>1, <1>3, <1>4, <1>5, LeftAdvances
<1>7. c = Len(list) - Len(rest) /\ Len(list) \in Nat /\ Len(rest) \in Nat
  BY <1>4, <1>5 DEF RConsumed
<1>8. c + 1 \in 1..Len(ImportsAt(f)) /\ w = ImportsAt(f)[c + 1]
  BY <1>1, <1>5, <1>6, <1>7
<1>9. w \in Written
  BY <1>4, <1>8
<1>10. [RTop EXCEPT !.rest = Tail(@)] = [id |-> RTop.id, rest |-> Tail(RTop.rest)]
  BY <1>3, RFrameWithout
<1>11. PICK g : g = [id |-> u, rest |-> Tail(rest)]
  OBVIOUS
<1>12. g \in RFrames /\ g.id = u /\ g.rest = Tail(rest)
  <2>1. Tail(rest) \in Seq(Written)
    BY <1>1, <1>4, <1>5
  <2>2. u \in Ids
    BY <1>3 DEF RFrames
  <2> QED
    BY <1>11, <2>1, <2>2 DEF RFrames
<1>13. RAdvanced = Append(RBelow, g)
  BY <1>5, <1>10, <1>11 DEF RAdvanced
<1>14. /\ RBelow \in Seq(RFrames) /\ Len(RBelow) = Len(rstack) - 1
       /\ \A i \in 1..(Len(rstack) - 1) : RBelow[i] = rstack[i]
  BY <1>1, WithoutLast DEF RBelow
<1>15. /\ RAdvanced \in Seq(RFrames) /\ Len(RAdvanced) = Len(rstack)
       /\ \A i \in 1..(Len(rstack) - 1) : RAdvanced[i] = rstack[i]
       /\ RAdvanced[Len(rstack)] = g
  BY <1>2, <1>12, <1>13, <1>14
<1>16. RConsumed(g) = c + 1
  <2>1. RConsumed(g) = Len(list) - Len(Tail(rest))
    BY <1>5, <1>12 DEF RConsumed
  <2>2. PICK a, b, d : a = Len(list) /\ b = Len(rest) /\ d = Len(Tail(rest))
    OBVIOUS
  <2>3. d = b - 1 /\ c = a - b /\ a \in Nat /\ b \in Nat /\ RConsumed(g) = a - d
    BY <1>6, <1>7, <2>1, <2>2
  <2> QED
    BY <2>3
<1>17. \A i \in 1..Len(rstack) : RAdvanced[i].id = rstack[i].id
  <2> TAKE i \in 1..Len(rstack)
  <2>1. CASE i = Len(rstack)
    BY <1>2, <1>12, <1>15, <2>1
  <2>2. CASE i # Len(rstack)
    BY <1>2, <1>15, <2>2
  <2> QED
    BY <2>1, <2>2
<1> QED
  BY <1>1, <1>2, <1>3, <1>4, <1>5, <1>6, <1>8, <1>9, <1>12, <1>15, <1>16, <1>17

\* The position is one of the walk, of what was visited and of the index.
LEMMA SameReached ==
    ASSUME NEW n, Reached(n), UNCHANGED <<disk, entryId, sources, rvisited, index>>
    PROVE  Reached(n)'
<1>1. /\ n \in 1..Len(sources')
      /\ \A id : id \in rvisited' <=> \E j \in 1..n : sources'[j][1] = id /\ disk'[sources'[j][2]].parses
  BY DEF Reached, Parsed
<1>2. /\ index' \in Seq(Ids \X Paths) /\ Len(index') >= 1 /\ index'[1] = <<entryId', Entry>>
      /\ \A k \in 1..Len(index') : \E j \in 1..n : disk'[sources'[j][2]].parses /\ sources'[j] = index'[k]
      /\ \A j \in 1..n : disk'[sources'[j][2]].parses => \E k \in 1..Len(index') : index'[k] = sources'[j]
  BY DEF Reached, Parsed
<1>3. \A k, l \in 1..Len(index') : k < l =>
          \E i, j \in 1..n : i < j /\ sources'[i] = index'[k] /\ sources'[j] = index'[l]
  <2>1. \A k, l \in 1..Len(index) : k < l =>
          \E i, j \in 1..n : i < j /\ sources[i] = index[k] /\ sources[j] = index[l]
    BY DEF Reached
  <2>2. sources' = sources /\ index' = index
    OBVIOUS
  <2>3. ASSUME NEW k \in 1..Len(index), NEW l \in 1..Len(index), k < l
        PROVE  \E i, j \in 1..n : i < j /\ sources'[i] = index'[k] /\ sources'[j] = index'[l]
    BY <2>1, <2>2, <2>3
  <2>4. Len(index') = Len(index)
    BY <2>2
  <2> QED
    BY <2>3, <2>4
<1> QED
  BY <1>1, <1>2, <1>3 DEF Reached, Parsed

\* The resolver goes on to the next import, its position perhaps moved.
LEMMA SkipFollows ==
    ASSUME PInv, NEW T, NEW m, Reached(m), Follows(T, m), NEW w, AtStatement(w),
           rstack' = RAdvanced, UNCHANGED <<input, walkVars, rvisited, index>>,
           NEW n, Reached(n), T[RTop.id][RConsumed(RTop) + 1] = n
    PROVE  Reached(n)' /\ Follows(T, n)'
<1>1. PICK u, f, c : u = RTop.id /\ f = FileOf(RTop.id) /\ c = RConsumed(RTop)
  OBVIOUS
<1>2. /\ rstack # <<>> /\ Len(rstack) \in Nat \ {0} /\ RTop = rstack[Len(rstack)]
      /\ RAdvanced \in Seq(RFrames) /\ Len(RAdvanced) = Len(rstack)
      /\ \A i \in 1..(Len(rstack) - 1) : RAdvanced[i] = rstack[i]
      /\ \A i \in 1..Len(rstack) : RAdvanced[i].id = rstack[i].id
      /\ RAdvanced[Len(rstack)].id = u
      /\ IsLeft(RAdvanced[Len(rstack)].rest, ImportsAt(f))
      /\ RConsumed(RAdvanced[Len(rstack)]) = c + 1
  BY <1>1, RInHand
<1>3. /\ rvisited' = rvisited /\ index' = index /\ sources' = sources /\ entryId' = entryId
      /\ \A source : Parsed(source)' <=> Parsed(source)
  BY SameWalk
<1>4. Reached(n)'
  <2>1. UNCHANGED <<disk, entryId, sources, rvisited, index>>
    BY <1>3, SameWalk
  <2> QED
    BY <2>1, SameReached
<1>5. rstack' \in Seq(RFrames) /\ Len(rstack') = Len(rstack) /\ rstack'[1].id = entryId
  BY <1>2 DEF Follows
<1>6. ASSUME NEW i \in 1..Len(rstack)
      PROVE  /\ rstack'[i].id \in rvisited
             /\ IsLeft(rstack'[i].rest, ImportsAt(FileOf(rstack'[i].id)))
             /\ i = Len(rstack) => T[rstack'[i].id][RConsumed(rstack'[i])] = n
             /\ i < Len(rstack) => REntered(T, rstack'[i], rstack'[i + 1].id)
  <2>1. rstack'[i].id \in rvisited
    BY <1>2 DEF Follows
  <2>2. CASE i = Len(rstack)
    BY <1>1, <1>2, <2>1, <2>2
  <2>3. CASE i # Len(rstack)
    <3>1. /\ rstack'[i] = rstack[i] /\ i < Len(rstack) /\ i + 1 \in 1..Len(rstack)
          /\ rstack'[i + 1].id = rstack[i + 1].id
      BY <1>2, <2>3
    <3> QED
      BY <2>1, <2>3, <3>1 DEF Follows
  <2> QED
    BY <2>2, <2>3
<1>7. Follows(T, n)'
  BY <1>3, <1>5, <1>6, SameWalk DEF Follows
<1> QED
  BY <1>4, <1>7

\* The files of the list that an import string means are all the same.
LEMMA ImportedSource ==
    ASSUME PInv, NEW id, NEW p, Walked(id, p), NEW k \in 1..Len(ImportsAt(p)),
           NEW w, w = ImportsAt(p)[k], NEW q, Walked(w, q)
    PROVE  q = Join[p][w]
<1>1. p \in Paths /\ Exists(p) /\ ImportsAt(p) \in Seq(Written)
  BY OneWalked
<1>2. w \in Mentions(p) /\ w \in Written
  <2>1. w \in ImportedBy(p)
    BY DEF ImportedBy
  <2> QED
    BY <1>1, <2>1, ContentOfFiles DEF PInv, WInv
<1>3. Denotes(w, Join[p][w])
  BY <1>1, <1>2 DEF Denotes
<1>4. Denotes(w, q)
  BY DEF Walked, PInv, Listed
<1> QED
  BY <1>3, <1>4, OneMeaning DEF PInv, WInv

\* What the walk did at the import that the resolver has come to.
LEMMA AsWalked ==
    ASSUME PInv, NEW T, Timed(T), NEW m, Reached(m), Follows(T, m), stage # "walk",
           NEW w, AtStatement(w),
           NEW u, NEW f, NEW c, u = RTop.id, f = FileOf(RTop.id), c = RConsumed(RTop)
    PROVE  /\ Opens(T, u, f, c + 1) <=> Surface[w] = "ifml" /\ Exists(Join[f][w]) /\ ~Known(m, w)
           /\ Opens(T, u, f, c + 1) =>
                 /\ m + 1 \in 1..Len(sources) /\ sources[m + 1] = <<w, Join[f][w]>>
                 /\ T[u][c + 1] = Ends(T, w, Join[f][w])
           /\ ~Opens(T, u, f, c + 1) => T[u][c + 1] = m
           /\ Surface[w] = "ifml" =>
                 IF Exists(Join[f][w])
                 THEN <<u, w>> \in DOMAIN bundle /\ bundle[<<u, w>>] = Join[f][w]
                 ELSE <<u, w>> \notin DOMAIN bundle /\ <<u, w>> \in unresolved
           /\ w \in rvisited => Known(m, w)
           /\ Known(m, w) /\ disk[Join[f][w]].parses => w \in rvisited
<1>1. /\ Walked(u, f) /\ c \in Nat /\ T[u][c] = m /\ w = ImportsAt(f)[c + 1]
      /\ c + 1 \in 1..Len(ImportsAt(f))
  BY RInHand
<1>2. PICK k : k = c + 1
  OBVIOUS
<1>3. k - 1 = c /\ k \in 1..Len(ImportsAt(f)) /\ w = ImportsAt(f)[k]
  BY <1>1, <1>2
<1>4. /\ Settled(T, u, f, k)
      /\ Surface[w] = "ifml" =>
            IF Exists(Join[f][w])
            THEN <<u, w>> \in DOMAIN bundle /\ bundle[<<u, w>>] = Join[f][w]
            ELSE <<u, w>> \notin DOMAIN bundle /\ <<u, w>> \in unresolved
  BY <1>1, <1>3, AfterWalk
<1>5. ASSUME NEW q, Walked(w, q) PROVE q = Join[f][w]
  <2>1. Walked(u, f) /\ k \in 1..Len(ImportsAt(f)) /\ Walked(ImportsAt(f)[k], q)
    BY <1>1, <1>3, <1>5
  <2>2. q = Join[f][ImportsAt(f)[k]]
    BY <2>1, ImportedSource
  <2> QED
    BY <1>3, <2>2
<1>6. m \in 1..Len(sources) /\ m \in Nat /\ Len(sources) \in Nat
  BY DEF Reached, PInv, WInv, Typed
<1>7. \A j \in 1..Len(sources) : sources[j][1] = w => sources[j] = <<w, Join[f][w]>>
  <2> TAKE j \in 1..Len(sources)
  <2>1. sources[j] = <<sources[j][1], sources[j][2]>>
    BY DEF PInv, WInv, Typed
  <2> QED
    BY <1>5, <2>1 DEF Walked
<1>8. Opens(T, u, f, k) <=> Surface[w] = "ifml" /\ Exists(Join[f][w]) /\ ~Known(m, w)
  BY <1>1, <1>3 DEF Opens
<1>9. Opens(T, u, f, k) =>
         /\ m + 1 \in 1..Len(sources) /\ sources[m + 1] = <<w, Join[f][w]>>
         /\ T[u][k] = Ends(T, w, Join[f][w])
  BY <1>1, <1>3, <1>4, <1>7 DEF Settled, SourceAt
<1>10. ~Opens(T, u, f, k) => T[u][k] = m
  BY <1>1, <1>3, <1>4 DEF Settled
<1>11. w \in rvisited => Known(m, w)
  BY DEF Reached, Known
<1>12. Known(m, w) /\ disk[Join[f][w]].parses => w \in rvisited
  <2> SUFFICES ASSUME Known(m, w), disk[Join[f][w]].parses PROVE w \in rvisited
    OBVIOUS
  <2>1. PICK j \in 1..m : sources[j][1] = w
    BY DEF Known
  <2>2. j \in 1..Len(sources)
    BY <1>6, <2>1
  <2>3. Parsed(sources[j])
    BY <1>7, <2>1, <2>2 DEF Parsed
  <2> QED
    BY <2>1, <2>3 DEF Reached
<1> QED
  BY <1>2, <1>4, <1>8, <1>9, <1>10, <1>11, <1>12

\* A file that does not parse is passed over.
LEMMA ReachedNext ==
    ASSUME PInv, NEW m, Reached(m), m + 1 \in 1..Len(sources), ~Parsed(sources[m + 1])
    PROVE  Reached(m + 1)
<1>1. PICK n : n = m + 1
  OBVIOUS
<1>2. m \in Nat /\ Len(sources) \in Nat
  BY DEF Reached, PInv, WInv, Typed
<1>3. /\ \A j \in 1..m : j \in 1..n
      /\ \A j \in 1..n : j \in 1..m \/ j = m + 1
  BY <1>1, <1>2
<1>4. \A id : id \in rvisited <=> \E j \in 1..n : sources[j][1] = id /\ Parsed(sources[j])
  BY <1>3 DEF Reached
<1>5. /\ \A k \in 1..Len(index) : \E j \in 1..n : Parsed(sources[j]) /\ sources[j] = index[k]
      /\ \A j \in 1..n : Parsed(sources[j]) => \E k \in 1..Len(index) : index[k] = sources[j]
  BY <1>3 DEF Reached
<1>6. \A k, l \in 1..Len(index) : k < l =>
          \E i, j \in 1..n : i < j /\ sources[i] = index[k] /\ sources[j] = index[l]
  BY <1>3 DEF Reached
<1> QED
  BY <1>1, <1>4, <1>5, <1>6 DEF Reached

\* The resolver opens no file at this import.
Passes(w) ==
    /\ AtStatement(w) /\ stage = "resolve"
    /\ \/ Surface[w] # "ifml"
       \/ w \in rvisited
       \/ <<RTop.id, w>> \notin DOMAIN bundle
       \/ <<RTop.id, w>> \in DOMAIN bundle /\ ~disk[bundle[<<RTop.id, w>>]].parses
    /\ rstack' = RAdvanced
    /\ UNCHANGED <<input, stage, walkVars, rvisited, index>>

LEMMA PassesKeepsResolving ==
    ASSUME PInv, Resolving, NEW w, Passes(w)
    PROVE  Resolving'
<1>1. PICK T, m : Timed(T) /\ Reached(m) /\ Follows(T, m)
  BY DEF Resolving
<1>2. PICK u, f, c : u = RTop.id /\ f = FileOf(RTop.id) /\ c = RConsumed(RTop)
  OBVIOUS
<1>3. AtStatement(w) /\ stage = "resolve" /\ stage # "walk"
  BY DEF Passes
<1>4. /\ Opens(T, u, f, c + 1) <=> Surface[w] = "ifml" /\ Exists(Join[f][w]) /\ ~Known(m, w)
      /\ Opens(T, u, f, c + 1) =>
            /\ m + 1 \in 1..Len(sources) /\ sources[m + 1] = <<w, Join[f][w]>>
            /\ T[u][c + 1] = Ends(T, w, Join[f][w])
      /\ ~Opens(T, u, f, c + 1) => T[u][c + 1] = m
      /\ Surface[w] = "ifml" =>
            IF Exists(Join[f][w])
            THEN <<u, w>> \in DOMAIN bundle /\ bundle[<<u, w>>] = Join[f][w]
            ELSE <<u, w>> \notin DOMAIN bundle /\ <<u, w>> \in unresolved
      /\ w \in rvisited => Known(m, w)
      /\ Known(m, w) /\ disk[Join[f][w]].parses => w \in rvisited
  BY <1>1, <1>2, <1>3, AsWalked
<1>5. rstack' = RAdvanced /\ UNCHANGED <<input, walkVars, rvisited, index>> /\ stage' = stage
  BY DEF Passes
<1>6. PICK n : n = T[u][c + 1]
  OBVIOUS
<1>7. Reached(n)
  <2>1. CASE ~Opens(T, u, f, c + 1)
    BY <1>1, <1>4, <1>6, <2>1
  <2>2. CASE Opens(T, u, f, c + 1)
    <3>1. ~disk[Join[f][w]].parses
      BY <1>2, <1>4, <2>2 DEF Passes
    <3>2. m + 1 \in 1..Len(sources) /\ sources[m + 1] = <<w, Join[f][w]>>
      BY <1>4, <2>2
    <3>3. ~Parsed(sources[m + 1]) /\ sources[m + 1][1] = w
      BY <3>1, <3>2 DEF Parsed
    <3>4. Reached(m + 1)
      BY <1>1, <3>2, <3>3, ReachedNext
    <3>5. T[w][0] = m + 1
      BY <1>1, <3>2, <3>3 DEF Timed
    <3>6. Len(ImportsAt(Join[f][w])) = 0
      BY <3>1 DEF ImportsAt
    <3>7. n = m + 1
      BY <1>4, <1>6, <2>2, <3>5, <3>6 DEF Ends
    <3> QED
      BY <3>4, <3>7
  <2> QED
    BY <2>1, <2>2
<1>8. Reached(n)' /\ Follows(T, n)'
  BY <1>1, <1>2, <1>3, <1>5, <1>6, <1>7, SkipFollows
<1>9. Timed(T)'
  <2>1. Stays
    BY <1>5 DEF Stays, input, walkVars
  <2> QED
    BY <1>1, <2>1, StaysKeepsTimes
<1> QED
  BY <1>3, <1>5, <1>8, <1>9 DEF Resolving

\* A file that parses joins the index as it joined the list.
LEMMA ReachedAbsorbs ==
    ASSUME PInv, NEW m, Reached(m), m + 1 \in 1..Len(sources), Parsed(sources[m + 1]),
           NEW w, sources[m + 1][1] = w,
           UNCHANGED <<disk, entryId, sources>>,
           rvisited' = rvisited \cup {w}, index' = Append(index, sources[m + 1])
    PROVE  Reached(m + 1)'
<1>1. PICK n, e, old : n = m + 1 /\ e = Len(index) + 1 /\ old = Len(index)
  OBVIOUS
<1>2. m \in Nat /\ Len(sources) \in Nat /\ old \in Nat /\ old >= 1 /\ index \in Seq(Ids \X Paths)
  BY <1>1 DEF Reached, PInv, WInv, Typed
<1>3. /\ \A j \in 1..m : j \in 1..n
      /\ \A j \in 1..n : j \in 1..m \/ j = n
      /\ n \in 1..n /\ n \in 1..Len(sources) /\ \A j \in 1..m : j < n
  BY <1>1, <1>2
<1>4. /\ index' \in Seq(Ids \X Paths) /\ Len(index') = e /\ index'[e] = sources[n]
      /\ \A k \in 1..old : k \in 1..e /\ index'[k] = index[k] /\ k < e
      /\ \A k \in 1..e : k \in 1..old \/ k = e
      /\ e \in 1..e /\ 1 \in 1..old
  <2>1. sources[n] \in Ids \X Paths
    BY <1>3 DEF PInv, WInv, Typed
  <2> QED
    BY <1>1, <1>2, <2>1
<1>5. PICK files : files = index'
  OBVIOUS
<1>6. \A id : id \in rvisited \cup {w} <=> \E j \in 1..n : sources[j][1] = id /\ Parsed(sources[j])
  BY <1>1, <1>3 DEF Reached
<1>7. ASSUME NEW k \in 1..e PROVE \E j \in 1..n : Parsed(sources[j]) /\ sources[j] = files[k]
  <2>1. CASE k = e
    BY <1>1, <1>3, <1>4, <1>5, <2>1
  <2>2. CASE k # e
    <3>1. k \in 1..Len(index) /\ files[k] = index[k]
      BY <1>1, <1>4, <1>5, <2>2
    <3>2. PICK j \in 1..m : Parsed(sources[j]) /\ sources[j] = index[k]
      BY <3>1 DEF Reached
    <3> QED
      BY <1>3, <3>1, <3>2
  <2> QED
    BY <2>1, <2>2
<1>8. ASSUME NEW j \in 1..n, Parsed(sources[j]) PROVE \E k \in 1..e : files[k] = sources[j]
  <2>1. CASE j = n
    BY <1>4, <1>5, <2>1
  <2>2. CASE j # n
    <3>1. j \in 1..m
      BY <1>3, <2>2
    <3>2. PICK k \in 1..Len(index) : index[k] = sources[j]
      BY <1>8, <3>1 DEF Reached
    <3> QED
      BY <1>1, <1>4, <1>5, <3>2
  <2> QED
    BY <2>1, <2>2
<1>9. ASSUME NEW k \in 1..e, NEW l \in 1..e, k < l
      PROVE  \E i, j \in 1..n : i < j /\ sources[i] = files[k] /\ sources[j] = files[l]
  <2>1. CASE l # e
    <3>1. k \in 1..old /\ l \in 1..old
      BY <1>1, <1>2, <1>9, <2>1
    <3>2. PICK i \in 1..m, j \in 1..m : i < j /\ sources[i] = index[k] /\ sources[j] = index[l]
      BY <1>1, <1>9, <3>1 DEF Reached
    <3> QED
      BY <1>3, <1>4, <1>5, <3>1, <3>2
  <2>2. CASE l = e
    <3>1. k \in 1..old
      BY <1>1, <1>2, <1>9, <2>2
    <3>2. PICK i \in 1..m : sources[i] = index[k]
      BY <1>1, <3>1 DEF Reached
    <3> QED
      BY <1>3, <1>4, <1>5, <2>2, <3>1, <3>2
  <2> QED
    BY <2>1, <2>2
<1>10. disk' = disk /\ sources' = sources /\ entryId' = entryId /\ rvisited' = rvisited \cup {w} /\ index' = files
  BY <1>5
<1>11. /\ n \in 1..Len(sources')
       /\ \A id : id \in rvisited' <=> \E j \in 1..n : sources'[j][1] = id /\ disk'[sources'[j][2]].parses
  BY <1>3, <1>6, <1>10 DEF Parsed
<1>12. /\ index' \in Seq(Ids \X Paths) /\ Len(index') >= 1 /\ index'[1] = <<entryId', Entry>>
       /\ \A k \in 1..Len(index') : \E j \in 1..n : disk'[sources'[j][2]].parses /\ sources'[j] = index'[k]
       /\ \A j \in 1..n : disk'[sources'[j][2]].parses => \E k \in 1..Len(index') : index'[k] = sources'[j]
  <2>1. index'[1] = <<entryId', Entry>>
    BY <1>4, <1>10 DEF Reached
  <2>2. Len(index') >= 1
    BY <1>1, <1>2, <1>4
  <2>3. /\ \A k \in 1..e : \E j \in 1..n : disk[sources[j][2]].parses /\ sources[j] = files[k]
        /\ \A j \in 1..n : disk[sources[j][2]].parses => \E k \in 1..e : files[k] = sources[j]
    BY <1>7, <1>8 DEF Parsed
  <2> QED
    BY <1>4, <1>10, <2>1, <2>2, <2>3
<1>13. ASSUME NEW k \in 1..Len(index'), NEW l \in 1..Len(index'), k < l
       PROVE  \E i, j \in 1..n : i < j /\ sources'[i] = index'[k] /\ sources'[j] = index'[l]
  BY <1>4, <1>9, <1>10, <1>13
<1>14. \A k, l \in 1..Len(index') : k < l =>
          \E i, j \in 1..n : i < j /\ sources'[i] = index'[k] /\ sources'[j] = index'[l]
  BY <1>13
<1>15. Reached(n)'
  BY <1>11, <1>12, <1>14 DEF Reached, Parsed
<1> QED
  BY <1>1, <1>15

LEMMA AbsorbKeepsResolving ==
    ASSUME PInv, Resolving, NEW w \in Written, Absorb(w)
    PROVE  Resolving'
<1>1. PICK T, m : Timed(T) /\ Reached(m) /\ Follows(T, m)
  BY DEF Resolving
<1>2. PICK u, f, c : u = RTop.id /\ f = FileOf(RTop.id) /\ c = RConsumed(RTop)
  OBVIOUS
<1>3. AtStatement(w) /\ stage = "resolve" /\ stage # "walk" /\ Surface[w] = "ifml" /\ w \notin rvisited
  BY DEF Absorb, NeedsText, AtLookup, AtStatement
<1>4. /\ Opens(T, u, f, c + 1) <=> Surface[w] = "ifml" /\ Exists(Join[f][w]) /\ ~Known(m, w)
      /\ Opens(T, u, f, c + 1) =>
            /\ m + 1 \in 1..Len(sources) /\ sources[m + 1] = <<w, Join[f][w]>>
            /\ T[u][c + 1] = Ends(T, w, Join[f][w])
      /\ Surface[w] = "ifml" =>
            IF Exists(Join[f][w])
            THEN <<u, w>> \in DOMAIN bundle /\ bundle[<<u, w>>] = Join[f][w]
            ELSE <<u, w>> \notin DOMAIN bundle /\ <<u, w>> \in unresolved
      /\ Known(m, w) /\ disk[Join[f][w]].parses => w \in rvisited
  BY <1>1, <1>2, <1>3, AsWalked
<1>5. PICK p : p = Join[f][w]
  OBVIOUS
<1>6. /\ <<u, w>> \in DOMAIN bundle /\ bundle[<<u, w>>] = p /\ Exists(p)
  BY <1>2, <1>3, <1>4, <1>5 DEF Absorb
<1>7. /\ disk[p].parses /\ index' = Append(index, <<w, p>>)
      /\ rstack' = Append(RAdvanced, [id |-> w, rest |-> disk[p].imports])
      /\ rvisited' = rvisited \cup {w}
      /\ UNCHANGED <<input, stage, walkVars>>
  BY <1>2, <1>6 DEF Absorb
<1>8. /\ Opens(T, u, f, c + 1) /\ m + 1 \in 1..Len(sources) /\ sources[m + 1] = <<w, p>>
  BY <1>3, <1>4, <1>5, <1>6, <1>7
<1>9. /\ rstack # <<>> /\ Len(rstack) \in Nat \ {0} /\ RTop = rstack[Len(rstack)]
      /\ u \in rvisited /\ c \in Nat
      /\ c + 1 \in 1..Len(ImportsAt(f)) /\ w = ImportsAt(f)[c + 1]
      /\ RAdvanced \in Seq(RFrames) /\ Len(RAdvanced) = Len(rstack)
      /\ \A i \in 1..(Len(rstack) - 1) : RAdvanced[i] = rstack[i]
      /\ \A i \in 1..Len(rstack) : RAdvanced[i].id = rstack[i].id
      /\ RAdvanced[Len(rstack)].id = u
      /\ IsLeft(RAdvanced[Len(rstack)].rest, ImportsAt(f))
      /\ RConsumed(RAdvanced[Len(rstack)]) = c + 1
  BY <1>1, <1>2, <1>3, RInHand
<1>10. /\ disk' = disk /\ entryId' = entryId /\ sources' = sources
       /\ \A frame : RConsumed(frame)' = RConsumed(frame)
       /\ \A id : FileOf(id)' = FileOf(id)
       /\ \A q : ImportsAt(q)' = ImportsAt(q)
       /\ \A S, frame, id : REntered(S, frame, id)' <=> REntered(S, frame, id)
  BY <1>7, SameWalk
<1>11. Walked(w, p) /\ w \in Ids /\ ImportsAt(p) \in Seq(Written) /\ w \in visited
  <2>1. Walked(w, p)
    BY <1>8 DEF Walked
  <2> QED
    BY <2>1, OneWalked
<1>12. FileOf(w) = p
  <2>1. Walked(w, FileOf(w))
    BY <1>11, FileOfVisited DEF FileOf
  <2> QED
    BY <1>11, <2>1, OneWalked
<1>13. PICK g : g = [id |-> w, rest |-> ImportsAt(p)]
  OBVIOUS
<1>14. /\ g \in RFrames /\ g.id = w /\ RConsumed(g) = 0 /\ IsLeft(g.rest, ImportsAt(p))
       /\ rstack' = Append(RAdvanced, g)
  <2>1. g \in RFrames /\ g.id = w /\ g.rest = ImportsAt(p)
    BY <1>11, <1>13 DEF RFrames
  <2>2. ImportsAt(p) = disk[p].imports /\ Len(ImportsAt(p)) \in Nat
    BY <1>7, <1>11 DEF ImportsAt
  <2>3. RConsumed(g) = 0
    BY <1>12, <2>1, <2>2 DEF RConsumed
  <2>4. IsLeft(g.rest, ImportsAt(p))
    BY <2>1, <2>2 DEF IsLeft
  <2>5. [id |-> w, rest |-> disk[p].imports] = g
    BY <1>13, <2>2
  <2> QED
    BY <1>7, <2>1, <2>3, <2>4, <2>5
<1>15. PICK n, len : n = m + 1 /\ len = Len(rstack)
  OBVIOUS
<1>16. /\ rstack' \in Seq(RFrames) /\ Len(rstack') = len + 1 /\ rstack'[len + 1] = g
       /\ \A i \in 1..len : rstack'[i] = RAdvanced[i]
       /\ len \in Nat \ {0}
  BY <1>9, <1>14, <1>15
<1>17. T[w][0] = n
  <2>1. sources[m + 1][1] = w
    BY <1>8
  <2> QED
    BY <1>1, <1>8, <1>15, <2>1 DEF Timed
<1>18. REntered(T, RAdvanced[len], w)
  <2>1. c + 1 \in Nat \ {0}
    BY <1>9
  <2>2. RConsumed(RAdvanced[len]) = c + 1 /\ FileOf(RAdvanced[len].id) = f /\ RAdvanced[len].id = u
    BY <1>2, <1>9, <1>15
  <2> QED
    BY <1>8, <1>9, <2>1, <2>2 DEF REntered
<1>19. ASSUME NEW i \in 1..(len + 1)
       PROVE  /\ rstack'[i].id \in rvisited'
              /\ IsLeft(rstack'[i].rest, ImportsAt(FileOf(rstack'[i].id)))
              /\ i = len + 1 => T[rstack'[i].id][RConsumed(rstack'[i])] = n
              /\ i < len + 1 => REntered(T, rstack'[i], rstack'[i + 1].id)
  <2>1. CASE i = len + 1
    BY <1>7, <1>12, <1>14, <1>16, <1>17, <2>1
  <2>2. CASE i = len
    <3>1. rstack'[i] = RAdvanced[len] /\ rstack'[i + 1] = g /\ i \in 1..len /\ i # len + 1
      BY <1>16, <2>2
    <3> QED
      BY <1>2, <1>7, <1>9, <1>14, <1>15, <1>18, <3>1, SMTT(30)
  <2>3. CASE i # len + 1 /\ i # len
    <3>1. /\ i \in 1..(len - 1) /\ i \in 1..len /\ i + 1 \in 1..len /\ i < len
      BY <1>16, <2>3
    <3>2. rstack'[i] = rstack[i] /\ rstack'[i + 1].id = rstack[i + 1].id
      BY <1>9, <1>15, <1>16, <3>1
    <3>3. /\ rstack[i].id \in rvisited /\ IsLeft(rstack[i].rest, ImportsAt(FileOf(rstack[i].id)))
          /\ REntered(T, rstack[i], rstack[i + 1].id)
      BY <1>1, <1>15, <3>1 DEF Follows
    <3> QED
      BY <1>7, <2>3, <3>2, <3>3
  <2> QED
    BY <2>1, <2>2, <2>3
<1>20. Follows(T, n)'
  <2>1. rstack'[1].id = entryId
    <3>1. 1 \in 1..len /\ rstack[1].id = entryId
      BY <1>1, <1>9, <1>16 DEF Follows
    <3> QED
      BY <1>9, <1>15, <1>16, <3>1
  <2> QED
    BY <1>10, <1>16, <1>19, <2>1 DEF Follows
<1>21. Reached(n)'
  <2>1. Parsed(sources[m + 1]) /\ sources[m + 1][1] = w /\ index' = Append(index, sources[m + 1])
    BY <1>7, <1>8 DEF Parsed
  <2> QED
    BY <1>1, <1>7, <1>8, <1>10, <1>15, <2>1, ReachedAbsorbs
<1>22. Timed(T)'
  <2>1. Stays
    BY <1>7 DEF Stays, input, walkVars
  <2> QED
    BY <1>1, <2>1, StaysKeepsTimes
<1> QED
  BY <1>3, <1>7, <1>20, <1>21, <1>22 DEF Resolving

LEMMA ReturnKeepsResolving ==
    ASSUME PInv, Resolving, ResolveReturn
    PROVE  Resolving'
<1>1. PICK T, m : Timed(T) /\ Reached(m) /\ Follows(T, m)
  BY DEF Resolving
<1>2. /\ stage = "resolve" /\ stage # "walk" /\ rstack # <<>> /\ RTop.rest = <<>>
      /\ rstack' = RBelow /\ stage' = (IF RBelow = <<>> THEN "done" ELSE "resolve")
      /\ UNCHANGED <<input, walkVars, rvisited, index>>
  BY DEF ResolveReturn
<1>3. PICK u, f, c : u = RTop.id /\ f = FileOf(RTop.id) /\ c = RConsumed(RTop)
  OBVIOUS
<1>4. /\ rstack \in Seq(RFrames) /\ Len(rstack) \in Nat \ {0} /\ Len(rstack) \in 1..Len(rstack)
      /\ RTop = rstack[Len(rstack)]
  BY <1>1, <1>2 DEF Follows, RTop
<1>5. /\ RTop \in RFrames /\ Walked(u, f) /\ T[u][c] = m /\ u \in visited
      /\ m \in Nat \ {0}
  <2>1. u \in rvisited /\ T[u][c] = m
    BY <1>1, <1>3, <1>4 DEF Follows
  <2> QED
    BY <1>1, <1>3, <1>4, <2>1, ResolverFiles
<1>6. T[u][Len(ImportsAt(f))] = m
  <2>1. c = Len(ImportsAt(f)) - Len(RTop.rest) /\ Len(RTop.rest) = 0
    BY <1>2, <1>3 DEF RConsumed
  <2>2. Len(ImportsAt(f)) \in Nat
    BY <1>5, OneWalked
  <2>3. c = Len(ImportsAt(f))
    BY <2>1, <2>2
  <2> QED
    BY <1>5, <2>3
<1>7. PICK len : len = Len(rstack) - 1
  OBVIOUS
<1>8. /\ len \in Nat /\ RBelow \in Seq(RFrames) /\ Len(RBelow) = len
      /\ \A i \in 1..len : RBelow[i] = rstack[i] /\ i \in 1..Len(rstack)
  <2>1. /\ RBelow \in Seq(RFrames) /\ Len(RBelow) = Len(rstack) - 1
        /\ \A i \in 1..(Len(rstack) - 1) : RBelow[i] = rstack[i]
    BY <1>2, <1>4, WithoutLast DEF RBelow
  <2> QED
    BY <1>4, <1>7, <2>1
<1>9. /\ disk' = disk /\ entryId' = entryId /\ sources' = sources /\ rvisited' = rvisited /\ index' = index
      /\ \A frame : RConsumed(frame)' = RConsumed(frame)
      /\ \A id : FileOf(id)' = FileOf(id)
      /\ \A q : ImportsAt(q)' = ImportsAt(q)
      /\ \A S, frame, id : REntered(S, frame, id)' <=> REntered(S, frame, id)
  BY <1>2, SameWalk
<1>10. Reached(m)'
  BY <1>1, <1>9, SameReached
<1>11. Timed(T)'
  <2>1. Stays
    BY <1>2 DEF Stays, input, walkVars
  <2> QED
    BY <1>1, <2>1, StaysKeepsTimes
<1>12. ASSUME NEW i \in 1..len
       PROVE  /\ rstack[i].id \in rvisited /\ rstack[i] \in RFrames
              /\ IsLeft(rstack[i].rest, ImportsAt(FileOf(rstack[i].id)))
              /\ REntered(T, rstack[i], rstack[i + 1].id)
  <2>1. i \in 1..Len(rstack) /\ i < Len(rstack)
    BY <1>4, <1>7, <1>8
  <2> QED
    BY <1>1, <1>4, <2>1 DEF Follows
<1>13. ASSUME len # 0
       PROVE  T[rstack[len].id][RConsumed(rstack[len])] = m
  <2>1. len \in 1..len /\ rstack[len + 1].id = u
    BY <1>3, <1>4, <1>7, <1>8, <1>13
  <2>2. PICK b, g, k : b = rstack[len].id /\ g = FileOf(rstack[len].id) /\ k = RConsumed(rstack[len])
    OBVIOUS
  <2>3. /\ k \in 1..Len(ImportsAt(g)) /\ Opens(T, b, g, k) /\ ImportsAt(g)[k] = u
    BY <1>12, <2>1, <2>2 DEF REntered
  <2>4. Walked(b, g)
    <3>1. len \in 1..Len(rstack)
      BY <1>8, <2>1
    <3> QED
      BY <1>1, <2>2, <3>1, ResolverFiles
  <2>5. Settled(T, b, g, k)
    BY <1>1, <1>2, <2>3, <2>4, AfterWalk
  <2>6. T[b][k] = Ends(T, u, Join[g][u])
    BY <2>3, <2>5 DEF Settled
  <2>7. f = Join[g][u]
    BY <1>5, <2>3, <2>4, ImportedSource
  <2> QED
    BY <1>6, <2>2, <2>6, <2>7 DEF Ends
<1>14. Follows(T, m)'
  <2>1. rstack' \in Seq(RFrames) /\ Len(rstack') = len
    BY <1>2, <1>8
  <2>2. rstack' # <<>> => rstack'[1].id = entryId
    <3> SUFFICES ASSUME len # 0 PROVE rstack'[1].id = entryId
      BY <2>1
    <3>1. 1 \in 1..len
      BY <1>8
    <3>2. rstack'[1] = rstack[1]
      BY <1>2, <1>8, <3>1
    <3> QED
      BY <1>1, <1>2, <3>2 DEF Follows
  <2>3. ASSUME NEW i \in 1..len
        PROVE  /\ rstack'[i].id \in rvisited
               /\ IsLeft(rstack'[i].rest, ImportsAt(FileOf(rstack'[i].id)))
               /\ i = len => T[rstack'[i].id][RConsumed(rstack'[i])] = m
               /\ i < len => REntered(T, rstack'[i], rstack'[i + 1].id)
    <3>1. rstack'[i] = rstack[i]
      BY <1>2, <1>8
    <3>2. i < len => rstack'[i + 1] = rstack[i + 1]
      <4>1. i < len => i + 1 \in 1..len
        BY <1>8
      <4> QED
        BY <1>2, <1>8, <4>1
    <3>3. len # 0
      BY <1>8
    <3> QED
      BY <1>12, <1>13, <3>1, <3>2, <3>3
  <2> QED
    BY <1>9, <2>1, <2>2, <2>3 DEF Follows
<1>15. stage' # "resolve" => m = Len(sources')
  <2> SUFFICES ASSUME RBelow = <<>> PROVE m = Len(sources)
    BY <1>2, <1>9
  <2>1. Len(rstack) = 1
    <3>1. Len(RBelow) = 0
      OBVIOUS
    <3>2. PICK n : n = Len(rstack)
      OBVIOUS
    <3>3. n \in Nat /\ len = n - 1 /\ len = 0
      BY <1>4, <1>7, <1>8, <3>1, <3>2
    <3>4. n - 1 = 0
      BY <3>3
    <3>5. n = 1
      BY <3>3, <3>4
    <3> QED
      BY <3>2, <3>5
  <2>2. u = entryId
    BY <1>1, <1>2, <1>3, <1>4, <2>1 DEF Follows
  <2>3. Walked(entryId, Entry)
    BY DEF PInv, Listed, Walked
  <2>4. f = Entry
    BY <1>5, <2>2, <2>3, OneWalked
  <2>5. stack = <<>>
    BY <1>2 DEF PInv, WInv
  <2> QED
    BY <1>1, <1>6, <2>2, <2>4, <2>5 DEF Timed, Ends
<1> QED
  BY <1>10, <1>11, <1>14, <1>15 DEF Resolving

LEMMA StartResolves ==
    ASSUME OInv, StartResolve, disk[Entry].parses
    PROVE  Resolving'
<1>1. PInv
  BY DEF OInv
<1>2. PICK T : Timed(T)
  BY DEF OInv
<1>3. PICK g : g = [id |-> entryId, rest |-> disk[Entry].imports]
  OBVIOUS
<1>4. /\ index' = <<<<entryId, Entry>>>> /\ rvisited' = {entryId} /\ stage' = "resolve"
      /\ rstack' = <<g>> /\ UNCHANGED <<input, walkVars>>
  BY <1>3 DEF StartResolve
<1>5. /\ disk' = disk /\ entryId' = entryId /\ sources' = sources
      /\ \A frame : RConsumed(frame)' = RConsumed(frame)
      /\ \A id : FileOf(id)' = FileOf(id)
      /\ \A q : ImportsAt(q)' = ImportsAt(q)
  BY <1>4, SameWalk
<1>6. Timed(T)'
  <2>1. Stays
    BY <1>4 DEF Stays, input, walkVars
  <2> QED
    BY <1>1, <1>2, <2>1, StaysKeepsTimes
<1>7. /\ Len(sources) \in Nat /\ 1 \in 1..Len(sources) /\ sources[1] = <<entryId, Entry>>
      /\ Walked(entryId, Entry)
  BY <1>1 DEF PInv, Listed, WInv, Typed, Walked
<1>8. entryId \in Ids /\ Entry \in Paths /\ ImportsAt(Entry) \in Seq(Written) /\ entryId \in visited
  BY <1>1, <1>7, OneWalked
<1>9. FileOf(entryId) = Entry
  <2>1. Walked(entryId, FileOf(entryId))
    BY <1>1, <1>8, FileOfVisited DEF FileOf
  <2> QED
    BY <1>1, <1>7, <2>1, OneWalked
<1>10. ImportsAt(Entry) = disk[Entry].imports /\ Len(ImportsAt(Entry)) \in Nat
  BY <1>8 DEF ImportsAt
<1>11. /\ g \in RFrames /\ g.id = entryId /\ RConsumed(g) = 0
       /\ IsLeft(g.rest, ImportsAt(FileOf(g.id)))
  <2>1. g \in RFrames /\ g.id = entryId /\ g.rest = ImportsAt(Entry)
    BY <1>3, <1>8, <1>10 DEF RFrames
  <2>2. RConsumed(g) = 0
    BY <1>9, <1>10, <2>1 DEF RConsumed
  <2>3. IsLeft(g.rest, ImportsAt(FileOf(g.id)))
    <3>1. PICK list, n : list = ImportsAt(Entry) /\ n = Len(list)
      OBVIOUS
    <3>2. n \in Nat /\ g.rest = list /\ ImportsAt(FileOf(g.id)) = list
      BY <1>9, <1>10, <2>1, <3>1
    <3>3. \A k \in 1..n : n - n + k = k
      BY <3>2
    <3> QED
      BY <3>1, <3>2, <3>3 DEF IsLeft
  <2> QED
    BY <2>1, <2>2, <2>3
<1>12. T[entryId][0] = 1
  <2>1. sources[1][1] = entryId
    BY <1>7
  <2> QED
    BY <1>2, <1>7, <2>1 DEF Timed
<1>13. Follows(T, 1)'
  <2>1. rstack' \in Seq(RFrames) /\ Len(rstack') = 1 /\ rstack'[1] = g
    BY <1>4, <1>11
  <2>2. \A i \in 1..1 : i = 1
    OBVIOUS
  <2> QED
    BY <1>4, <1>5, <1>11, <1>12, <2>1, <2>2 DEF Follows
<1>14. Reached(1)'
  <2>1. PICK files, e : files = index' /\ e = <<entryId, Entry>>
    OBVIOUS
  <2>2. /\ Len(files) = 1 /\ files[1] = e /\ files \in Seq(Ids \X Paths)
        /\ \A j \in 1..1 : j = 1
        /\ sources[1] = e /\ e[1] = entryId /\ e[2] = Entry
    BY <1>4, <1>7, <1>8, <2>1
  <2>3. /\ index' = files /\ sources' = sources /\ rvisited' = {entryId} /\ disk' = disk
        /\ \A source : Parsed(source)' <=> disk[source[2]].parses
    BY <1>4, <1>5, <2>1 DEF Parsed
  <2>4. \A id : id \in rvisited' <=> \E j \in 1..1 : sources[j][1] = id /\ disk[sources[j][2]].parses
    BY <2>2, <2>3
  <2>5. /\ \A k \in 1..1 : \E j \in 1..1 : disk[sources[j][2]].parses /\ sources[j] = files[k]
        /\ \A j \in 1..1 : disk[sources[j][2]].parses => \E k \in 1..1 : files[k] = sources[j]
        /\ \A k, l \in 1..1 : ~(k < l)
    BY <2>2
  <2> QED
    BY <1>5, <1>7, <2>1, <2>2, <2>3, <2>4, <2>5 DEF Reached
<1> QED
  BY <1>4, <1>6, <1>13, <1>14 DEF Resolving

\* The walk and the table leave the resolver alone.
LEMMA SameResolving ==
    ASSUME PInv, Resolving, UNCHANGED <<input, walkVars, resolveVars>>,
           stage' # "resolve" => stage # "resolve"
    PROVE  Resolving'
<1>1. PICK T, m : Timed(T) /\ Reached(m) /\ Follows(T, m) /\ (stage # "resolve" => m = Len(sources))
  BY DEF Resolving
<1>2. /\ disk' = disk /\ entryId' = entryId /\ sources' = sources
      /\ rvisited' = rvisited /\ index' = index /\ rstack' = rstack
      /\ \A frame : RConsumed(frame)' = RConsumed(frame)
      /\ \A id : FileOf(id)' = FileOf(id)
      /\ \A q : ImportsAt(q)' = ImportsAt(q)
      /\ \A S, frame, id : REntered(S, frame, id)' <=> REntered(S, frame, id)
  BY SameWalk DEF resolveVars
<1>3. Reached(m)'
  BY <1>1, <1>2, SameReached
<1>4. Timed(T)'
  <2>1. Stays
    BY DEF Stays, input, walkVars
  <2> QED
    BY <1>1, <2>1, StaysKeepsTimes
<1>5. Follows(T, m)'
  <2>1. /\ rstack' \in Seq(RFrames)
        /\ rstack' # <<>> => rstack'[1].id = entryId'
    BY <1>1, <1>2 DEF Follows
  <2>2. ASSUME NEW i \in 1..Len(rstack)
        PROVE  /\ rstack[i].id \in rvisited
               /\ IsLeft(rstack[i].rest, ImportsAt(FileOf(rstack[i].id)))
               /\ i = Len(rstack) => T[rstack[i].id][RConsumed(rstack[i])] = m
               /\ i < Len(rstack) => REntered(T, rstack[i], rstack[i + 1].id)
    BY <1>1 DEF Follows
  <2> QED
    BY <1>2, <2>1, <2>2 DEF Follows
<1> QED
  BY <1>1, <1>2, <1>3, <1>4, <1>5 DEF Resolving

LEMMA InitHasResolving ==
    ASSUME OneFilePerName, CInit
    PROVE  RInv
<1>1. OInv
  BY InitHasOrder
<1> QED
  BY <1>1 DEF RInv, CInit, RInit, Init, NotProvidedIsUnresolved

\* An import is reported missing where the walk has recorded it so.
LEMMA ReportsUnresolved ==
    ASSUME RInv, NEW w \in Written, NotProvided(w)
    PROVE  NotProvidedIsUnresolved'
<1>1. PInv /\ stage = "resolve" /\ stage # "walk" /\ AtStatement(w) /\ Surface[w] = "ifml"
  BY DEF RInv, OInv, NotProvided, NeedsText, AtLookup, AtStatement
<1>2. Resolving
  BY <1>1 DEF RInv
<1>3. PICK T, m : Timed(T) /\ Reached(m) /\ Follows(T, m)
  BY <1>2 DEF Resolving
<1>4. PICK u, f, c : u = RTop.id /\ f = FileOf(RTop.id) /\ c = RConsumed(RTop)
  OBVIOUS
<1>5. Surface[w] = "ifml" =>
         IF Exists(Join[f][w])
         THEN <<u, w>> \in DOMAIN bundle /\ bundle[<<u, w>>] = Join[f][w]
         ELSE <<u, w>> \notin DOMAIN bundle /\ <<u, w>> \in unresolved
  BY <1>1, <1>3, <1>4, AsWalked
<1>6. <<RTop.id, w>> \in unresolved
  BY <1>1, <1>4, <1>5 DEF NotProvided
<1>7. diags' = diags \cup {<<"E_IMPORT_NOT_PROVIDED", RTop.id, w>>} /\ unresolved' = unresolved
  BY DEF NotProvided, Report, walkVars
<1> QED
  BY <1>6, <1>7 DEF RInv, NotProvidedIsUnresolved

LEMMA NextKeepsResolving ==
    ASSUME RInv, [CNext]_compilationVars
    PROVE  RInv'
<1>1. OInv /\ OInv' /\ PInv
  BY NextKeepsOrder DEF RInv, OInv
<1>2. CASE WalkNext /\ UNCHANGED resolveVars
  <2>1. stage = "walk"
    BY <1>2, ZenonT(40) DEF WalkNext, FetchMisses, FetchIfml, FetchDomain, FetchActor, FetchOther, AtImport, WalkReturn
  <2>2. stage' \in {"walk", "walked"}
    BY <1>2, <2>1, ZenonT(40) DEF WalkNext, FetchMisses, FetchIfml, FetchDomain, FetchActor, FetchOther, WalkReturn
  <2>3. rstack' = <<>> /\ rvisited' = {} /\ index' = <<>> /\ diags' = {}
    BY <1>2, <2>1 DEF RInv, resolveVars
  <2> QED
    BY <1>1, <2>2, <2>3 DEF RInv, NotProvidedIsUnresolved
<1>3. CASE StartResolve
  <2>1. stage = "walked" /\ diags = {} /\ rstack = <<>> /\ disk' = disk
    BY <1>3 DEF RInv, StartResolve, input
  <2>2. CASE disk[Entry].parses
    <3>1. stage' = "resolve" /\ rstack' # <<>> /\ diags' = {}
      <4>1. PICK g : rstack' = <<g>>
        BY <1>3, <2>2 DEF StartResolve
      <4>2. rstack' # <<>>
        BY <4>1
      <4> QED
        BY <1>3, <2>1, <2>2, <4>2 DEF StartResolve
    <3>2. Resolving'
      BY <1>1, <1>3, <2>2, StartResolves
    <3> QED
      BY <1>1, <2>1, <2>2, <3>1, <3>2 DEF RInv, NotProvidedIsUnresolved
  <2>3. CASE ~disk[Entry].parses
    <3>1. stage' = "done" /\ rstack' = <<>> /\ diags' = {<<"E_PARSE", entryId, entryId>>}
      BY <1>3, <2>1, <2>3 DEF StartResolve
    <3> QED
      BY <1>1, <2>1, <2>3, <3>1 DEF RInv, NotProvidedIsUnresolved
  <2> QED
    BY <2>2, <2>3
<1>4. ASSUME NEW w \in Written,
             \/ PassThrough(w) \/ Circular(w) \/ SkipVisited(w) \/ NotProvided(w) \/ ParseError(w) \/ Absorb(w)
      PROVE  RInv'
  <2>1. /\ stage = "resolve" /\ stage' = "resolve" /\ disk' = disk /\ unresolved' = unresolved
        /\ rstack # <<>> /\ (rstack' = RAdvanced \/ \E g : rstack' = Append(RAdvanced, g))
    BY <1>4 DEF PassThrough, Circular, SkipVisited, NotProvided, ParseError, Absorb, NeedsText, AtLookup,
                AtStatement, input, walkVars
  <2>2. PInv /\ Resolving
    BY <1>1, <2>1 DEF RInv
  <2>3. ASSUME ~Absorb(w) PROVE Resolving'
    <3>1. Passes(w)
      <4>1. Circular(w) => w \in rvisited
        <5> SUFFICES ASSUME NEW i \in 1..Len(rstack), rstack[i].id = w PROVE w \in rvisited
          BY DEF Circular, ActiveInResolve
        <5>1. PICK T, m : Follows(T, m)
          BY <2>2 DEF Resolving
        <5> QED
          BY <5>1 DEF Follows
      <4> QED
        BY <1>4, <2>3, <4>1 DEF Passes, PassThrough, Circular, SkipVisited, NotProvided, ParseError, NeedsText,
                                AtLookup, AtStatement
    <3> QED
      BY <2>2, <3>1, PassesKeepsResolving
  <2>4. Resolving'
    BY <2>2, <2>3, AbsorbKeepsResolving
  <2>5. rstack' # <<>>
    <3>1. PICK T, m : Follows(T, m)
      BY <2>2 DEF Resolving
    <3>2. rstack \in Seq(RFrames) /\ RBelow \in Seq(RFrames)
      BY <2>1, <3>1, WithoutLast DEF Follows, RBelow
    <3>3. \A g : Append(RBelow, g) # <<>>
      BY <3>2
    <3> QED
      BY <2>1, <3>2, <3>3 DEF RAdvanced
  <2>6. NotProvidedIsUnresolved'
    <3>1. CASE NotProvided(w)
      BY <3>1, ReportsUnresolved
    <3>2. CASE ~NotProvided(w)
      <4>1. \A d \in diags' : d \in diags \/ d[1] # "E_IMPORT_NOT_PROVIDED"
        BY <1>4, <3>2 DEF PassThrough, Circular, SkipVisited, ParseError, Absorb, Report
      <4> QED
        BY <2>1, <4>1 DEF RInv, NotProvidedIsUnresolved
    <3> QED
      BY <3>1, <3>2
  <2> QED
    BY <1>1, <2>1, <2>4, <2>5, <2>6 DEF RInv
<1>5. CASE ResolveReturn
  <2>1. stage = "resolve" /\ disk' = disk /\ diags' = diags /\ unresolved' = unresolved /\ rstack' = RBelow
        /\ stage' = (IF RBelow = <<>> THEN "done" ELSE "resolve")
    BY <1>5 DEF ResolveReturn, input, walkVars
  <2>2. Resolving'
    BY <1>1, <1>5, <2>1, ReturnKeepsResolving DEF RInv
  <2> QED
    BY <1>1, <2>1, <2>2 DEF RInv, NotProvidedIsUnresolved
<1>6. CASE \/ Finished \/ StartTable \/ TableNext \/ UNCHANGED compilationVars
  <2>1. /\ UNCHANGED <<input, walkVars, resolveVars>>
        /\ stage' = stage \/ (stage = "done" /\ disk[Entry].parses /\ stage' = "table")
    BY <1>6 DEF Finished, StartTable, TableNext, compilationVars, allVars, Duplicate, DeclareLocal,
                Shadowed, BecomeAmbiguous, Claim, NextFile, SkipAmbiguous, Unknown, Resolve, Step, NextUse,
                NextUsesFile
  <2>2. /\ disk' = disk /\ diags' = diags /\ unresolved' = unresolved /\ rstack' = rstack
        /\ rvisited' = rvisited /\ index' = index
    BY <2>1 DEF input, walkVars, resolveVars
  <2>3. stage \notin {"walk", "walked"} /\ disk[Entry].parses => Resolving'
    <3> SUFFICES ASSUME stage \notin {"walk", "walked"}, disk[Entry].parses PROVE Resolving'
      OBVIOUS
    <3>1. Resolving /\ (stage' # "resolve" => stage # "resolve")
      BY <2>1 DEF RInv
    <3> QED
      BY <1>1, <2>1, <3>1, SameResolving
  <2> QED
    BY <1>1, <2>1, <2>2, <2>3 DEF RInv, NotProvidedIsUnresolved
<1> QED
  BY <1>2, <1>3, <1>4, <1>5, <1>6 DEF CNext, RNext

\* The resolver's side of a compilation whose import strings each mean one file.
LEMMA ResolverInvariant ==
    ASSUME OneFilePerName
    PROVE  CSpec => []RInv
<1>1. CInit => RInv
  BY InitHasResolving
<1>2. RInv /\ [CNext]_compilationVars => RInv'
  BY NextKeepsResolving
<1> QED
  BY <1>1, <1>2, PTL DEF CSpec

\* Walker and resolver agree on the project (walk_ifml_imports and the
\* classifying fetch against resolve_imports): an import reported as not provided
\* is one the walk found no file for, and the index of a finished resolution holds
\* the sources that parse, each with its text, in the order of the walk.
THEOREM ResolverAgreesWithWalk ==
    ASSUME OneFilePerName
    PROVE  CSpec => []ResolverFollowsWalk
<1>1. ASSUME RInv PROVE ResolverFollowsWalk
  <2>1. \A d \in diags : d[1] = "E_IMPORT_NOT_PROVIDED" => <<d[2], d[3]>> \in unresolved
    BY <1>1 DEF RInv, NotProvidedIsUnresolved
  <2>2. ASSUME stage = "done", disk[Entry].parses
        PROVE  /\ {index[k] : k \in 1..Len(index)} =
                     {sources[i] : i \in {j \in 1..Len(sources) : disk[sources[j][2]].parses}}
               /\ \A k, l \in 1..Len(index) : k < l =>
                     \E i, j \in 1..Len(sources) :
                         i < j /\ sources[i] = index[k] /\ sources[j] = index[l]
    <3>1. Reached(Len(sources))
      BY <1>1, <2>2 DEF RInv, Resolving
    <3>2. \A k \in 1..Len(index) : \E j \in 1..Len(sources) :
             disk[sources[j][2]].parses /\ sources[j] = index[k]
      BY <3>1 DEF Reached, Parsed
    <3>3. \A j \in 1..Len(sources) :
             disk[sources[j][2]].parses => \E k \in 1..Len(index) : index[k] = sources[j]
      BY <3>1 DEF Reached, Parsed
    <3>4. {index[k] : k \in 1..Len(index)} =
             {sources[i] : i \in {j \in 1..Len(sources) : disk[sources[j][2]].parses}}
      BY <3>2, <3>3, SMTT(30)
    <3>5. \A k, l \in 1..Len(index) : k < l =>
             \E i, j \in 1..Len(sources) : i < j /\ sources[i] = index[k] /\ sources[j] = index[l]
      BY <3>1 DEF Reached
    <3> QED
      BY <3>4, <3>5
  <2> QED
    BY <2>1, <2>2 DEF ResolverFollowsWalk
<1>2. RInv => ResolverFollowsWalk
  BY <1>1
<1> QED
  BY <1>2, ResolverInvariant, PTL

-----------------------------------------------------------------------------
(* Reachability, and the cycles of the import graph.                         *)

LEMMA ImportsArePaths ==
    ASSUME Typed
    PROVE  \A p \in Paths : Imports(p) \subseteq Paths
<1> SUFFICES ASSUME NEW p \in Paths, NEW q \in Imports(p) PROVE q \in Paths
  OBVIOUS
<1>1. Exists(p)
  BY DEF Imports
<1>2. PICK j \in 1..Len(ImportsAt(p)) : q = Join[p][ImportsAt(p)[j]]
  BY <1>1 DEF Imports
<1>3. ImportsAt(p)[j] \in Written
  BY <1>1, ContentOfFiles DEF ImportedBy
<1> QED
  BY <1>2, <1>3, ImportAssumption

\* A file reaches what it starts from, and what reached files import; and
\* nothing that could be left out.
LEMMA Reaches ==
    ASSUME Typed, NEW S \in SUBSET Paths
    PROVE  /\ ReachedFrom(S) \subseteq Paths
           /\ S \subseteq ReachedFrom(S)
           /\ \A p \in ReachedFrom(S) : Imports(p) \subseteq ReachedFrom(S)
<1> DEFINE Universe == S \cup UNION {Imports(p) : p \in Paths}
           Closures == {T \in SUBSET Universe : S \subseteq T /\ Closed(T)}
<1>1. ReachedFrom(S) = {q \in Universe : \A T \in Closures : q \in T}
  BY DEF ReachedFrom
<1>2. Universe \subseteq Paths
  BY ImportsArePaths
<1>3. ReachedFrom(S) \subseteq Paths /\ S \subseteq ReachedFrom(S)
  BY <1>1, <1>2
<1>4. ASSUME NEW p \in ReachedFrom(S), NEW q \in Imports(p) PROVE q \in ReachedFrom(S)
  <2>1. q \in Universe
    BY <1>3
  <2>2. \A T \in Closures : q \in T
    BY <1>1 DEF Closed
  <2> QED
    BY <1>1, <2>1, <2>2
<1> QED
  BY <1>3, <1>4

LEMMA ReachesLeast ==
    ASSUME Typed, NEW S \in SUBSET Paths, NEW T, S \subseteq T, Closed(T)
    PROVE  ReachedFrom(S) \subseteq T
<1> DEFINE Universe == S \cup UNION {Imports(p) : p \in Paths}
           Closures == {U \in SUBSET Universe : S \subseteq U /\ Closed(U)}
           Here == T \cap Universe
<1>1. ReachedFrom(S) = {q \in Universe : \A U \in Closures : q \in U}
  BY DEF ReachedFrom
<1>2. Universe \subseteq Paths
  BY ImportsArePaths
<1>3. Here \subseteq Universe /\ S \subseteq Here
  OBVIOUS
<1>4. Closed(Here)
  <2> SUFFICES ASSUME NEW p \in Here, NEW q \in Imports(p) PROVE q \in Here
    BY DEF Closed
  <2>1. p \in T /\ p \in Paths
    BY <1>2
  <2>2. q \in T
    BY <2>1 DEF Closed
  <2>3. q \in Universe
    BY <2>1
  <2> QED
    BY <2>2, <2>3
<1>5. Here \in Closures
  BY <1>3, <1>4
<1> QED
  BY <1>1, <1>5

\* The files do not change.
LEMMA SameReach ==
    ASSUME disk' = disk
    PROVE  /\ \A p : Imports(p)' = Imports(p)
           /\ \A S : ReachedFrom(S)' = ReachedFrom(S)
           /\ \A S : Closed(S)' <=> Closed(S)
<1>1. \A p : Imports(p)' = Imports(p)
  BY DEF Imports, ImportsAt, Exists
<1>2. \A S : Closed(S)' <=> Closed(S)
  BY <1>1 DEF Closed
<1>3. ASSUME NEW S PROVE ReachedFrom(S)' = ReachedFrom(S)
  BY <1>1, <1>2 DEF ReachedFrom
<1> QED
  BY <1>1, <1>2, <1>3

Cyclic == \E p \in ReachedFrom({Entry}) : p \in ReachedFrom(Imports(p))
Reported == \E d \in diags : d[1] = "E_CIRCULAR"

Acyclic(S) == Closed(S) /\ \A p \in S : p \notin ReachedFrom(Imports(p))

\* The files the resolver is done with: left, or not to be entered.
Explored ==
    {p \in Paths : /\ Exists(p)
                   /\ ~disk[p].parses \/ \E id \in rvisited : ~ActiveInResolve(id) /\ FileOf(id) = p}

\* The k-th import of the file is none of a flow, or one explored.
Behind(p, k) ==
    LET w == ImportsAt(p)[k]
    IN  Surface[w] = "ifml" /\ Exists(Join[p][w]) => Join[p][w] \in Explored

\* The resolver is within different files, each reaching the next ones.
Chained ==
    \A i, j \in 1..Len(rstack) : i < j =>
        /\ rstack[i].id # rstack[j].id
        /\ FileOf(rstack[j].id) \in ReachedFrom(Imports(FileOf(rstack[i].id)))

\* The imports a frame has consumed are behind it, save the one it is within.
Passed ==
    \A i \in 1..Len(rstack) : \A k \in 1..RConsumed(rstack[i]) :
        \/ Behind(FileOf(rstack[i].id), k)
        \/ i < Len(rstack) /\ k = RConsumed(rstack[i])

CycleInv ==
    /\ RInv
    /\ Chained
    /\ Reported => Cyclic
    /\ ~Reported => Acyclic(Explored) /\ Passed

\* A file that does not parse imports nothing.
LEMMA UnparsedIsAcyclic ==
    ASSUME Typed, NEW p \in Paths, ~disk[p].parses
    PROVE  Imports(p) = {} /\ ReachedFrom({}) = {}
<1>1. Imports(p) = {}
  <2>1. Len(ImportsAt(p)) = 0
    BY DEF ImportsAt
  <2>2. 1..0 = {}
    OBVIOUS
  <2> QED
    BY <2>1, <2>2 DEF Imports
<1>2. ReachedFrom({}) = {}
  <2>1. Closed({}) /\ {} \in SUBSET Paths
    BY DEF Closed
  <2> QED
    BY <2>1, ReachesLeast
<1> QED
  BY <1>1, <1>2

\* The walked files are reached from the entry file.
LEMMA WalkedAreReached ==
    ASSUME WInv, NEW id \in visited
    PROVE  pathOf[id] \in ReachedFrom({Entry})
<1>1. Typed /\ {Entry} \in SUBSET Paths
  BY ImportAssumption DEF WInv
<1>2. /\ ReachedFrom({Entry}) \subseteq Paths /\ Entry \in ReachedFrom({Entry})
      /\ Closed(ReachedFrom({Entry}))
  BY <1>1, Reaches DEF Closed
<1>3. Collected \subseteq ReachedFrom({Entry})
  BY <1>2 DEF WInv, Least
<1> QED
  BY <1>3 DEF WInv, Found

\* The resolver's stack and the import it is at, whatever the times.
LEMMA AtHand ==
    ASSUME PInv, Resolving, stage = "resolve", NEW w, AtStatement(w),
           NEW u, NEW f, NEW c, u = RTop.id, f = FileOf(RTop.id), c = RConsumed(RTop)
    PROVE  /\ Len(rstack) \in Nat \ {0} /\ RTop = rstack[Len(rstack)]
           /\ u \in visited /\ u \in rvisited /\ f \in Paths /\ Exists(f) /\ c \in Nat
           /\ Walked(u, f) /\ c + 1 \in 1..Len(ImportsAt(f)) /\ w = ImportsAt(f)[c + 1] /\ w \in Written
           /\ Len(RAdvanced) = Len(rstack) /\ RAdvanced \in Seq(RFrames)
           /\ \A i \in 1..(Len(rstack) - 1) : RAdvanced[i] = rstack[i]
           /\ \A i \in 1..Len(rstack) : RAdvanced[i].id = rstack[i].id
           /\ RConsumed(RAdvanced[Len(rstack)]) = c + 1
           /\ w \in rvisited => FileOf(w) = Join[f][w] /\ Exists(Join[f][w])
           /\ Surface[w] = "ifml" /\ Exists(Join[f][w]) => FileOf(w) = Join[f][w]
           /\ Surface[w] = "ifml" =>
                 IF Exists(Join[f][w])
                 THEN <<u, w>> \in DOMAIN bundle /\ bundle[<<u, w>>] = Join[f][w]
                 ELSE <<u, w>> \notin DOMAIN bundle
<1>1. PICK T, m : Timed(T) /\ Reached(m) /\ Follows(T, m)
  BY DEF Resolving
<1>2. /\ rstack # <<>> /\ Len(rstack) \in Nat \ {0} /\ RTop = rstack[Len(rstack)]
      /\ u \in visited /\ u \in rvisited /\ Walked(u, f) /\ c \in Nat
      /\ c + 1 \in 1..Len(ImportsAt(f)) /\ w = ImportsAt(f)[c + 1] /\ w \in Written
      /\ RAdvanced \in Seq(RFrames) /\ Len(RAdvanced) = Len(rstack)
      /\ \A i \in 1..(Len(rstack) - 1) : RAdvanced[i] = rstack[i]
      /\ \A i \in 1..Len(rstack) : RAdvanced[i].id = rstack[i].id
      /\ RConsumed(RAdvanced[Len(rstack)]) = c + 1
  <2>1. Reached(m) /\ Follows(T, m)
    BY <1>1
  <2> QED
    BY <2>1, RInHand
<1>3. /\ Surface[w] = "ifml" =>
            IF Exists(Join[f][w])
            THEN <<u, w>> \in DOMAIN bundle /\ bundle[<<u, w>>] = Join[f][w]
            ELSE <<u, w>> \notin DOMAIN bundle /\ <<u, w>> \in unresolved
  BY <1>1, AsWalked
<1>4. f \in Paths /\ Exists(f)
  BY <1>2, OneWalked
<1>5. ASSUME w \in visited PROVE FileOf(w) = Join[f][w] /\ Exists(Join[f][w])
  <2>1. Walked(w, FileOf(w))
    BY <1>5, FileOfVisited DEF FileOf
  <2>2. PICK k : k = c + 1
    OBVIOUS
  <2>3. Walked(ImportsAt(f)[k], FileOf(w)) /\ k \in 1..Len(ImportsAt(f)) /\ Walked(u, f)
    BY <1>2, <2>1, <2>2
  <2>4. FileOf(w) = Join[f][ImportsAt(f)[k]]
    BY <2>3, ImportedSource, ZenonT(40)
  <2>5. Exists(FileOf(w))
    BY <2>1, OneWalked
  <2> QED
    BY <1>2, <2>2, <2>4, <2>5
<1>6. w \in rvisited => w \in visited
  <2>1. Reached(m) /\ Follows(T, m)
    BY <1>1
  <2> QED
    BY <2>1, ResolverFiles
<1>7. ASSUME Surface[w] = "ifml", Exists(Join[f][w]) PROVE w \in visited
  <2>1. Known(m, w) \/ (m + 1 \in 1..Len(sources) /\ sources[m + 1] = <<w, Join[f][w]>>)
    <3>1. Reached(m) /\ Follows(T, m) /\ Timed(T) /\ stage # "walk"
      BY <1>1
    <3>2. /\ Opens(T, u, f, c + 1) <=> Surface[w] = "ifml" /\ Exists(Join[f][w]) /\ ~Known(m, w)
          /\ Opens(T, u, f, c + 1) =>
                /\ m + 1 \in 1..Len(sources) /\ sources[m + 1] = <<w, Join[f][w]>>
                /\ T[u][c + 1] = Ends(T, w, Join[f][w])
          /\ ~Opens(T, u, f, c + 1) => T[u][c + 1] = m
          /\ Surface[w] = "ifml" =>
                IF Exists(Join[f][w])
                THEN <<u, w>> \in DOMAIN bundle /\ bundle[<<u, w>>] = Join[f][w]
                ELSE <<u, w>> \notin DOMAIN bundle /\ <<u, w>> \in unresolved
          /\ w \in rvisited => Known(m, w)
          /\ Known(m, w) /\ disk[Join[f][w]].parses => w \in rvisited
      BY <3>1, AsWalked
    <3> QED
      BY <1>7, <3>2
  <2>2. PICK j \in 1..Len(sources) : sources[j][1] = w
    <3>1. CASE m + 1 \in 1..Len(sources) /\ sources[m + 1] = <<w, Join[f][w]>>
      <4>1. sources[m + 1][1] = w
        BY <3>1
      <4> QED
        BY <3>1, <4>1
    <3>2. CASE Known(m, w)
      <4>1. PICK j \in 1..m : sources[j][1] = w
        BY <3>2 DEF Known
      <4>2. m \in 1..Len(sources) /\ Len(sources) \in Nat
        BY <1>1 DEF Reached, PInv, WInv, Typed
      <4>3. j \in 1..Len(sources)
        BY <4>1, <4>2
      <4> QED
        BY <4>1, <4>3
    <3> QED
      BY <2>1, <3>1, <3>2
  <2> QED
    BY <2>2 DEF PInv, Listed
<1> QED
  BY <1>2, <1>3, <1>4, <1>5, <1>6, <1>7

\* The files of the resolver's frames.
LEMMA FramesAtHand ==
    ASSUME PInv, Resolving
    PROVE  /\ rstack \in Seq(RFrames) /\ Len(rstack) \in Nat /\ rvisited \subseteq visited
           /\ \A i \in 1..Len(rstack) :
                 /\ rstack[i].id \in rvisited /\ rstack[i].id \in visited
                 /\ Walked(rstack[i].id, FileOf(rstack[i].id))
                 /\ FileOf(rstack[i].id) \in Paths /\ Exists(FileOf(rstack[i].id))
                 /\ RConsumed(rstack[i]) \in Nat
<1>1. PICK T, m : Timed(T) /\ Reached(m) /\ Follows(T, m)
  BY DEF Resolving
<1>2. /\ rvisited \subseteq visited /\ Len(rstack) \in Nat /\ rstack \in Seq(RFrames)
      /\ \A i \in 1..Len(rstack) :
            /\ Walked(rstack[i].id, FileOf(rstack[i].id))
            /\ RConsumed(rstack[i]) \in Nat
  BY <1>1, ResolverFiles DEF Follows
<1>3. \A i \in 1..Len(rstack) : rstack[i].id \in rvisited
  BY <1>1 DEF Follows
<1> QED
  BY <1>2, <1>3, OneWalked

\* What is explored depends on the files, on what was visited and on what is active.
LEMMA SameExplored ==
    ASSUME UNCHANGED <<input, walkVars>>,
           \A id : (id \in rvisited' /\ ~ActiveInResolve(id)') <=> (id \in rvisited /\ ~ActiveInResolve(id))
    PROVE  /\ Explored' = Explored
           /\ \A p, k : Behind(p, k)' <=> Behind(p, k)
<1>1. /\ disk' = disk /\ \A id : FileOf(id)' = FileOf(id)
      /\ \A p : ImportsAt(p)' = ImportsAt(p) /\ (Exists(p)' <=> Exists(p))
  BY SameWalk
<1>2. Explored' = Explored
  BY <1>1 DEF Explored
<1> QED
  BY <1>1, <1>2 DEF Behind

LEMMA PassesKeepsCycles ==
    ASSUME CycleInv, Resolving, NEW w, Passes(w),
           Reported' => Cyclic,
           ~Reported' => ~Reported /\ ~(Surface[w] = "ifml" /\ ActiveInResolve(w))
    PROVE  /\ Chained' /\ (Reported' => Cyclic')
           /\ ~Reported' => Acyclic(Explored)' /\ Passed'
<1>1. PInv /\ stage = "resolve" /\ AtStatement(w)
  BY DEF CycleInv, RInv, OInv, Passes
<1>2. PICK u, f, c, len : u = RTop.id /\ f = FileOf(RTop.id) /\ c = RConsumed(RTop) /\ len = Len(rstack)
  OBVIOUS
<1>3. /\ len \in Nat \ {0} /\ RTop = rstack[len]
      /\ f \in Paths /\ Exists(f) /\ c \in Nat
      /\ c + 1 \in 1..Len(ImportsAt(f)) /\ w = ImportsAt(f)[c + 1] /\ w \in Written
      /\ Len(RAdvanced) = len
      /\ \A i \in 1..(len - 1) : RAdvanced[i] = rstack[i]
      /\ \A i \in 1..len : RAdvanced[i].id = rstack[i].id
      /\ RConsumed(RAdvanced[len]) = c + 1
      /\ w \in rvisited => FileOf(w) = Join[f][w] /\ Exists(Join[f][w])
      /\ Surface[w] = "ifml" =>
            IF Exists(Join[f][w])
            THEN <<u, w>> \in DOMAIN bundle /\ bundle[<<u, w>>] = Join[f][w]
            ELSE <<u, w>> \notin DOMAIN bundle
  BY <1>1, <1>2, AtHand
<1>4. rstack' = RAdvanced /\ UNCHANGED <<input, walkVars>> /\ rvisited' = rvisited
  BY DEF Passes
<1>5. /\ disk' = disk /\ \A id : FileOf(id)' = FileOf(id)
      /\ \A frame : RConsumed(frame)' = RConsumed(frame)
      /\ \A p : Imports(p)' = Imports(p)
      /\ \A S : ReachedFrom(S)' = ReachedFrom(S)
      /\ \A S : Closed(S)' <=> Closed(S)
  BY <1>4, SameWalk, SameReach
<1>6. \A id : ActiveInResolve(id)' <=> ActiveInResolve(id)
  BY <1>2, <1>3, <1>4 DEF ActiveInResolve
<1>7. Explored' = Explored /\ \A p, k : Behind(p, k)' <=> Behind(p, k)
  BY <1>4, <1>6, SameExplored
<1>8. Chained'
  <2>1. \A i, j \in 1..len : i < j =>
          /\ rstack[i].id # rstack[j].id
          /\ FileOf(rstack[j].id) \in ReachedFrom(Imports(FileOf(rstack[i].id)))
    BY <1>2 DEF CycleInv, Chained
  <2> QED
    BY <1>3, <1>4, <1>5, <2>1 DEF Chained
<1>9. Cyclic' <=> Cyclic
  BY <1>5 DEF Cyclic
<1>10. ASSUME ~Reported' PROVE Acyclic(Explored)' /\ Passed'
  <2>1. Acyclic(Explored) /\ Passed /\ ~(Surface[w] = "ifml" /\ ActiveInResolve(w))
    BY <1>10 DEF CycleInv
  <2>2. Acyclic(Explored)'
    BY <1>5, <1>7, <2>1 DEF Acyclic
  <2>3. Behind(f, c + 1)
    <3> SUFFICES ASSUME Surface[w] = "ifml", Exists(Join[f][w]) PROVE Join[f][w] \in Explored
      BY <1>3 DEF Behind
    <3>1. Join[f][w] \in Paths
      BY <1>3, ImportAssumption
    <3>2. CASE w \in rvisited
      BY <1>3, <2>1, <3>1, <3>2 DEF Explored
    <3>3. CASE ~disk[Join[f][w]].parses
      BY <3>1, <3>3 DEF Explored
    <3> QED
      BY <1>2, <1>3, <3>2, <3>3 DEF Passes
  <2>4. ASSUME NEW i \in 1..len, NEW k \in 1..RConsumed(rstack'[i])
        PROVE  Behind(FileOf(rstack'[i].id), k) \/ (i < len /\ k = RConsumed(rstack'[i]))
    <3>1. CASE i = len
      <4>1. rstack'[i].id = u /\ RConsumed(rstack'[i]) = c + 1 /\ FileOf(u) = f
        BY <1>2, <1>3, <1>4, <3>1
      <4>2. CASE k = c + 1
        BY <2>3, <4>1, <4>2
      <4>3. CASE k # c + 1
        <5>1. k \in 1..c /\ ~(len < len)
          BY <1>3, <2>4, <4>1, <4>3
        <5>2. rstack[len].id = u /\ RConsumed(rstack[len]) = c /\ len \in 1..Len(rstack)
          BY <1>2, <1>3
        <5>3. Behind(FileOf(u), k)
          BY <1>2, <2>1, <5>1, <5>2 DEF Passed
        <5> QED
          BY <4>1, <5>3
      <4> QED
        BY <4>2, <4>3
    <3>2. CASE i # len
      <4>1. i \in 1..(len - 1) /\ i < len /\ i \in 1..Len(rstack)
        BY <1>2, <1>3, <3>2
      <4>2. rstack'[i] = rstack[i]
        BY <1>3, <1>4, <4>1
      <4> QED
        BY <1>2, <2>1, <2>4, <4>1, <4>2 DEF Passed
    <3> QED
      BY <3>1, <3>2
  <2>5. Passed'
    <3>1. Len(rstack') = len
      BY <1>3, <1>4
    <3> QED
      BY <1>5, <1>7, <2>4, <3>1 DEF Passed
  <2> QED
    BY <2>2, <2>5
<1> QED
  BY <1>8, <1>9, <1>10

\* An import of an active file closes a cycle.
LEMMA CircularIsCyclic ==
    ASSUME CycleInv, Resolving, NEW w, Circular(w)
    PROVE  Cyclic
<1>1. /\ PInv /\ WInv /\ Typed /\ stage = "resolve" /\ AtStatement(w) /\ Surface[w] = "ifml"
      /\ ActiveInResolve(w)
  BY DEF CycleInv, RInv, OInv, PInv, WInv, Circular, AtLookup, AtStatement
<1>2. PICK u, f, c : u = RTop.id /\ f = FileOf(RTop.id) /\ c = RConsumed(RTop)
  OBVIOUS
<1>3. /\ Len(rstack) \in Nat \ {0} /\ RTop = rstack[Len(rstack)]
      /\ u \in visited /\ u \in rvisited /\ f \in Paths /\ Exists(f) /\ c \in Nat
      /\ Walked(u, f) /\ c + 1 \in 1..Len(ImportsAt(f)) /\ w = ImportsAt(f)[c + 1] /\ w \in Written
      /\ Len(RAdvanced) = Len(rstack) /\ RAdvanced \in Seq(RFrames)
      /\ \A i \in 1..(Len(rstack) - 1) : RAdvanced[i] = rstack[i]
      /\ \A i \in 1..Len(rstack) : RAdvanced[i].id = rstack[i].id
      /\ RConsumed(RAdvanced[Len(rstack)]) = c + 1
      /\ w \in rvisited => FileOf(w) = Join[f][w] /\ Exists(Join[f][w])
      /\ Surface[w] = "ifml" /\ Exists(Join[f][w]) => FileOf(w) = Join[f][w]
      /\ Surface[w] = "ifml" =>
            IF Exists(Join[f][w])
            THEN <<u, w>> \in DOMAIN bundle /\ bundle[<<u, w>>] = Join[f][w]
            ELSE <<u, w>> \notin DOMAIN bundle
  <2>1. PInv /\ Resolving /\ stage = "resolve" /\ AtStatement(w)
    BY <1>1
  <2>2. u = RTop.id /\ f = FileOf(RTop.id) /\ c = RConsumed(RTop)
    BY <1>2
  <2> QED
    BY <2>1, <2>2, AtHand
<1>4. PICK i \in 1..Len(rstack) : rstack[i].id = w
  BY <1>1 DEF ActiveInResolve
<1>5. w \in rvisited /\ w \in visited
  BY <1>1, <1>4, FramesAtHand
<1>6. PICK p : p = FileOf(w)
  OBVIOUS
<1>7. p \in Imports(f)
  <2>1. w \in ImportedBy(f) /\ Exists(p) /\ p = Join[f][w]
    BY <1>3, <1>5, <1>6 DEF ImportedBy
  <2> QED
    BY <1>1, <1>3, <2>1, ImportsByString
<1>8. p \in ReachedFrom({Entry})
  BY <1>1, <1>5, <1>6, WalkedAreReached DEF FileOf
<1>9. p \in Paths /\ Imports(p) \in SUBSET Paths
  <2>1. p \in Paths
    BY <1>1, <1>3, <1>7, ImportsArePaths
  <2> QED
    BY <1>1, <2>1, ImportsArePaths
<1>10. f = p \/ f \in ReachedFrom(Imports(p))
  <2>1. CASE i = Len(rstack)
    BY <1>2, <1>3, <1>4, <1>6, <2>1
  <2>2. CASE i # Len(rstack)
    <3>1. i < Len(rstack) /\ Len(rstack) \in 1..Len(rstack)
      BY <1>3, <2>2
    <3> QED
      BY <1>2, <1>3, <1>4, <1>6, <3>1 DEF CycleInv, Chained
  <2> QED
    BY <2>1, <2>2
<1>11. p \in ReachedFrom(Imports(p))
  BY <1>1, <1>7, <1>9, <1>10, Reaches
<1> QED
  BY <1>8, <1>11 DEF Cyclic

LEMMA AbsorbKeepsCycles ==
    ASSUME CycleInv, Resolving, NEW w \in Written, Absorb(w)
    PROVE  /\ Chained' /\ (Reported' => Cyclic')
           /\ ~Reported' => Acyclic(Explored)' /\ Passed'
<1>1. /\ PInv /\ WInv /\ Typed /\ stage = "resolve" /\ AtStatement(w) /\ Surface[w] = "ifml"
      /\ w \notin rvisited /\ ~ActiveInResolve(w)
  BY DEF CycleInv, RInv, OInv, PInv, WInv, Absorb, NeedsText, AtLookup, AtStatement
<1>2. PICK u, f, c, len : u = RTop.id /\ f = FileOf(RTop.id) /\ c = RConsumed(RTop) /\ len = Len(rstack)
  OBVIOUS
<1>3. /\ len \in Nat \ {0} /\ RTop = rstack[len]
      /\ f \in Paths /\ Exists(f) /\ c \in Nat /\ Walked(u, f)
      /\ c + 1 \in 1..Len(ImportsAt(f)) /\ w = ImportsAt(f)[c + 1]
      /\ Len(RAdvanced) = len /\ RAdvanced \in Seq(RFrames)
      /\ \A i \in 1..(len - 1) : RAdvanced[i] = rstack[i]
      /\ \A i \in 1..len : RAdvanced[i].id = rstack[i].id
      /\ RConsumed(RAdvanced[len]) = c + 1
      /\ Surface[w] = "ifml" /\ Exists(Join[f][w]) => FileOf(w) = Join[f][w]
      /\ Surface[w] = "ifml" =>
            IF Exists(Join[f][w])
            THEN <<u, w>> \in DOMAIN bundle /\ bundle[<<u, w>>] = Join[f][w]
            ELSE <<u, w>> \notin DOMAIN bundle
  <2>1. PInv /\ Resolving /\ stage = "resolve" /\ AtStatement(w)
    BY <1>1
  <2> QED
    BY <1>2, <2>1, AtHand
<1>4. PICK p : p = Join[f][w]
  OBVIOUS
<1>5. /\ <<u, w>> \in DOMAIN bundle /\ bundle[<<u, w>>] = p /\ Exists(p)
  BY <1>1, <1>2, <1>3, <1>4 DEF Absorb
<1>6. PICK g : g = [id |-> w, rest |-> disk[p].imports]
  OBVIOUS
<1>7. /\ rstack' = Append(RAdvanced, g) /\ rvisited' = rvisited \cup {w} /\ diags' = diags
      /\ UNCHANGED <<input, walkVars>> /\ disk[p].parses
  BY <1>2, <1>5, <1>6 DEF Absorb
<1>8. p \in Imports(f) /\ p \in Paths
  <2>1. w \in ImportedBy(f)
    BY <1>3 DEF ImportedBy
  <2>2. p \in Imports(f)
    BY <1>1, <1>3, <1>4, <1>5, <2>1, ImportsByString
  <2> QED
    BY <1>1, <1>3, <2>2, ImportsArePaths
<1>9. /\ disk' = disk /\ \A id : FileOf(id)' = FileOf(id)
      /\ \A frame : RConsumed(frame)' = RConsumed(frame)
      /\ \A q : Imports(q)' = Imports(q)
      /\ \A S : ReachedFrom(S)' = ReachedFrom(S)
      /\ \A S : Closed(S)' <=> Closed(S)
  BY <1>7, SameWalk, SameReach
<1>10. FileOf(w) = p
  BY <1>1, <1>3, <1>4, <1>5
<1>11. g.id = w /\ RConsumed(g) = 0
  <2>1. Walked(w, p) \/ ImportsAt(p) \in Seq(Written)
    BY <1>1, <1>5, <1>8, ContentOfFiles
  <2>2. ImportsAt(p) = disk[p].imports /\ ImportsAt(p) \in Seq(Written) /\ g.rest = disk[p].imports /\ g.id = w
    BY <1>1, <1>5, <1>6, <1>7, <1>8, ContentOfFiles DEF ImportsAt
  <2>3. Len(ImportsAt(p)) \in Nat
    BY <2>2
  <2> QED
    BY <1>10, <2>2, <2>3 DEF RConsumed
<1>12. /\ Len(rstack') = len + 1 /\ rstack'[len + 1] = g
       /\ \A i \in 1..len : rstack'[i] = RAdvanced[i] /\ rstack'[i].id = rstack[i].id
       /\ \A i \in 1..(len - 1) : rstack'[i] = rstack[i]
       /\ \A i \in 1..(len + 1) : i # len + 1 => i \in 1..len
       /\ \A i \in 1..len : i # len => i \in 1..(len - 1) /\ i < len /\ i < len + 1
  <2>1. \A h : Append(RAdvanced, h)[len + 1] = h /\ Len(Append(RAdvanced, h)) = len + 1
    BY <1>3
  <2>2. \A i \in 1..len : rstack'[i] = RAdvanced[i]
    BY <1>3, <1>7
  <2>3. /\ \A i \in 1..(len + 1) : i # len + 1 => i \in 1..len
        /\ \A i \in 1..len : i # len => i \in 1..(len - 1) /\ i < len /\ i < len + 1
        /\ \A i \in 1..(len - 1) : i \in 1..len
    BY <1>3
  <2>4. Len(rstack') = len + 1 /\ rstack'[len + 1] = g
    BY <1>7, <2>1
  <2> QED
    BY <1>3, <2>2, <2>3, <2>4
<1>13. Explored' = Explored /\ \A q, k : Behind(q, k)' <=> Behind(q, k)
  <2>1. ASSUME NEW id
        PROVE  (id \in rvisited' /\ ~ActiveInResolve(id)') <=> (id \in rvisited /\ ~ActiveInResolve(id))
    <3>1. ActiveInResolve(id)' <=> ActiveInResolve(id) \/ id = w
      <4>1. ActiveInResolve(id) => ActiveInResolve(id)'
        BY <1>2, <1>3, <1>12 DEF ActiveInResolve
      <4>2. ActiveInResolve(w)'
        <5>1. len + 1 \in 1..Len(rstack')
          BY <1>3, <1>12
        <5> QED
          BY <1>11, <1>12, <5>1 DEF ActiveInResolve
      <4>3. ActiveInResolve(id)' => ActiveInResolve(id) \/ id = w
        <5> SUFFICES ASSUME NEW i \in 1..Len(rstack'), rstack'[i].id = id
                     PROVE  ActiveInResolve(id) \/ id = w
          BY DEF ActiveInResolve
        <5> QED
          BY <1>2, <1>11, <1>12 DEF ActiveInResolve
      <4> QED
        BY <4>1, <4>2, <4>3
    <3> QED
      BY <1>1, <1>7, <3>1
  <2> QED
    BY <1>7, <2>1, SameExplored
<1>14. Chained'
  <2>1. ASSUME NEW i \in 1..(len + 1), NEW j \in 1..(len + 1), i < j
        PROVE  /\ rstack'[i].id # rstack'[j].id
               /\ FileOf(rstack'[j].id) \in ReachedFrom(Imports(FileOf(rstack'[i].id)))
    <3>1. i \in 1..len
      BY <1>3, <2>1
    <3>2. /\ rstack[i].id \in rvisited /\ FileOf(rstack[i].id) \in Paths
      BY <1>1, <1>2, <3>1, FramesAtHand
    <3>3. CASE j = len + 1
      <4>1. rstack'[j].id = w /\ rstack'[i].id = rstack[i].id
        BY <1>11, <1>12, <3>1, <3>3
      <4>2. PICK q : q = FileOf(rstack[i].id)
        OBVIOUS
      <4>3. Imports(q) \in SUBSET Paths /\ Imports(f) \in SUBSET Paths
        BY <1>1, <1>3, <3>2, <4>2, ImportsArePaths
      <4>4. q = f \/ f \in ReachedFrom(Imports(q))
        <5>1. CASE i = len
          BY <1>2, <1>3, <4>2, <5>1
        <5>2. CASE i # len
          <6>1. i < len /\ len \in 1..len
            BY <1>3, <3>1, <5>2
          <6> QED
            BY <1>2, <1>3, <3>1, <4>2, <6>1 DEF CycleInv, Chained
        <5> QED
          BY <5>1, <5>2
      <4>5. p \in ReachedFrom(Imports(q))
        BY <1>1, <1>8, <4>3, <4>4, Reaches
      <4> QED
        BY <1>1, <1>10, <3>2, <4>1, <4>2, <4>5
    <3>4. CASE j # len + 1
      <4>1. j \in 1..len /\ rstack'[j].id = rstack[j].id /\ rstack'[i].id = rstack[i].id
        BY <1>12, <3>1, <3>4
      <4> QED
        BY <1>2, <2>1, <3>1, <4>1 DEF CycleInv, Chained
    <3> QED
      BY <3>3, <3>4
  <2> QED
    BY <1>9, <1>12, <2>1 DEF Chained
<1>15. (Reported' <=> Reported) /\ (Cyclic' <=> Cyclic)
  BY <1>7, <1>9 DEF Reported, Cyclic
<1>16. ASSUME ~Reported' PROVE Acyclic(Explored)' /\ Passed'
  <2>1. Acyclic(Explored) /\ Passed
    BY <1>15, <1>16 DEF CycleInv
  <2>2. Acyclic(Explored)'
    BY <1>9, <1>13, <2>1 DEF Acyclic
  <2>3. ASSUME NEW i \in 1..(len + 1), NEW k \in 1..RConsumed(rstack'[i])
        PROVE  Behind(FileOf(rstack'[i].id), k) \/ (i < len + 1 /\ k = RConsumed(rstack'[i]))
    <3>1. CASE i = len + 1
      <4>1. k \in 1..0
        BY <1>11, <1>12, <2>3, <3>1
      <4> QED
        BY <4>1
    <3>2. CASE i = len
      <4>1. /\ i \in 1..len /\ RConsumed(rstack'[i]) = c + 1 /\ rstack'[i].id = u /\ FileOf(u) = f
            /\ rstack[len].id = u /\ RConsumed(rstack[len]) = c /\ len \in 1..Len(rstack)
        BY <1>2, <1>3, <1>12, <3>2
      <4>2. CASE k = c + 1
        BY <1>3, <3>2, <4>1, <4>2
      <4>3. CASE k # c + 1
        <5>1. k \in 1..c /\ ~(len < len)
          BY <1>3, <2>3, <4>1, <4>3
        <5>2. Behind(FileOf(u), k)
          BY <1>2, <2>1, <4>1, <5>1 DEF Passed
        <5> QED
          BY <4>1, <5>2
      <4> QED
        BY <4>2, <4>3
    <3>3. CASE i # len + 1 /\ i # len
      <4>1. i \in 1..len /\ i < len /\ i < len + 1 /\ rstack'[i] = rstack[i]
        BY <1>12, <3>3
      <4> QED
        BY <1>2, <2>1, <2>3, <4>1 DEF Passed
    <3> QED
      BY <3>1, <3>2, <3>3
  <2>4. Passed'
    BY <1>9, <1>12, <1>13, <2>3 DEF Passed
  <2> QED
    BY <2>2, <2>4
<1> QED
  BY <1>14, <1>15, <1>16 DEF CycleInv

\* A file left with all its imports explored is explored: nothing it reaches
\* was within it.
LEMMA ReturnKeepsCycles ==
    ASSUME CycleInv, Resolving, ResolveReturn
    PROVE  /\ Chained' /\ (Reported' => Cyclic')
           /\ ~Reported' => Acyclic(Explored)' /\ Passed'
<1>1. PInv /\ Typed /\ rstack # <<>> /\ RTop.rest = <<>>
  BY DEF CycleInv, RInv, OInv, PInv, WInv, ResolveReturn
<1>2. PICK u, f, n, len : u = RTop.id /\ f = FileOf(RTop.id) /\ n = Len(rstack) /\ len = Len(rstack) - 1
  OBVIOUS
<1>3. /\ rstack \in Seq(RFrames) /\ n \in Nat /\ rvisited \subseteq visited
      /\ \A i \in 1..n :
            /\ rstack[i].id \in rvisited /\ rstack[i].id \in visited
            /\ Walked(rstack[i].id, FileOf(rstack[i].id))
            /\ FileOf(rstack[i].id) \in Paths /\ Exists(FileOf(rstack[i].id))
            /\ RConsumed(rstack[i]) \in Nat
  BY <1>1, <1>2, FramesAtHand
<1>4. n \in Nat \ {0} /\ len = n - 1 /\ RTop = rstack[n] /\ len \in Nat /\ n \in 1..n
  BY <1>1, <1>2, <1>3 DEF RTop
<1>5. /\ rstack' = RBelow /\ diags' = diags /\ rvisited' = rvisited /\ UNCHANGED <<input, walkVars>>
  BY DEF ResolveReturn
<1>6. /\ Len(rstack') = len /\ \A i \in 1..len : rstack'[i] = rstack[i] /\ i \in 1..n /\ i # n
      /\ \A i \in 1..n : i # n => i \in 1..len
  <2>1. /\ RBelow \in Seq(RFrames) /\ Len(RBelow) = Len(rstack) - 1
        /\ \A i \in 1..(Len(rstack) - 1) : RBelow[i] = rstack[i]
    BY <1>1, <1>3, WithoutLast DEF RBelow
  <2>2. /\ \A i \in 1..len : i \in 1..n /\ i # n
        /\ \A i \in 1..n : i # n => i \in 1..len
    BY <1>4
  <2> QED
    BY <1>2, <1>5, <2>1, <2>2
<1>7. /\ disk' = disk /\ \A id : FileOf(id)' = FileOf(id)
      /\ \A frame : RConsumed(frame)' = RConsumed(frame)
      /\ \A p : Imports(p)' = Imports(p)
      /\ \A p : ImportsAt(p)' = ImportsAt(p) /\ (Exists(p)' <=> Exists(p))
      /\ \A S : ReachedFrom(S)' = ReachedFrom(S)
      /\ \A S : Closed(S)' <=> Closed(S)
  BY <1>5, SameWalk, SameReach
<1>8. /\ u \in rvisited /\ f \in Paths /\ Exists(f) /\ Walked(u, f)
      /\ rstack[n].id = u /\ FileOf(u) = f
  BY <1>2, <1>3, <1>4
<1>9. \A id : ActiveInResolve(id)' <=> ActiveInResolve(id) /\ id # u
  <2>1. \A i \in 1..len : rstack[i].id # u
    <3> TAKE i \in 1..len
    <3>1. i \in 1..n /\ i < n
      BY <1>4, <1>6
    <3> QED
      BY <1>2, <1>4, <1>8, <3>1 DEF CycleInv, Chained
  <2>2. ASSUME NEW id, NEW i \in 1..n, rstack[i].id = id, id # u PROVE i \in 1..len
    BY <1>6, <1>8, <2>2
  <2> QED
    BY <1>2, <1>6, <2>1, <2>2 DEF ActiveInResolve
<1>10. Explored' = Explored \cup {f}
  <2>1. ASSUME NEW p \in Explored' PROVE p \in Explored \cup {f}
    BY <1>5, <1>7, <1>8, <1>9, <2>1 DEF Explored
  <2>2. f \in Explored'
    BY <1>5, <1>7, <1>8, <1>9 DEF Explored
  <2>3. ASSUME NEW p \in Explored PROVE p \in Explored'
    BY <1>5, <1>7, <1>9, <2>3 DEF Explored
  <2> QED
    BY <2>1, <2>2, <2>3
<1>11. \A p, k : Behind(p, k) => Behind(p, k)'
  BY <1>7, <1>10 DEF Behind
<1>12. Chained'
  <2>1. \A i, j \in 1..n : i < j =>
          /\ rstack[i].id # rstack[j].id
          /\ FileOf(rstack[j].id) \in ReachedFrom(Imports(FileOf(rstack[i].id)))
    BY <1>2 DEF CycleInv, Chained
  <2> QED
    BY <1>6, <1>7, <2>1 DEF Chained
<1>13. (Reported' <=> Reported) /\ (Cyclic' <=> Cyclic)
  BY <1>5, <1>7 DEF Reported, Cyclic
<1>14. ASSUME ~Reported' PROVE Acyclic(Explored)' /\ Passed'
  <2>1. Acyclic(Explored) /\ Passed
    BY <1>13, <1>14 DEF CycleInv
  <2>2. RConsumed(rstack[n]) = Len(ImportsAt(f)) /\ Len(ImportsAt(f)) \in Nat
    <3>1. Len(ImportsAt(f)) \in Nat /\ Len(RTop.rest) = 0
      BY <1>1, <1>8, OneWalked
    <3> QED
      BY <1>4, <1>8, <3>1 DEF RConsumed
  <2>3. Imports(f) \subseteq Explored
    <3> SUFFICES ASSUME NEW q \in Imports(f) PROVE q \in Explored
      OBVIOUS
    <3>1. PICK k \in 1..Len(ImportsAt(f)) :
             /\ Surface[ImportsAt(f)[k]] = "ifml" /\ Exists(Join[f][ImportsAt(f)[k]])
             /\ q = Join[f][ImportsAt(f)[k]]
      BY <1>8 DEF Imports
    <3>2. Behind(f, k)
      <4>1. ~(n < n) /\ n \in 1..Len(rstack)
        BY <1>2, <1>4
      <4> QED
        BY <1>2, <1>8, <2>1, <2>2, <3>1, <4>1 DEF Passed
    <3> QED
      BY <3>1, <3>2 DEF Behind
  <2>4. Closed(Explored \cup {f})
    BY <2>1, <2>3 DEF Acyclic, Closed
  <2>5. ASSUME NEW p \in Explored \cup {f} PROVE p \notin ReachedFrom(Imports(p))
    <3>1. CASE p \in Explored
      BY <2>1, <3>1 DEF Acyclic
    <3>2. CASE p = f /\ f \notin Explored
      <4>1. Imports(f) \in SUBSET Paths
        BY <1>1, <1>8, ImportsArePaths
      <4>2. ReachedFrom(Imports(f)) \subseteq Explored
        BY <1>1, <2>1, <2>3, <4>1, ReachesLeast DEF Acyclic
      <4> QED
        BY <3>2, <4>2
    <3> QED
      BY <2>5, <3>1, <3>2
  <2>6. Acyclic(Explored)'
    BY <1>7, <1>10, <2>4, <2>5 DEF Acyclic
  <2>7. ASSUME NEW i \in 1..len, NEW k \in 1..RConsumed(rstack[i])
        PROVE  Behind(FileOf(rstack[i].id), k)' \/ (i < len /\ k = RConsumed(rstack[i]))
    <3>1. i \in 1..Len(rstack) /\ i < n
      BY <1>2, <1>4, <1>6
    <3>2. CASE Behind(FileOf(rstack[i].id), k)
      <4>1. \A x : x = FileOf(rstack[i].id) /\ Behind(x, k) => Behind(x, k)'
        BY <1>11
      <4>2. PICK x : x = FileOf(rstack[i].id)
        OBVIOUS
      <4>3. Behind(x, k)'
        BY <3>2, <4>1, <4>2
      <4> QED
        BY <1>6, <1>7, <2>7, <4>2, <4>3 DEF Behind
    <3>3. CASE ~Behind(FileOf(rstack[i].id), k)
      <4>1. k = RConsumed(rstack[i])
        BY <1>2, <2>1, <2>7, <3>1, <3>3 DEF Passed
      <4>2. CASE i < len
        BY <4>1, <4>2
      <4>3. CASE ~(i < len)
        <5>1. i = len /\ i + 1 = n
          BY <1>4, <2>7, <4>3
        <5>2. PICK T, m : Follows(T, m)
          BY DEF Resolving
        <5>3. REntered(T, rstack[i], u)
          BY <1>2, <1>8, <3>1, <5>1, <5>2 DEF Follows
        <5>4. PICK b, g : b = rstack[i].id /\ g = FileOf(rstack[i].id)
          OBVIOUS
        <5>5. ImportsAt(g)[k] = u /\ k \in 1..Len(ImportsAt(g))
          BY <4>1, <5>3, <5>4 DEF REntered
        <5>6. Walked(b, g)
          BY <1>3, <1>6, <2>7, <5>4
        <5>7. f = Join[g][u]
          BY <1>1, <1>8, <5>5, <5>6, ImportedSource, ZenonT(40)
        <5>8. Behind(g, k)'
          BY <1>7, <1>10, <5>5, <5>7 DEF Behind
        <5> QED
          BY <1>6, <1>7, <2>7, <5>4, <5>8 DEF Behind
      <4> QED
        BY <4>2, <4>3
    <3> QED
      BY <3>2, <3>3
  <2>8. Passed'
    <3>1. ASSUME NEW i \in 1..Len(rstack'), NEW k \in 1..RConsumed(rstack[i])
          PROVE  Behind(FileOf(rstack[i].id), k)' \/ (i < Len(rstack') /\ k = RConsumed(rstack[i]))
      BY <1>6, <2>7, <3>1
    <3> QED
      BY <1>6, <1>7, <3>1 DEF Passed
  <2> QED
    BY <2>6, <2>8
<1> QED
  BY <1>12, <1>13, <1>14 DEF CycleInv

\* Files that do not parse close no cycle.
LEMMA UnparsedAreAcyclic ==
    ASSUME Typed, NEW S, \A p \in S : p \in Paths /\ ~disk[p].parses
    PROVE  Acyclic(S)
<1>1. \A p \in S : Imports(p) = {} /\ ReachedFrom({}) = {}
  BY UnparsedIsAcyclic
<1> QED
  BY <1>1 DEF Acyclic, Closed

\* Before the resolver starts, and where it is over, no file is active.
LEMMA NothingEntered ==
    ASSUME Typed, rstack = <<>>, rvisited = {}
    PROVE  Chained /\ Acyclic(Explored) /\ Passed
<1>1. Len(rstack) = 0 /\ 1..0 = {}
  OBVIOUS
<1>2. \A p \in Explored : p \in Paths /\ ~disk[p].parses
  BY DEF Explored
<1> QED
  BY <1>1, <1>2, UnparsedAreAcyclic DEF Chained, Passed

LEMMA NothingEnteredYet ==
    ASSUME Typed, disk' = disk, rstack' = <<>>, rvisited' = {}
    PROVE  Chained' /\ Acyclic(Explored)' /\ Passed'
<1>1. Len(rstack') = 0 /\ 1..0 = {}
  OBVIOUS
<1>2. PICK S : S = Explored'
  OBVIOUS
<1>3. \A p \in S : p \in Paths /\ ~disk[p].parses
  BY <1>2 DEF Explored
<1>4. Acyclic(S)
  BY <1>3, UnparsedAreAcyclic
<1>5. /\ \A T : ReachedFrom(T)' = ReachedFrom(T)
      /\ \A p : Imports(p)' = Imports(p)
      /\ \A T : Closed(T)' <=> Closed(T)
  BY SameReach
<1>6. Acyclic(Explored)'
  BY <1>2, <1>4, <1>5 DEF Acyclic
<1> QED
  BY <1>1, <1>6 DEF Chained, Passed

LEMMA StartKeepsCycles ==
    ASSUME CycleInv, StartResolve
    PROVE  /\ Chained' /\ (Reported' => Cyclic')
           /\ ~Reported' => Acyclic(Explored)' /\ Passed'
<1>1. /\ Typed /\ rstack = <<>> /\ rvisited = {} /\ diags = {} /\ UNCHANGED <<input, walkVars>>
      /\ PInv
  BY DEF CycleInv, RInv, OInv, PInv, WInv, StartResolve
<1>2. Acyclic(Explored)
  BY <1>1, NothingEntered
<1>3. /\ disk' = disk /\ \A id : FileOf(id)' = FileOf(id)
      /\ \A frame : RConsumed(frame)' = RConsumed(frame)
      /\ \A p : ImportsAt(p)' = ImportsAt(p)
      /\ \A S : ReachedFrom(S)' = ReachedFrom(S)
      /\ \A p : Imports(p)' = Imports(p)
      /\ \A S : Closed(S)' <=> Closed(S)
  BY <1>1, SameWalk, SameReach
<1>4. ~Reported'
  BY <1>1 DEF Reported, StartResolve
<1>5. PICK g : g = [id |-> entryId, rest |-> disk[Entry].imports]
  OBVIOUS
<1>6. CASE disk[Entry].parses
  <2>1. rstack' = <<g>> /\ rvisited' = {entryId} /\ g.id = entryId
    BY <1>5, <1>6 DEF StartResolve
  <2>2. Len(rstack') = 1 /\ rstack'[1] = g /\ \A i \in 1..1 : i = 1
    BY <2>1
  <2>3. \A id : id = entryId => ActiveInResolve(id)'
    <3>1. 1 \in 1..Len(rstack') /\ rstack'[1].id = entryId
      BY <2>1, <2>2
    <3> QED
      BY <3>1 DEF ActiveInResolve
  <2>4. Explored' = Explored /\ \A p, k : Behind(p, k)' <=> Behind(p, k)
    <3>1. ASSUME NEW id
          PROVE  (id \in rvisited' /\ ~ActiveInResolve(id)') <=> (id \in rvisited /\ ~ActiveInResolve(id))
      BY <1>1, <2>1, <2>3
    <3> QED
      BY <1>1, <3>1, SameExplored
  <2>5. Acyclic(Explored)'
    BY <1>2, <1>3, <2>4 DEF Acyclic
  <2>6. RConsumed(g) = 0
    <3>1. PICK T : Timed(T)
      BY DEF CycleInv, RInv, OInv
    <3>2. Walked(entryId, Entry)
      BY <1>1 DEF PInv, Listed, Walked
    <3>3. entryId \in visited /\ ImportsAt(Entry) \in Seq(Written)
      BY <1>1, <3>2, OneWalked
    <3>4. Walked(entryId, FileOf(entryId))
      BY <1>1, <3>3, FileOfVisited DEF FileOf
    <3>5. FileOf(entryId) = Entry
      BY <1>1, <3>2, <3>4, OneWalked
    <3>6. ImportsAt(Entry) = disk[Entry].imports /\ Len(ImportsAt(Entry)) \in Nat
      BY <1>6, <3>3 DEF ImportsAt
    <3>7. g.rest = disk[Entry].imports /\ g.id = entryId
      BY <1>5
    <3> QED
      BY <3>5, <3>6, <3>7 DEF RConsumed
  <2>7. Chained'
    BY <2>2 DEF Chained
  <2>8. Passed'
    <3>1. 1..0 = {}
      OBVIOUS
    <3> QED
      BY <1>3, <2>2, <2>6, <3>1 DEF Passed
  <2> QED
    BY <1>4, <2>5, <2>7, <2>8
<1>7. CASE ~disk[Entry].parses
  <2>1. rstack' = rstack /\ rvisited' = rvisited
    BY <1>7 DEF StartResolve
  <2>2. Chained' /\ Acyclic(Explored)' /\ Passed'
    BY <1>1, <1>3, <2>1, NothingEnteredYet
  <2> QED
    BY <1>4, <2>2
<1> QED
  BY <1>6, <1>7

\* Steps that change neither the files nor the resolver.
LEMMA SameCycles ==
    ASSUME CycleInv, UNCHANGED <<disk, pathOf, resolveVars>>
    PROVE  /\ Chained' /\ (Reported' => Cyclic')
           /\ ~Reported' => Acyclic(Explored)' /\ Passed'
<1>1. disk' = disk /\ pathOf' = pathOf /\ rstack' = rstack /\ rvisited' = rvisited /\ diags' = diags
  BY DEF resolveVars
<1>2. /\ \A id : FileOf(id)' = FileOf(id)
      /\ \A p : ImportsAt(p)' = ImportsAt(p) /\ (Exists(p)' <=> Exists(p))
      /\ \A S : ReachedFrom(S)' = ReachedFrom(S)
      /\ \A p : Imports(p)' = Imports(p)
      /\ \A S : Closed(S)' <=> Closed(S)
  BY <1>1, SameReach, SameLists DEF FileOf
<1>3. \A frame : RConsumed(frame)' = RConsumed(frame)
  BY <1>2 DEF RConsumed
<1>4. \A id : ActiveInResolve(id)' <=> ActiveInResolve(id)
  BY <1>1 DEF ActiveInResolve
<1>5. Explored' = Explored
  BY <1>1, <1>2, <1>4 DEF Explored
<1>6. \A p, k : Behind(p, k)' <=> Behind(p, k)
  BY <1>2, <1>5 DEF Behind
<1>7. Chained'
  BY <1>1, <1>2 DEF CycleInv, Chained
<1>8. (Reported' <=> Reported) /\ (Cyclic' <=> Cyclic)
  BY <1>1, <1>2 DEF Reported, Cyclic
<1>9. Acyclic(Explored)' <=> Acyclic(Explored)
  BY <1>2, <1>5 DEF Acyclic
<1>10. Passed => Passed'
  <2> SUFFICES ASSUME Passed, NEW i \in 1..Len(rstack), NEW k \in 1..RConsumed(rstack[i])
               PROVE  Behind(FileOf(rstack[i].id), k) \/ (i < Len(rstack) /\ k = RConsumed(rstack[i]))
    BY <1>1, <1>2, <1>3, <1>6 DEF Passed
  <2> QED
    BY DEF Passed
<1> QED
  BY <1>7, <1>8, <1>9, <1>10 DEF CycleInv

LEMMA NextKeepsCycles ==
    ASSUME CycleInv, [CNext]_compilationVars
    PROVE  CycleInv'
<1>1. RInv /\ RInv' /\ PInv /\ Typed
  BY NextKeepsResolving DEF CycleInv, RInv, OInv, PInv, WInv
<1> DEFINE Goal == /\ Chained' /\ (Reported' => Cyclic')
                   /\ ~Reported' => Acyclic(Explored)' /\ Passed'
<1>2. ASSUME WalkNext, UNCHANGED resolveVars PROVE Goal
  <2>1. stage = "walk" /\ disk' = disk
    BY <1>2, ZenonT(40) DEF WalkNext, FetchMisses, FetchIfml, FetchDomain, FetchActor, FetchOther, AtImport, WalkReturn, input
  <2>2. rstack' = <<>> /\ rvisited' = {} /\ diags' = {}
    BY <1>1, <1>2, <2>1 DEF RInv, resolveVars
  <2>3. Chained' /\ Acyclic(Explored)' /\ Passed'
    BY <1>1, <2>1, <2>2, NothingEnteredYet
  <2>4. ~Reported'
    BY <2>2 DEF Reported
  <2> QED
    BY <2>3, <2>4
<1>3. ASSUME StartResolve PROVE Goal
  BY <1>3, StartKeepsCycles
<1>4. ASSUME NEW w \in Written,
             \/ PassThrough(w) \/ Circular(w) \/ SkipVisited(w) \/ NotProvided(w) \/ ParseError(w)
      PROVE  Goal
  <2>1. stage = "resolve"
    BY <1>4 DEF PassThrough, Circular, SkipVisited, NotProvided, ParseError, NeedsText, AtLookup, AtStatement
  <2>2. Resolving
    BY <1>1, <2>1 DEF RInv
  <2>3. Circular(w) => w \in rvisited
    <3> SUFFICES ASSUME NEW i \in 1..Len(rstack), rstack[i].id = w PROVE w \in rvisited
      BY DEF Circular, ActiveInResolve
    <3> QED
      BY <1>1, <2>2, FramesAtHand
  <2>4. Passes(w)
    BY <1>4, <2>3 DEF Passes, PassThrough, Circular, SkipVisited, NotProvided, ParseError, NeedsText,
                      AtLookup, AtStatement
  <2>5. CASE Circular(w)
    <3>1. Cyclic
      BY <2>2, <2>5, CircularIsCyclic
    <3>2. Reported'
      <4>1. PICK d : d = <<"E_CIRCULAR", RTop.id, w>>
        OBVIOUS
      <4>2. d \in diags' /\ d[1] = "E_CIRCULAR"
        BY <2>5, <4>1 DEF Circular, Report
      <4> QED
        BY <4>2 DEF Reported
    <3> QED
      BY <2>2, <2>4, <3>1, <3>2, PassesKeepsCycles
  <2>6. CASE ~Circular(w)
    <3>1. \A d \in diags' : d \in diags \/ d[1] # "E_CIRCULAR"
      BY <1>4, <2>6 DEF PassThrough, SkipVisited, NotProvided, ParseError, Report
    <3>2. \A d \in diags : d \in diags'
      BY <1>4, <2>6 DEF PassThrough, SkipVisited, NotProvided, ParseError, Report
    <3>3. Reported' <=> Reported
      BY <3>1, <3>2 DEF Reported
    <3>4. ~(Surface[w] = "ifml" /\ ActiveInResolve(w))
      BY <1>4, <2>6 DEF PassThrough, SkipVisited, NotProvided, ParseError, NeedsText
    <3> QED
      BY <2>2, <2>4, <3>3, <3>4, PassesKeepsCycles DEF CycleInv
  <2> QED
    BY <2>5, <2>6
<1>5. ASSUME NEW w \in Written, Absorb(w) PROVE Goal
  <2>1. Resolving
    BY <1>1, <1>5 DEF RInv, Absorb, NeedsText, AtLookup, AtStatement
  <2> QED
    BY <1>5, <2>1, AbsorbKeepsCycles
<1>6. ASSUME ResolveReturn PROVE Goal
  <2>1. Resolving
    BY <1>1, <1>6 DEF RInv, ResolveReturn
  <2> QED
    BY <1>6, <2>1, ReturnKeepsCycles
<1>7. ASSUME Finished \/ StartTable \/ TableNext \/ UNCHANGED compilationVars PROVE Goal
  <2>1. UNCHANGED <<disk, pathOf, resolveVars>>
    BY <1>7 DEF Finished, StartTable, TableNext, compilationVars, allVars, Duplicate, DeclareLocal,
                Shadowed, BecomeAmbiguous, Claim, NextFile, SkipAmbiguous, Unknown, Resolve, Step, NextUse,
                NextUsesFile, input, walkVars
  <2> QED
    BY <2>1, SameCycles
<1>8. Goal
  BY <1>2, <1>3, <1>4, <1>5, <1>6, <1>7 DEF CNext, RNext
<1> QED
  BY <1>1, <1>8 DEF CycleInv

LEMMA InitHasCycles ==
    ASSUME OneFilePerName, CInit
    PROVE  CycleInv
<1>1. RInv
  BY InitHasResolving
<1>2. Typed /\ rstack = <<>> /\ rvisited = {} /\ diags = {}
  BY <1>1 DEF RInv, OInv, PInv, WInv, CInit, RInit
<1>3. Chained /\ Acyclic(Explored) /\ Passed
  BY <1>2, NothingEntered
<1>4. ~Reported
  BY <1>2 DEF Reported
<1> QED
  BY <1>1, <1>3, <1>4 DEF CycleInv

\* Once the resolver is over, it has explored all that the entry file reaches.
LEMMA DoneDecidesCycles ==
    ASSUME CycleInv, stage = "done"
    PROVE  Reported <=> Cyclic
<1>1. RInv /\ PInv /\ WInv /\ Typed /\ rstack = <<>>
  BY DEF CycleInv, RInv, OInv, PInv, WInv
<1>2. Walked(entryId, Entry)
  BY <1>1 DEF PInv, Listed, Walked
<1>3. /\ Entry \in Paths /\ Exists(Entry) /\ entryId \in visited
  BY <1>1, <1>2, OneWalked
<1>4. FileOf(entryId) = Entry
  <2>1. Walked(entryId, FileOf(entryId))
    BY <1>1, <1>3, FileOfVisited DEF FileOf
  <2> QED
    BY <1>1, <1>2, <2>1, OneWalked
<1>5. Entry \in Explored
  <2>1. CASE ~disk[Entry].parses
    BY <1>3, <2>1 DEF Explored
  <2>2. CASE disk[Entry].parses
    <3>1. PICK T, m : Reached(m)
      BY <1>1, <2>2 DEF RInv, Resolving
    <3>2. 1 \in 1..m /\ sources[1][1] = entryId /\ Parsed(sources[1])
      <4>1. m \in 1..Len(sources) /\ Len(sources) \in Nat /\ sources[1] = <<entryId, Entry>>
        BY <1>1, <3>1 DEF Reached, PInv, Listed, Typed
      <4> QED
        BY <2>2, <4>1 DEF Parsed
    <3>3. entryId \in rvisited
      BY <3>1, <3>2 DEF Reached
    <3>4. ~ActiveInResolve(entryId)
      <4>1. Len(rstack) = 0 /\ 1..0 = {}
        BY <1>1
      <4> QED
        BY <4>1 DEF ActiveInResolve
    <3> QED
      BY <1>3, <1>4, <3>3, <3>4 DEF Explored
  <2> QED
    BY <2>1, <2>2
<1>6. ~Reported => ~Cyclic
  <2> SUFFICES ASSUME ~Reported PROVE ~Cyclic
    OBVIOUS
  <2>1. Acyclic(Explored)
    BY DEF CycleInv
  <2>2. {Entry} \in SUBSET Paths /\ {Entry} \subseteq Explored
    BY <1>3, <1>5
  <2>3. ReachedFrom({Entry}) \subseteq Explored
    BY <1>1, <2>1, <2>2, ReachesLeast DEF Acyclic
  <2> QED
    BY <2>1, <2>3 DEF Acyclic, Cyclic
<1> QED
  BY <1>6 DEF CycleInv

\* The active path of resolve_imports finds the cycles of the files: a
\* compilation reports a circular import exactly when some file that the entry
\* file reaches can reach itself.
THEOREM CircularImportsAreCycles ==
    ASSUME OneFilePerName
    PROVE  CSpec => []CircularIffCycle
<1>1. CInit => CycleInv
  BY InitHasCycles
<1>2. CycleInv /\ [CNext]_compilationVars => CycleInv'
  BY NextKeepsCycles
<1>3. CycleInv => CircularIffCycle
  BY DoneDecidesCycles DEF CircularIffCycle, Reported, Cyclic
<1> QED
  BY <1>1, <1>2, <1>3, PTL DEF CSpec

-----------------------------------------------------------------------------
(* The index of a compilation.                                               *)

\* A file other than the entry file is written the same wherever it is imported.
Unaliased ==
    \A p, q \in Paths : \A v \in Mentions(p), w \in Mentions(q) :
        Exists(Join[p][v]) /\ Join[p][v] = Join[q][w] /\ Join[p][v] # Entry => v = w

\* The index holds each file the entry file reaches and that parses, the entry
\* file first; only the entry file may be there twice.
Indexed ==
    /\ index \in Seq(Ids \X Paths) /\ Len(index) \in Nat \ {0}
    /\ 0 \in Files /\ PathOf(0) = Entry
    /\ \A f \in Files : PathOf(f) \in Paths /\ PathOf(f) \in ReachedFrom({Entry}) /\ disk[PathOf(f)].parses
    /\ \A p \in ReachedFrom({Entry}) : disk[p].parses => \E f \in Files : PathOf(f) = p
    /\ \A f, g \in Files : PathOf(f) = PathOf(g) /\ PathOf(f) # Entry => f = g

LEMMA FilesOfIndex ==
    ASSUME Len(index) \in Nat
    PROVE  /\ \A f \in Files : f \in Nat /\ f + 1 \in 1..Len(index)
           /\ \A k \in 1..Len(index) : k - 1 \in Files /\ (k - 1) + 1 = k
  BY DEF Files

LEMMA IndexOfWalk ==
    ASSUME RInv, Unaliased, stage \in {"done", "table"}, disk[Entry].parses
    PROVE  Indexed
<1>1. /\ PInv /\ WInv /\ Typed /\ stack = <<>> /\ Resolving
  BY DEF RInv, OInv, PInv, WInv
<1>2. Reached(Len(sources))
  BY <1>1 DEF Resolving
<1>3. /\ index \in Seq(Ids \X Paths) /\ Len(index) \in Nat \ {0} /\ index[1] = <<entryId, Entry>>
  BY <1>2 DEF Reached
<1>4. /\ \A f \in Files : f \in Nat /\ f + 1 \in 1..Len(index)
      /\ \A k \in 1..Len(index) : k - 1 \in Files /\ (k - 1) + 1 = k
  BY <1>3, FilesOfIndex
<1>5. /\ \A k \in 1..Len(index) : \E j \in 1..Len(sources) : Parsed(sources[j]) /\ sources[j] = index[k]
      /\ \A j \in 1..Len(sources) : Parsed(sources[j]) => \E k \in 1..Len(index) : index[k] = sources[j]
      /\ \A k, l \in 1..Len(index) : k < l =>
            \E i, j \in 1..Len(sources) : i < j /\ sources[i] = index[k] /\ sources[j] = index[l]
  BY <1>2 DEF Reached
<1>6. 0 \in Files /\ PathOf(0) = Entry
  <2>1. 1 \in 1..Len(index) /\ 1 - 1 = 0 /\ 0 + 1 = 1
    BY <1>3
  <2> QED
    BY <1>3, <1>4, <2>1 DEF PathOf
<1>7. Collected = ReachedFrom({Entry})
  <2>1. {Entry} \in SUBSET Paths /\ Entry \in Collected
    BY <1>1, ImportAssumption DEF WInv, Complete
  <2>2. \A p, q : ~Owed(p, q)
    <3>1. Len(stack) = 0 /\ 1..0 = {}
      BY <1>1
    <3> QED
      BY <3>1 DEF Owed, OwedBy
  <2>3. Closed(Collected)
    BY <1>1, <2>2 DEF WInv, Complete, Closed
  <2>4. ReachedFrom({Entry}) \subseteq Collected
    BY <1>1, <2>1, <2>3, ReachesLeast
  <2>5. /\ ReachedFrom({Entry}) \subseteq Paths /\ Entry \in ReachedFrom({Entry})
        /\ Closed(ReachedFrom({Entry}))
    BY <1>1, <2>1, Reaches DEF Closed
  <2> QED
    BY <1>1, <2>4, <2>5 DEF WInv, Least
<1>8. ASSUME NEW f \in Files
      PROVE  PathOf(f) \in Paths /\ PathOf(f) \in ReachedFrom({Entry}) /\ disk[PathOf(f)].parses
  <2>1. PICK j \in 1..Len(sources) : Parsed(sources[j]) /\ sources[j] = index[f + 1]
    BY <1>4, <1>5
  <2>2. sources[j] \in Ids \X Paths /\ sources[j][2] \in Collected
    BY <1>1 DEF Typed, Collected
  <2> QED
    BY <1>7, <2>1, <2>2 DEF PathOf, Parsed
<1>9. ASSUME NEW p \in ReachedFrom({Entry}), disk[p].parses
      PROVE  \E f \in Files : PathOf(f) = p
  <2>1. PICK j \in 1..Len(sources) : sources[j][2] = p
    BY <1>7 DEF Collected
  <2>2. PICK k \in 1..Len(index) : index[k] = sources[j]
    BY <1>5, <1>9, <2>1 DEF Parsed
  <2>3. k - 1 \in Files /\ (k - 1) + 1 = k
    BY <1>4
  <2>4. PathOf(k - 1) = p
    BY <2>1, <2>2, <2>3 DEF PathOf
  <2> QED
    BY <2>3, <2>4
<1>10. ASSUME NEW f \in Files, NEW g \in Files, PathOf(f) = PathOf(g), PathOf(f) # Entry, f < g
       PROVE  FALSE
  <2>1. f + 1 \in 1..Len(index) /\ g + 1 \in 1..Len(index) /\ f + 1 < g + 1
    BY <1>4, <1>10
  <2>2. PICK i \in 1..Len(sources), j \in 1..Len(sources) :
           i < j /\ sources[i] = index[f + 1] /\ sources[j] = index[g + 1]
    <3>1. PICK k, l : k = f + 1 /\ l = g + 1
      OBVIOUS
    <3>2. k \in 1..Len(index) /\ l \in 1..Len(index) /\ k < l
      BY <2>1, <3>1
    <3>3. \E i, j \in 1..Len(sources) : i < j /\ sources[i] = index[k] /\ sources[j] = index[l]
      BY <1>5, <3>2
    <3> QED
      BY <3>1, <3>3
  <2>3. PICK v, w, p : v = sources[i][1] /\ w = sources[j][1] /\ p = PathOf(f)
    OBVIOUS
  <2>4. sources[i][2] = p /\ sources[j][2] = p
    BY <1>10, <2>2, <2>3 DEF PathOf
  <2>5. Denotes(v, p) /\ Denotes(w, p) /\ Exists(p) /\ v # w
    <3>1. i # j
      BY <1>1, <2>2 DEF Typed
    <3> QED
      BY <1>1, <2>3, <2>4, <3>1 DEF PInv, Listed
  <2>6. p # Entry
    BY <1>10, <2>3
  <2>7. PICK q \in Paths, r \in Paths : v \in Mentions(q) /\ p = Join[q][v] /\ w \in Mentions(r) /\ p = Join[r][w]
    BY <2>5, <2>6 DEF Denotes
  <2> QED
    BY <2>5, <2>6, <2>7 DEF Unaliased
<1>11. \A f, g \in Files : PathOf(f) = PathOf(g) /\ PathOf(f) # Entry => f = g
  <2> SUFFICES ASSUME NEW f \in Files, NEW g \in Files, PathOf(f) = PathOf(g), PathOf(f) # Entry PROVE f = g
    OBVIOUS
  <2>1. f \in Nat /\ g \in Nat
    BY <1>4
  <2>2. ~(f < g) /\ ~(g < f)
    BY <1>10
  <2> QED
    BY <2>1, <2>2
<1> QED
  BY <1>3, <1>6, <1>8, <1>9, <1>11 DEF Indexed

-----------------------------------------------------------------------------
(* The table of names.                                                       *)

NameAt(f, i) == decls[f][i].name

\* The declarations that the pass has visited.
Before(f, i) ==
    /\ f \in Files /\ i \in 1..Len(decls[f])
    /\ f < file \/ (f = file /\ i < next)

Holds(f, name) == \E i \in 1..Len(decls[f]) : Before(f, i) /\ NameAt(f, i) = name

FirstAt(f, i) == \A j \in 1..(i - 1) : NameAt(f, j) # NameAt(f, i)

\* The file's declaration of the name is the one the name stands for.
Sole(f, name) ==
    f = 0 \/ (name \notin local /\ \A g \in Files : g # 0 /\ Holds(g, name) => g = f)

EntryAt(f, i) == [name |-> NameAt(f, i), file |-> f, position |-> i]

\* A name is declared by two imported files, and not by the main file.
Contested(name) ==
    /\ name \notin local
    /\ \E f, g \in Files : f # 0 /\ g # 0 /\ f # g /\ Holds(f, name) /\ Holds(g, name)

Filed ==
    /\ Len(index) \in Nat \ {0}
    /\ \A f \in Files : decls[f] \in Seq(Decl) /\ uses[f] \in Seq(UseSite)
    /\ file \in 0..Len(index)
    /\ file \in Files => next \in 1..(Len(decls[file]) + 1)

Seen ==
    \A name : file \in Files => (name \in seen <=> \E i \in 1..(next - 1) : NameAt(file, i) = name)

Firsts ==
    \A f, i : Before(f, i) => \E j : Before(f, j) /\ FirstAt(f, j) /\ NameAt(f, j) = NameAt(f, i)

Tabled ==
    /\ \A name : name \in local <=> Holds(0, name)
    /\ \A name : name \in ambiguous <=> Contested(name)
    /\ \A e : e \in table <=>
          \E f, i : Before(f, i) /\ FirstAt(f, i) /\ Sole(f, NameAt(f, i)) /\ e = EntryAt(f, i)

TableInv == Filed /\ Seen /\ Firsts /\ Tabled

\* The pass goes on by one declaration.
Visits(name) ==
    /\ Visiting(name)
    /\ seen' = seen \cup {name}
    /\ next' = next + 1
    /\ UNCHANGED <<file, decls, uses, index>>

LEMMA VisitsKeeps ==
    ASSUME Filed, Seen, Firsts, NEW name, Visits(name)
    PROVE  /\ Filed' /\ Seen' /\ Firsts'
           /\ file \in Files /\ next \in 1..Len(decls[file]) /\ NameAt(file, next) = name
           /\ Files' = Files
           /\ \A f, i : NameAt(f, i)' = NameAt(f, i) /\ EntryAt(f, i)' = EntryAt(f, i)
           /\ \A f, i : FirstAt(f, i)' <=> FirstAt(f, i)
           /\ \A f, i : Before(f, i)' <=> Before(f, i) \/ (f = file /\ i = next)
           /\ \A f, n : f \in Files => (Holds(f, n)' <=> Holds(f, n) \/ (f = file /\ n = name))
           /\ name \in seen <=> Holds(file, name)
           /\ name \in seen <=> ~FirstAt(file, next)
           /\ ~Before(file, next)
<1>1. /\ file \in Files /\ next \in 1..Len(decls[file]) /\ name = decls[file][next].name
      /\ seen' = seen \cup {name} /\ next' = next + 1
      /\ file' = file /\ decls' = decls /\ uses' = uses /\ index' = index
  BY DEF Visits, Visiting
<1>2. PICK h, n, len : h = file /\ n = next /\ len = Len(decls[file])
  OBVIOUS
<1>3. /\ Len(index) \in Nat \ {0} /\ h \in Nat /\ len \in Nat /\ n \in 1..len /\ n \in Nat /\ n + 1 \in 1..(len + 1)
      /\ \A f \in Files : f \in Nat
  <2>1. decls[file] \in Seq(Decl)
    BY <1>1 DEF Filed
  <2> QED
    BY <1>1, <1>2, <2>1 DEF Filed, Files
<1>4. Files' = Files
  BY <1>1 DEF Files
<1>5. \A f, i : NameAt(f, i)' = NameAt(f, i) /\ EntryAt(f, i)' = EntryAt(f, i)
  BY <1>1 DEF NameAt, EntryAt
<1>6. \A f, i : FirstAt(f, i)' <=> FirstAt(f, i)
  BY <1>5 DEF FirstAt
<1>7. ASSUME NEW f, NEW i PROVE Before(f, i)' <=> Before(f, i) \/ (f = file /\ i = next)
  <2>1. Before(f, i)' <=> /\ f \in Files /\ i \in 1..Len(decls[f])
                          /\ f < h \/ (f = h /\ i < n + 1)
    BY <1>1, <1>2, <1>4 DEF Before
  <2>2. Before(f, i) <=> /\ f \in Files /\ i \in 1..Len(decls[f])
                         /\ f < h \/ (f = h /\ i < n)
    BY <1>2 DEF Before
  <2>3. i \in 1..len => (i < n + 1 <=> i < n \/ i = n)
    BY <1>3
  <2> QED
    BY <1>1, <1>2, <2>1, <2>2, <2>3
<1>8. \A f, m : f \in Files => (Holds(f, m)' <=> Holds(f, m) \/ (f = file /\ m = name))
  <2> SUFFICES ASSUME NEW f \in Files, NEW m PROVE Holds(f, m)' <=> Holds(f, m) \/ (f = file /\ m = name)
    OBVIOUS
  <2>1. Holds(f, m)' <=> \E i \in 1..Len(decls[f]) : Before(f, i)' /\ NameAt(f, i) = m
    BY <1>1, <1>5 DEF Holds
  <2>2. NameAt(file, next) = name
    BY <1>1 DEF NameAt
  <2> QED
    BY <1>1, <1>7, <2>1, <2>2 DEF Holds
<1>9. \A i \in 1..len : Before(h, i) <=> i < n
  <2> TAKE i \in 1..len
  <2>1. ~(h < h)
    BY <1>3
  <2> QED
    BY <1>1, <1>2, <2>1 DEF Before
<1>10. /\ \A i \in 1..(n - 1) : i \in 1..len /\ i < n
       /\ \A i \in 1..len : i < n => i \in 1..(n - 1)
       /\ (n + 1) - 1 = n /\ \A i \in 1..n : i = n \/ i \in 1..(n - 1)
       /\ \A i \in 1..(n - 1) : i \in 1..n
  BY <1>3
<1>11. name \in seen <=> Holds(file, name)
  <2>1. name \in seen <=> \E i \in 1..(n - 1) : NameAt(h, i) = name
    BY <1>1, <1>2 DEF Seen
  <2>2. Holds(h, name) <=> \E i \in 1..len : i < n /\ NameAt(h, i) = name
    BY <1>2, <1>9 DEF Holds
  <2> QED
    BY <1>2, <1>10, <2>1, <2>2
<1>12. name \in seen <=> ~FirstAt(file, next)
  <2>1. name \in seen <=> \E i \in 1..(n - 1) : NameAt(h, i) = name
    BY <1>1, <1>2 DEF Seen
  <2> QED
    BY <1>1, <1>2, <2>1 DEF FirstAt, NameAt
<1>13. ~Before(file, next)
  BY <1>2, <1>3, <1>9
<1>14. Filed'
  BY <1>1, <1>2, <1>3, <1>4 DEF Filed
<1>15. Seen'
  <2>1. ASSUME NEW m PROVE m \in seen' <=> \E i \in 1..(next' - 1) : NameAt(file, i) = m
    <3>1. m \in seen <=> \E i \in 1..(n - 1) : NameAt(h, i) = m
      BY <1>1, <1>2 DEF Seen
    <3>2. next' - 1 = n /\ NameAt(h, n) = name /\ n \in 1..n
      BY <1>1, <1>2, <1>3 DEF NameAt
    <3> QED
      BY <1>1, <1>2, <1>10, <3>1, <3>2
  <2> QED
    BY <1>1, <1>5, <2>1 DEF Seen
<1>16. Firsts'
  <2> SUFFICES ASSUME NEW f, NEW i, Before(f, i)'
               PROVE  \E j : Before(f, j)' /\ FirstAt(f, j) /\ NameAt(f, j) = NameAt(f, i)
    BY <1>5, <1>6 DEF Firsts
  <2>1. CASE Before(f, i)
    BY <1>7, <2>1 DEF Firsts
  <2>2. CASE f = file /\ i = next
    <3>1. CASE FirstAt(file, next)
      BY <1>7, <2>2, <3>1
    <3>2. CASE ~FirstAt(file, next)
      <4>1. PICK k \in 1..Len(decls[file]) : Before(file, k) /\ NameAt(file, k) = name
        BY <1>11, <1>12, <3>2 DEF Holds
      <4>2. PICK j : Before(file, j) /\ FirstAt(file, j) /\ NameAt(file, j) = NameAt(file, k)
        BY <4>1 DEF Firsts
      <4>3. NameAt(file, next) = name
        BY <1>1 DEF NameAt
      <4> QED
        BY <1>7, <2>2, <4>1, <4>2, <4>3
    <3> QED
      BY <3>1, <3>2
  <2> QED
    BY <1>7, <2>1, <2>2
<1>17. NameAt(file, next) = name
  BY <1>1 DEF NameAt
<1> QED
  BY <1>1, <1>4, <1>5, <1>6, <1>7, <1>8, <1>11, <1>12, <1>13, <1>14, <1>15, <1>16, <1>17

\* A name that is not declared anew leaves the table as it is.
LEMMA SameTable ==
    ASSUME TableInv, NEW name, Visits(name), UNCHANGED <<table, local, ambiguous>>,
           \A f, n : f \in Files => (Holds(f, n)' <=> Holds(f, n)) \/ (f # 0 /\ n = name /\ n \in local \cup ambiguous),
           FirstAt(file, next) => file # 0 /\ name \in local \cup ambiguous
    PROVE  Tabled'
<1>1. /\ file \in Files /\ NameAt(file, next) = name /\ Files' = Files
      /\ \A f, i : NameAt(f, i)' = NameAt(f, i) /\ EntryAt(f, i)' = EntryAt(f, i)
      /\ \A f, i : FirstAt(f, i)' <=> FirstAt(f, i)
      /\ \A f, i : Before(f, i)' <=> Before(f, i) \/ (f = file /\ i = next)
      /\ \A f, n : f \in Files => (Holds(f, n)' <=> Holds(f, n) \/ (f = file /\ n = name))
  BY VisitsKeeps DEF TableInv
<1>2. 0 \in Files
  BY DEF TableInv, Filed, Files
<1>3. /\ \A n : n \in local <=> Holds(0, n)
      /\ \A n : n \in ambiguous <=> Contested(n)
      /\ \A e : e \in table <=>
            \E f, i : Before(f, i) /\ FirstAt(f, i) /\ Sole(f, NameAt(f, i)) /\ e = EntryAt(f, i)
  BY DEF TableInv, Tabled
<1>4. table' = table /\ local' = local /\ ambiguous' = ambiguous
  OBVIOUS
<1>5. \A n : n \in local' <=> Holds(0, n)'
  BY <1>2, <1>3, <1>4
<1>6. ASSUME NEW n PROVE Contested(n)' <=> Contested(n)
  <2>1. CASE n = name /\ n \in local \cup ambiguous
    <3>1. CASE n \in local
      BY <1>4, <3>1 DEF Contested
    <3>2. CASE n \notin local
      <4>1. Contested(n)
        BY <1>3, <2>1, <3>2
      <4>2. Contested(n)'
        BY <1>1, <1>4, <4>1 DEF Contested
      <4> QED
        BY <4>1, <4>2
    <3> QED
      BY <3>1, <3>2
  <2>2. CASE ~(n = name /\ n \in local \cup ambiguous)
    <3>1. \A f \in Files : Holds(f, n)' <=> Holds(f, n)
      BY <2>2
    <3> QED
      BY <1>1, <1>4, <3>1 DEF Contested
  <2> QED
    BY <2>1, <2>2
<1>7. ASSUME NEW f \in Files, NEW n
      PROVE  Sole(f, n)' <=> Sole(f, n)
  <2>1. CASE n = name /\ n \in local \cup ambiguous
    <3>1. CASE n \in local
      BY <1>4, <3>1 DEF Sole
    <3>2. CASE n \notin local
      <4>1. Contested(n) /\ Contested(n)'
        BY <1>3, <1>6, <2>1, <3>2
      <4> QED
        BY <1>1, <4>1 DEF Contested, Sole
    <3> QED
      BY <3>1, <3>2
  <2>2. CASE ~(n = name /\ n \in local \cup ambiguous)
    <3>1. \A g \in Files : Holds(g, n)' <=> Holds(g, n)
      BY <2>2
    <3> QED
      BY <1>1, <1>4, <3>1 DEF Sole
  <2> QED
    BY <2>1, <2>2
<1>8. FirstAt(file, next) => ~Sole(file, name)
  <2> SUFFICES ASSUME FirstAt(file, next) PROVE ~Sole(file, name)
    OBVIOUS
  <2>1. file # 0 /\ name \in local \cup ambiguous
    OBVIOUS
  <2>2. name \in ambiguous => Contested(name)
    BY <1>3
  <2> QED
    BY <2>1, <2>2 DEF Sole, Contested
<1>9. ASSUME NEW e
      PROVE  e \in table' <=>
                \E f, i : Before(f, i)' /\ FirstAt(f, i)' /\ Sole(f, NameAt(f, i))' /\ e = EntryAt(f, i)'
  <2>1. \A f, i : Before(f, i) => f \in Files
    BY DEF Before
  <2>2. ASSUME NEW f, NEW i
        PROVE  (Before(f, i)' /\ FirstAt(f, i)' /\ Sole(f, NameAt(f, i))') <=>
               (Before(f, i) /\ FirstAt(f, i) /\ Sole(f, NameAt(f, i)))
    <3>1. PICK n : n = NameAt(f, i) /\ n = NameAt(f, i)'
      BY <1>1
    <3>2. Sole(f, NameAt(f, i))' <=> Sole(f, n)'
      BY <1>1, <1>4, <3>1 DEF Sole
    <3>3. f \in Files => (Sole(f, n)' <=> Sole(f, n))
      BY <1>7
    <3>4. f = file /\ i = next => n = name
      BY <1>1, <3>1
    <3> QED
      BY <1>1, <1>8, <2>1, <3>1, <3>2, <3>3, <3>4
  <2> QED
    BY <1>1, <1>3, <1>4, <2>2
<1> QED
  BY <1>5, <1>6, <1>3, <1>4, <1>9 DEF Tabled

LEMMA DuplicateKeepsTable ==
    ASSUME TableInv, NEW name, Duplicate(name)
    PROVE  TableInv'
<1>1. Visits(name) /\ name \in seen /\ UNCHANGED <<table, local, ambiguous>>
  BY DEF Duplicate, Step, Visits, Visiting, allVars, indexVars, resolveVars
<1>2. /\ Filed' /\ Seen' /\ Firsts'
      /\ \A f, n : f \in Files => (Holds(f, n)' <=> Holds(f, n) \/ (f = file /\ n = name))
      /\ name \in seen <=> Holds(file, name)
      /\ name \in seen <=> ~FirstAt(file, next)
  BY <1>1, VisitsKeeps DEF TableInv
<1>3. /\ \A f, n : f \in Files => (Holds(f, n)' <=> Holds(f, n)) \/ (f # 0 /\ n = name /\ n \in local \cup ambiguous)
      /\ FirstAt(file, next) => file # 0 /\ name \in local \cup ambiguous
  BY <1>1, <1>2
<1> QED
  BY <1>1, <1>2, <1>3, SameTable DEF TableInv

LEMMA ShadowedKeepsTable ==
    ASSUME TableInv, NEW name, Shadowed(name)
    PROVE  TableInv'
<1>1. /\ Visits(name) /\ name \notin seen /\ file # 0 /\ name \in local \cup ambiguous
      /\ UNCHANGED <<table, local, ambiguous>>
  BY DEF Shadowed, Step, Visits, Visiting, allVars, indexVars, resolveVars
<1>2. /\ Filed' /\ Seen' /\ Firsts'
      /\ \A f, n : f \in Files => (Holds(f, n)' <=> Holds(f, n) \/ (f = file /\ n = name))
  BY <1>1, VisitsKeeps DEF TableInv
<1>3. /\ \A f, n : f \in Files => (Holds(f, n)' <=> Holds(f, n)) \/ (f # 0 /\ n = name /\ n \in local \cup ambiguous)
      /\ FirstAt(file, next) => file # 0 /\ name \in local \cup ambiguous
  BY <1>1, <1>2
<1> QED
  BY <1>1, <1>2, <1>3, SameTable DEF TableInv

\* What holds of the pass at a declaration that is new to its file.
LEMMA NewInFile ==
    ASSUME TableInv, NEW name, Visits(name), name \notin seen
    PROVE  /\ Filed' /\ Seen' /\ Firsts'
           /\ file \in Files /\ file \in Nat /\ NameAt(file, next) = name /\ FirstAt(file, next)
           /\ TableEntry(name) = EntryAt(file, next) /\ EntryAt(file, next).name = name
           /\ ~Holds(file, name) /\ 0 \in Files
           /\ Files' = Files
           /\ \A f, i : NameAt(f, i)' = NameAt(f, i) /\ EntryAt(f, i)' = EntryAt(f, i)
           /\ \A f, i : FirstAt(f, i)' <=> FirstAt(f, i)
           /\ \A f, i : Before(f, i)' <=> Before(f, i) \/ (f = file /\ i = next)
           /\ \A f, n : f \in Files => (Holds(f, n)' <=> Holds(f, n) \/ (f = file /\ n = name))
           /\ \A f, i : Before(f, i) => f \in Files /\ f \in Nat /\ Holds(f, NameAt(f, i))
           /\ \A f, i : Before(f, i) /\ f = file => NameAt(f, i) # name
<1>1. /\ Filed' /\ Seen' /\ Firsts'
      /\ file \in Files /\ next \in 1..Len(decls[file]) /\ NameAt(file, next) = name
      /\ Files' = Files
      /\ \A f, i : NameAt(f, i)' = NameAt(f, i) /\ EntryAt(f, i)' = EntryAt(f, i)
      /\ \A f, i : FirstAt(f, i)' <=> FirstAt(f, i)
      /\ \A f, i : Before(f, i)' <=> Before(f, i) \/ (f = file /\ i = next)
      /\ \A f, n : f \in Files => (Holds(f, n)' <=> Holds(f, n) \/ (f = file /\ n = name))
      /\ name \in seen <=> Holds(file, name)
      /\ name \in seen <=> ~FirstAt(file, next)
  BY VisitsKeeps DEF TableInv
<1>2. 0 \in Files /\ \A f \in Files : f \in Nat
  BY DEF TableInv, Filed, Files
<1>3. TableEntry(name) = EntryAt(file, next) /\ EntryAt(file, next).name = name
  BY <1>1 DEF TableEntry, EntryAt
<1>4. \A f, i : Before(f, i) => f \in Files /\ Holds(f, NameAt(f, i))
  BY DEF Before, Holds
<1>5. \A f, i : Before(f, i) /\ f = file => NameAt(f, i) # name
  BY <1>1, <1>4
<1> QED
  BY <1>1, <1>2, <1>3, <1>4, <1>5

LEMMA DeclareLocalKeepsTable ==
    ASSUME TableInv, NEW name, DeclareLocal(name)
    PROVE  TableInv'
<1>1. /\ Visits(name) /\ name \notin seen /\ file = 0 /\ ambiguous' = ambiguous
      /\ local' = local \cup {name} /\ table' = table \cup {TableEntry(name)}
  BY DEF DeclareLocal, Step, Visits, Visiting, allVars, indexVars, resolveVars
<1>2. /\ Filed' /\ Seen' /\ Firsts'
      /\ file \in Files /\ NameAt(file, next) = name /\ FirstAt(file, next)
      /\ TableEntry(name) = EntryAt(file, next)
      /\ Files' = Files
      /\ \A f, i : NameAt(f, i)' = NameAt(f, i) /\ EntryAt(f, i)' = EntryAt(f, i)
      /\ \A f, i : FirstAt(f, i)' <=> FirstAt(f, i)
      /\ \A f, i : Before(f, i)' <=> Before(f, i) \/ (f = file /\ i = next)
      /\ \A f, n : f \in Files => (Holds(f, n)' <=> Holds(f, n) \/ (f = file /\ n = name))
      /\ \A f, i : Before(f, i) => f \in Files /\ f \in Nat /\ Holds(f, NameAt(f, i))
  BY <1>1, NewInFile
<1>3. /\ \A n : n \in local <=> Holds(0, n)
      /\ \A n : n \in ambiguous <=> Contested(n)
      /\ \A e : e \in table <=>
            \E f, i : Before(f, i) /\ FirstAt(f, i) /\ Sole(f, NameAt(f, i)) /\ e = EntryAt(f, i)
  BY DEF TableInv, Tabled
<1>4. \A f, i : Before(f, i) => f = 0
  BY <1>1, <1>2 DEF Before
<1>5. \A f, n : f # 0 => ~Holds(f, n)
  BY <1>4 DEF Holds
<1>6. \A n : n \in local' <=> Holds(0, n)'
  BY <1>1, <1>2, <1>3
<1>7. \A n : n \in ambiguous' <=> Contested(n)'
  BY <1>1, <1>2, <1>3, <1>5 DEF Contested
<1>8. \A f, i : Before(f, i) \/ (f = file /\ i = next) => Sole(f, NameAt(f, i)) /\ Sole(f, NameAt(f, i))'
  BY <1>1, <1>4 DEF Sole
<1>9. \A e : e \in table' <=>
         \E f, i : Before(f, i)' /\ FirstAt(f, i)' /\ Sole(f, NameAt(f, i))' /\ e = EntryAt(f, i)'
  BY <1>1, <1>2, <1>3, <1>8
<1> QED
  BY <1>2, <1>6, <1>7, <1>9 DEF TableInv, Tabled

\* A name of an imported file changes what other names stand for in no way.
LEMMA OtherNames ==
    ASSUME TableInv, NEW name, Visits(name), name \notin seen, file # 0, local' = local
    PROVE  /\ \A n : n \in local' <=> Holds(0, n)'
           /\ \A n : n # name => (Contested(n)' <=> Contested(n))
           /\ \A f, n : n # name => (Sole(f, n)' <=> Sole(f, n))
           /\ \A f, n : Sole(f, n)' <=>
                 f = 0 \/ (n \notin local /\ \A g \in Files : g # 0 /\ Holds(g, n)' => g = f)
<1>1. /\ file \in Files /\ 0 \in Files /\ Files' = Files
      /\ \A f, n : f \in Files => (Holds(f, n)' <=> Holds(f, n) \/ (f = file /\ n = name))
  BY NewInFile
<1>2. \A n : n \in local <=> Holds(0, n)
  BY DEF TableInv, Tabled
<1>3. \A n : n \in local' <=> Holds(0, n)'
  BY <1>1, <1>2
<1>4. \A n : n # name => (Contested(n)' <=> Contested(n))
  <2> SUFFICES ASSUME NEW n, n # name PROVE Contested(n)' <=> Contested(n)
    OBVIOUS
  <2>1. \A f \in Files : Holds(f, n)' <=> Holds(f, n)
    BY <1>1
  <2> QED
    BY <1>1, <2>1 DEF Contested
<1>5. \A f, n : n # name => (Sole(f, n)' <=> Sole(f, n))
  <2> SUFFICES ASSUME NEW f, NEW n, n # name PROVE Sole(f, n)' <=> Sole(f, n)
    OBVIOUS
  <2>1. \A g \in Files : Holds(g, n)' <=> Holds(g, n)
    BY <1>1
  <2> QED
    BY <1>1, <2>1 DEF Sole
<1>6. \A f, n : Sole(f, n)' <=> f = 0 \/ (n \notin local /\ \A g \in Files : g # 0 /\ Holds(g, n)' => g = f)
  BY <1>1 DEF Sole
<1> QED
  BY <1>3, <1>4, <1>5, <1>6

LEMMA ClaimKeepsTable ==
    ASSUME TableInv, NEW name, Claim(name)
    PROVE  TableInv'
<1>1. /\ Visits(name) /\ name \notin seen /\ file # 0 /\ name \notin local /\ name \notin ambiguous
      /\ ~InTable(name) /\ local' = local /\ ambiguous' = ambiguous
      /\ file' = file /\ decls' = decls
      /\ table' = table \cup {TableEntry(name)}
  BY DEF Claim, Step, Visits, Visiting, allVars, indexVars, resolveVars
<1>2. /\ Filed' /\ Seen' /\ Firsts'
      /\ file \in Files /\ NameAt(file, next) = name /\ FirstAt(file, next)
      /\ TableEntry(name) = EntryAt(file, next)
      /\ Files' = Files
      /\ \A f, i : NameAt(f, i)' = NameAt(f, i) /\ EntryAt(f, i)' = EntryAt(f, i)
      /\ \A f, i : FirstAt(f, i)' <=> FirstAt(f, i)
      /\ \A f, i : Before(f, i)' <=> Before(f, i) \/ (f = file /\ i = next)
      /\ \A f, n : f \in Files => (Holds(f, n)' <=> Holds(f, n) \/ (f = file /\ n = name))
      /\ \A f, i : Before(f, i) => f \in Files /\ f \in Nat /\ Holds(f, NameAt(f, i))
  BY <1>1, NewInFile
<1>3. /\ \A n : n \in local <=> Holds(0, n)
      /\ \A n : n \in ambiguous <=> Contested(n)
      /\ \A e : e \in table <=>
            \E f, i : Before(f, i) /\ FirstAt(f, i) /\ Sole(f, NameAt(f, i)) /\ e = EntryAt(f, i)
  BY DEF TableInv, Tabled
<1>4. /\ \A n : n \in local' <=> Holds(0, n)'
      /\ \A n : n # name => (Contested(n)' <=> Contested(n))
      /\ \A f, n : n # name => (Sole(f, n)' <=> Sole(f, n))
      /\ \A f, n : Sole(f, n)' <=>
            f = 0 \/ (n \notin local /\ \A g \in Files : g # 0 /\ Holds(g, n)' => g = f)
  BY <1>1, OtherNames
<1>5. \A g \in Files : ~Holds(g, name)
  <2> SUFFICES ASSUME NEW g \in Files, Holds(g, name) PROVE FALSE
    OBVIOUS
  <2>1. g # 0
    BY <1>1, <1>3
  <2>2. Sole(g, name)
    BY <1>1, <1>3, <2>1 DEF Sole, Contested
  <2>3. PICK i : Before(g, i) /\ NameAt(g, i) = name
    BY DEF Holds
  <2>4. PICK j : Before(g, j) /\ FirstAt(g, j) /\ NameAt(g, j) = name
    BY <2>3 DEF TableInv, Firsts
  <2>5. EntryAt(g, j) \in table /\ EntryAt(g, j).name = name
    <3>1. EntryAt(g, j) \in table
      BY <1>3, <2>2, <2>4
    <3> QED
      BY <2>4, <3>1 DEF EntryAt
  <2> QED
    BY <1>1, <2>5 DEF InTable
<1>6. name \notin local /\ \A g \in Files : g # 0 /\ Holds(g, name)' => g = file
  BY <1>1, <1>2, <1>5
<1>7. \A n : n \in ambiguous' <=> Contested(n)'
  <2>1. ~Contested(name)'
    BY <1>2, <1>5 DEF Contested
  <2> QED
    BY <1>1, <1>3, <1>4, <2>1
<1>8. \A f, i : Before(f, i) => NameAt(f, i) # name
  BY <1>2, <1>5
<1>9. /\ \A f, i : Before(f, i) => (Sole(f, NameAt(f, i))' <=> Sole(f, NameAt(f, i)))
      /\ \A f, i : f = file /\ i = next => Sole(f, NameAt(f, i))'
  <2>1. ASSUME NEW f, NEW i, Before(f, i)
        PROVE  Sole(f, NameAt(f, i))' <=> Sole(f, NameAt(f, i))
    <3>1. PICK n : n = NameAt(f, i) /\ n # name
      BY <1>8, <2>1
    <3>2. Sole(f, NameAt(f, i))' <=> Sole(f, n)'
      BY <1>1, <1>2, <3>1 DEF Sole
    <3> QED
      BY <1>4, <3>1, <3>2
  <2>2. ASSUME NEW f, NEW i, f = file, i = next PROVE Sole(f, NameAt(f, i))'
    <3>1. PICK n : n = NameAt(f, i) /\ n = name
      BY <1>2, <2>2
    <3>2. Sole(f, NameAt(f, i))' <=> Sole(f, n)'
      BY <1>1, <1>2, <3>1 DEF Sole
    <3> QED
      BY <1>4, <1>6, <2>2, <3>1, <3>2
  <2> QED
    BY <2>1, <2>2
<1>10. \A e : e \in table' <=>
         \E f, i : Before(f, i)' /\ FirstAt(f, i)' /\ Sole(f, NameAt(f, i))' /\ e = EntryAt(f, i)'
  <2>1. \A f, i : (Before(f, i)' /\ FirstAt(f, i)' /\ Sole(f, NameAt(f, i))')
           <=> (Before(f, i) /\ FirstAt(f, i) /\ Sole(f, NameAt(f, i))) \/ (f = file /\ i = next)
    BY <1>2, <1>9
  <2> QED
    BY <1>1, <1>2, <1>3, <2>1
<1> QED
  BY <1>2, <1>4, <1>7, <1>10 DEF TableInv, Tabled

LEMMA BecomeAmbiguousKeepsTable ==
    ASSUME TableInv, NEW name, BecomeAmbiguous(name)
    PROVE  TableInv'
<1>1. /\ Visits(name) /\ name \notin seen /\ file # 0 /\ name \notin local /\ name \notin ambiguous
      /\ InTable(name) /\ local' = local /\ ambiguous' = ambiguous \cup {name}
      /\ table' = {entry \in table : entry.name # name}
      /\ file' = file /\ decls' = decls
  BY DEF BecomeAmbiguous, Step, Visits, Visiting, allVars, indexVars, resolveVars
<1>2. /\ Filed' /\ Seen' /\ Firsts'
      /\ file \in Files /\ NameAt(file, next) = name /\ FirstAt(file, next)
      /\ TableEntry(name) = EntryAt(file, next)
      /\ Files' = Files
      /\ \A f, i : NameAt(f, i)' = NameAt(f, i) /\ EntryAt(f, i)' = EntryAt(f, i)
      /\ \A f, i : FirstAt(f, i)' <=> FirstAt(f, i)
      /\ \A f, i : Before(f, i)' <=> Before(f, i) \/ (f = file /\ i = next)
      /\ \A f, n : f \in Files => (Holds(f, n)' <=> Holds(f, n) \/ (f = file /\ n = name))
      /\ \A f, i : Before(f, i) => f \in Files /\ f \in Nat /\ Holds(f, NameAt(f, i))
  BY <1>1, NewInFile
<1>3. /\ \A n : n \in local <=> Holds(0, n)
      /\ \A n : n \in ambiguous <=> Contested(n)
      /\ \A e : e \in table <=>
            \E f, i : Before(f, i) /\ FirstAt(f, i) /\ Sole(f, NameAt(f, i)) /\ e = EntryAt(f, i)
  BY DEF TableInv, Tabled
<1>4. /\ \A n : n \in local' <=> Holds(0, n)'
      /\ \A n : n # name => (Contested(n)' <=> Contested(n))
      /\ \A f, n : n # name => (Sole(f, n)' <=> Sole(f, n))
      /\ \A f, n : Sole(f, n)' <=>
            f = 0 \/ (n \notin local /\ \A g \in Files : g # 0 /\ Holds(g, n)' => g = f)
  BY <1>1, OtherNames
<1>5. PICK g \in Files : Holds(g, name) /\ g # 0 /\ g # file
  <2>1. PICK e \in table : e.name = name
    BY <1>1 DEF InTable
  <2>2. PICK f, i : Before(f, i) /\ e = EntryAt(f, i)
    BY <1>3, <2>1
  <2>3. NameAt(f, i) = name
    BY <2>1, <2>2 DEF EntryAt
  <2>4. f \in Files /\ Holds(f, name)
    BY <1>2, <2>2, <2>3
  <2>5. f # 0
    BY <1>1, <1>3, <2>4
  <2>6. f # file
    <3>1. name \in seen <=> Holds(file, name)
      BY <1>1, VisitsKeeps DEF TableInv
    <3> QED
      BY <1>1, <2>4, <3>1
  <2> QED
    BY <2>4, <2>5, <2>6
<1>6. Holds(g, name)' /\ Holds(file, name)'
  <2>1. ASSUME NEW h, h = file PROVE Holds(h, name)'
    BY <1>2, <2>1
  <2>2. PICK h : h = file
    OBVIOUS
  <2>3. Holds(h, name)' <=> Holds(file, name)'
    BY <1>1, <2>2 DEF Holds
  <2> QED
    BY <1>2, <1>5, <2>1, <2>2, <2>3
<1>7. \A n : n \in ambiguous' <=> Contested(n)'
  <2>1. Contested(name)'
    BY <1>1, <1>2, <1>5, <1>6 DEF Contested
  <2> QED
    BY <1>1, <1>3, <1>4, <2>1
<1>8. /\ \A f, i : Before(f, i) /\ NameAt(f, i) # name => (Sole(f, NameAt(f, i))' <=> Sole(f, NameAt(f, i)))
      /\ \A f, i : (Before(f, i) \/ (f = file /\ i = next)) /\ NameAt(f, i) = name => ~Sole(f, NameAt(f, i))'
  <2>1. ASSUME NEW f, NEW i PROVE \E n : n = NameAt(f, i) /\ (Sole(f, NameAt(f, i))' <=> Sole(f, n)')
    <3>1. PICK n : n = NameAt(f, i)
      OBVIOUS
    <3>2. Sole(f, NameAt(f, i))' <=> Sole(f, n)'
      BY <1>1, <1>2, <3>1 DEF Sole
    <3> QED
      BY <3>1, <3>2
  <2>2. ASSUME NEW f, NEW i, Before(f, i), NameAt(f, i) # name
        PROVE  Sole(f, NameAt(f, i))' <=> Sole(f, NameAt(f, i))
    BY <1>4, <2>1, <2>2
  <2>3. ASSUME NEW f, NEW i, Before(f, i) \/ (f = file /\ i = next), NameAt(f, i) = name
        PROVE  ~Sole(f, NameAt(f, i))'
    <3>1. f # 0
      BY <1>1, <1>2, <1>3, <2>3
    <3>2. \E h \in Files : h # 0 /\ Holds(h, name)' /\ h # f
      <4>1. PICK h : h = file
        OBVIOUS
      <4>2. h \in Files /\ h # 0 /\ Holds(h, name)'
        BY <1>1, <1>2, <4>1
      <4> QED
        BY <1>5, <1>6, <4>1, <4>2
    <3>3. ~Sole(f, name)'
      BY <1>4, <3>1, <3>2
    <3> QED
      BY <2>1, <2>3, <3>3
  <2> QED
    BY <2>2, <2>3
<1>9. \A e : e \in table' <=>
         \E f, i : Before(f, i)' /\ FirstAt(f, i)' /\ Sole(f, NameAt(f, i))' /\ e = EntryAt(f, i)'
  <2>1. \A f, i : (Before(f, i)' /\ FirstAt(f, i)' /\ Sole(f, NameAt(f, i))')
           <=> (Before(f, i) /\ FirstAt(f, i) /\ Sole(f, NameAt(f, i)) /\ NameAt(f, i) # name)
    BY <1>2, <1>8
  <2>2. \A f, i : EntryAt(f, i).name = NameAt(f, i)
    BY DEF EntryAt
  <2> QED
    BY <1>1, <1>2, <1>3, <2>1, <2>2
<1> QED
  BY <1>2, <1>4, <1>7, <1>9 DEF TableInv, Tabled

LEMMA NextFileKeepsTable ==
    ASSUME TableInv, NextFile
    PROVE  TableInv'
<1>1. /\ file \in Files /\ next = Len(decls[file]) + 1
      /\ file' = file + 1 /\ next' = 1 /\ seen' = {}
      /\ index' = index /\ decls' = decls /\ uses' = uses
      /\ table' = table /\ local' = local /\ ambiguous' = ambiguous
  BY DEF NextFile, allVars, indexVars, resolveVars
<1>2. PICK h, len, total : h = file /\ len = Len(decls[file]) /\ total = Len(index)
  OBVIOUS
<1>3. /\ h \in Nat /\ len \in Nat /\ total \in Nat \ {0} /\ h \in 0..(total - 1) /\ Files = 0..(total - 1)
      /\ Files' = Files
  BY <1>1, <1>2 DEF TableInv, Filed, Files
<1>4. Filed'
  <2>1. \A f \in Files : Len(decls[f]) \in Nat
    BY DEF TableInv, Filed
  <2>2. file' = h + 1 /\ h + 1 \in 0..total /\ total = Len(index')
    BY <1>1, <1>2, <1>3
  <2>3. file' \in Files' => next' \in 1..(Len(decls'[file']) + 1)
    BY <1>1, <1>3, <2>1
  <2> QED
    BY <1>1, <1>3, <2>2, <2>3 DEF TableInv, Filed
<1>5. Seen'
  BY <1>1 DEF Seen
<1>6. /\ \A f, i : NameAt(f, i)' = NameAt(f, i) /\ EntryAt(f, i)' = EntryAt(f, i)
      /\ \A f, i : FirstAt(f, i)' <=> FirstAt(f, i)
  BY <1>1 DEF NameAt, EntryAt, FirstAt
<1>7. ASSUME NEW f, NEW i PROVE Before(f, i)' <=> Before(f, i)
  <2>1. CASE f \in Files /\ i \in 1..Len(decls[f])
    <3>1. f \in Nat /\ i \in Nat /\ i \geq 1
      BY <1>3, <2>1 DEF TableInv, Filed
    <3>2. f < h + 1 \/ (f = h + 1 /\ i < 1) <=> f < h \/ (f = h /\ i < len + 1)
      <4>1. f = h => i < len + 1
        BY <1>2, <1>3, <2>1, <3>1
      <4> QED
        BY <1>3, <3>1, <4>1
    <3> QED
      BY <1>1, <1>2, <1>3, <2>1, <3>2 DEF Before
  <2>2. CASE ~(f \in Files /\ i \in 1..Len(decls[f]))
    BY <1>1, <1>3, <2>2 DEF Before
  <2> QED
    BY <2>1, <2>2
<1>8. Firsts'
  BY <1>6, <1>7 DEF TableInv, Firsts
<1>9. \A f, n : Holds(f, n)' <=> Holds(f, n)
  BY <1>1, <1>6, <1>7 DEF Holds
<1>10. \A n : Contested(n)' <=> Contested(n)
  BY <1>1, <1>3, <1>9 DEF Contested
<1>11. ASSUME NEW f, NEW i PROVE Sole(f, NameAt(f, i))' <=> Sole(f, NameAt(f, i))
  BY <1>1, <1>3, <1>6, <1>9 DEF Sole
<1>12. Tabled'
  BY <1>1, <1>6, <1>7, <1>9, <1>10, <1>11 DEF TableInv, Tabled
<1> QED
  BY <1>4, <1>5, <1>8, <1>12 DEF TableInv

LEMMA SameTableInv ==
    ASSUME TableInv, UNCHANGED <<index, decls, uses, tableVars>>
    PROVE  TableInv'
<1>1. /\ index' = index /\ decls' = decls /\ uses' = uses /\ file' = file /\ next' = next
      /\ seen' = seen /\ table' = table /\ local' = local /\ ambiguous' = ambiguous
  BY DEF tableVars
<1>2. Files' = Files
  BY <1>1 DEF Files
<1>3. /\ \A f, i : NameAt(f, i)' = NameAt(f, i) /\ EntryAt(f, i)' = EntryAt(f, i)
      /\ \A f, i : FirstAt(f, i)' <=> FirstAt(f, i)
      /\ \A f, i : Before(f, i)' <=> Before(f, i)
  BY <1>1, <1>2 DEF NameAt, EntryAt, FirstAt, Before
<1>4. \A f, n : Holds(f, n)' <=> Holds(f, n)
  BY <1>1, <1>3 DEF Holds
<1>5. /\ \A n : Contested(n)' <=> Contested(n)
      /\ \A f, i : Sole(f, NameAt(f, i))' <=> Sole(f, NameAt(f, i))
  BY <1>1, <1>2, <1>3, <1>4 DEF Contested, Sole
<1>6. Filed' /\ Seen'
  BY <1>1, <1>2, <1>3 DEF TableInv, Filed, Seen
<1>7. Firsts'
  BY <1>3 DEF TableInv, Firsts
<1>8. Tabled'
  BY <1>1, <1>3, <1>4, <1>5 DEF TableInv, Tabled
<1> QED
  BY <1>6, <1>7, <1>8 DEF TableInv

\* A name has one entry in the table, and an ambiguous name has none.
LEMMA OneEntry ==
    ASSUME TableInv
    PROVE  /\ \A e, d \in table : e.name = d.name => e = d
           /\ \A e \in table : e.name \notin ambiguous
<1>1. /\ \A n : n \in local <=> Holds(0, n)
      /\ \A n : n \in ambiguous <=> Contested(n)
      /\ \A e : e \in table <=>
            \E f, i : Before(f, i) /\ FirstAt(f, i) /\ Sole(f, NameAt(f, i)) /\ e = EntryAt(f, i)
  BY DEF TableInv, Tabled
<1>2. \A f, i : Before(f, i) => f \in Files /\ i \in Nat /\ i \geq 1 /\ Holds(f, NameAt(f, i))
  <2>1. \A f \in Files : Len(decls[f]) \in Nat
    BY DEF TableInv, Filed
  <2> QED
    BY <2>1 DEF Before, Holds
<1>3. ASSUME NEW f, NEW g, NEW i, NEW j, Before(f, i), Before(g, j), FirstAt(f, i), FirstAt(g, j),
             Sole(f, NameAt(f, i)), Sole(g, NameAt(g, j)), NameAt(f, i) = NameAt(g, j)
      PROVE  f = g /\ i = j
  <2>1. f = g
    <3>1. f \in Files /\ g \in Files /\ Holds(f, NameAt(f, i)) /\ Holds(g, NameAt(f, i))
      BY <1>2, <1>3
    <3>2. f = 0 \/ g = 0 => NameAt(f, i) \in local
      BY <1>1, <3>1
    <3> QED
      BY <1>3, <3>1, <3>2 DEF Sole
  <2>2. i \in Nat /\ j \in Nat /\ i \geq 1 /\ j \geq 1
    BY <1>2, <1>3
  <2>3. ~(i < j) /\ ~(j < i)
    BY <1>3, <2>1, <2>2 DEF FirstAt
  <2> QED
    BY <2>1, <2>2, <2>3
<1>4. ASSUME NEW e \in table, NEW d \in table, e.name = d.name PROVE e = d
  <2>1. PICK f, i : Before(f, i) /\ FirstAt(f, i) /\ Sole(f, NameAt(f, i)) /\ e = EntryAt(f, i)
    BY <1>1
  <2>2. PICK g, j : Before(g, j) /\ FirstAt(g, j) /\ Sole(g, NameAt(g, j)) /\ d = EntryAt(g, j)
    BY <1>1
  <2>3. NameAt(f, i) = NameAt(g, j)
    BY <1>4, <2>1, <2>2 DEF EntryAt
  <2> QED
    BY <1>3, <2>1, <2>2, <2>3
<1>5. ASSUME NEW e \in table PROVE e.name \notin ambiguous
  <2>1. PICK f, i : Before(f, i) /\ Sole(f, NameAt(f, i)) /\ e = EntryAt(f, i)
    BY <1>1
  <2>2. e.name = NameAt(f, i) /\ Holds(f, NameAt(f, i))
    BY <1>2, <2>1 DEF EntryAt
  <2>3. ~Contested(NameAt(f, i))
    BY <1>1, <2>1, <2>2 DEF Contested, Sole
  <2> QED
    BY <1>1, <2>2, <2>3
<1> QED
  BY <1>4, <1>5

-----------------------------------------------------------------------------
(* The uses.                                                                 *)

\* The uses that the pass has come by.
Past(f, i) ==
    /\ f \in Files /\ i \in 1..Len(uses[f])
    /\ f < useFile \/ (f = useFile /\ i < useIdx)

Cursor ==
    /\ useFile \in 0..Len(index)
    /\ useFile \in Files => useIdx \in 1..(Len(uses[useFile]) + 1)
    /\ file \in Files => useFile = 0 /\ useIdx = 1

Resolution(f, i, e) == [use |-> <<f, i>>, file |-> e.file, position |-> e.position]

\* A use stands for the entry of its name, if the table has one.
TableSettled ==
    \A r : r \in resolved <=>
        \E f, i, e : Past(f, i) /\ e \in table /\ e.name = uses[f][i].target /\ r = Resolution(f, i, e)

InputCodes == {"E_MISSING_INPUT", "E_UNKNOWN_INPUT"}

InputErrors(i, use, decl) ==
    {[code |-> "E_UNKNOWN_INPUT", file |-> 0, at |-> i, name |-> x] : x \in use.overrides \ decl.accepted}
    \cup
    {[code |-> "E_MISSING_INPUT", file |-> 0, at |-> i, name |-> x] : x \in decl.required \ use.overrides}

\* The main file's uses have been told which inputs they lack and which they
\* should not name.
InputsTold ==
    \A d : d \in useDiags /\ d.code \in InputCodes <=>
        \E i, e : /\ Past(0, i) /\ e \in table /\ e.name = uses[0][i].target
                  /\ d \in InputErrors(i, uses[0][i], decls[e.file][e.position])

UsesInv == Cursor /\ TableSettled /\ InputsTold

\* While the table is built no use has been resolved.
LEMMA TableKeepsUses ==
    ASSUME TableInv, UsesInv, file \in Files,
           UNCHANGED <<index, decls, uses, useFile, useIdx, resolved>>,
           \A d : d.code \in InputCodes => (d \in useDiags' <=> d \in useDiags)
    PROVE  UsesInv'
<1>1. useFile = 0 /\ useIdx = 1
  BY DEF UsesInv, Cursor
<1>2. \A f \in Files : f \in Nat /\ Len(uses[f]) \in Nat
  BY DEF TableInv, Filed, Files
<1>3. \A f, i : ~Past(f, i)
  BY <1>1, <1>2 DEF Past
<1>4. Files' = Files
  BY DEF Files
<1>5. \A f, i : ~Past(f, i)'
  BY <1>1, <1>2, <1>4 DEF Past
<1>6. Cursor'
  BY <1>1, <1>4 DEF UsesInv, Cursor
<1>7. \A r : r \notin resolved
  BY <1>3 DEF UsesInv, TableSettled
<1>8. \A r : r \notin resolved'
  BY <1>7
<1>9. TableSettled'
  BY <1>5, <1>8 DEF TableSettled
<1>10. \A d : ~(d \in useDiags /\ d.code \in InputCodes)
  BY <1>3 DEF UsesInv, InputsTold
<1>11. \A d : ~(d \in useDiags' /\ d.code \in InputCodes)
  BY <1>10
<1>12. InputsTold'
  BY <1>5, <1>11 DEF InputsTold
<1> QED
  BY <1>6, <1>9, <1>12 DEF UsesInv

LEMMA UsePasses ==
    ASSUME TableInv, UsesInv, NEW use, AtUse(use), NextUse
    PROVE  /\ TableInv' /\ Cursor'
           /\ useFile \in Files /\ useIdx \in 1..Len(uses[useFile]) /\ use = uses[useFile][useIdx]
           /\ table' = table /\ uses' = uses /\ decls' = decls /\ Files' = Files
           /\ \A f, i : Past(f, i)' <=> Past(f, i) \/ (f = useFile /\ i = useIdx)
<1>1. /\ file \notin Files /\ useFile \in Files /\ useIdx \in 1..Len(uses[useFile])
      /\ use = uses[useFile][useIdx]
  BY DEF AtUse
<1>2. /\ UNCHANGED <<index, decls, uses, tableVars>> /\ useFile' = useFile /\ useIdx' = useIdx + 1
  BY DEF NextUse, allVars, indexVars, resolveVars
<1>3. TableInv'
  BY <1>2, SameTableInv
<1>4. /\ table' = table /\ uses' = uses /\ decls' = decls /\ index' = index /\ file' = file
      /\ Files' = Files
  BY <1>2 DEF tableVars, Files
<1>5. PICK h, k, len : h = useFile /\ k = useIdx /\ len = Len(uses[useFile])
  OBVIOUS
<1>6. /\ h \in Nat /\ len \in Nat /\ k \in 1..len /\ k \in Nat /\ k + 1 \in 1..(len + 1)
      /\ \A f \in Files : f \in Nat /\ Len(uses[f]) \in Nat
  <2>1. \A f \in Files : f \in Nat /\ Len(uses[f]) \in Nat
    BY DEF TableInv, Filed, Files
  <2>2. len \in Nat /\ h \in Nat /\ k \in 1..len
    BY <1>1, <1>5, <2>1
  <2> QED
    BY <2>1, <2>2
<1>7. Cursor'
  BY <1>1, <1>2, <1>4, <1>5, <1>6 DEF UsesInv, Cursor
<1>8. ASSUME NEW f, NEW i PROVE Past(f, i)' <=> Past(f, i) \/ (f = useFile /\ i = useIdx)
  <2>1. CASE f \in Files /\ i \in 1..Len(uses[f])
    <3>1. f \in Nat /\ i \in Nat
      BY <1>6, <2>1
    <3>2. f < h \/ (f = h /\ i < k + 1) <=> (f < h \/ (f = h /\ i < k)) \/ (f = h /\ i = k)
      BY <1>6, <3>1
    <3> QED
      BY <1>2, <1>4, <1>5, <2>1, <3>2 DEF Past
  <2>2. CASE ~(f \in Files /\ i \in 1..Len(uses[f]))
    BY <1>1, <1>4, <2>2 DEF Past
  <2> QED
    BY <2>1, <2>2
<1> QED
  BY <1>1, <1>3, <1>4, <1>7, <1>8

\* A use whose name is not in the table adds nothing.
LEMMA NoEntryKeepsUses ==
    ASSUME TableInv, UsesInv, NEW use, AtUse(use), NextUse,
           \A e \in table : e.name # use.target,
           resolved' = resolved,
           \A d : d.code \in InputCodes => (d \in useDiags' <=> d \in useDiags)
    PROVE  TableInv' /\ UsesInv'
<1>1. /\ TableInv' /\ Cursor'
      /\ useFile \in Files /\ useIdx \in 1..Len(uses[useFile]) /\ use = uses[useFile][useIdx]
      /\ table' = table /\ uses' = uses /\ decls' = decls /\ Files' = Files
      /\ \A f, i : Past(f, i)' <=> Past(f, i) \/ (f = useFile /\ i = useIdx)
  BY UsePasses
<1>2. \A f, i, e : Past(f, i)' /\ e \in table' /\ e.name = uses'[f][i].target
           <=> Past(f, i) /\ e \in table /\ e.name = uses[f][i].target
  BY <1>1
<1>3. TableSettled'
  <2>1. \A r : r \in resolved <=>
           \E f, i, e : Past(f, i) /\ e \in table /\ e.name = uses[f][i].target /\ r = Resolution(f, i, e)
    BY DEF UsesInv, TableSettled
  <2>2. ASSUME NEW r
        PROVE  r \in resolved' <=>
           \E f, i, e : Past(f, i)' /\ e \in table' /\ e.name = uses'[f][i].target /\ r = Resolution(f, i, e)
    <3>1. \A f, i, e :
             Past(f, i)' /\ e \in table' /\ e.name = uses'[f][i].target /\ r = Resolution(f, i, e) <=>
             Past(f, i) /\ e \in table /\ e.name = uses[f][i].target /\ r = Resolution(f, i, e)
      BY <1>2
    <3> QED
      BY <2>1, <3>1
  <2> QED
    BY <2>2 DEF TableSettled, Resolution
<1>4. InputsTold'
  <2>1. \A d : d \in useDiags /\ d.code \in InputCodes <=>
        \E i, e : /\ Past(0, i) /\ e \in table /\ e.name = uses[0][i].target
                  /\ d \in InputErrors(i, uses[0][i], decls[e.file][e.position])
    BY DEF UsesInv, InputsTold
  <2>2. \A d : d \in useDiags' /\ d.code \in InputCodes <=>
        \E i, e : /\ Past(0, i)' /\ e \in table' /\ e.name = uses'[0][i].target
                  /\ d \in InputErrors(i, uses'[0][i], decls'[e.file][e.position])
    BY <1>1, <1>2, <2>1
  <2> QED
    BY <2>2 DEF InputsTold, InputErrors
<1> QED
  BY <1>1, <1>3, <1>4 DEF UsesInv

LEMMA ResolveKeepsUses ==
    ASSUME TableInv, UsesInv, NEW use, Resolve(use)
    PROVE  TableInv' /\ UsesInv'
<1>1. AtUse(use) /\ NextUse
  BY DEF Resolve
<1>2. /\ TableInv' /\ Cursor'
      /\ useFile \in Files /\ useIdx \in 1..Len(uses[useFile]) /\ use = uses[useFile][useIdx]
      /\ table' = table /\ uses' = uses /\ decls' = decls /\ Files' = Files
      /\ \A f, i : Past(f, i)' <=> Past(f, i) \/ (f = useFile /\ i = useIdx)
  BY <1>1, UsePasses
<1>3. PICK entry \in table :
          /\ entry.name = use.target
          /\ resolved' = resolved \cup
                {[use |-> <<useFile, useIdx>>, file |-> entry.file, position |-> entry.position]}
          /\ useDiags' = useDiags \cup
                (IF useFile = 0 THEN UseErrors(use, decls[entry.file][entry.position]) ELSE {})
  BY DEF Resolve
<1>4. \A e \in table : e.name = use.target => e = entry
  BY <1>3, OneEntry
<1>5. \A f, i, e : Past(f, i)' /\ e \in table' /\ e.name = uses'[f][i].target
           <=> \/ Past(f, i) /\ e \in table /\ e.name = uses[f][i].target
               \/ f = useFile /\ i = useIdx /\ e = entry
  BY <1>2, <1>3, <1>4
<1>6. TableSettled'
  <2>1. \A r : r \in resolved <=>
           \E f, i, e : Past(f, i) /\ e \in table /\ e.name = uses[f][i].target /\ r = Resolution(f, i, e)
    BY DEF UsesInv, TableSettled
  <2>2. resolved' = resolved \cup {Resolution(useFile, useIdx, entry)}
    BY <1>3 DEF Resolution
  <2>3. \A r : r \in resolved' <=>
           \E f, i, e : Past(f, i)' /\ e \in table' /\ e.name = uses'[f][i].target /\ r = Resolution(f, i, e)
    BY <1>5, <2>1, <2>2
  <2> QED
    BY <2>3 DEF TableSettled, Resolution
<1>7. InputsTold'
  <2>1. \A d : d \in useDiags /\ d.code \in InputCodes <=>
        \E i, e : /\ Past(0, i) /\ e \in table /\ e.name = uses[0][i].target
                  /\ d \in InputErrors(i, uses[0][i], decls[e.file][e.position])
    BY DEF UsesInv, InputsTold
  <2>2. UseErrors(use, decls[entry.file][entry.position]) =
           InputErrors(useIdx, use, decls[entry.file][entry.position])
    BY DEF UseErrors, InputErrors
  <2>3. \A d : d \in InputErrors(useIdx, use, decls[entry.file][entry.position]) => d.code \in InputCodes
    BY DEF InputErrors, InputCodes
  <2>4. \A d : d \in useDiags' /\ d.code \in InputCodes <=>
           \/ d \in useDiags /\ d.code \in InputCodes
           \/ useFile = 0 /\ d \in InputErrors(useIdx, use, decls[entry.file][entry.position])
    BY <1>3, <2>2, <2>3
  <2>5. ASSUME NEW d
        PROVE  d \in useDiags' /\ d.code \in InputCodes <=>
        \E i, e : /\ Past(0, i)' /\ e \in table' /\ e.name = uses'[0][i].target
                  /\ d \in InputErrors(i, uses'[0][i], decls'[e.file][e.position])
    <3>1. ASSUME NEW i, NEW e
          PROVE  /\ Past(0, i)' /\ e \in table' /\ e.name = uses'[0][i].target
                 /\ d \in InputErrors(i, uses'[0][i], decls'[e.file][e.position])
                 <=>
                 \/ /\ Past(0, i) /\ e \in table /\ e.name = uses[0][i].target
                    /\ d \in InputErrors(i, uses[0][i], decls[e.file][e.position])
                 \/ /\ useFile = 0 /\ i = useIdx /\ e = entry
                    /\ d \in InputErrors(useIdx, use, decls[entry.file][entry.position])
      <4>1. Past(0, i)' /\ e \in table' /\ e.name = uses'[0][i].target
             <=> \/ Past(0, i) /\ e \in table /\ e.name = uses[0][i].target
                 \/ 0 = useFile /\ i = useIdx /\ e = entry
        BY <1>5
      <4>2. uses'[0][i] = uses[0][i] /\ decls'[e.file][e.position] = decls[e.file][e.position]
        BY <1>2
      <4>3. 0 = useFile /\ i = useIdx /\ e = entry =>
              InputErrors(i, uses[0][i], decls[e.file][e.position]) =
              InputErrors(useIdx, use, decls[entry.file][entry.position])
        BY <1>2
      <4> QED
        BY <4>1, <4>2, <4>3
    <3>2. useFile = 0 => \E i, e : 0 = useFile /\ i = useIdx /\ e = entry
      OBVIOUS
    <3>3. d \in useDiags' /\ d.code \in InputCodes <=>
           \/ d \in useDiags /\ d.code \in InputCodes
           \/ useFile = 0 /\ d \in InputErrors(useIdx, use, decls[entry.file][entry.position])
      BY <2>4
    <3>4. d \in useDiags /\ d.code \in InputCodes <=>
        \E i, e : /\ Past(0, i) /\ e \in table /\ e.name = uses[0][i].target
                  /\ d \in InputErrors(i, uses[0][i], decls[e.file][e.position])
      BY <2>1
    <3> QED
      BY <3>1, <3>2, <3>3, <3>4
  <2> QED
    BY <2>5 DEF InputsTold, InputErrors
<1> QED
  BY <1>2, <1>6, <1>7 DEF UsesInv

LEMMA NextUsesFileKeepsUses ==
    ASSUME TableInv, UsesInv, NextUsesFile
    PROVE  TableInv' /\ UsesInv'
<1>1. /\ file \notin Files /\ useFile \in Files /\ useIdx = Len(uses[useFile]) + 1
      /\ useFile' = useFile + 1 /\ useIdx' = 1
      /\ UNCHANGED <<index, decls, uses, tableVars, resolved, useDiags>>
  BY DEF NextUsesFile, allVars, indexVars, resolveVars
<1>2. TableInv'
  BY <1>1, SameTableInv
<1>3. /\ table' = table /\ uses' = uses /\ decls' = decls /\ index' = index /\ file' = file
      /\ Files' = Files /\ resolved' = resolved /\ useDiags' = useDiags
  BY <1>1 DEF tableVars, Files
<1>4. PICK h, len, total : h = useFile /\ len = Len(uses[useFile]) /\ total = Len(index)
  OBVIOUS
<1>5. /\ h \in Nat /\ len \in Nat /\ total \in Nat /\ h + 1 \in 0..total
      /\ \A f \in Files : f \in Nat /\ Len(uses[f]) \in Nat
  <2>1. \A f \in Files : f \in Nat /\ Len(uses[f]) \in Nat
    BY DEF TableInv, Filed, Files
  <2>2. total \in Nat /\ h \in 0..(total - 1)
    BY <1>1, <1>4 DEF TableInv, Filed, Files
  <2> QED
    BY <1>1, <1>4, <2>1, <2>2
<1>6. Cursor'
  BY <1>1, <1>3, <1>4, <1>5 DEF UsesInv, Cursor
<1>7. ASSUME NEW f, NEW i PROVE Past(f, i)' <=> Past(f, i)
  <2>1. CASE f \in Files /\ i \in 1..Len(uses[f])
    <3>1. f \in Nat /\ i \in Nat /\ i \geq 1 /\ (f = h => i < len + 1)
      BY <1>4, <1>5, <2>1
    <3>2. f < h + 1 \/ (f = h + 1 /\ i < 1) <=> f < h \/ (f = h /\ i < len + 1)
      BY <1>5, <3>1
    <3> QED
      BY <1>1, <1>3, <1>4, <2>1, <3>2 DEF Past
  <2>2. CASE ~(f \in Files /\ i \in 1..Len(uses[f]))
    BY <1>3, <2>2 DEF Past
  <2> QED
    BY <2>1, <2>2
<1>8. TableSettled'
  BY <1>3, <1>7 DEF UsesInv, TableSettled, Resolution
<1>9. InputsTold'
  BY <1>3, <1>7 DEF UsesInv, InputsTold, InputErrors
<1> QED
  BY <1>2, <1>6, <1>8, <1>9 DEF UsesInv

-----------------------------------------------------------------------------
(* The compilation.                                                          *)

Blank ==
    /\ file = 0 /\ next = 1 /\ seen = {} /\ table = {} /\ local = {} /\ ambiguous = {}
    /\ useFile = 0 /\ useIdx = 1 /\ resolved = {} /\ useDiags = {}

\* The index holds what the files declare and use.
Drawn ==
    \A f \in Files : decls[f] = program[PathOf(f)].decls /\ uses[f] = program[PathOf(f)].uses

UInv ==
    /\ program \in Programs(disk)
    /\ stage # "table" => Blank
    /\ stage = "table" => TableInv /\ UsesInv /\ Drawn

LEMMA StartTableKeepsUses ==
    ASSUME RInv, Unaliased, UInv, StartTable
    PROVE  UInv'
<1>1. /\ stage = "done" /\ disk[Entry].parses /\ stage' = "table"
      /\ decls' = [f \in Files |-> program[PathOf(f)].decls]
      /\ uses' = [f \in Files |-> program[PathOf(f)].uses]
      /\ disk' = disk /\ index' = index /\ program' = program
      /\ UNCHANGED <<file, next, seen, table, local, ambiguous, useFile, useIdx, resolved, useDiags>>
  BY DEF StartTable, input, resolveVars, tableVars, useVars
<1>2. Blank /\ Blank'
  BY <1>1 DEF UInv, Blank
<1>3. Indexed
  BY <1>1, IndexOfWalk
<1>4. disk \in Projects /\ program \in Programs(disk)
  BY DEF RInv, OInv, WInv, PInv, Typed, UInv
<1>5. /\ Files' = Files /\ \A f : PathOf(f)' = PathOf(f)
  BY <1>1 DEF Files, PathOf
<1>6. PICK total \in Nat \ {0} : total = Len(index)
  BY <1>3 DEF Indexed
<1>7. Files = 0..(total - 1)
  BY <1>6 DEF Files
<1>8. \A f \in Files : decls'[f] \in Seq(Decl) /\ uses'[f] \in Seq(UseSite)
  <2> SUFFICES ASSUME NEW f \in Files PROVE decls'[f] \in Seq(Decl) /\ uses'[f] \in Seq(UseSite)
    OBVIOUS
  <2>1. PathOf(f) \in Paths
    BY <1>3 DEF Indexed
  <2>2. program \in [Paths -> [decls : Seq(Decl), uses : Seq(UseSite)]]
    BY <1>4, ModuleAssumption
  <2>3. program[PathOf(f)] \in [decls : Seq(Decl), uses : Seq(UseSite)]
    BY <2>1, <2>2
  <2> QED
    BY <1>1, <2>3
<1>9. \A f \in Files : f \in Nat /\ Len(decls'[f]) \in Nat /\ Len(uses'[f]) \in Nat
  BY <1>7, <1>8
<1>10. Drawn'
  BY <1>1, <1>5 DEF Drawn
<1>11. 0 \in Files
  BY <1>6, <1>7
<1>12. Filed'
  <2>1. file' = 0 /\ next' = 1
    BY <1>2 DEF Blank
  <2>2. 1 \in 1..(Len(decls'[0]) + 1)
    BY <1>9, <1>11
  <2> QED
    BY <1>1, <1>5, <1>6, <1>8, <2>1, <2>2 DEF Filed
<1>13. \A f, i : ~Before(f, i)' /\ ~Past(f, i)'
  <2>1. \A f \in Files : ~(f < 0)
    BY <1>9
  <2>2. \A f \in Files : /\ \A i \in 1..Len(decls'[f]) : ~(i < 1)
                         /\ \A i \in 1..Len(uses'[f]) : ~(i < 1)
    BY <1>9
  <2> QED
    BY <1>2, <1>5, <2>1, <2>2 DEF Before, Past, Blank
<1>14. Seen'
  BY <1>2 DEF Seen, Blank
<1>15. Firsts'
  BY <1>13 DEF Firsts
<1>16. Tabled'
  <2>1. \A f, n : ~Holds(f, n)'
    BY <1>13 DEF Holds
  <2>2. \A n : ~Contested(n)'
    BY <2>1 DEF Contested
  <2> QED
    BY <1>2, <1>13, <2>1, <2>2 DEF Tabled, Blank
<1>17. Cursor'
  <2>1. 1 \in 1..(Len(uses'[0]) + 1) /\ 0 \in 0..total
    BY <1>6, <1>9, <1>11
  <2> QED
    BY <1>1, <1>2, <1>5, <1>6, <2>1 DEF Cursor, Blank
<1>18. TableSettled' /\ InputsTold'
  BY <1>2, <1>13 DEF TableSettled, InputsTold, Blank
<1> QED
  BY <1>1, <1>4, <1>10, <1>12, <1>14, <1>15, <1>16, <1>17, <1>18 DEF UInv, TableInv, UsesInv

\* Another name is not an input code.
LEMMA TableDiagsAreNotInputCodes ==
    "E_DUPLICATE_MODULE" \notin InputCodes /\ "E_AMBIGUOUS_MODULE" \notin InputCodes
    /\ "E_UNKNOWN_MODULE" \notin InputCodes
  BY DEF InputCodes

LEMMA SameDrawn ==
    ASSUME Drawn, UNCHANGED <<index, decls, uses, program>>
    PROVE  Drawn'
<1>1. Files' = Files /\ \A f : PathOf(f)' = PathOf(f)
  BY DEF Files, PathOf
<1> QED
  BY <1>1 DEF Drawn

LEMMA TableNextKeepsUses ==
    ASSUME UInv, stage = "table", TableNext
    PROVE  UInv'
<1>1. TableInv /\ UsesInv /\ Drawn
  BY DEF UInv
<1>2. /\ UNCHANGED <<index, decls, uses, program, disk>> /\ stage' = "table"
  BY DEF TableNext, Duplicate, DeclareLocal, Shadowed, BecomeAmbiguous, Claim, NextFile, SkipAmbiguous,
         Unknown, Resolve, Step, NextUse, NextUsesFile, allVars, indexVars, resolveVars, input
<1>3. Drawn'
  BY <1>1, <1>2, SameDrawn
<1>4. ASSUME NEW name \in Names,
             Duplicate(name) \/ DeclareLocal(name) \/ Shadowed(name) \/ BecomeAmbiguous(name) \/ Claim(name)
      PROVE  TableInv' /\ UsesInv'
  <2>1. TableInv'
    BY <1>1, <1>4, DuplicateKeepsTable, DeclareLocalKeepsTable, ShadowedKeepsTable,
       BecomeAmbiguousKeepsTable, ClaimKeepsTable
  <2>2. file \in Files /\ UNCHANGED <<index, decls, uses, useFile, useIdx, resolved>>
    BY <1>4 DEF Duplicate, DeclareLocal, Shadowed, BecomeAmbiguous, Claim, Visiting, Step,
                allVars, indexVars, resolveVars, useVars
  <2>3. \A d : d.code \in InputCodes => (d \in useDiags' <=> d \in useDiags)
    <3>1. \/ useDiags' = useDiags
          \/ \E c \in {"E_DUPLICATE_MODULE", "E_AMBIGUOUS_MODULE"} : ReportUse(c, file, next, name)
      BY <1>4 DEF Duplicate, DeclareLocal, Shadowed, BecomeAmbiguous, Claim
    <3> QED
      BY <3>1, TableDiagsAreNotInputCodes DEF ReportUse
  <2> QED
    BY <1>1, <2>1, <2>2, <2>3, TableKeepsUses
<1>5. ASSUME NextFile PROVE TableInv' /\ UsesInv'
  <2>1. TableInv'
    BY <1>1, <1>5, NextFileKeepsTable
  <2>2. file \in Files /\ UNCHANGED <<index, decls, uses, useFile, useIdx, resolved>> /\ useDiags' = useDiags
    BY <1>5 DEF NextFile, allVars, indexVars, resolveVars, useVars
  <2>3. \A d : d.code \in InputCodes => (d \in useDiags' <=> d \in useDiags)
    BY <2>2
  <2> QED
    BY <1>1, <2>1, <2>2, <2>3, TableKeepsUses
<1>6. ASSUME NEW use \in UseSite, SkipAmbiguous(use) \/ Unknown(use) PROVE TableInv' /\ UsesInv'
  <2>1. AtUse(use) /\ NextUse /\ resolved' = resolved
    BY <1>6 DEF SkipAmbiguous, Unknown
  <2>2. \A e \in table : e.name # use.target
    BY <1>1, <1>6, OneEntry DEF SkipAmbiguous, Unknown, InTable
  <2>3. \A d : d.code \in InputCodes => (d \in useDiags' <=> d \in useDiags)
    <3>1. useDiags' = useDiags \/ ReportUse("E_UNKNOWN_MODULE", 0, useIdx, use.target)
      BY <1>6 DEF SkipAmbiguous, Unknown
    <3> QED
      BY <3>1, TableDiagsAreNotInputCodes DEF ReportUse
  <2> QED
    BY <1>1, <2>1, <2>2, <2>3, NoEntryKeepsUses
<1>7. TableInv' /\ UsesInv'
  BY <1>1, <1>4, <1>5, <1>6, ResolveKeepsUses, NextUsesFileKeepsUses DEF TableNext
<1> QED
  BY <1>2, <1>3, <1>7 DEF UInv

LEMMA ResolvingLeavesTable ==
    ASSUME RNext
    PROVE  stage # "table" /\ stage' # "table" /\ disk' = disk
<1>1. CASE Finished
  BY <1>1 DEF Finished, allVars, input
<1>2. CASE WalkNext /\ UNCHANGED resolveVars
  BY <1>2, ZenonT(40) DEF WalkNext, FetchMisses, FetchIfml, FetchDomain, FetchActor, FetchOther, AtImport, WalkReturn, input
<1>3. CASE StartResolve
  BY <1>3 DEF StartResolve, input
<1>4. ASSUME NEW w \in Written,
             \/ PassThrough(w) \/ Circular(w) \/ SkipVisited(w) \/ NotProvided(w) \/ ParseError(w) \/ Absorb(w)
      PROVE  stage # "table" /\ stage' # "table" /\ disk' = disk
  BY <1>4 DEF PassThrough, Circular, SkipVisited, NotProvided, ParseError, Absorb, NeedsText, AtLookup,
              AtStatement, input
<1>5. CASE ResolveReturn
  BY <1>5 DEF ResolveReturn, input
<1> QED
  BY <1>1, <1>2, <1>3, <1>4, <1>5 DEF RNext

LEMMA SameUses ==
    ASSUME UInv, UNCHANGED <<disk, stage, index, indexVars, tableVars, useVars, useDiags>>
    PROVE  UInv'
<1>1. /\ UNCHANGED <<disk, stage, index, decls, uses, program, tableVars>> /\ file' = file /\ table' = table
      /\ useFile' = useFile /\ useIdx' = useIdx /\ resolved' = resolved /\ useDiags' = useDiags
      /\ Blank' <=> Blank
  BY DEF indexVars, tableVars, useVars, Blank
<1>2. stage = "table" => TableInv' /\ Drawn'
  BY <1>1, SameTableInv, SameDrawn DEF UInv
<1>3. Files' = Files
  BY <1>1 DEF Files
<1>4. \A f, i : Past(f, i)' <=> Past(f, i)
  BY <1>1, <1>3 DEF Past
<1>5. ASSUME UsesInv PROVE UsesInv'
  <2>1. Cursor'
    BY <1>1, <1>3, <1>5 DEF UsesInv, Cursor
  <2>2. TableSettled'
    BY <1>1, <1>4, <1>5 DEF UsesInv, TableSettled, Resolution
  <2>3. InputsTold'
    BY <1>1, <1>4, <1>5 DEF UsesInv, InputsTold, InputErrors
  <2> QED
    BY <2>1, <2>2, <2>3 DEF UsesInv
<1> QED
  BY <1>1, <1>2, <1>5 DEF UInv

LEMMA NextKeepsUses ==
    ASSUME RInv, Unaliased, UInv, [CNext]_compilationVars
    PROVE  UInv'
<1>1. CASE RNext /\ UNCHANGED moduleVars
  <2>1. stage # "table" /\ stage' # "table" /\ disk' = disk
    BY <1>1, ResolvingLeavesTable
  <2>2. program' = program /\ Blank'
    BY <1>1, <2>1 DEF UInv, Blank, moduleVars, indexVars, tableVars, useVars
  <2> QED
    BY <2>1, <2>2 DEF UInv
<1>2. CASE StartTable
  BY <1>2, StartTableKeepsUses
<1>3. CASE TableNext
  <2>1. stage = "table"
    BY <1>3 DEF TableNext, Duplicate, DeclareLocal, Shadowed, BecomeAmbiguous, Claim, Visiting, NextFile,
                SkipAmbiguous, Unknown, Resolve, AtUse, NextUsesFile
  <2> QED
    BY <1>3, <2>1, TableNextKeepsUses
<1>4. CASE UNCHANGED compilationVars
  <2>1. UNCHANGED <<disk, stage, index, indexVars, tableVars, useVars, useDiags>>
    BY <1>4 DEF compilationVars, allVars, moduleVars, input, resolveVars
  <2> QED
    BY <2>1, SameUses
<1> QED
  BY <1>1, <1>2, <1>3, <1>4 DEF CNext

LEMMA InitHasUses ==
    ASSUME CInit
    PROVE  UInv
<1>1. stage = "walk"
  BY DEF CInit, RInit, Init
<1> QED
  BY <1>1 DEF CInit, UInv, Blank

LEMMA FirstInIs ==
    ASSUME NEW p, NEW name, Len(program[p].decls) \in Nat, NEW i \in 1..Len(program[p].decls),
           program[p].decls[i].name = name, \A j \in 1..(i - 1) : program[p].decls[j].name # name
    PROVE  FirstIn(p, name) = i
<1> DEFINE P(k) == /\ program[p].decls[k].name = name
                   /\ \A j \in 1..(k - 1) : program[p].decls[j].name # name
           first == FirstIn(p, name)
<1>1. P(i)
  OBVIOUS
<1>2. first \in 1..Len(program[p].decls) /\ P(first)
  BY <1>1 DEF FirstIn
<1>3. i \in Nat /\ first \in Nat /\ i \geq 1 /\ first \geq 1
  BY <1>2
<1>4. ~(i < first) /\ ~(first < i)
  BY <1>1, <1>2, <1>3
<1> QED
  BY <1>3, <1>4

\* The entry of a name is the declaration that the name means.
LEMMA EntryIsMeaning ==
    ASSUME UInv, Indexed, Compiled, NEW name
    PROVE  {<<PathOf(e.file), e.position>> : e \in {d \in table : d.name = name}} = Meaning(name)
<1>1. /\ TableInv /\ Drawn /\ file \notin Files
  BY DEF UInv, Compiled
<1>2. PICK total \in Nat \ {0} : total = Len(index) /\ Files = 0..(total - 1)
  BY DEF Indexed, Files
<1>3. file = total
  BY <1>1, <1>2 DEF TableInv, Filed
<1>4. /\ \A f \in Files : f \in Nat /\ f < file /\ Len(decls[f]) \in Nat
      /\ 0 \in Files
  BY <1>1, <1>2, <1>3 DEF TableInv, Filed
<1>5. \A f, i : Before(f, i) <=> f \in Files /\ i \in 1..Len(decls[f])
  BY <1>4 DEF Before
<1>6. \A f, n : f \in Files => (Holds(f, n) <=> Declares(PathOf(f), n))
  BY <1>1, <1>5 DEF Holds, Declares, NameAt, Drawn
<1>7. \A f, i : Before(f, i) /\ FirstAt(f, i) => FirstIn(PathOf(f), NameAt(f, i)) = i
  <2> SUFFICES ASSUME NEW f, NEW i, Before(f, i), FirstAt(f, i)
               PROVE  FirstIn(PathOf(f), NameAt(f, i)) = i
    OBVIOUS
  <2>1. f \in Files /\ i \in 1..Len(decls[f]) /\ decls[f] = program[PathOf(f)].decls
    BY <1>1, <1>5 DEF Drawn
  <2>2. PICK p, n : p = PathOf(f) /\ n = NameAt(f, i)
    OBVIOUS
  <2>3. /\ Len(program[p].decls) \in Nat /\ i \in 1..Len(program[p].decls)
        /\ program[p].decls[i].name = n /\ \A j \in 1..(i - 1) : program[p].decls[j].name # n
    BY <1>4, <2>1, <2>2 DEF NameAt, FirstAt
  <2>4. FirstIn(p, n) = i
    BY <2>3, FirstInIs
  <2> QED
    BY <2>2, <2>4
<1>8. /\ \A n : n \in local <=> Holds(0, n)
      /\ \A e : e \in table <=>
            \E f, i : Before(f, i) /\ FirstAt(f, i) /\ Sole(f, NameAt(f, i)) /\ e = EntryAt(f, i)
      /\ \A f, i : Before(f, i) => \E j : Before(f, j) /\ FirstAt(f, j) /\ NameAt(f, j) = NameAt(f, i)
  BY <1>1 DEF TableInv, Tabled, Firsts
<1>9. PathOf(0) = Entry /\ (name \in local <=> Declares(Entry, name))
  BY <1>4, <1>6, <1>8 DEF Indexed
<1> DEFINE Stands(m) == \E f, i : /\ Before(f, i) /\ FirstAt(f, i) /\ Sole(f, name) /\ NameAt(f, i) = name
                                  /\ m = <<PathOf(f), FirstIn(PathOf(f), name)>>
<1>10. \A m : m \in {<<PathOf(e.file), e.position>> : e \in {d \in table : d.name = name}} <=> Stands(m)
  <2>1. \A f, i : EntryAt(f, i).name = NameAt(f, i) /\ EntryAt(f, i).file = f /\ EntryAt(f, i).position = i
    BY DEF EntryAt
  <2>2. ASSUME NEW e \in table, e.name = name PROVE Stands(<<PathOf(e.file), e.position>>)
    <3>1. PICK f, i : Before(f, i) /\ FirstAt(f, i) /\ Sole(f, NameAt(f, i)) /\ e = EntryAt(f, i)
      BY <1>8
    <3> QED
      BY <1>7, <2>1, <2>2, <3>1
  <2>3. ASSUME NEW m, Stands(m)
        PROVE  m \in {<<PathOf(e.file), e.position>> : e \in {d \in table : d.name = name}}
    <3>1. PICK f, i : /\ Before(f, i) /\ FirstAt(f, i) /\ Sole(f, name) /\ NameAt(f, i) = name
                      /\ m = <<PathOf(f), FirstIn(PathOf(f), name)>>
      BY <2>3
    <3>2. EntryAt(f, i) \in table /\ FirstIn(PathOf(f), name) = i
      BY <1>7, <1>8, <3>1
    <3> QED
      BY <2>1, <3>1, <3>2
  <2> QED
    BY <2>2, <2>3
<1>11. \A f \in Files : Holds(f, name) => \E i : Before(f, i) /\ FirstAt(f, i) /\ NameAt(f, i) = name
  BY <1>8 DEF Holds
<1>12. \A f, i : Before(f, i) /\ NameAt(f, i) = name => f \in Files /\ Holds(f, name)
  BY <1>5 DEF Holds
<1>13. \A m : Stands(m) <=> \E f \in Files : /\ Holds(f, name) /\ Sole(f, name)
                                            /\ m = <<PathOf(f), FirstIn(PathOf(f), name)>>
  BY <1>11, <1>12
<1> HIDE DEF Stands
<1>14. CASE Declares(Entry, name)
  <2>1. \A f \in Files : Sole(f, name) <=> f = 0
    BY <1>9, <1>14 DEF Sole
  <2>2. \A m : Stands(m) <=> m = <<Entry, FirstIn(Entry, name)>>
    BY <1>4, <1>6, <1>9, <1>13, <1>14, <2>1
  <2>3. Meaning(name) = {<<Entry, FirstIn(Entry, name)>>}
    BY <1>14 DEF Meaning
  <2> QED
    BY <1>10, <2>2, <2>3
<1>15. CASE ~Declares(Entry, name)
  <2>1. /\ \A f \in Files : PathOf(f) \in ReachedFrom({Entry}) /\ disk[PathOf(f)].parses
        /\ \A p \in ReachedFrom({Entry}) : disk[p].parses => \E f \in Files : PathOf(f) = p
        /\ \A f, g \in Files : PathOf(f) = PathOf(g) /\ PathOf(f) # Entry => f = g
    BY DEF Indexed
  <2>2. \A f \in Files : Holds(f, name) => f # 0 /\ PathOf(f) # Entry /\ PathOf(f) \in Declarers(name)
    BY <1>6, <1>9, <1>15, <2>1 DEF Declarers, Imported
  <2>3. \A p \in Declarers(name) : \E f \in Files : PathOf(f) = p /\ Holds(f, name)
    BY <1>6, <2>1 DEF Declarers, Imported
  <2>4. \A f \in Files : Holds(f, name) => (Sole(f, name) <=> Declarers(name) = {PathOf(f)})
    <3> SUFFICES ASSUME NEW f \in Files, Holds(f, name)
                 PROVE  Sole(f, name) <=> Declarers(name) = {PathOf(f)}
      OBVIOUS
    <3>1. f # 0 /\ name \notin local
      BY <1>9, <1>15, <2>2
    <3>2. ASSUME Sole(f, name) PROVE Declarers(name) = {PathOf(f)}
      <4>1. \A g \in Files : g # 0 /\ Holds(g, name) => g = f
        BY <3>1, <3>2 DEF Sole
      <4>2. \A p \in Declarers(name) : p = PathOf(f)
        BY <2>2, <2>3, <4>1
      <4> QED
        BY <2>2, <4>2
    <3>3. ASSUME Declarers(name) = {PathOf(f)} PROVE Sole(f, name)
      <4>1. \A g \in Files : Holds(g, name) => PathOf(g) = PathOf(f) /\ PathOf(g) # Entry
        BY <2>2, <3>3
      <4>2. \A g \in Files : Holds(g, name) => g = f
        BY <2>1, <4>1
      <4> QED
        BY <3>1, <4>2 DEF Sole
    <3> QED
      BY <3>2, <3>3
  <2>5. \A m : Stands(m) <=> \E p \in Declarers(name) : Declarers(name) = {p} /\ m = <<p, FirstIn(p, name)>>
    BY <1>13, <2>2, <2>3, <2>4
  <2>6. Meaning(name) = {<<p, FirstIn(p, name)>> : p \in {q \in Declarers(name) : Declarers(name) = {q}}}
    BY <1>15 DEF Meaning
  <2>7. \A m : m \in Meaning(name) <=> \E p \in Declarers(name) : Declarers(name) = {p} /\ m = <<p, FirstIn(p, name)>>
    BY <2>6
  <2> QED
    BY <1>10, <2>5, <2>7
<1> QED
  BY <1>14, <1>15

ErrorsOf(code, i, names) == {[code |-> code, file |-> 0, at |-> i, name |-> x] : x \in names}

LEMMA NamesOfErrors ==
    ASSUME NEW names, NEW code, NEW i
    PROVE  \A x : x \in names <=> \E d : d \in ErrorsOf(code, i, names) /\ d.name = x
<1> DEFINE Error(y) == [code |-> code, file |-> 0, at |-> i, name |-> y]
<1>1. \A y : Error(y).name = y
  OBVIOUS
<1>2. \A d : d \in ErrorsOf(code, i, names) <=> \E y \in names : d = Error(y)
  BY DEF ErrorsOf
<1> HIDE DEF Error
<1> QED
  BY <1>1, <1>2

\* What is told of a use's inputs is told from the declaration the use means.
LEMMA ToldIsDue ==
    ASSUME UInv, Indexed, Compiled, NEW i \in 1..Len(uses[0]), NEW m \in Meaning(uses[0][i].target)
    PROVE  LET decl == program[m[1]].decls[m[2]]
               Told(code) == {d.name : d \in {e \in useDiags : e.at = i /\ e.code = code}}
           IN  /\ Told("E_MISSING_INPUT") = decl.required \ uses[0][i].overrides
               /\ Told("E_UNKNOWN_INPUT") = uses[0][i].overrides \ decl.accepted
<1> DEFINE use == uses[0][i]
           decl == program[m[1]].decls[m[2]]
           Told(code) == {d.name : d \in {e \in useDiags : e.at = i /\ e.code = code}}
<1>1. TableInv /\ UsesInv /\ Drawn /\ useFile \notin Files
  BY DEF UInv, Compiled
<1>2. PICK entry \in table : entry.name = use.target /\ m = <<PathOf(entry.file), entry.position>>
  <2>1. m \in {<<PathOf(e.file), e.position>> : e \in {d \in table : d.name = use.target}}
    BY EntryIsMeaning
  <2> QED
    BY <2>1
<1>3. decls[entry.file][entry.position] = decl
  <2>1. PICK f, k : Before(f, k) /\ entry = EntryAt(f, k)
    BY <1>1 DEF TableInv, Tabled
  <2>2. entry.file \in Files
    BY <2>1 DEF EntryAt, Before
  <2> QED
    BY <1>1, <1>2, <2>2 DEF Drawn
<1>4. Past(0, i)
  <2>1. 0 \in Files /\ 0 < useFile
    BY <1>1 DEF UsesInv, Cursor, Indexed, Files
  <2> QED
    BY <2>1 DEF Past
<1>5. \A e \in table : e.name = use.target => e = entry
  BY <1>1, <1>2, OneEntry
<1>6. ASSUME NEW d
      PROVE  (d \in useDiags /\ d.at = i /\ d.code \in InputCodes) <=> d \in InputErrors(i, use, decl)
  <2>1. d \in useDiags /\ d.code \in InputCodes <=>
        \E k, e : /\ Past(0, k) /\ e \in table /\ e.name = uses[0][k].target
                  /\ d \in InputErrors(k, uses[0][k], decls[e.file][e.position])
    BY <1>1 DEF UsesInv, InputsTold
  <2>2. \A k, v, w : d \in InputErrors(k, v, w) => d.at = k
    BY DEF InputErrors
  <2>3. d \in InputErrors(i, use, decl) => d \in useDiags /\ d.at = i /\ d.code \in InputCodes
    BY <1>2, <1>3, <1>4, <2>1, <2>2
  <2>4. ASSUME d \in useDiags, d.at = i, d.code \in InputCodes PROVE d \in InputErrors(i, use, decl)
    <3>1. PICK k, e : /\ Past(0, k) /\ e \in table /\ e.name = uses[0][k].target
                      /\ d \in InputErrors(k, uses[0][k], decls[e.file][e.position])
      BY <2>1, <2>4
    <3>2. k = i
      BY <2>2, <2>4, <3>1
    <3>3. e = entry
      BY <1>5, <3>1, <3>2
    <3> QED
      BY <1>3, <3>1, <3>2, <3>3
  <2> QED
    BY <2>3, <2>4
<1>7. Told("E_MISSING_INPUT") = decl.required \ use.overrides
  <2>1. PICK S, T : S = decl.required \ use.overrides /\ T = Told("E_MISSING_INPUT")
    OBVIOUS
  <2>2. \A d : (d \in useDiags /\ d.at = i /\ d.code = "E_MISSING_INPUT") <=> d \in ErrorsOf("E_MISSING_INPUT", i, S)
    <3>1. \A d : d \in InputErrors(i, use, decl) /\ d.code = "E_MISSING_INPUT" <=> d \in ErrorsOf("E_MISSING_INPUT", i, S)
      BY <2>1 DEF InputErrors, ErrorsOf
    <3> QED
      BY <1>6, <3>1 DEF InputCodes
  <2>3. \A x : x \in S <=> \E d : d \in ErrorsOf("E_MISSING_INPUT", i, S) /\ d.name = x
    BY NamesOfErrors
  <2>4. \A x : x \in T <=> \E d : d \in useDiags /\ d.at = i /\ d.code = "E_MISSING_INPUT" /\ d.name = x
    BY <2>1
  <2> HIDE DEF Told
  <2>5. \A x : x \in T <=> x \in S
    BY <2>2, <2>3, <2>4
  <2> QED
    BY <2>1, <2>5
<1>8. Told("E_UNKNOWN_INPUT") = use.overrides \ decl.accepted
  <2>1. PICK S, T : S = use.overrides \ decl.accepted /\ T = Told("E_UNKNOWN_INPUT")
    OBVIOUS
  <2>2. \A d : (d \in useDiags /\ d.at = i /\ d.code = "E_UNKNOWN_INPUT") <=> d \in ErrorsOf("E_UNKNOWN_INPUT", i, S)
    <3>1. \A d : d \in InputErrors(i, use, decl) /\ d.code = "E_UNKNOWN_INPUT" <=> d \in ErrorsOf("E_UNKNOWN_INPUT", i, S)
      BY <2>1 DEF InputErrors, ErrorsOf
    <3> QED
      BY <1>6, <3>1 DEF InputCodes
  <2>3. \A x : x \in S <=> \E d : d \in ErrorsOf("E_UNKNOWN_INPUT", i, S) /\ d.name = x
    BY NamesOfErrors
  <2>4. \A x : x \in T <=> \E d : d \in useDiags /\ d.at = i /\ d.code = "E_UNKNOWN_INPUT" /\ d.name = x
    BY <2>1
  <2> HIDE DEF Told
  <2>5. \A x : x \in T <=> x \in S
    BY <2>2, <2>3, <2>4
  <2> QED
    BY <2>1, <2>5
<1> QED
  BY <1>7, <1>8

LEMMA CompiledUsesMean ==
    ASSUME RInv, Unaliased, UInv
    PROVE  UsesMeanDeclared
<1> SUFFICES ASSUME Compiled, NEW f \in Files, NEW i \in 1..Len(uses[f])
             PROVE  LET meaning == Meaning(uses[f][i].target)
                        Told(code) == {d.name : d \in {e \in useDiags : e.at = i /\ e.code = code}}
                    IN  /\ {<<PathOf(r.file), r.position>> : r \in {r \in resolved : r.use = <<f, i>>}} = meaning
                        /\ f = 0 => \A m \in meaning :
                             LET decl == program[m[1]].decls[m[2]]
                             IN  /\ Told("E_MISSING_INPUT") = decl.required \ uses[f][i].overrides
                                 /\ Told("E_UNKNOWN_INPUT") = uses[f][i].overrides \ decl.accepted
  BY DEF UsesMeanDeclared
<1> DEFINE name == uses[f][i].target
           Told(code) == {d.name : d \in {e \in useDiags : e.at = i /\ e.code = code}}
<1>1. Indexed
  <2>1. stage = "table" /\ disk[Entry].parses
    BY DEF Compiled, RInv
  <2> QED
    BY <2>1, IndexOfWalk
<1>2. UsesInv /\ useFile \notin Files
  BY DEF UInv, Compiled
<1>3. Past(f, i)
  <2>1. PICK total \in Nat \ {0} : total = Len(index) /\ Files = 0..(total - 1)
    BY <1>1 DEF Indexed, Files
  <2>2. f < useFile
    BY <1>2, <2>1 DEF UsesInv, Cursor
  <2> QED
    BY <2>2 DEF Past
<1>4. \A r : r \in resolved /\ r.use = <<f, i>> <=>
         \E e \in table : e.name = name /\ r = Resolution(f, i, e)
  <2>1. \A r : r \in resolved <=>
           \E g, k, e : Past(g, k) /\ e \in table /\ e.name = uses[g][k].target /\ r = Resolution(g, k, e)
    BY <1>2 DEF UsesInv, TableSettled
  <2>2. \A g, k, e : Resolution(g, k, e).use = <<g, k>>
    BY DEF Resolution
  <2>3. \A g, k : <<g, k>> = <<f, i>> <=> g = f /\ k = i
    OBVIOUS
  <2> QED
    BY <1>3, <2>1, <2>2, <2>3
<1>5. {<<PathOf(r.file), r.position>> : r \in {r \in resolved : r.use = <<f, i>>}} =
      {<<PathOf(e.file), e.position>> : e \in {d \in table : d.name = name}}
  <2>1. \A e : Resolution(f, i, e).file = e.file /\ Resolution(f, i, e).position = e.position
    BY DEF Resolution
  <2> QED
    BY <1>4, <2>1
<1>6. {<<PathOf(e.file), e.position>> : e \in {d \in table : d.name = name}} = Meaning(name)
  BY <1>1, EntryIsMeaning
<1>7. ASSUME f = 0, NEW m \in Meaning(name)
      PROVE  LET decl == program[m[1]].decls[m[2]]
             IN  /\ Told("E_MISSING_INPUT") = decl.required \ uses[f][i].overrides
                 /\ Told("E_UNKNOWN_INPUT") = uses[f][i].overrides \ decl.accepted
  BY <1>1, <1>7, ToldIsDue
<1> QED
  BY <1>5, <1>6, <1>7

\* The files do not change while a compilation runs.
LEMMA UnaliasedStays ==
    ASSUME Unaliased, RInv, [CNext]_compilationVars
    PROVE  Unaliased'
<1>1. disk' = disk
  <2>1. RNext => disk' = disk
    BY ResolvingLeavesTable
  <2> QED
    BY <2>1 DEF CNext, StartTable, TableNext, Duplicate, DeclareLocal, Shadowed, BecomeAmbiguous, Claim,
                NextFile, SkipAmbiguous, Unknown, Resolve, Step, NextUse, NextUsesFile, compilationVars,
                allVars, input
<1> QED
  BY <1>1 DEF Unaliased, Mentions, Exists

\* Every use of a compiled project resolves to what its name means by the
\* documented rule, and the uses of the main file are told off for exactly the
\* inputs that this declaration lacks or still wants (resolve_module_uses and
\* validate_use), whatever the project, if every file but the main one is written
\* the same wherever it is imported.
THEOREM UsesMeanWhatIsDeclared ==
    ASSUME OneFilePerName
    PROVE  CSpec /\ Unaliased => []UsesMeanDeclared
<1>1. CInit => UInv
  BY InitHasUses
<1>2. RInv /\ Unaliased /\ UInv /\ [CNext]_compilationVars => UInv' /\ Unaliased'
  BY NextKeepsUses, UnaliasedStays
<1>3. RInv /\ Unaliased /\ UInv => UsesMeanDeclared
  BY CompiledUsesMean
<1> QED
  BY <1>1, <1>2, <1>3, ResolverInvariant, PTL DEF CSpec
=============================================================================
