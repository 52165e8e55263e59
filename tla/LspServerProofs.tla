--------------------------- MODULE LspServerProofs ---------------------------
(***************************************************************************)
(* What the language server promises for any number of documents, contents *)
(* and handler slots, and any number of edits: the safety properties of    *)
(* LspServer.tla, proved from an inductive invariant.                      *)
(***************************************************************************)
EXTENDS LspServer, TLAPS

-----------------------------------------------------------------------------
(* What a compilation reads. *)

\* Imports are documents, whatever the surface that is followed.
LEMMA ImportsAreDocs ==
    ASSUME NEW d \in Docs
    PROVE  Imports(d) \subseteq Docs /\ Follows(d) \subseteq Docs
<1>1. Imports(d) \subseteq Docs
  BY LspAssumption DEF Imports
<1>2. Follows(d) \subseteq Docs
  BY <1>1 DEF Follows, OfSurface
<1> QED
  BY <1>1, <1>2

\* A compilation reads documents only.
LEMMA InputsAreDocs ==
    ASSUME NEW d \in Docs
    PROVE  Inputs(d) \subseteq Docs
<1>1. ASSUME NEW S \in SUBSET Docs
      PROVE  DomainsOf(S) \subseteq Docs
  BY <1>1, ImportsAreDocs DEF DomainsOf, OfSurface
<1>2. SiblingsOf[d] \subseteq Docs
  BY LspAssumption
<1>3. CASE SurfaceOf[d] \in {"ddd", "actor"}
  <2>1. \A surface : OfSurface(SiblingsOf[d], surface) \subseteq Docs
    BY <1>2 DEF OfSurface
  <2>2. CASE SurfaceOf[d] = "ddd"
    <3> DEFINE read == {d} \cup OfSurface(SiblingsOf[d], "actor")
                           \cup OfSurface(SiblingsOf[d], "dmn")
    <3>1. read \subseteq Docs
      BY <2>1
    <3>2. Inputs(d) = read \cup DomainsOf(read)
      BY <2>2 DEF Inputs
    <3> QED
      BY <3>1, <3>2, <1>1
  <2>3. CASE SurfaceOf[d] = "actor"
    <3> DEFINE read == {d} \cup OfSurface(SiblingsOf[d], "ddd")
    <3>1. read \subseteq Docs
      BY <2>1
    <3>2. Inputs(d) = read \cup DomainsOf(read)
      BY <2>3 DEF Inputs
    <3> QED
      BY <3>1, <3>2, <1>1
  <2> QED
    BY <1>3, <2>2, <2>3
<1>4. CASE SurfaceOf[d] \notin {"ddd", "actor"}
  BY <1>4 DEF Inputs, ImportClosure
<1> QED
  BY <1>3, <1>4

\* Every document of a surface the server compiles is an input of its own list;
\* that does not depend on what the documents contain.
LEMMA OwnInput ==
    ASSUME NEW d \in Docs
    PROVE  d \in Inputs(d) <=> SurfaceOf[d] \notin {"dmn", "other"}
<1>1. SurfaceOf[d] \in Surfaces
  BY LspAssumption
<1>2. d \in ImportClosure(d)
  BY DEF ImportClosure
<1>3. CASE SurfaceOf[d] = "ddd"
  BY <1>3 DEF Inputs
<1>4. CASE SurfaceOf[d] = "actor"
  BY <1>4 DEF Inputs
<1>5. CASE SurfaceOf[d] = "mox"
  BY <1>5 DEF Inputs
<1>6. CASE SurfaceOf[d] = "ifml"
  BY <1>2, <1>6 DEF Inputs
<1>7. CASE SurfaceOf[d] \in {"dmn", "other"}
  BY <1>7 DEF Inputs
<1> QED
  BY <1>1, <1>3, <1>4, <1>5, <1>6, <1>7 DEF Surfaces

-----------------------------------------------------------------------------
(* Type correctness. *)

\* The parts of the type invariant that do not mention the messages.
StateOK ==
    /\ open \subseteq Docs
    /\ text \in [Docs -> Texts \cup {Absent}]
    /\ \A d \in open : text[d] \in Texts
    /\ version \in [Docs -> Nat]
    /\ salsa \in [Docs -> Texts \cup {Absent}]
    /\ \A d \in open : SurfaceOf[d] = "mox" => salsa[d] = text[d]
    /\ disk \in [Docs -> Texts \cup {Absent}]
    /\ phase \in [Slots -> {"idle", "published", "fanout"}]
    /\ origin \in [Slots -> Docs]
    /\ todo \in [Slots -> SUBSET Docs]
    /\ edits \in Nat

MessagesOK == DOMAIN shown = Docs /\ \A d \in Docs : IsMessage(shown[d])

\* TypeOK is the two of them.
LEMMA TypeParts == TypeOK <=> StateOK /\ MessagesOK
BY DEF TypeOK, StateOK, MessagesOK

\* The list a compilation produces is one the client can be sent.
LEMMA CompiledIsMessage ==
    StateOK => \A d \in Docs, v \in Nat : IsMessage(Message(Diagnostics(d), v))
<1> SUFFICES ASSUME StateOK, NEW d \in Docs, NEW v \in Nat
             PROVE  IsMessage(Message(Diagnostics(d), v))
  OBVIOUS
<1>1. \A x \in Docs : Content(x) \in Texts \cup {Absent}
  BY DEF StateOK, Content
<1>2. Diagnostics(d) \in [Inputs(d) -> Texts \cup {Absent}]
  BY <1>1, InputsAreDocs DEF Diagnostics, StateOK
<1> QED
  BY <1>2, InputsAreDocs DEF IsMessage, Message

\* The same of the list that is computed after the step's assignments.
LEMMA CompiledIsMessageNext ==
    (StateOK => \A d \in Docs, v \in Nat : IsMessage(Message(Diagnostics(d), v)))'
BY CompiledIsMessage, PTL

\* The list did_close sends is a message.
LEMMA ClearedIsMessage == IsMessage(Message(Cleared, NoVersion))
BY DEF IsMessage, Message, NoVersion

\* Sending one message keeps the messages well formed.
LEMMA Sent ==
    ASSUME MessagesOK, NEW d \in Docs, NEW m, IsMessage(m),
           shown' = [shown EXCEPT ![d] = m]
    PROVE  MessagesOK'
<1>1. DOMAIN shown' = Docs
  BY DEF MessagesOK
<1>2. ASSUME NEW x \in Docs PROVE IsMessage(shown[x])'
  <2>1. CASE x = d
    BY <2>1 DEF MessagesOK, IsMessage
  <2>2. CASE x # d
    <3>1. shown'[x] = shown[x]
      BY <2>2 DEF MessagesOK
    <3> QED
      BY <3>1 DEF MessagesOK, IsMessage
  <2> QED
    BY <2>1, <2>2
<1> QED
  BY <1>1, <1>2 DEF MessagesOK

\* A turn of the fan-out keeps the types.
LEMMA FanOutType ==
    ASSUME TypeOK, NEW s \in Slots, NEW pending \in SUBSET Docs, FanOut(s, pending),
           UNCHANGED <<open, text, version, salsa, disk, origin, edits>>
    PROVE  TypeOK'
<1> USE TypeParts
<1>1. PICK skipped \in SUBSET (pending \ open) :
        \/ \E d \in pending \cap open :
              /\ shown' = [shown EXCEPT ![d] = Message(Diagnostics(d), NoVersion)]
              /\ phase' = [phase EXCEPT ![s] = "fanout"]
              /\ todo' = [todo EXCEPT ![s] = pending \ (skipped \cup {d})]
        \/ /\ pending = skipped
           /\ phase' = [phase EXCEPT ![s] = "idle"]
           /\ todo' = [todo EXCEPT ![s] = {}]
           /\ UNCHANGED shown
  BY DEF FanOut
<1>2. StateOK'
  BY <1>1 DEF StateOK
<1>3. MessagesOK'
  <2>1. ASSUME NEW d \in Docs PROVE IsMessage(Message(Diagnostics(d), NoVersion))
    BY CompiledIsMessage DEF NoVersion
  <2>2. CASE UNCHANGED shown
    BY <2>2 DEF MessagesOK, IsMessage
  <2>3. ASSUME NEW d \in pending \cap open,
               shown' = [shown EXCEPT ![d] = Message(Diagnostics(d), NoVersion)]
        PROVE  MessagesOK'
    BY <2>1, <2>3, Sent
  <2> QED
    BY <1>1, <2>2, <2>3
<1> QED
  BY <1>2, <1>3 DEF TypeOK, StateOK, MessagesOK

\* The dependents of a document are open documents.
LEMMA DependentsAreOpen ==
    ASSUME NEW x
    PROVE  DependentsOf(x) \subseteq open
BY DEF DependentsOf

\* TypeOK is inductive by itself.
LEMMA TypeStep == TypeOK /\ [Next]_vars => TypeOK'
<1> SUFFICES ASSUME TypeOK, [Next]_vars PROVE TypeOK'
  OBVIOUS
<1> USE TypeParts
<1>1. ASSUME NEW s \in Slots, NEW d \in Docs, NEW t \in TextsOf[d],
             DidOpen(s, d, t) \/ DidChange(s, d, t)
      PROVE  TypeOK'
  <2>1. t \in Texts
    BY LspAssumption
  <2>2. StateOK'
    <3>1. CASE DidOpen(s, d, t)
      BY <2>1, <3>1 DEF DidOpen, Suspend, StateOK
    <3>2. CASE DidChange(s, d, t)
      BY <2>1, <3>2 DEF DidChange, Suspend, StateOK
    <3> QED
      BY <1>1, <3>1, <3>2
  <2>3. PICK v \in Nat : shown' = [shown EXCEPT ![d] = Message(Diagnostics(d)', v)]
    BY <1>1 DEF DidOpen, DidChange, PublishDocument, StateOK
  <2>4. IsMessage(Message(Diagnostics(d)', v))
    BY <2>2, CompiledIsMessageNext DEF IsMessage, Message
  <2>5. MessagesOK'
    BY <2>3, <2>4, Sent
  <2> QED
    BY <2>2, <2>5 DEF TypeOK, StateOK, MessagesOK
<1>2. ASSUME NEW d \in Docs, DidClose(d)
      PROVE  TypeOK'
  <2>1. StateOK'
    BY <1>2 DEF DidClose, StateOK, NoVersion
  <2>2. MessagesOK'
    BY <1>2, ClearedIsMessage, Sent DEF DidClose
  <2> QED
    BY <2>1, <2>2 DEF TypeOK, StateOK, MessagesOK
<1>3. ASSUME NEW d \in Docs, Save(d)
      PROVE  TypeOK'
  BY <1>3 DEF Save, TypeOK, IsMessage
<1>4. ASSUME NEW s \in Slots, ResumePublished(s)
      PROVE  TypeOK'
  <2>1. DependentsOf(origin[s]) \in SUBSET Docs
    BY DependentsAreOpen DEF StateOK
  <2> QED
    BY <1>4, <2>1, FanOutType DEF ResumePublished
<1>5. ASSUME NEW s \in Slots, ResumeFanout(s)
      PROVE  TypeOK'
  <2>1. todo[s] \in SUBSET Docs
    BY DEF StateOK
  <2> QED
    BY <1>5, <2>1, FanOutType DEF ResumeFanout
<1>6. CASE UNCHANGED vars
  BY <1>6 DEF vars, TypeOK, IsMessage
<1> QED
  BY <1>1, <1>2, <1>3, <1>4, <1>5, <1>6 DEF Next

LEMMA TypeInit == Init => TypeOK
<1> SUFFICES ASSUME Init PROVE TypeOK
  OBVIOUS
<1>1. (CHOOSE d \in Docs : TRUE) \in Docs
  BY LspAssumption
<1>2. StateOK
  BY <1>1, LspAssumption DEF Init, StateOK, NoVersion
<1>3. MessagesOK
  BY ClearedIsMessage DEF Init, MessagesOK
<1> QED
  BY <1>2, <1>3, TypeParts

\* Every reachable state of the language server is well formed; in particular
\* the salsa database and the buffer of an open .mox document never diverge.
THEOREM TypeCorrect == Spec => []TypeOK
BY TypeInit, TypeStep, PTL DEF Spec

-----------------------------------------------------------------------------
(* A closed document shows nothing. *)

LEMMA ClearStep == TypeOK /\ ClosedIsClear /\ [Next]_vars => ClosedIsClear'
<1> SUFFICES ASSUME TypeOK, ClosedIsClear, [Next]_vars,
                    NEW x \in Docs \ open'
             PROVE  shown'[x].diagnostics = Cleared
  BY DEF ClosedIsClear
<1> USE DEF ClosedIsClear
<1>0. DOMAIN shown = Docs /\ open \subseteq Docs
  BY DEF TypeOK
<1>1. ASSUME NEW s \in Slots, NEW d \in Docs, NEW t \in TextsOf[d],
             DidOpen(s, d, t) \/ DidChange(s, d, t)
      PROVE  shown'[x].diagnostics = Cleared
  <2>1. x # d /\ x \notin open
    BY <1>1 DEF DidOpen, DidChange
  <2>2. shown'[x] = shown[x]
    BY <1>0, <1>1, <2>1 DEF DidOpen, DidChange, PublishDocument
  <2> QED
    BY <2>1, <2>2
<1>2. ASSUME NEW d \in Docs, DidClose(d)
      PROVE  shown'[x].diagnostics = Cleared
  BY <1>0, <1>2 DEF DidClose, Message
<1>3. ASSUME NEW d \in Docs, Save(d)
      PROVE  shown'[x].diagnostics = Cleared
  BY <1>3 DEF Save
<1>4. ASSUME NEW s \in Slots, NEW pending, FanOut(s, pending), UNCHANGED open
      PROVE  shown'[x].diagnostics = Cleared
  <2>1. shown'[x] = shown[x]
    BY <1>0, <1>4 DEF FanOut
  <2> QED
    BY <1>4, <2>1
<1>5. ASSUME NEW s \in Slots, ResumePublished(s) \/ ResumeFanout(s)
      PROVE  shown'[x].diagnostics = Cleared
  BY <1>4, <1>5 DEF ResumePublished, ResumeFanout
<1>6. CASE UNCHANGED vars
  BY <1>6 DEF vars
<1> QED
  BY <1>1, <1>2, <1>3, <1>5, <1>6 DEF Next

\* No interleaving of suspended handlers brings diagnostics back to a document
\* the client has closed.
THEOREM NoDiagnosticsAfterClose == Spec => []ClosedIsClear
<1>1. Init => ClosedIsClear
  BY DEF Init, ClosedIsClear, Message
<1> QED
  BY <1>1, TypeCorrect, ClearStep, PTL DEF Spec

-----------------------------------------------------------------------------
(* What a document shows belongs to the text it has. *)

\* A list computed from the present documents shows d's present text.
LEMMA CompiledHasOwnText ==
    StateOK => \A d \in open : d \in Inputs(d) => Diagnostics(d)[d] = text[d]
<1> SUFFICES ASSUME StateOK, NEW d \in open, d \in Inputs(d)
             PROVE  Diagnostics(d)[d] = text[d]
  OBVIOUS
<1>1. d \in Docs
  BY DEF StateOK
<1>2. CASE SurfaceOf[d] = "mox"
  BY <1>2 DEF Diagnostics, StateOK
<1>3. CASE SurfaceOf[d] # "mox"
  BY <1>3 DEF Diagnostics, Content
<1> QED
  BY <1>2, <1>3

LEMMA CompiledHasOwnTextNext ==
    (StateOK => \A d \in open : d \in Inputs(d) => Diagnostics(d)[d] = text[d])'
BY CompiledHasOwnText, PTL

LEMMA OwnInputNext ==
    (\A d \in Docs : d \in Inputs(d) <=> SurfaceOf[d] \notin {"dmn", "other"})'
<1>1. \A d \in Docs : d \in Inputs(d) <=> SurfaceOf[d] \notin {"dmn", "other"}
  BY OwnInput
<1> QED
  BY <1>1, PTL

\* Whether d is an input of its own list does not change.
LEMMA OwnInputStable ==
    ASSUME NEW d \in Docs
    PROVE  d \in Inputs(d)' <=> d \in Inputs(d)
BY OwnInput, OwnInputNext

LEMMA OwnTextStep == TypeOK /\ TypeOK' /\ OwnTextCurrent /\ [Next]_vars => OwnTextCurrent'
<1> SUFFICES ASSUME TypeOK, TypeOK', OwnTextCurrent, [Next]_vars, NEW x \in open'
             PROVE  /\ x \in Inputs(x)' => shown'[x].diagnostics[x] = text'[x]
                    /\ shown'[x].version \in {NoVersion, version'[x]}
  BY DEF OwnTextCurrent
<1> USE TypeParts
<1>0. x \in Docs /\ DOMAIN shown = Docs
  BY DEF TypeOK
<1>1. ASSUME x \in open, shown'[x] = shown[x], text'[x] = text[x],
             version'[x] = version[x]
      PROVE  /\ x \in Inputs(x)' => shown'[x].diagnostics[x] = text'[x]
             /\ shown'[x].version \in {NoVersion, version'[x]}
  BY <1>0, <1>1, OwnInputStable DEF OwnTextCurrent
<1>2. ASSUME NEW s \in Slots, NEW d \in Docs, NEW t \in TextsOf[d],
             DidOpen(s, d, t) \/ DidChange(s, d, t)
      PROVE  /\ x \in Inputs(x)' => shown'[x].diagnostics[x] = text'[x]
             /\ shown'[x].version \in {NoVersion, version'[x]}
  <2>1. CASE x = d
    <3>1. shown'[x] = Message(Diagnostics(x)', version'[x])
      BY <1>0, <1>2, <2>1 DEF DidOpen, DidChange, PublishDocument, TypeOK
    <3>2. StateOK'
      BY DEF TypeOK, StateOK
    <3>3. x \in Inputs(x)' => Diagnostics(x)'[x] = text'[x]
      BY <3>2, CompiledHasOwnTextNext
    <3>4. /\ shown'[x].diagnostics = Diagnostics(x)'
          /\ shown'[x].version = version'[x]
      BY <3>1 DEF Message
    <3> QED
      BY <3>3, <3>4
  <2>2. CASE x # d
    <3>1. x \in open /\ shown'[x] = shown[x] /\ text'[x] = text[x]
          /\ version'[x] = version[x]
      BY <1>0, <1>2, <2>2 DEF DidOpen, DidChange, PublishDocument, TypeOK
    <3> QED
      BY <3>1, <1>1
  <2> QED
    BY <2>1, <2>2
<1>3. ASSUME NEW d \in Docs, DidClose(d)
      PROVE  x \in open /\ shown'[x] = shown[x] /\ text'[x] = text[x]
             /\ version'[x] = version[x]
  BY <1>0, <1>3 DEF DidClose, TypeOK
<1>4. ASSUME NEW d \in Docs, Save(d)
      PROVE  x \in open /\ shown'[x] = shown[x] /\ text'[x] = text[x]
             /\ version'[x] = version[x]
  BY <1>4 DEF Save
<1>5. ASSUME NEW s \in Slots, NEW pending, FanOut(s, pending),
             UNCHANGED <<open, text, version>>
      PROVE  /\ x \in Inputs(x)' => shown'[x].diagnostics[x] = text'[x]
             /\ shown'[x].version \in {NoVersion, version'[x]}
  <2>1. \/ shown'[x] = shown[x]
        \/ shown'[x] = Message(Diagnostics(x), NoVersion)
    BY <1>0, <1>5 DEF FanOut
  <2>2. CASE shown'[x] = Message(Diagnostics(x), NoVersion)
    <3>1. x \in Inputs(x) => Diagnostics(x)[x] = text[x]
      BY <1>5, CompiledHasOwnText
    <3> QED
      BY <1>0, <1>5, <2>2, <3>1, OwnInputStable DEF Message
  <2> QED
    BY <1>1, <1>5, <2>1, <2>2
<1>6. ASSUME NEW s \in Slots, ResumePublished(s) \/ ResumeFanout(s)
      PROVE  /\ x \in Inputs(x)' => shown'[x].diagnostics[x] = text'[x]
             /\ shown'[x].version \in {NoVersion, version'[x]}
  BY <1>5, <1>6 DEF ResumePublished, ResumeFanout
<1>7. CASE UNCHANGED vars
  BY <1>1, <1>7 DEF vars
<1> QED
  BY <1>1, <1>2, <1>3, <1>4, <1>6, <1>7 DEF Next

\* A handler that resumes late never puts back the diagnostics of an older text
\* of its document, nor a version the client has left behind.
THEOREM NoOldText == Spec => []OwnTextCurrent
<1>1. Init => OwnTextCurrent
  BY DEF Init, OwnTextCurrent
<1> QED
  BY <1>1, TypeCorrect, OwnTextStep, PTL DEF Spec

-----------------------------------------------------------------------------
(* Diagnostics are fresh when the server is idle. *)

LEMMA FollowsAreDocsNext == (\A d \in Docs : Follows(d) \subseteq Docs)'
<1>1. \A d \in Docs : Follows(d) \subseteq Docs
  BY ImportsAreDocs
<1> QED
  BY <1>1, PTL

\* What the closure depends on: a step that leaves the
\* content of every document but c alone, and after which c is not in the
\* closure of d, leaves that closure alone.
LEMMA ClosureLocal ==
    ASSUME NEW d \in Docs, NEW c,
           \A y \in Docs \ {c} : Follows(y)' = Follows(y),
           c \notin ImportClosure(d)'
    PROVE  ImportClosure(d)' = ImportClosure(d)
<1> DEFINE old == ImportClosure(d)
           new == ImportClosure(d)'
<1>1. /\ old \in SUBSET Docs /\ d \in old
      /\ new \in SUBSET Docs /\ d \in new
  BY DEF ImportClosure
<1>2. ASSUME NEW S \in SUBSET Docs, d \in S, \A y \in S : Follows(y) \subseteq S
      PROVE  old \subseteq S
  BY <1>2 DEF ImportClosure, ClosedUnderImports
<1>3. ASSUME NEW S \in SUBSET Docs, d \in S, \A y \in S : Follows(y)' \subseteq S
      PROVE  new \subseteq S
  BY <1>3 DEF ImportClosure, ClosedUnderImports
<1>4. \A y \in new : Follows(y)' \subseteq new
  <2> SUFFICES ASSUME NEW y \in new, NEW z \in Follows(y)'
               PROVE  z \in new
    OBVIOUS
  <2>1. z \in Docs
    BY <1>1, FollowsAreDocsNext
  <2>2. ASSUME NEW S \in SUBSET Docs, d \in S, \A u \in S : Follows(u)' \subseteq S
        PROVE  z \in S
    BY <1>3, <2>2
  <2> QED
    BY <2>1, <2>2 DEF ImportClosure, ClosedUnderImports
<1>5. \A y \in old : Follows(y) \subseteq old
  <2> SUFFICES ASSUME NEW y \in old, NEW z \in Follows(y)
               PROVE  z \in old
    OBVIOUS
  <2>1. z \in Docs
    BY <1>1, ImportsAreDocs
  <2>2. ASSUME NEW S \in SUBSET Docs, d \in S, \A u \in S : Follows(u) \subseteq S
        PROVE  z \in S
    BY <1>2, <2>2
  <2> QED
    BY <2>1, <2>2 DEF ImportClosure, ClosedUnderImports
<1> HIDE DEF old, new
<1>6. c \notin new
  BY DEF new
<1>7. old \subseteq new
  BY <1>1, <1>2, <1>4, <1>6
<1>8. new \subseteq old
  BY <1>1, <1>3, <1>5, <1>6, <1>7
<1> QED
  BY <1>7, <1>8 DEF old, new

\* A step that leaves every content alone leaves every closure alone.
LEMMA ClosureStable ==
    ASSUME \A y \in Docs : Content(y)' = Content(y), NEW d \in Docs
    PROVE  ImportClosure(d)' = ImportClosure(d)
<1>1. \A y \in Docs : Follows(y)' = Follows(y)
  BY DEF Follows, Imports
<1> QED
  BY <1>1 DEF ImportClosure, ClosedUnderImports

\* The list of an .ifml document depends on the contents of its closure only.
LEMMA DiagnosticsLocal ==
    ASSUME NEW d \in Docs, SurfaceOf[d] = "ifml",
           ImportClosure(d)' = ImportClosure(d),
           \A y \in ImportClosure(d) : Content(y)' = Content(y)
    PROVE  Diagnostics(d)' = Diagnostics(d)
<1>1. Inputs(d) = ImportClosure(d) /\ Inputs(d)' = ImportClosure(d)'
  BY DEF Inputs
<1>2. Diagnostics(d) = [x \in ImportClosure(d) |-> Content(x)]
  BY <1>1 DEF Diagnostics
<1>3. Diagnostics(d)' = [x \in ImportClosure(d)' |-> Content(x)']
  BY <1>1 DEF Diagnostics
<1> QED
  BY <1>2, <1>3

\* An .ifml document that is up to date, or that a handler in flight will
\* publish.
Covered(d) == UpToDate(d) \/ \E s \in Slots : Owes(s, d)

\* A document other than the one a notification changes stays covered: it is
\* untouched, or the new handler owes it.
LEMMA EditCovers ==
    ASSUME TypeOK, NEW s \in Slots, NEW c \in Docs, NEW t \in TextsOf[c],
           DidOpen(s, c, t) \/ DidChange(s, c, t),
           NEW d \in open, d # c, SurfaceOf[d] = "ifml", Covered(d)
    PROVE  Covered(d)'
<1>0. d \in Docs /\ d \in open' /\ phase[s] = "idle" /\ shown'[d] = shown[d]
  BY DEF TypeOK, DidOpen, DidChange, Suspend, PublishDocument
<1>1. \A y \in Docs \ {c} : Content(y)' = Content(y)
  BY DEF TypeOK, DidOpen, DidChange, Content
<1>2. \A y \in Docs \ {c} : Follows(y)' = Follows(y)
  BY <1>1 DEF Follows, Imports
<1>3. CASE c \in ImportClosure(d)'
  <2>1. phase'[s] = "published" /\ origin'[s] = c
    BY DEF TypeOK, DidOpen, DidChange, Suspend
  <2>2. d \in DependentsOf(c)'
    BY <1>0, <1>3 DEF DependentsOf
  <2>3. Owes(s, d)'
    BY <2>1, <2>2 DEF Owes, DependentsOf
  <2> QED
    BY <2>3 DEF Covered
<1>4. CASE c \notin ImportClosure(d)'
  <2>1. ImportClosure(d)' = ImportClosure(d)
    BY <1>0, <1>2, <1>4, ClosureLocal
  <2>2. Diagnostics(d)' = Diagnostics(d)
    <3>1. \A y \in ImportClosure(d) : Content(y)' = Content(y)
      BY <1>1, <1>4, <2>1 DEF ImportClosure
    <3> QED
      BY <1>0, <2>1, <3>1, DiagnosticsLocal
  <2>3. CASE UpToDate(d)
    BY <1>0, <2>2, <2>3 DEF UpToDate, Covered
  <2>4. ASSUME NEW r \in Slots, Owes(r, d)
        PROVE  Covered(d)'
    <3>1. r # s
      BY <1>0, <2>4 DEF Owes
    <3>2. phase'[r] = phase[r] /\ origin'[r] = origin[r] /\ todo'[r] = todo[r]
      BY <3>1 DEF TypeOK, DidOpen, DidChange, Suspend
    <3>3. d \in DependentsOf(origin[r]) => d \in DependentsOf(origin[r])'
      BY <1>0, <2>1, <3>2 DEF DependentsOf
    <3> QED
      BY <2>4, <3>2, <3>3 DEF Owes, Covered, DependentsOf
  <2> QED
    BY <2>3, <2>4 DEF Covered
<1> QED
  BY <1>3, <1>4

\* A step that changes no content, no handler and not d's list keeps d covered.
LEMMA QuietStepCovers ==
    ASSUME NEW d \in open', d \in open, d \in Docs, SurfaceOf[d] = "ifml",
           \A y \in Docs : Content(y)' = Content(y),
           shown'[d] = shown[d], UNCHANGED taskVars, Covered(d)
    PROVE  Covered(d)'
<1>1. ImportClosure(d)' = ImportClosure(d)
  BY ClosureStable
<1>2. Diagnostics(d)' = Diagnostics(d)
  BY <1>1, DiagnosticsLocal DEF ImportClosure
<1>3. \A s \in Slots : Owes(s, d) => Owes(s, d)'
  BY <1>1 DEF Owes, DependentsOf, taskVars
<1> QED
  BY <1>2, <1>3 DEF Covered, UpToDate

\* A turn of a fan-out keeps every document covered: what it takes off the list
\* it has published, or is not open.
LEMMA FanOutCovers ==
    ASSUME TypeOK, NEW s \in Slots, NEW pending, FanOut(s, pending),
           UNCHANGED <<open, text, version, salsa, disk, origin, edits>>,
           NEW d \in open, SurfaceOf[d] = "ifml", Covered(d),
           Owes(s, d) => d \in pending
    PROVE  Covered(d)'
<1>0. d \in Docs /\ DOMAIN shown = Docs
  BY DEF TypeOK
<1>1. \A y \in Docs : Content(y)' = Content(y)
  BY DEF Content
<1>2. ImportClosure(d)' = ImportClosure(d)
  BY <1>0, <1>1, ClosureStable
<1>3. Diagnostics(d)' = Diagnostics(d)
  BY <1>0, <1>1, <1>2, DiagnosticsLocal DEF ImportClosure
<1>4. PICK skipped \in SUBSET (pending \ open) :
        \/ \E e \in pending \cap open :
              /\ shown' = [shown EXCEPT ![e] = Message(Diagnostics(e), NoVersion)]
              /\ phase' = [phase EXCEPT ![s] = "fanout"]
              /\ todo' = [todo EXCEPT ![s] = pending \ (skipped \cup {e})]
        \/ /\ pending = skipped
           /\ phase' = [phase EXCEPT ![s] = "idle"]
           /\ todo' = [todo EXCEPT ![s] = {}]
           /\ UNCHANGED shown
  BY DEF FanOut
<1>5. CASE UpToDate(d)
  <2>1. \/ shown'[d] = shown[d]
        \/ shown'[d] = Message(Diagnostics(d), NoVersion)
    BY <1>0, <1>4
  <2> QED
    BY <1>3, <1>5, <2>1 DEF UpToDate, Covered, Message
<1>6. CASE Owes(s, d)
  <2>1. d \in pending \cap open
    BY <1>6
  <2>2. PICK e \in pending \cap open :
          /\ shown' = [shown EXCEPT ![e] = Message(Diagnostics(e), NoVersion)]
          /\ phase' = [phase EXCEPT ![s] = "fanout"]
          /\ todo' = [todo EXCEPT ![s] = pending \ (skipped \cup {e})]
    BY <1>4, <2>1
  <2>3. CASE e = d
    BY <1>0, <1>3, <2>2, <2>3 DEF UpToDate, Covered, Message
  <2>4. CASE e # d
    <3>1. phase'[s] = "fanout" /\ d \in todo'[s]
      BY <2>1, <2>2, <2>4 DEF TypeOK
    <3> QED
      BY <3>1 DEF Owes, Covered
  <2> QED
    BY <2>3, <2>4
<1>7. ASSUME NEW r \in Slots, r # s, Owes(r, d)
      PROVE  Covered(d)'
  <2>1. phase'[r] = phase[r] /\ origin'[r] = origin[r] /\ todo'[r] = todo[r]
    BY <1>4, <1>7 DEF TypeOK
  <2>2. Owes(r, d)'
    BY <1>2, <1>7, <2>1 DEF Owes, DependentsOf
  <2> QED
    BY <2>2 DEF Covered
<1> QED
  BY <1>5, <1>6, <1>7 DEF Covered

\* The client closes a document only when its buffer is what is on disk: the
\* server goes on reading the same content.
LEMMA CloseAndSaveKeepContent ==
    ASSUME TypeOK, ~DiscardAllowed, NEW c \in Docs, DidClose(c) \/ Save(c)
    PROVE  \A y \in Docs : Content(y)' = Content(y)
<1>1. CASE DidClose(c)
  BY <1>1 DEF DidClose, Content, TypeOK
<1>2. CASE Save(c)
  BY <1>2 DEF Save, Content, TypeOK
<1> QED
  BY <1>1, <1>2

LEMMA StaleStep ==
    ASSUME ~DiscardAllowed
    PROVE  TypeOK /\ StaleIsOwed /\ [Next]_vars => StaleIsOwed'
<1> SUFFICES ASSUME TypeOK, StaleIsOwed, [Next]_vars,
                    NEW d \in open', SurfaceOf[d] = "ifml", d \in Docs
             PROVE  Covered(d)'
  <2>1. TypeOK /\ [Next]_vars => open' \subseteq Docs
    BY TypeStep DEF TypeOK
  <2> QED
    BY <2>1 DEF StaleIsOwed, Covered, OfSurface
<1>0. d \in open => Covered(d)
  BY DEF StaleIsOwed, Covered, OfSurface
<1>1. ASSUME NEW s \in Slots, NEW c \in Docs, NEW t \in TextsOf[c],
             DidOpen(s, c, t) \/ DidChange(s, c, t)
      PROVE  Covered(d)'
  <2>1. CASE d = c
    <3>1. shown'[d].diagnostics = Diagnostics(d)'
      BY <1>1, <2>1 DEF DidOpen, DidChange, PublishDocument, Message, TypeOK
    <3> QED
      BY <3>1 DEF UpToDate, Covered
  <2>2. CASE d # c
    <3>1. d \in open
      BY <1>1, <2>2 DEF DidOpen, DidChange
    <3> QED
      BY <1>0, <1>1, <2>2, <3>1, EditCovers
  <2> QED
    BY <2>1, <2>2
<1>2. ASSUME NEW c \in Docs, DidClose(c) \/ Save(c)
      PROVE  Covered(d)'
  <2>1. d \in open /\ shown'[d] = shown[d] /\ UNCHANGED taskVars
    BY <1>2 DEF DidClose, Save, taskVars, TypeOK
  <2>2. \A y \in Docs : Content(y)' = Content(y)
    BY <1>2, CloseAndSaveKeepContent
  <2> QED
    BY <1>0, <2>1, <2>2, QuietStepCovers
<1>3. ASSUME NEW s \in Slots, ResumePublished(s)
      PROVE  Covered(d)'
  <2>1. FanOut(s, DependentsOf(origin[s])) /\ phase[s] = "published"
        /\ UNCHANGED <<open, text, version, salsa, disk, origin, edits>>
    BY <1>3 DEF ResumePublished
  <2>2. Owes(s, d) => d \in DependentsOf(origin[s])
    BY <2>1 DEF Owes
  <2> QED
    BY <1>0, <2>1, <2>2, FanOutCovers
<1>4. ASSUME NEW s \in Slots, ResumeFanout(s)
      PROVE  Covered(d)'
  <2>1. FanOut(s, todo[s]) /\ phase[s] = "fanout"
        /\ UNCHANGED <<open, text, version, salsa, disk, origin, edits>>
    BY <1>4 DEF ResumeFanout
  <2>2. Owes(s, d) => d \in todo[s]
    BY <2>1 DEF Owes
  <2> QED
    BY <1>0, <2>1, <2>2, FanOutCovers
<1>5. CASE UNCHANGED vars
  <2>1. d \in open /\ shown'[d] = shown[d] /\ UNCHANGED taskVars
    BY <1>5 DEF vars, taskVars
  <2>2. \A y \in Docs : Content(y)' = Content(y)
    BY <1>5 DEF vars, Content
  <2> QED
    BY <1>0, <2>1, <2>2, QuietStepCovers
<1> QED
  BY <1>1, <1>2, <1>3, <1>4, <1>5 DEF Next

\* While no document is closed with unsaved changes, outdated diagnostics of an
\* open .ifml document are always owed by a handler in flight.
THEOREM StaleAlwaysOwed ==
    ASSUME ~DiscardAllowed
    PROVE  Spec => []StaleIsOwed
<1>1. Init => StaleIsOwed
  BY DEF Init, StaleIsOwed, OfSurface
<1> QED
  BY <1>1, TypeCorrect, StaleStep, PTL DEF Spec

\* Whatever the order in which edits, closes and suspended fan-outs interleaved,
\* once no handler is in flight every open .ifml document shows diagnostics
\* computed from the present content of its whole import closure.
THEOREM FreshWhenIdle ==
    ASSUME ~DiscardAllowed
    PROVE  Spec => []IdleFresh
<1>1. StaleIsOwed => IdleFresh
  BY DEF StaleIsOwed, IdleFresh, Idle, Owes
<1> QED
  BY <1>1, StaleAlwaysOwed, PTL
=============================================================================
