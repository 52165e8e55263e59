------------------------------ MODULE LspServer ------------------------------
(***************************************************************************)
(* The language server of rex-lsp: open documents, the diagnostics the     *)
(* client was last sent for each of them, and the handlers that are        *)
(* suspended at their only await, client.publish_diagnostics.              *)
(*                                                                         *)
(* A handler runs from one await to the next without another handler       *)
(* interleaving: tower-lsp polls them in one task, at most                 *)
(* Cardinality(Slots) of them in flight.  publish_document compiles and    *)
(* enqueues its message in the same segment, so the client receives the    *)
(* messages in the order of the segments.                                  *)
(*                                                                         *)
(* A diagnostic list is represented by what it was computed from: the text *)
(* of every file the compilation read.  Two lists with the same inputs are *)
(* the same list; a list is stale when an input has moved on.              *)
(***************************************************************************)
EXTENDS Integers, FiniteSets

CONSTANTS
    Docs,            \* the files of the workspace, one URL each
    SurfaceOf,       \* Docs -> surface, decided by the URL's extension
    Texts,           \* the contents a file can have
    TextsOf,         \* Docs -> the contents that file is given by the client
    ImportsOf,       \* Texts -> the files a content imports
    DiskAtStart,     \* Docs -> what is on disk when the server starts
    SiblingsOf,      \* Docs -> the other files of the same directory
    Slots,           \* the handlers tower-lsp runs at once
    DiscardAllowed,  \* TRUE: the client may close a document without saving
    MaxEdits         \* bound on the didOpen and didChange notifications

Surfaces == {"mox", "ifml", "ddd", "actor", "dmn", "other"}

\* No file at that path.
CONSTANT Absent
\* An empty diagnostics list, sent by did_close.
CONSTANT Cleared

NoVersion == 0

ASSUME LspAssumption ==
    /\ Docs # {}
    /\ SurfaceOf \in [Docs -> Surfaces]
    /\ TextsOf \in [Docs -> SUBSET Texts]
    /\ ImportsOf \in [Texts -> SUBSET Docs]
    /\ Absent \notin Texts
    /\ DiskAtStart \in [Docs -> Texts \cup {Absent}]
    /\ SiblingsOf \in [Docs -> SUBSET Docs]
    /\ DiscardAllowed \in BOOLEAN
    /\ MaxEdits \in Nat

VARIABLES
    open,     \* the keys of `documents`
    text,     \* the buffer of each open document
    version,  \* the client's version of each open document
    salsa,    \* the text of each .mox document in the salsa database
    disk,     \* the content of each file on disk
    shown,    \* what the client was last sent for each URL
    phase,    \* per slot: "idle", "published" (own document done) or "fanout"
    origin,   \* per slot: the document whose notification is being handled
    todo,     \* per slot: the dependents still to publish
    edits     \* didOpen and didChange notifications so far

docVars == <<open, text, version, salsa>>
taskVars == <<phase, origin, todo>>
vars == <<open, text, version, salsa, disk, shown, phase, origin, todo, edits>>

-----------------------------------------------------------------------------
(* What a compilation reads. *)

\* The editor's buffer wins over the file on disk.
Content(d) == IF d \in open THEN text[d] ELSE disk[d]

\* The imports of the current content of d; a missing file has none.
Imports(d) == IF Content(d) \in Texts THEN ImportsOf[Content(d)] ELSE {}

OfSurface(S, surface) == {d \in S : SurfaceOf[d] = surface}

\* The files reached from d in one step of the gathering: every import of an
\* .ifml file, the domains of an .actor policy, nothing from any other file.
Follows(d) ==
    CASE SurfaceOf[d] = "ifml"  -> Imports(d)
      [] SurfaceOf[d] = "actor" -> OfSurface(Imports(d), "mox")
      [] OTHER -> {}

ClosedUnderImports(S) == \A x \in S : Follows(x) \subseteq S

\* The import closure of d, d included: the least set closed under Follows.
ImportClosure(d) ==
    {x \in Docs : \A S \in SUBSET Docs :
                      d \in S /\ ClosedUnderImports(S) => x \in S}

\* The domains that d and the given siblings import.
DomainsOf(S) == UNION {OfSurface(Imports(x), "mox") : x \in S}

\* The files one compilation of d reads.
Inputs(d) ==
    CASE SurfaceOf[d] = "mox"  -> {d}
      [] SurfaceOf[d] = "ifml" -> ImportClosure(d)
      [] SurfaceOf[d] = "ddd"  ->
            LET read == {d} \cup OfSurface(SiblingsOf[d], "actor")
                            \cup OfSurface(SiblingsOf[d], "dmn")
            IN  read \cup DomainsOf(read)
      [] SurfaceOf[d] = "actor" ->
            LET read == {d} \cup OfSurface(SiblingsOf[d], "ddd")
            IN  read \cup DomainsOf(read)
      [] OTHER -> {}

\* A .mox document is compiled from the salsa database, every other one from
\* the buffers and the disk.
Diagnostics(d) ==
    [x \in Inputs(d) |-> IF SurfaceOf[d] = "mox" THEN salsa[x] ELSE Content(x)]

\* Mutant: only the documents that import `changed` themselves.
DirectImporters(changed) ==
    {d \in open \ {changed} : SurfaceOf[d] = "ifml" /\ changed \in Imports(d)}

\* The open .ifml documents whose import closure contains `changed`.
DependentsOf(changed) ==
    {d \in open \ {changed} : SurfaceOf[d] = "ifml" /\ changed \in ImportClosure(d)}

Message(diagnostics, v) == [diagnostics |-> diagnostics, version |-> v]

-----------------------------------------------------------------------------
Init ==
    /\ open = {}
    /\ disk = DiskAtStart
    /\ text = [d \in Docs |-> Absent]
    /\ salsa = [d \in Docs |-> Absent]
    /\ version = [d \in Docs |-> NoVersion]
    /\ shown = [d \in Docs |-> Message(Cleared, NoVersion)]
    /\ phase = [s \in Slots |-> "idle"]
    /\ origin = [s \in Slots |-> CHOOSE d \in Docs : TRUE]
    /\ todo = [s \in Slots |-> {}]
    /\ edits = 0

\* publish_document in the segment that has just changed the documents: it
\* compiles what they now are and sends the list with the given version.
PublishDocument(d, v) ==
    shown' = [shown EXCEPT ![d] = Message(Diagnostics(d)', v)]

\* The slot now awaits the publication of d's own diagnostics.
Suspend(s, d) ==
    /\ phase[s] = "idle"
    /\ phase' = [phase EXCEPT ![s] = "published"]
    /\ origin' = [origin EXCEPT ![s] = d]
    /\ todo' = [todo EXCEPT ![s] = {}]

\* The client sends didOpen with any content (an editor restores unsaved ones).
DidOpen(s, d, t) ==
    /\ d \notin open
    /\ edits < MaxEdits
    /\ edits' = edits + 1
    /\ open' = open \cup {d}
    /\ text' = [text EXCEPT ![d] = t]
    /\ version' = [version EXCEPT ![d] = 1]
    /\ salsa' = IF SurfaceOf[d] = "mox" THEN [salsa EXCEPT ![d] = t] ELSE salsa
    /\ UNCHANGED disk
    /\ PublishDocument(d, 1)
    /\ Suspend(s, d)

\* Mutant: the diagnostics are computed before the buffer is replaced.
DidChangePublishFirst(s, d, t) ==
    /\ d \in open
    /\ edits < MaxEdits
    /\ edits' = edits + 1
    /\ shown' = [shown EXCEPT ![d] = Message(Diagnostics(d), version[d] + 1)]
    /\ text' = [text EXCEPT ![d] = t]
    /\ version' = [version EXCEPT ![d] = version[d] + 1]
    /\ salsa' = IF SurfaceOf[d] = "mox" THEN [salsa EXCEPT ![d] = t] ELSE salsa
    /\ UNCHANGED <<open, disk>>
    /\ Suspend(s, d)

DidChange(s, d, t) ==
    /\ d \in open
    /\ edits < MaxEdits
    /\ edits' = edits + 1
    /\ text' = [text EXCEPT ![d] = t]
    /\ version' = [version EXCEPT ![d] = version[d] + 1]
    /\ salsa' = IF SurfaceOf[d] = "mox" THEN [salsa EXCEPT ![d] = t] ELSE salsa
    /\ UNCHANGED <<open, disk>>
    /\ PublishDocument(d, version[d] + 1)
    /\ Suspend(s, d)

\* did_close forgets the document and clears its list; it ends at its await.
DidClose(d) ==
    /\ d \in open
    /\ DiscardAllowed \/ text[d] = disk[d]
    /\ open' = open \ {d}
    /\ text' = [text EXCEPT ![d] = Absent]
    /\ version' = [version EXCEPT ![d] = NoVersion]
    /\ shown' = [shown EXCEPT ![d] = Message(Cleared, NoVersion)]
    /\ UNCHANGED <<salsa, disk, phase, origin, todo, edits>>

\* The editor writes a buffer to disk.  The server is not told: it declares
\* no save notification.
Save(d) ==
    /\ d \in open
    /\ text[d] # disk[d]
    /\ disk' = [disk EXCEPT ![d] = text[d]]
    /\ UNCHANGED <<open, text, version, salsa, shown, phase, origin, todo, edits>>

\* Mutant: the loop trusts its list and publishes documents closed since.
FanOutUnchecked(s, pending) ==
    \/ \E d \in pending :
          /\ shown' = [shown EXCEPT ![d] = Message(Diagnostics(d), NoVersion)]
          /\ phase' = [phase EXCEPT ![s] = "fanout"]
          /\ todo' = [todo EXCEPT ![s] = pending \ {d}]
    \/ /\ pending = {}
       /\ phase' = [phase EXCEPT ![s] = "idle"]
       /\ todo' = [todo EXCEPT ![s] = {}]
       /\ UNCHANGED shown

\* One turn of the loop of `publish`: the documents of `skipped` are no longer
\* open, so publish_document returns for them without an await; the first one
\* that is open is compiled and sent without a version.
FanOut(s, pending) ==
    \E skipped \in SUBSET (pending \ open) :
        \/ \E d \in pending \cap open :
              /\ shown' = [shown EXCEPT ![d] = Message(Diagnostics(d), NoVersion)]
              /\ phase' = [phase EXCEPT ![s] = "fanout"]
              /\ todo' = [todo EXCEPT ![s] = pending \ (skipped \cup {d})]
        \/ /\ pending = skipped
           /\ phase' = [phase EXCEPT ![s] = "idle"]
           /\ todo' = [todo EXCEPT ![s] = {}]
           /\ UNCHANGED shown

\* The await on the document's own publication returns: only now are the
\* dependents looked up.
ResumePublished(s) ==
    /\ phase[s] = "published"
    /\ FanOut(s, DependentsOf(origin[s]))
    /\ UNCHANGED <<open, text, version, salsa, disk, origin, edits>>

\* The await on a dependent's publication returns.
ResumeFanout(s) ==
    /\ phase[s] = "fanout"
    /\ FanOut(s, todo[s])
    /\ UNCHANGED <<open, text, version, salsa, disk, origin, edits>>

Next ==
    \/ \E s \in Slots, d \in Docs : \E t \in TextsOf[d] :
          \/ DidOpen(s, d, t)
          \/ DidChange(s, d, t)
    \/ \E d \in Docs : DidClose(d) \/ Save(d)
    \/ \E s \in Slots : ResumePublished(s) \/ ResumeFanout(s)

Spec == Init /\ [][Next]_vars

\* The executor polls a handler whose message the client has taken.
Fairness == \A s \in Slots : WF_vars(ResumePublished(s) \/ ResumeFanout(s))

FairSpec == Spec /\ Fairness

-----------------------------------------------------------------------------
(* Properties. *)

IsMessage(m) ==
    /\ m.version \in Nat
    /\ \/ m.diagnostics = Cleared
       \/ \E S \in SUBSET Docs : m.diagnostics \in [S -> Texts \cup {Absent}]

\* Documents, messages and handler slots keep their shape, and an open .mox
\* document has the text in the salsa database that it has in its buffer.
TypeOK ==
    /\ open \subseteq Docs
    /\ text \in [Docs -> Texts \cup {Absent}]
    /\ \A d \in open : text[d] \in Texts
    /\ version \in [Docs -> Nat]
    /\ salsa \in [Docs -> Texts \cup {Absent}]
    /\ \A d \in open : SurfaceOf[d] = "mox" => salsa[d] = text[d]
    /\ disk \in [Docs -> Texts \cup {Absent}]
    /\ DOMAIN shown = Docs
    /\ \A d \in Docs : IsMessage(shown[d])
    /\ phase \in [Slots -> {"idle", "published", "fanout"}]
    /\ origin \in [Slots -> Docs]
    /\ todo \in [Slots -> SUBSET Docs]
    /\ edits \in Nat

\* A closed document shows nothing: no handler that was suspended while the
\* document was open sends its diagnostics after did_close cleared them.
ClosedIsClear == \A d \in Docs \ open : shown[d].diagnostics = Cleared

\* What an open document shows was computed from the text it has now, and a
\* message that carries a version carries the document's current one: a
\* handler that resumes late never puts back the diagnostics of an older text.
OwnTextCurrent ==
    \A d \in open :
        /\ d \in Inputs(d) => shown[d].diagnostics[d] = text[d]
        /\ shown[d].version \in {NoVersion, version[d]}

Idle == \A s \in Slots : phase[s] = "idle"

UpToDate(d) == shown[d].diagnostics = Diagnostics(d)

\* When no handler is in flight, every open .ifml document shows diagnostics
\* computed from the current content of its whole import closure, whatever
\* the order in which edits, closes and suspended fan-outs interleaved.
IdleFresh == Idle => \A d \in OfSurface(open, "ifml") : UpToDate(d)

\* An .ifml document that shows outdated diagnostics is eventually refreshed,
\* or closed, once the handlers in flight get to run.
EventuallyFresh ==
    \A d \in Docs :
        (d \in open /\ SurfaceOf[d] = "ifml" /\ ~UpToDate(d))
            ~> (d \notin open \/ UpToDate(d))

\* A handler in flight that will publish d.
Owes(s, d) ==
    \/ phase[s] = "published" /\ d \in DependentsOf(origin[s])
    \/ phase[s] = "fanout" /\ d \in todo[s]

\* Why IdleFresh holds: outdated diagnostics of an open .ifml document are
\* always owed by a handler in flight.
StaleIsOwed ==
    \A d \in OfSurface(open, "ifml") : UpToDate(d) \/ \E s \in Slots : Owes(s, d)
=============================================================================
