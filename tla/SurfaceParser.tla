--------------------------- MODULE SurfaceParser ---------------------------
(***************************************************************************)
(* Reading one file of rex-syntax: items are read where one begins, and     *)
(* where none does tokens are skipped up to a word that begins one; at the  *)
(* end the items become the file.                                          *)
(*                                                                         *)
(* An input is a file, of which some declarations are as they should be:    *)
(* one token of another one was removed, added or replaced.                *)
(***************************************************************************)
EXTENDS SurfaceGrammar

CONSTANTS
  Files,    \* the declarations of the well-formed file of every language
  Inputs    \* a set of sets of [language, tokens, at, intact, asked]: which declaration is
            \* spoilt, which are intact, and whether the text is formatted then

Languages == {"mox", "actor", "evt", "ddd", "deploy", "uc", "cmmn", "dmn"}
Items ==
  [mox |-> MoxItems, actor |-> ActorItems, evt |-> EvtItems, ddd |-> DddItems, deploy |-> DeployItems, uc |-> UcItems,
   cmmn |-> CmmnItems, dmn |-> DmnItems]
Fences ==
  [mox |-> MoxFences, actor |-> ActorFences, evt |-> EvtFences, ddd |-> DddFences, deploy |-> DeployFences,
   uc |-> UcFences, cmmn |-> CmmnFences, dmn |-> DmnFences]

VARIABLES input, pos, items, bad, pc
vars == <<input, pos, items, bad, pc>>

TypeOK ==
  /\ input.language \in Languages \cup {"ifml"}     \* .ifml is read by another parser
  /\ pos \in 1..(Len(input.tokens) + 1)
  /\ bad \in BOOLEAN
  /\ pc \in {"reading", "done"}

-----------------------------------------------------------------------------
(* The file an item sequence becomes.                                      *)

\* What a file has once: later packages are dropped without a word, a later
\* application or decision model is reported.
Sole == [l \in Languages |-> CASE l = "mox" -> "package" [] l = "ddd" -> "application"
                               [] l = "dmn" -> "decision_model" [] OTHER -> "none"]
\* Outside of models an import stands before every declaration.
LateImports(read) == {i \in DOMAIN read : read[i].k = "import" /\ \E j \in 1..(i - 1) : read[j].k # "import"}
Again(sole, read) == {i \in DOMAIN read : read[i].k = sole /\ \E j \in 1..(i - 1) : read[j].k = sole}
FoldFile(language, read) ==
  LET late == IF language = "mox" THEN {} ELSE LateImports(read)
      again == Again(Sole[language], read)
      kept == SelectSeq([i \in DOMAIN read |-> [at |-> i, tree |-> read[i]]], LAMBDA r : r.at \notin late \cup again)
      absent == language \in {"ddd", "dmn"} /\ \A i \in DOMAIN read : read[i].k # Sole[language]
  IN  [items |-> [i \in DOMAIN kept |-> kept[i].tree],
       bad |-> language # "mox" /\ (late \cup again # {} \/ absent)]

-----------------------------------------------------------------------------

Init ==
  /\ \E slice \in Inputs : input \in slice
  /\ pos = 1 /\ items = <<>> /\ bad = FALSE /\ pc = "reading"

AtEnd == pos > Len(input.tokens)

ParseItem(r) ==
  /\ r.pos # 0
  /\ pos' = r.pos /\ items' = items \o r.kids /\ bad' = (bad \/ r.bad)

\* At least one token is skipped, and then those up to the next fence.
NextFence(language, ts, i) ==
  LET fences == {j \in (i + 1)..Len(ts) : ts[j] \in Fences[language]}
  IN  IF fences = {} THEN Len(ts) + 1 ELSE CHOOSE j \in fences : \A o \in fences : j <= o
SkipJunk(r) ==
  /\ r.pos = 0
  /\ pos' = NextFence(input.language, input.tokens, pos) /\ bad' = TRUE
  /\ UNCHANGED items

ReadItem ==
  /\ pc = "reading" /\ ~AtEnd
  /\ LET r == RunAlt(Items[input.language], input.tokens, pos) IN ParseItem(r) \/ SkipJunk(r)
  /\ UNCHANGED <<input, pc>>

Finish ==
  /\ pc = "reading" /\ AtEnd
  /\ LET file == FoldFile(input.language, items)
     IN  items' = file.items /\ bad' = (bad \/ file.bad)
  /\ pc' = "done"
  /\ UNCHANGED <<input, pos>>

Finished == pc = "done" /\ UNCHANGED vars
Next == ReadItem \/ Finish \/ Finished
Spec == Init /\ [][Next]_vars

-----------------------------------------------------------------------------

\* The trees of the declarations read alone.
Alone == [l \in Languages |-> [k \in DOMAIN Files[l] |-> RunAlt(Items[l], Files[l][k], 1).kids[1]]]

\* One wrong token costs the declaration it is in, and the next one at most,
\* with a complaint; every other declaration of the file is read as it would
\* be alone.  The one exception is a second `decision_model`, which is taken
\* for the model even without a body.
NeighboursSurvive ==
  pc = "done" =>
    \A k \in input.intact :
      \/ k = input.at + 1 /\ bad
      \/ Contains(items, Alone[input.language][k])
      \/ input.language = "dmn" /\ bad /\ Len(SelectSeq(input.tokens, LAMBDA t : t = "decision_model")) > 1
=============================================================================
