---------------------------- MODULE SurfaceFormat ----------------------------
(***************************************************************************)
(* Formatting a file and reading it again: one reader for the source, one   *)
(* for what the formatter makes of it, and the formatter once more on that. *)
(***************************************************************************)
EXTENDS SurfaceParser, SurfaceLayout

CONSTANT FormatSource(_, _, _)   \* the formatter: language, text, whether names are wide

VARIABLES
  text,      \* the source, with its comments and line breaks
  wide,      \* whether its names are too long for a line
  laid,      \* what the formatter made of it, and made of that
  output, outPos, outItems, outBad, outPc
outVars == <<output, outPos, outItems, outBad, outPc>>
formatVars == <<vars, text, wide, laid, outVars>>

Output == INSTANCE SurfaceParser
            WITH input <- output, pos <- outPos, items <- outItems, bad <- outBad, pc <- outPc

-----------------------------------------------------------------------------
(* The formatters.                                                         *)

Tops ==
  [mox |-> MoxTop, actor |-> ActorTop, evt |-> EvtTop, ddd |-> DddTop, deploy |-> DeployTop, uc |-> UcTop,
   cmmn |-> CmmnTop, dmn |-> DmnTop]
Kinds ==
  [evt |-> <<"import", "event", "channel", "subscription">>,
   deploy |-> <<"import", "application", "profile", "deployment">>,
   uc |-> <<"import", "usecase">>, cmmn |-> <<"import", "case">>, dmn |-> <<"import", "decision_model">>]
Hoisted(language, n) ==
  CASE language = "mox" -> HoistImportSchemas(n)
    [] language = "ddd" -> HoistDddImports(n)
    [] language = "actor" -> n
    [] language \in DOMAIN Kinds -> HoistItems(n, Kinds[language])
Format(language, source, broad) ==
  LET s == Finish_(TopRest(Tops[language], Formatter(Hoisted(language, Lex(source)), broad)))
  IN  IF language = "ifml" THEN FormatIfml(source, broad) ELSE [text |-> s.out, stuck |-> s.stuck]

-----------------------------------------------------------------------------

FormatInit ==
  /\ \E slice \in Inputs : \E i \in slice : text = i.tokens /\ input = [i EXCEPT !.tokens = CodeOf(i.tokens)]
  /\ wide \in IF input.asked THEN BOOLEAN ELSE {FALSE}
  /\ pos = 1 /\ items = <<>> /\ bad = FALSE /\ pc = IF input.language \in Languages THEN "reading" ELSE "done"
  /\ laid = <<>> /\ output = input /\ outPos = 1 /\ outItems = <<>> /\ outBad = FALSE /\ outPc = "idle"

ReadSource == (ReadItem \/ Finish) /\ UNCHANGED <<text, wide, laid, outVars>>

Reformat ==
  /\ pc = "done" /\ outPc = "idle" /\ input.asked
  /\ \E once \in {FormatSource(input.language, text, wide)} :
       \E twice \in {IF once.stuck THEN once ELSE FormatSource(input.language, once.text, wide)} :
         laid' = <<once, twice>> /\ output' = [input EXCEPT !.tokens = CodeOf(once.text)]
  /\ outPc' = IF input.language \in Languages THEN "reading" ELSE "done"
  /\ UNCHANGED <<vars, text, wide, outPos, outItems, outBad>>

ReadOutput == (Output!ReadItem \/ Output!Finish) /\ UNCHANGED <<vars, text, wide, laid>>

FormatDone == pc = "done" /\ (input.asked => outPc = "done") /\ UNCHANGED formatVars
FormatNext == ReadSource \/ Reformat \/ ReadOutput \/ FormatDone
FormatSpec == FormatInit /\ [][FormatNext]_formatVars

-----------------------------------------------------------------------------

\* The items of one kind, in their order: hoisting moves kinds, no item
\* overtakes one of its kind.
KindsOf(read) == {read[i].k : i \in DOMAIN read}
SameItems(before, after) ==
  KindsOf(before) = KindsOf(after) /\ \A k \in KindsOf(before) : OfKind(before, k) = OfKind(after, k)
CountOf(seq, x) == Cardinality({i \in DOMAIN seq : seq[i] = x})

\* What is read without complaint is formatted to what is read without
\* complaint as the same declarations, and no comment is lost or doubled.
FormatKeepsMeaning ==
  outPc = "done" =>
    /\ ~bad => ~outBad /\ SameItems(items, outItems)
    /\ \A c \in Comments : CountOf(RemarksOf(text), c) = CountOf(RemarksOf(laid[1].text), c)

\* The formatter comes to an end, whatever the text.
FormatEnds == outPc # "idle" => ~laid[1].stuck

\* What was formatted is left as it is when it is formatted again.
FormatSettles == FormatEnds /\ (outPc # "idle" => laid[1].text = laid[2].text)
=============================================================================
