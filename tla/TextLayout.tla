------------------------------ MODULE TextLayout ------------------------------
(***************************************************************************)
(* The machinery of rex-syntax/src/fmt: how a formatter walks over a text's *)
(* tokens and comments and lays them out again.                             *)
(*                                                                         *)
(* A text is a sequence of tokens, line breaks and comments.  Indentation,  *)
(* spaces and blank lines are left out: what tells two texts apart here is  *)
(* the tokens and which line a comment is on.  Rules are terms, as in       *)
(* Grammar; Do follows one the way the scanner of its name does, and never  *)
(* fails: what it does not expect it leaves, or passes on as it is.         *)
(***************************************************************************)
EXTENDS Grammar

Comments == {"//", "/*"}     \* to the end of the line; of the block kind

-----------------------------------------------------------------------------
(* Texts.                                                                  *)

\* The tokens and comments of a text.  A comment stands on a line of its own
\* if nothing is before it on its line; a line comment takes what follows it
\* on its line.  Only .ifml looks at empty lines before a token.
Lex(text) ==
  LET Swallowed(i) == \E j \in 1..(i - 1) : text[j] = "//" /\ \A k \in j..(i - 1) : text[k] # "NL"
      nodes == [i \in DOMAIN text |-> [t |-> text[i], nl |-> i > 1 /\ text[i - 1] = "NL", own |-> i = 1 \/ text[i - 1] = "NL",
                                      blank |-> i > 1 /\ text[i - 1] = "NL" /\ (i = 2 \/ text[i - 2] = "NL"),
                                      in |-> text[i] # "NL" /\ ~Swallowed(i)]]
  IN  SelectSeq(nodes, LAMBDA m : m.in)

CodeOf(text) == LET nodes == SelectSeq(Lex(text), LAMBDA m : m.t \notin Comments) IN [i \in DOMAIN nodes |-> nodes[i].t]
RemarksOf(text) == LET nodes == SelectSeq(Lex(text), LAMBDA m : m.t \in Comments) IN [i \in DOMAIN nodes |-> nodes[i].t]

\* The text between the nodes a - 1 and b + 1, breaks included.
Slice(n, a, b) ==
  FlattenSeq([k \in 1..(b + 1 - a) |-> (IF n[a + k - 1].nl THEN <<"NL">> ELSE <<>>) \o <<n[a + k - 1].t>>])
  \o (IF b >= a - 1 /\ n[b + 1].nl THEN <<"NL">> ELSE <<>>)
Trimmed(text) ==
  LET words == {i \in DOMAIN text : text[i] # "NL"}
  IN  IF words = {} THEN <<>>
      ELSE SubSeq(text, IF text[1] = "NL" THEN 2 ELSE 1, CHOOSE i \in words : \A j \in words : j <= i)

-----------------------------------------------------------------------------
(* The formatter's state: its nodes and the place in them, the text so far, *)
(* the line under construction, comments due before the next token, the     *)
(* items of the body around, whether names are so long that what has a      *)
(* budget of columns exceeds it, and whether a loop goes round without end. *)

Formatter(nodes, wide) ==
  [n |-> nodes, p |-> 1, out |-> <<>>, line |-> <<>>, pend |-> <<>>, item |-> <<>>, wide |-> wide, stuck |-> FALSE]

IsToken(s, p) == p \in DOMAIN s.n /\ s.n[p].t \notin Comments
IsComment(s, p) == p \in DOMAIN s.n /\ s.n[p].t \in Comments

PushText(s, t) == [s EXCEPT !.line = Append(@, t)]
PushTexts(s, ts) == [s EXCEPT !.line = @ \o ts]
FlushLine(s) == IF s.line = <<>> THEN s ELSE [s EXCEPT !.out = (@ \o s.line) \o <<"NL">>, !.line = <<>>]
FlushPending(s) ==
  IF s.pend = <<>> THEN s
  ELSE LET f == FlushLine(s)
       IN  [f EXCEPT !.out = @ \o FlattenSeq([i \in DOMAIN s.pend |-> <<s.pend[i], "NL">>]), !.pend = <<>>]

Ended(s) == s.line = <<>> /\ s.out # <<>> /\ s.out[Len(s.out)] = "NL"
Advance(s) ==
  IF s.p > Len(s.n) THEN s
  ELSE LET m == s.n[s.p]
           t == [s EXCEPT !.p = @ + 1]
       IN  CASE m.t \notin Comments -> PushText(FlushPending(t), m.t)
             [] m.t \in Comments /\ m.own -> [t EXCEPT !.pend = Append(@, m.t)]
             [] m.t \in Comments /\ ~m.own /\ Ended(t) ->
                  [t EXCEPT !.out = Front(@) \o (IF m.t = "//" THEN <<m.t, "NL">> ELSE <<m.t>>)]
             [] OTHER -> IF m.t = "//" THEN FlushLine(PushText(t, m.t)) ELSE PushText(t, m.t)

BumpToken(s) == IF IsToken(s, s.p) THEN FlushPending([s EXCEPT !.p = @ + 1]) ELSE s

RECURSIVE DrainComments(_)
DrainComments(s) == IF IsComment(s, s.p) THEN DrainComments(Advance(s)) ELSE s

-----------------------------------------------------------------------------
(* Conditions on the token at p and those after it.                        *)

In(S) == <<"in", S>>
IdentOr(S) == <<"ident", S>>
Ident == IdentOr({})
RefName == <<"ref", {}>>                  \* an identifier or a keyword
Except(c) == <<"except", c>>
Before(c, d) == <<"before", c, d>>        \* c, and d right behind it
Apart(c, d) == <<"apart", c, d>>          \* the same, comments between them skipped
Second(S) == <<"second", S>>              \* whatever is at p, S behind it
Free(S) == <<"free", S>>                  \* an identifier outside S

RECURSIVE Fits(_, _)
Fits(c, t) ==
  CASE c[1] = "in" -> t \in c[2]
    [] c[1] = "ident" -> Identifier(t) \/ t \in c[2]
    [] c[1] = "ref" -> Identifier(t) \/ t \in Keywords
    [] c[1] = "free" -> Identifier(t) /\ t \notin c[2]
    [] c[1] = "except" -> ~Fits(c[2], t)

NodeFits(n, p, c) == p \in DOMAIN n /\ n[p].t \notin Comments /\ Fits(c, n[p].t)
TokenFits(s, p, c) == NodeFits(s.n, p, c)
NextToken(s, p) ==
  LET later == {i \in (p + 1)..Len(s.n) : IsToken(s, i)}
  IN  IF later = {} THEN 0 ELSE CHOOSE i \in later : \A j \in later : i <= j
Holds(c, s) ==
  CASE c[1] = "before" -> TokenFits(s, s.p, c[2]) /\ TokenFits(s, s.p + 1, c[3])
    [] c[1] = "apart" -> TokenFits(s, s.p, c[2]) /\ TokenFits(s, NextToken(s, s.p), c[3])
    [] c[1] = "second" -> TokenFits(s, s.p + 1, In(c[2]))
    [] OTHER -> TokenFits(s, s.p, c)

-----------------------------------------------------------------------------
(* Rules.                                                                  *)

Adv == <<"advance">>
Bump == <<"bump">>
Skip == <<"skip">>
Flush == <<"flush">>
Due == <<"due">>                          \* comments due, each on a line
Put(t) == <<"put", t>>
Here(c, a, b) == <<"here", c, a, b>>
If(c, a, b) == <<"if", c, a, b>>          \* comments before the token go first
While(c, a) == <<"while", c, a>>
Take(c) == If(c, Adv, Empty)
When(c, a) == If(c, Seq_(<<Adv, a>>), Empty)
Cases(alternatives, other) == FoldRight(LAMBDA a, rest : If(a[1], a[2], rest), alternatives, other)
\* Unexpected tokens go on one line, up to where an item may begin.
Junk(stop) == While(Except(stop), Adv)
JunkItem(stop) == If(Except(In({"}"})), Seq_(<<Adv, Junk(stop)>>), Empty)
JunkToName == JunkItem(IdentOr({"}"}))
Body(item) == <<"body", item>>
SameItem == <<"again">>                      \* the items of the body around it
\* Members between braces are put in the order of their ranks.
Sort(separated, starts, ranks) == <<"sort", separated, starts, ranks>>
SortHere(starts, ranks) == <<"sort here", starts, ranks>>
SortSegments(extents, ranks, clamped) == <<"sort segments", extents, ranks, clamped>>
\* The words found, each once and in this order; behind a `!` they are denied,
\* the last mention wins.
InWordOrder(words) == <<"words", words, FALSE>>
Flags(words) == <<"words", words, TRUE>>
Wrap == <<"wrap">>                        \* a clause too long for the line
Expression == <<"expression">>
NameList(stops) == <<"name list", stops>>
\* Mutant: the mark that is there is written along with the new one.
CanonDoubled(t) == Seq_(<<If(In({t}), Adv, Empty), Put(t)>>)

\* A mark that is written whether or not it was there.
Canon(t) == Seq_(<<If(In({t}), Bump, Empty), Put(t)>>)
TakeName == Take(Ident)
TakeStr == Take(In({"STR"}))
ScanQname == When(RefName, While(In({"."}), Seq_(<<Adv, Take(RefName)>>)))
ScanOpposite == When(In({"opposite"}), TakeName)
ScanDefault == When(In({"="}), If(In({"STR", "INT", "true", "false"}), Adv, If(Ident, ScanQname, Empty)))
ScanParams ==
  LET param == Seq_(<<ScanQname, TakeName>>)
  IN  When(In({"("}), If(In({")"}), Adv, Seq_(<<param, While(In({","}), Seq_(<<Adv, param>>)), Take(In({")"}))>>)))
ScanMultiplicity == If(In({"["}), <<"multiplicity">>, Empty)
\* What is between braces, when the open brace has been written.
Lines(item) == Seq_(<<Due, While(Except(In({"}"})), Seq_(<<item, Due>>)), Take(In({"}"})), Flush>>)
JunkLine == Seq_(<<Junk(In({"}"})), Flush>>)
ConstraintWords == {"pattern", "minLength", "maxLength", "minimum", "maximum", "unique"}
ScanConstraintBlock ==
  If(Before(In({"{"}), In({"}"})), Seq_(<<Bump, Bump, Put("{"), Put("}")>>),
     When(In({"{"}), Lines(If(In(ConstraintWords), Seq_(<<Adv, Take(In(Literals))>>), JunkLine))))
ScanRawParens == Here(In({"("}), Seq_(<<Bump, <<"verbatim", "(", ")">>>>), Empty)
ScanTrimmedParens == If(In({"("}), Seq_(<<Bump, <<"joined", "(", ")">>>>), Empty)
ScanTargetBlock == Seq_(<<Adv, Adv, <<"target">>>>)
ScanTargetBodyList ==
  When(In({"{"}), Seq_(<<Flush, Lines(If(Before(Ident, In({"{"})), ScanTargetBlock, JunkLine))>>))
ScanRawBody == When(In({"{"}), <<"raw body">>)
ScanOpBody == Here(Before(In({"{"}), Ident), <<"op body">>, ScanRawBody)

NormalizeMultiplicity(parts) ==
  CASE parts \in {<<>>, <<"*">>} -> <<"[", "]">>
    [] parts = <<"INT">> -> <<"[", "INT", "]">>
    [] Len(parts) = 4 /\ SubSeq(parts, 1, 3) = <<"INT", ".", ".">> ->
         <<"[", "INT", ".", ".", IF parts[4] = "INT" THEN "INT" ELSE "*", "]">>
    [] OTHER -> parts

\* Behind the close that matches the open before p, or behind the last node.
RECURSIVE CloseIndex(_, _, _, _, _)
CloseIndex(n, p, open, close, depth) ==
  IF depth = 0 \/ p > Len(n) THEN p
  ELSE CloseIndex(n, p + 1, open, close, IF n[p].t = open THEN depth + 1 ELSE IF n[p].t = close THEN depth - 1 ELSE depth)

-----------------------------------------------------------------------------
(* Sorting.                                                                *)

Junked == 99
RankOf(ranks, t) ==
  LET at == {i \in DOMAIN ranks : t \in ranks[i]} IN IF at = {} THEN 0 ELSE CHOOSE i \in at : \A j \in at : i <= j
\* The first index from i on that is no comment, or behind the last.
TokenFrom(n, i) ==
  LET tokens == {j \in i..Len(n) : n[j].t \notin Comments}
  IN  IF tokens = {} THEN Len(n) + 1 ELSE CHOOSE j \in tokens : \A k \in tokens : j <= k
\* How many braces are open before each node, and whether an item may be over.
RECURSIVE Contexts(_, _, _, _, _)
Contexts(n, i, b, depth, after) ==
  IF i > b THEN <<>>
  ELSE <<[at |-> i, depth |-> depth, after |-> after]>>
       \o Contexts(n, i + 1, b,
            IF n[i].t = "{" THEN depth + 1 ELSE IF n[i].t = "}" /\ depth > 0 THEN depth - 1 ELSE depth,
            IF n[i].t \in Comments THEN after ELSE n[i].t \in {";", "{", "}"})
\* The nodes a to b cut into items; which comments before an item lead it
\* ("all", "own", "none") differs.
ItemsOf(n, a, b, separated, leading, starts, ranks) ==
  LET Leads(i) == n[i].t \notin Comments \/ leading = "all" \/ (leading = "own" /\ n[i].own)
      Leader(i) == TokenFrom(n, i)     \* the token that may begin an item at i
      Begins(c) ==
        c.depth = 0 /\ Leads(c.at) /\ Leader(c.at) <= b /\ Fits(starts, n[Leader(c.at)].t) /\ (separated => c.after)
      begin == SelectSeq(Contexts(n, a, b, 0, TRUE), Begins)
      first == begin # <<>> /\ begin[1].at = a
      from == (IF first \/ a > b THEN <<>> ELSE <<a>>) \o [k \in DOMAIN begin |-> begin[k].at]
  IN  [k \in DOMAIN from |->
        [rank |-> IF k = 1 /\ ~first THEN Junked ELSE RankOf(ranks, n[Leader(from[k])].t),
         nodes |-> SubSeq(n, from[k], IF k = Len(from) THEN b ELSE from[k + 1] - 1)]]
\* Mutant: items of one rank change places.
InOrderUnstable(items) ==
  LET keyed == [i \in DOMAIN items |-> [key |-> 1000 * (items[i].rank + 1) - i, nodes |-> items[i].nodes]]
      sorted == SortSeq(keyed, LAMBDA x, y : x.key < y.key)
  IN  FlattenSeq([i \in DOMAIN sorted |-> sorted[i].nodes])

InOrder(items) ==
  LET keyed == [i \in DOMAIN items |-> [key |-> 1000 * items[i].rank + i, nodes |-> items[i].nodes]]
      sorted == SortSeq(keyed, LAMBDA x, y : x.key < y.key)
  IN  FlattenSeq([i \in DOMAIN sorted |-> sorted[i].nodes])
Reordered(n, a, b, items) == SubSeq(n, 1, a - 1) \o InOrder(items) \o SubSeq(n, b + 1, Len(n))

\* Members of the first braces from p on.
SortMembers(s, separated, starts, ranks) ==
  LET opens == {i \in s.p..Len(s.n) : s.n[i].t = "{"}
      open == CHOOSE i \in opens : \A j \in opens : i <= j
      last == CloseIndex(s.n, open + 1, "{", "}", 1) - 2
  IN  IF opens = {} THEN s
      ELSE [s EXCEPT !.n = Reordered(@, open + 1, last, ItemsOf(@, open + 1, last, separated, "all", starts, ranks))]
\* Behind the braces opened at i, if they are; 0 if they are never closed.
BraceEnd(n, i) ==
  LET c == CloseIndex(n, i + 1, "{", "}", 1)
      Count(mark) == Cardinality({j \in i..(c - 1) : n[j].t = mark})
  IN  IF Count("{") = Count("}") THEN c ELSE 0
BodyEnd(n, i) == IF NodeFits(n, i, In({"{"})) THEN BraceEnd(n, i) ELSE i
RECURSIVE DottedEnd(_, _, _)
DottedEnd(n, i, c) ==
  IF ~NodeFits(n, i, c) THEN i
  ELSE IF NodeFits(n, i + 1, In({"."})) THEN DottedEnd(n, i + 2, c) ELSE i + 1

\* How far the member that begins at i reaches, b being the last node inside.
ExtentEnd(n, i, b, extent) ==
  LET named == IF NodeFits(n, i + 1, Ident) THEN i + 2 ELSE i + 1
      typed == IF NodeFits(n, named, In({":"})) THEN DottedEnd(n, named + 1, RefName) ELSE named
      value == IF NodeFits(n, i + 1, In({"STR"})) THEN i + 2 ELSE DottedEnd(n, i + 1, Ident)
      semis == {j \in (i + 1)..b : n[j].t = ";"}
  IN  CASE extent = "participant" -> BodyEnd(n, typed)
        [] extent = "named" -> BodyEnd(n, named)
        [] extent = "block" -> BodyEnd(n, i + 1)
        [] extent = "statement" -> IF NodeFits(n, value, In({";"})) THEN value + 1 ELSE value
        [] extent = "to semicolon" -> IF semis = {} THEN b + 1 ELSE 1 + CHOOSE j \in semis : \A k \in semis : j <= k

\* Members with the comments before them; what begins none goes on to the
\* next word that begins one, in whatever braces.
RECURSIVE Segments(_, _, _, _, _, _)
Segments(n, i, b, extents, ranks, clamped) ==
  LET j == TokenFrom(n, i)
      begins == n[j].t \in DOMAIN extents
      next == {k \in (j + 1)..b : n[k].t \in DOMAIN extents}
      behind == IF next # {} THEN CHOOSE k \in next : \A m \in next : k <= m
                ELSE IF clamped \/ j <= b THEN b + 1 ELSE j + 1
      end == IF begins THEN ExtentEnd(n, j, b, extents[n[j].t]) ELSE behind
  IN  IF i > b THEN <<>>
      ELSE <<[rank |-> IF begins THEN RankOf(ranks, n[j].t) ELSE Junked, nodes |-> SubSeq(n, i, end - 1)]>>
           \o Segments(n, end, b, extents, ranks, clamped)

\* The members of the braces opened at p; if they are never closed the
\* formatter is left at the end of the text.
SortBody(s, items) ==
  LET end == BraceEnd(s.n, s.p)
  IN  CASE ~TokenFits(s, s.p, In({"{"})) -> s
        [] TokenFits(s, s.p, In({"{"})) /\ end = 0 -> [s EXCEPT !.p = Len(s.n) + 1]
        [] OTHER -> [s EXCEPT !.n = Reordered(@, s.p + 1, end - 2, items)]

\* Declarations of a file, behind the comments it begins with.
HoistItems(n, kinds) ==
  LET tokens == {i \in DOMAIN n : n[i].t \notin Comments}
      a == TokenFrom(n, 1)
      ranks == [i \in DOMAIN kinds |-> {kinds[i]}]
  IN  IF tokens = {} THEN n
      ELSE Reordered(n, a, Len(n), ItemsOf(n, a, Len(n), FALSE, "own", In(Range(kinds)), ranks))

-----------------------------------------------------------------------------
(* Following a rule.                                                       *)

RECURSIVE Parts(_, _)
Parts(s, read) ==
  LET d == DrainComments(s)
  IN  IF ~TokenFits(d, d.p, Except(In({"]"}))) THEN PushTexts(BumpToken(d), NormalizeMultiplicity(read))
      ELSE Parts(BumpToken(d), Append(read, d.n[d.p].t))

RECURSIVE WordsRest(_, _, _, _, _)
WordsRest(s, words, deniable, found, denied) ==
  LET d == DrainComments(s)
      no == deniable /\ Holds(Apart(In({"!"}), In(Range(words))), d)
      w == IF no THEN DrainComments(BumpToken(d)) ELSE d
      t == w.n[w.p].t
  IN  IF TokenFits(w, w.p, In(Range(words)))
      THEN WordsRest(BumpToken(w), words, deniable, found \cup {t}, IF no THEN denied \cup {t} ELSE denied \ {t})
      ELSE PushTexts(d, FlattenSeq([i \in DOMAIN words |->
             CASE words[i] \notin found -> <<>>
               [] words[i] \in denied -> <<"!", words[i]>>
               [] OTHER -> <<words[i]>>]))

\* Up to the `;`, or before the `}`, that is in no bracket.
RECURSIVE ExpressionRest(_, _)
ExpressionRest(s, depth) ==
  LET d == DrainComments(s)
      t == d.n[d.p].t
  IN  CASE ~IsToken(d, d.p) \/ (depth = 0 /\ t = "}") -> d
        [] IsToken(d, d.p) /\ depth = 0 /\ t = ";" -> Advance(d)
        [] OTHER -> ExpressionRest(Advance(d),
                      CASE t \in {"(", "[", "{"} -> depth + 1
                        [] t \in {")", "]", "}"} /\ depth > 0 -> depth - 1
                        [] OTHER -> depth)

RECURSIVE RawBodyRest(_, _)
RawBodyRest(s, depth) ==
  LET d == IF depth = 0 THEN s ELSE DrainComments(s)
  IN  IF depth = 0 \/ ~IsToken(d, d.p) THEN d
      ELSE RawBodyRest(Advance(d),
             CASE d.n[d.p].t = "{" -> depth + 1 [] d.n[d.p].t = "}" -> depth - 1 [] OTHER -> depth)

\* What is between the marks goes on as it was, on the line or between lines.
Verbatim(s, open, close, opening) ==
  LET c == CloseIndex(s.n, s.p, open, close, 1)
      content == IF c = s.p THEN <<>> ELSE Slice(s.n, s.p, c - 2)
      t == [s EXCEPT !.p = c]
  IN  IF Contains(content, "NL")
      THEN [FlushLine(PushTexts(t, opening)) EXCEPT !.out = ((@ \o Trimmed(content)) \o <<"NL">>) \o <<close, "NL">>]
      ELSE PushTexts(t, (opening \o content) \o <<close>>)

\* The same, always on the line, breaks and all.
Joined(s, open, close) ==
  LET c == CloseIndex(s.n, s.p, open, close, 1)
      content == IF c = s.p THEN <<>> ELSE Trimmed(Slice(s.n, s.p, c - 2))
  IN  PushTexts([s EXCEPT !.p = c], (<<open>> \o content) \o <<close>>)

\* `participant.anchor` behind the word at p.
IsEndpoint(s) ==
  LET a == NextToken(s, s.p)
      dot == NextToken(s, a)
  IN  TokenFits(s, a, Ident) /\ TokenFits(s, dot, In({"."})) /\ TokenFits(s, NextToken(s, dot), Ident)

\* Names between braces stay on the line if they are closed there, with nothing
\* else among them, and fit; they lose the mark of an escape.
Bare(t) == IF t = "^class" THEN "class" ELSE t
ListClose(n, p) ==
  LET closes == {c \in (p + 1)..Len(n) : n[c].t = "}"}
  IN  IF closes = {} THEN Len(n) + 1 ELSE CHOOSE c \in closes : \A d \in closes : c <= d
IsInline(s, stops) ==
  LET c == ListClose(s.n, s.p)
  IN  /\ TokenFits(s, s.p, In({"{"})) /\ c <= Len(s.n) /\ ~s.wide
      /\ \A j \in (s.p + 1)..(c - 1) : TokenFits(s, j, Free(stops))
      /\ \A j \in (s.p + 1)..c : ~s.n[j].nl
Inlined(s) ==
  LET c == ListClose(s.n, s.p)
      f == FlushPending(s)
  IN  PushTexts([f EXCEPT !.p = c + 1],
                (<<"{">> \o [i \in 1..(c - s.p - 1) |-> Bare(s.n[s.p + i].t)]) \o <<"}">>)
NameLines(stops) ==
  Here(In({"{"}),
       Seq_(<<Bump, Put("{"), Flush, Due,
              While(Except(In({"}"} \cup stops)), Seq_(<<If(Ident, Adv, JunkToName), Flush, Due>>)),
              Take(In({"}"})), Flush>>), Empty)

RECURSIVE Do(_, _), DoSeq(_, _, _), BodyRest(_, _)
Do(g, s) ==
  CASE g[1] = "seq" -> DoSeq(g[2], s, 1)
    [] g[1] = "if" -> LET d == DrainComments(s) IN IF Holds(g[2], d) THEN Do(g[3], d) ELSE Do(g[4], d)
    [] g[1] = "here" -> IF Holds(g[2], s) THEN Do(g[3], s) ELSE Do(g[4], s)
    [] g[1] = "while" -> LET d == DrainComments(s) IN IF Holds(g[2], d) THEN Do(g, Do(g[3], d)) ELSE d
    [] g[1] = "advance" -> Advance(s)
    [] g[1] = "bump" -> BumpToken(s)
    [] g[1] = "skip" -> [s EXCEPT !.p = @ + 1]
    [] g[1] = "flush" -> FlushLine(s)
    [] g[1] = "due" -> FlushPending(s)
    [] g[1] = "put" -> PushText(s, g[2])
    [] g[1] = "sort" -> SortMembers(s, g[2], g[3], g[4])
    [] g[1] = "multiplicity" -> Parts(BumpToken(s), <<>>)
    [] g[1] = "sort here" -> SortBody(s, ItemsOf(s.n, s.p + 1, BraceEnd(s.n, s.p) - 2, FALSE, "none", g[2], g[3]))
    [] g[1] = "sort segments" -> SortBody(s, Segments(s.n, s.p + 1, BraceEnd(s.n, s.p) - 2, g[2], g[3], g[4]))
    [] g[1] = "words" -> WordsRest(s, g[2], g[3], {}, {})
    [] g[1] = "expression" -> ExpressionRest(s, 0)
    [] g[1] = "wrap" -> IF s.wide /\ IsEndpoint(s) THEN FlushLine(s) ELSE s
    [] g[1] = "name list" -> IF IsInline(s, g[2]) THEN Inlined(s) ELSE Do(NameLines(g[2]), s)
    [] g[1] = "raw body" -> RawBodyRest(s, 1)
    [] g[1] = "verbatim" -> Verbatim(s, g[2], g[3], <<g[2]>>)
    [] g[1] = "joined" -> Joined(s, g[2], g[3])
    [] g[1] = "target" -> FlushLine(Verbatim(s, "{", "}", <<>>))
    [] g[1] = "op body" -> Do(IF TokenFits(s, s.p + 2, In({"{"})) THEN ScanTargetBodyList ELSE ScanRawBody, s)
    [] g[1] = "body" ->
         LET d == DrainComments(s)
             item == IF g[2][1] = "again" THEN s.item ELSE g[2]
         IN  IF ~TokenFits(d, d.p, In({"{"})) THEN FlushLine(d)
             ELSE IF Holds(Second({"}"}), d)
             THEN FlushLine(PushText([Advance(d) EXCEPT !.p = @ + 1], "}"))
             ELSE [BodyRest(item, FlushLine([Advance(d) EXCEPT !.item = item])) EXCEPT !.item = s.item]

DoSeq(gs, s, i) ==
  IF i > Len(gs) THEN s ELSE LET d == Do(gs[i], s) IN IF i = Len(gs) \/ d.p = 0 THEN d ELSE DoSeq(gs, d, i + 1)

\* One item after the other; an item that gets nowhere is tried for ever.
BodyRest(item, s) ==
  IF s.p > Len(s.n) \/ TokenFits(s, s.p, In({"}"})) \/ s.stuck
  THEN LET f == FlushPending(FlushLine(s)) IN FlushLine(IF TokenFits(f, f.p, In({"}"})) THEN Advance(f) ELSE f)
  ELSE LET f == FlushLine(Do(item, FlushPending(s)))
       IN  BodyRest(item, IF f.p = s.p THEN [f EXCEPT !.stuck = TRUE] ELSE f)

\* The declarations of a file by the word they begin with; other tokens go
\* on a line up to the next such word.
RECURSIVE TopRest(_, _)
TopRest(rules, s) ==
  IF s.p > Len(s.n) \/ s.stuck THEN s
  ELSE IF IsComment(s, s.p) THEN TopRest(rules, Advance(s))
  ELSE LET mine == {r \in Range(rules) : Fits(In(r[1]), s.n[s.p].t)}
           words == UNION {r[1] : r \in Range(rules)}
           rule == IF mine = {} THEN Junk(In(words)) ELSE Seq_(<<Adv, (CHOOSE r \in mine : TRUE)[2]>>)
       IN  TopRest(rules, FlushLine(Do(rule, FlushPending(FlushLine(s)))))

Finish_(s) == FlushPending(FlushLine(s))
=============================================================================
