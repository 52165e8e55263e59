------------------------------- MODULE Grammar -------------------------------
(***************************************************************************)
(* The parser combinators the grammars of rex-syntax are written with.      *)
(*                                                                         *)
(* A token is a string: a keyword, a mark of punctuation, "STR" or "INT"    *)
(* for a literal, and any other string an identifier, "^w" the escaped w.   *)
(* A grammar is a term; Run reads it as chumsky does: choices in order, an  *)
(* alternative that fails takes its complaints with it, repetition is       *)
(* greedy.  A result is the position after what was read (0 for failure),   *)
(* whether there was a complaint, and the trees read.                       *)
(***************************************************************************)
EXTENDS Naturals, Sequences, SequencesExt, FiniteSets

Keywords ==
  {"package", "annotation", "as", "class", "extends", "interface", "enum", "type", "wraps", "opaque",
   "contains", "refers", "container", "opposite", "op", "derived", "true", "false", "vocabulary", "from",
   "version", "key", "facet", "actors", "actor", "agent", "capability", "grant", "permit", "forbid",
   "when", "obligation", "on", "never_both", "delegation", "purpose", "cedar", "event", "channel",
   "publishes", "subscription", "import"}
Literals == {"STR", "INT"}
Marks == {"{", "}", "[", "]", "(", ")", ",", ".", ";", ":", "=", "*", "!", "->", "=>", "?"}

Identifier(t) == t \notin Keywords \cup Literals \cup Marks

Tree(k, kids) == [k |-> k, kids |-> kids]

-----------------------------------------------------------------------------
(* Terms.                                                                  *)

Seq_(gs) == <<"seq", gs>>
Alt(gs) == <<"alt", gs>>
Many(g) == <<"many", g>>
Empty == <<"seq", <<>>>>
Err == <<"err">>                        \* reads nothing and complains
Opt(g) == Alt(<<g, Empty>>)
Must(g) == Alt(<<g, Err>>)              \* committed: a missing part is reported
Bad(g) == Seq_(<<g, Err>>)              \* read, and reported
Some(g) == Seq_(<<g, Many(g)>>)
Kw(t) == <<"in", {t}, FALSE>>           \* one token, kept out of the tree
Leaf(S) == <<"in", S, TRUE>>
Str == Leaf({"STR"})
Int_ == Leaf({"INT"})
Not(S) == <<"not", S, FALSE>>           \* any token outside S
Outside(S) == <<"not", S, TRUE>>        \* the same, kept
NameBut(S) == <<"name", S>>             \* an identifier outside S
Name == NameBut({})
NotName(S) == <<"notname", S>>          \* any token outside S but an identifier
Segment == <<"segment">>                \* an identifier or a keyword
Node(k, g) == <<"node", k, <<>>, g>>
\* A node whose kinds of children are collected: all of them, the first, the
\* last, or one at most, a repetition being reported.
Fold(k, policy, g) == <<"node", k, policy, g>>
Distinct_(g) == <<"distinct", g>>       \* children of one kind twice are reported
Delegation(g) == <<"delegation", g>>
\* A node in which a child of kind k comes once, right behind the name.
Leading(kind, k, g) == <<"leading", kind, k, g>>
Needing(k, g) == <<"needing", k, g>>    \* reported without a child of kind k
Sized(k, n, g) == <<"sized", k, n, g>>  \* reported unless it has n children
Balanced(open, close) == <<"balanced", open, close>>
List(g) == Seq_(<<g, Many(Seq_(<<Kw(","), g>>))>>)
Braced(g) == Seq_(<<Kw("{"), g, Kw("}")>>)
\* In a body, what no member begins with is skipped up to the next token that
\* may begin one: an identifier, or one of the words given.
JunkMember(words) == Bad(Seq_(<<Not({"}"}), Many(NotName({"}"} \cup words))>>))
Members(g) == Many(Alt(<<g, JunkMember({})>>))
\* A contextual word and what it leads; without the word it is a stray.
Led(word, g) == Alt(<<Seq_(<<word, Must(g)>>), Bad(g), Empty>>)

-----------------------------------------------------------------------------
(* Folds.                                                                  *)

OfKind(kids, k) == SelectSeq(kids, LAMBDA c : c.k = k)

Collect(policy, kids) ==
  LET Kept(p) ==
        LET mine == OfKind(kids, p[1])
        IN  CASE p[2] = "all" \/ mine = <<>> -> mine
              [] p[2] \in {"first", "once"} /\ mine # <<>> -> <<Head(mine)>>
              [] p[2] = "last" /\ mine # <<>> -> <<mine[Len(mine)]>>
  IN  IF policy = <<>> THEN kids ELSE FlattenSeq([i \in DOMAIN policy |-> Kept(policy[i])])

Overfull(policy, kids) ==
  \E p \in Range(policy) : p[2] = "once" /\ Len(OfKind(kids, p[1])) > 1

\* from, then to, then entries with at most one purpose among them; whatever
\* comes out of this order is reported, and only entries are kept.
FoldDelegation(kids) ==
  LET Step(acc, c) ==
        CASE c.k = "from" -> IF acc.stage = 0 THEN [acc EXCEPT !.kids = Append(@, c), !.stage = 1]
                             ELSE [acc EXCEPT !.bad = TRUE]
          [] c.k = "to" -> IF acc.stage = 1 THEN [acc EXCEPT !.kids = Append(@, c), !.stage = 2]
                           ELSE [acc EXCEPT !.bad = TRUE]
          [] c.k = "purpose" -> IF acc.stage = 2 THEN [acc EXCEPT !.kids = Append(@, c), !.stage = 3]
                                ELSE [acc EXCEPT !.bad = TRUE]
          [] c.k = "cedar" -> [acc EXCEPT !.bad = TRUE]
          [] c.k = "effect" -> [acc EXCEPT !.kids = Append(@, c), !.bad = @ \/ acc.stage < 2]
          [] OTHER -> [acc EXCEPT !.kids = Append(@, c)]
      done == FoldLeft(Step, [kids |-> <<>>, stage |-> 0, bad |-> FALSE], kids)
  IN  [kids |-> done.kids, bad |-> done.bad \/ done.stage < 2]

-----------------------------------------------------------------------------
(* Reading.                                                                *)

Read(next, bad, kids) == [pos |-> next, bad |-> bad, kids |-> kids]
Failed == Read(0, FALSE, <<>>)
One(ts, i, fits, kept) ==
  IF i <= Len(ts) /\ fits THEN Read(i + 1, FALSE, IF kept THEN <<Tree(ts[i], <<>>)>> ELSE <<>>) ELSE Failed

\* The matching close after the open at i.
RECURSIVE Close(_, _, _, _, _)
Close(ts, i, open, close, depth) ==
  IF i > Len(ts) THEN 0
  ELSE LET d == IF ts[i] = open THEN depth + 1 ELSE IF ts[i] = close THEN depth - 1 ELSE depth
       IN  IF d = 0 THEN i ELSE Close(ts, i + 1, open, close, d)

RECURSIVE Run(_, _, _), RunSeq(_, _, _, _), RunAlt(_, _, _), RunMany(_, _, _)
Run(g, ts, i) ==
  CASE g[1] = "in" -> One(ts, i, i <= Len(ts) /\ ts[i] \in g[2], g[3])
    [] g[1] = "seq" -> RunSeq(g[2], ts, Read(i, FALSE, <<>>), 1)
    [] g[1] = "alt" -> RunAlt(g[2], ts, i)
    [] g[1] = "many" -> RunMany(g[2], ts, Read(i, FALSE, <<>>))
    [] g[1] = "err" -> Read(i, TRUE, <<>>)
    [] g[1] = "name" -> One(ts, i, i <= Len(ts) /\ Identifier(ts[i]) /\ ts[i] \notin g[2], TRUE)
    [] g[1] = "segment" -> One(ts, i, i <= Len(ts) /\ ts[i] \notin Literals \cup Marks, TRUE)
    [] g[1] = "notname" -> One(ts, i, i <= Len(ts) /\ ~Identifier(ts[i]) /\ ts[i] \notin g[2], FALSE)
    [] g[1] = "not" -> One(ts, i, i <= Len(ts) /\ ts[i] \notin g[2], g[3])
    [] g[1] = "node" ->
         LET r == Run(g[4], ts, i)
         IN  IF r.pos = 0 THEN r
             ELSE Read(r.pos, r.bad \/ Overfull(g[3], r.kids), <<Tree(g[2], Collect(g[3], r.kids))>>)
    [] g[1] = "distinct" ->
         LET r == Run(g[2], ts, i)
         IN  [r EXCEPT !.bad = @ \/ \E a, b \in DOMAIN r.kids : a # b /\ r.kids[a].k = r.kids[b].k]
    [] g[1] = "delegation" ->
         LET r == Run(g[2], ts, i)
             d == FoldDelegation(r.kids)
         IN  IF r.pos = 0 THEN r ELSE Read(r.pos, r.bad \/ d.bad, <<Tree("delegation", d.kids)>>)
    [] g[1] = "leading" ->
         LET r == Run(g[4], ts, i)
             kept == SelectSeq([n \in DOMAIN r.kids |-> [at |-> n, kid |-> r.kids[n]]],
                               LAMBDA c : c.at <= 2 \/ c.kid.k # g[3])
         IN  IF r.pos = 0 THEN r
             ELSE Read(r.pos, r.bad \/ Len(kept) < Len(r.kids),
                       <<Tree(g[2], [n \in DOMAIN kept |-> kept[n].kid])>>)
    [] g[1] = "needing" ->
         LET r == Run(g[3], ts, i)
         IN  IF r.pos = 0 THEN r ELSE [r EXCEPT !.bad = @ \/ OfKind(r.kids[1].kids, g[2]) = <<>>]
    [] g[1] = "sized" ->
         LET r == Run(g[4], ts, i)
         IN  IF r.pos = 0 THEN r
             ELSE Read(r.pos, r.bad \/ Len(r.kids) \notin g[3], <<Tree(g[2], r.kids)>>)
    [] g[1] = "balanced" ->
         LET c == IF i <= Len(ts) /\ ts[i] = g[2] THEN Close(ts, i, g[2], g[3], 0) ELSE 0
         IN  IF c = 0 THEN Failed
             ELSE Read(c + 1, FALSE, <<Tree("raw", [k \in 1..(c - i - 1) |-> Tree(ts[i + k], <<>>)])>>)

RunSeq(gs, ts, sofar, n) ==
  IF n > Len(gs) THEN sofar
  ELSE LET r == Run(gs[n], ts, sofar.pos)
       IN  IF r.pos = 0 THEN Failed
           ELSE RunSeq(gs, ts, Read(r.pos, sofar.bad \/ r.bad, sofar.kids \o r.kids), n + 1)

RunAlt(gs, ts, i) ==
  IF gs = <<>> THEN Failed
  ELSE LET r == Run(Head(gs), ts, i)
       IN  IF r.pos # 0 THEN r ELSE RunAlt(Tail(gs), ts, i)

RunMany(g, ts, sofar) ==
  LET r == Run(g, ts, sofar.pos)
  IN  IF r.pos = 0 THEN sofar ELSE RunMany(g, ts, Read(r.pos, sofar.bad \/ r.bad, sofar.kids \o r.kids))
=============================================================================
