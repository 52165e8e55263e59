------------------------------ MODULE MCMoxModel ------------------------------
(***************************************************************************)
(* Small models, in slices: each varies what a few rules look at and leaves *)
(* the rest valid.                                                         *)
(***************************************************************************)
EXTENDS SigilImports, Integers

Ref(n) == [pkg |-> NoName, local |-> n]
From(p, n) == [pkg |-> p, local |-> n]
Seqs(S, n) == UNION {[1..k -> S] : k \in 0..n}

Feature(kind, n, type) ==
  [name |-> n, kind |-> kind, type |-> type, multiplicity |-> NoName, default |-> NoName, constraints |-> <<>>,
   opposite |-> NoName, parameters |-> <<>>, body |-> FALSE, targets |-> <<>>]
Class(n, bases, features) == [kind |-> "class", name |-> n, extends |-> bases, features |-> features]
Literal(n, length, value) == [name |-> n, length |-> length, value |-> value]
Enum(n, literals) == [kind |-> "enum", name |-> n, literals |-> literals]
Datatype(n) == [kind |-> "datatype", name |-> n, create |-> <<>>, convert |-> <<>>]
Interface(n) == [kind |-> "interface", name |-> n]
Vocabulary(n, keys, type) == [kind |-> "vocabulary", name |-> n, keys |-> keys, keyType |-> type]
Actors(n) == [kind |-> "actors", name |-> n]
Import(n, usable) == [kind |-> "import", name |-> n, usable |-> usable]

File(p, declarations) ==
  [ast |-> TRUE, syntax |-> FALSE, package |-> p, dotted |-> FALSE, folder |-> <<>>, declarations |-> declarations]
Provided(mode, files, rosetta) == [parsed |-> TRUE, mode |-> mode, files |-> files, rosetta |-> rosetta]
Models(mode, files) == Provided(mode, files, <<>>)
Modes == {"multi", "perFile"}
\* A file alone is compiled every way, two files both ways there are.
Ways(files) == {Models(mode, files) : mode \in IF Len(files) = 1 THEN Modes \cup {"single"} ELSE Modes}

-----------------------------------------------------------------------------
(* Attributes.                                                             *)

Values == <<Enum("E", <<Literal("ab", 2, 1), Literal("abcd", 4, 5)>>), Datatype("D"), Interface("I"),
            Vocabulary("V", {"ab"}, "string"), Vocabulary("N", {"x"}, "numeric"), Vocabulary("U", {}, NoName)>>
Types == {"Int", "String", "Boolean", "Date", "E", "D", "I", "V", "N", "U", "C", "Gone"}
Bounds(form, low, high) == [form |-> form, lower |-> low, upper |-> high]
Multiplicities == {NoName, Bounds("any", 0, 0), Bounds("exact", 2, 2), Bounds("exact", 9, 9),
                   Bounds("range", 1, 9), Bounds("range", 5, 2), Bounds("open", -1, 0)}
Form(f, n) == [form |-> f, name |-> n]
Defaults == {NoName, Form("text", "ab"), Form("number", NoName), Form("truth", NoName), Form("name", "ab"), Form("name", "x")}

WithAttribute(f) == <<File("p", Values \o <<Class("C", <<>>, <<f>>)>>)>>
DefaultSlice ==
  UNION {Ways(WithAttribute([Feature("attribute", "f", Ref(t)) EXCEPT !.multiplicity = m, !.default = d])) :
           t \in Types, m \in Multiplicities, d \in Defaults}

Limit(word, n) == [word |-> word, form |-> "number", n |-> n]
Limits == {Limit("minimum", 2), Limit("minimum", 6), Limit("maximum", 0), Limit("maximum", 4),
           Limit("minLength", -1), Limit("minLength", 3), Limit("maxLength", 3), Limit("maxLength", 1),
           [word |-> "pattern", form |-> "text", n |-> 0], [word |-> "unique", form |-> "flag", n |-> 0],
           [word |-> "unique", form |-> "text", n |-> 0], [word |-> "minimum", form |-> "flag", n |-> 0]}
ConstraintSlice ==
  {Models("single", WithAttribute([Feature("attribute", "f", Ref(t)) EXCEPT !.multiplicity = m, !.constraints = k])) :
     t \in Types \ {"Boolean", "V"}, m \in {NoName, Bounds("any", 0, 0)}, k \in Seqs(Limits, 2)}

\* Bodies by target, in every place that takes them.
BodySlice ==
  LET targets == {<<>>, <<"rust">>, <<"expr">>, <<"rust", "rust">>, <<"rust", "expr">>}
  IN  {Models("single", <<File("p", <<[Datatype("D") EXCEPT !.create = c, !.convert = d],
                                      Class("C", <<>>, <<[Feature(k, "f", Ref(t)) EXCEPT
                                         !.targets = b, !.body = w, !.parameters = q]>>)>>)>>) :
         c \in {<<>>, <<"rust">>, <<"rust", "rust">>}, d \in {<<>>, <<"rust", "expr">>}, k \in {"op", "derived"},
         t \in {"Int", "C", "Gone"}, b \in targets, w \in BOOLEAN, q \in {<<>>, <<Ref("D"), Ref("Gone")>>}}

-----------------------------------------------------------------------------
(* Relations.                                                              *)

Relations(n, types, opposites) ==
  {[Feature(k, n, t) EXCEPT !.opposite = o] :
     k \in {"contains", "container", "refers"}, t \in types, o \in opposites}

\* Two classes of one package, and a schema import; a class declared again.
OppositeSlice ==
  {Models(mode, <<File("p", <<Class("A", <<>>, <<f>> \o h), Class("B", <<>>, <<g>>), Import("S", TRUE)>>)>>) :
     mode \in {"single"},
     f \in Relations("f", {Ref("A"), Ref("B"), Ref("S")}, {NoName, "f", "g", "h"}),
     g \in Relations("g", {Ref("A"), Ref("B"), Ref("I")}, {NoName, "f", "g"}) \cup {Feature("attribute", "g", Ref("Int"))},
     h \in {<<>>, <<[Feature("container", "h", Ref("B")) EXCEPT !.opposite = "g"]>>}}
  \cup UNION {Ways(<<File("p", <<Class("A", <<>>, <<f>>), Class("B", <<>>, <<g>>), Class("B", <<>>, g2)>>)>>) :
     f \in Relations("f", {Ref("B")}, {"g"}), g \in Relations("g", {Ref("A")}, {"f", NoName}),
     g2 \in {<<>>, <<[Feature("contains", "g", Ref("A")) EXCEPT !.opposite = "f"]>>}}

\* Relations that cross packages.
OwnershipSlice ==
  UNION {Ways(<<File("p", <<Class("A", <<>>, <<f>>), Class("L", <<>>, <<>>)>>),
                File("q", <<Class("B", <<>>, <<g>>), Import("S", TRUE)>>)>>) :
     f \in Relations("f", {Ref("A"), Ref("B"), From("q", "S"), From("q", "L")}, {NoName, "g", "f"}),
     g \in Relations("g", {Ref("A"), Ref("B"), From("p", "L"), Ref("S")}, {NoName, "f"})}

-----------------------------------------------------------------------------
(* Inheritance.                                                            *)

Bases == {Ref("A"), Ref("B"), Ref("C"), Ref("I")}
InheritanceSlice ==
  (UNION {Ways(IF split THEN <<File("p", <<Class("A", a, <<>>), Interface("I")>>),
                              File("q", <<Class("B", b, <<>>), Class("C", c, <<>>)>>)>>
              ELSE <<File("p", <<Class("A", a, <<>>), Interface("I"), Class("B", b, <<>>), Class("C", c, <<>>)>>)>>) :
     split \in BOOLEAN, a \in Seqs(Bases, 1) \cup {<<Ref("C"), Ref("B")>>, <<Ref("A"), Ref("B")>>},
     b \in Seqs(Bases, 1), c \in Seqs(Bases \cup {Ref("Int"), Ref("Gone")}, 1)})
  \cup UNION {Ways(<<File("p", <<Class("A", a, <<>>), Class("A", b, <<>>), Class("B", c, <<>>), Import("S", TRUE)>>)>>) :
     a \in Seqs({Ref("B"), Ref("S")}, 2), b \in Seqs({Ref("B"), Ref("A")}, 1), c \in Seqs({Ref("A")}, 1)}

\* Two cycles over three files: one of them is reported.
RingSlice ==
  UNION {Ways(<<File("p", <<Class("A", a, <<>>), Class("K", <<Ref("M")>>, <<>>)>>),
                File("q", <<Class("B", b, <<>>)>>), File("r", <<Class("M", <<k>>, <<>>), Class("C", c, <<>>)>>)>>) :
     a \in Seqs({Ref("B"), Ref("C")}, 1), b \in Seqs({Ref("A"), Ref("C")}, 1), c \in Seqs({Ref("A"), Ref("B")}, 1),
     k \in {Ref("K"), Ref("A")}}

-----------------------------------------------------------------------------
(* Namespaces.                                                             *)

Uses(types) == Class("C", <<>>, [k \in DOMAIN types |-> Feature("attribute", <<"f", "g">>[k], types[k])])

\* What one name can be in one file: declared twice, imported, an actors
\* block, or a built-in type's; used bare and qualified.
NamesIn(p) ==
  UNION {Ways(<<[File(p, d \o <<Uses(u)>>) EXCEPT !.dotted = (p = "p.q")]>>) :
     d \in Seqs({Datatype("X"), Enum("X", <<Literal("ab", 2, 1)>>), Actors("X"), Import("X", TRUE), Import("Y", FALSE),
                 Datatype("Date")}, 2),
     u \in {<<Ref("X")>>, <<From(p, "X")>>, <<Ref("Date")>>, <<From(p, "Date"), Ref("Int")>>, <<From("gone", "X")>>}}
NameSlice ==
  NamesIn("p") \cup NamesIn("p.q")
  \cup UNION {Ways(<<File("p", <<Enum("E", l), v, [Uses(<<>>) EXCEPT !.features =
                       <<[Feature("attribute", "f", Ref("E")) EXCEPT !.default = Form("name", "ab")],
                         [Feature("attribute", n, Ref("V")) EXCEPT !.default = Form("name", "ab")]>>]>>)>>) :
     l \in {<<>>, <<Literal("ab", 2, 1), Literal("ab", 2, 2)>>, <<Literal("ab", 2, NoName)>>, <<Literal("ab", 2, 1)>>},
     v \in {Vocabulary("V", {"ab"}, "string"), Vocabulary("V", {}, "string"), Vocabulary("V", NoName, NoName)},
     n \in {"f", "g"}}

\* Two files: one package or two, unreadable ones, a name in both, and a
\* built-in type the other file declares.
ProjectSlice ==
  UNION {Ways(<<[File(p, <<d, Uses(u)>>) EXCEPT !.ast = a[1], !.syntax = a[2]],
                File(q, <<e, Class(n, <<>>, <<Feature("refers", "r", Ref("C"))>>)>>)>>) :
     p \in {"p", NoName}, a \in {<<TRUE, FALSE>>, <<TRUE, TRUE>>, <<FALSE, TRUE>>}, q \in {"p", "q"}, n \in {"C", "K"},
     d \in {Datatype("X"), Vocabulary("V", {"ab"}, "string"), Import("X", TRUE)},
     e \in {Datatype("X"), Enum("X", <<>>), Datatype("Date"), Vocabulary("V", {"x"}, "string"), Actors("X")},
     u \in {<<Ref("X")>>, <<From("p", "X")>>, <<From("q", "X")>>, <<Ref("Date"), Ref("V")>>, <<Ref("Int")>>}}

-----------------------------------------------------------------------------
(* Sigil imports: Rune files on disk, and .mox files that import them.      *)

Sigil(n) == [kind |-> "sigil", name |-> n, folder |-> <<>>]
Wildcard(n) == [namespace |-> n, element |-> NoName]
Rune(namespace, imports, elements) == [namespace |-> namespace, imports |-> imports, elements |-> elements]
OnDisk(n, folder, rune, errors) ==
  [folder |-> folder, name |-> n, text |-> <<n, rune>>, rune |-> rune, errors |-> errors]
Attribute(n, type) == [name |-> n, type |-> type, multiplicity |-> Once]
Data(n, super, type) ==
  [RuneElement("data", n) EXCEPT !.super = super, !.attributes = <<Attribute("f", type)>>]

RefersTo(types) == Class("C", <<>>, [k \in DOMAIN types |-> Feature("refers", <<"f", "g">>[k], types[k])])

\* What the host collects, for every way to compile.
Collected(files, disk) ==
  {[m EXCEPT !.rosetta = CollectSigil(files, disk)] : m \in {n \in Ways(files) : CollectSigil(files, disk) # NoName}}

\* A chain of namespaces: which are needed, which fail, and what the file that
\* imports the first can refer to.
NeedSlice ==
  UNION {Collected(<<File("p", <<Sigil("a"), RefersTo(v.uses)>>)>>,
           <<OnDisk("a", <<>>, Rune("a", i, <<Data("T", NoName, v.type)>>), broken = "a"),
             OnDisk("b", v.folder, IF broken = "b unread" THEN NoName ELSE Rune("b", j, <<Data("U", v.super, Ref("string"))>>),
                    broken = "b"),
             OnDisk("c", <<>>, Rune(n, {}, <<Data("W", NoName, Ref("time"))>>), broken = "c")>>) :
     i \in {{}, {Wildcard("b")}, {[namespace |-> "b", element |-> "U"]}, {Wildcard("b"), Wildcard("c")}},
     j \in {{}, {Wildcard("c")}, {Wildcard("a")}}, n \in {"a", "b", "c"}, broken \in {NoName, "a", "b", "b unread", "c"},
     v \in {[folder |-> <<>>, super |-> NoName, type |-> Ref("U"), uses |-> <<Ref("T")>>],
            [folder |-> <<"lib">>, super |-> Ref("W"), type |-> Ref("U"), uses |-> <<From("b", "U"), Ref("W")>>],
            [folder |-> <<"lib">>, super |-> Ref("T"), type |-> From("c", "W"), uses |-> <<Ref("T")>>],
            [folder |-> <<".git">>, super |-> NoName, type |-> Ref("int"), uses |-> <<Ref("T")>>],
            [folder |-> <<>>, super |-> Ref("T"), type |-> Ref("time"), uses |-> <<>>]}}

\* One of everything a Rune file declares, in terms of what it can refer to.
MeaningSlice ==
  UNION {Collected(<<File("p", <<Sigil("a"), [Uses(<<v.use>>) EXCEPT !.features[1].default = v.default]>> \o v.more)>>,
           <<OnDisk("a", <<>>, Rune("a", {}, <<e, [RuneElement("enum", "E") EXCEPT !.values = <<"ab", "abcd">>],
                                              RuneElement("choice", "H"), RuneElement("record", "R"),
                                              [RuneElement("alias", "L") EXCEPT !.type = Ref("int")]>>), FALSE)>>) :
     e \in (UNION {{Data("T", NoName, t), Data("T", t, Ref("date")), [RuneElement("alias", "T") EXCEPT !.type = t],
                   [RuneElement("function", "T") EXCEPT !.output = t],
                   [RuneElement("library function", "T") EXCEPT !.output = Ref("boolean"), !.parameters = <<Attribute("q", t)>>]} :
                  t \in {Ref("E"), Ref("H"), Ref("L"), Ref("R"), Ref("T"), Ref("int"), Ref("zonedDateTime"), Ref("now"),
                          Ref("calculation"), From("com.rosetta.model", "SerializationFormat"), Ref("Gone")}})
          \cup {[RuneElement("function", "T") EXCEPT !.parameters = <<[Attribute("q", Ref("E")) EXCEPT !.multiplicity.open = TRUE]>>],
               RuneElement("choice", "H"), RuneElement("rule", "R")},
     v \in {[use |-> Ref("Int"), default |-> NoName, more |-> <<>>], [use |-> Ref("T"), default |-> NoName, more |-> <<>>],
            [use |-> From("a", "L"), default |-> Form("text", "x"), more |-> <<Class("K", <<Ref("T"), From("a", "H")>>, <<>>)>>],
            [use |-> From("a", "H"), default |-> NoName, more |-> <<Datatype("E")>>],
            [use |-> Ref("E"), default |-> Form("name", "ab"), more |-> <<>>],
            [use |-> Ref("E"), default |-> Form("name", "x"), more |-> <<>>],
            [use |-> Ref("E"), default |-> NoName, more |-> <<Datatype("E")>>],
            [use |-> Ref("time"), default |-> NoName, more |-> <<>>]}}

\* Two files: they import the same namespace or not, declare its name, and one
\* of the Rune files fails or is missing.
ShareSlice ==
  (UNION {Collected(<<File(p, i \o <<RefersTo(<<u>>)>>), File("q", k \o <<Class("K", <<From("a", "T")>>, <<>>)>>)>>,
           <<OnDisk("a", <<>>, Rune("a", {Wildcard("b")}, <<Data("T", NoName, t)>>), broken = "a"),
             OnDisk("b", <<>>, IF broken = "b unread" THEN NoName ELSE Rune(n, {}, <<Data("U", NoName, Ref("time"))>>),
                    broken = "b")>>) :
     i \in {<<>>, <<Sigil("a")>>, <<Sigil("b"), Sigil("a")>>}, k \in {<<>>, <<Sigil("a")>>, <<Sigil("b")>>},
     p \in {"p", "a", "q", "com.rosetta.model"}, n \in {"a", "b"}, t \in {Ref("string"), Ref("U")},
     broken \in {NoName, "a", "b", "b unread"}, u \in {Ref("T"), From("b", "U")}})
  \cup UNION {{Provided(m, <<File("p", <<Sigil("a"), Sigil("b")>>), File("q", <<Sigil("a")>>)>>, SelectSeq(pool, LAMBDA e : e # NoName)) :
               m \in Modes} :
     pool \in [1..3 -> {NoName}
                 \cup {[mox |-> x, key |-> <<"written", <<>>, n>>, text |-> n, rune |-> Rune(n, {}, <<>>), errors |-> FALSE] :
                        x \in 1..2, n \in {"a", "b"}}]}

MCModels == {DefaultSlice, ConstraintSlice, BodySlice, OppositeSlice, OwnershipSlice, InheritanceSlice, RingSlice,
             NameSlice, ProjectSlice, NeedSlice, MeaningSlice, ShareSlice}
=============================================================================
