----------------------------- MODULE MoxLowering -----------------------------
(***************************************************************************)
(* From .mox files to a model (rex-driver lower: compile.rs, classes.rs,    *)
(* resolve.rs, imports.rs).  Three entry points share the lowering of a     *)
(* declaration and repeat the rest, each its own way:                      *)
(*   "single"   one file, references into its own package only;            *)
(*   "multi"    several files, one namespace, all or nothing;              *)
(*   "perFile"  several files, one namespace, a model for each file without *)
(*              an error: what the other surfaces import.                  *)
(*                                                                         *)
(* A file is [ast, syntax, package, dotted, folder, declarations]: whether  *)
(* it has a syntax tree and syntax errors, its package, whether that name   *)
(* has a dot, where it is, and its declarations in order.  Annotations and  *)
(* texts are left out; actors blocks only occupy their name (PolicySurface  *)
(* has them); a vocabulary carries the keys its snapshot gives it           *)
(* (VocabFetch), NoName when it cannot be lowered; what the host provided   *)
(* for sigil imports is `rosetta` (SigilImports).                          *)
(***************************************************************************)
EXTENDS SigilImports, Integers

-----------------------------------------------------------------------------
(* The syntax tree.                                                        *)

ImportKinds == {"import", "sigil"}

Multiplicity(m) ==
  m # NoName => /\ HasFields(m, {"form", "lower", "upper"})
                /\ m.form \in {"any", "exact", "range", "open"} /\ {m.lower, m.upper} \subseteq Int

Constraint(k) ==
  /\ HasFields(k, {"word", "form", "n"})
  /\ k.word \in {"minimum", "maximum", "minLength", "maxLength", "pattern", "unique"}
  /\ k.form \in {"number", "text", "flag"} /\ k.n \in Int

DefaultValue(d) == d # NoName => HasFields(d, {"form", "name"}) /\ d.form \in {"text", "number", "truth", "name"}

\* Parameters and bodies belong to operations and derived features.
FeatureDecl(f) ==
  /\ HasFields(f, {"name", "kind", "type", "multiplicity", "default", "constraints", "opposite",
                   "parameters", "body", "targets"})
  /\ f.kind \in {"attribute", "contains", "container", "refers", "op", "derived"}
  /\ TypeReference(f.type) /\ Multiplicity(f.multiplicity) /\ DefaultValue(f.default)
  /\ IsList(f.constraints) /\ \A k \in Range(f.constraints) : Constraint(k)
  /\ IsList(f.parameters) /\ \A p \in Range(f.parameters) : TypeReference(p)
  /\ IsList(f.targets) /\ f.body \in BOOLEAN
  /\ f.kind \notin {"op", "derived"} => f.targets = <<>> /\ f.body = FALSE

ClassDecl(d) ==
  /\ HasFields(d, {"kind", "name", "extends", "features"})
  /\ IsList(d.extends) /\ \A t \in Range(d.extends) : TypeReference(t)
  /\ IsList(d.features) /\ \A f \in Range(d.features) : FeatureDecl(f)

InterfaceDecl(d) == HasFields(d, {"kind", "name"})

EnumLiteralDecl(l) == HasFields(l, {"name", "length", "value"})
EnumDecl(d) ==
  /\ HasFields(d, {"kind", "name", "literals"})
  /\ IsList(d.literals) /\ \A l \in Range(d.literals) : EnumLiteralDecl(l)

DatatypeDecl(d) == HasFields(d, {"kind", "name", "create", "convert"}) /\ IsList(d.create) /\ IsList(d.convert)

\* With the keys and their type the snapshot of a vocabulary gives it.
VocabularyDecl(d) == HasFields(d, {"kind", "name", "keys", "keyType"})

\* A schema by name and whether it can be used, or a sigil import.
ImportDecl(d) ==
  CASE d.kind = "import" -> HasFields(d, {"kind", "name", "usable"}) /\ d.usable \in BOOLEAN
    [] d.kind = "sigil" -> HasFields(d, {"kind", "name", "folder"})

Decl(d) ==
  CASE d.kind = "class" -> ClassDecl(d)
    [] d.kind \in {"interface", "actors"} -> InterfaceDecl(d)
    [] d.kind = "enum" -> EnumDecl(d)
    [] d.kind = "datatype" -> DatatypeDecl(d)
    [] d.kind = "vocabulary" -> VocabularyDecl(d)
    [] d.kind \in ImportKinds -> ImportDecl(d)

ModelFile(f) ==
  /\ HasFields(f, {"ast", "syntax", "package", "dotted", "folder", "declarations"})
  /\ {f.ast, f.syntax, f.dotted} \subseteq BOOLEAN
  /\ IsList(f.declarations) /\ \A d \in Range(f.declarations) : Decl(d)

MoxFile(c) == IsList(c.files) /\ \A f \in Range(c.files) : ModelFile(f)

-----------------------------------------------------------------------------
(* The namespace of a file.                                                *)

Named(f) == SelectSeq(f.declarations, LAMBDA d : d.kind \notin ImportKinds)

\* A name is what its first declaration makes it.
DeclaredKinds(f) == FoldLeft(LAMBDA r, d : Register(r, d.name, d.kind), NoEntries, Named(f))

\* The names schema imports add: usable ones (named, provided, JSON), unless
\* the name is declared or an earlier import has it.
SchemaImports(f) ==
  FoldLeft(LAMBDA acc, d : IF d.kind = "import" /\ d.usable /\ d.name \notin DOMAIN DeclaredKinds(f) \cup Range(acc)
                           THEN Append(acc, d.name) ELSE acc,
           <<>>, f.declarations)

Namespace(f) ==
  [name |-> f.package, classes |-> NoEntries, enums |-> NoEntries,
   others |-> DeclaredKinds(f) @@ [n \in Range(SchemaImports(f)) |-> "class"]]

NamespaceErrors(c, i) ==
  LET f == c.files[i]
      names == [k \in DOMAIN Named(f) |-> Named(f)[k].name]
      imports == SelectSeq(f.declarations, LAMBDA d : d.kind = "import")
  IN  When(f.syntax, "syntax")
        \cup When(f.ast /\ f.package = NoName, "missing package")
        \cup When(LowersAt(c, i) /\ \E j \in 1..(i - 1) : LowersAt(c, j) /\ c.files[j].package = f.package,
                  "duplicate package")
        \cup When(LowersAt(c, i) /\ Repeated(names) # {}, "duplicate declaration")
        \cup When(LowersAt(c, i) /\ Len(SchemaImports(f)) < Len(imports), "schema import")
        \cup When(LowersAt(c, i) /\ \E d \in Range(Named(f)) : d.kind = "vocabulary" /\ d.keys = NoName, "vocabulary")

\* The declarations of a kind in all files, each with its place.
InOrderOf(c, kinds) ==
  FlattenSeq([i \in DOMAIN c.files |->
    LET f == c.files[i]
        items == [k \in DOMAIN f.declarations |->
                   [file |-> i, package |-> f.package, at |-> k, decl |-> f.declarations[k]]]
    IN  IF LowersAt(c, i) THEN SelectSeq(items, LAMBDA x : x.decl.kind \in kinds) ELSE <<>>])

\* What the checks of attributes look up by package and name; the last entry
\* stands, but a file offers only the first declaration of an enum's name.
Tabled(items, ValueOf(_)) ==
  FoldLeft(LAMBDA t, x : (<<x.package, x.decl.name>> :> ValueOf(x.decl)) @@ t, NoEntries, items)

PrepMaps(c) ==
  LET Winning(x) == \A k \in 1..(x.at - 1) :
                      LET d == c.files[x.file].declarations[k] IN d.kind \in ImportKinds \/ d.name # x.decl.name
      vocabularies == InOrderOf(c, {"vocabulary"})
  IN  [enums |-> Tabled(SelectSeq(InOrderOf(c, {"enum"}), Winning), LAMBDA d : d.literals),
       keys |-> Tabled(SelectSeq(vocabularies, LAMBDA x : x.decl.keys # NoName), LAMBDA d : d.keys),
       keyTypes |-> Tabled(SelectSeq(vocabularies, LAMBDA x : x.decl.keyType # NoName), LAMBDA d : d.keyType)]

\* The packages of the files, and behind them the imported namespaces.
OpenWith(c, sigil) ==
  LET lowering == SelectSeq(c.files, LAMBDA f : f.ast /\ f.package # NoName)
  IN  [scope |-> [n \in DOMAIN lowering |-> Namespace(lowering[n])] \o sigil.namespaces,
       prep |-> PrepMaps(c),
       sigil |-> sigil,
       own |-> [i \in DOMAIN c.files |-> [enums |-> <<>>, datatypes |-> <<>>, interfaces |-> <<>>]],
       classes |-> <<>>,
       errors |-> sigil.errors \cup UNION {{<<i, e>> : e \in NamespaceErrors(c, i)} : i \in DOMAIN c.files}]
OpenMox(c) == OpenWith(c, ImportOutcome(c))

-----------------------------------------------------------------------------
(* Types, multiplicities, defaults and constraints.                        *)

\* Mutant: a built-in type is never hidden by a declaration.
ResolveSinglePrimitiveFirst(ref, f, package) ==
  CASE ref.pkg # NoName ->
         IF ref.pkg = f.package /\ ~f.dotted THEN Classified(package, ref.local) ELSE Unresolved
    [] ref.pkg = NoName /\ ref.local \in Primitives -> [kind |-> "primitive", pkg |-> NoName, name |-> ref.local]
    [] OTHER -> Classified(package, ref.local)

\* One package: a qualified name has two segments and the first is the whole
\* package; a declaration hides the built-in type of its name.
ResolveSingle(ref, f, package) ==
  CASE ref.pkg # NoName ->
         IF ref.pkg = f.package /\ ~f.dotted THEN Classified(package, ref.local) ELSE Unresolved
    [] ref.pkg = NoName /\ ~Declares(package, ref.local) /\ ref.local \in Primitives ->
         [kind |-> "primitive", pkg |-> NoName, name |-> ref.local]
    [] OTHER -> Classified(package, ref.local)

\* Alone, a file that imports a namespace resolves like several files.
ResolveMox(st, c, ref) ==
  IF c.mode = "single" /\ st.sigil.namespaces = <<>> THEN ResolveSingle(ref, c.files[1], st.scope[1]) ELSE ResolveDomains(ref, st.scope)

Times(lower, upper) == [lower |-> lower, upper |-> upper, open |-> FALSE]
Many == [lower |-> 0, upper |-> 0, open |-> TRUE]
IsMany(multiplicity) == multiplicity.open \/ multiplicity.upper > 1

InRange(n) == n \in 0..(U32 - 1)
MultiplicityErrors(m) ==
  When(m # NoName /\ ~InRange(m.lower), "bound") \cup When(m # NoName /\ ~InRange(m.upper), "bound")

LowerMultiplicity(m, default) ==
  LET lower == IF InRange(m.lower) THEN m.lower ELSE IF m.form = "exact" THEN 1 ELSE 0
  IN  CASE m = NoName -> default
        [] m # NoName /\ m.form = "any" -> Many
        [] m # NoName /\ m.form = "exact" -> Times(lower, lower)
        [] m # NoName /\ m.form = "range" -> Times(lower, IF InRange(m.upper) THEN m.upper ELSE lower)
        [] m # NoName /\ m.form = "open" -> [Many EXCEPT !.lower = lower]

IsPrimitive(type, names) == type.kind = "primitive" /\ type.name \in names
IsNumeric(type) == type.kind = "primitive" /\ type.name \notin {"String", "Char", "Boolean", "Date"}

\* Whether a default fits its attribute; what failed to resolve or to load is
\* reported already.
DefaultFits(prep, type, default) ==
  LET key == <<type.pkg, type.name>>
  IN  CASE type = Unresolved -> TRUE
        [] IsPrimitive(type, {"Date"}) -> FALSE
        [] OTHER ->
             CASE default.form = "text" -> type.kind \in {"datatype", "vocabulary"} \/ IsPrimitive(type, {"String", "Char"})
               [] default.form = "number" -> IsNumeric(type)
               [] default.form = "truth" -> IsPrimitive(type, {"Boolean"})
               [] default.form = "name" /\ type.kind = "enum" ->
                    key \in DOMAIN prep.enums => \E l \in Range(prep.enums[key]) : l.name = default.name
               [] default.form = "name" /\ type.kind = "vocabulary" ->
                    key \in DOMAIN prep.keys => default.name \in prep.keys[key]
               [] OTHER -> FALSE

\* Which constraints a type can take; Unresolved is left to its own error,
\* and an enum that is no declaration of a .mox file is not checked.
Space(prep, type) ==
  LET key == <<type.pkg, type.name>>
  IN  CASE type.kind = "datatype" \/ IsPrimitive(type, {"String"}) -> "string"
        [] IsNumeric(type) -> "numeric"
        [] IsPrimitive(type, {"Char", "Boolean", "Date"}) -> "neither"
        [] type.kind = "enum" -> IF key \in DOMAIN prep.enums THEN "enum" ELSE "imported"
        [] type.kind = "vocabulary" /\ key \in DOMAIN prep.keyTypes -> prep.keyTypes[key]
        [] OTHER -> "none"

Lengths == {"minLength", "maxLength"}
Admits(space, word) ==
  CASE word \in Lengths \cup {"pattern"} -> space \in {"string", "enum"}
    [] word \in {"minimum", "maximum"} -> space \in {"numeric", "enum"}
    [] OTHER -> TRUE
FormOf(word) == CASE word = "pattern" -> "text" [] word = "unique" -> "flag" [] OTHER -> "number"

Kept(space, many, constraints) ==
  SelectSeq(constraints, LAMBDA k :
    /\ k.form = FormOf(k.word) /\ Admits(space, k.word)
    /\ k.word \in Lengths => k.n >= 0
    /\ k.word = "unique" => many)

\* The last bound of a word stands.
BoundOf(kept, word) == FirstOf(Reverse(kept), LAMBDA k : k.word = word, [n |-> NoName]).n
Within(low, high, n) == (low = NoName \/ n >= low) /\ (high = NoName \/ n <= high)
Bounded(low, high) == low # NoName \/ high # NoName
Ordered(low, high) == low = NoName \/ high = NoName \/ low <= high

\* `offered` is what the literals of an enum have, NoName for other types.
RangeErrors(kept, low, high, offered) ==
  LET from == BoundOf(kept, low)
      to == BoundOf(kept, high)
  IN  When(~Ordered(from, to), "inverted bounds")
        \cup When(/\ offered # NoName /\ Bounded(from, to) /\ Ordered(from, to)
                  /\ \A n \in offered : ~Within(from, to, n), "no literal within bounds")

ConstraintErrors(prep, type, many, constraints) ==
  LET space == Space(prep, type)
      kept == Kept(space, many, constraints)
      literals == IF space = "enum" THEN Range(prep.enums[<<type.pkg, type.name>>]) ELSE {}
      Offered(values) == IF space = "enum" THEN values ELSE NoName
      skipped == constraints = <<>> \/ type = Unresolved \/ space = "imported"
  IN  CASE skipped -> {}
        [] ~skipped /\ space = "none" -> {"unconstrainable type"}
        [] OTHER ->
             When(Len(kept) < Len(constraints), "constraint")
               \cup RangeErrors(kept, "minimum", "maximum", Offered({l.value : l \in literals} \ {NoName}))
               \cup RangeErrors(kept, "minLength", "maxLength", Offered({l.length : l \in literals}))

-----------------------------------------------------------------------------
(* Declarations.                                                           *)

Report(st, item, errors) == st.errors \cup {<<item.file, e>> : e \in errors}

LowerEnum(st, item) ==
  LET literals == item.decl.literals
  IN  [st EXCEPT
         !.own[item.file].enums = Append(@, [name |-> item.decl.name, literals |-> literals]),
         !.errors = Report(st, item,
            When(Repeated([k \in DOMAIN literals |-> literals[k].name]) # {}, "duplicate literal")
              \cup When(\E l \in Range(literals) : l.value = NoName, "literal without a value"))]

TargetErrors(targets) ==
  When(Repeated(targets) # {}, "duplicate target body")
    \cup When({"rust", "expr"} \subseteq Range(targets), "conflicting target bodies")

LowerDatatype(st, item) ==
  [st EXCEPT
     !.own[item.file].datatypes = Append(@, item.decl.name),
     !.errors = Report(st, item, TargetErrors(item.decl.create) \cup TargetErrors(item.decl.convert))]

LowerInterface(st, item) == [st EXCEPT !.own[item.file].interfaces = Append(@, item.decl.name)]

AttributeErrors(prep, f, type, multiplicity) ==
  When(type.kind = "class", "class-typed feature")
    \cup MultiplicityErrors(f.multiplicity)
    \cup When(f.default # NoName /\ ~DefaultFits(prep, type, f.default), "default")
    \cup ConstraintErrors(prep, type, IsMany(multiplicity), f.constraints)

RelationErrors(f, type) ==
  When(type # Unresolved /\ type.kind # "class", "not a class")
    \cup (IF f.kind = "container" THEN {} ELSE MultiplicityErrors(f.multiplicity))

OpErrors(f) == TargetErrors(f.targets) \cup When(f.body /\ f.targets = <<>>, "operation body")

\* A derived feature is written in the neutral expression language only.
DerivedErrors(f, type) ==
  When(type.kind = "class", "class-typed feature")
    \cup MultiplicityErrors(f.multiplicity)
    \cup TargetErrors(f.targets)
    \cup When((f.body /\ f.targets = <<>>) \/ Range(f.targets) \ {"expr"} # {}, "derived body")

FeatureErrors(prep, f, type, multiplicity) ==
  When(type = Unresolved, "unknown type") \cup
  CASE f.kind = "attribute" -> AttributeErrors(prep, f, type, multiplicity)
    [] f.kind = "derived" -> DerivedErrors(f, type)
    [] f.kind = "op" -> OpErrors(f)
    [] OTHER -> RelationErrors(f, type)

\* A feature keeps its resolution where the code has a placeholder for what
\* failed to resolve.
LowerFeature(st, c, f) ==
  LET type == ResolveMox(st, c, f.type)
      default == CASE f.kind = "attribute" -> Times(1, 1)
                   [] f.kind \in {"contains", "refers"} -> Many
                   [] OTHER -> Times(0, 1)
      multiplicity == IF f.kind = "container" THEN default ELSE LowerMultiplicity(f.multiplicity, default)
      parameters == [k \in DOMAIN f.parameters |-> ResolveMox(st, c, f.parameters[k])]
  IN  [feature |-> [name |-> f.name, kind |-> f.kind, type |-> type, multiplicity |-> multiplicity,
                    parameters |-> parameters, default |-> f.default, constraints |-> f.constraints,
                    opposite |-> f.opposite],
       errors |-> FeatureErrors(st.prep, f, type, multiplicity)
                    \cup When(Unresolved \in Range(parameters), "unknown type")]

LowerClass(st, c, item) ==
  LET d == item.decl
      bases == [k \in DOMAIN d.extends |-> ResolveMox(st, c, d.extends[k])]
      Extendable(t) == t.kind \in {"class", "interface"}
      lowered == [k \in DOMAIN d.features |-> LowerFeature(st, c, d.features[k])]
  IN  [st EXCEPT
         !.classes = Append(@, [file |-> item.file, package |-> item.package, name |-> d.name,
                                extends |-> SelectSeq(bases, Extendable),
                                features |-> [k \in DOMAIN lowered |-> lowered[k].feature]]),
         !.errors = Report(st, item,
            When(\E t \in Range(bases) : ~Extendable(t), "cannot extend")
              \cup When(Repeated([k \in DOMAIN d.features |-> d.features[k].name]) # {}, "duplicate feature")
              \cup UNION {l.errors : l \in Range(lowered)})]

-----------------------------------------------------------------------------
(* The rules over all classes.                                             *)

KeyOf(record) == <<record.package, record.name>>
\* The index holds the last class of a name; schema imports are not in it.
Indexed(classes, key) == FirstOf(Reverse(classes), LAMBDA r : KeyOf(r) = key, NoName)

InheritanceEdges(classes) ==
  LET keys == {KeyOf(r) : r \in Range(classes)}
      Supers(r) == SelectSeq([k \in DOMAIN r.extends |->
                                IF r.extends[k].kind = "class" THEN <<r.extends[k].pkg, r.extends[k].name>> ELSE NoName],
                             LAMBDA s : s \in keys)
  IN  FlattenSeq([i \in DOMAIN classes |->
        [k \in DOMAIN Supers(classes[i]) |-> <<KeyOf(classes[i]), Supers(classes[i])[k]>>]])

\* The kernel refuses the first edge that closes a cycle (CyclePass), and the
\* file of the class it extends has the error.
CycleErrors(classes) ==
  LET edges == InheritanceEdges(classes)
      Refused(k) == edges[k][1] = edges[k][2]
                      \/ Reaches(Range(SubSeq(edges, 1, k - 1)), edges[k][2], edges[k][1])
      refused == {k \in DOMAIN edges : Refused(k)}
  IN  IF refused = {} THEN {}
      ELSE LET k == CHOOSE n \in refused : \A m \in refused : n <= m
           IN  {<<Indexed(classes, edges[k][2]).file, "inheritance cycle">>}

Counterpart(kind) == CASE kind = "contains" -> "container" [] kind = "container" -> "contains" [] OTHER -> "refers"

\* Mutant: nobody asks whether the counterpart names the feature back.
OppositeErrorsOneWay(classes, r, f) ==
  LET other == Indexed(classes, <<f.type.pkg, f.type.name>>)
      back == FirstOf(other.features, LAMBDA g : g.name = f.opposite, NoName)
  IN  CASE f.kind \notin {"contains", "refers", "container"} \/ f.type.kind # "class" -> {}
        [] f.type.pkg # r.package -> When(f.kind # "refers" \/ f.opposite # NoName, "across packages")
        [] f.opposite = NoName \/ other = NoName -> {}
        [] OTHER -> When(\/ back = NoName
                         \/ back.kind # Counterpart(f.kind)
                         \/ back.type # [kind |-> "class", pkg |-> r.package, name |-> r.name], "opposite mismatch")

\* Ownership and opposites stay in a package; an opposite is a feature of the
\* target that is of the other kind, leads back, and names this one.
OppositeErrors(classes, r, f) ==
  LET other == Indexed(classes, <<f.type.pkg, f.type.name>>)
      back == FirstOf(other.features, LAMBDA g : g.name = f.opposite, NoName)
  IN  CASE f.kind \notin {"contains", "refers", "container"} \/ f.type.kind # "class" -> {}
        [] f.type.pkg # r.package -> When(f.kind # "refers" \/ f.opposite # NoName, "across packages")
        [] f.opposite = NoName \/ other = NoName -> {}
        [] OTHER -> When(\/ back = NoName
                         \/ back.kind # Counterpart(f.kind)
                         \/ back.type # [kind |-> "class", pkg |-> r.package, name |-> r.name]
                         \/ back.opposite # f.name, "opposite mismatch")

CloseMox(st) ==
  [st EXCEPT !.errors = @ \cup CycleErrors(st.classes)
     \cup UNION {UNION {{<<r.file, e>> : e \in OppositeErrors(st.classes, r, f)} : f \in Range(r.features)}
                 : r \in Range(st.classes)}]

-----------------------------------------------------------------------------
(* The outcome.                                                            *)

\* Where the classes, vocabularies and actors of a file go: by position, or in
\* a per-file compile to the first package of the name.
Home(c, i) ==
  IF c.mode # "perFile" THEN i
  ELSE CHOOSE j \in 1..i : /\ LowersAt(c, j) /\ c.files[j].package = c.files[i].package
                           /\ \A k \in 1..(j - 1) : LowersAt(c, k) => c.files[k].package # c.files[i].package

PackageAt(st, c, i, home) ==
  LET housed == {j \in DOMAIN c.files : LowersAt(c, j) /\ Home(c, j) = home}
      Gather(S, Of(_)) == FlattenSeq([j \in DOMAIN c.files |-> IF j \in S THEN Of(c.files[j]) ELSE <<>>])
      Declared(f, kind) == SelectSeq(f.declarations, LAMBDA d : d.kind = kind)
      last == {j \in housed : \A k \in housed : k <= j}
  IN  [name |-> c.files[home].package, own |-> st.own[home],
       classes |-> SelectSeq(st.classes, LAMBDA r : r.file \in housed),
       imported |-> Gather(housed, SchemaImports),
       vocabularies |-> Gather(last, LAMBDA f : SelectSeq(Declared(f, "vocabulary"), LAMBDA d : d.keys # NoName)),
       actors |-> Gather(housed, LAMBDA f : Declared(f, "actors")),
       synthetic |-> IF i = st.sigil.owner THEN st.sigil.packages ELSE <<>>]

\* A package for every file or no model; per file, a package for each file
\* that nothing was reported in and whose imported namespaces lowered.  The
\* imported packages are with the first file that imports any.
MoxOutcome(st, c) ==
  LET Withheld(i) == Blocks(st.sigil, i) \/ \E e \in st.errors : e[1] = i
  IN  IF c.mode = "perFile"
      THEN [i \in DOMAIN c.files |-> IF Withheld(i) THEN NoName ELSE PackageAt(st, c, i, Home(c, i))]
      ELSE IF st.errors # {} \/ st.sigil.content THEN NoName ELSE [i \in DOMAIN c.files |-> PackageAt(st, c, i, i)]

MoxAgenda(c) ==
  LET items == InOrderOf(c, {"enum", "datatype", "interface", "class"})
  IN  [k \in DOMAIN items |-> [kind |-> items[k].decl.kind, item |-> items[k]]]

\* A whole compilation, for those that need the outcome of another one.
MoxCompiled(c) ==
  LET Lower(st, e) == CASE e.kind = "enum" -> LowerEnum(st, e.item)
                        [] e.kind = "datatype" -> LowerDatatype(st, e.item)
                        [] e.kind = "interface" -> LowerInterface(st, e.item)
                        [] e.kind = "class" -> LowerClass(st, c, e.item)
  IN  MoxOutcome(CloseMox(FoldLeft(Lower, OpenMox(c), MoxAgenda(c))), c)
=============================================================================
