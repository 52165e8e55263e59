---------------------------- MODULE SigilImports ----------------------------
(***************************************************************************)
(* `import sigil "x.rosetta"`: Rune files become packages of the model     *)
(* (rex-driver workspace_imports.rs and sigil.rs).  The host collects, for *)
(* each .mox file, the files it names and their neighbours; the driver     *)
(* selects the namespaces the named files need, has them resolved, and     *)
(* lowers each namespace that has no error into one package.               *)
(*                                                                         *)
(* The parser and the resolver of Rune are a library (sigil_syntax,        *)
(* sigil_resolve): an entry carries what its text parses to, and Resolved  *)
(* and ResolverErrors stand for what the code takes from the resolver.  A  *)
(* parsed file is [namespace, imports, elements], an import [namespace,    *)
(* element], element NoName for a wildcard; NoName is a file that does not *)
(* parse.  Descriptions and the verbatim bodies of functions are left out. *)
(***************************************************************************)
EXTENDS NameScope

\* A file without a syntax tree or a package clause contributes nothing.
LowersAt(c, i) == c.files[i].ast /\ c.files[i].package # NoName

SigilDecls(f) == SelectSeq(f.declarations, LAMBDA d : d.kind = "sigil")

-----------------------------------------------------------------------------
(* The host's collection.  A file on disk is [folder, name, text, rune,     *)
(* errors]; folders are sequences of names.  A named file is known by the  *)
(* path as written, a neighbour by the path it was found at.               *)

Written(decl) == <<"written", decl.folder, decl.name>>
Found(file) == <<"found", file.folder, file.name>>

\* Neighbours are the Rune files below the folder, but not in hidden folders
\* and build output.
Skipped == {".git", "target"}
Neighbours(disk, folder, named) ==
  SelectSeq(disk, LAMBDA r :
    /\ r # named /\ IsPrefix(folder, r.folder)
    /\ Range(SubSeq(r.folder, Len(folder) + 1, Len(r.folder))) \cap Skipped = {})

\* An entry replaces an earlier one of its file and path.
Provide(pool, mox, key, r) ==
  LET entry == [mox |-> mox, key |-> key, text |-> r.text, rune |-> r.rune, errors |-> r.errors]
      Same(e) == e.mox = mox /\ e.key = key
  IN  IF \E e \in Range(pool) : Same(e)
      THEN [k \in DOMAIN pool |-> IF Same(pool[k]) THEN entry ELSE pool[k]]
      ELSE Append(pool, entry)

\* NoName when a named file is not on disk: nothing is compiled then.
CollectSigil(files, disk) ==
  LET declared == FlattenSeq([i \in DOMAIN files |->
                    [k \in DOMAIN SigilDecls(files[i]) |-> [mox |-> i, decl |-> SigilDecls(files[i])[k]]]])
      Add(acc, mox, key, r) == [pool |-> Provide(acc.pool, mox, key, r), keys |-> acc.keys \cup {key}]
      Gather(acc, x) ==
        LET folder == files[x.mox].folder \o x.decl.folder
            named == FirstOf(disk, LAMBDA r : r.folder = folder /\ r.name = x.decl.name, NoName)
        IN  IF acc = NoName \/ named = NoName THEN NoName
            ELSE FoldLeft(LAMBDA a, r : IF Found(r) \in a.keys THEN a ELSE Add(a, x.mox, Found(r), r),
                          Add(acc, x.mox, Written(x.decl), named), Neighbours(disk, folder, named))
      gathered == FoldLeft(Gather, [pool |-> <<>>, keys |-> {}], declared)
  IN  IF gathered = NoName THEN NoName ELSE gathered.pool

-----------------------------------------------------------------------------
(* Selection.                                                              *)

\* The import declarations, in file order.
NamedFiles(c) ==
  FlattenSeq([i \in DOMAIN c.files |->
    IF LowersAt(c, i)
    THEN [k \in DOMAIN SigilDecls(c.files[i]) |-> [mox |-> i, key |-> Written(SigilDecls(c.files[i])[k])]]
    ELSE <<>>])

Candidates(c) == SelectSeq(c.rosetta, LAMBDA e : e.mox \in DOMAIN c.files /\ LowersAt(c, e.mox))

\* Where the pool has the file a declaration names; 0 when nobody provided it.
PositionOf(pool, named) ==
  LET hits == {i \in DOMAIN pool : pool[i].mox = named.mox /\ pool[i].key = named.key}
  IN  IF hits = {} THEN 0 ELSE CHOOSE i \in hits : TRUE

\* A text of a namespace is taken once; it asks for its own namespace and
\* for those it imports.
Select(pool, s, i) ==
  LET rune == pool[i].rune
  IN  IF rune = NoName \/ (rune # NoName /\ <<rune.namespace, pool[i].text>> \in s.seen) THEN s
      ELSE [selected |-> Append(s.selected, i),
            seen |-> s.seen \cup {<<rune.namespace, pool[i].text>>},
            frontier |-> s.frontier \cup {rune.namespace} \cup {m.namespace : m \in rune.imports}]

Sweep(pool, s) ==
  LET Asked(a, i) == i \notin Range(a.selected) /\ pool[i].rune # NoName /\ pool[i].rune.namespace \in a.frontier
  IN  FoldLeft(LAMBDA a, i : IF Asked(a, i) THEN Select(pool, a, i) ELSE a, s, [i \in DOMAIN pool |-> i])

\* The closure of the named files: sweeps until nothing is added, and each
\* before that adds a file.
Selection(pool, named) ==
  LET start == FoldLeft(LAMBDA a, i : Select(pool, a, i), [selected |-> <<>>, seen |-> {}, frontier |-> {}], named)
      sweeps[n \in 0..Len(pool)] == IF n = 0 THEN start ELSE Sweep(pool, sweeps[n - 1])
  IN  sweeps[Len(pool)].selected

-----------------------------------------------------------------------------
(* Resolution, by the library: files are loaded behind the built-in one,    *)
(* and an element is known by its position <<file, element>>.              *)

RuneElement(kind, name) ==
  [kind |-> kind, name |-> name, super |-> NoName, attributes |-> <<>>, values |-> <<>>, type |-> NoName,
   parameters |-> <<>>, output |-> NoName]

BuiltinNamespace == "com.rosetta.model"
RuneName(name) == [pkg |-> NoName, local |-> name]
Builtins ==
  <<RuneElement("basic", "boolean"), RuneElement("basic", "string"), RuneElement("basic", "number"), RuneElement("basic", "time"),
    [RuneElement("alias", "int") EXCEPT !.type = RuneName("number")], RuneElement("record", "date"),
    RuneElement("record", "zonedDateTime"), [RuneElement("alias", "calculation") EXCEPT !.type = RuneName("string")],
    [RuneElement("enum", "SerializationFormat") EXCEPT !.values = <<"JSON", "XML">>], RuneElement("library function", "now")>>

Loaded(pool, selected) ==
  <<[key |-> NoName, namespace |-> BuiltinNamespace, imports |-> {}, elements |-> Builtins]>>
    \o [k \in DOMAIN selected |->
         LET e == pool[selected[k]]
         IN  [key |-> e.key, namespace |-> e.rune.namespace, imports |-> e.rune.imports, elements |-> e.rune.elements]]

Ids(files) == UNION {{<<f, e>> : e \in DOMAIN files[f].elements} : f \in DOMAIN files}
ElementAt(files, id) == files[id[1]].elements[id[2]]
FirstId(ids) == CHOOSE a \in ids : \A b \in ids : a[1] < b[1] \/ (a[1] = b[1] /\ a[2] <= b[2])

LastId(ids) == CHOOSE a \in ids : \A b \in ids : b[1] < a[1] \/ (a[1] = b[1] /\ b[2] <= a[2])

Sees(files, f, g, name) ==
  \/ files[g].namespace \in {files[f].namespace, BuiltinNamespace}
  \/ \E m \in files[f].imports : m.namespace = files[g].namespace /\ m.element \in {NoName, name}

Resolved(files, f, ref) ==
  LET hits == {id \in Ids(files) : /\ ElementAt(files, id).name = ref.local
                                  /\ IF ref.pkg = NoName THEN Sees(files, f, id[1], ref.local)
                                     ELSE files[id[1]].namespace = ref.pkg}
  IN  IF hits = {} THEN NoName ELSE FirstId(hits)

TypeKinds == {"data", "choice", "enum", "alias", "record", "basic"}
RefsOf(e) ==
  {r \in {e.super, e.type, e.output} : r # NoName}
    \cup {a.type : a \in Range(e.attributes)} \cup {p.type : p \in Range(e.parameters)}

\* The keys of the files an error is reported in: a reference to nothing or
\* to no type, and an element declared again.
ResolverErrors(files) ==
  LET Bad(f, ref) == LET id == Resolved(files, f, ref)
                     IN  id = NoName \/ (id # NoName /\ ElementAt(files, id).kind \notin TypeKinds)
      Again(id) == \E b \in Ids(files) : /\ b[1] < id[1] \/ (b[1] = id[1] /\ b[2] < id[2])
                                        /\ files[b[1]].namespace = files[id[1]].namespace
                                        /\ ElementAt(files, b).kind = ElementAt(files, id).kind /\ ElementAt(files, b).name = ElementAt(files, id).name
  IN  {files[id[1]].key : id \in {i \in Ids(files) : i[1] > 1 /\ (Again(i) \/ \E r \in RefsOf(ElementAt(files, i)) : Bad(i[1], r))}}

-----------------------------------------------------------------------------
(* What an element means to a model.                                       *)

BuiltinPrimitives ==
  "boolean" :> "Boolean" @@ "string" :> "String" @@ "int" :> "Int" @@ "number" :> "Double" @@ "date" :> "Date"

Meaning(kind, pkg, name) == [kind |-> kind, pkg |-> pkg, name |-> name]

BuiltinTargets ==
  LET Target(e) == IF e.kind # "enum" /\ e.name \in DOMAIN BuiltinPrimitives
                   THEN Meaning("primitive", NoName, BuiltinPrimitives[e.name])
                   ELSE Meaning(IF e.kind = "enum" THEN "enum" ELSE "datatype", BuiltinNamespace, e.name)
      meant == {i \in DOMAIN Builtins : Builtins[i].kind \in TypeKinds}
  IN  [id \in {<<1, i>> : i \in meant} |-> Target(Builtins[id[2]])]

KindInModel == "data" :> "class" @@ "choice" :> "interface" @@ "enum" :> "enum" @@ "alias" :> "datatype" @@ "record" :> "datatype"

UserElements(files) ==
  FlattenSeq([f \in DOMAIN files |-> IF f = 1 THEN <<>> ELSE [e \in DOMAIN files[f].elements |-> <<f, e>>]])

LastMeaning(files, last, name) == Meaning(KindInModel[ElementAt(files, last).kind], files[last[1]].namespace, name)

\* An element is looked up by the key of its file and its name; the first of
\* them stands for all, and means what the last is.  What the resolver left
\* open is a placeholder.
Homonyms(files, id) ==
  {b \in Ids(files) : files[b[1]].key = files[id[1]].key /\ ElementAt(files, b).name = ElementAt(files, id).name}

MapType(files, f, ref) ==
  LET Means(id, meant) ==
        CASE id \in DOMAIN BuiltinTargets -> BuiltinTargets[id]
          [] id # NoName /\ id[1] > 1 /\ id = FirstId(Homonyms(files, id)) /\ meant # {} ->
               LastMeaning(files, LastId(meant), ref.local)
          [] OTHER -> Meaning("class", files[f].namespace, ref.local)
      Target(id) ==
        Means(id, IF id = NoName THEN {} ELSE {b \in Homonyms(files, id) : ElementAt(files, b).kind \in DOMAIN KindInModel})
  IN  Target(Resolved(files, f, ref))

-----------------------------------------------------------------------------
(* Packages.                                                               *)

LowerData(files, f, e) ==
  [name |-> e.name,
   extends |-> IF e.super = NoName THEN <<>> ELSE <<MapType(files, f, e.super)>>,
   features |-> [k \in DOMAIN e.attributes |->
                  [name |-> e.attributes[k].name, type |-> MapType(files, f, e.attributes[k].type),
                   multiplicity |-> e.attributes[k].multiplicity]]]

\* Values are numbered as they stand.
LowerValues(e) == [name |-> e.name, literals |-> [k \in DOMAIN e.values |-> [name |-> e.values[k], value |-> k - 1]]]

\* An alias of a primitive wraps it; any other is opaque.
LowerAlias(files, f, e) ==
  LET target == IF e.kind = "alias" THEN MapType(files, f, e.type) ELSE Meaning("datatype", NoName, NoName)
  IN  [name |-> e.name, platform |-> IF target.kind = "primitive" THEN target.name ELSE NoName]

\* A parameter that is given exactly once has no multiplicity.
Once == [lower |-> 1, upper |-> 1, open |-> FALSE]
LowerFunction(files, f, e) ==
  [name |-> e.name, type |-> MapType(files, f, e.output),
   parameters |-> [k \in DOMAIN e.parameters |->
     [name |-> e.parameters[k].name, type |-> MapType(files, f, e.parameters[k].type),
      multiplicity |-> IF e.parameters[k].multiplicity = Once THEN NoName ELSE e.parameters[k].multiplicity]]]

\* The namespaces in the order their first files were selected.
NamespacesOf(files) ==
  FoldLeft(LAMBDA acc, k : IF k = 1 \/ files[k].namespace \in Range(acc) THEN acc ELSE Append(acc, files[k].namespace),
           <<>>, [k \in DOMAIN files |-> k])

\* A namespace's files are one package; a function without an output is
\* skipped, with a warning.
NamespaceContent(files, namespace) ==
  LET mine == SelectSeq(UserElements(files), LAMBDA id : files[id[1]].namespace = namespace)
      Of(kinds, Lower(_, _)) ==
        LET chosen == SelectSeq(mine, LAMBDA id : ElementAt(files, id).kind \in kinds)
        IN  [k \in DOMAIN chosen |-> Lower(chosen[k][1], ElementAt(files, chosen[k]))]
      functions == SelectSeq(Of({"function", "library function"}, LAMBDA f, e : <<f, e>>), LAMBDA x : x[2].output # NoName)
  IN  [name |-> namespace,
       classes |-> Of({"data"}, LAMBDA f, e : LowerData(files, f, e)),
       interfaces |-> Of({"choice"}, LAMBDA f, e : [name |-> e.name]),
       enums |-> Of({"enum"}, LAMBDA f, e : LowerValues(e)),
       datatypes |-> Of({"alias", "record", "basic"}, LAMBDA f, e : LowerAlias(files, f, e)),
       functions |-> [k \in DOMAIN functions |-> LowerFunction(files, functions[k][1], functions[k][2])]]

\* What declarations of .mox files may refer to; functions are no types.
SigilNamespace(files, namespace) ==
  LET mine == {id \in Ids(files) : /\ id[1] > 1 /\ files[id[1]].namespace = namespace
                                  /\ ElementAt(files, id).kind \in DOMAIN KindInModel}
      Latest(name) == LastId({id \in mine : ElementAt(files, id).name = name})
  IN  [name |-> namespace, classes |-> NoEntries, enums |-> NoEntries,
       others |-> [n \in {ElementAt(files, id).name : id \in mine} |-> KindInModel[ElementAt(files, Latest(n)).kind]]]

ReferredTypes(package) ==
  (UNION {Range(r.extends) \cup {f.type : f \in Range(r.features)} : r \in Range(package.classes)})
    \cup UNION {{o.type} \cup {p.type : p \in Range(o.parameters)} : o \in Range(package.functions)}

\* The built-in definitions that packages mention, if any.
BuiltinPackage(packages) ==
  LET referenced == {t.name : t \in {u \in UNION {ReferredTypes(p) : p \in Range(packages)} : u.pkg = BuiltinNamespace}}
      Of(kinds) == SelectSeq(Builtins, LAMBDA e : e.kind \in kinds /\ e.name \in referenced)
      opaque == Of({"basic", "record", "alias"})
  IN  IF referenced = {} THEN <<>>
      ELSE <<[name |-> BuiltinNamespace, classes |-> <<>>, interfaces |-> <<>>, functions |-> <<>>,
              enums |-> [k \in DOMAIN Of({"enum"}) |-> LowerValues(Of({"enum"})[k])],
              datatypes |-> [k \in DOMAIN opaque |-> [name |-> opaque[k].name,
                platform |-> IF opaque[k].kind = "alias" THEN BuiltinPrimitives[opaque[k].type.local] ELSE NoName]]]>>

-----------------------------------------------------------------------------
(* The outcome: the packages and the file whose model carries them, the     *)
(* namespaces to resolve against, the errors of declaring files, whether   *)
(* Rune content has an error, and what the files depend on.                *)

\* What becomes of the namespaces of the selected files, some of which failed.
Namespaces(files, failed, declared) ==
  LET lowering == SelectSeq(NamespacesOf(files), LAMBDA n : n # BuiltinNamespace /\ n \notin failed)
      Whole(packages) ==
        LET builtin == BuiltinPackage(packages)
        IN  [packages |-> packages \o builtin,
             clashing |-> (Range(NamespacesOf(files)) \cup {p.name : p \in Range(builtin)}) \cap declared # {}]
  IN  [namespaces |-> [k \in DOMAIN lowering |-> SigilNamespace(files, lowering[k])]]
        @@ Whole([k \in DOMAIN lowering |-> NamespaceContent(files, lowering[k])])

\* The files the declarations name, their places among the candidates and those
\* that are selected with them.
Imported(c, pool, named, at, selected, files) ==
  LET given == {k \in DOMAIN named : at[k] # 0}
      unparsed == {k \in given : pool[at[k]].rune = NoName}
      reported == ResolverErrors(files)
      broken == {j \in Range(selected) : pool[j].errors}
      failed == {pool[i].rune.namespace : i \in broken \cup {j \in Range(selected) : pool[j].key \in reported}}
      Outcome(lowered) ==
        [packages |-> lowered.packages,
         owner |-> IF named = <<>> THEN 0 ELSE named[1].mox,
         namespaces |-> lowered.namespaces,
         errors |-> {<<named[k].mox, "sigil import">> : k \in DOMAIN named \ given}
                      \cup (IF lowered.clashing THEN {<<named[1].mox, "namespace collision">>} ELSE {}),
         content |-> unparsed # {} \/ reported # {} \/ broken # {},
         failed |-> failed,
         failedImports |-> {named[k].mox : k \in unparsed},
         dependencies |-> {<<named[k].mox, pool[at[k]].rune.namespace>> : k \in given \ unparsed}]
  IN  Outcome(Namespaces(files, failed, {c.files[i].package : i \in {j \in DOMAIN c.files : LowersAt(c, j)}}))

ImportOutcome(c) ==
  LET Located(pool, named) ==
        LET at == [k \in DOMAIN named |-> PositionOf(pool, named[k])]
            Chosen(selected) == Imported(c, pool, named, at, selected, Loaded(pool, selected))
        IN  Chosen(Selection(pool, SelectSeq(at, LAMBDA i : i # 0)))
  IN  Located(Candidates(c), NamedFiles(c))

\* A file cannot do without the namespaces it imports; others may fail.
Blocks(outcome, i) ==
  i \in outcome.failedImports \/ \E d \in outcome.dependencies : d[1] = i /\ d[2] \in outcome.failed
=============================================================================
