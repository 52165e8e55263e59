------------------------------ MODULE NameScope ------------------------------
(***************************************************************************)
(* The namespace every artifact surface (.ddd, .evt, .uc, .cmmn, .deploy)   *)
(* resolves its references against: the imported domain models, looked up  *)
(* and lowered once, and the walk from an authored type reference to the   *)
(* declaration it names (rex-driver lib.rs, lower/mod.rs,                  *)
(* lower/resolve.rs, pipeline.rs).                                         *)
(*                                                                         *)
(* A lowered package is a record [name, classes, enums, others]: functions *)
(* from the declared names to what the surfaces ask of them.  A reference  *)
(* is a record [pkg, local], pkg = NoName when it is not qualified.        *)
(***************************************************************************)
EXTENDS Naturals, FiniteSets, Sequences, SequencesExt, TLC

CONSTANTS
  NoName,        \* the absent name, path or reference
  Primitives,    \* the names of the built-in types
  U32            \* 2^32: one more than the largest number of an artifact

ASSUME U32Assumption == U32 \in Nat \ {0, 1}

\* The first element of a sequence that passes, or the default.
FirstOf(s, Test(_), default) ==
  LET hits == {i \in DOMAIN s : Test(s[i])}
  IN  IF hits = {} THEN default
      ELSE s[CHOOSE i \in hits : \A j \in hits : i <= j]

When(condition, element) == IF condition THEN {element} ELSE {}

\* The elements of a sequence of names that repeat an earlier one.
Repeated(s) == {s[i] : i \in {k \in DOMAIN s : \E j \in 1..(k - 1) : s[j] = s[k]}}

\* The places of those that do not, and what stands at some places of a list.
Firsts(keys) == {i \in DOMAIN keys : \A j \in 1..(i - 1) : keys[j] # keys[i]}

Picked(s, places) ==
  [n \in 1..Cardinality(places) |-> s[CHOOSE i \in places : Cardinality({j \in places : j <= i}) = n]]

NameList(declared) == [i \in DOMAIN declared |-> declared[i].name]

\* A registry keeps the first entry of a name.
Register(registry, name, entry) ==
  IF name \in DOMAIN registry THEN registry ELSE registry @@ (name :> entry)

NoEntries == [n \in {} |-> {}]

\* What the parser builds: a list, and a node with the fields of its type.
IsList(s) == s \in Seq(Range(s))
HasFields(node, names) == DOMAIN node = names
TypeReference(ref) == HasFields(ref, {"pkg", "local"})

(* What the compilation of a model hands over.  A reference inside it is    *)
(* resolved; a surface that does not ask for a feature's type has none.     *)

IrTypeRef(type) == HasFields(type, {"kind", "pkg", "name"})

IrFeature(feature) ==
  /\ {"name", "kind"} \subseteq DOMAIN feature
  /\ "type" \in DOMAIN feature => IrTypeRef(feature.type)

IrClassDef(class) ==
  /\ {"features", "extends"} \subseteq DOMAIN class
  /\ \A f \in class.features : IrFeature(f)
  /\ \A base \in class.extends : base = <<base[1], base[2]>>

\* An enum is the set of its literals.
IrEnumDef(enum) == enum # NoName

\* A name is declared once.
IrPackage(package) ==
  /\ HasFields(package, {"name", "classes", "enums", "others"}) /\ NoName \notin {package, package.name}
  /\ DOMAIN package.classes \cap DOMAIN package.enums = {}
  /\ DOMAIN package.others \cap (DOMAIN package.classes \cup DOMAIN package.enums) = {}
  /\ \A c \in DOMAIN package.classes : IrClassDef(package.classes[c])
  /\ \A e \in DOMAIN package.enums : IrEnumDef(package.enums[e])
  /\ \A o \in DOMAIN package.others : package.others[o] \in {"interface", "datatype", "vocabulary", "actors"}

IrModel(model) == IsList(model) /\ \A p \in Range(model) : IrPackage(p)

\* A file with errors may have lowered to nothing.
ProvidedModel(provided) ==
  /\ HasFields(provided, {"path", "normal", "model", "errors"})
  /\ provided.model # NoName => IrModel(provided.model)

-----------------------------------------------------------------------------
(* Imported domains.  An import carries its authored path and the path it  *)
(* has joined to the importing file's directory; a provided file its path, *)
(* that path normalised, its lowered packages (NoName when the file has    *)
(* errors) and whether its diagnostics hold an error.                      *)

ImportMatches(import, file) ==
  \/ file.path = import.path
  \/ file.normal = import.joined

\* Each import path is looked up once, in import order; imports of decision
\* models are not domains, and a file nobody imports is never lowered.
DomainUnits(imports, files) ==
  LET Fresh(i) == \A j \in 1..(i - 1) : imports[j].path # imports[i].path
      Found(i) == \E k \in DOMAIN files : ImportMatches(imports[i], files[k])
      taken == {i \in DOMAIN imports : ~imports[i].dmn /\ Fresh(i) /\ Found(i)}
      order == SetToSortSeq(taken, LAMBDA a, b : a < b)
  IN  [n \in DOMAIN order |->
        LET i == order[n]
            file == FirstOf(files, LAMBDA f : ImportMatches(imports[i], f), NoName)
        IN  [path |-> imports[i].path, model |-> file.model, errors |-> file.errors]]

AllLowered(units) == \A i \in DOMAIN units : units[i].model # NoName

\* The packages of the units that lowered, in import order.
Lowered(units) ==
  FoldLeft(LAMBDA acc, u : IF u.model = NoName THEN acc ELSE acc \o u.model, <<>>, units)

\* What a surface file starts with: its parse errors, the imports nobody
\* provided, and the errors of the imported domains.
EngineErrors(parseErrors, missing, units) ==
  When(parseErrors, "syntax")
    \cup When(missing, "import not provided")
    \cup When(\E i \in DOMAIN units : units[i].errors, "domain error")

-----------------------------------------------------------------------------
(* Resolution.                                                             *)

KindOf(package, name) ==
  CASE name \in DOMAIN package.classes -> "class"
    [] name \in DOMAIN package.enums -> "enum"
    [] name \in DOMAIN package.others -> package.others[name]
    [] OTHER -> NoName

Declares(package, name) == KindOf(package, name) # NoName

Unresolved == [kind |-> NoName, pkg |-> NoName, name |-> NoName]

\* An actors block declares a name that is no type.
Classified(package, name) ==
  IF KindOf(package, name) \in {NoName, "actors"} THEN Unresolved
  ELSE [kind |-> KindOf(package, name), pkg |-> package.name, name |-> name]

ResolveDomains(ref, packages) ==
  LET declaring == {i \in DOMAIN packages : Declares(packages[i], ref.local)}
      named == {i \in DOMAIN packages : packages[i].name = ref.pkg}
  IN  IF ref.pkg # NoName
      THEN IF named = {} THEN Unresolved
           ELSE Classified(FirstOf(packages, LAMBDA p : p.name = ref.pkg, NoName), ref.local)
      ELSE CASE Cardinality(declaring) = 1 ->
                  Classified(packages[CHOOSE i \in declaring : TRUE], ref.local)
             [] declaring = {} /\ ref.local \in Primitives ->
                  [kind |-> "primitive", pkg |-> NoName, name |-> ref.local]
             [] OTHER -> Unresolved

\* A bare name the base package declares is that declaration, even when
\* another imported package declares the name too.
ResolvePreferred(ref, packages, base) ==
  LET own == FirstOf(packages, LAMBDA p : p.name = base, NoName)
  IN  IF ref.pkg = NoName /\ base # NoName /\ own # NoName /\ Declares(own, ref.local)
      THEN Classified(own, ref.local)
      ELSE ResolveDomains(ref, packages)

Resolves(ref, packages, base) == ResolvePreferred(ref, packages, base) # Unresolved

\* The class a design, a search or an event entity names: <<package, name>>.
ResolveClass(ref, packages, base) ==
  LET found == ResolvePreferred(ref, packages, base)
  IN  IF found.kind = "class" THEN <<found.pkg, found.name>> ELSE NoName

-----------------------------------------------------------------------------
(* The union model, and the walks the surfaces take over it.               *)

ClassOf(union, key) ==
  LET owner == FirstOf(union, LAMBDA p : p.name = key[1], NoName)
  IN  IF owner = NoName THEN NoName
      ELSE IF key[2] \in DOMAIN owner.classes THEN owner.classes[key[2]] ELSE NoName

ClassKeys(union) ==
  UNION {{<<union[i].name, c>> : c \in DOMAIN union[i].classes} : i \in DOMAIN union}

\* What one step of an edge relation adds, taken as often as there are edges.
Successors(edges, from) == {e[2] : e \in {d \in edges : d[1] \in from}}

\* Mutant: whatever an edge leads to counts as reached.
ReachedByAny(edges, start) == {e[2] : e \in edges}

ReachedFrom(edges, start) ==
  LET near[n \in 0..Cardinality(edges)] ==
        IF n = 0 THEN Successors(edges, {start})
        ELSE near[n - 1] \cup Successors(edges, near[n - 1])
  IN  near[Cardinality(edges)]

Reaches(edges, from, to) == to \in ReachedFrom(edges, from)

ExtendsEdges(union) ==
  UNION {{<<k, b>> : b \in ClassOf(union, k).extends} : k \in ClassKeys(union)}

\* The features of a class and of its bases; NoName when one of them is not
\* in the union.
ClassFeatures(union, key) ==
  LET line == {key} \cup ReachedFrom(ExtendsEdges(union), key)
  IN  IF \E k \in line : ClassOf(union, k) = NoName THEN NoName
      ELSE UNION {ClassOf(union, k).features : k \in line}

EnumLiterals(union, type) ==
  LET owner == FirstOf(union, LAMBDA p : p.name = type.pkg, NoName)
  IN  IF type.kind = "enum" /\ owner # NoName /\ type.name \in DOMAIN owner.enums THEN owner.enums[type.name]
      ELSE NoName

ContainmentEdges(union) ==
  UNION {{<<k, <<f.type.pkg, f.type.name>>>> :
            f \in {g \in ClassOf(union, k).features :
                     g.kind = "containment" /\ g.type.kind = "class"}}
         : k \in ClassKeys(union)}

\* The one class without a container on the way up from a class.
AggregateRoot(edges, key) ==
  LET above == {key} \cup ReachedFrom({<<e[2], e[1]>> : e \in edges}, key)
      roots == {k \in above : \A e \in edges : e[2] # k}
  IN  IF Cardinality(roots) = 1 THEN CHOOSE r \in roots : TRUE ELSE NoName
=============================================================================
