----------------------------- MODULE ModuleTable -----------------------------
(***************************************************************************)
(* Resolution of `use "Module"` statements in a compilation of .ifml files *)
(* (resolve_module_uses and validate_use of rex-ifml/src/resolve.rs), over *)
(* the index that the import resolution of ImportWalk has filled.          *)
(*                                                                         *)
(* The declarations of the index are visited file by file, the main file   *)
(* (file 0) first; the table of names they leave decides every use.  A     *)
(* declaration is a record of its name, the inputs it requires (no         *)
(* default) and the names a use may override.                              *)
(***************************************************************************)
EXTENDS ImportWalk

CONSTANTS
    Names,        \* module names
    InputNames,   \* input and property names
    Programs(_)   \* what the files of a workspace declare and use: the programs
                  \* considered, each Paths -> [decls, uses]

Decl == [name : Names, required : SUBSET InputNames, accepted : SUBSET InputNames]
UseSite == [target : Names, overrides : SUBSET InputNames]

ASSUME ModuleAssumption ==
    \A project \in Projects : \A p \in Programs(project) :
        /\ p \in [Paths -> [decls : Seq(Decl), uses : Seq(UseSite)]]
        /\ \A path \in Paths : \A i \in 1..Len(p[path].decls) :
              p[path].decls[i].required \subseteq p[path].decls[i].accepted

VARIABLES
    program,      \* what the files declare and use, fixed for the run
    decls, uses,  \* the index: declarations and uses, by file
    file, next,   \* the declaration visited: the next-th of the file
    seen,         \* the names declared so far in the file
    table,        \* set of [name, file, position]
    local,        \* the names the main file declares
    ambiguous,    \* the names two imported files declare
    useFile, useIdx,  \* the use resolved next: the useIdx-th of the file
    resolved,     \* the uses resolved so far: [use, file, position], use a <<file, idx>>
    useDiags      \* the diagnostics of this pass: [code, file, at, name]

indexVars == <<program, decls, uses>>
tableVars == <<file, next, seen, table, local, ambiguous>>
useVars == <<useFile, useIdx, resolved>>
moduleVars == <<indexVars, tableVars, useVars, useDiags>>
compilationVars == <<allVars, moduleVars>>

CInit ==
    /\ RInit
    /\ program \in Programs(disk)
    /\ decls = <<>> /\ uses = <<>>
    /\ file = 0 /\ next = 1
    /\ seen = {} /\ table = {} /\ local = {} /\ ambiguous = {}
    /\ useFile = 0 /\ useIdx = 1 /\ resolved = {}
    /\ useDiags = {}

\* Files are numbered in the order they joined the index, the main file is 0.
Files == 0..(Len(index) - 1)
PathOf(f) == index[f + 1][2]

\* A main file that does not parse has no table.
StartTable ==
    /\ stage = "done"
    /\ disk[Entry].parses
    /\ stage' = "table"
    /\ decls' = [f \in Files |-> program[PathOf(f)].decls]
    /\ uses' = [f \in Files |-> program[PathOf(f)].uses]
    /\ UNCHANGED <<input, walkVars, resolveVars, program, tableVars, useVars, useDiags>>

-----------------------------------------------------------------------------
(* The table. *)

InTable(name) == \E entry \in table : entry.name = name

\* The declaration at the cursor has this name.
Visiting(name) ==
    /\ stage = "table"
    /\ file \in Files
    /\ next \in 1..Len(decls[file])
    /\ name = decls[file][next].name

ReportUse(code, f, at, name) ==
    useDiags' = useDiags \cup {[code |-> code, file |-> f, at |-> at, name |-> name]}

Step(name) ==
    /\ seen' = seen \cup {name}
    /\ next' = next + 1
    /\ UNCHANGED <<allVars, indexVars, useVars, file>>

TableEntry(name) == [name |-> name, file |-> file, position |-> next]

\* Within a file the first declaration of a name wins.
Duplicate(name) ==
    /\ Visiting(name)
    /\ name \in seen
    /\ ReportUse("E_DUPLICATE_MODULE", file, next, name)
    /\ Step(name)
    /\ UNCHANGED <<table, local, ambiguous>>

DeclareLocal(name) ==
    /\ Visiting(name)
    /\ name \notin seen
    /\ file = 0
    /\ local' = local \cup {name}
    /\ table' = table \cup {TableEntry(name)}
    /\ Step(name)
    /\ UNCHANGED <<ambiguous, useDiags>>

\* The main file's module shadows an imported one silently; a name found
\* ambiguous stays so.
Shadowed(name) ==
    /\ Visiting(name)
    /\ name \notin seen
    /\ file # 0
    /\ name \in local \cup ambiguous
    /\ Step(name)
    /\ UNCHANGED <<table, local, ambiguous, useDiags>>

\* Mutant: the name becomes free again for a third file.
BecomeAmbiguousForgotten(name) ==
    /\ Visiting(name)
    /\ name \notin seen
    /\ file # 0
    /\ name \notin local \cup ambiguous
    /\ InTable(name)
    /\ ReportUse("E_AMBIGUOUS_MODULE", file, next, name)
    /\ table' = {entry \in table : entry.name # name}
    /\ Step(name)
    /\ UNCHANGED <<local, ambiguous>>

BecomeAmbiguous(name) ==
    /\ Visiting(name)
    /\ name \notin seen
    /\ file # 0
    /\ name \notin local \cup ambiguous
    /\ InTable(name)
    /\ ReportUse("E_AMBIGUOUS_MODULE", file, next, name)
    /\ table' = {entry \in table : entry.name # name}
    /\ ambiguous' = ambiguous \cup {name}
    /\ Step(name)
    /\ UNCHANGED local

Claim(name) ==
    /\ Visiting(name)
    /\ name \notin seen
    /\ file # 0
    /\ name \notin local \cup ambiguous
    /\ ~InTable(name)
    /\ table' = table \cup {TableEntry(name)}
    /\ Step(name)
    /\ UNCHANGED <<local, ambiguous, useDiags>>

NextFile ==
    /\ stage = "table"
    /\ file \in Files
    /\ next = Len(decls[file]) + 1
    /\ file' = file + 1
    /\ next' = 1
    /\ seen' = {}
    /\ UNCHANGED <<allVars, indexVars, useVars, table, local, ambiguous, useDiags>>

-----------------------------------------------------------------------------
(* The uses. *)

AtUse(use) ==
    /\ stage = "table"
    /\ file \notin Files
    /\ useFile \in Files
    /\ useIdx \in 1..Len(uses[useFile])
    /\ use = uses[useFile][useIdx]

NextUse ==
    /\ useIdx' = useIdx + 1
    /\ UNCHANGED <<allVars, indexVars, tableVars, useFile>>

\* An ambiguous target was reported where it was declared.
SkipAmbiguous(use) ==
    /\ AtUse(use)
    /\ use.target \in ambiguous
    /\ NextUse
    /\ UNCHANGED <<resolved, useDiags>>

\* Only the main file's uses are diagnosed.
Unknown(use) ==
    /\ AtUse(use)
    /\ use.target \notin ambiguous
    /\ ~InTable(use.target)
    /\ IF useFile = 0
       THEN ReportUse("E_UNKNOWN_MODULE", 0, useIdx, use.target)
       ELSE UNCHANGED useDiags
    /\ NextUse
    /\ UNCHANGED resolved

\* validate_use: overrides that name neither an input nor a property, and the
\* default-less inputs without an override.
UseErrors(use, decl) ==
    {[code |-> "E_UNKNOWN_INPUT", file |-> 0, at |-> useIdx, name |-> x] :
        x \in use.overrides \ decl.accepted}
    \cup
    {[code |-> "E_MISSING_INPUT", file |-> 0, at |-> useIdx, name |-> x] :
        x \in decl.required \ use.overrides}

Resolve(use) ==
    /\ AtUse(use)
    /\ use.target \notin ambiguous
    /\ \E entry \in table :
          /\ entry.name = use.target
          /\ resolved' = resolved \cup
                {[use |-> <<useFile, useIdx>>, file |-> entry.file, position |-> entry.position]}
          /\ useDiags' = useDiags \cup
                (IF useFile = 0
                 THEN UseErrors(use, decls[entry.file][entry.position]) ELSE {})
    /\ NextUse

NextUsesFile ==
    /\ stage = "table"
    /\ file \notin Files
    /\ useFile \in Files
    /\ useIdx = Len(uses[useFile]) + 1
    /\ useFile' = useFile + 1
    /\ useIdx' = 1
    /\ UNCHANGED <<allVars, indexVars, tableVars, resolved, useDiags>>

Compiled == stage = "table" /\ file \notin Files /\ useFile \notin Files

TableNext ==
    \/ \E name \in Names :
          \/ Duplicate(name) \/ DeclareLocal(name) \/ Shadowed(name)
          \/ BecomeAmbiguous(name) \/ Claim(name)
    \/ NextFile
    \/ \E use \in UseSite : SkipAmbiguous(use) \/ Unknown(use) \/ Resolve(use)
    \/ NextUsesFile

CNext ==
    \/ RNext /\ UNCHANGED moduleVars
    \/ StartTable
    \/ TableNext
    \/ Compiled /\ UNCHANGED compilationVars

CSpec == CInit /\ [][CNext]_compilationVars

-----------------------------------------------------------------------------
(* Properties. *)

\* The .ifml files the entry reaches that can be read.
Imported == {p \in ReachedFrom({Entry}) \ {Entry} : disk[p].parses}

Declares(p, name) == \E i \in 1..Len(program[p].decls) : program[p].decls[i].name = name

\* The first declaration of the name in the file.
FirstIn(p, name) ==
    CHOOSE i \in 1..Len(program[p].decls) :
        /\ program[p].decls[i].name = name
        /\ \A j \in 1..i - 1 : program[p].decls[j].name # name

Declarers(name) == {p \in Imported : Declares(p, name)}

\* What the documentation promises a name means: the main file's declaration,
\* or else the one imported file that declares it.
Meaning(name) ==
    IF Declares(Entry, name) THEN {<<Entry, FirstIn(Entry, name)>>}
    ELSE LET declarers == Declarers(name)
         IN  {<<p, FirstIn(p, name)>> : p \in {q \in declarers : declarers = {q}}}

\* Every use, in whatever file, resolves to what its name means by the
\* documented rule over the files that the main file reaches on the disk: the
\* main file shadows, a single importer's declaration wins, two importers cancel
\* each other out, however many files declare the name and in what order the
\* walk came to them.  And a use of the main file is told off for exactly the
\* inputs that this declaration lacks or still wants.
UsesMeanDeclared ==
    Compiled => \A f \in Files : \A i \in 1..Len(uses[f]) :
        LET meaning == Meaning(uses[f][i].target)
            Told(code) == {d.name : d \in {e \in useDiags : e.at = i /\ e.code = code}}
        IN  /\ {<<PathOf(r.file), r.position>> : r \in {r \in resolved : r.use = <<f, i>>}} = meaning
            /\ f = 0 => \A m \in meaning :
                 LET decl == program[m[1]].decls[m[2]]
                 IN  /\ Told("E_MISSING_INPUT") = decl.required \ uses[f][i].overrides
                     /\ Told("E_UNKNOWN_INPUT") = uses[f][i].overrides \ decl.accepted
=============================================================================
