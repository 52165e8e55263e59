----------------------------- MODULE VocabFetch -----------------------------
(***************************************************************************)
(* `rexlang vocab fetch` (rex-cli/src/commands/vocab.rs) against the       *)
(* hermetic reading of what it vendors (lower_vocabulary of rex-driver).   *)
(*                                                                         *)
(* A model directory holds the models, their vendored snapshots under      *)
(* vocab/ and one model.lock.  A fetch writes the snapshots one by one and *)
(* the lock once, at the end, each with a plain fs::write: it may fail or  *)
(* be killed between any two writes, or within one.                        *)
(***************************************************************************)
EXTENDS Naturals, Sequences, FiniteSets

CONSTANTS
    Sources,     \* vocabulary sources, e.g. "iso:4217"
    Versions,    \* snapshot versions
    Sanitize,    \* Sources -> the file stem of the source
    ModelTexts,  \* the declaration lists a model of the directory may have
    Models,      \* the model files of the directory
    Editions,    \* what the authority may publish for a source and version
    Providers,   \* the providers used: "dir", vocab/ itself, or "http"
    Nothing,     \* no file, no version, no pin
    Torn,        \* a file whose writer was killed half-way
    MaxChanges   \* bound on the changes the world makes

Stems == {Sanitize[s] : s \in Sources}

Declaration == [source : Sources, version : Versions \cup {Nothing}]

\* A snapshot says what it is for; `valid` is what validate_entries makes of
\* its entries.  Its digest is represented by the snapshot itself.
Snapshot == [source : Sources, version : Versions, edition : Editions, valid : BOOLEAN]
Bytes == Snapshot \cup {Torn}
Pin == [version : Versions, digest : Bytes]
Pins == [Sources -> Pin \cup {Nothing}]

ASSUME VocabAssumption ==
    /\ DOMAIN Sanitize = Sources
    /\ ModelTexts \subseteq Seq(Declaration)
    /\ Nothing \notin Versions \cup Pin \cup Pins \cup Bytes /\ Torn \notin Snapshot \cup Pins
    /\ Providers \subseteq {"dir", "http"}
    /\ MaxChanges \in Nat

VARIABLES
    text,        \* Models -> the declarations of the model
    files,       \* [stem, version] -> the bytes of the snapshot file
    lock,        \* model.lock: Pins, Nothing or Torn
    authority,   \* what the http provider serves per source and version
    changes,     \* how often authority or vendored files were changed
    disturbed,   \* a vendored file was changed while the fetch ran
    phase,       \* "idle", "fetching", "done" or "failed"
    provider,    \* where it is fetched from
    model,       \* the model being fetched, or fetched last
    at,          \* the declaration fetched next
    pins         \* the lockfile in the process's memory

fetchVars == <<phase, provider, model, at, pins>>
worldVars == <<authority, changes, disturbed>>
diskVars == <<text, files, lock>>
vars == <<text, files, lock, authority, changes, disturbed,
          phase, provider, model, at, pins>>

\* No two sources share a file stem, and no model asks for two versions of one
\* source: what a model has to keep to for its fetch to come out right.
DistinctStems == \A s, t \in Sources : Sanitize[s] = Sanitize[t] => s = t
OneVersion(declarations) ==
    \A i, j \in 1..Len(declarations) :
        declarations[i].source = declarations[j].source =>
            \/ Nothing \in {declarations[i].version, declarations[j].version}
            \/ declarations[i].version = declarations[j].version

FileKeys == [stem : Stems, version : Versions]
FileOf(source, version) == [stem |-> Sanitize[source], version |-> version]

NoPins == [s \in Sources |-> Nothing]

-----------------------------------------------------------------------------
(* What a compilation makes of a declaration, from the disk alone. *)

\* An unreadable lock is an error of its own and pins nothing.
Locked == IF lock \in {Nothing, Torn} THEN NoPins ELSE lock

\* glob_snapshot_version: the versions of the files with the source's stem.
Globbed(source) ==
    {v \in Versions : files[FileOf(source, v)] # Nothing}

AnyOf(versions) == CHOOSE v \in versions : TRUE

\* The declared version, else the pin, else the only vendored snapshot.
CompiledVersion(d) ==
    IF d.version # Nothing THEN d.version
    ELSE IF Locked[d.source] # Nothing THEN Locked[d.source].version
    ELSE IF Cardinality(Globbed(d.source)) = 1
         THEN AnyOf(Globbed(d.source))
         ELSE Nothing

\* parse_snapshot and validate_entries: complete bytes, for this source, with
\* entries that suit the declaration.
Validates(bytes, source) ==
    bytes \notin {Nothing, Torn} /\ bytes.source = source /\ bytes.valid

\* Mutant: the digest of the lock is not compared.
CompiledUnchecked(d) ==
    LET version == CompiledVersion(d)
        bytes == IF version = Nothing THEN Nothing ELSE files[FileOf(d.source, version)]
    IN  IF lock = Torn \/ ~Validates(bytes, d.source) THEN Nothing ELSE bytes

\* The snapshot a declaration compiles to, or Nothing when it is an error.
Compiled(d) ==
    LET version == CompiledVersion(d)
        bytes == IF version = Nothing THEN Nothing ELSE files[FileOf(d.source, version)]
        pin == Locked[d.source]
    IN  IF \/ lock = Torn
           \/ pin # Nothing /\ pin.version = version /\ pin.digest # bytes
           \/ ~Validates(bytes, d.source)
        THEN Nothing
        ELSE bytes

\* The compilation is not even warned about: the lock pins what it uses.
Quiet(d) ==
    /\ Compiled(d) # Nothing
    /\ Locked[d.source] # Nothing
    /\ Locked[d.source].version = CompiledVersion(d)

-----------------------------------------------------------------------------
Init ==
    /\ text \in [Models -> ModelTexts]
    /\ authority \in [Sources \X Versions -> {Nothing}]
    /\ files = [key \in FileKeys |-> Nothing]
    /\ lock = Nothing
    /\ changes = 0
    /\ disturbed = FALSE
    /\ phase = "idle"
    /\ provider \in Providers
    /\ model = CHOOSE m \in Models : TRUE
    /\ at = 1
    /\ pins = NoPins

Declarations == text[model]
Current == Declarations[at]

\* The process ends: what it had in memory is gone.
Ends(outcome) == phase' = outcome /\ at' = 1 /\ pins' = NoPins

AsSnapshot(source, version, edition, valid) ==
    [source |-> source, version |-> version, edition |-> edition, valid |-> valid]

Change == changes < MaxChanges /\ changes' = changes + 1

\* A completed fetch is only spoken of until the world moves on.
MoveOn == phase' = IF phase = "fetching" THEN phase ELSE "idle"

\* The authority publishes another edition of a source and version.
Publish(source, version, edition, valid) ==
    /\ "http" \in Providers
    /\ Change
    /\ authority' = [authority EXCEPT ![<<source, version>>] =
                        AsSnapshot(source, version, edition, valid)]
    /\ MoveOn
    /\ UNCHANGED <<diskVars, disturbed, provider, model, at, pins>>

\* Someone puts another file in the vendored directory, at any time.
Replace(source, version, edition, valid) ==
    /\ Change
    /\ files' = [files EXCEPT ![FileOf(source, version)] =
                    AsSnapshot(source, version, edition, valid)]
    /\ disturbed' = (disturbed \/ phase = "fetching")
    /\ MoveOn
    /\ UNCHANGED <<text, lock, authority, provider, model, at, pins>>

\* The author rewrites a model while no fetch runs.
EditModel(m, declarations) ==
    /\ phase # "fetching"
    /\ declarations # text[m]
    /\ text' = [text EXCEPT ![m] = declarations]
    /\ phase' = "idle"
    /\ UNCHANGED <<files, lock, worldVars, provider, model, at, pins>>

\* An unreadable model.lock stops the fetch: the author has to delete it.
DeleteLock ==
    /\ phase # "fetching"
    /\ lock = Torn
    /\ lock' = Nothing
    /\ phase' = "idle"
    /\ UNCHANGED <<text, files, worldVars, provider, model, at, pins>>

\* Nothing is fetched for a model without vocabularies.
StartFetch(m, from) ==
    /\ phase # "fetching"
    /\ text[m] # <<>>
    /\ model' = m
    /\ provider' = from
    /\ disturbed' = FALSE
    /\ at' = 1
    /\ pins' = Locked
    /\ phase' = IF lock = Torn THEN "failed" ELSE "fetching"
    /\ UNCHANGED <<diskVars, authority, changes>>

\* The declared version, else the version of the in-memory pin.
FetchedVersion(d) ==
    IF d.version # Nothing THEN d.version
    ELSE IF pins[d.source] # Nothing THEN pins[d.source].version ELSE Nothing

Provided(source, version) ==
    IF provider = "dir" THEN files[FileOf(source, version)]
    ELSE authority[<<source, version>>]

\* The snapshot the provider has for the current declaration, Nothing when
\* there is none.
Fetched ==
    LET version == FetchedVersion(Current)
    IN  IF version = Nothing THEN Nothing ELSE Provided(Current.source, version)

InProgress == phase = "fetching" /\ at \in 1..Len(Declarations)

\* No version, no snapshot, or one that does not validate: the command stops,
\* with the snapshots written so far on disk and the lock as it was.
FetchFails ==
    /\ InProgress
    /\ ~Validates(Fetched, Current.source)
    /\ Ends("failed")
    /\ UNCHANGED <<diskVars, worldVars, provider, model>>

\* Mutant: a source pinned before keeps its pin.
VendorKeepsPin ==
    /\ InProgress
    /\ Validates(Fetched, Current.source)
    /\ LET version == FetchedVersion(Current)
       IN  /\ files' = [files EXCEPT ![FileOf(Current.source, version)] = Fetched]
           /\ pins' = IF pins[Current.source] # Nothing THEN pins
                      ELSE [pins EXCEPT ![Current.source] =
                                [version |-> version, digest |-> Fetched]]
    /\ at' = at + 1
    /\ UNCHANGED <<text, lock, worldVars, phase, provider, model>>

\* The snapshot is vendored and pinned in memory.
Vendor ==
    /\ InProgress
    /\ Validates(Fetched, Current.source)
    /\ LET version == FetchedVersion(Current)
       IN  /\ files' = [files EXCEPT ![FileOf(Current.source, version)] = Fetched]
           /\ pins' = [pins EXCEPT ![Current.source] =
                          [version |-> version, digest |-> Fetched]]
    /\ at' = at + 1
    /\ UNCHANGED <<text, lock, worldVars, phase, provider, model>>

\* The process is killed within the write of a snapshot.
CrashInVendor ==
    /\ InProgress
    /\ Validates(Fetched, Current.source)
    /\ files' = [files EXCEPT ![FileOf(Current.source, FetchedVersion(Current))] = Torn]
    /\ Ends("failed")
    /\ UNCHANGED <<text, lock, worldVars, provider, model>>

AllVendored == phase = "fetching" /\ at = Len(Declarations) + 1

WriteLock ==
    /\ AllVendored
    /\ lock' = pins
    /\ Ends("done")
    /\ UNCHANGED <<text, files, worldVars, provider, model>>

CrashInWriteLock ==
    /\ AllVendored
    /\ lock' = Torn
    /\ Ends("failed")
    /\ UNCHANGED <<text, files, worldVars, provider, model>>

\* The process is killed between two writes.
Crash ==
    /\ phase = "fetching"
    /\ Ends("failed")
    /\ UNCHANGED <<diskVars, worldVars, provider, model>>

Next ==
    \/ \E s \in Sources, v \in Versions, e \in Editions, valid \in BOOLEAN :
          Publish(s, v, e, valid) \/ Replace(s, v, e, valid)
    \/ \E m \in Models, from \in Providers : StartFetch(m, from)
    \/ \E m \in Models, ds \in ModelTexts : EditModel(m, ds)
    \/ DeleteLock
    \/ FetchFails \/ Vendor \/ CrashInVendor
    \/ WriteLock \/ CrashInWriteLock \/ Crash

Spec == Init /\ [][Next]_vars

-----------------------------------------------------------------------------
(* Properties. *)

\* A completed fetch leaves its model in order: every declaration compiles to
\* a snapshot that the lock pins, with neither an error nor a warning, whatever
\* failed or crashed before it, unless somebody changed vocab/ behind it
\* (fetch, lower_vocabulary).  Sources with one file stem, or two versions of one
\* source in a model, are out of it: DistinctStems and OneVersion.
CleanAfterFetch ==
    phase = "done" /\ ~disturbed =>
        \A i \in 1..Len(Declarations) : Quiet(Declarations[i])

\* Builds are hermetic: the snapshot a declaration quietly compiles to changes
\* only in the step that writes the lock.  A fetch that is under way, failed or
\* killed, and a file replaced behind the lock's back, may break a build, but
\* never lets it go on with other data.
ReproducibleBuilds ==
    [][\A d \in Declaration :
          (Quiet(d) /\ Quiet(d)' /\ Compiled(d)' # Compiled(d)) => WriteLock]_vars

\* Fetching one model of a directory keeps the pins of the sources it does not
\* declare: the other models go on compiling to the snapshots they had.
OtherPinsKept ==
    [][\A s \in Sources :
          (/\ WriteLock
           /\ lock \in Pins
           /\ \A i \in 1..Len(Declarations) : Declarations[i].source # s)
          => lock'[s] = lock[s]]_vars
=============================================================================
