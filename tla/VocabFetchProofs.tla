-------------------------- MODULE VocabFetchProofs --------------------------
(***************************************************************************)
(* Hermetic builds against vocab fetch, proved for every set of sources,   *)
(* versions, models and snapshots, and any number of crashes.              *)
(***************************************************************************)
EXTENDS VocabFetch, TLAPS

\* A quiet declaration compiles to the bytes whose digest the lock holds.
LEMMA QuietIsPinned ==
    ASSUME NEW d \in Declaration, Quiet(d)
    PROVE  /\ lock \notin {Nothing, Torn}
           /\ Compiled(d) = lock[d.source].digest
<1>1. d.source \in Sources
  BY DEF Declaration
<1>2. lock \notin {Nothing, Torn}
  BY <1>1 DEF Quiet, Locked, NoPins
<1>3. Compiled(d) = files[FileOf(d.source, CompiledVersion(d))]
  BY DEF Quiet, Compiled, Validates
<1>4. lock[d.source].digest = files[FileOf(d.source, CompiledVersion(d))]
  BY <1>2 DEF Quiet, Compiled, Locked
<1> QED
  BY <1>2, <1>3, <1>4

LEMMA QuietIsPinnedNext ==
    (\A d \in Declaration : Quiet(d) =>
        /\ lock \notin {Nothing, Torn}
        /\ Compiled(d) = lock[d.source].digest)'
<1>1. \A d \in Declaration : Quiet(d) =>
        /\ lock \notin {Nothing, Torn}
        /\ Compiled(d) = lock[d.source].digest
  BY QuietIsPinned
<1> QED
  BY <1>1, PTL

\* Only the last step of a fetch puts another lock in place of a lock.
LEMMA LockMoves ==
    [Next]_vars => WriteLock \/ lock' \in {lock, Nothing, Torn}
BY DEF Next, Publish, Replace, EditModel, DeleteLock, StartFetch, FetchFails, Vendor,
       CrashInVendor, CrashInWriteLock, Crash, diskVars, vars

\* The data a declaration quietly compiles to changes only when a fetch writes
\* the lock: never because a fetch is under way, failed or was killed, and never
\* because a vendored file was replaced.
THEOREM Hermetic == Spec => ReproducibleBuilds
<1>1. ASSUME [Next]_vars, NEW d \in Declaration, Quiet(d), Quiet(d)',
             Compiled(d)' # Compiled(d)
      PROVE  WriteLock
  <2>1. Compiled(d) = lock[d.source].digest
    BY <1>1, QuietIsPinned
  <2>2. lock' \notin {Nothing, Torn} /\ Compiled(d)' = lock'[d.source].digest
    BY <1>1, QuietIsPinnedNext
  <2>3. lock' # lock
    BY <1>1, <2>1, <2>2
  <2> QED
    BY <1>1, <2>2, <2>3, LockMoves
<1>2. [Next]_vars =>
        [\A d \in Declaration :
            (Quiet(d) /\ Quiet(d)' /\ Compiled(d)' # Compiled(d)) => WriteLock]_vars
  BY <1>1
<1> QED
  BY <1>2, PTL DEF Spec, ReproducibleBuilds

-----------------------------------------------------------------------------
\* What a fetch has in memory: the lock it read, but for the sources it has
\* vendored so far.
PinsFromLock ==
    phase = "fetching" =>
        /\ at \in Nat \ {0}
        /\ lock # Torn
        /\ \A s \in Sources :
              (\A i \in 1..(at - 1) : Declarations[i].source # s) => pins[s] = Locked[s]

LEMMA PinsFromLockStep == PinsFromLock /\ [Next]_vars => PinsFromLock'
<1> SUFFICES ASSUME PinsFromLock, [Next]_vars, phase' = "fetching"
             PROVE  /\ at' \in Nat \ {0}
                    /\ lock' # Torn
                    /\ \A s \in Sources :
                          (\A i \in 1..(at' - 1) : Declarations'[i].source # s)
                          => pins'[s] = Locked'[s]
  BY DEF PinsFromLock
<1> USE DEF PinsFromLock, Declarations, Locked
<1>1. ASSUME NEW s \in Sources, NEW v \in Versions, NEW e \in Editions,
             NEW valid \in BOOLEAN,
             Publish(s, v, e, valid) \/ Replace(s, v, e, valid)
      PROVE  PinsFromLock'
  BY <1>1 DEF Publish, Replace, MoveOn, diskVars
<1>2. ASSUME NEW m \in Models, NEW from \in Providers, StartFetch(m, from)
      PROVE  PinsFromLock'
  BY <1>2 DEF StartFetch, diskVars
<1>3. ASSUME Vendor
      PROVE  PinsFromLock'
  <2>1. at \in Nat \ {0} /\ at' = at + 1 /\ lock' = lock /\ lock # Torn
        /\ model' = model /\ text' = text
    BY <1>3 DEF Vendor, InProgress
  <2>2. ASSUME NEW s \in Sources, \A i \in 1..(at' - 1) : Declarations'[i].source # s
        PROVE  pins'[s] = Locked'[s]
    <3>1. \A i \in 1..at : Declarations[i].source # s
      BY <2>1, <2>2
    <3>2. Current.source # s
      BY <2>1, <3>1 DEF Current
    <3>3. pins'[s] = pins[s]
      BY <1>3, <3>2 DEF Vendor
    <3>4. pins[s] = Locked[s]
      BY <1>3, <2>1, <3>1 DEF Vendor, InProgress
    <3> QED
      BY <2>1, <3>3, <3>4
  <2> QED
    BY <2>1, <2>2
<1>4. CASE UNCHANGED vars
  BY <1>4 DEF vars
<1>5. ~(\/ \E m \in Models, ds \in ModelTexts : EditModel(m, ds)
        \/ DeleteLock \/ FetchFails \/ CrashInVendor
        \/ WriteLock \/ CrashInWriteLock \/ Crash)
  BY DEF EditModel, DeleteLock, FetchFails, CrashInVendor, WriteLock,
         CrashInWriteLock, Crash, Ends
<1> QED
  BY <1>1, <1>2, <1>3, <1>4, <1>5 DEF Next

LEMMA PinsFromLockAlways == Spec => []PinsFromLock
<1>1. Init => PinsFromLock
  BY DEF Init, PinsFromLock
<1> QED
  BY <1>1, PinsFromLockStep, PTL DEF Spec

\* Fetching one model never drops or moves the pin of a source that only other
\* models of the directory declare.
THEOREM PinsOfOthers == Spec => OtherPinsKept
<1>1. ASSUME PinsFromLock, WriteLock, lock \in Pins, NEW s \in Sources,
             \A i \in 1..Len(Declarations) : Declarations[i].source # s
      PROVE  lock'[s] = lock[s]
  <2>1. phase = "fetching" /\ at = Len(Declarations) + 1 /\ lock' = pins
    BY <1>1 DEF WriteLock, AllVendored
  <2>2. at \in Nat \ {0} /\ at - 1 = Len(Declarations)
    BY <1>1, <2>1 DEF PinsFromLock
  <2>3. pins[s] = Locked[s]
    BY <1>1, <2>1, <2>2 DEF PinsFromLock
  <2>4. Locked = lock
    BY <1>1, VocabAssumption DEF Locked
  <2> QED
    BY <2>1, <2>3, <2>4
<1>2. PinsFromLock /\ [Next]_vars =>
        [\A s \in Sources :
            (/\ WriteLock
             /\ lock \in Pins
             /\ \A i \in 1..Len(Declarations) : Declarations[i].source # s)
            => lock'[s] = lock[s]]_vars
  BY <1>1
<1> QED
  BY <1>2, PinsFromLockAlways, PTL DEF Spec, OtherPinsKept

-----------------------------------------------------------------------------
(* What a fetch that nobody disturbs has done so far.                        *)

VTyped ==
    /\ text \in [Models -> ModelTexts]
    /\ files \in [FileKeys -> Bytes \cup {Nothing}]
    /\ authority \in [Sources \X Versions -> Bytes \cup {Nothing}]
    /\ lock \in Pins \cup {Nothing, Torn}
    /\ pins \in Pins
    /\ model \in Models
    /\ at \in Nat \ {0}

\* The pin in memory is of what lies on the disk, and suits the declaration.
Settled(d) ==
    /\ pins[d.source] # Nothing
    /\ files[FileOf(d.source, pins[d.source].version)] = pins[d.source].digest
    /\ Validates(pins[d.source].digest, d.source)
    /\ d.version \in {Nothing, pins[d.source].version}

VendoredSoFar ==
    phase = "fetching" /\ ~disturbed =>
        \A i \in 1..Len(Declarations) : i < at => Settled(Declarations[i])

\* Kept apart so that it can be used of the next state as well.
CleanInv == VTyped /\ VendoredSoFar /\ CleanAfterFetch

LEMMA PinTyped ==
    ASSUME NEW s \in Sources, VTyped
    PROVE  pins[s] \in Pin \cup {Nothing} /\ Locked \in Pins
<1>1. pins \in [Sources -> Pin \cup {Nothing}]
  BY DEF VTyped, Pins
<1>2. NoPins \in Pins
  BY DEF NoPins, Pins
<1> QED
  BY <1>1, <1>2 DEF Locked, VTyped

LEMMA DeclarationTyped ==
    ASSUME VTyped, NEW i \in 1..Len(Declarations)
    PROVE  Declarations[i] \in Declaration /\ Declarations \in ModelTexts
<1>1. Declarations \in ModelTexts
  BY DEF VTyped, Declarations
<1>2. Declarations \in Seq(Declaration)
  BY <1>1, VocabAssumption
<1> QED
  BY <1>1, <1>2

LEMMA FetchedTyped ==
    ASSUME VTyped, InProgress, Validates(Fetched, Current.source)
    PROVE  /\ Current \in Declaration /\ FetchedVersion(Current) \in Versions
           /\ Fetched \in Bytes
           /\ FileOf(Current.source, FetchedVersion(Current)) \in FileKeys
<1>1. Current \in Declaration
  BY DeclarationTyped DEF InProgress, Current
<1>2. Current.source \in Sources /\ Current.version \in Versions \cup {Nothing}
  BY <1>1 DEF Declaration
<1>3. pins[Current.source] \in Pin \cup {Nothing}
  BY <1>2, PinTyped
<1>4. FetchedVersion(Current) \in Versions
  <2>1. FetchedVersion(Current) # Nothing
    BY DEF Fetched, Validates
  <2> QED
    BY <1>2, <1>3, <2>1 DEF FetchedVersion, Pin
<1>5. FileOf(Current.source, FetchedVersion(Current)) \in FileKeys
  BY <1>2, <1>4 DEF FileOf, FileKeys, Stems
<1>6. Fetched = Provided(Current.source, FetchedVersion(Current))
  BY <1>4, VocabAssumption DEF Fetched
<1>7. Fetched \in Bytes \cup {Nothing}
  BY <1>2, <1>4, <1>5, <1>6 DEF Provided, VTyped
<1> QED
  BY <1>1, <1>4, <1>5, <1>7 DEF Validates

LEMMA VTypedStep == VTyped /\ [Next]_vars => VTyped'
<1> SUFFICES ASSUME VTyped, [Next]_vars PROVE VTyped'
  OBVIOUS
<1>1. ASSUME NEW s \in Sources, NEW v \in Versions, NEW e \in Editions, NEW valid \in BOOLEAN,
             Publish(s, v, e, valid) \/ Replace(s, v, e, valid)
      PROVE  VTyped'
  <2>1. AsSnapshot(s, v, e, valid) \in Bytes /\ FileOf(s, v) \in FileKeys
    BY DEF AsSnapshot, Bytes, Snapshot, FileOf, FileKeys, Stems
  <2> QED
    BY <1>1, <2>1 DEF Publish, Replace, VTyped, diskVars
<1>2. ASSUME NEW m \in Models, NEW from \in Providers, StartFetch(m, from)
      PROVE  VTyped'
  <2>1. Locked \in Pins
    BY DEF Locked, NoPins, Pins, VTyped
  <2> QED
    BY <1>2, <2>1 DEF StartFetch, VTyped, diskVars
<1>3. ASSUME NEW m \in Models, NEW ds \in ModelTexts, EditModel(m, ds)
      PROVE  VTyped'
  BY <1>3 DEF EditModel, VTyped, worldVars
<1>4. CASE Vendor
  <2> DEFINE s == Current.source
             v == FetchedVersion(Current)
  <2>1. Current \in Declaration /\ v \in Versions /\ Fetched \in Bytes /\ FileOf(s, v) \in FileKeys
    BY <1>4, FetchedTyped DEF Vendor
  <2>2. s \in Sources /\ [version |-> v, digest |-> Fetched] \in Pin
    BY <2>1 DEF Declaration, Pin
  <2>3. /\ files' = [files EXCEPT ![FileOf(s, v)] = Fetched]
        /\ pins' = [pins EXCEPT ![s] = [version |-> v, digest |-> Fetched]]
        /\ at' = at + 1
        /\ UNCHANGED <<text, lock, authority, model>>
    BY <1>4 DEF Vendor, worldVars
  <2> HIDE DEF s, v
  <2>4. files' \in [FileKeys -> Bytes \cup {Nothing}]
    BY <2>1, <2>3 DEF VTyped
  <2>5. pins' \in Pins
    BY <2>2, <2>3 DEF VTyped, Pins
  <2> QED
    BY <2>3, <2>4, <2>5 DEF VTyped
<1>5. CASE CrashInVendor
  <2>1. FileOf(Current.source, FetchedVersion(Current)) \in FileKeys
    BY <1>5, FetchedTyped DEF CrashInVendor
  <2>2. Torn \in Bytes /\ NoPins \in Pins
    BY DEF Bytes, NoPins, Pins
  <2> QED
    BY <1>5, <2>1, <2>2 DEF CrashInVendor, Ends, VTyped, worldVars
<1>6. CASE DeleteLock \/ FetchFails \/ WriteLock \/ CrashInWriteLock \/ Crash
  <2>1. NoPins \in Pins
    BY DEF NoPins, Pins
  <2> QED
    BY <1>6, <2>1 DEF DeleteLock, FetchFails, WriteLock, CrashInWriteLock, Crash, Ends, VTyped,
                      worldVars, diskVars
<1>7. CASE UNCHANGED vars
  BY <1>7 DEF vars, VTyped
<1> QED
  BY <1>1, <1>2, <1>3, <1>4, <1>5, <1>6, <1>7 DEF Next

LEMMA VendorSettles ==
    ASSUME DistinctStems, \A ds \in ModelTexts : OneVersion(ds),
           VTyped, VendoredSoFar, Vendor, ~disturbed,
           NEW i \in 1..Len(Declarations), i < at + 1
    PROVE  Settled(Declarations[i])'
<1> DEFINE d == Declarations[i]
           s == Current.source
           v == FetchedVersion(Current)
<1>1. /\ InProgress /\ Validates(Fetched, s)
      /\ files' = [files EXCEPT ![FileOf(s, v)] = Fetched]
      /\ pins' = [pins EXCEPT ![s] = [version |-> v, digest |-> Fetched]]
      /\ UNCHANGED <<text, model>>
  BY DEF Vendor
<1>2. /\ Current \in Declaration /\ v \in Versions /\ Fetched \in Bytes /\ FileOf(s, v) \in FileKeys
      /\ s \in Sources
  BY <1>1, FetchedTyped DEF Declaration
<1>3. d \in Declaration /\ d.source \in Sources /\ OneVersion(Declarations)
  BY DeclarationTyped DEF Declaration
<1>4. at \in 1..Len(Declarations) /\ Current = Declarations[at]
  BY <1>1 DEF InProgress, Current
<1>5. pins'[s] = [version |-> v, digest |-> Fetched] /\ files'[FileOf(s, v)] = Fetched
  BY <1>1, <1>2 DEF VTyped, Pins
<1>6. i < at => Settled(d)
  BY <1>1 DEF VendoredSoFar, InProgress
<1>7. pins[s] \in Pin \cup {Nothing}
  BY <1>2, PinTyped
<1>8. pins'[s] # Nothing
  <2>1. [version |-> v, digest |-> Fetched] \in Pin
    BY <1>2 DEF Pin
  <2> QED
    BY <1>5, <2>1, VocabAssumption
<1>9. d' = d
  BY <1>1 DEF Declarations
<1>10. CASE d.source = s
  <2>1. d.version \in {Nothing, v}
    <3>1. CASE i = at
      BY <1>4, <3>1 DEF FetchedVersion
    <3>2. CASE i < at /\ Current.version = Nothing
      <4>1. pins[s] # Nothing /\ d.version \in {Nothing, pins[s].version}
        BY <1>6, <1>10, <3>2 DEF Settled
      <4> QED
        BY <3>2, <4>1 DEF FetchedVersion
    <3>3. CASE i < at /\ Current.version # Nothing
      <4>1. d.version \in {Nothing, Current.version}
        BY <1>3, <1>4, <1>10, <3>3 DEF OneVersion
      <4> QED
        BY <3>3, <4>1 DEF FetchedVersion
    <3> QED
      BY <1>4, <3>1, <3>2, <3>3
  <2> DEFINE p == pins'[s]
  <2>2. p.version = v /\ p.digest = Fetched /\ p # Nothing
    BY <1>5, <1>8
  <2>3. files'[FileOf(s, p.version)] = p.digest /\ Validates(p.digest, s) /\ d.version \in {Nothing, p.version}
    BY <1>1, <1>5, <2>1, <2>2
  <2> QED
    BY <1>9, <1>10, <2>2, <2>3 DEF Settled, FileOf, Validates
<1>11. CASE d.source # s
  <2>1. Settled(d)
    <3>1. i # at
      BY <1>4, <1>11
    <3> QED
      BY <1>4, <1>6, <3>1
  <2>2. pins'[d.source] = pins[d.source]
    BY <1>1, <1>2, <1>3, <1>11 DEF VTyped, Pins
  <2>3. pins[d.source] \in Pin
    BY <1>3, <2>1, PinTyped DEF Settled
  <2> DEFINE w == pins[d.source].version
  <2>4. w \in Versions
    BY <2>3 DEF Pin
  <2>5. FileOf(d.source, w) # FileOf(s, v)
    BY <1>2, <1>3, <1>11 DEF FileOf, DistinctStems
  <2>6. FileOf(d.source, w) \in FileKeys
    BY <1>3, <2>4 DEF FileOf, FileKeys, Stems
  <2>7. files'[FileOf(d.source, w)] = files[FileOf(d.source, w)]
    BY <1>1, <2>5, <2>6 DEF VTyped
  <2> QED
    BY <1>9, <2>1, <2>2, <2>7 DEF Settled, FileOf, Validates
<1> QED
  BY <1>10, <1>11

\* What is settled is quiet once its pin is in the lock.
LEMMA WriteLockQuiets ==
    ASSUME VTyped, WriteLock, NEW i \in 1..Len(Declarations), Settled(Declarations[i])
    PROVE  Quiet(Declarations[i])'
<1> DEFINE d == Declarations[i]
           p == pins[d.source]
<1>1. lock' = pins /\ UNCHANGED <<text, files, model>>
  BY DEF WriteLock
<1>2. d \in Declaration /\ d.source \in Sources
  BY DeclarationTyped DEF Declaration
<1>3. p \in Pin
  BY <1>2, PinTyped DEF Settled
<1>4. p # Nothing /\ p.version # Nothing /\ pins \notin {Nothing, Torn}
  BY <1>3, VocabAssumption DEF VTyped, Pin
<1>5. d' = d
  BY <1>1 DEF Declarations
<1>6. Locked' = pins
  BY <1>1, <1>4 DEF Locked
<1>7. CompiledVersion(d)' = p.version
  BY <1>4, <1>5, <1>6 DEF CompiledVersion, Settled
<1>8. files'[FileOf(d.source, p.version)] = p.digest /\ Validates(p.digest, d.source)
  BY <1>1 DEF Settled
<1>9. p.digest # Nothing
  BY <1>8 DEF Validates
<1>10. Compiled(d)' = p.digest
  BY <1>1, <1>4, <1>5, <1>6, <1>7, <1>8 DEF Compiled, FileOf, Validates
<1> QED
  BY <1>4, <1>5, <1>6, <1>7, <1>9, <1>10 DEF Quiet

LEMMA CleanStep ==
    ASSUME DistinctStems, \A ds \in ModelTexts : OneVersion(ds), CleanInv, [Next]_vars
    PROVE  VendoredSoFar' /\ CleanAfterFetch'
<1> USE DEF CleanInv
<1>1. ASSUME NEW s \in Sources, NEW v \in Versions, NEW e \in Editions, NEW valid \in BOOLEAN,
             Publish(s, v, e, valid)
      PROVE  VendoredSoFar' /\ CleanAfterFetch'
  BY <1>1 DEF Publish, MoveOn, diskVars, VendoredSoFar, Settled, Declarations, FileOf, Validates, CleanAfterFetch
<1>2. ASSUME NEW s \in Sources, NEW v \in Versions, NEW e \in Editions, NEW valid \in BOOLEAN,
             Replace(s, v, e, valid)
      PROVE  VendoredSoFar' /\ CleanAfterFetch'
  BY <1>2 DEF Replace, MoveOn, VendoredSoFar, CleanAfterFetch
<1>3. ASSUME NEW m \in Models, NEW from \in Providers, StartFetch(m, from)
      PROVE  VendoredSoFar' /\ CleanAfterFetch'
  BY <1>3 DEF StartFetch, VendoredSoFar, CleanAfterFetch
<1>4. CASE Vendor
  <2>1. /\ UNCHANGED <<text, model, phase, disturbed>> /\ phase = "fetching" /\ at' = at + 1
        /\ Declarations' = Declarations
    BY <1>4 DEF Vendor, InProgress, worldVars, Declarations
  <2>2. ~disturbed => \A i \in 1..Len(Declarations) : i < at + 1 => Settled(Declarations[i])'
    BY <1>4, VendorSettles
  <2> QED
    BY <2>1, <2>2 DEF VendoredSoFar, CleanAfterFetch
<1>5. CASE WriteLock
  <2>1. /\ UNCHANGED <<text, model, disturbed>> /\ phase' = "done" /\ phase = "fetching"
        /\ at = Len(Declarations) + 1 /\ Declarations' = Declarations
    BY <1>5 DEF WriteLock, AllVendored, Ends, worldVars, Declarations
  <2>2. ~disturbed => \A i \in 1..Len(Declarations) : Settled(Declarations[i])
    BY <2>1 DEF VendoredSoFar, VTyped
  <2>3. ~disturbed => \A i \in 1..Len(Declarations) : Quiet(Declarations[i])'
    BY <1>5, <2>2, WriteLockQuiets
  <2> QED
    BY <2>1, <2>3 DEF VendoredSoFar, CleanAfterFetch
<1>6. CASE DeleteLock \/ FetchFails \/ CrashInVendor \/ CrashInWriteLock \/ Crash
           \/ \E m \in Models, ds \in ModelTexts : EditModel(m, ds)
  BY <1>6 DEF DeleteLock, FetchFails, CrashInVendor, CrashInWriteLock, Crash, EditModel, Ends,
              VendoredSoFar, CleanAfterFetch
<1>7. CASE UNCHANGED vars
  <2>1. VendoredSoFar'
    BY <1>7 DEF vars, VendoredSoFar, Settled, Declarations, FileOf, Validates
  <2>2. CleanAfterFetch'
    <3>1. Locked' = Locked /\ (\A s : Globbed(s)' = Globbed(s)) /\ Declarations' = Declarations
      BY <1>7 DEF vars, Locked, Globbed, Declarations, FileOf
    <3>2. \A d : CompiledVersion(d)' = CompiledVersion(d)
      BY <3>1 DEF CompiledVersion
    <3>3. \A d : Compiled(d)' = Compiled(d)
      BY <1>7, <3>1, <3>2 DEF vars, Compiled, FileOf, Validates
    <3>4. \A d : Quiet(d)' = Quiet(d)
      BY <3>1, <3>2, <3>3 DEF Quiet
    <3> QED
      BY <1>7, <3>1, <3>4 DEF vars, CleanAfterFetch
  <2> QED
    BY <2>1, <2>2
<1> QED
  BY <1>1, <1>2, <1>3, <1>4, <1>5, <1>6, <1>7 DEF Next

\* CleanAfterFetch for every directory (fetch, lower_vocabulary): whatever was
\* fetched, torn or replaced before, a fetch that runs to its end undisturbed
\* leaves nothing to report about its model's vocabularies.
THEOREM FetchLeavesClean ==
    ASSUME DistinctStems, \A ds \in ModelTexts : OneVersion(ds), Models # {}
    PROVE  Spec => []CleanAfterFetch
<1>1. Init => CleanInv
  BY DEF Init, CleanInv, VTyped, VendoredSoFar, CleanAfterFetch, NoPins, Pins
<1>2. CleanInv /\ [Next]_vars => CleanInv'
  BY VTypedStep, CleanStep DEF CleanInv
<1>3. CleanInv => CleanAfterFetch
  BY DEF CleanInv
<1> QED
  BY <1>1, <1>2, <1>3, PTL DEF Spec
=============================================================================
