------------------------- MODULE ContractReleaseProofs -------------------------
(***************************************************************************)
(* Proofs about ContractRelease, for any releases, files, outputs and any  *)
(* number of crashes, refused commands and edits.                          *)
(***************************************************************************)
EXTENDS ContractRelease, FiniteSetTheorems, TLAPS

(* What a release's lock says of its files.                                *)

ApiPositions(m) == {i \in DOMAIN m.entries : m.entries[i].path \in ApiPaths}

LEMMA EntriesAreTyped ==
  ASSUME NEW c \in Checkouts
  PROVE  /\ c.manifest.entries \in Seq([path: Paths, sha: Contents, role: STRING])
         /\ DOMAIN c.manifest.entries = 1..Len(c.manifest.entries)
         /\ Len(c.manifest.entries) \in Nat
         /\ \A i \in DOMAIN c.manifest.entries :
              /\ c.manifest.entries[i].path \in Paths
              /\ c.manifest.entries[i].sha \in Contents
<1> DEFINE Entries == [path: Paths, sha: Contents, role: STRING]
<1>1. c.manifest.entries \in Seq(Entries)
  BY CheckoutsAssumption
<1>2. \A S : \A t \in Seq(S) :
         DOMAIN t = 1..Len(t) /\ Len(t) \in Nat /\ \A i \in DOMAIN t : t[i] \in S
  OBVIOUS
<1>3. \A i \in DOMAIN c.manifest.entries : c.manifest.entries[i] \in Entries
  BY <1>1, <1>2
<1>4. QED
  BY <1>1, <1>2, <1>3

\* When no path is listed twice there are as many paths as entries.
LEMMA SoundCount ==
  ASSUME NEW c \in Checkouts, Sound(c.manifest)
  PROVE  Cardinality(PathsOf(EntriesOf(c.manifest))) = LockOf(c).count
<1> DEFINE m == c.manifest
           S == ApiPositions(m)
           T == PathsOf(EntriesOf(m))
           f == [i \in S |-> m.entries[i].path]
<1>1. IsFiniteSet(S)
  <2>1. IsFiniteSet(1..Len(m.entries))
    BY EntriesAreTyped, FS_Interval
  <2>2. S \in SUBSET (1..Len(m.entries))
    BY EntriesAreTyped DEF ApiPositions
  <2>3. QED
    BY <2>1, <2>2, FS_Subset
<1>2. f \in [S -> T]
  BY DEF PathsOf, EntriesOf, ApiPositions
<1>3. \A i, j \in S : f[i] = f[j] => i = j
  BY DEF Sound, ApiPositions
<1>4. \A t \in T : \E i \in S : f[i] = t
  BY DEF PathsOf, EntriesOf, ApiPositions
<1>5. f \in Bijection(S, T)
  BY <1>2, <1>3, <1>4 DEF Bijection, Injection, Surjection, IsInjective
<1>6. Cardinality(T) = Cardinality(S)
  BY <1>1, <1>5, FS_Bijection DEF ExistsBijection
<1>7. QED
  BY <1>6 DEF LockOf, ApiPositions

\* The last entry for a path that is listed once is the one there is.
LEMMA SoundLast ==
  ASSUME NEW c \in Checkouts, Sound(c.manifest), NEW e \in EntriesOf(c.manifest)
  PROVE  LastEntry(c.manifest, e.path) = e
<1> DEFINE m == c.manifest
           places == {j \in DOMAIN m.entries : m.entries[j].path = e.path}
<1>1. PICK i \in DOMAIN m.entries : m.entries[i] = e
  BY DEF EntriesOf
<1>2. places = {i}
  BY <1>1 DEF Sound
<1>3. i <= i
  BY <1>1, EntriesAreTyped
<1>4. (CHOOSE k \in places : \A j \in places : j <= k) = i
  BY <1>2, <1>3
<1>5. QED
  BY <1>1, <1>4 DEF LastEntry

-----------------------------------------------------------------------------
(* The invariant.                                                          *)

Files == Contents \cup {Absent, Torn, Edited}

\* The entries of the manifest before position n were copied.
Copied(n) ==
  Sound(source.manifest) =>
    \A i \in ApiPositions(source.manifest) :
      i < n => snapshot[source.manifest.entries[i].path] = source.manifest.entries[i].sha

Syncing == pc \in {"copy", "manifest", "prune"}

ReleaseInv ==
  /\ snapshot \in [Paths -> Files]
  /\ DOMAIN generated = Outputs \cup Strays
  /\ todo \subseteq Outputs
  /\ pc \in {"idle", "copy", "manifest", "prune", "write"}
  /\ lock \notin {Absent, Torn} => locked \in Checkouts /\ lock = LockOf(locked)
  /\ Syncing => source \in Checkouts /\ at \in Nat \ {0}
  /\ pc = "copy" => Copied(at)
  /\ pc \in {"manifest", "prune"} =>
       Copied(Len(source.manifest.entries) + 1) /\ LockOf(source).count = FileCount
  /\ pc = "prune" => manifest = source.manifest
  /\ pc = "write" =>
       Verifies /\ \A o \in Outputs \ todo : generated[o] = Generated(lock.manifest, o)
  /\ pc # "idle" => report = "none"
  /\ report = "synced" => locked \in Checkouts
  /\ AcceptedSyncVerifies
  /\ AcceptedGenerateChecks

LEMMA ReleaseInitInv == ReleaseInit => ReleaseInv
  BY DEF ReleaseInit, ReleaseInv, Files, Syncing, AcceptedSyncVerifies, AcceptedGenerateChecks

\* Verification reads the snapshot, its manifest and the lock.
LEMMA VerifiesUnchanged ==
  ASSUME UNCHANGED snapshotVars
  PROVE  Verifies' = Verifies
  BY DEF snapshotVars, Verifies, NoOtherFiles

LEMMA StartSyncInv ==
  ASSUME ReleaseInv, NEW c \in Checkouts, NEW commit \in Commits, StartSync(c, commit)
  PROVE  ReleaseInv'
<1>1. CASE pc' = "copy"
  <2>1. source' = c /\ at' = 1 /\ report' = "none" /\ todo' = todo
        /\ UNCHANGED <<snapshot, manifest, lock, generated, locked>>
    BY <1>1 DEF StartSync, Idle
  <2>2. Copied(at)'
    BY <2>1, EntriesAreTyped DEF Copied, ApiPositions
  <2>3. QED
    BY <1>1, <2>1, <2>2
    DEF ReleaseInv, Syncing, AcceptedSyncVerifies, AcceptedGenerateChecks
<1>2. CASE Idle("none")
  BY <1>2 DEF StartSync, Idle, ReleaseInv, Syncing, AcceptedSyncVerifies, AcceptedGenerateChecks
<1>3. QED
  BY <1>1, <1>2 DEF StartSync

LEMMA CopyInv ==
  ASSUME ReleaseInv, CopyEntry
  PROVE  ReleaseInv'
<1> DEFINE entries == source.manifest.entries
<1>0. source \in Checkouts /\ at \in DOMAIN entries /\ pc = "copy" /\ at \in Nat \ {0}
      /\ Entry.path \in Paths /\ Entry.sha \in Contents
  BY EntriesAreTyped DEF ReleaseInv, CopyEntry, Syncing, Entry
<1>1. CASE Entry.path \in ApiPaths /\ source.tree[Entry.path] # Entry.sha
  BY <1>1 DEF CopyEntry, Idle, ReleaseInv, Syncing, AcceptedSyncVerifies, AcceptedGenerateChecks
<1>2. CASE ~(Entry.path \in ApiPaths /\ source.tree[Entry.path] # Entry.sha)
  <2>1. /\ snapshot' = IF Entry.path \in ApiPaths
                       THEN [snapshot EXCEPT ![Entry.path] = Entry.sha] ELSE snapshot
        /\ at' = at + 1
        /\ UNCHANGED <<manifest, lock, generated, pc, source, todo, report, locked>>
    BY <1>2 DEF CopyEntry
  <2>2. snapshot' \in [Paths -> Files]
    BY <1>0, <2>1 DEF ReleaseInv, Files
  <2>3. ASSUME Sound(source.manifest), NEW i \in ApiPositions(source.manifest), i < at + 1
        PROVE  snapshot'[entries[i].path] = entries[i].sha
    <3>1. i \in DOMAIN entries /\ i \in Nat /\ entries[i].path \in ApiPaths
          /\ entries[i].path \in Paths
      BY <1>0, <2>3, EntriesAreTyped DEF ApiPositions
    <3>2. CASE i = at
      BY <2>1, <3>1, <3>2 DEF Entry, ReleaseInv
    <3>3. CASE i # at
      <4>1. i < at
        BY <1>0, <2>3, <3>1, <3>3
      <4>2. snapshot[entries[i].path] = entries[i].sha
        BY <1>0, <2>3, <4>1 DEF ReleaseInv, Copied
      <4>3. entries[i].path # Entry.path
        BY <1>0, <2>3, <3>1, <3>3 DEF Sound, Entry
      <4>4. QED
        BY <2>1, <3>1, <4>2, <4>3 DEF ReleaseInv
    <3>4. QED
      BY <3>2, <3>3
  <2>4. Copied(at)'
    BY <2>1, <2>3 DEF Copied, ApiPositions
  <2>5. report' = "none"
    BY <1>0, <2>1 DEF ReleaseInv
  <2>6. QED
    BY <1>0, <2>1, <2>2, <2>4, <2>5
    DEF ReleaseInv, Syncing, AcceptedSyncVerifies, AcceptedGenerateChecks
<1>3. QED
  BY <1>1, <1>2

LEMMA CountInv ==
  ASSUME ReleaseInv, CountEntries
  PROVE  ReleaseInv'
<1>1. CASE Idle("none")
  BY <1>1
  DEF CountEntries, Idle, ReleaseInv, Syncing, AcceptedSyncVerifies, AcceptedGenerateChecks
<1>2. CASE pc' = "manifest"
  <2>1. /\ LockOf(source).count = FileCount /\ source \in Checkouts /\ at \in Nat \ {0}
        /\ at > Len(source.manifest.entries) /\ report = "none" /\ Copied(at)
        /\ UNCHANGED <<snapshot, manifest, lock, generated, source, at, todo, report, locked>>
    BY <1>2 DEF CountEntries, ReleaseInv, Syncing, Idle
  <2>2. Copied(Len(source.manifest.entries) + 1)
    BY <2>1, EntriesAreTyped DEF Copied, ApiPositions
  <2>3. Copied(Len(source.manifest.entries) + 1)'
    BY <2>1, <2>2 DEF Copied, ApiPositions
  <2>4. QED
    BY <1>2, <2>1, <2>3
    DEF ReleaseInv, Syncing, AcceptedSyncVerifies, AcceptedGenerateChecks
<1>3. QED
  BY <1>1, <1>2 DEF CountEntries

LEMMA WriteManifestInv ==
  ASSUME ReleaseInv, WriteManifest
  PROVE  ReleaseInv'
<1>1. Copied(Len(source.manifest.entries) + 1)'
  BY DEF ReleaseInv, WriteManifest, Copied, ApiPositions
<1>2. QED
  BY <1>1
  DEF ReleaseInv, WriteManifest, Syncing, AcceptedSyncVerifies, AcceptedGenerateChecks

LEMMA PruneFileInv ==
  ASSUME ReleaseInv, NEW p \in Paths, PruneFile(p)
  PROVE  ReleaseInv'
<1>1. snapshot' \in [Paths -> Files]
  BY DEF ReleaseInv, PruneFile, Files
<1>2. \A i \in ApiPositions(source.manifest) : source.manifest.entries[i].path # p
  BY DEF PruneFile, Undeclared, PathsOf, EntriesOf, ApiPositions
<1>3. \A q \in Paths : q # p => snapshot'[q] = snapshot[q]
  BY DEF PruneFile, ReleaseInv
<1>4. \A i \in ApiPositions(source.manifest) : source.manifest.entries[i].path \in Paths
  BY PathsAssumption DEF ApiPositions
<1>5. Copied(Len(source.manifest.entries) + 1)'
  BY <1>2, <1>3, <1>4 DEF ReleaseInv, PruneFile, Copied, ApiPositions
<1>6. QED
  BY <1>1, <1>5
  DEF ReleaseInv, PruneFile, Syncing, AcceptedSyncVerifies, AcceptedGenerateChecks

LEMMA WriteLockInv ==
  ASSUME ReleaseInv, WriteLock
  PROVE  ReleaseInv'
<1>1. source \in Checkouts /\ manifest = source.manifest /\ LockOf(source).count = FileCount
      /\ Copied(Len(source.manifest.entries) + 1)
  BY DEF ReleaseInv, WriteLock, Syncing
<1>2. /\ lock' = LockOf(source) /\ locked' = source /\ pc' = "idle" /\ report' = "synced"
      /\ todo' = {} /\ UNCHANGED <<snapshot, manifest, generated>>
  BY DEF WriteLock, Idle
<1>3. ASSUME Sound(source.manifest), NEW e \in EntriesOf(source.manifest)
      PROVE  snapshot[e.path] = e.sha
  BY <1>1, <1>3, EntriesAreTyped DEF Copied, ApiPositions, EntriesOf
<1>4. \A p \in Paths : snapshot[p] # Absent => p \in PathsOf(EntriesOf(source.manifest))
  BY DEF WriteLock, Undeclared
<1>5. ASSUME Sound(source.manifest) PROVE Verifies'
  <2>1. lock'.files = EntriesOf(source.manifest) /\ lock'.manifest = source.manifest
        /\ lock'.count = FileCount
    BY <1>1, <1>2 DEF LockOf
  <2>2. \A e \in lock'.files : LastEntry(manifest', e.path) = e
    BY <1>1, <1>2, <1>5, <2>1, SoundLast
  <2>3. Cardinality(PathsOf(lock'.files)) = lock'.count
    BY <1>1, <1>2, <1>5, <2>1, SoundCount
  <2>4. lock' \notin {Absent, Torn}
    BY <1>1, <1>2, LocksAssumption
  <2>5. \A e \in lock'.files : e.role \in Roles /\ snapshot'[e.path] = e.sha
    BY <1>2, <1>3, <1>5, <2>1 DEF Sound
  <2>6. NoOtherFiles'
    BY <1>2, <1>4, <2>1 DEF NoOtherFiles
  <2>7. QED
    BY <1>1, <1>2, <1>5, <2>1, <2>2, <2>3, <2>4, <2>5, <2>6 DEF Verifies, Sound
<1>6. QED
  BY <1>1, <1>2, <1>5
  DEF ReleaseInv, Syncing, AcceptedSyncVerifies, AcceptedGenerateChecks

LEMMA StartGenerateInv ==
  ASSUME ReleaseInv, StartGenerate
  PROVE  ReleaseInv'
<1>1. Verifies' = Verifies
  BY VerifiesUnchanged DEF StartGenerate, snapshotVars
<1>2. CASE Verifies
  <2>1. /\ pc' = "write" /\ todo' = Outputs /\ report' = "none"
        /\ UNCHANGED <<snapshot, manifest, lock, generated, source, at, locked>>
    BY <1>2 DEF StartGenerate
  <2>2. QED
    BY <1>1, <1>2, <2>1
    DEF ReleaseInv, Syncing, AcceptedSyncVerifies, AcceptedGenerateChecks
<1>3. CASE ~Verifies
  BY <1>3
  DEF StartGenerate, Idle, ReleaseInv, Syncing, AcceptedSyncVerifies, AcceptedGenerateChecks
<1>4. QED
  BY <1>2, <1>3

LEMMA WriteOutputInv ==
  ASSUME ReleaseInv, NEW o \in Outputs, WriteOutput(o)
  PROVE  ReleaseInv'
<1>1. Verifies' = Verifies /\ Verifies
  BY VerifiesUnchanged DEF WriteOutput, snapshotVars, ReleaseInv
<1>2. DOMAIN generated' = Outputs \cup Strays
  BY DEF WriteOutput, ReleaseInv
<1>3. \A q \in Outputs \ todo' : generated'[q] = Generated(lock.manifest, q)
  BY DEF WriteOutput, ReleaseInv, Fresh
<1>4. todo' \subseteq Outputs /\ UNCHANGED <<snapshot, manifest, lock, pc, report, locked, source, at>>
      /\ pc = "write"
  BY DEF WriteOutput, ReleaseInv
<1>5. QED
  BY <1>1, <1>2, <1>3, <1>4
  DEF ReleaseInv, Syncing, AcceptedSyncVerifies, AcceptedGenerateChecks

LEMMA PruneOutputInv ==
  ASSUME ReleaseInv, NEW o \in Strays, PruneOutput(o)
  PROVE  ReleaseInv'
<1>1. Verifies' = Verifies /\ Verifies
  BY VerifiesUnchanged DEF PruneOutput, snapshotVars, ReleaseInv
<1>2. DOMAIN generated' = Outputs \cup Strays
  BY DEF PruneOutput, ReleaseInv
<1>3. \A q \in Outputs : generated'[q] = generated[q]
  BY OutputsAssumption DEF PruneOutput, ReleaseInv
<1>4. UNCHANGED <<snapshot, manifest, lock, pc, report, locked, source, at, todo>> /\ pc = "write"
  BY DEF PruneOutput
<1>5. QED
  BY <1>1, <1>2, <1>3, <1>4
  DEF ReleaseInv, Syncing, AcceptedSyncVerifies, AcceptedGenerateChecks

LEMMA EndGenerateInv ==
  ASSUME ReleaseInv, EndGenerate
  PROVE  ReleaseInv'
<1>1. Verifies' = Verifies /\ Verifies
  BY VerifiesUnchanged DEF EndGenerate, snapshotVars, ReleaseInv
<1>2. Checks'
  BY <1>1 DEF EndGenerate, ReleaseInv, Checks
<1>3. QED
  BY <1>2
  DEF ReleaseInv, EndGenerate, Idle, Syncing, AcceptedSyncVerifies, AcceptedGenerateChecks

LEMMA CheckInv ==
  ASSUME ReleaseInv, Check
  PROVE  ReleaseInv'
<1>1. Verifies' = Verifies
  BY VerifiesUnchanged DEF Check, snapshotVars
<1>2. Checks' = Checks
  BY <1>1 DEF Check, Checks
<1>3. QED
  BY <1>2
  DEF ReleaseInv, Check, Idle, Syncing, AcceptedSyncVerifies, AcceptedGenerateChecks

LEMMA CrashInv ==
  ASSUME ReleaseInv, Crash
  PROVE  ReleaseInv'
<1>1. snapshot' \in [Paths -> Files]
  BY DEF ReleaseInv, Crash, Files, snapshotVars
<1>2. DOMAIN generated' = Outputs \cup Strays
  BY DEF ReleaseInv, Crash, snapshotVars
<1>3. lock' = lock \/ lock' = Torn
  BY DEF Crash, snapshotVars
<1>4. pc' = "idle" /\ report' = "none" /\ todo' = {} /\ locked' = locked
  BY DEF Crash, Idle
<1>5. QED
  BY <1>1, <1>2, <1>3, <1>4
  DEF ReleaseInv, Syncing, AcceptedSyncVerifies, AcceptedGenerateChecks

LEMMA EditInv ==
  ASSUME ReleaseInv, Edit
  PROVE  ReleaseInv'
<1>1. snapshot' \in [Paths -> Files]
  BY DEF ReleaseInv, Edit, Files
<1>2. DOMAIN generated' = Outputs \cup Strays
  BY DEF ReleaseInv, Edit
<1>3. pc = "idle" /\ report' = "none" /\ UNCHANGED <<manifest, lock, pc, source, at, todo, locked>>
  BY DEF Edit
<1>4. QED
  BY <1>1, <1>2, <1>3
  DEF ReleaseInv, Syncing, AcceptedSyncVerifies, AcceptedGenerateChecks

LEMMA ReleaseStutterInv ==
  ASSUME ReleaseInv, UNCHANGED vars
  PROVE  ReleaseInv'
<1>1. Verifies' = Verifies
  BY VerifiesUnchanged DEF vars, snapshotVars
<1>2. Checks' = Checks
  BY <1>1 DEF vars, Checks
<1>3. QED
  BY <1>1, <1>2
  DEF vars, ReleaseInv, Syncing, Copied, ApiPositions, AcceptedSyncVerifies, AcceptedGenerateChecks

LEMMA ReleaseStepInv == ReleaseInv /\ [ReleaseNext]_vars => ReleaseInv'
<1> SUFFICES ASSUME ReleaseInv, [ReleaseNext]_vars PROVE ReleaseInv'
  OBVIOUS
<1>1. CASE \E c \in Checkouts, commit \in Commits : StartSync(c, commit)
  BY <1>1, StartSyncInv
<1>2. CASE CopyEntry \/ CountEntries \/ WriteManifest \/ WriteLock
  BY <1>2, CopyInv, CountInv, WriteManifestInv, WriteLockInv
<1>3. CASE \E p \in Paths : PruneFile(p)
  BY <1>3, PruneFileInv
<1>4. CASE StartGenerate \/ EndGenerate \/ Check
  BY <1>4, StartGenerateInv, EndGenerateInv, CheckInv
<1>5. CASE \E o \in Outputs : WriteOutput(o)
  BY <1>5, WriteOutputInv
<1>6. CASE \E o \in Strays : PruneOutput(o)
  BY <1>6, PruneOutputInv
<1>7. CASE Crash \/ Edit
  BY <1>7, CrashInv, EditInv
<1>8. CASE UNCHANGED vars
  BY <1>8, ReleaseStutterInv
<1>9. QED
  BY <1>1, <1>2, <1>3, <1>4, <1>5, <1>6, <1>7, <1>8 DEF ReleaseNext

LEMMA ReleaseInvHolds == ReleaseSpec => []ReleaseInv
  BY ReleaseInitInv, ReleaseStepInv, PTL DEF ReleaseSpec

\* A snapshot that verifies is one release, whole: that of the last
\* synchronization that came to its end, whatever crashed or was edited.
THEOREM SnapshotIsOneRelease == ReleaseSpec => []VerifiedIsOneRelease
<1>1. ReleaseInv => VerifiedIsOneRelease
  BY DEF ReleaseInv, VerifiedIsOneRelease, Verifies, NoOtherFiles, LockOf
<1>2. QED
  BY <1>1, ReleaseInvHolds, PTL

\* An accepted synchronization with a sound release verifies, from any files
\* that crashes, refusals and edits left behind.
THEOREM SyncRecovers == ReleaseSpec => []AcceptedSyncVerifies
<1>1. ReleaseInv => AcceptedSyncVerifies
  BY DEF ReleaseInv
<1>2. QED
  BY <1>1, ReleaseInvHolds, PTL

\* An accepted generation passes the check, from any files whatever.
THEOREM GenerateRecovers == ReleaseSpec => []AcceptedGenerateChecks
<1>1. ReleaseInv => AcceptedGenerateChecks
  BY DEF ReleaseInv
<1>2. QED
  BY <1>1, ReleaseInvHolds, PTL
=============================================================================
