--------------------------- MODULE ContractRelease ---------------------------
(***************************************************************************)
(* The files that tie the SDK to a contract release: the snapshot of the   *)
(* released API documents, the lock that names the release, and the files  *)
(* generated from them.  A maintainer runs sync_contract_snapshot.py and   *)
(* generate.py, one command at a time; a command can die between any two   *)
(* of its writes or inside one, and files can be edited by hand between    *)
(* commands.                                                               *)
(*                                                                         *)
(* A digest is the content it was taken of.  A document is one content     *)
(* whatever its formatting, as canonical_json_bytes makes it.  Links are   *)
(* left out: both programs refuse them.                                    *)
(***************************************************************************)
EXTENDS Integers, FiniteSets, Sequences

CONSTANTS
  Paths,        \* paths a manifest may list
  ApiPaths,     \* those under SELECTED_PREFIXES
  Contents,     \* documents
  Checkouts,    \* contract checkouts: [commit, manifest, tree]
  Commits,      \* what --commit can be
  FileCount,    \* the number of API inputs of a release: 37
  Roles,        \* roles that verify admits
  Outputs,      \* what expected_outputs names
  Strays,       \* other names in the generated directories
  Generated(_, _), \* the content of an output for a manifest and its documents
  Absent, Torn, Edited,   \* no file; a write cut short; an edit by hand
  MaxEdits      \* bound on edits by hand

ASSUME PathsAssumption == ApiPaths \subseteq Paths
ASSUME ContentsAssumption == {Absent, Torn, Edited} \cap Contents = {}
ASSUME CheckoutsAssumption ==
  \A c \in Checkouts :
    /\ c.tree \in [Paths -> Contents \cup {Absent}]
    /\ c.manifest.entries \in Seq([path: Paths, sha: Contents, role: STRING])
    /\ c.manifest \notin {Absent, Torn, Edited}

ASSUME OutputsAssumption == Outputs \cap Strays = {}

VARIABLES
  snapshot,   \* generators/contract-snapshot without its manifest
  manifest,   \* the snapshot's contracts/release-manifest.json
  lock,       \* contracts.lock.json
  generated,  \* the generated files
  pc,         \* the step of the command that runs, or "idle"
  source,     \* the checkout that is synchronized
  at,         \* position in the entries of its manifest
  todo,       \* outputs still to be written
  report,     \* the command that reported acceptance last, until the next step
  edits,      \* edits by hand, for their bound
  locked      \* history: the last checkout whose lock was written in full

snapshotVars == <<snapshot, manifest, lock>>
vars == <<snapshot, manifest, lock, generated, pc, source, at, todo, report, edits, locked>>

-----------------------------------------------------------------------------
(* The lock and its verification.                                          *)

EntriesOf(m) == {m.entries[i] : i \in {j \in DOMAIN m.entries : m.entries[j].path \in ApiPaths}}

LockOf(c) ==
  [commit |-> c.commit,
   manifest |-> c.manifest,
   files |-> EntriesOf(c.manifest),
   count |-> Cardinality({i \in DOMAIN c.manifest.entries :
                            c.manifest.entries[i].path \in ApiPaths})]

ASSUME LocksAssumption == \A c \in Checkouts : LockOf(c) \notin {Absent, Torn}

PathsOf(files) == {e.path : e \in files}

\* Mutant: files that the lock does not name are not looked for.
ListedOnly == TRUE

\* The snapshot has no file beyond those of the lock.
NoOtherFiles == \A p \in Paths : snapshot[p] # Absent => p \in PathsOf(lock.files)

\* The entry that manifest_entries has for a path: the last one.
LastEntry(m, p) ==
  LET places == {i \in DOMAIN m.entries : m.entries[i].path = p}
  IN  m.entries[CHOOSE i \in places : \A j \in places : j <= i]

\* verify of verify_contract_lock.py
Verifies ==
  /\ lock \notin {Absent, Torn}
  /\ lock.manifest.source
  /\ manifest = lock.manifest
  /\ lock.count = FileCount
  /\ \A e \in lock.files :
       e.role \in Roles /\ snapshot[e.path] = e.sha /\ LastEntry(manifest, e.path) = e
  /\ Cardinality(PathsOf(lock.files)) = lock.count
  /\ NoOtherFiles

\* _check of generate.py, after the verification that _lock makes.
Checks ==
  /\ Verifies
  /\ \A o \in Outputs : generated[o] = Generated(lock.manifest, o)
  /\ \A o \in Strays : generated[o] = Absent

-----------------------------------------------------------------------------
ReleaseInit ==
  /\ snapshot = [p \in Paths |-> Absent]
  /\ manifest = Absent
  /\ lock = Absent
  /\ generated = [o \in Outputs \cup Strays |-> Absent]
  /\ pc = "idle"
  /\ source = Absent
  /\ at = 0
  /\ todo = {}
  /\ report = "none"
  /\ edits = 0
  /\ locked = Absent

\* The command ends; what it held in memory is gone.
Idle(accepted) ==
  pc' = "idle" /\ source' = Absent /\ at' = 0 /\ todo' = {} /\ report' = accepted

(* sync *)

\* The checkout is at the commit, and its manifest is one that sync knows.
StartSync(c, commit) ==
  /\ pc = "idle"
  /\ IF commit = c.commit /\ c.manifest.known
     THEN pc' = "copy" /\ source' = c /\ at' = 1 /\ todo' = todo /\ report' = "none"
     ELSE Idle("none")
  /\ UNCHANGED <<snapshot, manifest, lock, generated, edits, locked>>

Entry == source.manifest.entries[at]

\* One round of the loop over the manifest: what was copied stays when a later
\* document does not match its digest.
CopyEntry ==
  /\ pc = "copy"
  /\ at <= Len(source.manifest.entries)
  /\ IF Entry.path \in ApiPaths /\ source.tree[Entry.path] # Entry.sha
     THEN Idle("none") /\ UNCHANGED snapshot
     ELSE /\ snapshot' = IF Entry.path \in ApiPaths
                         THEN [snapshot EXCEPT ![Entry.path] = Entry.sha]
                         ELSE snapshot
          /\ at' = at + 1
          /\ UNCHANGED <<pc, report, source, todo>>
  /\ UNCHANGED <<manifest, lock, generated, edits, locked>>

\* The count is taken after the files were replaced.
CountEntries ==
  /\ pc = "copy"
  /\ at > Len(source.manifest.entries)
  /\ IF LockOf(source).count # FileCount
     THEN Idle("none")
     ELSE pc' = "manifest" /\ UNCHANGED <<source, at, todo, report>>
  /\ UNCHANGED <<snapshot, manifest, lock, generated, edits, locked>>

WriteManifest ==
  /\ pc = "manifest"
  /\ manifest' = source.manifest
  /\ pc' = "prune"
  /\ UNCHANGED <<snapshot, lock, generated, source, at, todo, report, edits, locked>>

\* Mutant: only what the new release lists is touched.
NothingUndeclared == {}

Undeclared == {p \in Paths : snapshot[p] # Absent /\ p \notin PathsOf(EntriesOf(source.manifest))}

PruneFile(p) ==
  /\ pc = "prune"
  /\ p \in Undeclared
  /\ snapshot' = [snapshot EXCEPT ![p] = Absent]
  /\ UNCHANGED <<manifest, lock, generated, pc, source, at, todo, report, edits, locked>>

WriteLock ==
  /\ pc = "prune"
  /\ Undeclared = {}
  /\ lock' = LockOf(source)
  /\ locked' = source
  /\ Idle("synced")
  /\ UNCHANGED <<snapshot, manifest, generated, edits>>

(* generate *)

StartGenerate ==
  /\ pc = "idle"
  /\ IF Verifies
     THEN pc' = "write" /\ todo' = Outputs /\ report' = "none" /\ UNCHANGED <<source, at>>
     ELSE Idle("none")
  /\ UNCHANGED <<snapshot, manifest, lock, generated, edits, locked>>

\* Mutant: an output that is there is left as it is.
FreshIfPresent(o) == generated[o] # Absent

Fresh(o) == generated[o] = Generated(lock.manifest, o)

\* An output that is as it should be is not written.
WriteOutput(o) ==
  /\ pc = "write"
  /\ o \in todo
  /\ generated' = IF Fresh(o) THEN generated
                  ELSE [generated EXCEPT ![o] = Generated(lock.manifest, o)]
  /\ todo' = todo \ {o}
  /\ UNCHANGED <<snapshot, manifest, lock, pc, source, at, report, edits, locked>>

PruneOutput(o) ==
  /\ pc = "write"
  /\ todo = {}
  /\ generated[o] # Absent
  /\ generated' = [generated EXCEPT ![o] = Absent]
  /\ UNCHANGED <<snapshot, manifest, lock, pc, source, at, todo, report, edits, locked>>

EndGenerate ==
  /\ pc = "write"
  /\ todo = {}
  /\ \A o \in Strays : generated[o] = Absent
  /\ Idle("generated")
  /\ UNCHANGED <<snapshot, manifest, lock, generated, edits, locked>>

(* generate --check, and what else happens to the files *)

Check ==
  /\ pc = "idle"
  /\ Idle(IF Checks THEN "checked" ELSE "none")
  /\ UNCHANGED <<snapshot, manifest, lock, generated, edits, locked>>

\* The command dies, between two writes or inside the one it is at.
Crash ==
  /\ pc # "idle"
  /\ Idle("none")
  /\ UNCHANGED <<edits, locked>>
  /\ \/ UNCHANGED <<snapshotVars, generated>>
     \/ /\ pc = "copy" /\ at <= Len(source.manifest.entries)
        /\ Entry.path \in ApiPaths /\ source.tree[Entry.path] = Entry.sha
        /\ snapshot' = [snapshot EXCEPT ![Entry.path] = Torn]
        /\ UNCHANGED <<manifest, lock, generated>>
     \/ /\ pc = "manifest" /\ manifest' = Torn
        /\ UNCHANGED <<snapshot, lock, generated>>
     \/ /\ pc = "prune" /\ Undeclared = {} /\ lock' = Torn
        /\ UNCHANGED <<snapshot, manifest, generated>>
     \/ /\ pc = "write"
        /\ \E o \in Outputs :
             o \in todo /\ ~Fresh(o) /\ generated' = [generated EXCEPT ![o] = Torn]
        /\ UNCHANGED snapshotVars

\* A file is edited, added or removed by hand between two commands.
Edit ==
  /\ pc = "idle"
  /\ edits < MaxEdits
  /\ edits' = edits + 1
  /\ \/ \E p \in Paths, content \in {Absent, Edited} :
          snapshot' = [snapshot EXCEPT ![p] = content] /\ UNCHANGED generated
     \/ \E o \in Outputs \cup Strays, content \in {Absent, Edited} :
          generated' = [generated EXCEPT ![o] = content] /\ UNCHANGED snapshot
  /\ report' = "none"
  /\ UNCHANGED <<manifest, lock, pc, source, at, todo, locked>>

ReleaseNext ==
  \/ \E c \in Checkouts, commit \in Commits : StartSync(c, commit)
  \/ CopyEntry
  \/ CountEntries
  \/ WriteManifest
  \/ \E p \in Paths : PruneFile(p)
  \/ WriteLock
  \/ StartGenerate
  \/ \E o \in Outputs : WriteOutput(o)
  \/ \E o \in Strays : PruneOutput(o)
  \/ EndGenerate
  \/ Check
  \/ Crash
  \/ Edit

ReleaseSpec == ReleaseInit /\ [][ReleaseNext]_vars

-----------------------------------------------------------------------------
\* A manifest of the approved release that lists each path once, with a role
\* that verify admits.
Sound(m) ==
  /\ m.source
  /\ \A i, j \in DOMAIN m.entries : m.entries[i].path = m.entries[j].path => i = j
  /\ \A e \in EntriesOf(m) : e.role \in Roles

\* Whatever synchronizations were refused half-way, died or were repeated for
\* another release, and whatever was edited since, a snapshot that verifies is
\* the documents of one release, whole and nothing else: of the last checkout
\* whose synchronization came to its end (sync writes the lock last, verify).
VerifiedIsOneRelease ==
  Verifies =>
    /\ lock = LockOf(locked)
    /\ manifest = locked.manifest
    /\ \A e \in EntriesOf(locked.manifest) : snapshot[e.path] = e.sha
    /\ \A p \in Paths :
         snapshot[p] # Absent => p \in PathsOf(EntriesOf(locked.manifest))

\* From whatever an earlier command left behind, a synchronization that
\* reports acceptance leaves a snapshot that verifies, when the release is
\* one the verification admits at all (sync, its pruning included).
AcceptedSyncVerifies ==
  report = "synced" /\ Sound(locked.manifest) => Verifies

\* From whatever an earlier command left behind, a generation that reports
\* acceptance leaves outputs that pass the check, so that a generation cut
\* short is repaired by the next one (_write and _check of generate.py).
AcceptedGenerateChecks ==
  report \in {"generated", "checked"} => Checks
=============================================================================
