----------------------------- MODULE CompatBuild -----------------------------
(***************************************************************************)
(* compat/prometa/build_compat.py: build_wheel, called by a packaging      *)
(* front end, and verify_reproducible, which builds the wheel twice in     *)
(* directories of its own and copies the first to an output directory.     *)
(* Several of them may run at once, with one directory for their results,  *)
(* while the files they read are edited.                                   *)
(*                                                                         *)
(* A file may be changed and changed back.  A wheel is the content it has  *)
(* of each file, in the order of reading.  Whether the checks of the       *)
(* manifest, the module inventory and the license pass is left open.       *)
(***************************************************************************)
EXTENDS Integers, TwoReadings

CONSTANTS
  Runs,       \* processes that build
  Members,    \* number of files a wheel is made of
  Texts,      \* what a file contains
  MaxChanges  \* bound on the changes of files

Files == 1..Members

ASSUME MembersAssumption == Members \in Nat
ASSUME TextsAssumption == 0 \in Texts /\ Texts \subseteq Nat
ASSUME MaxChangesAssumption == MaxChanges \in Nat

VARIABLES
  sources,  \* content of each file, as it is now
  changes,  \* changes of files, for their bound
  placed,   \* the shared directory has an artifact of the wheel's name
  output,   \* what is in it: of each member a content, or Hole
  builds,   \* the runs
  seen,     \* history: of the files, while a run reads them twice
  openers   \* history: the runs that looked when there was no artifact

compatVars == <<sources, changes, placed, output, builds, seen, openers>>

Hole == -1

EmptyWheel == [f \in Files |-> 0]
NothingWritten == [f \in Files |-> Hole]

Kinds == {"build", "verify", "dry"}

\* A run: build_wheel into the shared directory, verify_reproducible with that
\* as its output, or without an output; what it read for its first and for its
\* second wheel, and how many members it has read or written in its phase.
Run ==
  [kind : {"none"} \cup Kinds,
   phase : {"idle", "first", "second", "check", "open", "write", "accepted", "refused"},
   at : 0..Members, wheel : [Files -> Texts], again : [Files -> Texts]]

(* Files have contents, the artifact has contents or holes, and runs are   *)
(* runs.                                                                   *)
CompatTypeOK ==
  /\ sources \in [Files -> Texts]
  /\ changes \in 0..MaxChanges
  /\ placed \in BOOLEAN
  /\ output \in [Files -> Texts \cup {Hole}]
  /\ builds \in [Runs -> Run]
  /\ seen \in [Runs -> ReadingsOf(Files, Texts)]
  /\ openers \in SUBSET Runs

CompatInit ==
  /\ sources = EmptyWheel
  /\ changes = 0
  /\ placed = FALSE
  /\ output = NothingWritten
  /\ builds = [r \in Runs |-> [kind |-> "none", phase |-> "idle", at |-> 0,
                               wheel |-> EmptyWheel, again |-> EmptyWheel]]
  /\ seen = [r \in Runs |-> Opened(EmptyWheel)]
  /\ openers = {}

-----------------------------------------------------------------------------
\* verify_reproducible is reading the files, for one wheel or for the other.
Reading(r) == builds[r].kind # "build" /\ builds[r].phase \in {"first", "second"}

\* A file is changed, or changed back, whatever the runs are doing.
Change(f) ==
  /\ changes < MaxChanges
  /\ changes' = changes + 1
  /\ \E text \in Texts \ {sources[f]} :
       /\ sources' = [sources EXCEPT ![f] = text]
       /\ seen' = [r \in Runs |-> IF Reading(r) THEN Changed(seen[r], f, text) ELSE seen[r]]
  /\ UNCHANGED <<placed, output, builds, openers>>

\* The run goes on and leaves everything else as it is.
Becomes(r, run) ==
  /\ builds' = [builds EXCEPT ![r] = run]
  /\ UNCHANGED <<sources, changes>>

Apart == UNCHANGED <<placed, output, seen, openers>>

Begin(r, kind) ==
  /\ builds[r].phase = "idle"
  /\ Becomes(r, [builds[r] EXCEPT !.kind = kind, !.phase = "first"])
  /\ seen' = [seen EXCEPT ![r] = Opened(IF kind = "build" THEN EmptyWheel ELSE sources)]
  /\ UNCHANGED <<placed, output, openers>>

\* A check fails, a file cannot be read or written, or the process dies.  The
\* directories of its own are removed, the shared one stays as it is.
Refuse(r) ==
  /\ builds[r].phase \notin {"idle", "accepted", "refused"}
  /\ Becomes(r, [builds[r] EXCEPT !.phase = "refused"])
  /\ seen' = [seen EXCEPT ![r] = Opened(EmptyWheel)]
  /\ UNCHANGED <<placed, output, openers>>

\* _package_files and the license: one file after the other.
ReadMember(r) ==
  LET next == builds[r].at + 1
  IN  /\ builds[r].phase \in {"first", "second"}
      /\ next \in Files
      /\ Becomes(r, IF builds[r].phase = "first"
                    THEN [builds[r] EXCEPT !.at = next, !.wheel[next] = sources[next]]
                    ELSE [builds[r] EXCEPT !.at = next, !.again[next] = sources[next]])
      /\ Apart

\* A wheel has been read: build_wheel writes it where it was told to,
\* verify_reproducible in a directory of its own, where nothing is in the way.
WheelRead(r) ==
  /\ builds[r].phase = "first" /\ builds[r].at = Members
  /\ IF builds[r].kind = "build"
     THEN /\ Becomes(r, [builds[r] EXCEPT !.phase = "check", !.at = 0])
          /\ seen' = seen
     ELSE /\ Becomes(r, [builds[r] EXCEPT !.phase = "second", !.at = 0])
          /\ seen' = [seen EXCEPT ![r] = Halved(@, sources)]
  /\ UNCHANGED <<placed, output, openers>>

\* Mutant: the wheels have the same last member.
SameEnds(run) == Members # 0 => run.wheel[Members] = run.again[Members]

SameWheels(run) == run.wheel = run.again

CompareWheels(r) ==
  /\ builds[r].phase = "second" /\ builds[r].at = Members
  /\ Becomes(r, [builds[r] EXCEPT !.at = 0,
                   !.phase = IF ~SameWheels(builds[r]) THEN "refused"
                             ELSE IF builds[r].kind = "dry" THEN "accepted"
                             ELSE "check"])
  /\ Apart

\* Mutant: an artifact that was written in part is not one.
OccupiedByWhole == placed /\ \A f \in Files : output[f] # Hole

Occupied == placed

\* Whether an artifact is there is one step, to create it another.
CheckOutput(r) ==
  /\ builds[r].phase = "check"
  /\ Becomes(r, [builds[r] EXCEPT !.phase = IF Occupied THEN "refused" ELSE "open"])
  /\ openers' = IF placed THEN openers ELSE openers \cup {r}
  /\ UNCHANGED <<placed, output, seen>>

\* Both ZipFile and copyfile empty the file they open.
Open(r) ==
  /\ builds[r].phase = "open"
  /\ Becomes(r, [builds[r] EXCEPT !.phase = "write", !.at = 0])
  /\ placed' = TRUE
  /\ output' = NothingWritten
  /\ UNCHANGED <<seen, openers>>

WriteMember(r) ==
  LET next == builds[r].at + 1
  IN  /\ builds[r].phase = "write"
      /\ next \in Files
      /\ Becomes(r, [builds[r] EXCEPT !.at = next])
      /\ output' = [output EXCEPT ![next] = builds[r].wheel[next]]
      /\ UNCHANGED <<placed, seen, openers>>

\* Mutant: the last member does not count.
WrittenButLast(run) == run.at + 1 >= Members

Written(run) == run.at = Members

Accept(r) ==
  /\ builds[r].phase = "write" /\ Written(builds[r])
  /\ Becomes(r, [builds[r] EXCEPT !.phase = "accepted"])
  /\ Apart

RunStep(r) ==
  \/ \E kind \in Kinds : Begin(r, kind)
  \/ Refuse(r)
  \/ ReadMember(r) \/ WheelRead(r) \/ CompareWheels(r)
  \/ CheckOutput(r) \/ Open(r) \/ WriteMember(r) \/ Accept(r)

CompatNext == (\E f \in Files : Change(f)) \/ (\E r \in Runs : RunStep(r))

CompatSpec == CompatInit /\ [][CompatNext]_compatVars

-----------------------------------------------------------------------------
(* Properties.                                                             *)

(* A wheel that verify_reproducible accepts is of the files as they all    *)
(* were at one moment, when the second build began, whatever was edited    *)
(* while it read them, but for files that were changed and changed back:   *)
(* of such a file the wheel has what it was at some moment of the run,     *)
(* perhaps not at the one of the other files.                              *)
VerifiedOfOneMoment ==
  \A r \in Runs :
    builds[r].phase = "accepted" /\ builds[r].kind # "build" =>
      \A f \in Files : Explains(seen[r], f, builds[r].wheel[f])

(* The artifact in the shared directory is explained by the runs that      *)
(* found none there: every member is of the wheel of one of them, a member *)
(* is missing only if one of them still writes or failed, and if there was *)
(* but one such run and it was accepted, the artifact is its wheel, from   *)
(* then on.  Two runs that both found none write over each other.          *)
OutputExplained ==
  placed =>
    /\ \A f \in Files : output[f] # Hole => \E r \in openers : output[f] = builds[r].wheel[f]
    /\ (\E f \in Files : output[f] = Hole) =>
         \E r \in openers : builds[r].phase \in {"write", "refused"}
    /\ \A r \in openers :
         openers = {r} /\ builds[r].phase = "accepted" => output = builds[r].wheel

(* An artifact is never replaced: once one is there and the runs that      *)
(* found none have ended, no run changes or removes it, also if it is one  *)
(* that was written in part (the existence checks).                        *)
NeverReplaced ==
  [][ placed /\ (\A r \in openers : builds[r].phase \notin {"open", "write"})
        => placed' /\ output' = output ]_compatVars
=============================================================================
