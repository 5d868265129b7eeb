---------------------------- MODULE PackageBuild ----------------------------
(***************************************************************************)
(* generators/build_packages.py with python/build_backend.py: the          *)
(* generated files are checked, the packages are built twice from the      *)
(* files of the repository, and when both builds agree the package         *)
(* directories are emptied and refilled with the first.                    *)
(*                                                                         *)
(* Nothing locks the repository: files change while a build reads them,    *)
(* and may be changed back.  Absence is a content like another.  An        *)
(* archive is the content it has of each file it reads: the encoding is    *)
(* the same for the same contents (fixed epoch, owner, mode and order).    *)
(***************************************************************************)
EXTENDS Integers, Sequences, TwoReadings

CONSTANTS
  Sources,      \* files that are packaged
  GeneratedSources, \* those of them that generate.py owns
  Contents,     \* what a file contains: 0 is what the generator would write
  Archives,     \* the archives, in the order they are built
  Reads(_),     \* the files an archive reads
  Directories,  \* the package directories, in the order they are replaced
  Contains(_),  \* the archives of a directory
  Absent, Torn, \* no archive; one that was copied in part
  MaxEdits      \* bound on the changes of files

ArchiveNames == {Archives[i] : i \in DOMAIN Archives}
DirectoryNames == {Directories[i] : i \in DOMAIN Directories}

ASSUME SourcesAssumption ==
  /\ GeneratedSources \subseteq Sources
  /\ \A a \in ArchiveNames : Reads(a) \subseteq Sources
ASSUME ContentsAssumption ==
  /\ 0 \in Contents
  /\ \A a \in ArchiveNames : {Absent, Torn} \cap [Reads(a) -> Contents] = {}
ASSUME ContainsAssumption ==
  /\ \A d \in DirectoryNames : Contains(d) \subseteq ArchiveNames
  /\ \A a \in ArchiveNames : \E d \in DirectoryNames : a \in Contains(d)
  /\ \A d, e \in DirectoryNames : Contains(d) \cap Contains(e) # {} => d = e
ASSUME DirectoriesAssumption ==
  /\ Directories \in Seq(DirectoryNames) /\ Directories # <<>>
  /\ \A i, j \in DOMAIN Directories : Directories[i] = Directories[j] => i = j

VARIABLES
  content,   \* of each file, as it is now
  pc,        \* the phase of build_reproducible, or "idle"
  todo,      \* what the phase has still to check, read or copy
  first,     \* archives of the first build
  second,    \* archives of the second build
  dest,      \* position of the directory that is replaced
  dist,      \* the archives in the package directories
  report,    \* the last build was accepted, and nothing happened since
  edits,     \* changes of files, for their bound
  history,   \* history: of the files, while the two builds read them
  origin     \* history: the readings of the build that last filled a directory

buildVars ==
  <<content, pc, todo, first, second, dest, dist, report, edits, history, origin>>

AsGenerated == [f \in Sources |-> 0]

EmptyBuild == [a \in ArchiveNames |-> [f \in Reads(a) |-> 0]]

\* What one build reads: LICENSE and README are among the sources.
Readings == UNION {{a} \X Reads(a) : a \in ArchiveNames}

BuildInit ==
  /\ content = AsGenerated
  /\ pc = "idle"
  /\ todo = {}
  /\ first = EmptyBuild
  /\ second = EmptyBuild
  /\ dest = 0
  /\ dist = [a \in ArchiveNames |-> Absent]
  /\ report = FALSE
  /\ edits = 0
  /\ history = Opened(AsGenerated)
  /\ origin = [d \in DirectoryNames |-> Opened(AsGenerated)]

\* A file is changed, or changed back, whatever the build is doing.
EditFile(f) ==
  /\ edits < MaxEdits
  /\ edits' = edits + 1
  /\ \E text \in Contents \ {content[f]} :
       /\ content' = [content EXCEPT ![f] = text]
       /\ history' = IF pc \in {"first", "second"} THEN Changed(history, f, text)
                      ELSE history
  /\ report' = FALSE
  /\ UNCHANGED <<pc, todo, first, second, dest, dist, origin>>

\* The build ends: the temporary directories are gone.
End(accepted) ==
  /\ pc' = "idle" /\ todo' = {} /\ dest' = 0 /\ report' = accepted
  /\ first' = EmptyBuild /\ second' = EmptyBuild
  /\ history' = Opened(AsGenerated)

StartBuild ==
  /\ pc = "idle"
  /\ pc' = "check"
  /\ todo' = GeneratedSources
  /\ report' = FALSE
  /\ UNCHANGED <<content, first, second, dest, dist, edits, history, origin>>

\* _check: a generated file is what the generator would write.
CheckFile(f) ==
  /\ pc = "check"
  /\ f \in todo
  /\ IF content[f] # 0 THEN End(FALSE)
     ELSE todo' = todo \ {f} /\ UNCHANGED <<pc, first, second, dest, report, history>>
  /\ UNCHANGED <<content, dist, edits, origin>>

StartFirst ==
  /\ pc = "check"
  /\ todo = {}
  /\ pc' = "first"
  /\ todo' = Readings
  /\ history' = Opened(content)
  /\ UNCHANGED <<content, first, second, dest, dist, report, edits, origin>>

\* The archives are made one after the other; this one is at its turn.
AtTurn(a) ==
  \E i \in DOMAIN Archives :
    /\ Archives[i] = a
    /\ \A j \in 1..(i - 1) : \A f \in Sources : <<Archives[j], f>> \notin todo

\* _package_files, _typescript_archive: a file is read into an archive.
ReadFirst(a, f) ==
  /\ pc = "first"
  /\ <<a, f>> \in todo /\ AtTurn(a)
  /\ first' = [first EXCEPT ![a][f] = content[f]]
  /\ todo' = todo \ {<<a, f>>}
  /\ UNCHANGED <<content, pc, second, dest, dist, report, edits, history, origin>>

StartSecond ==
  /\ pc = "first"
  /\ todo = {}
  /\ pc' = "second"
  /\ todo' = Readings
  /\ history' = Halved(history, content)
  /\ UNCHANGED <<content, first, second, dest, dist, report, edits, origin>>

ReadSecond(a, f) ==
  /\ pc = "second"
  /\ <<a, f>> \in todo /\ AtTurn(a)
  /\ second' = [second EXCEPT ![a][f] = content[f]]
  /\ todo' = todo \ {<<a, f>>}
  /\ UNCHANGED <<content, pc, first, dest, dist, report, edits, history, origin>>

\* Mutant: the wheel stands for the build.
SameFirstArchive == first[Archives[1]] = second[Archives[1]]

\* first_digests = second_digests
SameDigests == first = second

\* Mutant: the directory is not emptied.
KeepContents(d) == Contains(d)

\* What is left to remove before the copies begin: nothing.
Emptied(d) == {a \in Contains(d) : dist[a] = Absent}

Compare ==
  /\ pc = "second"
  /\ todo = {}
  /\ IF SameDigests
     THEN pc' = "remove" /\ dest' = 1 /\ UNCHANGED <<todo, first, second, report, history>>
     ELSE End(FALSE)
  /\ UNCHANGED <<content, dist, edits, origin>>

\* shutil.rmtree removes one file after the other.
RemoveArchive(a) ==
  /\ pc = "remove"
  /\ a \in Contains(Directories[dest])
  /\ dist[a] # Absent
  /\ dist' = [dist EXCEPT ![a] = Absent]
  /\ UNCHANGED <<content, pc, todo, first, second, dest, report, edits, history, origin>>

StartCopy ==
  /\ pc = "remove"
  /\ Emptied(Directories[dest]) = Contains(Directories[dest])
  /\ pc' = "copy"
  /\ todo' = Contains(Directories[dest])
  /\ origin' = [origin EXCEPT ![Directories[dest]] = history]
  /\ UNCHANGED <<content, first, second, dest, dist, report, edits, history>>

CopyArchive(a) ==
  /\ pc = "copy"
  /\ a \in todo
  /\ dist' = [dist EXCEPT ![a] = first[a]]
  /\ todo' = todo \ {a}
  /\ UNCHANGED <<content, pc, first, second, dest, report, edits, history, origin>>

EndCopy ==
  /\ pc = "copy"
  /\ todo = {}
  /\ IF dest < Len(Directories)
     THEN pc' = "remove" /\ dest' = dest + 1 /\ UNCHANGED <<todo, first, second, report, history>>
     ELSE End(TRUE)
  /\ UNCHANGED <<content, dist, edits, origin>>

\* The build dies, perhaps in the middle of a copy.
CrashBuild ==
  /\ pc # "idle"
  /\ \/ dist' = dist
     \/ pc = "copy" /\ \E a \in todo : dist' = [dist EXCEPT ![a] = Torn]
  /\ End(FALSE)
  /\ UNCHANGED <<content, edits, origin>>

BuildNext ==
  \/ \E f \in Sources : EditFile(f) \/ CheckFile(f)
  \/ \E a \in ArchiveNames, f \in Sources : ReadFirst(a, f) \/ ReadSecond(a, f)
  \/ \E a \in ArchiveNames : RemoveArchive(a) \/ CopyArchive(a)
  \/ StartBuild \/ StartFirst \/ StartSecond \/ Compare \/ StartCopy \/ EndCopy
  \/ CrashBuild

BuildSpec == BuildInit /\ [][BuildNext]_buildVars

-----------------------------------------------------------------------------
Present(a) == dist[a] \notin {Absent, Torn}

OfBuild(a, build) == \A f \in Reads(a) : Explains(build, f, dist[a][f])

\* The archives of one package directory that are there whole are all of the
\* build that last filled it, however often builds died while they replaced
\* it, and each is what its files contained between the two readings of that
\* build, but for files that were changed and changed back while the build
\* read them: the comparison of the two builds cannot see those
\* (build_reproducible, _replace_directory).
DirectoriesOfOneBuild ==
  \A d \in DirectoryNames : \A a \in Contains(d) : Present(a) => OfBuild(a, origin[d])

\* When a build is accepted, every archive of every directory is there, and
\* all of them, the Python and the TypeScript ones, are of one build and of
\* one moment of the files, with the same exception: a file that was changed
\* and changed back is in an archive as it was at some moment of the build.
AcceptedOfOneBuild ==
  report => \E d \in DirectoryNames :
              \A a \in ArchiveNames : Present(a) /\ OfBuild(a, origin[d])
=============================================================================
