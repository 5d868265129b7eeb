-------------------------- MODULE PackageBuildProofs --------------------------
(***************************************************************************)
(* Proofs about PackageBuild, for any files, contents, archives and        *)
(* directories, any number of builds, changes and crashes, and about       *)
(* CompatBuild, for any runs, members, contents and changes.  The argument *)
(* is the one of a double collect, with the exception it has where a       *)
(* content can come back: a text that was read first and is not what the   *)
(* file contained in the middle has been replaced, and is read again only  *)
(* if it was put back.                                                     *)
(***************************************************************************)
EXTENDS PackageBuild, CompatBuild, TLAPS

(* What is known of a text that the first reading has read of a file: the  *)
(* file had it, and it is explained, or else the file contains another     *)
(* now, and it is not what the second reading has read, if it has.         *)
Told(r, f, text, now, again) ==
  /\ text \in r.had[f]
  /\ f \in r.returned \/ text = r.middle[f] \/ text \notin {now} \cup again

LEMMA OpenedReadings ==
  ASSUME NEW F, NEW T, NEW files \in [F -> T]
  PROVE  /\ Opened(files) \in ReadingsOf(F, T)
         /\ \A f \in F : files[f] \in Opened(files).had[f]
<1>1. [f \in DOMAIN files |-> {files[f]}] \in [F -> SUBSET T]
  OBVIOUS
<1> QED
  BY <1>1 DEF Opened, ReadingsOf

LEMMA ChangedReadings ==
  ASSUME NEW F, NEW T, NEW r \in ReadingsOf(F, T), NEW f \in F, NEW text \in T
  PROVE  /\ Changed(r, f, text) \in ReadingsOf(F, T)
         /\ Changed(r, f, text).middle = r.middle
         /\ \A g \in F : r.had[g] \subseteq Changed(r, f, text).had[g]
         /\ r.returned \subseteq Changed(r, f, text).returned
         /\ text \in Changed(r, f, text).had[f]
         /\ text \in r.had[f] => f \in Changed(r, f, text).returned
<1> DEFINE had == [r.had EXCEPT ![f] = @ \cup {text}]
           returned == IF text \in r.had[f] THEN r.returned \cup {f} ELSE r.returned
<1>1. r.had \in [F -> SUBSET T] /\ r.returned \in SUBSET F /\ r.middle \in [F -> T]
  BY DEF ReadingsOf
<1>2. had \in [F -> SUBSET T] /\ \A g \in F : had[g] = IF g = f THEN r.had[f] \cup {text} ELSE r.had[g]
  BY <1>1
<1>3. returned \in SUBSET F
  BY <1>1
<1>4. Changed(r, f, text) = [middle |-> r.middle, had |-> had, returned |-> returned]
  BY DEF Changed
<1>5. returned = IF text \in r.had[f] THEN r.returned \cup {f} ELSE r.returned
  OBVIOUS
<1> HIDE DEF had, returned
<1>6. Changed(r, f, text) \in ReadingsOf(F, T)
  BY <1>1, <1>2, <1>3, <1>4 DEF ReadingsOf
<1>7. /\ Changed(r, f, text).middle = r.middle /\ Changed(r, f, text).had = had
      /\ Changed(r, f, text).returned = returned
  BY <1>4
<1> QED
  BY <1>2, <1>5, <1>6, <1>7

LEMMA HalvedReadings ==
  ASSUME NEW F, NEW T, NEW r \in ReadingsOf(F, T), NEW files \in [F -> T]
  PROVE  /\ Halved(r, files) \in ReadingsOf(F, T)
         /\ Halved(r, files).had = r.had
         /\ \A f \in F : \A text \in r.had[f] :
              Told(Halved(r, files), f, text, files[f], {})
<1>1. Halved(r, files) = [middle |-> files, had |-> r.had, returned |-> r.returned]
  BY DEF Halved, ReadingsOf
<1>2. Halved(r, files) \in ReadingsOf(F, T)
  BY <1>1 DEF ReadingsOf
<1>3. /\ Halved(r, files).middle = files /\ Halved(r, files).had = r.had
      /\ Halved(r, files).returned = r.returned
  BY <1>1
<1> QED
  BY <1>2, <1>3 DEF Told

\* What is known stays so when a file, this one or another, is changed.
LEMMA ToldOnChange ==
  ASSUME NEW F, NEW T, NEW r \in ReadingsOf(F, T), NEW g \in F, NEW new \in T,
         NEW f \in F, NEW text, NEW now, NEW again, Told(r, f, text, now, again)
  PROVE  Told(Changed(r, g, new), f, text, IF f = g THEN new ELSE now, again)
<1>1. /\ Changed(r, g, new).middle = r.middle
      /\ r.had[f] \subseteq Changed(r, g, new).had[f]
      /\ r.returned \subseteq Changed(r, g, new).returned
      /\ new \in r.had[g] => g \in Changed(r, g, new).returned
  BY ChangedReadings
<1>2. CASE f = g /\ new = text
  BY <1>1, <1>2 DEF Told
<1>3. CASE ~(f = g /\ new = text)
  BY <1>1, <1>3 DEF Told
<1> QED
  BY <1>2, <1>3

\* The second reading reads the file, with what it contains now.
LEMMA ToldOnReading ==
  ASSUME NEW r, NEW f, NEW text, NEW now, NEW again, Told(r, f, text, now, again)
  PROVE  Told(r, f, text, now, {now})
BY DEF Told

\* The second reading read the same.
LEMMA ToldTheSame ==
  ASSUME NEW r, NEW f, NEW text, NEW now, Told(r, f, text, now, {text})
  PROVE  Explains(r, f, text)
BY DEF Told, Explains

-----------------------------------------------------------------------------
(* The packages.                                                           *)

BuildTypeOK ==
  /\ content \in [Sources -> Contents]
  /\ history \in ReadingsOf(Sources, Contents)
  /\ origin \in [DirectoryNames -> ReadingsOf(Sources, Contents)]
  /\ pc \in {"idle", "check", "first", "second", "remove", "copy"}
  /\ DOMAIN first = ArchiveNames /\ \A a \in ArchiveNames : first[a] \in [Reads(a) -> Contents]
  /\ DOMAIN second = ArchiveNames /\ \A a \in ArchiveNames : second[a] \in [Reads(a) -> Contents]
  /\ DOMAIN dist = ArchiveNames
  /\ report \in BOOLEAN
  /\ dest \in Nat

\* What the two builds have read.
FirstRead ==
  \A a \in ArchiveNames : \A f \in Reads(a) : <<a, f>> \in todo \/ first[a][f] \in history.had[f]

Again(a, f) == IF <<a, f>> \in todo THEN {} ELSE {second[a][f]}

SecondRead ==
  \A a \in ArchiveNames : \A f \in Reads(a) :
    Told(history, f, first[a][f], content[f], Again(a, f))

\* The archives that are to be copied are explained by the readings.
Collected ==
  \A a \in ArchiveNames : \A f \in Reads(a) : Explains(history, f, first[a][f])

Filled(d) == origin[d] = history /\ \A a \in Contains(d) : dist[a] = first[a]

BuildInv ==
  /\ BuildTypeOK
  /\ pc \in {"first", "second"} =>
       todo \subseteq Readings /\ \A f \in Sources : content[f] \in history.had[f]
  /\ pc = "first" => FirstRead
  /\ pc = "second" => SecondRead
  /\ pc \in {"remove", "copy"} =>
       /\ Collected
       /\ dest \in DOMAIN Directories
       /\ \A i \in DOMAIN Directories : i < dest => Filled(Directories[i])
  /\ pc = "copy" =>
       /\ todo \subseteq Contains(Directories[dest])
       /\ origin[Directories[dest]] = history
       /\ \A a \in Contains(Directories[dest]) :
            dist[a] = IF a \in todo THEN Absent ELSE first[a]
  /\ report => pc = "idle"
  /\ DirectoriesOfOneBuild
  /\ AcceptedOfOneBuild

-----------------------------------------------------------------------------
(* Facts about the beginning and the directories.                          *)

LEMMA DirectoriesTyped ==
  /\ DOMAIN Directories = 1..Len(Directories) /\ Len(Directories) \in Nat
  /\ 1 \in DOMAIN Directories
  /\ \A i \in DOMAIN Directories : Directories[i] \in DirectoryNames
  BY DirectoriesAssumption DEF DirectoryNames

LEMMA StartTyped ==
  /\ AsGenerated \in [Sources -> Contents]
  /\ Opened(AsGenerated) \in ReadingsOf(Sources, Contents)
  /\ DOMAIN EmptyBuild = ArchiveNames
  /\ \A a \in ArchiveNames : EmptyBuild[a] \in [Reads(a) -> Contents]
<1>1. AsGenerated \in [Sources -> Contents]
  BY ContentsAssumption DEF AsGenerated
<1>2. Opened(AsGenerated) \in ReadingsOf(Sources, Contents)
  BY <1>1, OpenedReadings
<1> QED
  BY <1>1, <1>2, ContentsAssumption DEF EmptyBuild

LEMMA BuildInitInv == BuildInit => BuildInv
<1> SUFFICES ASSUME BuildInit PROVE BuildInv
  OBVIOUS
<1>1. BuildTypeOK
  BY StartTyped DEF BuildInit, BuildTypeOK
<1>2. DirectoriesOfOneBuild
  BY ContainsAssumption DEF BuildInit, DirectoriesOfOneBuild, Present
<1>3. QED
  BY <1>1, <1>2 DEF BuildInit, BuildInv, AcceptedOfOneBuild

-----------------------------------------------------------------------------
(* One lemma per action.                                                   *)

\* The directories are of their builds as long as nobody touches them.
LEMMA SameDirectories ==
  ASSUME DirectoriesOfOneBuild, dist' = dist, origin' = origin
  PROVE  DirectoriesOfOneBuild'
  BY DEF DirectoriesOfOneBuild, Present, OfBuild

LEMMA EditFileInv ==
  ASSUME BuildInv, NEW f \in Sources, EditFile(f)
  PROVE  BuildInv'
<1>1. PICK text \in Contents :
        /\ content' = [content EXCEPT ![f] = text]
        /\ history' = IF pc \in {"first", "second"} THEN Changed(history, f, text) ELSE history
  BY DEF EditFile
<1>2. report' = FALSE /\ UNCHANGED <<pc, todo, first, second, dest, dist, origin>>
  BY DEF EditFile
<1>3. /\ content \in [Sources -> Contents] /\ history \in ReadingsOf(Sources, Contents)
      /\ content' \in [Sources -> Contents]
      /\ \A g \in Sources : content'[g] = IF g = f THEN text ELSE content[g]
  BY <1>1 DEF BuildInv, BuildTypeOK
<1>4. DirectoriesOfOneBuild' /\ AcceptedOfOneBuild'
  BY <1>2, SameDirectories DEF BuildInv, AcceptedOfOneBuild
<1>5. CASE pc \notin {"first", "second"}
  <2>1. history' = history
    BY <1>1, <1>5
  <2>2. BuildTypeOK'
    BY <1>2, <1>3, <2>1 DEF BuildInv, BuildTypeOK
  <2>3. Collected' = Collected /\ \A d : Filled(d)' = Filled(d)
    BY <1>2, <2>1 DEF Collected, Filled
  <2> QED
    BY <1>2, <1>4, <1>5, <2>1, <2>2, <2>3 DEF BuildInv
<1>6. CASE pc \in {"first", "second"}
  <2>1. history' = Changed(history, f, text)
    BY <1>1, <1>6
  <2>2. /\ history' \in ReadingsOf(Sources, Contents)
        /\ \A g \in Sources : history.had[g] \subseteq history'.had[g]
        /\ text \in history'.had[f]
    BY <1>3, <2>1, ChangedReadings
  <2>3. BuildTypeOK'
    BY <1>2, <1>3, <2>2 DEF BuildInv, BuildTypeOK
  <2>4. \A g \in Sources : content'[g] \in history'.had[g]
    BY <1>3, <1>6, <2>2 DEF BuildInv
  <2>5. pc = "first" => FirstRead'
    BY <1>2, <2>2, SourcesAssumption DEF BuildInv, FirstRead
  <2>6. ASSUME pc = "second", NEW a \in ArchiveNames, NEW g \in Reads(a)
        PROVE  Told(history', g, first[a][g], content'[g], Again(a, g))
    <3>1. g \in Sources
      BY SourcesAssumption
    <3>2. Told(history, g, first[a][g], content[g], Again(a, g))
      BY <2>6 DEF BuildInv, SecondRead
    <3>3. Told(Changed(history, f, text), g, first[a][g], IF g = f THEN text ELSE content[g],
               Again(a, g))
      BY <1>3, <3>1, <3>2, ToldOnChange
    <3> QED
      BY <1>3, <2>1, <3>1, <3>3
  <2>7. pc = "second" => SecondRead'
    BY <1>2, <2>6 DEF SecondRead, Again
  <2> QED
    BY <1>2, <1>4, <1>6, <2>3, <2>4, <2>5, <2>7 DEF BuildInv
<1>7. QED
  BY <1>5, <1>6

\* The build ends without having replaced a directory in this step.
LEMMA EndInv ==
  ASSUME BuildInv, End(FALSE), DOMAIN dist' = ArchiveNames, DirectoriesOfOneBuild',
         UNCHANGED <<content, edits, origin>>
  PROVE  BuildInv'
<1>1. BuildTypeOK'
  BY StartTyped DEF BuildInv, BuildTypeOK, End
<1>2. QED
  BY <1>1 DEF BuildInv, End, AcceptedOfOneBuild

LEMMA CheckFileInv ==
  ASSUME BuildInv, NEW f \in Sources, CheckFile(f)
  PROVE  BuildInv'
<1>1. DirectoriesOfOneBuild'
  BY SameDirectories DEF BuildInv, CheckFile
<1>2. CASE content[f] # 0
  BY <1>1, <1>2, EndInv DEF CheckFile, BuildInv, BuildTypeOK
<1>3. CASE content[f] = 0
  BY <1>1, <1>3 DEF CheckFile, BuildInv, BuildTypeOK, AcceptedOfOneBuild
<1>4. QED
  BY <1>2, <1>3

LEMMA StartBuildInv ==
  ASSUME BuildInv, StartBuild
  PROVE  BuildInv'
<1>1. DirectoriesOfOneBuild'
  BY SameDirectories DEF BuildInv, StartBuild
<1>2. QED
  BY <1>1 DEF StartBuild, BuildInv, BuildTypeOK, AcceptedOfOneBuild

LEMMA StartFirstInv ==
  ASSUME BuildInv, StartFirst
  PROVE  BuildInv'
<1>1. DirectoriesOfOneBuild'
  BY SameDirectories DEF BuildInv, StartFirst
<1>2. /\ history' \in ReadingsOf(Sources, Contents)
      /\ \A f \in Sources : content[f] \in history'.had[f]
  BY OpenedReadings DEF StartFirst, BuildInv, BuildTypeOK
<1>3. FirstRead' /\ todo' \subseteq Readings
  BY DEF StartFirst, FirstRead, Readings
<1>4. QED
  BY <1>1, <1>2, <1>3 DEF StartFirst, BuildInv, BuildTypeOK, AcceptedOfOneBuild

\* An archive is made of the files it reads.
LEMMA ReadingsAreOfSources ==
  ASSUME BuildInv, pc \in {"first", "second"}, NEW a, NEW f, <<a, f>> \in todo
  PROVE  f \in Reads(a)
  BY DEF BuildInv, Readings

LEMMA ReadFirstInv ==
  ASSUME BuildInv, NEW a \in ArchiveNames, NEW f \in Sources, ReadFirst(a, f)
  PROVE  BuildInv'
<1>1. DirectoriesOfOneBuild'
  BY SameDirectories DEF BuildInv, ReadFirst
<1>2. /\ content[f] \in Contents /\ content[f] \in history.had[f] /\ pc = "first"
      /\ UNCHANGED <<content, pc, second, dest, dist, report, history, origin>>
      /\ f \in Reads(a) /\ todo' = todo \ {<<a, f>>}
  BY ReadingsAreOfSources DEF ReadFirst, BuildInv, BuildTypeOK
<1>3. /\ DOMAIN first' = ArchiveNames /\ \A b \in ArchiveNames : first'[b] \in [Reads(b) -> Contents]
      /\ \A b \in ArchiveNames : \A g \in Reads(b) :
           first'[b][g] = IF b = a /\ g = f THEN content[f] ELSE first[b][g]
  BY <1>2 DEF ReadFirst, BuildInv, BuildTypeOK
<1>4. FirstRead'
  <2> SUFFICES ASSUME NEW b \in ArchiveNames, NEW g \in Reads(b), <<b, g>> \notin todo'
      PROVE  first'[b][g] \in history.had[g]
    BY <1>2 DEF FirstRead
  <2>1. CASE b = a /\ g = f
    BY <1>2, <1>3, <2>1
  <2>2. CASE ~(b = a /\ g = f)
    BY <1>2, <1>3, <2>2 DEF BuildInv, FirstRead
  <2>3. QED
    BY <2>1, <2>2
<1>5. QED
  BY <1>1, <1>2, <1>3, <1>4 DEF BuildInv, BuildTypeOK, AcceptedOfOneBuild

LEMMA StartSecondInv ==
  ASSUME BuildInv, StartSecond
  PROVE  BuildInv'
<1>1. DirectoriesOfOneBuild'
  BY SameDirectories DEF BuildInv, StartSecond
<1>2. /\ pc = "first" /\ todo = {} /\ pc' = "second" /\ todo' = Readings
      /\ history' = Halved(history, content)
      /\ UNCHANGED <<content, first, second, dest, dist, report, origin>>
      /\ content \in [Sources -> Contents] /\ history \in ReadingsOf(Sources, Contents)
  BY DEF StartSecond, BuildInv, BuildTypeOK
<1>3. history' \in ReadingsOf(Sources, Contents) /\ history'.had = history.had
  BY <1>2, HalvedReadings
<1>4. SecondRead'
  <2> SUFFICES ASSUME NEW a \in ArchiveNames, NEW f \in Reads(a)
      PROVE  Told(history', f, first[a][f], content[f], Again(a, f)')
    BY <1>2 DEF SecondRead
  <2>1. Again(a, f)' = {} /\ f \in Sources
    BY <1>2, SourcesAssumption DEF Readings, Again
  <2>2. first[a][f] \in history.had[f]
    BY <1>2 DEF BuildInv, FirstRead
  <2>3. Told(history', f, first[a][f], content[f], {})
    BY <1>2, <2>1, <2>2, HalvedReadings
  <2>4. QED
    BY <2>1, <2>3
<1>5. QED
  BY <1>1, <1>2, <1>3, <1>4 DEF BuildInv, BuildTypeOK, AcceptedOfOneBuild

LEMMA ReadSecondInv ==
  ASSUME BuildInv, NEW a \in ArchiveNames, NEW f \in Sources, ReadSecond(a, f)
  PROVE  BuildInv'
<1>1. DirectoriesOfOneBuild'
  BY SameDirectories DEF BuildInv, ReadSecond
<1>2. /\ content[f] \in Contents /\ pc = "second"
      /\ UNCHANGED <<content, pc, first, dest, dist, report, history, origin>>
      /\ f \in Reads(a) /\ todo' = todo \ {<<a, f>>}
  BY ReadingsAreOfSources DEF ReadSecond, BuildInv, BuildTypeOK
<1>3. /\ DOMAIN second' = ArchiveNames /\ \A b \in ArchiveNames : second'[b] \in [Reads(b) -> Contents]
      /\ \A b \in ArchiveNames : \A g \in Reads(b) :
           second'[b][g] = IF b = a /\ g = f THEN content[f] ELSE second[b][g]
  BY <1>2 DEF ReadSecond, BuildInv, BuildTypeOK
<1>4. SecondRead'
  <2> SUFFICES ASSUME NEW b \in ArchiveNames, NEW g \in Reads(b)
      PROVE  Told(history, g, first[b][g], content[g], Again(b, g)')
    BY <1>2 DEF SecondRead
  <2>1. Told(history, g, first[b][g], content[g], Again(b, g))
    BY <1>2 DEF BuildInv, SecondRead
  <2>2. CASE b = a /\ g = f
    <3>1. Told(history, g, first[b][g], content[g], {content[g]})
      BY <2>1, ToldOnReading
    <3>2. Again(b, g)' = {content[g]}
      BY <1>2, <1>3, <2>2 DEF Again
    <3>3. QED
      BY <3>1, <3>2
  <2>3. CASE ~(b = a /\ g = f)
    <3>1. second'[b][g] = second[b][g] /\ ((<<b, g>> \in todo') <=> (<<b, g>> \in todo))
      BY <1>2, <1>3, <2>3
    <3>2. Again(b, g)' = Again(b, g)
      BY <3>1 DEF Again
    <3>3. QED
      BY <2>1, <3>2
  <2>4. QED
    BY <2>2, <2>3
<1>5. QED
  BY <1>1, <1>2, <1>3, <1>4 DEF BuildInv, BuildTypeOK, AcceptedOfOneBuild

\* Where the double reading is used: the builds agree.
LEMMA CompareInv ==
  ASSUME BuildInv, Compare
  PROVE  BuildInv'
<1>1. DirectoriesOfOneBuild'
  BY SameDirectories DEF BuildInv, Compare
<1>2. CASE ~SameDigests
  BY <1>1, <1>2, EndInv DEF Compare, BuildInv, BuildTypeOK
<1>3. CASE SameDigests
  <2>1. Collected
    <3> SUFFICES ASSUME NEW a \in ArchiveNames, NEW f \in Reads(a)
        PROVE  Explains(history, f, first[a][f])
      BY DEF Collected
    <3>1. Told(history, f, first[a][f], content[f], {second[a][f]})
      BY DEF BuildInv, Compare, SecondRead, Again
    <3>2. first[a][f] = second[a][f]
      BY <1>3 DEF SameDigests
    <3>3. QED
      BY <3>1, <3>2, ToldTheSame
  <2>2. pc' = "remove" /\ dest' = 1
        /\ UNCHANGED <<content, todo, first, second, dist, report, history, origin>>
    BY <1>3 DEF Compare
  <2>3. Collected'
    BY <2>1, <2>2 DEF Collected
  <2>4. dest' \in DOMAIN Directories /\ \A i \in DOMAIN Directories : ~(i < dest')
    BY <2>2, DirectoriesTyped
  <2>5. report = FALSE
    BY DEF BuildInv, BuildTypeOK, Compare
  <2>6. QED
    BY <1>1, <2>2, <2>3, <2>4, <2>5 DEF BuildInv, BuildTypeOK, AcceptedOfOneBuild
<1>4. QED
  BY <1>2, <1>3

\* The directories that are filled are not the one that is replaced.
LEMMA OtherDirectories ==
  ASSUME NEW i \in DOMAIN Directories, NEW j \in DOMAIN Directories, i # j,
         NEW a \in Contains(Directories[i])
  PROVE  a \notin Contains(Directories[j])
  BY ContainsAssumption, DirectoriesAssumption, DirectoriesTyped

LEMMA RemoveArchiveInv ==
  ASSUME BuildInv, NEW a \in ArchiveNames, RemoveArchive(a)
  PROVE  BuildInv'
<1>1. /\ pc = "remove" /\ pc' = pc /\ report = FALSE
      /\ a \in Contains(Directories[dest]) /\ dest \in DOMAIN Directories
      /\ UNCHANGED <<content, pc, todo, first, second, dest, report, history, origin>>
  BY DEF RemoveArchive, BuildInv, BuildTypeOK
<1>2. DOMAIN dist' = ArchiveNames /\ \A b \in ArchiveNames : dist'[b] = IF b = a THEN Absent ELSE dist[b]
  BY DEF RemoveArchive, BuildInv, BuildTypeOK
<1>3. DirectoriesOfOneBuild'
  BY <1>1, <1>2, ContainsAssumption DEF BuildInv, DirectoriesOfOneBuild, Present, OfBuild
<1>4. \A i \in DOMAIN Directories : i < dest => Filled(Directories[i])'
  <2> SUFFICES ASSUME NEW i \in DOMAIN Directories, i < dest PROVE Filled(Directories[i])'
    OBVIOUS
  <2>1. i # dest
    BY DirectoriesTyped, <1>1
  <2>2. origin[Directories[i]] = history /\ \A b \in Contains(Directories[i]) : dist[b] = first[b]
    BY <1>1 DEF BuildInv, Filled
  <2>3. \A b \in Contains(Directories[i]) : b # a /\ b \in ArchiveNames
    BY <2>1, <1>1, OtherDirectories, ContainsAssumption, DirectoriesTyped
  <2>4. QED
    BY <1>1, <1>2, <2>2, <2>3 DEF Filled
<1>5. Collected'
  BY <1>1 DEF BuildInv, Collected
<1>6. QED
  BY <1>1, <1>2, <1>3, <1>4, <1>5 DEF BuildInv, BuildTypeOK, AcceptedOfOneBuild

\* The directory is empty when it is given to the build.
LEMMA StartCopyInv ==
  ASSUME BuildInv, StartCopy
  PROVE  BuildInv'
<1> DEFINE here == Directories[dest]
<1>1. /\ pc = "remove" /\ pc' = "copy" /\ todo' = Contains(here) /\ report = FALSE
      /\ UNCHANGED <<content, first, second, dest, dist, report, history>>
      /\ origin' = [origin EXCEPT ![here] = history]
      /\ origin \in [DirectoryNames -> ReadingsOf(Sources, Contents)]
      /\ history \in ReadingsOf(Sources, Contents)
      /\ dest \in DOMAIN Directories
  BY DEF StartCopy, BuildInv, BuildTypeOK
<1>2. \A a \in Contains(here) : dist[a] = Absent
  BY DEF StartCopy, Emptied
<1>3. here \in DirectoryNames
  BY <1>1, DirectoriesTyped
<1> HIDE DEF here
<1>4. /\ origin' \in [DirectoryNames -> ReadingsOf(Sources, Contents)] /\ origin'[here] = history
      /\ \A d \in DirectoryNames : origin'[d] = IF d = here THEN history ELSE origin[d]
  BY <1>1, <1>3
<1>5. DirectoriesOfOneBuild'
  <2> SUFFICES ASSUME NEW d \in DirectoryNames, NEW a \in Contains(d), Present(a)
      PROVE  OfBuild(a, origin'[d])
    BY <1>1 DEF DirectoriesOfOneBuild, Present, OfBuild
  <2>1. d # here
    BY <1>2 DEF Present
  <2>2. QED
    BY <1>4, <2>1 DEF BuildInv, DirectoriesOfOneBuild
<1>6. Collected'
  BY <1>1 DEF BuildInv, Collected
<1>7. \A i \in DOMAIN Directories : i < dest => Filled(Directories[i])'
  <2> SUFFICES ASSUME NEW i \in DOMAIN Directories, i < dest PROVE Filled(Directories[i])'
    OBVIOUS
  <2>1. Directories[i] # here /\ Directories[i] \in DirectoryNames
    BY DirectoriesAssumption, DirectoriesTyped, <1>1 DEF here
  <2>2. Filled(Directories[i])
    BY <1>1 DEF BuildInv
  <2>3. QED
    BY <1>1, <1>4, <2>1, <2>2 DEF Filled
<1>8. /\ origin'[Directories[dest']] = history' /\ todo' \subseteq Contains(Directories[dest'])
      /\ \A a \in Contains(Directories[dest']) : dist'[a] = IF a \in todo' THEN Absent ELSE first'[a]
  BY <1>1, <1>2, <1>4 DEF here
<1>9. QED
  BY <1>1, <1>4, <1>5, <1>6, <1>7, <1>8 DEF BuildInv, BuildTypeOK, AcceptedOfOneBuild

\* What is copied is what was collected.
LEMMA CopyArchiveInv ==
  ASSUME BuildInv, NEW a \in ArchiveNames, CopyArchive(a)
  PROVE  BuildInv'
<1> DEFINE here == Contains(Directories[dest])
<1>1. /\ pc = "copy" /\ pc' = pc /\ report = FALSE /\ a \in todo /\ todo' = todo \ {a}
      /\ todo \subseteq here /\ dest \in DOMAIN Directories
      /\ origin[Directories[dest]] = history /\ Collected
      /\ UNCHANGED <<content, pc, first, second, dest, report, history, origin>>
  BY DEF CopyArchive, BuildInv, BuildTypeOK
<1>2. /\ DOMAIN dist' = ArchiveNames
      /\ \A b \in ArchiveNames : dist'[b] = IF b = a THEN first[a] ELSE dist[b]
  BY DEF CopyArchive, BuildInv, BuildTypeOK
<1>3. here \subseteq ArchiveNames
  BY <1>1, ContainsAssumption, DirectoriesTyped
<1>4. \A b \in here : dist'[b] = IF b \in todo' THEN Absent ELSE first[b]
  BY <1>1, <1>2, <1>3 DEF BuildInv
<1>5. DirectoriesOfOneBuild'
  <2> SUFFICES ASSUME NEW d \in DirectoryNames, NEW b \in Contains(d), dist'[b] \notin {Absent, Torn}
      PROVE  \A f \in Reads(b) : Explains(origin[d], f, dist'[b][f])
    BY <1>1 DEF DirectoriesOfOneBuild, OfBuild, Present
  <2>1. b \in ArchiveNames
    BY ContainsAssumption
  <2>2. CASE d = Directories[dest]
    <3>1. dist'[b] = first[b]
      BY <1>4, <2>2
    <3>2. QED
      BY <1>1, <2>1, <2>2, <3>1 DEF Collected
  <2>3. CASE d # Directories[dest]
    <3>1. b # a
      BY <1>1, <2>3, ContainsAssumption, DirectoriesTyped
    <3>2. dist'[b] = dist[b]
      BY <1>2, <2>1, <3>1
    <3>3. QED
      BY <3>2 DEF BuildInv, DirectoriesOfOneBuild, Present, OfBuild
  <2>4. QED
    BY <2>2, <2>3
<1>6. \A i \in DOMAIN Directories : i < dest => Filled(Directories[i])'
  <2> SUFFICES ASSUME NEW i \in DOMAIN Directories, i < dest PROVE Filled(Directories[i])'
    OBVIOUS
  <2>1. i # dest
    BY DirectoriesTyped, <1>1
  <2>2. origin[Directories[i]] = history /\ \A b \in Contains(Directories[i]) : dist[b] = first[b]
    BY <1>1 DEF BuildInv, Filled
  <2>3. \A b \in Contains(Directories[i]) : b # a /\ b \in ArchiveNames
    BY <2>1, <1>1, OtherDirectories, ContainsAssumption, DirectoriesTyped
  <2>4. QED
    BY <1>1, <1>2, <2>2, <2>3 DEF Filled
<1>7. Collected'
  BY <1>1 DEF Collected
<1>8. /\ todo' \subseteq Contains(Directories[dest']) /\ origin'[Directories[dest']] = history'
      /\ \A b \in Contains(Directories[dest']) : dist'[b] = IF b \in todo' THEN Absent ELSE first'[b]
  BY <1>1, <1>4
<1> HIDE DEF here
<1>9. QED
  BY <1>1, <1>2, <1>5, <1>6, <1>7, <1>8 DEF BuildInv, BuildTypeOK, AcceptedOfOneBuild

LEMMA EndCopyInv ==
  ASSUME BuildInv, EndCopy
  PROVE  BuildInv'
<1>1. DirectoriesOfOneBuild'
  BY SameDirectories DEF BuildInv, EndCopy
<1>2. /\ pc = "copy" /\ todo = {} /\ report = FALSE /\ dest \in DOMAIN Directories
      /\ Collected /\ UNCHANGED <<content, dist, origin>>
  BY DEF EndCopy, BuildInv, BuildTypeOK
<1>3. \A i \in DOMAIN Directories : i <= dest => Filled(Directories[i])
  <2> SUFFICES ASSUME NEW i \in DOMAIN Directories, i <= dest PROVE Filled(Directories[i])
    OBVIOUS
  <2>1. CASE i = dest
    BY <1>2, <2>1 DEF BuildInv, Filled
  <2>2. CASE i # dest
    BY <1>2, <2>2, DirectoriesTyped DEF BuildInv
  <2>3. QED
    BY <2>1, <2>2
<1>4. CASE dest < Len(Directories)
  <2>1. pc' = "remove" /\ dest' = dest + 1 /\ UNCHANGED <<todo, first, second, report, history>>
    BY <1>4 DEF EndCopy
  <2>2. dest' \in DOMAIN Directories /\ \A i \in DOMAIN Directories : i < dest' => i <= dest
    BY <1>2, <1>4, <2>1, DirectoriesTyped
  <2>3. Collected' /\ \A i \in DOMAIN Directories : i < dest' => Filled(Directories[i])'
    BY <1>2, <1>3, <2>1, <2>2 DEF Collected, Filled
  <2>4. dest' \in Nat
    BY <2>2, DirectoriesTyped
  <2>5. QED
    BY <1>1, <1>2, <2>1, <2>2, <2>3, <2>4 DEF BuildInv, BuildTypeOK, AcceptedOfOneBuild
<1>5. CASE ~(dest < Len(Directories))
  <2>1. End(TRUE)
    BY <1>5 DEF EndCopy
  <2>2. \A i \in DOMAIN Directories : Filled(Directories[i])
    BY <1>2, <1>3, <1>5, DirectoriesTyped
  <2>3. ASSUME NEW a \in ArchiveNames PROVE dist[a] = first[a]
    BY <2>2, ContainsAssumption DEF Filled, DirectoryNames
  <2>4. ASSUME NEW a \in ArchiveNames PROVE Present(a) /\ OfBuild(a, history)
    <3>1. first[a] \in [Reads(a) -> Contents]
      BY DEF BuildInv, BuildTypeOK
    <3>2. QED
      BY <1>2, <2>3, <3>1, ContentsAssumption DEF Present, OfBuild, Collected
  <2>5. Directories[1] \in DirectoryNames /\ origin[Directories[1]] = history
    BY <2>2, DirectoriesTyped DEF Filled
  <2>6. AcceptedOfOneBuild'
    BY <1>2, <2>4, <2>5 DEF AcceptedOfOneBuild, Present, OfBuild
  <2>7. BuildTypeOK'
    BY <1>2, <2>1, StartTyped DEF BuildInv, BuildTypeOK, End
  <2>8. QED
    BY <1>1, <1>2, <2>1, <2>6, <2>7 DEF BuildInv, End
<1>6. QED
  BY <1>4, <1>5

\* A build that dies leaves no archive that is not whole and of its build.
LEMMA CrashBuildInv ==
  ASSUME BuildInv, CrashBuild
  PROVE  BuildInv'
<1>1. End(FALSE) /\ UNCHANGED <<content, edits, origin>>
  BY DEF CrashBuild
<1>2. CASE dist' = dist
  BY <1>1, <1>2, SameDirectories, EndInv DEF BuildInv, BuildTypeOK
<1>3. CASE pc = "copy" /\ \E a \in todo : dist' = [dist EXCEPT ![a] = Torn]
  <2>1. PICK a \in todo : dist' = [dist EXCEPT ![a] = Torn]
    BY <1>3
  <2>2. DOMAIN dist' = ArchiveNames /\ \A b \in ArchiveNames : dist'[b] = IF b = a THEN Torn ELSE dist[b]
    BY <2>1 DEF BuildInv, BuildTypeOK
  <2>3. DirectoriesOfOneBuild'
    BY <1>1, <2>2, ContainsAssumption DEF BuildInv, DirectoriesOfOneBuild, Present, OfBuild
  <2>4. QED
    BY <1>1, <2>2, <2>3, EndInv
<1>4. QED
  BY <1>2, <1>3 DEF CrashBuild

-----------------------------------------------------------------------------
LEMMA BuildStep == BuildInv /\ [BuildNext]_buildVars => BuildInv'
<1> SUFFICES ASSUME BuildInv, [BuildNext]_buildVars PROVE BuildInv'
  OBVIOUS
<1>1. CASE \E f \in Sources : EditFile(f) \/ CheckFile(f)
  BY <1>1, EditFileInv, CheckFileInv
<1>2. CASE \E a \in ArchiveNames, f \in Sources : ReadFirst(a, f) \/ ReadSecond(a, f)
  BY <1>2, ReadFirstInv, ReadSecondInv
<1>3. CASE \E a \in ArchiveNames : RemoveArchive(a) \/ CopyArchive(a)
  BY <1>3, RemoveArchiveInv, CopyArchiveInv
<1>4. CASE StartBuild \/ StartFirst \/ StartSecond
  BY <1>4, StartBuildInv, StartFirstInv, StartSecondInv
<1>5. CASE Compare \/ StartCopy \/ EndCopy \/ CrashBuild
  BY <1>5, CompareInv, StartCopyInv, EndCopyInv, CrashBuildInv
<1>6. CASE UNCHANGED buildVars
  <2>1. DirectoriesOfOneBuild'
    BY <1>6, SameDirectories DEF BuildInv, buildVars
  <2>2. /\ Collected' = Collected /\ \A d : Filled(d)' = Filled(d)
        /\ FirstRead' = FirstRead /\ SecondRead' = SecondRead
    BY <1>6 DEF buildVars, Collected, Filled, FirstRead, SecondRead, Again
  <2>3. AcceptedOfOneBuild'
    BY <1>6 DEF BuildInv, AcceptedOfOneBuild, OfBuild, Present, buildVars
  <2>4. BuildTypeOK'
    BY <1>6 DEF BuildInv, BuildTypeOK, buildVars
  <2>5. QED
    BY <1>6, <2>1, <2>2, <2>3, <2>4 DEF BuildInv, buildVars
<1>7. QED
  BY <1>1, <1>2, <1>3, <1>4, <1>5, <1>6 DEF BuildNext

LEMMA BuildInvariant == BuildSpec => []BuildInv
<1>1. BuildInit => BuildInv
  BY BuildInitInv
<1>2. BuildInv /\ [BuildNext]_buildVars => BuildInv'
  BY BuildStep
<1>3. QED
  BY <1>1, <1>2, PTL DEF BuildSpec

\* The whole archives of a package directory are always of the build that last
\* filled it, and of one moment of it but for files changed and changed back,
\* for any sources, contents, archives and directories.
THEOREM BuildDirectoriesOfOneBuild == BuildSpec => []DirectoriesOfOneBuild
<1>1. BuildInv => DirectoriesOfOneBuild
  BY DEF BuildInv
<1>2. QED
  BY <1>1, BuildInvariant, PTL

\* What is accepted is whole, and of one build and one moment over all
\* directories, but for files that were changed and changed back.
THEOREM BuildAcceptedOfOneBuild == BuildSpec => []AcceptedOfOneBuild
<1>1. BuildInv => AcceptedOfOneBuild
  BY DEF BuildInv
<1>2. QED
  BY <1>1, BuildInvariant, PTL
-----------------------------------------------------------------------------
(* The wheel of the compatibility package.                                 *)

(* What a run that verifies knows of the files, while it reads them and    *)
(* after it has compared what it read.                                     *)
ReadAgain(r, f) == IF f <= builds[r].at THEN {builds[r].again[f]} ELSE {}

ReadingInv(r) ==
  /\ builds[r].phase = "idle" => builds[r].at = 0
  /\ builds[r].phase \in {"first", "second"} /\ builds[r].kind # "build" =>
       \A f \in Files : sources[f] \in seen[r].had[f]
  /\ builds[r].phase = "first" /\ builds[r].kind # "build" =>
       \A f \in Files : f <= builds[r].at => builds[r].wheel[f] \in seen[r].had[f]
  /\ builds[r].phase = "second" =>
       /\ builds[r].kind # "build"
       /\ \A f \in Files : Told(seen[r], f, builds[r].wheel[f], sources[f], ReadAgain(r, f))
  /\ builds[r].phase \in {"check", "open", "write", "accepted"} /\ builds[r].kind # "build" =>
       \A f \in Files : Explains(seen[r], f, builds[r].wheel[f])

(* The runs that create the artifact found none.                           *)
OpenersInv ==
  /\ \A r \in openers : builds[r].phase \in {"open", "write", "accepted", "refused"}
  /\ \A r \in Runs : builds[r].phase \in {"open", "write"} => r \in openers

(* Of the runs that emptied the artifact the last one has written every    *)
(* member it has got to since.                                             *)
FilledBy(r) ==
  /\ builds[r].phase \in {"write", "accepted", "refused"}
  /\ builds[r].phase = "accepted" => builds[r].at = Members
  /\ \A f \in Files : f <= builds[r].at => output[f] # Hole

OutputInv ==
  placed =>
    /\ \A f \in Files : output[f] # Hole => \E r \in openers : output[f] = builds[r].wheel[f]
    /\ \E r \in openers : FilledBy(r)

CompatInv ==
  CompatTypeOK /\ (\A r \in Runs : ReadingInv(r)) /\ OpenersInv /\ OutputInv

LEMMA ZeroMembers == 0 \in 0..Members
BY MembersAssumption

LEMMA EmptyTyped ==
  /\ EmptyWheel \in [Files -> Texts]
  /\ Opened(EmptyWheel) \in ReadingsOf(Files, Texts)
<1>1. EmptyWheel \in [Files -> Texts]
  BY TextsAssumption DEF EmptyWheel
<1> QED
  BY <1>1, OpenedReadings

LEMMA CompatInitOK == CompatInit => CompatInv
<1> SUFFICES ASSUME CompatInit PROVE CompatInv
  OBVIOUS
<1> DEFINE start == [kind |-> "none", phase |-> "idle", at |-> 0,
                     wheel |-> EmptyWheel, again |-> EmptyWheel]
<1>1. start.phase = "idle" /\ start.at = 0
  OBVIOUS
<1>2. start \in Run
  BY EmptyTyped, ZeroMembers DEF Run
<1>3. builds = [r \in Runs |-> start]
  BY DEF CompatInit
<1> HIDE DEF start
<1>4. builds \in [Runs -> Run] /\ \A r \in Runs : builds[r].phase = "idle" /\ builds[r].at = 0
  BY <1>1, <1>2, <1>3
<1>5. /\ seen \in [Runs -> ReadingsOf(Files, Texts)] /\ output \in [Files -> Texts \cup {Hole}]
  BY EmptyTyped DEF CompatInit, NothingWritten
<1>6. sources = EmptyWheel /\ changes = 0 /\ placed = FALSE /\ openers = {}
  BY DEF CompatInit
<1>7. CompatTypeOK
  <2>1. changes \in 0..MaxChanges
    BY <1>6, MaxChangesAssumption
  <2>2. placed \in BOOLEAN /\ openers \in SUBSET Runs /\ sources \in [Files -> Texts]
    BY <1>6, EmptyTyped
  <2> QED
    BY <1>4, <1>5, <2>1, <2>2 DEF CompatTypeOK
<1>8. ASSUME NEW r \in Runs PROVE ReadingInv(r)
  BY <1>4 DEF ReadingInv
<1>9. OpenersInv /\ OutputInv
  BY <1>4, <1>6 DEF OpenersInv, OutputInv
<1> QED
  BY <1>7, <1>8, <1>9 DEF CompatInv

LEMMA ChangeOK ==
  ASSUME CompatInv, NEW f \in Files, Change(f)
  PROVE  CompatInv'
<1>1. PICK text \in Texts :
        /\ sources' = [sources EXCEPT ![f] = text]
        /\ seen' = [r \in Runs |-> IF Reading(r) THEN Changed(seen[r], f, text) ELSE seen[r]]
  BY DEF Change
<1>2. /\ UNCHANGED <<placed, output, builds, openers>> /\ changes' \in 0..MaxChanges
      /\ sources \in [Files -> Texts] /\ seen \in [Runs -> ReadingsOf(Files, Texts)]
  BY MaxChangesAssumption DEF Change, CompatInv, CompatTypeOK
<1>3. /\ sources' \in [Files -> Texts]
      /\ \A g \in Files : sources'[g] = IF g = f THEN text ELSE sources[g]
  BY <1>1, <1>2
<1>4. \A r \in Runs : seen'[r] = IF Reading(r) THEN Changed(seen[r], f, text) ELSE seen[r]
  BY <1>1
<1>5. \A r \in Runs :
        /\ Changed(seen[r], f, text) \in ReadingsOf(Files, Texts)
        /\ \A g \in Files : seen[r].had[g] \subseteq Changed(seen[r], f, text).had[g]
        /\ text \in Changed(seen[r], f, text).had[f]
  BY <1>2, ChangedReadings
<1>6. CompatTypeOK'
  <2>1. seen' \in [Runs -> ReadingsOf(Files, Texts)]
    BY <1>1, <1>2, <1>5
  <2> QED
    BY <1>2, <1>3, <2>1 DEF CompatInv, CompatTypeOK
<1>7. ASSUME NEW r \in Runs PROVE ReadingInv(r)'
  <2>1. ReadingInv(r) /\ builds' = builds /\ seen[r] \in ReadingsOf(Files, Texts)
    BY <1>2 DEF CompatInv
  <2>2. CASE ~Reading(r)
    <3>1. seen'[r] = seen[r] /\ builds[r].phase # "second"
      BY <1>4, <2>1, <2>2 DEF Reading, ReadingInv
    <3> QED
      BY <2>1, <2>2, <3>1 DEF Reading, ReadingInv
  <2>3. CASE Reading(r)
    <3>1. seen'[r] = Changed(seen[r], f, text)
      BY <1>4, <2>3
    <3>2. \A g \in Files : sources'[g] \in seen'[r].had[g]
      BY <1>3, <1>5, <2>1, <2>3, <3>1 DEF Reading, ReadingInv
    <3>3. builds[r].phase = "first" =>
            \A g \in Files : g <= builds[r].at => builds[r].wheel[g] \in seen'[r].had[g]
      BY <1>5, <2>1, <2>3, <3>1 DEF Reading, ReadingInv
    <3>4. ASSUME builds[r].phase = "second", NEW g \in Files
          PROVE  Told(seen'[r], g, builds[r].wheel[g], sources'[g], ReadAgain(r, g))
      <4>1. Told(seen[r], g, builds[r].wheel[g], sources[g], ReadAgain(r, g))
        BY <2>1, <3>4 DEF ReadingInv
      <4>2. Told(Changed(seen[r], f, text), g, builds[r].wheel[g],
                 IF g = f THEN text ELSE sources[g], ReadAgain(r, g))
        BY <2>1, <4>1, ToldOnChange
      <4> QED
        BY <1>3, <3>1, <4>2
    <3>5. \A g \in Files : ReadAgain(r, g)' = ReadAgain(r, g)
      BY <2>1 DEF ReadAgain
    <3> QED
      BY <2>1, <2>3, <3>2, <3>3, <3>4, <3>5 DEF Reading, ReadingInv
  <2> QED
    BY <2>2, <2>3
<1>8. OpenersInv' /\ OutputInv'
  BY <1>2 DEF CompatInv, OpenersInv, OutputInv, FilledBy
<1> QED
  BY <1>6, <1>7, <1>8 DEF CompatInv

(* What holds of the run that takes a step, of the other runs, and of what *)
(* it leaves alone.                                                        *)
LEMMA RunAndOthers ==
  ASSUME CompatInv, NEW r \in Runs, NEW run \in Run, Becomes(r, run)
  PROVE  /\ builds'[r] = run /\ builds' \in [Runs -> Run]
         /\ \A s \in Runs : s # r => builds'[s] = builds[s]
         /\ UNCHANGED <<sources, changes>>
         /\ builds[r] \in Run /\ sources \in [Files -> Texts]
         /\ seen[r] \in ReadingsOf(Files, Texts)
         /\ ReadingInv(r)
BY DEF Becomes, CompatInv, CompatTypeOK

(* A step that leaves the artifact and what the other runs saw alone, and  *)
(* keeps the wheel of a run that may have written to the artifact.         *)
Aside(r) ==
  /\ UNCHANGED <<placed, output, openers>>
  /\ seen' \in [Runs -> ReadingsOf(Files, Texts)]
  /\ \A s \in Runs : s # r => seen'[s] = seen[s]

LEMMA ApartIsAside ==
  ASSUME CompatInv, NEW r \in Runs, Apart
  PROVE  Aside(r)
BY DEF CompatInv, CompatTypeOK, Apart, Aside

LEMMA ApartStep ==
  ASSUME CompatInv, NEW r \in Runs, NEW run \in Run, Becomes(r, run), Aside(r),
         ReadingInv(r)',
         r \in openers =>
           /\ run.wheel = builds[r].wheel /\ run.at = builds[r].at
           /\ run.phase = builds[r].phase \/ run.phase = "refused"
              \/ (run.phase = "accepted" /\ run.at = Members),
         r \in openers => builds[r].phase = "write" \/ run.phase = "refused",
         run.phase \in {"open", "write"} => r \in openers
  PROVE  CompatInv'
<1>1. /\ builds'[r] = run /\ builds' \in [Runs -> Run]
      /\ \A s \in Runs : s # r => builds'[s] = builds[s]
      /\ UNCHANGED <<sources, changes, placed, output, openers>>
      /\ seen' \in [Runs -> ReadingsOf(Files, Texts)]
      /\ \A s \in Runs : s # r => seen'[s] = seen[s]
  BY RunAndOthers DEF Aside
<1>2. CompatTypeOK'
  BY <1>1 DEF CompatInv, CompatTypeOK
<1>3. \A s \in Runs : ReadingInv(s)'
  BY <1>1 DEF CompatInv, ReadingInv, ReadAgain
<1>4. OpenersInv'
  BY <1>1 DEF CompatInv, OpenersInv, CompatTypeOK
<1>5. \A s \in openers : s \in Runs /\ builds'[s].wheel = builds[s].wheel
  BY <1>1 DEF CompatInv, CompatTypeOK
<1>6. \A s \in openers : FilledBy(s) => FilledBy(s)'
  BY <1>1, <1>5 DEF FilledBy
<1>7. OutputInv'
  BY <1>1, <1>5, <1>6 DEF CompatInv, OutputInv
<1> QED
  BY <1>2, <1>3, <1>4, <1>7 DEF CompatInv

LEMMA CompatBeginOK ==
  ASSUME CompatInv, NEW r \in Runs, NEW kind \in Kinds, Begin(r, kind)
  PROVE  CompatInv'
<1> DEFINE run == [builds[r] EXCEPT !.kind = kind, !.phase = "first"]
           files == IF kind = "build" THEN EmptyWheel ELSE sources
<1>1. /\ builds[r] \in Run /\ builds[r].phase = "idle" /\ r \notin openers /\ ReadingInv(r)
      /\ sources \in [Files -> Texts] /\ seen \in [Runs -> ReadingsOf(Files, Texts)]
  BY DEF CompatInv, CompatTypeOK, OpenersInv, Begin
<1>2. run \in Run /\ run.phase = "first" /\ run.kind = kind /\ run.at = 0
  BY <1>1 DEF Run, ReadingInv
<1>3. Becomes(r, run) /\ seen' = [seen EXCEPT ![r] = Opened(files)] /\ UNCHANGED <<placed, output, openers>>
  BY DEF Begin
<1>4. Opened(files) \in ReadingsOf(Files, Texts) /\ \A f \in Files : files[f] \in Opened(files).had[f]
  BY <1>1, EmptyTyped, OpenedReadings
<1>5. kind # "build" => files = sources
  OBVIOUS
<1> HIDE DEF run, files
<1>6. Aside(r) /\ seen'[r] = Opened(files)
  BY <1>1, <1>3, <1>4 DEF Aside
<1>7. ReadingInv(r)'
  <2>1. builds'[r] = run /\ sources' = sources
    BY <1>2, <1>3, RunAndOthers
  <2>2. \A f \in Files : ~(f <= 0)
    BY DEF Files
  <2> QED
    BY <1>2, <1>4, <1>5, <1>6, <2>1, <2>2 DEF ReadingInv
<1> QED
  BY <1>1, <1>2, <1>3, <1>6, <1>7, ApartStep

LEMMA RefuseOK ==
  ASSUME CompatInv, NEW r \in Runs, Refuse(r)
  PROVE  CompatInv'
<1> DEFINE run == [builds[r] EXCEPT !.phase = "refused"]
<1>1. builds[r] \in Run /\ seen \in [Runs -> ReadingsOf(Files, Texts)]
  BY DEF CompatInv, CompatTypeOK
<1>2. run \in Run /\ run.phase = "refused" /\ run.wheel = builds[r].wheel /\ run.at = builds[r].at
  BY <1>1 DEF Run
<1>3. Becomes(r, run) /\ Aside(r)
  BY <1>1, EmptyTyped DEF Refuse, Aside
<1> HIDE DEF run
<1>4. ReadingInv(r)'
  BY <1>2, <1>3, RunAndOthers DEF ReadingInv
<1> QED
  BY <1>2, <1>3, <1>4, ApartStep

LEMMA AcceptOK ==
  ASSUME CompatInv, NEW r \in Runs, Accept(r)
  PROVE  CompatInv'
<1> DEFINE run == [builds[r] EXCEPT !.phase = "accepted"]
<1>1. builds[r] \in Run /\ builds[r].phase = "write" /\ builds[r].at = Members
      /\ r \in openers /\ ReadingInv(r)
  BY DEF CompatInv, CompatTypeOK, OpenersInv, Accept, Written
<1>2. run \in Run /\ run.phase = "accepted" /\ run.wheel = builds[r].wheel
      /\ run.at = builds[r].at /\ run.kind = builds[r].kind
  BY <1>1 DEF Run
<1>3. Becomes(r, run) /\ Apart
  BY DEF Accept
<1> HIDE DEF run
<1>4. ReadingInv(r)'
  BY <1>1, <1>2, <1>3, RunAndOthers DEF ReadingInv, Apart
<1> QED
  BY <1>1, <1>2, <1>3, <1>4, ApartIsAside, ApartStep

LEMMA ReadMemberOK ==
  ASSUME CompatInv, NEW r \in Runs, ReadMember(r)
  PROVE  CompatInv'
<1> DEFINE next == builds[r].at + 1
           run == IF builds[r].phase = "first"
                  THEN [builds[r] EXCEPT !.at = next, !.wheel[next] = sources[next]]
                  ELSE [builds[r] EXCEPT !.at = next, !.again[next] = sources[next]]
<1>1. /\ builds[r] \in Run /\ builds[r].phase \in {"first", "second"} /\ r \notin openers
      /\ ReadingInv(r) /\ next \in Files /\ sources \in [Files -> Texts]
  BY DEF CompatInv, CompatTypeOK, OpenersInv, ReadMember
<1>2. builds[r].wheel \in [Files -> Texts] /\ builds[r].again \in [Files -> Texts]
      /\ builds[r].at \in 0..Members /\ next \in 1..Members
  BY <1>1 DEF Run, Files
<1>3. run \in Run /\ run.phase = builds[r].phase /\ run.kind = builds[r].kind /\ run.at = next
  <2>1. next \in 0..Members /\ sources[next] \in Texts
    BY <1>1, <1>2, MembersAssumption
  <2>2. [builds[r].wheel EXCEPT ![next] = sources[next]] \in [Files -> Texts]
        /\ [builds[r].again EXCEPT ![next] = sources[next]] \in [Files -> Texts]
    BY <1>1, <1>2, <2>1
  <2> HIDE DEF next
  <2> QED
    BY <1>1, <2>1, <2>2 DEF Run
<1>4. Becomes(r, run) /\ Apart
  BY DEF ReadMember
<1>5. \A f \in Files : f <= next => f = next \/ f <= builds[r].at
  BY <1>2 DEF Files
<1>6. CASE builds[r].phase = "first"
  <2>1. run.wheel = [builds[r].wheel EXCEPT ![next] = sources[next]]
    BY <1>1, <1>6 DEF Run
  <2> HIDE DEF run, next
  <2>2. \A f \in Files : run.wheel[f] = IF f = next THEN sources[f] ELSE builds[r].wheel[f]
    BY <1>1, <1>2, <2>1
  <2>3. builds'[r] = run /\ seen' = seen /\ sources' = sources
    BY <1>3, <1>4, RunAndOthers DEF Apart
  <2>4. run.kind # "build" => \A f \in Files : f <= next => run.wheel[f] \in seen[r].had[f]
    BY <1>1, <1>3, <1>5, <1>6, <2>2 DEF ReadingInv
  <2>5. ReadingInv(r)'
    BY <1>1, <1>3, <1>6, <2>3, <2>4 DEF ReadingInv
  <2> QED
    BY <1>1, <1>3, <1>4, <1>6, <2>5, ApartIsAside, ApartStep
<1>7. CASE builds[r].phase = "second"
  <2>1. /\ run.again = [builds[r].again EXCEPT ![next] = sources[next]]
        /\ run.wheel = builds[r].wheel
    BY <1>1, <1>7 DEF Run
  <2> HIDE DEF run, next
  <2>2. builds'[r] = run /\ seen' = seen /\ sources' = sources
    BY <1>3, <1>4, RunAndOthers DEF Apart
  <2>3. ASSUME NEW f \in Files
        PROVE  Told(seen[r], f, builds[r].wheel[f], sources[f], ReadAgain(r, f)')
    <3>1. Told(seen[r], f, builds[r].wheel[f], sources[f], ReadAgain(r, f))
      BY <1>1, <1>7 DEF ReadingInv
    <3>2. CASE f = next
      <4>1. f \in Nat /\ f <= next
        BY <1>2, <3>2 DEF Files
      <4>2. ReadAgain(r, f)' = {sources[f]}
        BY <1>1, <1>2, <1>3, <2>1, <2>2, <3>2, <4>1 DEF ReadAgain
      <4> QED
        BY <3>1, <4>2, ToldOnReading
    <3>3. CASE f # next
      <4>1. run.again[f] = builds[r].again[f]
        BY <1>1, <1>2, <2>1, <3>3
      <4>2. f <= next <=> f <= builds[r].at
        BY <1>2, <3>3 DEF Files, next
      <4>3. ReadAgain(r, f)' = ReadAgain(r, f)
        BY <1>3, <2>2, <4>1, <4>2 DEF ReadAgain
      <4> QED
        BY <3>1, <4>3
    <3> QED
      BY <3>2, <3>3
  <2>4. ReadingInv(r)'
    <3>1. run.wheel = builds[r].wheel /\ run.phase = "second" /\ run.kind = builds[r].kind
      BY <1>3, <1>7, <2>1
    <3> QED
      BY <1>1, <1>7, <2>2, <2>3, <3>1 DEF ReadingInv
  <2> QED
    BY <1>1, <1>3, <1>4, <1>7, <2>4, ApartIsAside, ApartStep
<1> QED
  BY <1>1, <1>6, <1>7

LEMMA WheelReadOK ==
  ASSUME CompatInv, NEW r \in Runs, WheelRead(r)
  PROVE  CompatInv'
<1>1. /\ builds[r] \in Run /\ builds[r].phase = "first" /\ builds[r].at = Members
      /\ r \notin openers
      /\ ReadingInv(r) /\ sources \in [Files -> Texts]
      /\ seen \in [Runs -> ReadingsOf(Files, Texts)]
      /\ UNCHANGED <<placed, output, openers>>
  BY DEF CompatInv, CompatTypeOK, OpenersInv, WheelRead
<1>2. CASE builds[r].kind = "build"
  <2> DEFINE run == [builds[r] EXCEPT !.phase = "check", !.at = 0]
  <2>1. run \in Run /\ run.phase = "check" /\ run.kind = "build"
    BY <1>1, <1>2, ZeroMembers DEF Run
  <2>2. Becomes(r, run) /\ Apart
    BY <1>2 DEF WheelRead, Apart
  <2> HIDE DEF run
  <2>3. ReadingInv(r)'
    BY <2>1, <2>2, RunAndOthers DEF ReadingInv, Apart
  <2> QED
    BY <1>1, <2>1, <2>2, <2>3, ApartIsAside, ApartStep
<1>3. CASE builds[r].kind # "build"
  <2> DEFINE run == [builds[r] EXCEPT !.phase = "second", !.at = 0]
  <2>1. /\ run \in Run /\ run.phase = "second" /\ run.wheel = builds[r].wheel /\ run.at = 0
        /\ run.kind # "build"
    BY <1>1, <1>3, ZeroMembers DEF Run
  <2>2. Becomes(r, run) /\ seen' = [seen EXCEPT ![r] = Halved(seen[r], sources)]
    BY <1>3 DEF WheelRead
  <2> HIDE DEF run
  <2>3. builds'[r] = run /\ sources' = sources
    BY <2>1, <2>2, RunAndOthers
  <2>4. /\ seen[r] \in ReadingsOf(Files, Texts)
        /\ Halved(seen[r], sources) \in ReadingsOf(Files, Texts)
        /\ Halved(seen[r], sources).had = seen[r].had
        /\ \A f \in Files : \A text \in seen[r].had[f] :
             Told(Halved(seen[r], sources), f, text, sources[f], {})
    BY <1>1, HalvedReadings
  <2>5. Aside(r) /\ seen'[r] = Halved(seen[r], sources)
    BY <1>1, <2>2, <2>4 DEF Aside
  <2>6. \A f \in Files : ~(f <= 0) /\ f <= Members
    BY MembersAssumption DEF Files
  <2>7. \A f \in Files : builds[r].wheel[f] \in seen[r].had[f] /\ sources[f] \in seen[r].had[f]
    BY <1>1, <1>3, <2>6 DEF ReadingInv
  <2>8. \A f \in Files : ReadAgain(r, f)' = {}
    BY <2>1, <2>3, <2>6 DEF ReadAgain
  <2>9. ReadingInv(r)'
    BY <2>1, <2>3, <2>4, <2>5, <2>7, <2>8 DEF ReadingInv
  <2> QED
    BY <1>1, <2>1, <2>2, <2>5, <2>9, ApartStep
<1> QED
  BY <1>2, <1>3

LEMMA CompareWheelsOK ==
  ASSUME CompatInv, NEW r \in Runs, CompareWheels(r)
  PROVE  CompatInv'
<1> DEFINE phase == IF ~SameWheels(builds[r]) THEN "refused"
                    ELSE IF builds[r].kind = "dry" THEN "accepted"
                    ELSE "check"
           run == [builds[r] EXCEPT !.at = 0, !.phase = phase]
<1>1. /\ builds[r] \in Run /\ builds[r].phase = "second" /\ builds[r].at = Members
      /\ r \notin openers /\ ReadingInv(r)
  BY DEF CompatInv, CompatTypeOK, OpenersInv, CompareWheels
<1>2. phase \in {"refused", "accepted", "check"}
  OBVIOUS
<1>3. ASSUME phase # "refused", NEW f \in Files
      PROVE  Explains(seen[r], f, builds[r].wheel[f])
  <2>1. builds[r].wheel = builds[r].again
    BY <1>3 DEF SameWheels
  <2>2. ReadAgain(r, f) = {builds[r].wheel[f]}
    BY <1>1, <2>1, MembersAssumption DEF Files, ReadAgain
  <2>3. Told(seen[r], f, builds[r].wheel[f], sources[f], {builds[r].wheel[f]})
    BY <1>1, <2>2 DEF ReadingInv
  <2> QED
    BY <2>3, ToldTheSame
<1> HIDE DEF phase
<1>4. run \in Run /\ run.phase = phase /\ run.wheel = builds[r].wheel
  BY <1>1, <1>2, ZeroMembers DEF Run
<1>5. Becomes(r, run) /\ Apart
  BY DEF CompareWheels, phase
<1> HIDE DEF run
<1>6. ReadingInv(r)'
  BY <1>2, <1>3, <1>4, <1>5, RunAndOthers DEF ReadingInv, Apart
<1> QED
  BY <1>1, <1>2, <1>4, <1>5, <1>6, ApartIsAside, ApartStep

LEMMA CheckOutputOK ==
  ASSUME CompatInv, NEW r \in Runs, CheckOutput(r)
  PROVE  CompatInv'
<1> DEFINE run == [builds[r] EXCEPT !.phase = IF Occupied THEN "refused" ELSE "open"]
<1>1. /\ builds[r] \in Run /\ builds[r].phase = "check" /\ r \notin openers
      /\ openers \subseteq Runs /\ ReadingInv(r) /\ Becomes(r, run)
      /\ UNCHANGED <<placed, output, seen>>
      /\ openers' = IF placed THEN openers ELSE openers \cup {r}
  BY DEF CompatInv, CompatTypeOK, OpenersInv, CheckOutput
<1>2. run \in Run /\ run.wheel = builds[r].wheel /\ run.kind = builds[r].kind
      /\ run.phase = IF placed THEN "refused" ELSE "open"
  BY <1>1 DEF Run, Occupied
<1> HIDE DEF run
<1>3. /\ builds'[r] = run /\ builds' \in [Runs -> Run]
      /\ \A s \in Runs : s # r => builds'[s] = builds[s]
      /\ UNCHANGED <<sources, changes>>
  BY <1>1, <1>2, RunAndOthers
<1>4. ReadingInv(r)'
  BY <1>1, <1>2, <1>3 DEF ReadingInv
<1>5. \A s \in Runs : ReadingInv(s)'
  BY <1>1, <1>3, <1>4 DEF CompatInv, ReadingInv, ReadAgain
<1>6. CompatTypeOK'
  BY <1>1, <1>3 DEF CompatInv, CompatTypeOK
<1>7. OpenersInv'
  BY <1>1, <1>2, <1>3 DEF CompatInv, OpenersInv
<1>8. OutputInv'
  <2>1. SUFFICES ASSUME placed PROVE OutputInv'
    BY <1>1 DEF OutputInv
  <2>2. openers' = openers /\ \A s \in openers : s \in Runs /\ builds'[s] = builds[s]
    BY <1>1, <1>3, <2>1
  <2> QED
    BY <1>1, <2>2 DEF CompatInv, OutputInv, FilledBy
<1> QED
  BY <1>5, <1>6, <1>7, <1>8 DEF CompatInv

LEMMA OpenOK ==
  ASSUME CompatInv, NEW r \in Runs, Open(r)
  PROVE  CompatInv'
<1> DEFINE run == [builds[r] EXCEPT !.phase = "write", !.at = 0]
<1>1. /\ builds[r] \in Run /\ builds[r].phase = "open" /\ r \in openers
      /\ openers \subseteq Runs /\ ReadingInv(r) /\ Becomes(r, run)
      /\ UNCHANGED <<seen, openers>> /\ placed' = TRUE /\ output' = NothingWritten
  BY DEF CompatInv, CompatTypeOK, OpenersInv, Open
<1>2. run \in Run /\ run.phase = "write" /\ run.wheel = builds[r].wheel /\ run.at = 0
      /\ run.kind = builds[r].kind
  BY <1>1, ZeroMembers DEF Run
<1> HIDE DEF run
<1>3. /\ builds'[r] = run /\ builds' \in [Runs -> Run]
      /\ \A s \in Runs : s # r => builds'[s] = builds[s]
      /\ UNCHANGED <<sources, changes>>
  BY <1>1, <1>2, RunAndOthers
<1>4. ReadingInv(r)'
  BY <1>1, <1>2, <1>3 DEF ReadingInv
<1>5. \A s \in Runs : ReadingInv(s)'
  BY <1>1, <1>3, <1>4 DEF CompatInv, ReadingInv, ReadAgain
<1>6. NothingWritten \in [Files -> Texts \cup {Hole}] /\ \A f \in Files : NothingWritten[f] = Hole
  BY DEF NothingWritten
<1>7. CompatTypeOK'
  BY <1>1, <1>3, <1>6 DEF CompatInv, CompatTypeOK
<1>8. OpenersInv'
  BY <1>1, <1>2, <1>3 DEF CompatInv, OpenersInv
<1>9. \A f \in Files : ~(f <= 0)
  BY DEF Files
<1>10. FilledBy(r)'
  BY <1>1, <1>2, <1>3, <1>9 DEF FilledBy
<1>11. OutputInv'
  BY <1>1, <1>6, <1>10 DEF OutputInv
<1> QED
  BY <1>5, <1>7, <1>8, <1>11 DEF CompatInv

LEMMA WriteMemberOK ==
  ASSUME CompatInv, NEW r \in Runs, WriteMember(r)
  PROVE  CompatInv'
<1> DEFINE next == builds[r].at + 1
           run == [builds[r] EXCEPT !.at = next]
<1>1. /\ builds[r] \in Run /\ builds[r].phase = "write" /\ r \in openers
      /\ openers \subseteq Runs /\ ReadingInv(r) /\ Becomes(r, run) /\ next \in Files
      /\ UNCHANGED <<placed, seen, openers>>
      /\ output' = [output EXCEPT ![next] = builds[r].wheel[next]]
      /\ output \in [Files -> Texts \cup {Hole}]
  BY DEF CompatInv, CompatTypeOK, OpenersInv, WriteMember
<1>2. builds[r].at \in 0..Members /\ next \in 0..Members /\ builds[r].wheel[next] \in Texts
  BY <1>1, MembersAssumption DEF Run, Files
<1>3. \A f \in Files : f <= next => f = next \/ f <= builds[r].at
  BY <1>2 DEF Files
<1> HIDE DEF next
<1>4. run \in Run /\ run.phase = "write" /\ run.wheel = builds[r].wheel /\ run.at = next
      /\ run.kind = builds[r].kind
  BY <1>1, <1>2 DEF Run
<1> HIDE DEF run
<1>5. /\ builds'[r] = run /\ builds' \in [Runs -> Run]
      /\ \A s \in Runs : s # r => builds'[s] = builds[s]
      /\ UNCHANGED <<sources, changes>>
  BY <1>1, <1>4, RunAndOthers
<1>6. ReadingInv(r)'
  BY <1>1, <1>4, <1>5 DEF ReadingInv
<1>7. \A s \in Runs : ReadingInv(s)'
  BY <1>1, <1>5, <1>6 DEF CompatInv, ReadingInv, ReadAgain
<1>8. /\ output' \in [Files -> Texts \cup {Hole}]
      /\ output'[next] = builds[r].wheel[next] /\ output'[next] # Hole
      /\ \A f \in Files : f # next => output'[f] = output[f]
  BY <1>1, <1>2, TextsAssumption DEF Hole
<1>9. CompatTypeOK'
  BY <1>1, <1>5, <1>8 DEF CompatInv, CompatTypeOK
<1>10. OpenersInv'
  BY <1>1, <1>4, <1>5 DEF CompatInv, OpenersInv
<1>11. \A s \in openers : builds'[s].wheel = builds[s].wheel
  BY <1>1, <1>4, <1>5
<1>12. \A s \in openers : FilledBy(s) => FilledBy(s)'
  <2>1. FilledBy(r) => FilledBy(r)'
    BY <1>3, <1>4, <1>5, <1>8 DEF FilledBy
  <2>2. ASSUME NEW s \in openers, s # r, FilledBy(s) PROVE FilledBy(s)'
    BY <1>1, <1>5, <1>8, <2>2 DEF FilledBy
  <2> QED
    BY <2>1, <2>2
<1>13. OutputInv'
  <2>1. SUFFICES ASSUME placed PROVE OutputInv'
    BY <1>1 DEF OutputInv
  <2>2. /\ \A f \in Files : output[f] # Hole => \E s \in openers : output[f] = builds[s].wheel[f]
        /\ \E s \in openers : FilledBy(s)
    BY <2>1 DEF CompatInv, OutputInv
  <2>3. \A f \in Files : output'[f] # Hole =>
          \E s \in openers : output'[f] = builds[s].wheel[f]
    BY <1>1, <1>8, <2>2
  <2> QED
    BY <1>1, <1>11, <1>12, <2>2, <2>3 DEF OutputInv
<1> QED
  BY <1>7, <1>9, <1>10, <1>13 DEF CompatInv

LEMMA CompatStep == CompatInv /\ [CompatNext]_compatVars => CompatInv'
<1> SUFFICES ASSUME CompatInv, [CompatNext]_compatVars PROVE CompatInv'
  OBVIOUS
<1>1. ASSUME NEW f \in Files, Change(f) PROVE CompatInv'
  BY <1>1, ChangeOK
<1>2. ASSUME NEW r \in Runs, RunStep(r) PROVE CompatInv'
  BY <1>2, CompatBeginOK, RefuseOK, ReadMemberOK, WheelReadOK, CompareWheelsOK, CheckOutputOK,
     OpenOK, WriteMemberOK, AcceptOK DEF RunStep
<1>3. CASE UNCHANGED compatVars
  <2>1. UNCHANGED <<sources, changes, placed, output, builds, seen, openers>>
    BY <1>3 DEF compatVars
  <2> QED
    BY <2>1 DEF CompatInv, CompatTypeOK, ReadingInv, ReadAgain, OpenersInv, OutputInv, FilledBy
<1> QED
  BY <1>1, <1>2, <1>3 DEF CompatNext

LEMMA CompatInvariant == CompatSpec => []CompatInv
<1> QED
  BY CompatInitOK, CompatStep, PTL DEF CompatSpec

(* A wheel that verify_reproducible accepts is of the files as they all    *)
(* were when its second build began, but for files that were changed and   *)
(* changed back while it read, for any number of runs and changes.         *)
THEOREM CompatVerifiedOfOneMoment == CompatSpec => []VerifiedOfOneMoment
<1>1. CompatInv => VerifiedOfOneMoment
  BY DEF CompatInv, ReadingInv, VerifiedOfOneMoment
<1> QED
  BY <1>1, CompatInvariant, PTL

(* The artifact in the shared directory is explained by the runs that      *)
(* found none there, whatever failed and however the runs interleaved      *)
(* (build_wheel, verify_reproducible).                                     *)
THEOREM CompatOutputExplained == CompatSpec => []OutputExplained
<1>1. ASSUME CompatInv, placed
      PROVE  /\ \A f \in Files : output[f] # Hole =>
                  \E r \in openers : output[f] = builds[r].wheel[f]
             /\ \E r \in openers : FilledBy(r)
             /\ openers \subseteq Runs /\ builds \in [Runs -> Run]
             /\ output \in [Files -> Texts \cup {Hole}]
  BY <1>1 DEF CompatInv, OutputInv, CompatTypeOK
<1>2. ASSUME CompatInv, placed, NEW r \in openers, FilledBy(r), builds[r].phase = "accepted"
      PROVE  \A f \in Files : output[f] # Hole
  BY <1>2, MembersAssumption DEF FilledBy, Files
<1>3. ASSUME CompatInv, placed, NEW f \in Files, output[f] = Hole
      PROVE  \E r \in openers : builds[r].phase \in {"write", "refused"}
  BY <1>1, <1>2, <1>3 DEF FilledBy
<1>4. ASSUME CompatInv, placed, NEW r \in openers, openers = {r}, builds[r].phase = "accepted"
      PROVE  output = builds[r].wheel
  <2>1. FilledBy(r) /\ r \in Runs
    BY <1>1, <1>4
  <2>2. \A f \in Files : output[f] = builds[r].wheel[f]
    BY <1>1, <1>2, <1>4, <2>1
  <2>3. builds[r].wheel \in [Files -> Texts] /\ output \in [Files -> Texts \cup {Hole}]
    BY <1>1, <1>4, <2>1 DEF Run
  <2> QED
    BY <2>2, <2>3
<1>5. CompatInv => OutputExplained
  BY <1>1, <1>3, <1>4 DEF OutputExplained
<1> QED
  BY <1>5, CompatInvariant, PTL

(* An artifact is never replaced once the runs that found none have ended, *)
(* whole or not (the existence checks of build_wheel and                   *)
(* verify_reproducible).                                                   *)
THEOREM CompatNeverReplaced == CompatSpec => NeverReplaced
<1>1. ASSUME CompatInv, [CompatNext]_compatVars, placed,
             \A r \in openers : builds[r].phase \notin {"open", "write"}
      PROVE  placed' /\ output' = output
  <2>1. \A r \in Runs : builds[r].phase \notin {"open", "write"}
    BY <1>1 DEF CompatInv, OpenersInv
  <2>2. ASSUME NEW f \in Files, Change(f) PROVE UNCHANGED <<placed, output>>
    BY <2>2 DEF Change
  <2>3. ASSUME NEW r \in Runs, RunStep(r) PROVE UNCHANGED <<placed, output>>
    BY <2>1, <2>3 DEF RunStep, Begin, Refuse, ReadMember, WheelRead, CompareWheels, CheckOutput,
                      Open, WriteMember, Accept, Apart
  <2>4. ASSUME UNCHANGED compatVars PROVE UNCHANGED <<placed, output>>
    BY <2>4 DEF compatVars
  <2> QED
    BY <1>1, <2>2, <2>3, <2>4 DEF CompatNext
<1>2. CompatInv /\ [CompatNext]_compatVars =>
        [ placed /\ (\A r \in openers : builds[r].phase \notin {"open", "write"})
            => placed' /\ output' = output ]_compatVars
  BY <1>1
<1> QED
  BY <1>2, CompatInvariant, PTL DEF CompatSpec, NeverReplaced
=============================================================================
