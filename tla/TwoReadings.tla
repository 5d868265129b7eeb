----------------------------- MODULE TwoReadings -----------------------------
(***************************************************************************)
(* What a builder can know that reads files twice, without a lock, and     *)
(* compares what it read.  A record is the history of one such double      *)
(* reading: what the files contained between the two readings, what each   *)
(* has contained since the first began, and which were given back a        *)
(* content they had had since then.  No program keeps such a record: the   *)
(* properties of PackageBuild and of CompatBuild are about it.             *)
(***************************************************************************)

ReadingsOf(Files, Texts) ==
  [middle : [Files -> Texts], had : [Files -> SUBSET Texts], returned : SUBSET Files]

\* The first reading begins.
Opened(files) ==
  [middle |-> files, had |-> [f \in DOMAIN files |-> {files[f]}], returned |-> {}]

\* A file is changed during the readings.
Changed(r, f, text) ==
  [middle |-> r.middle,
   had |-> [r.had EXCEPT ![f] = @ \cup {text}],
   returned |-> IF text \in r.had[f] THEN r.returned \cup {f} ELSE r.returned]

\* The first reading has ended, the second begins.
Halved(r, files) == [r EXCEPT !.middle = files]

\* What can be said of a text that was read of a file, twice the same: it is
\* what the file contained between the readings, or else the file was changed
\* and changed back while they lasted, and the text is one it had then.
Explains(r, f, text) ==
  \/ text = r.middle[f]
  \/ f \in r.returned /\ text \in r.had[f]
=============================================================================
