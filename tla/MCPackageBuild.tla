--------------------------- MODULE MCPackageBuild ---------------------------
(***************************************************************************)
(* The package build, with three archives over a generated, a hand-written *)
(* and a shared file; and two runs of any kind of the compatibility wheel's*)
(* builder, with wheels of two files.  Neither writes what the other reads *)
(* or writes, so a behaviour has one of them at work.                      *)
(***************************************************************************)
EXTENDS PackageBuild, CompatBuild

MCArchives == <<"wheel", "sdist", "tgz">>
MCReads(a) ==
  CASE a = "wheel" -> {"models", "trust"}
    [] a = "sdist" -> {"trust", "readme"}
    [] a = "tgz" -> {"readme"}

MCDirectories == <<"python/dist", "typescript/package">>
MCContains(d) == IF d = "python/dist" THEN {"wheel", "sdist"} ELSE {"tgz"}

\* All runs of the wheel's builder have ended.
AllEnded == \A r \in Runs : builds[r].phase \in {"accepted", "refused"}

BuildersInit == BuildInit /\ CompatInit

BuildersNext ==
  \/ CompatInit /\ BuildNext /\ UNCHANGED compatVars
  \/ BuildInit /\ CompatNext /\ UNCHANGED buildVars
  \/ AllEnded /\ UNCHANGED <<buildVars, compatVars>>

BuildersSpec == BuildersInit /\ [][BuildersNext]_<<buildVars, compatVars>>
=============================================================================
