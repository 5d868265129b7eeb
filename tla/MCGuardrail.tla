----------------------------- MODULE MCGuardrail -----------------------------
(***************************************************************************)
(* An evaluation by three detectors on short content, whose ranges overlap,*)
(* nest and touch; or a stream, which knows of evaluations only what they  *)
(* answer.  A behaviour is one of the two.                                 *)
(***************************************************************************)
EXTENDS GuardrailSurfaces, GuardrailStream

MCDetectorIds == <<"d1", "d2", "d3">>

GuardrailInit == SurfacesInit /\ StreamInit

GuardrailNext ==
  \/ StreamInit /\ SurfacesNext /\ UNCHANGED streamVars
  \/ SurfacesInit /\ StreamNext /\ UNCHANGED surfaceVars

GuardrailSpec == GuardrailInit /\ [][GuardrailNext]_<<surfaceVars, streamVars>>
=============================================================================
