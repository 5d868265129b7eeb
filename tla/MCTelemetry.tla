----------------------------- MODULE MCTelemetry -----------------------------
(* Two tasks that serve a request, trusted or not, and what they send on.   *)
EXTENDS TelemetrySurfaces, TLC

MCSymmetry == Permutations(Tasks) \cup Permutations(Requests)
=============================================================================
