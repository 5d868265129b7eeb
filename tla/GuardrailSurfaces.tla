-------------------------- MODULE GuardrailSurfaces --------------------------
(***************************************************************************)
(* One request judged by the GuardrailClient of both surfaces, with the    *)
(* same profile and with detectors that say the same.  A Python detector   *)
(* constructs a DetectorFinding, which raises in its constructor for what  *)
(* is not one; a JavaScript detector returns any object, and the client    *)
(* normalizes it.                                                          *)
(***************************************************************************)
EXTENDS Guardrail

VARIABLES
  tsFindings,  \* findings of the JavaScript client
  tsFailed,    \* failed
  tsResult     \* its result, or Undecided

tsVars == <<tsFindings, tsFailed, tsResult>>
surfaceVars == <<guardVars, tsVars>>

\* What a detector may say: in anybody's name, with ranges in any order, and
\* with ranges where none belong.
Sayings(d) ==
  {Finding(d, "REDACT", ranges) : ranges \in BoundedSeq(Ranges, MaxRanges)}
    \cup {Finding(d, action, ranges) : action \in {"ALLOW", "DENY", "QUARANTINE"},
                                       ranges \in {<<>>, <<[start |-> 0, end |-> 1]>>}}
    \cup {Finding(other, "ALLOW", <<>>) : other \in ToSet(DetectorIds)}

TSNextDetector == DetectorIds[Len(tsFindings) + Len(tsFailed) + 1]

\* Mutant: the order of the ranges is not looked at.
TSNormalInAnyOrder(said) ==
  /\ said.detector = TSNextDetector
  /\ \A i \in DOMAIN said.ranges : said.ranges[i].end <= Length
  /\ said.action = "REDACT" <=> said.ranges # <<>>

\* normalizeFinding returns, and does not fail.
TSNormal(said) ==
  /\ said.detector = TSNextDetector
  /\ \A i \in DOMAIN said.ranges :
       /\ said.ranges[i].end <= Length
       /\ i > 1 => said.ranges[i].start >= said.ranges[i - 1].end
  /\ said.action = "REDACT" <=> said.ranges # <<>>

\* One round of the loop of mergeRanges.
TSMerge(merged, item) ==
  IF merged # <<>> /\ item.start <= Last(merged).end
  THEN [merged EXCEPT ![Len(merged)].end = Max({@, item.end})]
  ELSE Append(merged, [start |-> item.start, end |-> item.end])

\* mergeRanges; its sort compares the same two numbers, and is stable.
TSMergeRanges(fs) ==
  LET candidates == Candidates(fs)
      merged[n \in 0..Len(candidates)] ==
        IF n = 0 THEN <<>> ELSE TSMerge(merged[n - 1], candidates[n])
  IN  merged[Len(candidates)]

Precedence == <<"DENY", "QUARANTINE", "REDACT">>

\* The first action of the precedence that some finding has decides.
TSDecide(fs, lost) ==
  LET found == {k \in DOMAIN Precedence : Having(fs, Precedence[k]) # {}}
  IN  IF found = {} THEN DecideUnopposed(fs, lost)
      ELSE LET action == Precedence[Min(found)]
           IN  Verdict(action, fs,
                       IF action = "REDACT" THEN CutOut(TSMergeRanges(fs)) ELSE <<>>)

TSDetectorFails ==
  /\ tsFailed' = Append(tsFailed, TSNextDetector)
  /\ tsResult' = IF failMode = "FAIL_CLOSED"
                 THEN Result("ERROR_FAIL_CLOSED", "DETECTOR_FAILURE", <<>>)
                 ELSE tsResult
  /\ UNCHANGED tsFindings

TSDetectorAnswers(said) ==
  IF TSNormal(said)
  THEN tsFindings' = Append(tsFindings, said) /\ UNCHANGED <<tsFailed, tsResult>>
  ELSE TSDetectorFails

SurfacesInit ==
  /\ GuardInit
  /\ tsFindings = <<>> /\ tsFailed = <<>> /\ tsResult = Undecided

BothReject ==
  /\ RejectOversize
  /\ tsResult' = Result("DENY", "PAYLOAD_TOO_LARGE", <<>>)
  /\ UNCHANGED <<tsFindings, tsFailed>>

BothRaise == DetectorRaises /\ TSDetectorFails

\* DetectorFinding.__post_init__ raises for what is not a finding.
BothAnswer(said) ==
  /\ IF said \in Findings(said.detector) THEN DetectorAnswers(said) ELSE DetectorRaises
  /\ TSDetectorAnswers(said)

BothConclude ==
  /\ Conclude
  /\ tsResult' = TSDecide(tsFindings, tsFailed)
  /\ UNCHANGED <<tsFindings, tsFailed>>

SurfacesNext ==
  \/ BothReject
  \/ BothRaise
  \/ Consulting /\ \E said \in Sayings(NextDetector) : BothAnswer(said)
  \/ BothConclude

SurfacesSpec == SurfacesInit /\ [][SurfacesNext]_surfaceVars

-----------------------------------------------------------------------------
(* The surfaces are one guardrail: given the same profile and detectors    *)
(* that say the same, they count the same detectors as failed, keep the    *)
(* same findings, and give the same outcome, reason and redacted content,  *)
(* although one checks a finding where it is made and the other where it   *)
(* arrives (DetectorFinding and _merge_ranges against normalizeFinding and *)
(* mergeRanges).                                                           *)
SameGuardrailVerdict ==
  tsFindings = findings /\ tsFailed = failed /\ tsResult = result
=============================================================================
