------------------------------ MODULE Guardrail ------------------------------
(***************************************************************************)
(* GuardrailClient.evaluate: the detectors of the profile are consulted in *)
(* declared order, each returns a finding or fails, and the findings are   *)
(* combined into one outcome; redaction ranges of several detectors are    *)
(* merged and cut out of the content.                                      *)
(*                                                                         *)
(* Content is the sequence 1..Length of its own positions, so that one can *)
(* see which scalars survive.  Ranges are half-open and count from 0.  The *)
(* reason code of a result is the name of the detector that decided.  What *)
(* the detectors say is in GuardrailSurfaces.                              *)
(***************************************************************************)
EXTENDS Integers, SequencesExt

CONSTANTS
  DetectorIds,  \* the profile's detector_ids, in declared order
  Length,       \* number of Unicode scalars of the content
  MaxRanges,    \* bound on the ranges of one finding
  Token         \* REDACTION_TOKEN

ASSUME DetectorsAssumption ==
  DetectorIds \in Seq(STRING) /\ DetectorIds # <<>> /\ IsInjective(DetectorIds)
ASSUME LengthAssumption == Length \in Nat
ASSUME MaxRangesAssumption == MaxRanges \in Nat

VARIABLES
  failMode,   \* of the profile
  oversize,   \* content is longer than maximum_content_bytes
  findings,   \* accepted findings, in consultation order
  failed,     \* failed_detector_ids, in consultation order
  result      \* the GuardrailResult, or Undecided

guardVars == <<failMode, oversize, findings, failed, result>>

Undecided == [outcome |-> "NONE", reason |-> "", content |-> <<>>]

Content == [i \in 1..Length |-> i]

\* RedactionRange; a range may end beyond the content until it is validated.
Ranges == {r \in [start: 0..Length, end: 1..(Length + 1)] : r.start < r.end}

\* The ranges DetectorFinding accepts: in order, touching allowed.
OrderedRanges ==
  {rs \in BoundedSeq(Ranges, MaxRanges) :
     rs # <<>> /\ \A i \in 1..(Len(rs) - 1) : rs[i].end <= rs[i + 1].start}

Finding(d, action, ranges) == [detector |-> d, action |-> action, ranges |-> ranges]

\* Mutant: a redaction without ranges is a finding too.
FindingsUnranged(d) ==
  {Finding(d, action, <<>>) : action \in {"ALLOW", "DENY", "QUARANTINE", "REDACT"}}
    \cup {Finding(d, "REDACT", rs) : rs \in OrderedRanges}

\* What a detector can construct; ranges only with REDACT, and at least one then.
Findings(d) ==
  {Finding(d, action, <<>>) : action \in {"ALLOW", "DENY", "QUARANTINE"}}
    \cup {Finding(d, "REDACT", rs) : rs \in OrderedRanges}

\* The findings evaluate keeps.
Accepted ==
  {finding \in UNION {Findings(d) : d \in ToSet(DetectorIds)} :
     \A i \in DOMAIN finding.ranges : finding.ranges[i].end <= Length}

Results ==
  [outcome : {"ALLOW", "REDACT", "DENY", "QUARANTINE", "ERROR_FAIL_CLOSED", "ERROR_FAIL_OPEN"},
   reason : ToSet(DetectorIds)
              \cup {"PAYLOAD_TOO_LARGE", "DETECTOR_FAILURE", "DETECTOR_FAILURE_FAIL_OPEN"},
   content : Seq({Token} \cup 1..Length)]

GuardTypeOK ==
  /\ failMode \in {"FAIL_CLOSED", "FAIL_OPEN"} /\ oversize \in BOOLEAN
  /\ findings \in Seq(Accepted)
  /\ failed \in Seq(ToSet(DetectorIds))
  /\ Len(findings) + Len(failed) <= Len(DetectorIds)
  /\ result \in Results \cup {Undecided}

-----------------------------------------------------------------------------
(* Redaction.                                                              *)

\* The positions of the findings with an action.
Having(fs, action) == {i \in DOMAIN fs : fs[i].action = action}

\* The ranges to be redacted, each with the place it was reported at.
Reported(fs) ==
  UNION {{[start |-> fs[i].ranges[j].start, end |-> fs[i].ranges[j].end, at |-> <<i, j>>] :
            j \in DOMAIN fs[i].ranges} : i \in Having(fs, "REDACT")}

\* The order of the candidates: by start, then by end; the sort is stable.
Before(r, s) ==
  \/ r.start < s.start
  \/ r.start = s.start /\ r.end < s.end
  \/ r.start = s.start /\ r.end = s.end /\ r.at[1] < s.at[1]
  \/ r.start = s.start /\ r.end = s.end /\ r.at[1] = s.at[1] /\ r.at[2] < s.at[2]

Rank(r, ranges) == Cardinality({s \in ranges : s = r \/ Before(s, r)})

\* sorted: the candidate of rank k comes k-th.
Candidates(fs) ==
  [k \in 1..Cardinality(Reported(fs)) |->
     CHOOSE r \in Reported(fs) : Rank(r, Reported(fs)) = k]

\* Mutant: a nested range shortens the one it lies in.
ExtendToLast(merged, item) ==
  IF merged = <<>> \/ item.start > Last(merged).end
  THEN Append(merged, [start |-> item.start, end |-> item.end])
  ELSE [merged EXCEPT ![Len(merged)].end = item.end]

\* One round of the loop of _merge_ranges.
Merge(merged, item) ==
  IF merged = <<>> \/ item.start > Last(merged).end
  THEN Append(merged, [start |-> item.start, end |-> item.end])
  ELSE [merged EXCEPT ![Len(merged)].end = IF item.end > @ THEN item.end ELSE @]

MergeRanges(fs) ==
  LET candidates == Candidates(fs)
      merged[n \in 0..Len(candidates)] ==
        IF n = 0 THEN <<>> ELSE Merge(merged[n - 1], candidates[n])
  IN  merged[Len(candidates)]

\* One round of the loop of _redact: what precedes the range, then the token.
Cut(state, item) ==
  [output |-> Append(state.output \o SubSeq(Content, state.cursor + 1, item.start), Token),
   cursor |-> item.end]

\* _redact, for the merged ranges.
CutOut(merged) ==
  LET cut[n \in 0..Len(merged)] ==
        IF n = 0 THEN [output |-> <<>>, cursor |-> 0] ELSE Cut(cut[n - 1], merged[n])
      done == cut[Len(merged)]
  IN  done.output \o SubSeq(Content, done.cursor + 1, Length)

Redact(fs) == CutOut(MergeRanges(fs))

-----------------------------------------------------------------------------
(* The decision on the findings.                                           *)

Result(outcome, reason, content) ==
  [outcome |-> outcome, reason |-> reason, content |-> content]

\* What GuardrailResult.__post_init__ lets pass, of a result and its failures.
ValidResult(made, lost) ==
  /\ IsInjective(lost)
  /\ IF made.outcome = "REDACT" THEN Token \in ToSet(made.content) ELSE made.content = <<>>

\* The first finding with the action is the winner.
Verdict(action, fs, content) == Result(action, fs[Min(Having(fs, action))].detector, content)

\* Without an objection: the failures that FAIL_OPEN let pass, or nothing at all.
DecideUnopposed(fs, lost) ==
  IF lost # <<>> THEN Result("ERROR_FAIL_OPEN", "DETECTOR_FAILURE_FAIL_OPEN", <<>>)
  ELSE Result("ALLOW", Head(fs).detector, <<>>)

\* Mutant: a quarantine is looked for before a denial.
DecideQuarantineFirst(fs, lost) ==
  IF Having(fs, "QUARANTINE") # {} THEN Verdict("QUARANTINE", fs, <<>>)
  ELSE IF Having(fs, "DENY") # {} THEN Verdict("DENY", fs, <<>>)
  ELSE IF Having(fs, "REDACT") # {} THEN Verdict("REDACT", fs, Redact(fs))
  ELSE DecideUnopposed(fs, lost)

\* Mutant: the first finding that is not ALLOW decides.
DecideFirst(fs, lost) ==
  LET objections == {i \in DOMAIN fs : fs[i].action # "ALLOW"}
  IN  IF objections = {} THEN DecideUnopposed(fs, lost)
      ELSE LET action == fs[Min(objections)].action
           IN  Verdict(action, fs, IF action = "REDACT" THEN Redact(fs) ELSE <<>>)

Decide(fs, lost) ==
  IF Having(fs, "DENY") # {} THEN Verdict("DENY", fs, <<>>)
  ELSE IF Having(fs, "QUARANTINE") # {} THEN Verdict("QUARANTINE", fs, <<>>)
  ELSE IF Having(fs, "REDACT") # {} THEN Verdict("REDACT", fs, Redact(fs))
  ELSE DecideUnopposed(fs, lost)

-----------------------------------------------------------------------------
(* One evaluation.                                                         *)

GuardInit ==
  /\ failMode \in {"FAIL_CLOSED", "FAIL_OPEN"}
  /\ oversize \in BOOLEAN
  /\ findings = <<>>
  /\ failed = <<>>
  /\ result = Undecided

Consulted == Len(findings) + Len(failed)

\* The next detector of the profile is consulted.
Consulting ==
  /\ result = Undecided /\ ~oversize
  /\ Consulted < Len(DetectorIds)

NextDetector == DetectorIds[Consulted + 1]

\* _validate_finding
ValidateFinding(finding) ==
  /\ finding.detector = NextDetector
  /\ \A i \in DOMAIN finding.ranges : finding.ranges[i].end <= Length

RejectOversize ==
  /\ result = Undecided /\ oversize
  /\ result' = Result("DENY", "PAYLOAD_TOO_LARGE", <<>>)
  /\ UNCHANGED <<failMode, oversize, findings, failed>>

\* A detector that raises, or whose finding is not valid, has failed.
DetectorFails ==
  /\ failed' = Append(failed, NextDetector)
  /\ result' = IF failMode = "FAIL_CLOSED"
               THEN Result("ERROR_FAIL_CLOSED", "DETECTOR_FAILURE", <<>>)
               ELSE result
  /\ UNCHANGED <<failMode, oversize, findings>>

DetectorRaises == Consulting /\ DetectorFails

DetectorAnswers(finding) ==
  /\ Consulting
  /\ IF ValidateFinding(finding)
     THEN /\ findings' = Append(findings, finding)
          /\ UNCHANGED <<failMode, oversize, failed, result>>
     ELSE DetectorFails

Conclude ==
  /\ result = Undecided /\ ~oversize
  /\ Consulted = Len(DetectorIds)
  /\ result' = Decide(findings, failed)
  /\ UNCHANGED <<failMode, oversize, findings, failed>>

-----------------------------------------------------------------------------
(* Properties.                                                             *)

(* The scalars some detector wants removed.                                *)
Covered(fs) ==
  {p \in 1..Length : \E i \in Having(fs, "REDACT") : \E j \in DOMAIN fs[i].ranges :
                       fs[i].ranges[j].start < p /\ p <= fs[i].ranges[j].end}

(* The scalars that are seen in the redacted content: those that stay, and *)
(* for each run of removed ones the first, where its token stands.         *)
Seen(covered) == {p \in 1..Length : p \notin covered \/ p - 1 \notin covered}

Place(p, covered) == Cardinality({q \in Seen(covered) : q <= p})

(* Redaction by definition: every maximal run of covered scalars becomes   *)
(* one token, every other scalar stays, all in their order.                *)
RedactionOf(content, covered) ==
  /\ content \in Seq({Token} \cup 1..Length)
  /\ Len(content) = Cardinality(Seen(covered))
  /\ \A p \in Seen(covered) :
       content[Place(p, covered)] = IF p \in covered THEN Token ELSE p

(* Redaction removes exactly what the detectors found: however their ranges*)
(* overlap, nest or touch, no found scalar survives, nothing else is lost, *)
(* and the number of tokens tells nothing about how many ranges there were *)
(* (_merge_ranges and _redact).                                            *)
RedactionExact ==
  result.outcome = "REDACT" => RedactionOf(result.content, Covered(findings))

(* Nothing is released over an objection: when any consulted detector      *)
(* denied the content is denied or the evaluation failed closed, a         *)
(* quarantine gives way only to these, a redaction only to these three, and*)
(* a failure is reported by the fail mode's own outcome unless a surviving *)
(* detector objected.  In particular FAIL_OPEN never opens what another    *)
(* detector closed (the precedence loop of evaluate).                      *)
ObjectionsPrevail ==
  LET actions == {f.action : f \in ToSet(findings)}
  IN  result # Undecided /\ ~oversize =>
        /\ result.outcome = "ERROR_FAIL_CLOSED" <=> failMode = "FAIL_CLOSED" /\ failed # <<>>
        /\ result.outcome # "ERROR_FAIL_CLOSED" =>
             /\ result.outcome = "DENY" <=> "DENY" \in actions
             /\ result.outcome = "QUARANTINE" <=> "QUARANTINE" \in actions /\ "DENY" \notin actions
             /\ result.outcome = "REDACT" <=>
                  "REDACT" \in actions /\ actions \cap {"DENY", "QUARANTINE"} = {}
             /\ actions \subseteq {"ALLOW"} =>
                  result.outcome = IF failed = <<>> THEN "ALLOW" ELSE "ERROR_FAIL_OPEN"

(* evaluate always answers: what GuardrailResult demands of its fields is  *)
(* met by every outcome, so that no evaluation ends in its constructor's   *)
(* error after the detectors have run.  A redaction has something to show  *)
(* for itself, and no detector is named twice among the failed.            *)
EvaluateAnswers == result # Undecided => ValidResult(result, failed)

(* The order in which a profile declares its detectors decides nothing but *)
(* the reason: the outcome and the redacted content are the same for every *)
(* order of the same findings.                                             *)
OrderDecidesNothing ==
  result # Undecided /\ Consulted = Len(DetectorIds) /\ result.outcome # "ERROR_FAIL_CLOSED" =>
    \A order \in Bijection(DOMAIN findings, DOMAIN findings) :
      LET again == Decide([i \in DOMAIN findings |-> findings[order[i]]], failed)
      IN  again.outcome = result.outcome /\ again.content = result.content
=============================================================================
