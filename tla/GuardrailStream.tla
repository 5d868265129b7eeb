--------------------------- MODULE GuardrailStream ---------------------------
(***************************************************************************)
(* GuardrailStream: chunks are pushed one by one, each judged together with*)
(* everything accepted before it, until a terminal outcome or finish.      *)
(*                                                                         *)
(* A push reads the buffer, runs the caller's detectors on the candidate   *)
(* and writes the buffer afterwards, so it is two steps; finish without a  *)
(* previous push evaluates the empty content, and is two steps as well.    *)
(* evaluate raises for content that is not Unicode text, and a detector may*)
(* raise what evaluate does not catch: then the call has changed nothing.  *)
(* The class holds no lock.  Callers is the set of threads that use one    *)
(* stream; the properties are stated for the one caller the class serves.  *)
(***************************************************************************)
EXTENDS Naturals, Sequences

CONSTANTS
  Callers,
  Chunks,       \* what may be pushed; a chunk is never empty
  MaxContent,   \* content that fits maximum_content_bytes, in chunks
  MaxPushes,    \* bound on the pushes
  None

ASSUME NoneChunk == None \notin Seq(Chunks)
ASSUME MaxContentAssumption == MaxContent \in Nat
ASSUME MaxPushesAssumption == MaxPushes \in Nat

VARIABLES
  buffer,       \* _buffer
  lastResult,   \* _last_result
  terminal,     \* _terminal
  finished,     \* _finished
  pushing,      \* content each caller's push is evaluating, or None
  finishing,    \* whether each caller's finish is evaluating the empty content
  pushes,       \* number of pushes begun (bounded by MaxPushes)
  accepted,     \* history: the chunks whose push returned without terminating
  verdict       \* history: what finish returned

streamVars ==
  <<buffer, lastResult, terminal, finished, pushing, finishing, pushes, accepted, verdict>>

Outcomes == {"ALLOW", "REDACT", "DENY", "QUARANTINE", "ERROR_FAIL_CLOSED", "ERROR_FAIL_OPEN"}
TerminalOutcomes == {"DENY", "QUARANTINE", "ERROR_FAIL_CLOSED"}

\* A result, with the content it was given for (which the code's does not carry).
StreamResult == [outcome: Outcomes, content: Seq(Chunks)]

ASSUME NoneResult == None \notin StreamResult

StreamTypeOK ==
  /\ buffer \in Seq(Chunks)
  /\ lastResult \in StreamResult \cup {None}
  /\ terminal \in BOOLEAN /\ finished \in BOOLEAN
  /\ pushing \in [Callers -> Seq(Chunks) \cup {None}]
  /\ finishing \in [Callers -> BOOLEAN]
  /\ pushes \in 0..MaxPushes
  /\ accepted \in Seq(Chunks)
  /\ verdict \in StreamResult \cup {None}

StreamInit ==
  /\ buffer = <<>>
  /\ lastResult = None
  /\ terminal = FALSE /\ finished = FALSE
  /\ pushing = [c \in Callers |-> None]
  /\ finishing = [c \in Callers |-> FALSE]
  /\ pushes = 0
  /\ accepted = <<>>
  /\ verdict = None

\* evaluate: content over the limit is denied; otherwise the detectors decide.
Evaluates(content, result) ==
  /\ result.content = content
  /\ Len(content) > MaxContent => result.outcome = "DENY"

RequireOpen == ~finished /\ ~terminal

Idle(c) == pushing[c] = None /\ ~finishing[c]

\* Mutant: a chunk is judged alone.
ChunkAlone(chunk) == <<chunk>>

Candidate(chunk) == Append(buffer, chunk)

BeginPush(c, chunk) ==
  /\ Idle(c) /\ RequireOpen
  /\ pushes < MaxPushes
  /\ pushes' = pushes + 1
  /\ pushing' = [pushing EXCEPT ![c] = Candidate(chunk)]
  /\ UNCHANGED <<buffer, lastResult, terminal, finished, finishing, accepted, verdict>>

\* Mutant: a result that ends the stream leaves the content behind.
KeepContent(content, outcome) == content

\* The buffer after a push.
Retained(content, outcome) == IF outcome \in TerminalOutcomes THEN <<>> ELSE content

EndPush(c, outcome) ==
  LET result == [outcome |-> outcome, content |-> pushing[c]]
  IN  /\ pushing[c] # None
      /\ Evaluates(pushing[c], result)
      /\ lastResult' = result
      /\ terminal' = (terminal \/ outcome \in TerminalOutcomes)
      /\ buffer' = Retained(pushing[c], outcome)
      /\ accepted' = IF outcome \in TerminalOutcomes THEN accepted
                     ELSE Append(accepted, pushing[c][Len(pushing[c])])
      /\ pushing' = [pushing EXCEPT ![c] = None]
      /\ UNCHANGED <<finished, finishing, pushes, verdict>>

\* evaluate raises: push and finish leave the stream as it was.
EvaluateRaises(c) ==
  /\ ~Idle(c)
  /\ pushing' = [pushing EXCEPT ![c] = None]
  /\ finishing' = [finishing EXCEPT ![c] = FALSE]
  /\ UNCHANGED <<buffer, lastResult, terminal, finished, pushes, accepted, verdict>>

Finished(result) ==
  /\ verdict' = result
  /\ buffer' = <<>>
  /\ finished' = TRUE

Finish(c) ==
  /\ Idle(c) /\ RequireOpen
  /\ lastResult # None
  /\ Finished(lastResult)
  /\ UNCHANGED <<lastResult, terminal, pushing, finishing, pushes, accepted>>

BeginFinish(c) ==
  /\ Idle(c) /\ RequireOpen
  /\ lastResult = None
  /\ finishing' = [finishing EXCEPT ![c] = TRUE]
  /\ UNCHANGED <<buffer, lastResult, terminal, finished, pushing, pushes, accepted, verdict>>

EndFinish(c, outcome) ==
  LET result == [outcome |-> outcome, content |-> <<>>]
  IN  /\ finishing[c]
      /\ Evaluates(<<>>, result)
      /\ Finished(result)
      /\ finishing' = [finishing EXCEPT ![c] = FALSE]
      /\ UNCHANGED <<lastResult, terminal, pushing, pushes, accepted>>

StreamNext ==
  \E c \in Callers :
    \/ \E chunk \in Chunks : BeginPush(c, chunk)
    \/ \E outcome \in Outcomes : EndPush(c, outcome)
    \/ Finish(c)
    \/ BeginFinish(c)
    \/ EvaluateRaises(c)
    \/ \E outcome \in Outcomes : EndFinish(c, outcome)

StreamSpec == StreamInit /\ [][StreamNext]_streamVars

-----------------------------------------------------------------------------
(* Properties, for one caller.                                             *)

(* The verdict that finish returns is a verdict on the whole: it was given *)
(* for exactly the chunks accepted, in order, none alone and none missing, *)
(* and it is not one that terminated the stream unless nothing was pushed. *)
FinishJudgesWhole ==
  verdict # None =>
    /\ verdict.content = accepted
    /\ accepted # <<>> => verdict.outcome \notin TerminalOutcomes
    /\ Len(accepted) <= MaxContent

(* Content does not outlive its stream: after a terminal outcome or finish *)
(* the buffer is empty, and it never holds more than the profile allows,   *)
(* however long the stream.                                                *)
ContentReleased ==
  /\ terminal \/ finished => buffer = <<>>
  /\ Len(buffer) <= MaxContent
=============================================================================
