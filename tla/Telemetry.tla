------------------------------ MODULE Telemetry ------------------------------
(***************************************************************************)
(* Instrumented calls of a service, in several tasks at once.  Each task   *)
(* has its own current context (a ContextVar); use_context binds it and    *)
(* resets it to what it was, instrument opens a child span, runs the       *)
(* operation under it and emits one record when the operation ended.       *)
(*                                                                         *)
(* A task runs scopes and calls inside one another, ends each by a value or*)
(* an exception, starts other tasks, and sends its context to other        *)
(* services, which are tasks of the model as well.  Synchronous and        *)
(* asynchronous wrappers take the same steps; what differs is who else may *)
(* run in between, and here everybody may.  Span ids are distinct, as      *)
(* random ids are taken to be; a trace is named by its first span or by the*)
(* request that brought it.                                                *)
(***************************************************************************)
EXTENDS Naturals, Sequences, FiniteSets

CONSTANTS
  Tasks,       \* threads and asyncio tasks
  Requests,    \* requests that arrive with a traceparent and identity headers
  MaxSpans,    \* bound on the spans opened
  MaxDepth,    \* bound on the scopes and calls open at a time, over all tasks
  MaxCarriers, \* bound on the contexts at the service's boundary
  None

Spans == 1..MaxSpans

ASSUME MaxSpansAssumption == MaxSpans \in Nat
ASSUME MaxDepthAssumption == MaxDepth \in Nat
ASSUME MaxCarriersAssumption == MaxCarriers \in Nat
ASSUME RequestsAssumption == Requests \cap (Nat \cup {None}) = {}
ASSUME NoneSpan == None \notin Nat

VARIABLES
  live,      \* tasks that run
  current,   \* _CURRENT_CONTEXT of each task
  stack,     \* the scopes and calls open in each task, innermost last
  spans,     \* number of spans opened so far
  carriers,  \* what arrives at the service's boundary: contexts as headers
  records,   \* what the sink was given
  base       \* history: the context each task was started under

telemetryVars == <<live, current, stack, spans, carriers, records, base>>

\* HarnessContext: the trace, the active span, and the identity claims.
Context ==
  [trace: Requests \cup Spans, span: Requests \cup Spans, identity: Requests \cup {None}]

ContextOrNone == Context \cup {None}

\* An open scope or call: the context it bound, the one it will reset to, and
\* how its operation stands.  A scope opens no span of its own.
Frame ==
  [call: BOOLEAN, active: Context, saved: ContextOrNone,
   ran: {"running", "returned", "raised"}]

\* SpanRecord, with what the operation did and the
\* context that encloses the call in the code (history).
SpanRecord ==
  [trace: Requests \cup Spans, span: Spans, parent: Requests \cup Spans \cup {None},
   identity: Requests \cup {None}, status: {"OK", "ERROR"},
   ran: {"returned", "raised"}, within: ContextOrNone]

(* Contexts are contexts, frames are frames, and a record names a span the *)
(* service opened (HarnessContext, SpanRecord).                            *)
TelemetryTypeOK ==
  /\ live \in SUBSET Tasks
  /\ current \in [Tasks -> ContextOrNone]
  /\ stack \in [Tasks -> Seq(Frame)]
  /\ spans \in 0..MaxSpans
  /\ carriers \in SUBSET Context
  /\ records \in SUBSET SpanRecord
  /\ base \in [Tasks -> ContextOrNone]

TelemetryInit ==
  /\ live \in {{t} : t \in Tasks}
  /\ current = [t \in Tasks |-> None]
  /\ stack = [t \in Tasks |-> <<>>]
  /\ spans = 0
  /\ carriers = {[trace |-> r, span |-> r, identity |-> r] : r \in Requests}
  /\ records = {}
  /\ base = [t \in Tasks |-> None]

-----------------------------------------------------------------------------
(* The context variable.                                                   *)

\* Mutant: the context is one for all tasks.
BindEverywhere(t, context) == [u \in Tasks |-> context]

Bind(t, context) == [current EXCEPT ![t] = context]

\* Mutant: a scope does not reset the context it found.
KeepActive(frame) == frame.active

\* What leaving use_context resets the context to.
Restored(frame) == frame.saved

\* Mutant: a child span opens a trace of its own.
ChildOfNoTrace(context, span) == [context EXCEPT !.trace = span, !.span = span]

Child(context, span) == [context EXCEPT !.span = span]

Create(span) == [trace |-> span, span |-> span, identity |-> None]

Top(t) == stack[t][Len(stack[t])]

\* The innermost thing open in t runs, or nothing is open: t's own code runs.
Running(t) == t \in live /\ (stack[t] # <<>> => Top(t).ran = "running")

\* How many scopes and calls are open, up to MaxDepth in each task.
OpenFrames == Cardinality({p \in Tasks \X (1..MaxDepth) : p[2] <= Len(stack[p[1]])})

Push(t, frame) == stack' = [stack EXCEPT ![t] = Append(@, frame)]

Pop(t) == stack' = [stack EXCEPT ![t] = SubSeq(@, 1, Len(@) - 1)]

\* The context in which the code of t that runs now was written: that of the
\* innermost open scope or call whose operation has not ended, or the one the
\* task was started under.
ContextAt(t, n) == IF n = 0 THEN base[t] ELSE stack[t][n].active

Enclosing(t) ==
  IF stack[t] # <<>> /\ Top(t).ran # "running"
  THEN ContextAt(t, Len(stack[t]) - 1)
  ELSE ContextAt(t, Len(stack[t]))

-----------------------------------------------------------------------------
(* Tasks.                                                                  *)

\* An asyncio task starts with a copy of the context, a thread with none.
Start(t, u, copied) ==
  /\ Running(t) /\ u \notin live
  /\ live' = live \cup {u}
  /\ current' = [current EXCEPT ![u] = IF copied THEN current[t] ELSE None]
  /\ base' = [base EXCEPT ![u] = IF copied THEN Enclosing(t) ELSE None]
  /\ UNCHANGED <<stack, spans, carriers, records>>

Exit(t) ==
  /\ t \in live /\ stack[t] = <<>>
  /\ live' = live \ {t}
  /\ current' = [current EXCEPT ![t] = None]
  /\ base' = [base EXCEPT ![t] = None]
  /\ UNCHANGED <<stack, spans, carriers, records>>

-----------------------------------------------------------------------------
(* The service boundary.                                                   *)

\* extract_context of a valid carrier; identity headers count only if trusted.
Extract(carrier, trust) ==
  IF trust THEN carrier ELSE [carrier EXCEPT !.identity = None]

\* use_context(extract_context(...)) around the handling of a request.
EnterScope(t, carrier, trust) ==
  LET context == Extract(carrier, trust)
  IN  /\ Running(t)
      /\ OpenFrames < MaxDepth
      /\ Push(t, [call |-> FALSE, active |-> context, saved |-> current[t],
                  ran |-> "running"])
      /\ current' = Bind(t, context)
      /\ UNCHANGED <<live, spans, carriers, records, base>>

LeaveScope(t) ==
  /\ Running(t) /\ stack[t] # <<>>
  /\ ~Top(t).call
  /\ current' = Bind(t, Restored(Top(t)))
  /\ Pop(t)
  /\ UNCHANGED <<live, spans, carriers, records, base>>

\* inject_context of the current context into the headers of an outgoing call.
Inject(t, includeIdentity) ==
  /\ Running(t) /\ current[t] # None
  /\ Cardinality(carriers) < MaxCarriers
  /\ carriers' = carriers \cup {Extract(current[t], includeIdentity)}
  /\ UNCHANGED <<live, current, stack, spans, records, base>>

-----------------------------------------------------------------------------
(* An instrumented call.                                                   *)

BeginCall(t) ==
  LET span == spans + 1
      active == IF current[t] = None THEN Create(span) ELSE Child(current[t], span)
  IN  /\ Running(t)
      /\ OpenFrames < MaxDepth
      /\ spans < MaxSpans
      /\ spans' = span
      /\ Push(t, [call |-> TRUE, active |-> active, saved |-> current[t],
                  ran |-> "running"])
      /\ current' = Bind(t, active)
      /\ UNCHANGED <<live, carriers, records, base>>

\* The operation ends, by a value or by any exception, cancellation included;
\* use_context is left before the record is built.
EndOperation(t, how) ==
  /\ Running(t) /\ stack[t] # <<>>
  /\ Top(t).call
  /\ current' = Bind(t, Restored(Top(t)))
  /\ stack' = [stack EXCEPT ![t][Len(stack[t])].ran = how]
  /\ UNCHANGED <<live, spans, carriers, records, base>>

\* Mutant: the status is set before the operation ended.
StatusOfNothing(ran) == "OK"

Status(ran) == IF ran = "raised" THEN "ERROR" ELSE "OK"

OwnSpan(frame) == frame.active.span

\* parent is the context instrument found, which it reset to.
Record(frame, within) ==
  [trace |-> frame.active.trace, span |-> OwnSpan(frame),
   parent |-> IF frame.saved = None THEN None ELSE frame.saved.span,
   identity |-> frame.active.identity, status |-> Status(frame.ran),
   ran |-> frame.ran, within |-> within]

\* The sink takes the record, or raises and the record is lost.  Whether its
\* exception reaches the caller (strict_sink) is left open, as what the caller
\* makes of an exception is: the code around the call may raise at any time.
Emit(t, sinkRaises) ==
  LET frame == Top(t)
  IN  /\ t \in live /\ stack[t] # <<>>
      /\ frame.call /\ frame.ran # "running"
      /\ records' = IF sinkRaises THEN records ELSE records \cup {Record(frame, Enclosing(t))}
      /\ Pop(t)
      /\ UNCHANGED <<live, current, spans, carriers, base>>

-----------------------------------------------------------------------------
TaskStep(t) ==
  \/ \E u \in Tasks, copied \in BOOLEAN : Start(t, u, copied)
  \/ Exit(t)
  \/ \E carrier \in carriers, trust \in BOOLEAN : EnterScope(t, carrier, trust)
  \/ LeaveScope(t)
  \/ \E includeIdentity \in BOOLEAN : Inject(t, includeIdentity)
  \/ BeginCall(t)
  \/ \E how \in {"returned", "raised"} : EndOperation(t, how)
  \/ \E sinkRaises \in BOOLEAN : Emit(t, sinkRaises)

TelemetryNext == \E t \in Tasks : TaskStep(t)

TelemetrySpec == TelemetryInit /\ [][TelemetryNext]_telemetryVars

-----------------------------------------------------------------------------
(* Properties.                                                             *)

(* current_context() is what the code reads in its own text: the innermost *)
(* scope or call open around it, or the context its task was started under,*)
(* after any nesting, exception, task start or reuse, and whatever other   *)
(* tasks bind meanwhile (use_context and the ContextVar).                  *)
ContextFollowsCode == \A t \in live : current[t] = Enclosing(t)

(* A record hangs where the call was made: its parent, its trace and its   *)
(* identity are those of the scope or call that encloses it in the code,   *)
(* or of nothing, and never another request's or another task's.           *)
RecordsFollowCode ==
  \A r \in records :
    IF r.within = None
    THEN r.parent = None /\ r.trace = r.span /\ r.identity = None
    ELSE /\ r.parent = r.within.span
         /\ r.trace = r.within.trace
         /\ r.identity = r.within.identity

(* Spans form trees: of one trace, the spans hang under the request that   *)
(* brought it or under its first span, and every parent that is a span of  *)
(* this service was opened before and, where recorded, in the same trace,  *)
(* across tasks and across services that pass the context on.              *)
TraceTree ==
  \A r \in records :
    /\ r.parent = None => r.trace = r.span
    /\ r.parent \in Requests => r.trace = r.parent
    /\ r.parent \in Spans =>
         /\ r.parent < r.span
         /\ \A p \in records : p.span = r.parent => p.trace = r.trace

(* The sink is told the truth, once: of each span at most one record, with *)
(* ERROR exactly if its operation raised, never of an operation that still *)
(* runs.                                                                   *)
RecordsTruthful ==
  \A r \in records :
    /\ r.status = "ERROR" <=> r.ran = "raised"
    /\ \A s \in records : s.span = r.span => s = r
    /\ \A t \in live : \A i \in 1..Len(stack[t]) : ~(stack[t][i].call /\ stack[t][i].active.span = r.span)
=============================================================================
