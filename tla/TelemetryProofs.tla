--------------------------- MODULE TelemetryProofs ---------------------------
(***************************************************************************)
(* Proofs about Telemetry and TelemetrySurfaces for any tasks, requests,   *)
(* nesting and number of spans and calls, and about Integrations, the      *)
(* adapters whose calls those spans record, for any number of calls.       *)
(***************************************************************************)
EXTENDS TelemetrySurfaces, Integrations, TLAPS

StackType == /\ stack \in [Tasks -> Seq(Frame)]
             /\ current \in [Tasks -> ContextOrNone]
             /\ base \in [Tasks -> ContextOrNone]
             /\ carriers \subseteq Context
             /\ spans \in Nat
             /\ live \subseteq Tasks

(* A call's context continues the one it found, or starts a trace.         *)
Continues(frame) ==
  frame.call =>
    IF frame.saved = None
    THEN frame.active.trace = frame.active.span /\ frame.active.identity = None
    ELSE /\ frame.active.trace = frame.saved.trace
         /\ frame.active.identity = frame.saved.identity

(* The frames of a task chain: each will reset to what encloses it, and    *)
(* only the innermost may have ended.                                      *)
Nested(t) ==
  /\ current[t] = Enclosing(t)
  /\ \A i \in 1..Len(stack[t]) :
       /\ stack[t][i].saved = ContextAt(t, i - 1)
       /\ Continues(stack[t][i])
       /\ i < Len(stack[t]) => stack[t][i].ran = "running"
  /\ t \notin live => stack[t] = <<>>

ContextInv == StackType /\ (\A t \in Tasks : Nested(t)) /\ RecordsFollowCode

LEMMA TelemetryInitOK == TelemetryInit => ContextInv
<1> SUFFICES ASSUME TelemetryInit PROVE ContextInv
  OBVIOUS
<1>1. StackType
  BY DEF TelemetryInit, StackType, Context, ContextOrNone
<1>2. ASSUME NEW t \in Tasks PROVE Nested(t)
  BY DEF TelemetryInit, Nested, Enclosing, ContextAt
<1> QED
  BY <1>1, <1>2 DEF TelemetryInit, RecordsFollowCode, ContextInv

(* What a step of a task leaves alone stays nested.                        *)
LEMMA NestedFrame ==
  ASSUME NEW u \in Tasks, Nested(u), stack'[u] = stack[u], current'[u] = current[u],
         base'[u] = base[u], u \in live => u \in live'
  PROVE  Nested(u)'
BY DEF Nested, Enclosing, ContextAt, Top, Continues

(* Binding a context inside what runs, and opening its frame.              *)
LEMMA NestedPush ==
  ASSUME StackType, NEW t \in Tasks, Nested(t), Running(t), NEW frame \in Frame,
         frame.saved = current[t], frame.ran = "running", Continues(frame),
         Push(t, frame), current' = Bind(t, frame.active), UNCHANGED <<live, base>>
  PROVE  Nested(t)' /\ stack' \in [Tasks -> Seq(Frame)]
<1>1. stack[t] \in Seq(Frame) /\ stack'[t] = Append(stack[t], frame)
  BY DEF StackType, Push
<1>2. /\ Len(stack'[t]) = Len(stack[t]) + 1
      /\ Len(stack[t]) \in Nat
      /\ stack'[t][Len(stack[t]) + 1] = frame
      /\ \A i \in 1..Len(stack[t]) : stack'[t][i] = stack[t][i]
  BY <1>1
<1>3. current'[t] = frame.active
  BY DEF Bind, StackType
<1>4. \A n \in 0..Len(stack[t]) : ContextAt(t, n)' = ContextAt(t, n)
  BY <1>2 DEF ContextAt
<1>5. Enclosing(t) = ContextAt(t, Len(stack[t]))
  BY DEF Running, Enclosing
<1>6. Enclosing(t)' = frame.active
  BY <1>2 DEF Enclosing, ContextAt, Top
<1>7. \A i \in 1..Len(stack[t]) : stack[t][i].ran = "running"
  BY <1>2 DEF Running, Nested, Top
<1>8. ASSUME NEW i \in 1..Len(stack'[t])
      PROVE  /\ stack'[t][i].saved = ContextAt(t, i - 1)'
             /\ Continues(stack'[t][i])
             /\ i < Len(stack'[t]) => stack'[t][i].ran = "running"
  <2>1. CASE i = Len(stack[t]) + 1
    <3>1. ContextAt(t, i - 1)' = frame.saved
      BY <1>2, <1>4, <1>5, <2>1 DEF Nested
    <3> QED BY <3>1, <1>2, <2>1
  <2>2. CASE i \in 1..Len(stack[t])
    BY <1>2, <1>4, <1>7, <2>2 DEF Nested
  <2> QED BY <1>2, <2>1, <2>2
<1>9. stack' \in [Tasks -> Seq(Frame)]
  BY <1>1 DEF Push, StackType
<1> QED
  BY <1>3, <1>6, <1>8, <1>9 DEF Nested, Running, Continues

(* Closing the innermost frame, when the task's context is what encloses it.*)
LEMMA NestedPop ==
  ASSUME StackType, NEW t \in Tasks, Nested(t), t \in live, stack[t] # <<>>,
         Pop(t), current'[t] = Top(t).saved, UNCHANGED <<live, base>>
  PROVE  Nested(t)' /\ stack' \in [Tasks -> Seq(Frame)]
<1>1. stack[t] \in Seq(Frame) /\ stack'[t] = SubSeq(stack[t], 1, Len(stack[t]) - 1)
  BY DEF StackType, Pop
<1>2. /\ Len(stack[t]) \in Nat \ {0}
      /\ stack'[t] \in Seq(Frame)
      /\ Len(stack'[t]) = Len(stack[t]) - 1
      /\ \A i \in 1..Len(stack'[t]) : stack'[t][i] = stack[t][i]
  BY <1>1
<1>3. \A n \in 0..Len(stack'[t]) : ContextAt(t, n)' = ContextAt(t, n)
  BY <1>2 DEF ContextAt
<1>4. ASSUME NEW i \in 1..Len(stack'[t]) PROVE stack'[t][i].ran = "running"
  <2>1. i \in 1..Len(stack[t]) /\ i < Len(stack[t])
    BY <1>2
  <2>2. stack[t][i].ran = "running"
    BY <2>1 DEF Nested
  <2> QED
    BY <1>2, <2>2
<1>5. PICK n \in Nat : n = Len(stack[t]) - 1
  BY <1>2
<1>6. Enclosing(t)' = ContextAt(t, n)'
  <2>1. stack'[t] # <<>> => stack'[t][Len(stack'[t])].ran = "running"
    BY <1>2, <1>4
  <2> QED
    BY <1>2, <1>5, <2>1 DEF Enclosing, Top, ContextAt
<1>7. current'[t] = Enclosing(t)'
  <2>1. current'[t] = ContextAt(t, n)
    BY <1>2, <1>5 DEF Nested, Top
  <2>2. ContextAt(t, n)' = ContextAt(t, n)
    BY <1>2, <1>3, <1>5
  <2> QED
    BY <1>6, <2>1, <2>2
<1>8. ASSUME NEW i \in 1..Len(stack'[t])
      PROVE  stack'[t][i].saved = ContextAt(t, i - 1)' /\ Continues(stack'[t][i])
  <2>1. i \in 1..Len(stack[t]) /\ i - 1 \in 0..Len(stack'[t])
    BY <1>2
  <2>2. stack'[t][i] = stack[t][i]
    BY <1>2
  <2>3. ContextAt(t, i - 1)' = ContextAt(t, i - 1)
    BY <1>3, <2>1
  <2> QED
    BY <2>1, <2>2, <2>3 DEF Nested
<1>9. stack' \in [Tasks -> Seq(Frame)]
  BY <1>2 DEF Pop, StackType
<1> QED
  BY <1>4, <1>7, <1>8, <1>9 DEF Nested, Continues

-----------------------------------------------------------------------------
(* The steps.                                                              *)

LEMMA StartStep ==
  ASSUME ContextInv, NEW t \in Tasks, NEW u \in Tasks, NEW copied \in BOOLEAN,
         Start(t, u, copied)
  PROVE  ContextInv'
<1> USE DEF ContextInv
<1>1. u # t /\ stack'[u] = <<>>
  BY DEF Start, Running, Nested
<1>2. StackType'
  <2>1. Enclosing(t) \in ContextOrNone
    BY DEF Nested, StackType
  <2> QED
    BY <2>1 DEF Start, StackType, ContextOrNone
<1>3. ASSUME NEW v \in Tasks PROVE Nested(v)'
  <2>1. CASE v = u
    <3>1. current'[u] = base'[u]
      BY <1>1 DEF Start, Nested, StackType
    <3> QED
      BY <1>1, <2>1, <3>1 DEF Start, Nested, Enclosing, ContextAt
  <2>2. CASE v # u
    <3>1. /\ stack'[v] = stack[v] /\ current'[v] = current[v]
          /\ base'[v] = base[v] /\ (v \in live => v \in live')
      BY <2>2 DEF Start, StackType
    <3> QED
      BY <3>1, NestedFrame
  <2> QED BY <2>1, <2>2
<1>4. RecordsFollowCode'
  BY DEF Start, RecordsFollowCode
<1> QED BY <1>2, <1>3, <1>4

LEMMA ExitStep ==
  ASSUME ContextInv, NEW t \in Tasks, Exit(t)
  PROVE  ContextInv'
<1> USE DEF ContextInv
<1>1. StackType'
  BY DEF Exit, StackType, ContextOrNone
<1>2. ASSUME NEW v \in Tasks PROVE Nested(v)'
  <2>1. CASE v = t
    BY <2>1 DEF Exit, Nested, Enclosing, ContextAt, StackType
  <2>2. CASE v # t
    <3>1. /\ stack'[v] = stack[v] /\ current'[v] = current[v]
          /\ base'[v] = base[v] /\ (v \in live => v \in live')
      BY <2>2 DEF Exit, StackType
    <3> QED
      BY <3>1, NestedFrame
  <2> QED BY <2>1, <2>2
<1>3. RecordsFollowCode'
  BY DEF Exit, RecordsFollowCode
<1> QED BY <1>1, <1>2, <1>3

(* A step of t on its own context and frames leaves the other tasks nested.*)
LEMMA OthersNested ==
  ASSUME StackType, \A v \in Tasks : Nested(v), NEW t \in Tasks, NEW context,
         NEW frames, current' = Bind(t, context), stack' = [stack EXCEPT ![t] = frames],
         UNCHANGED <<live, base>>, Nested(t)'
  PROVE  \A v \in Tasks : Nested(v)'
<1> SUFFICES ASSUME NEW v \in Tasks, v # t PROVE Nested(v)'
  OBVIOUS
<1>1. stack'[v] = stack[v] /\ current'[v] = current[v]
  BY DEF Bind, StackType
<1> QED
  BY <1>1, NestedFrame

LEMMA EnterScopeStep ==
  ASSUME ContextInv, NEW t \in Tasks, NEW carrier \in carriers, NEW trust \in BOOLEAN,
         EnterScope(t, carrier, trust)
  PROVE  ContextInv'
<1> USE DEF ContextInv
<1> DEFINE context == Extract(carrier, trust)
           frame == [call |-> FALSE, active |-> context, saved |-> current[t],
                     ran |-> "running"]
<1>1. context \in Context
  BY DEF Extract, StackType, Context
<1>2. frame \in Frame
  BY <1>1 DEF Frame, StackType
<1>3. /\ Running(t) /\ Push(t, frame) /\ current' = Bind(t, frame.active)
      /\ UNCHANGED <<live, base, spans, carriers, records>>
  BY DEF EnterScope
<1>4. Continues(frame) /\ frame.saved = current[t] /\ frame.ran = "running"
  BY DEF Continues
<1> HIDE DEF frame, context
<1>5. Nested(t)' /\ stack' \in [Tasks -> Seq(Frame)]
  BY <1>2, <1>3, <1>4, NestedPush
<1>6. \A v \in Tasks : Nested(v)'
  BY <1>3, <1>5, OthersNested DEF Push
<1>7. StackType'
  BY <1>2, <1>3, <1>5 DEF StackType, Bind, ContextOrNone, Frame
<1> QED
  BY <1>3, <1>6, <1>7 DEF RecordsFollowCode

LEMMA BeginCallStep ==
  ASSUME ContextInv, NEW t \in Tasks, BeginCall(t)
  PROVE  ContextInv'
<1> USE DEF ContextInv
<1> DEFINE span == spans + 1
           active == IF current[t] = None THEN Create(span) ELSE Child(current[t], span)
           frame == [call |-> TRUE, active |-> active, saved |-> current[t],
                     ran |-> "running"]
<1>1. active \in Context
  <2>1. span \in Spans
    BY MaxSpansAssumption DEF BeginCall, StackType, Spans
  <2>2. Create(span) \in Context
    BY <2>1 DEF Create, Context
  <2>3. current[t] # None => Child(current[t], span) \in Context
    BY <2>1 DEF Child, Context, StackType, ContextOrNone
  <2> QED BY <2>2, <2>3
<1>2. frame \in Frame
  BY <1>1 DEF Frame, StackType
<1>3. /\ Running(t) /\ Push(t, frame) /\ current' = Bind(t, frame.active)
      /\ spans' = spans + 1 /\ UNCHANGED <<live, base, carriers, records>>
  BY DEF BeginCall
<1>4. Continues(frame) /\ frame.saved = current[t] /\ frame.ran = "running"
  BY DEF Continues, Create, Child, StackType, ContextOrNone, Context
<1> HIDE DEF frame, active, span
<1>5. Nested(t)' /\ stack' \in [Tasks -> Seq(Frame)]
  BY <1>2, <1>3, <1>4, NestedPush
<1>6. \A v \in Tasks : Nested(v)'
  BY <1>3, <1>5, OthersNested DEF Push
<1>7. StackType'
  <2>1. frame.active \in ContextOrNone
    BY <1>2 DEF Frame, ContextOrNone
  <2>2. current' \in [Tasks -> ContextOrNone]
    BY <1>3, <2>1 DEF StackType, Bind
  <2> QED
    BY <1>3, <1>5, <2>2 DEF StackType
<1> QED
  BY <1>3, <1>6, <1>7 DEF RecordsFollowCode

LEMMA LeaveScopeStep ==
  ASSUME ContextInv, NEW t \in Tasks, LeaveScope(t)
  PROVE  ContextInv'
<1> USE DEF ContextInv
<1>1. /\ Pop(t) /\ current' = Bind(t, Top(t).saved) /\ stack[t] # <<>> /\ t \in live
      /\ UNCHANGED <<live, base, spans, carriers, records>>
  BY DEF LeaveScope, Restored, Running
<1>2. Top(t).saved \in ContextOrNone
  <2>1. stack[t] \in Seq(Frame)
    BY DEF StackType
  <2>2. Top(t) \in Frame
    BY <1>1, <2>1 DEF Top
  <2> QED
    BY <2>2 DEF Frame
<1>3. current'[t] = Top(t).saved
  BY <1>1 DEF Bind, StackType
<1>4. Nested(t)' /\ stack' \in [Tasks -> Seq(Frame)]
  BY <1>1, <1>3, NestedPop
<1>5. \A v \in Tasks : Nested(v)'
  BY <1>1, <1>4, OthersNested DEF Pop
<1>6. StackType'
  BY <1>1, <1>2, <1>4 DEF StackType, Bind
<1> QED
  BY <1>1, <1>5, <1>6 DEF RecordsFollowCode

LEMMA InjectStep ==
  ASSUME ContextInv, NEW t \in Tasks, NEW includeIdentity \in BOOLEAN,
         Inject(t, includeIdentity)
  PROVE  ContextInv'
<1> USE DEF ContextInv
<1>1. Extract(current[t], includeIdentity) \in Context
  <2>1. current[t] \in Context
    BY DEF Inject, StackType, ContextOrNone
  <2> QED
    BY <2>1 DEF Extract, Context
<1>2. StackType'
  BY <1>1 DEF Inject, StackType
<1>3. ASSUME NEW v \in Tasks PROVE Nested(v)'
  BY <1>3, NestedFrame DEF Inject
<1> QED
  BY <1>2, <1>3 DEF Inject, RecordsFollowCode

LEMMA EndOperationStep ==
  ASSUME ContextInv, NEW t \in Tasks, NEW how \in {"returned", "raised"},
         EndOperation(t, how)
  PROVE  ContextInv'
<1> USE DEF ContextInv
<1> DEFINE ended == [Top(t) EXCEPT !.ran = how]
<1>1. PICK n \in Nat : n = Len(stack[t]) /\ n \in 1..Len(stack[t]) /\ stack[t] \in Seq(Frame)
  BY DEF StackType, EndOperation
<1>2. Top(t) = stack[t][n] /\ Top(t) \in Frame /\ Top(t).saved = ContextAt(t, n - 1)
  BY <1>1 DEF Top, Nested
<1>3. ended \in Frame /\ ended.ran # "running" /\ ended.saved = Top(t).saved
  BY <1>2 DEF Frame
<1>4. /\ stack' = [stack EXCEPT ![t] = [stack[t] EXCEPT ![n] = ended]]
      /\ current' = Bind(t, Top(t).saved)
      /\ UNCHANGED <<live, base, spans, carriers, records>>
  BY <1>1, <1>2 DEF EndOperation, Restored
<1>5. Continues(ended)
  <2>1. Continues(Top(t)) /\ ended.call = Top(t).call /\ ended.active = Top(t).active
    BY <1>1, <1>2 DEF Nested, Frame
  <2> QED
    BY <1>3, <2>1 DEF Continues
<1> HIDE DEF ended
<1>6. /\ stack'[t] = [stack[t] EXCEPT ![n] = ended] /\ stack'[t] \in Seq(Frame)
      /\ Len(stack'[t]) = n /\ stack'[t][n] = ended
      /\ \A i \in 1..(n - 1) : stack'[t][i] = stack[t][i]
  <2>1. stack'[t] = [stack[t] EXCEPT ![n] = ended]
    BY <1>4 DEF StackType
  <2> QED
    BY <1>1, <1>3, <2>1
<1>7. \A i \in 0..(n - 1) : ContextAt(t, i)' = ContextAt(t, i)
  BY <1>4, <1>6 DEF ContextAt
<1>8. current'[t] = Enclosing(t)'
  <2>1. Enclosing(t)' = ContextAt(t, n - 1)'
    BY <1>1, <1>3, <1>6 DEF Enclosing, Top
  <2>2. current'[t] = Top(t).saved
    BY <1>4 DEF Bind, StackType
  <2> QED
    BY <1>1, <1>2, <1>7, <2>1, <2>2
<1>9. ASSUME NEW i \in 1..n
      PROVE  /\ stack'[t][i].saved = ContextAt(t, i - 1)'
             /\ Continues(stack'[t][i])
             /\ i < n => stack'[t][i].ran = "running"
  <2>1. i - 1 \in 0..(n - 1) /\ i \in 1..Len(stack[t])
    BY <1>1
  <2>2. ContextAt(t, i - 1)' = ContextAt(t, i - 1)
    BY <1>7, <2>1
  <2>3. CASE i = n
    BY <1>2, <1>3, <1>6, <1>5, <2>2, <2>3
  <2>4. CASE i # n
    <3>1. i \in 1..(n - 1)
      BY <2>4
    <3>2. stack'[t][i] = stack[t][i]
      BY <1>6, <3>1
    <3> QED
      BY <1>1, <2>1, <2>2, <3>2 DEF Nested
  <2> QED BY <2>3, <2>4
<1>10. Nested(t)'
  BY <1>4, <1>6, <1>8, <1>9 DEF Nested, EndOperation, Running, Continues
<1>11. \A v \in Tasks : Nested(v)'
  BY <1>4, <1>10, OthersNested
<1>12. StackType'
  BY <1>2, <1>4, <1>6 DEF StackType, Bind, Frame
<1> QED
  BY <1>4, <1>11, <1>12 DEF RecordsFollowCode

LEMMA EmitStep ==
  ASSUME ContextInv, NEW t \in Tasks, NEW sinkRaises \in BOOLEAN, Emit(t, sinkRaises)
  PROVE  ContextInv'
<1> USE DEF ContextInv
<1> DEFINE frame == Top(t)
<1>1. PICK n \in Nat : n = Len(stack[t]) /\ n \in 1..Len(stack[t]) /\ stack[t] \in Seq(Frame)
  BY DEF StackType, Emit
<1>2. /\ frame = stack[t][n] /\ frame.saved = ContextAt(t, n - 1) /\ Continues(frame)
      /\ frame.call /\ frame.ran # "running"
  BY <1>1 DEF Top, Nested, Emit
<1>3. Enclosing(t) = frame.saved /\ current[t] = frame.saved
  BY <1>1, <1>2 DEF Enclosing, Nested, Emit
<1>4. /\ Pop(t) /\ stack[t] # <<>> /\ t \in live
      /\ UNCHANGED <<live, current, base, spans, carriers>>
  BY DEF Emit
<1>5. Nested(t)' /\ stack' \in [Tasks -> Seq(Frame)]
  BY <1>3, <1>4, NestedPop
<1>6. \A v \in Tasks : Nested(v)'
  <2>1. current' = Bind(t, current[t])
    BY <1>4 DEF Bind, StackType
  <2> QED
    BY <1>4, <1>5, <2>1, OthersNested DEF Pop
<1>7. StackType'
  BY <1>4, <1>5 DEF StackType
<1>8. RecordsFollowCode'
  <2>1. records' \subseteq records \cup {Record(frame, frame.saved)}
    BY <1>3 DEF Emit
  <2> HIDE DEF frame
  <2>2. ASSUME frame.saved = None
        PROVE  LET r == Record(frame, frame.saved)
               IN  r.within = None /\ r.parent = None /\ r.trace = r.span /\ r.identity = None
    BY <1>2, <2>2 DEF Record, OwnSpan, Continues
  <2>3. ASSUME frame.saved # None
        PROVE  LET r == Record(frame, frame.saved)
               IN  /\ r.within = frame.saved /\ r.parent = r.within.span
                   /\ r.trace = r.within.trace /\ r.identity = r.within.identity
    BY <1>2, <2>3 DEF Record, OwnSpan, Continues
  <2> QED
    BY <2>1, <2>2, <2>3 DEF RecordsFollowCode
<1> QED
  BY <1>6, <1>7, <1>8

LEMMA ContextStep ==
  ASSUME ContextInv, [TelemetryNext]_telemetryVars
  PROVE  ContextInv'
<1>1. ASSUME NEW t \in Tasks, TaskStep(t) PROVE ContextInv'
  BY <1>1, StartStep, ExitStep, EnterScopeStep, LeaveScopeStep, InjectStep,
     BeginCallStep, EndOperationStep, EmitStep DEF TaskStep
<1>2. CASE UNCHANGED telemetryVars
  BY <1>2 DEF ContextInv, StackType, Nested, Enclosing, ContextAt, Top, Continues,
     RecordsFollowCode, telemetryVars
<1> QED
  BY <1>1, <1>2 DEF TelemetryNext

-----------------------------------------------------------------------------
(* TypeScript calls.                                                       *)

(* A call's context continues its parent, or starts a trace.               *)
CallsContinue ==
  /\ tsCalls \subseteq TSCall
  /\ \A call \in tsCalls :
       IF call.parent = None
       THEN call.active.trace = call.active.span /\ call.active.identity = None
       ELSE /\ call.active.trace = call.parent.trace
            /\ call.active.identity = call.parent.identity

(* What a TypeScript step leaves alone.                                    *)
LEMMA PythonFrame ==
  ASSUME ContextInv, UNCHANGED <<live, current, stack, base>>
  PROVE  \A t \in Tasks : Nested(t)'
BY DEF ContextInv, Nested, Enclosing, ContextAt, Top, Continues

LEMMA ExtractIsContext ==
  ASSUME NEW context \in Context, NEW trust \in BOOLEAN
  PROVE  /\ TSExtract(context, trust) \in Context
         /\ TSExtract(context, trust).span = context.span
         /\ TSExtract(context, trust).trace = context.trace
BY DEF TSExtract, Context

LEMMA HeldAreContexts ==
  ASSUME ContextInv, CallsContinue
  PROVE  TSHeld \subseteq Context
BY ExtractIsContext DEF ContextInv, StackType, CallsContinue, TSHeld, TSCall

LEMMA TSInjectStep ==
  ASSUME ContextInv, CallsContinue, NEW context \in TSHeld, NEW identity \in BOOLEAN,
         TSInject(context, identity)
  PROVE  ContextInv' /\ CallsContinue'
<1>1. carriers' \subseteq Context
  BY HeldAreContexts, ExtractIsContext DEF TSInject, ContextInv, StackType
<1> QED
  BY <1>1, PythonFrame DEF TSInject, ContextInv, StackType, RecordsFollowCode, CallsContinue

LEMMA TSBeginStep ==
  ASSUME ContextInv, CallsContinue, NEW parent \in TSHeld \cup {None}, TSBegin(parent)
  PROVE  ContextInv' /\ CallsContinue'
<1> DEFINE active == TSActive(parent, spans + 1)
<1>1. spans + 1 \in Spans /\ spans' \in Nat
  BY MaxSpansAssumption DEF TSBegin, Spans, ContextInv, StackType
<1>2. parent \in ContextOrNone
  BY HeldAreContexts DEF ContextOrNone
<1>3. /\ active \in Context
      /\ IF parent = None
         THEN active.trace = active.span /\ active.identity = None
         ELSE active.trace = parent.trace /\ active.identity = parent.identity
  BY <1>1, <1>2 DEF TSActive, TSChild, Create, Context, ContextOrNone
<1>4. CallsContinue'
  <2> DEFINE new == [parent |-> parent, active |-> active, runs |-> TRUE]
  <2>1. new \in TSCall
    BY <1>2, <1>3 DEF TSCall
  <2>2. tsCalls' = tsCalls \cup {new}
    BY DEF TSBegin
  <2>3. new.parent = parent /\ new.active = active
    OBVIOUS
  <2> HIDE DEF new, active
  <2> QED
    BY <1>3, <2>1, <2>2, <2>3 DEF CallsContinue
<1> QED
  BY <1>1, <1>4, PythonFrame DEF TSBegin, ContextInv, StackType, RecordsFollowCode

LEMMA TSSettleStep ==
  ASSUME ContextInv, CallsContinue, NEW call \in tsCalls, NEW how \in {"returned", "raised"},
         NEW sinkThrows \in BOOLEAN, TSSettle(call, how, sinkThrows)
  PROVE  ContextInv' /\ CallsContinue'
<1> DEFINE ended == [call EXCEPT !.runs = FALSE]
<1>1. call \in TSCall
  BY DEF CallsContinue
<1>2. ended \in TSCall /\ ended.parent = call.parent /\ ended.active = call.active
  BY <1>1 DEF TSCall
<1>3. tsCalls' = (tsCalls \ {call}) \cup {ended}
  BY DEF TSSettle
<1> HIDE DEF ended
<1>4. CallsContinue'
  BY <1>2, <1>3 DEF CallsContinue
<1>5. records' \subseteq records \cup {TSRecord(call, how)}
  BY DEF TSSettle
<1>6. LET r == TSRecord(call, how)
      IN  IF r.within = None
          THEN r.parent = None /\ r.trace = r.span /\ r.identity = None
          ELSE /\ r.parent = r.within.span
               /\ r.trace = r.within.trace
               /\ r.identity = r.within.identity
  BY DEF TSRecord, CallsContinue
<1>7. RecordsFollowCode'
  BY <1>5, <1>6 DEF RecordsFollowCode, ContextInv
<1> QED
  BY <1>4, <1>7, PythonFrame DEF TSSettle, ContextInv, StackType

LEMMA SurfacesStep ==
  ASSUME ContextInv, CallsContinue, [SurfacesNext]_surfaceVars
  PROVE  ContextInv' /\ CallsContinue'
<1>1. CASE TelemetryNext /\ UNCHANGED tsCalls
  BY <1>1, ContextStep DEF CallsContinue
<1>2. CASE TSStep
  BY <1>2, TSInjectStep, TSBeginStep, TSSettleStep DEF TSStep
<1>3. CASE UNCHANGED surfaceVars
  BY <1>3, ContextStep DEF surfaceVars, CallsContinue
<1> QED
  BY <1>1, <1>2, <1>3 DEF SurfacesNext

LEMMA SurfacesAlways == SurfacesSpec => [](ContextInv /\ CallsContinue)
<1>1. SurfacesInit => ContextInv /\ CallsContinue
  BY TelemetryInitOK DEF SurfacesInit, CallsContinue
<1> QED
  BY <1>1, SurfacesStep, PTL DEF SurfacesSpec

(* For any tasks, requests, nesting and order, and whatever TypeScript     *)
(* services send: current_context() is the context of the code that reads  *)
(* it.                                                                     *)
THEOREM ContextIsOfCode == SurfacesSpec => []ContextFollowsCode
<1>1. ContextInv => ContextFollowsCode
  BY DEF ContextInv, StackType, Nested, ContextFollowsCode
<1> QED
  BY <1>1, SurfacesAlways, PTL

(* Likewise every record of both surfaces hangs under the context that     *)
(* encloses its call, or that its call was given.                          *)
THEOREM RecordsAreOfCode == SurfacesSpec => []RecordsFollowCode
<1>1. ContextInv => RecordsFollowCode
  BY DEF ContextInv
<1> QED
  BY <1>1, SurfacesAlways, PTL

-----------------------------------------------------------------------------
(* Spans.  A span is opened once, by one call, and recorded by that call    *)
(* when it has ended.                                                       *)

(* What a call is opened under came before it.                             *)
Older(context, span) == context # None => context.span \in Requests \/ context.span < span

(* The span of an open call is its own.                                    *)
Owns(t, i) ==
  LET span == stack[t][i].active.span
  IN  /\ span \in 1..spans
      /\ Older(stack[t][i].saved, span)
      /\ \A r \in records : r.span # span
      /\ \A call \in tsCalls : call.active.span # span
      /\ \A u \in Tasks : \A j \in 1..Len(stack[u]) :
           stack[u][j].call /\ stack[u][j].active.span = span => u = t /\ j = i

CallFrames == \A t \in Tasks : \A i \in 1..Len(stack[t]) : stack[t][i].call => Owns(t, i)

SurfaceCalls ==
  \A call \in tsCalls :
    /\ call.active.span \in 1..spans
    /\ Older(call.parent, call.active.span)
    /\ call.runs => \A r \in records : r.span # call.active.span
    /\ \A other \in tsCalls : other.active.span = call.active.span => other = call

RecordsOnce ==
  \A r \in records :
    /\ r.span \in 1..spans
    /\ Older(r.within, r.span)
    /\ r.status = "ERROR" <=> r.ran = "raised"
    /\ \A s \in records : s.span = r.span => s = r

SpanType ==
  /\ spans \in 0..MaxSpans
  /\ records \subseteq SpanRecord

SpanInv == CallFrames /\ SurfaceCalls /\ RecordsOnce /\ SpanType

(* The frames after the step were there before, but for how they stand.    *)
SameFrames ==
  \A t \in Tasks : \A i \in 1..Len(stack'[t]) :
    /\ i \in 1..Len(stack[t])
    /\ stack'[t][i].call = stack[t][i].call
    /\ stack'[t][i].active = stack[t][i].active
    /\ stack'[t][i].saved = stack[t][i].saved

(* The open calls after the step were open before.                         *)
SameCalls ==
  \A t \in Tasks : \A i \in 1..Len(stack'[t]) : stack'[t][i].call =>
    /\ i \in 1..Len(stack[t]) /\ stack[t][i].call
    /\ stack'[t][i].active = stack[t][i].active
    /\ stack'[t][i].saved = stack[t][i].saved

LEMMA UnchangedFrames == ASSUME UNCHANGED stack PROVE SameFrames /\ SameCalls
BY DEF SameFrames, SameCalls

LEMMA FramesAndCalls == ASSUME SameFrames PROVE SameCalls
BY DEF SameFrames, SameCalls

LEMMA PushFrames ==
  ASSUME StackType, NEW t \in Tasks, NEW frame, Push(t, frame)
  PROVE  /\ Len(stack'[t]) = Len(stack[t]) + 1 /\ Len(stack[t]) \in Nat
         /\ stack'[t][Len(stack[t]) + 1] = frame
         /\ \A i \in 1..Len(stack[t]) : stack'[t][i] = stack[t][i]
         /\ \A u \in Tasks : u # t => stack'[u] = stack[u]
<1>1. stack[t] \in Seq(Frame) /\ stack'[t] = Append(stack[t], frame)
  BY DEF StackType, Push
<1>2. \A u \in Tasks : u # t => stack'[u] = stack[u]
  BY DEF StackType, Push
<1> QED
  BY <1>1, <1>2

LEMMA PopFrames ==
  ASSUME StackType, NEW t \in Tasks, stack[t] # <<>>, Pop(t)
  PROVE  /\ SameFrames
         /\ Len(stack[t]) \in 1..Len(stack[t])
         /\ Len(stack'[t]) = Len(stack[t]) - 1
<1>1. stack[t] \in Seq(Frame) /\ stack'[t] = SubSeq(stack[t], 1, Len(stack[t]) - 1)
  BY DEF StackType, Pop
<1>2. /\ Len(stack[t]) \in Nat \ {0}
      /\ Len(stack'[t]) = Len(stack[t]) - 1
      /\ \A i \in 1..Len(stack'[t]) : stack'[t][i] = stack[t][i]
  BY <1>1
<1>3. \A u \in Tasks : u # t => stack'[u] = stack[u]
  BY DEF StackType, Pop
<1>4. \A i \in 1..Len(stack'[t]) : i \in 1..Len(stack[t])
  BY <1>2
<1>5. SameFrames
  BY <1>2, <1>3, <1>4 DEF SameFrames
<1> QED
  BY <1>2, <1>5

LEMMA EndFrames ==
  ASSUME StackType, NEW t \in Tasks, NEW how \in {"returned", "raised"}, EndOperation(t, how)
  PROVE  SameFrames
<1> DEFINE n == Len(stack[t])
           ended == [stack[t][n] EXCEPT !.ran = how]
<1>1. stack[t] \in Seq(Frame) /\ n \in Nat /\ n \in 1..Len(stack[t])
  BY DEF StackType, EndOperation
<1>2. stack' = [stack EXCEPT ![t] = [stack[t] EXCEPT ![n] = ended]]
  BY DEF EndOperation
<1>3. stack[t][n] \in Frame
  BY <1>1
<1>4. /\ ended \in Frame
      /\ ended.call = stack[t][n].call /\ ended.active = stack[t][n].active
      /\ ended.saved = stack[t][n].saved
  BY <1>3 DEF Frame
<1> HIDE DEF ended, n
<1>5. stack'[t] = [stack[t] EXCEPT ![n] = ended] /\ \A u \in Tasks : u # t => stack'[u] = stack[u]
  BY <1>2 DEF StackType
<1>6. Len(stack'[t]) = Len(stack[t])
  BY <1>1, <1>4, <1>5
<1>7. \A i \in 1..Len(stack[t]) : stack'[t][i] = IF i = n THEN ended ELSE stack[t][i]
  BY <1>1, <1>4, <1>5
<1> QED
  BY <1>4, <1>5, <1>6, <1>7 DEF SameFrames

(* Open calls keep their spans while no other call or record gets them.    *)
LEMMA FramesKept ==
  ASSUME CallFrames, SameCalls, spans' = spans,
         \A call \in tsCalls' : \E old \in tsCalls : old.active = call.active,
         \A r \in records' : r \in records \/ \A t \in Tasks : \A i \in 1..Len(stack'[t]) :
           stack'[t][i].call => r.span # stack'[t][i].active.span
  PROVE  CallFrames'
<1> SUFFICES ASSUME NEW t \in Tasks, NEW i \in 1..Len(stack'[t]), stack'[t][i].call
             PROVE  Owns(t, i)'
  BY DEF CallFrames
<1>1. /\ i \in 1..Len(stack[t]) /\ stack[t][i].call
      /\ stack'[t][i].active = stack[t][i].active
      /\ stack'[t][i].saved = stack[t][i].saved
  BY DEF SameCalls
<1>2. Owns(t, i)
  BY <1>1 DEF CallFrames
<1>3. ASSUME NEW u \in Tasks, NEW j \in 1..Len(stack'[u]), stack'[u][j].call,
             stack'[u][j].active.span = stack'[t][i].active.span
      PROVE  u = t /\ j = i
  <2>1. /\ j \in 1..Len(stack[u]) /\ stack[u][j].call
        /\ stack[u][j].active = stack'[u][j].active
    BY <1>3 DEF SameCalls
  <2>2. stack[u][j].active.span = stack[t][i].active.span
    BY <1>1, <1>3, <2>1
  <2> QED
    BY <1>2, <2>1, <2>2 DEF Owns
<1>4. \A r \in records' : r.span # stack'[t][i].active.span
  BY <1>1, <1>2 DEF Owns
<1>5. \A call \in tsCalls' : call.active.span # stack'[t][i].active.span
  BY <1>1, <1>2 DEF Owns
<1> QED
  BY <1>1, <1>2, <1>3, <1>4, <1>5 DEF Owns, Older

(* A step that opens and records nothing.                                  *)
LEMMA QuietSpans ==
  ASSUME SpanInv, SameCalls, UNCHANGED <<spans, records, tsCalls>>
  PROVE  SpanInv'
<1>1. CallFrames'
  BY FramesKept DEF SpanInv
<1>2. SurfaceCalls' /\ RecordsOnce' /\ SpanType'
  BY DEF SpanInv, SurfaceCalls, RecordsOnce, SpanType, Older
<1> QED
  BY <1>1, <1>2 DEF SpanInv

(* A record that tells the truth of a call that had none.                  *)
LEMMA RecordAdded ==
  ASSUME RecordsOnce, SpanType, NEW new \in SpanRecord, new.span \in 1..spans,
         Older(new.within, new.span), new.status = "ERROR" <=> new.ran = "raised",
         \A r \in records : r.span # new.span,
         spans' = spans, records' \subseteq records \cup {new}
  PROVE  RecordsOnce' /\ records' \subseteq SpanRecord
BY DEF RecordsOnce, SpanType, Older

(* What t runs in: the context of an open frame, or of its start.          *)
LEMMA CurrentIsHeld ==
  ASSUME ContextInv, NEW t \in Tasks, current[t] # None
  PROVE  \/ base[t] # None /\ current[t] = base[t]
         \/ \E i \in 1..Len(stack[t]) : current[t] = stack[t][i].active
<1>1. stack[t] \in Seq(Frame) /\ current[t] = Enclosing(t)
  BY DEF ContextInv, StackType, Nested
<1>2. PICK n \in Nat : n = Len(stack[t])
  BY <1>1
<1>3. PICK m \in 0..n : current[t] = ContextAt(t, m)
  <2>1. stack[t] # <<>> => n # 0
    BY <1>1, <1>2
  <2> QED
    BY <1>1, <1>2, <2>1 DEF Enclosing
<1> QED
  BY <1>2, <1>3 DEF ContextAt

(* Traces.  Wherever span s is named, it is of the same trace.             *)
ByCarrier(s, trace) == \E c \in carriers : c.span = s /\ c.trace = trace

ByTask(s, trace) ==
  \E t \in Tasks : base[t] # None /\ base[t].span = s /\ base[t].trace = trace

ByFrame(s, trace) ==
  \E t \in Tasks : \E i \in 1..Len(stack[t]) :
    stack[t][i].active.span = s /\ stack[t][i].active.trace = trace

ByCall(s, trace) ==
  \E call \in tsCalls :
    \/ call.active.span = s /\ call.active.trace = trace
    \/ call.parent # None /\ call.parent.span = s /\ call.parent.trace = trace

ByRecord(s, trace) ==
  \E r \in records :
    \/ r.span = s /\ r.trace = trace
    \/ r.within # None /\ r.within.span = s /\ r.within.trace = trace

Linked(s, trace) ==
  \/ ByCarrier(s, trace) \/ ByTask(s, trace) \/ ByFrame(s, trace)
  \/ ByCall(s, trace) \/ ByRecord(s, trace)

LinkInv ==
  /\ \A s, trace : Linked(s, trace) =>
       /\ s \in Requests \cup (1..spans)
       /\ s \in Requests => trace = s
  /\ \A s, one, other : Linked(s, one) /\ Linked(s, other) => one = other

LEMMA NoNewLink ==
  ASSUME LinkInv, spans' = spans, \A s, trace : Linked(s, trace)' => Linked(s, trace)
  PROVE  LinkInv'
BY DEF LinkInv

LEMMA NewLink ==
  ASSUME LinkInv, spans \in Nat, spans' = spans + 1, NEW new,
         \A s, trace : Linked(s, trace)' => Linked(s, trace) \/ (s = spans + 1 /\ trace = new)
  PROVE  LinkInv'
<1>1. spans + 1 \notin Requests /\ spans + 1 \notin 1..spans
  BY RequestsAssumption
<1>2. ASSUME NEW s, NEW trace, Linked(s, trace)'
      PROVE  s \in Requests \cup (1..spans') /\ (s \in Requests => trace = s)
  BY <1>1, <1>2 DEF LinkInv
<1>3. ASSUME NEW s, NEW one, NEW other, Linked(s, one)', Linked(s, other)'
      PROVE  one = other
  BY <1>1, <1>3 DEF LinkInv
<1> QED
  BY <1>2, <1>3 DEF LinkInv

LEMMA SameFramesLinks ==
  ASSUME SameFrames
  PROVE  \A s, trace : ByFrame(s, trace)' => ByFrame(s, trace)
BY DEF SameFrames, ByFrame

LEMMA ContextLinked ==
  ASSUME ContextInv, NEW t \in Tasks
  PROVE  /\ current[t] # None => Linked(current[t].span, current[t].trace)
         /\ current[t] = Enclosing(t)
<1>1. current[t] = Enclosing(t)
  BY DEF ContextInv, Nested
<1> QED
  BY <1>1, CurrentIsHeld DEF Linked, ByTask, ByFrame

LEMMA HeldLinked ==
  ASSUME ContextInv, CallsContinue, NEW context \in TSHeld
  PROVE  context \in Context /\ Linked(context.span, context.trace)
<1>1. context \in Context
  BY HeldAreContexts
<1>2. ASSUME NEW carrier \in carriers, NEW trust \in BOOLEAN, context = TSExtract(carrier, trust)
      PROVE  Linked(context.span, context.trace)
  BY <1>2, ExtractIsContext DEF ContextInv, StackType, Linked, ByCarrier
<1>3. ASSUME NEW call \in tsCalls, context = call.active
      PROVE  Linked(context.span, context.trace)
  BY <1>3 DEF Linked, ByCall
<1> QED
  BY <1>1, <1>2, <1>3 DEF TSHeld

-----------------------------------------------------------------------------
(* The steps, for spans and traces.                                        *)

TraceInv == ContextInv /\ CallsContinue /\ SpanInv /\ LinkInv

LEMMA StartTraces ==
  ASSUME TraceInv, NEW t \in Tasks, NEW u \in Tasks, NEW copied \in BOOLEAN, Start(t, u, copied),
         UNCHANGED tsCalls
  PROVE  SpanInv' /\ LinkInv'
<1>1. SpanInv'
  BY UnchangedFrames, QuietSpans DEF Start, TraceInv, Running
<1>2. Enclosing(t) # None => Linked(Enclosing(t).span, Enclosing(t).trace)
  BY ContextLinked DEF TraceInv
<1>3. \A v \in Tasks : base'[v] = base[v] \/ base'[v] = None \/ base'[v] = Enclosing(t)
  BY DEF Start, TraceInv, ContextInv, StackType
<1>4. \A s, trace : ByTask(s, trace)' => Linked(s, trace)
  BY <1>2, <1>3 DEF ByTask, Linked
<1>5. \A s, trace : Linked(s, trace)' => Linked(s, trace)
  BY <1>4 DEF Start, Linked, ByCarrier, ByFrame, ByCall, ByRecord
<1> QED
  BY <1>1, <1>5, NoNewLink DEF Start, TraceInv

LEMMA ExitTraces ==
  ASSUME TraceInv, NEW t \in Tasks, Exit(t),
         UNCHANGED tsCalls
  PROVE  SpanInv' /\ LinkInv'
<1>1. SpanInv'
  BY UnchangedFrames, QuietSpans DEF Exit, TraceInv
<1>2. \A v \in Tasks : base'[v] = base[v] \/ base'[v] = None
  BY DEF Exit, TraceInv, ContextInv, StackType
<1>3. \A s, trace : Linked(s, trace)' => Linked(s, trace)
  BY <1>2 DEF Exit, Linked, ByTask, ByCarrier, ByFrame, ByCall, ByRecord
<1> QED
  BY <1>1, <1>3, NoNewLink DEF Exit, TraceInv

LEMMA EnterScopeTraces ==
  ASSUME TraceInv, NEW t \in Tasks, NEW carrier \in carriers, NEW trust \in BOOLEAN,
         EnterScope(t, carrier, trust), UNCHANGED tsCalls
  PROVE  SpanInv' /\ LinkInv'
<1> DEFINE context == Extract(carrier, trust)
           frame == [call |-> FALSE, active |-> context, saved |-> current[t],
                     ran |-> "running"]
<1>1. context.span = carrier.span /\ context.trace = carrier.trace
  BY DEF Extract, TraceInv, ContextInv, StackType, Context
<1>2. Push(t, frame) /\ frame.call = FALSE /\ frame.active = context
  BY DEF EnterScope
<1> HIDE DEF frame, context
<1>3. /\ Len(stack'[t]) = Len(stack[t]) + 1 /\ Len(stack[t]) \in Nat
      /\ stack'[t][Len(stack[t]) + 1] = frame
      /\ \A i \in 1..Len(stack[t]) : stack'[t][i] = stack[t][i]
      /\ \A u \in Tasks : u # t => stack'[u] = stack[u]
  BY <1>2, PushFrames DEF TraceInv, ContextInv
<1>4. \A i \in 1..Len(stack'[t]) : i \in 1..Len(stack[t]) \/ stack'[t][i] = frame
  BY <1>3
<1>5. SameCalls
  BY <1>2, <1>3, <1>4 DEF SameCalls
<1>6. SpanInv'
  BY <1>5, QuietSpans DEF EnterScope, TraceInv
<1>7. \A s, trace : ByFrame(s, trace)' => ByFrame(s, trace) \/ ByCarrier(s, trace)
  BY <1>1, <1>2, <1>3, <1>4 DEF ByFrame, ByCarrier
<1>8. \A s, trace : Linked(s, trace)' => Linked(s, trace)
  BY <1>7 DEF EnterScope, Linked, ByTask, ByCarrier, ByCall, ByRecord
<1> QED
  BY <1>6, <1>8, NoNewLink DEF EnterScope, TraceInv

LEMMA LeaveScopeTraces ==
  ASSUME TraceInv, NEW t \in Tasks, LeaveScope(t),
         UNCHANGED tsCalls
  PROVE  SpanInv' /\ LinkInv'
<1>1. SameFrames
  BY PopFrames DEF LeaveScope, TraceInv, ContextInv
<1>2. SpanInv'
  BY <1>1, FramesAndCalls, QuietSpans DEF LeaveScope, TraceInv
<1>3. \A s, trace : Linked(s, trace)' => Linked(s, trace)
  BY <1>1, SameFramesLinks DEF LeaveScope, Linked, ByTask, ByCarrier, ByCall, ByRecord
<1> QED
  BY <1>2, <1>3, NoNewLink DEF LeaveScope, TraceInv

LEMMA InjectTraces ==
  ASSUME TraceInv, NEW t \in Tasks, NEW identity \in BOOLEAN, Inject(t, identity),
         UNCHANGED tsCalls
  PROVE  SpanInv' /\ LinkInv'
<1>1. SpanInv'
  BY UnchangedFrames, QuietSpans DEF Inject, TraceInv
<1>2. current[t] \in Context
  BY DEF Inject, TraceInv, ContextInv, StackType, ContextOrNone
<1>3. /\ Extract(current[t], identity).span = current[t].span
      /\ Extract(current[t], identity).trace = current[t].trace
  BY <1>2 DEF Extract, Context
<1>4. Linked(current[t].span, current[t].trace)
  BY ContextLinked DEF Inject, TraceInv
<1>5. \A s, trace : ByCarrier(s, trace)' => Linked(s, trace)
  BY <1>3, <1>4 DEF Inject, ByCarrier, Linked
<1>6. \A s, trace : Linked(s, trace)' => Linked(s, trace)
  BY <1>5 DEF Inject, Linked, ByTask, ByFrame, ByCall, ByRecord
<1> QED
  BY <1>1, <1>6, NoNewLink DEF Inject, TraceInv

LEMMA EndOperationTraces ==
  ASSUME TraceInv, NEW t \in Tasks, NEW how \in {"returned", "raised"}, EndOperation(t, how),
         UNCHANGED tsCalls
  PROVE  SpanInv' /\ LinkInv'
<1>1. SameFrames
  BY EndFrames DEF TraceInv, ContextInv
<1>2. SpanInv'
  BY <1>1, FramesAndCalls, QuietSpans DEF EndOperation, TraceInv
<1>3. \A s, trace : Linked(s, trace)' => Linked(s, trace)
  BY <1>1, SameFramesLinks DEF EndOperation, Linked, ByTask, ByCarrier, ByCall, ByRecord
<1> QED
  BY <1>2, <1>3, NoNewLink DEF EndOperation, TraceInv

LEMMA BeginCallTraces ==
  ASSUME TraceInv, NEW t \in Tasks, BeginCall(t), UNCHANGED tsCalls
  PROVE  SpanInv' /\ LinkInv'
<1> DEFINE span == spans + 1
           active == IF current[t] = None THEN Create(span) ELSE Child(current[t], span)
           frame == [call |-> TRUE, active |-> active, saved |-> current[t],
                     ran |-> "running"]
<1>1. /\ Push(t, frame) /\ frame.call /\ frame.active = active /\ frame.saved = current[t]
      /\ spans \in Nat /\ spans' = span /\ span \in 1..spans' /\ span \notin 1..spans
      /\ UNCHANGED <<carriers, records, base, tsCalls>>
  BY DEF BeginCall, TraceInv, ContextInv, StackType
<1>2. active.span = span /\ (current[t] # None => active.trace = current[t].trace)
  BY DEF Create, Child, TraceInv, ContextInv, StackType, ContextOrNone, Context
<1>3. Older(frame.saved, span)
  BY <1>1, ContextLinked DEF TraceInv, LinkInv, Older
<1>4. SpanType'
  BY MaxSpansAssumption DEF BeginCall, TraceInv, SpanInv, SpanType
<1> HIDE DEF frame, active
<1>5. /\ Len(stack'[t]) = Len(stack[t]) + 1 /\ Len(stack[t]) \in Nat
      /\ stack'[t][Len(stack[t]) + 1] = frame
      /\ \A i \in 1..Len(stack[t]) : stack'[t][i] = stack[t][i]
      /\ \A u \in Tasks : u # t => stack'[u] = stack[u]
  BY <1>1, PushFrames DEF TraceInv, ContextInv
<1>6. ASSUME NEW u \in Tasks, NEW i \in 1..Len(stack'[u])
      PROVE  \/ u = t /\ i = Len(stack'[t]) /\ stack'[u][i] = frame
             \/ i \in 1..Len(stack[u]) /\ stack'[u][i] = stack[u][i]
  BY <1>5
<1>7. ASSUME NEW u \in Tasks, NEW i \in 1..Len(stack'[u]), stack'[u][i].call
      PROVE  \/ u = t /\ i = Len(stack'[t]) /\ stack'[u][i] = frame
             \/ stack'[u][i] = stack[u][i] /\ Owns(u, i) /\ stack[u][i].active.span \in 1..spans
  BY <1>6, <1>7 DEF TraceInv, SpanInv, CallFrames, Owns
<1>8. CallFrames'
  <2> SUFFICES ASSUME NEW u \in Tasks, NEW i \in 1..Len(stack'[u]), stack'[u][i].call
               PROVE  Owns(u, i)'
    BY DEF CallFrames
  <2>1. CASE u = t /\ i = Len(stack'[t]) /\ stack'[u][i] = frame
    <3>1. \A r \in records' : r.span # span
      BY <1>1 DEF TraceInv, SpanInv, RecordsOnce
    <3>2. \A call \in tsCalls' : call.active.span # span
      BY <1>1 DEF TraceInv, SpanInv, SurfaceCalls
    <3>3. \A v \in Tasks : \A j \in 1..Len(stack'[v]) :
            stack'[v][j].call /\ stack'[v][j].active.span = span => v = u /\ j = i
      BY <1>1, <1>7, <2>1
    <3> QED
      BY <1>1, <1>2, <1>3, <2>1, <3>1, <3>2, <3>3 DEF Owns, Older
  <2>2. CASE /\ stack'[u][i] = stack[u][i] /\ Owns(u, i)
             /\ stack[u][i].active.span \in 1..spans
    <3>1. ASSUME NEW v \in Tasks, NEW j \in 1..Len(stack'[v]), stack'[v][j].call,
                 stack'[v][j].active.span = stack'[u][i].active.span
          PROVE  v = u /\ j = i
      <4>1. stack'[v][j] # frame
        BY <1>1, <1>2, <2>2, <3>1
      <4>2. j \in 1..Len(stack[v]) /\ stack'[v][j] = stack[v][j]
        BY <1>6, <4>1
      <4> QED
        BY <2>2, <3>1, <4>2 DEF Owns
    <3> QED
      BY <1>1, <2>2, <3>1 DEF Owns, Older
  <2> QED
    BY <1>7, <2>1, <2>2
<1>9. SurfaceCalls' /\ RecordsOnce'
  BY <1>1 DEF TraceInv, SpanInv, SurfaceCalls, RecordsOnce, Older
<1>10. \A s, trace : ByFrame(s, trace)' =>
         ByFrame(s, trace) \/ (s = spans + 1 /\ trace = active.trace)
  <2> SUFFICES ASSUME NEW s, NEW trace, ByFrame(s, trace)'
               PROVE  ByFrame(s, trace) \/ (s = spans + 1 /\ trace = active.trace)
    OBVIOUS
  <2>1. PICK u \in Tasks : \E i \in 1..Len(stack'[u]) :
          stack'[u][i].active.span = s /\ stack'[u][i].active.trace = trace
    BY DEF ByFrame
  <2>2. PICK i \in 1..Len(stack'[u]) :
          stack'[u][i].active.span = s /\ stack'[u][i].active.trace = trace
    BY <2>1
  <2>3. CASE stack'[u][i] = frame
    BY <1>1, <1>2, <2>2, <2>3
  <2>4. CASE i \in 1..Len(stack[u]) /\ stack'[u][i] = stack[u][i]
    BY <2>2, <2>4 DEF ByFrame
  <2> QED
    BY <1>6, <2>3, <2>4
<1>11. \A s, trace : Linked(s, trace)' =>
         Linked(s, trace) \/ (s = spans + 1 /\ trace = active.trace)
  BY <1>1, <1>10 DEF Linked, ByTask, ByCarrier, ByCall, ByRecord
<1>12. LinkInv'
  <2>1. PICK new : new = active.trace
    OBVIOUS
  <2>2. \A s, trace : Linked(s, trace)' => Linked(s, trace) \/ (s = spans + 1 /\ trace = new)
    BY <1>11, <2>1
  <2> QED
    BY <1>1, <2>2, NewLink DEF TraceInv
<1> QED
  BY <1>4, <1>8, <1>9, <1>12 DEF SpanInv

LEMMA EmitTraces ==
  ASSUME TraceInv, NEW t \in Tasks, NEW sinkRaises \in BOOLEAN, Emit(t, sinkRaises),
         UNCHANGED tsCalls
  PROVE  SpanInv' /\ LinkInv'
<1> DEFINE n == Len(stack[t])
           new == Record(Top(t), Enclosing(t))
<1>1. /\ stack[t] # <<>> /\ Top(t).call /\ Top(t).ran # "running" /\ Pop(t)
      /\ records' \subseteq records \cup {new}
      /\ UNCHANGED <<live, current, spans, carriers, base, tsCalls>>
  BY DEF Emit
<1>2. SameFrames /\ n \in 1..n /\ Len(stack'[t]) = n - 1
  BY <1>1, PopFrames DEF TraceInv, ContextInv
<1>3. /\ Top(t) = stack[t][n] /\ Top(t) \in Frame /\ Owns(t, n)
      /\ n \in 1..Len(stack[t])
  BY <1>1, <1>2 DEF Top, TraceInv, ContextInv, StackType, SpanInv, CallFrames
<1>4. Enclosing(t) = Top(t).saved /\ Enclosing(t) \in ContextOrNone
  BY <1>1, <1>2, <1>3 DEF TraceInv, ContextInv, Nested, Enclosing, Frame
<1>5. /\ new.span = Top(t).active.span /\ new.trace = Top(t).active.trace
      /\ new.within = Enclosing(t) /\ new.ran = Top(t).ran
      /\ new.status = Status(Top(t).ran)
  BY DEF Record, OwnSpan
<1>6. /\ new.span \in 1..spans /\ Older(new.within, new.span)
      /\ new.status = "ERROR" <=> new.ran = "raised"
      /\ \A r \in records : r.span # new.span
  BY <1>3, <1>4, <1>5 DEF Owns, Status
<1>7. new \in SpanRecord
  <2>1. Top(t).active.span \in Spans
    BY <1>3, MaxSpansAssumption DEF Owns, Spans, TraceInv, SpanInv, SpanType
  <2>2. Top(t).ran \in {"returned", "raised"}
    BY <1>1, <1>3 DEF Frame
  <2>3. Top(t).active \in Context /\ Top(t).saved \in ContextOrNone
    BY <1>3 DEF Frame
  <2>4. Top(t).saved # None => Top(t).saved.span \in Requests \cup Spans
    BY <2>3 DEF Context, ContextOrNone
  <2>5. /\ Top(t).active.trace \in Requests \cup Spans
        /\ Top(t).active.identity \in Requests \cup {None}
    BY <2>3 DEF Context
  <2>6. (IF Top(t).saved = None THEN None ELSE Top(t).saved.span)
          \in Requests \cup Spans \cup {None}
    BY <2>4
  <2>7. Status(Top(t).ran) \in {"OK", "ERROR"}
    BY DEF Status
  <2> QED
    BY <1>4, <2>1, <2>2, <2>5, <2>6, <2>7 DEF Record, OwnSpan, SpanRecord
<1> HIDE DEF new, n
<1>8. RecordsOnce' /\ records' \subseteq SpanRecord
  BY <1>1, <1>6, <1>7, RecordAdded DEF TraceInv, SpanInv
<1>10. SpanType'
  BY <1>1, <1>8 DEF TraceInv, SpanInv, SpanType
<1>11. ASSUME NEW u \in Tasks, NEW i \in 1..Len(stack'[u]), stack'[u][i].call
       PROVE  new.span # stack'[u][i].active.span
  <2>1. /\ i \in 1..Len(stack[u]) /\ stack[u][i].call
        /\ stack'[u][i].active = stack[u][i].active
    BY <1>2, <1>11 DEF SameFrames
  <2>2. ~(u = t /\ i = n)
    BY <1>2
  <2> QED
    BY <1>3, <1>5, <2>1, <2>2 DEF Owns
<1>12. CallFrames'
  BY <1>1, <1>2, <1>11, FramesAndCalls, FramesKept DEF TraceInv, SpanInv
<1>13. SurfaceCalls'
  BY <1>1, <1>3, <1>5 DEF TraceInv, SpanInv, SurfaceCalls, Older, Owns
<1>14. /\ Linked(new.span, new.trace)
       /\ new.within # None => Linked(new.within.span, new.within.trace)
  <2>1. ByFrame(new.span, new.trace)
    BY <1>3, <1>5 DEF ByFrame
  <2>2. new.within # None => Linked(new.within.span, new.within.trace)
    BY <1>5, ContextLinked DEF TraceInv
  <2> QED
    BY <2>1, <2>2 DEF Linked
<1>15. \A s, trace : ByRecord(s, trace)' => Linked(s, trace)
  BY <1>1, <1>14 DEF ByRecord, Linked
<1>16. \A s, trace : Linked(s, trace)' => Linked(s, trace)
  BY <1>1, <1>2, <1>15, SameFramesLinks DEF Linked, ByTask, ByCarrier, ByCall
<1>17. LinkInv'
  BY <1>1, <1>16, NoNewLink DEF TraceInv
<1> QED
  BY <1>8, <1>10, <1>12, <1>13, <1>17 DEF SpanInv

LEMMA TSInjectTraces ==
  ASSUME TraceInv, NEW context \in TSHeld, NEW identity \in BOOLEAN,
         TSInject(context, identity)
  PROVE  SpanInv' /\ LinkInv'
<1>1. SpanInv'
  BY UnchangedFrames, QuietSpans DEF TSInject, TraceInv
<1>2. context \in Context /\ Linked(context.span, context.trace)
  BY HeldLinked DEF TraceInv
<1>3. /\ TSExtract(context, identity).span = context.span
      /\ TSExtract(context, identity).trace = context.trace
  BY <1>2, ExtractIsContext
<1>4. \A s, trace : ByCarrier(s, trace)' => Linked(s, trace)
  BY <1>2, <1>3 DEF TSInject, ByCarrier, Linked
<1>5. \A s, trace : Linked(s, trace)' => Linked(s, trace)
  BY <1>4 DEF TSInject, Linked, ByTask, ByFrame, ByCall, ByRecord
<1> QED
  BY <1>1, <1>5, NoNewLink DEF TSInject, TraceInv

LEMMA TSBeginTraces ==
  ASSUME TraceInv, NEW parent \in TSHeld \cup {None}, TSBegin(parent)
  PROVE  SpanInv' /\ LinkInv'
<1> DEFINE span == spans + 1
           active == TSActive(parent, span)
           new == [parent |-> parent, active |-> active, runs |-> TRUE]
<1>1. /\ spans \in Nat /\ spans' = span /\ span \in 1..spans' /\ span \notin 1..spans
      /\ new.parent = parent /\ new.active = active /\ tsCalls' = tsCalls \cup {new}
      /\ UNCHANGED <<stack, carriers, records, base>>
  BY DEF TSBegin, TraceInv, ContextInv, StackType
<1>2. parent # None => parent \in Context /\ Linked(parent.span, parent.trace)
  BY HeldLinked DEF TraceInv
<1>3. active.span = span /\ (parent # None => active.trace = parent.trace)
  BY <1>2 DEF TSActive, TSChild, Create, Context
<1>4. Older(parent, span)
  BY <1>1, <1>2 DEF TraceInv, LinkInv, Older
<1>5. SpanType'
  BY MaxSpansAssumption DEF TSBegin, TraceInv, SpanInv, SpanType
<1> HIDE DEF new, active
<1>6. CallFrames'
  BY <1>1, <1>3 DEF TraceInv, SpanInv, CallFrames, Owns, Older
<1>7. RecordsOnce'
  BY <1>1 DEF TraceInv, SpanInv, RecordsOnce, Older
<1>8. \A r \in records : r.span # span
  BY <1>1 DEF TraceInv, SpanInv, RecordsOnce
<1>9. SurfaceCalls'
  BY <1>1, <1>3, <1>4, <1>8 DEF TraceInv, SpanInv, SurfaceCalls, Older
<1>10. PICK trace0 : trace0 = active.trace
  OBVIOUS
<1>11. \A s, trace : ByCall(s, trace)' =>
         Linked(s, trace) \/ (s = spans + 1 /\ trace = trace0)
  BY <1>1, <1>2, <1>3, <1>10 DEF ByCall, Linked
<1>12. \A s, trace : Linked(s, trace)' =>
         Linked(s, trace) \/ (s = spans + 1 /\ trace = trace0)
  BY <1>1, <1>11 DEF Linked, ByTask, ByCarrier, ByFrame, ByRecord
<1>13. LinkInv'
  BY <1>1, <1>12, NewLink DEF TraceInv
<1> QED
  BY <1>5, <1>6, <1>7, <1>9, <1>13 DEF SpanInv

LEMMA TSSettleTraces ==
  ASSUME TraceInv, NEW call \in tsCalls, NEW how \in {"returned", "raised"},
         NEW sinkThrows \in BOOLEAN, TSSettle(call, how, sinkThrows)
  PROVE  SpanInv' /\ LinkInv'
<1> DEFINE ended == [call EXCEPT !.runs = FALSE]
           new == TSRecord(call, how)
<1>1. call \in TSCall /\ call.runs
  BY DEF TSSettle, TraceInv, CallsContinue
<1>2. ended.parent = call.parent /\ ended.active = call.active /\ ended.runs = FALSE
  BY <1>1 DEF TSCall
<1>3. /\ tsCalls' = (tsCalls \ {call}) \cup {ended}
      /\ records' \subseteq records \cup {new}
      /\ UNCHANGED <<stack, spans, carriers, base>>
  BY DEF TSSettle
<1>4. /\ new.span = call.active.span /\ new.trace = call.active.trace
      /\ new.within = call.parent /\ new.ran = how
      /\ new.status = "ERROR" <=> how = "raised"
  BY DEF TSRecord
<1>5. /\ new.span \in 1..spans /\ Older(new.within, new.span)
      /\ \A r \in records : r.span # new.span
  BY <1>1, <1>4 DEF TraceInv, SpanInv, SurfaceCalls
<1>6. call.active.span \in Spans
  BY <1>4, <1>5, MaxSpansAssumption DEF Spans, TraceInv, SpanInv, SpanType
<1>7. new \in SpanRecord
  <2>1. /\ call.active.trace \in Requests \cup Spans
        /\ call.active.identity \in Requests \cup {None}
        /\ call.parent \in ContextOrNone
    BY <1>1 DEF TSCall, Context
  <2>2. call.parent # None => call.parent.span \in Requests \cup Spans
    BY <2>1 DEF Context, ContextOrNone
  <2>3. (IF call.parent = None THEN None ELSE call.parent.span)
          \in Requests \cup Spans \cup {None}
    BY <2>2
  <2> QED
    BY <1>6, <2>1, <2>3 DEF TSRecord, SpanRecord
<1> HIDE DEF ended, new
<1>8. RecordsOnce' /\ records' \subseteq SpanRecord
  BY <1>3, <1>4, <1>5, <1>7, RecordAdded DEF TraceInv, SpanInv
<1>10. SpanType'
  BY <1>3, <1>8 DEF TraceInv, SpanInv, SpanType
<1>11. CallFrames'
  <2>1. SameCalls /\ spans' = spans /\ CallFrames
    BY <1>3, UnchangedFrames DEF TraceInv, SpanInv
  <2>2. \A one \in tsCalls' : \E old \in tsCalls : old.active = one.active
    BY <1>2, <1>3
  <2>3. \A t \in Tasks : \A i \in 1..Len(stack'[t]) :
          stack'[t][i].call => stack'[t][i].active.span # new.span
    BY <1>3, <1>4, <2>1 DEF CallFrames, Owns
  <2>4. \A r \in records' : r \in records \/ \A t \in Tasks : \A i \in 1..Len(stack'[t]) :
          stack'[t][i].call => r.span # stack'[t][i].active.span
    BY <1>3, <2>3
  <2> QED
    BY <2>1, <2>2, <2>4, FramesKept
<1>12. SurfaceCalls'
  <2>1. ASSUME NEW one \in tsCalls', one # ended
        PROVE  one \in tsCalls /\ one # call /\ one.active.span # call.active.span
    BY <1>3, <2>1 DEF TraceInv, SpanInv, SurfaceCalls
  <2> QED
    BY <1>2, <1>3, <1>4, <2>1 DEF TraceInv, SpanInv, SurfaceCalls, Older
<1>13. \A s, trace : ByCall(s, trace)' => ByCall(s, trace)
  BY <1>2, <1>3 DEF ByCall
<1>14. \A s, trace : ByRecord(s, trace)' => ByRecord(s, trace) \/ ByCall(s, trace)
  BY <1>3, <1>4 DEF ByRecord, ByCall
<1>15. \A s, trace : Linked(s, trace)' => Linked(s, trace)
  BY <1>3, <1>13, <1>14 DEF Linked, ByTask, ByFrame, ByCarrier
<1>16. LinkInv'
  BY <1>3, <1>15, NoNewLink DEF TraceInv
<1> QED
  BY <1>8, <1>10, <1>11, <1>12, <1>16 DEF SpanInv

LEMMA TraceStep ==
  ASSUME TraceInv, [SurfacesNext]_surfaceVars
  PROVE  TraceInv'
<1>1. ContextInv' /\ CallsContinue'
  BY SurfacesStep DEF TraceInv
<1>2. ASSUME NEW t \in Tasks, TaskStep(t), UNCHANGED tsCalls PROVE SpanInv' /\ LinkInv'
  BY <1>2, StartTraces, ExitTraces, EnterScopeTraces, LeaveScopeTraces, InjectTraces,
     BeginCallTraces, EndOperationTraces, EmitTraces DEF TaskStep, Start, TraceInv, ContextInv,
     StackType
<1>3. ASSUME TSStep PROVE SpanInv' /\ LinkInv'
  BY <1>3, TSInjectTraces, TSBeginTraces, TSSettleTraces DEF TSStep
<1>4. ASSUME UNCHANGED surfaceVars PROVE SpanInv' /\ LinkInv'
  <2>1. SpanInv'
    BY <1>4, UnchangedFrames, QuietSpans DEF TraceInv, surfaceVars, telemetryVars
  <2>2. LinkInv'
    BY <1>4 DEF TraceInv, LinkInv, Linked, ByCarrier, ByTask, ByFrame, ByCall, ByRecord,
       surfaceVars, telemetryVars
  <2> QED
    BY <2>1, <2>2
<1>5. SpanInv' /\ LinkInv'
  BY <1>2, <1>3, <1>4 DEF SurfacesNext, TelemetryNext
<1> QED
  BY <1>1, <1>5 DEF TraceInv

LEMMA TraceAlways == SurfacesSpec => []TraceInv
<1>1. SurfacesInit => TraceInv
  <2> SUFFICES ASSUME SurfacesInit PROVE TraceInv
    OBVIOUS
  <2>1. ContextInv /\ CallsContinue
    BY TelemetryInitOK DEF SurfacesInit, CallsContinue
  <2>2. SpanInv
    BY MaxSpansAssumption DEF SurfacesInit, TelemetryInit, SpanInv, CallFrames, SurfaceCalls,
       RecordsOnce, SpanType
  <2>3. \A s, trace : Linked(s, trace) => s \in Requests /\ trace = s
    BY DEF SurfacesInit, TelemetryInit, Linked, ByCarrier, ByTask, ByFrame, ByCall, ByRecord
  <2>4. LinkInv
    BY <2>3 DEF LinkInv
  <2> QED
    BY <2>1, <2>2, <2>4 DEF TraceInv
<1> QED
  BY <1>1, TraceStep, PTL DEF SurfacesSpec

(* The sink is told the truth of each span, at most once, and never of a   *)
(* call whose operation still runs.                                        *)
THEOREM RecordsAreTrue == SurfacesSpec => []RecordsTruthful
<1>1. TraceInv => RecordsTruthful
  BY DEF TraceInv, ContextInv, StackType, SpanInv, RecordsOnce, CallFrames, Owns,
     RecordsTruthful
<1> QED
  BY <1>1, TraceAlways, PTL

(* Spans form trees, whatever contexts pass between tasks and services.    *)
THEOREM TracesAreTrees == SurfacesSpec => []TraceTree
<1>1. ASSUME TraceInv PROVE TraceTree
  <2> SUFFICES ASSUME NEW r \in records
               PROVE  /\ r.parent = None => r.trace = r.span
                      /\ r.parent \in Requests => r.trace = r.parent
                      /\ r.parent \in Spans =>
                           /\ r.parent < r.span
                           /\ \A p \in records : p.span = r.parent => p.trace = r.trace
    BY DEF TraceTree
  <2>1. CASE r.within = None
    BY <1>1, <2>1, RequestsAssumption, NoneSpan
       DEF TraceInv, ContextInv, RecordsFollowCode, Spans
  <2>2. CASE r.within # None
    <3>1. r.parent = r.within.span /\ r.trace = r.within.trace
      BY <1>1, <2>2 DEF TraceInv, ContextInv, RecordsFollowCode
    <3>2. Linked(r.parent, r.trace)
      BY <2>2, <3>1 DEF Linked, ByRecord
    <3>3. r.parent \in Requests \cup (1..spans) /\ (r.parent \in Requests => r.trace = r.parent)
      BY <1>1, <3>2 DEF TraceInv, LinkInv
    <3>4. r.parent # None
      BY <3>3, RequestsAssumption, NoneSpan
    <3>5. r.parent \in Spans => r.parent < r.span
      BY <1>1, <2>2, <3>1, RequestsAssumption
         DEF TraceInv, SpanInv, RecordsOnce, Older, Spans
    <3>6. ASSUME NEW p \in records, p.span = r.parent PROVE p.trace = r.trace
      <4>1. Linked(r.parent, p.trace)
        BY <3>6 DEF Linked, ByRecord
      <4> QED
        BY <1>1, <3>2, <4>1 DEF TraceInv, LinkInv
    <3> QED
      BY <3>3, <3>4, <3>5, <3>6
  <2> QED
    BY <2>1, <2>2
<1> QED
  BY <1>1, TraceAlways, PTL

(* Both surfaces keep contexts, frames, calls and records of their types.  *)
THEOREM SurfacesTypeCorrect == SurfacesSpec => []SurfacesTypeOK
<1>1. TraceInv => SurfacesTypeOK
  BY DEF TraceInv, ContextInv, StackType, CallsContinue, SpanInv, SpanType, SurfacesTypeOK,
     TelemetryTypeOK
<1> QED
  BY <1>1, TraceAlways, PTL

-----------------------------------------------------------------------------
(* The framework adapters.                                                 *)

(* What the adapter's factory saw of its object, once the adapter is made. *)
FactorySaw ==
  adapter = "made" =>
    /\ framework \in Declared => \A m \in Methods : checked[m] \notin NotCallable
    /\ framework \in Vectors => SearchAccepted(checked["search"])

(* How far a call that has not answered has got.                           *)
Underway(call) ==
  \/ call = Idle
  \/ /\ call.phase = "inside" /\ call.ran = "running" /\ call.span = "open"
     /\ call.work = "none" /\ call.answer = "none"
     /\ call.kind = "coroutine" => Mode(call.method) = "async"
  \/ /\ call.phase = "returned" /\ call.ran = "awaitable" /\ call.span = "OK"
     /\ call.answer = "none" /\ Mode(call.method) = "sync"
     /\ \/ call.kind = "lazy" /\ call.work = "created"
        \/ call.kind = "task" /\ call.work \in {"running", "finished", "failed"}
  \/ /\ call.phase = "awaiting" /\ call.ran = "awaitable" /\ call.span = "open"
     /\ call.answer = "none" /\ Mode(call.method) = "async"
     /\ call.work \in {"running", "finished", "failed"}

(* The ways a call answers.                                                *)
Missing(call) ==
  /\ call.answer = "attributeError" /\ call.ran = "no" /\ call.span = "none"
  /\ call.work = "none"

Refused(call) ==
  /\ call.answer = "contractError" /\ call.work \notin {"created", "running"}
  /\ \/ call.ran = "no" /\ call.span = "none" /\ call.work = "none"
     \/ call.ran = "value" /\ call.span = "ERROR" /\ call.work = "none"
     \/ /\ call.ran = "awaitable" /\ call.span = "OK" /\ Mode(call.method) = "sync"

LetGo(call) ==
  /\ call.ran = "awaitable" /\ call.span = "OK" /\ Mode(call.method) = "sync"
  /\ \/ call.answer = "contractError" /\ call.kind = "task" /\ call.work = "running"
     \/ /\ call.answer = "awaitable" /\ framework = "vector"
        /\ call.work \in {"created", "running", "finished", "failed"}

Failed(call) ==
  /\ call.answer = "raised" /\ call.span = "ERROR"
  /\ \/ call.ran = "raised" /\ call.work = "none"
     \/ /\ call.ran = "awaitable" /\ call.work = "failed"
        /\ Mode(call.method) = "async"

Answered(call) ==
  /\ call.answer = "value" /\ call.span = "OK"
  /\ \/ call.ran = "value" /\ call.work = "none"
     \/ /\ call.ran = "awaitable" /\ call.work = "finished"
        /\ Mode(call.method) = "async"

CallOK(call) ==
  /\ call \in CallState(Methods)
  /\ call # Idle => call.method \in Methods /\ adapter = "made" /\ call.phase # "idle"
  /\ \/ Underway(call)
     \/ /\ call.phase = "done"
        /\ \/ Missing(call) \/ Refused(call) \/ LetGo(call) \/ Failed(call)
           \/ Answered(call)

AdapterType ==
  /\ framework \in DOMAIN Surface
  /\ importable \in BOOLEAN
  /\ asked \in Revisions
  /\ target \in [Methods -> Kinds]
  /\ adapter \in Verdicts
  /\ checked \in [Methods -> Kinds]

(* The inductive invariant: whatever the caller does to the object, every  *)
(* call stands where the adapter's code can have brought it.               *)
AdapterInv ==
  /\ AdapterType
  /\ FactorySaw
  /\ calls = [c \in Calls |-> calls[c]]
  /\ \A c \in Calls : CallOK(calls[c])

LEMMA SurfaceFacts ==
  ASSUME framework \in DOMAIN Surface
  PROVE  /\ framework \in Declared \/ framework \in Vectors
         /\ ~(framework \in Declared /\ framework \in Vectors)
         /\ \A m \in Methods : Mode(m) \in {"sync", "async"}
         /\ framework \in Vectors => Methods = {"search"}
         /\ framework = "vector" => Mode("search") = "sync"
         /\ framework = "async_vector" => Mode("search") = "async"
BY DEF Surface, Declared, Vectors, Methods, Mode, CrewAI, LangChain, LangGraph,
       SemanticKernel, McpClient, VectorSearch, AsyncVectorSearch

LEMMA AdapterInitOK == IntegrationInit => AdapterInv
<1> SUFFICES ASSUME IntegrationInit PROVE AdapterInv
  OBVIOUS
<1>1. AdapterType
  BY DEF IntegrationInit, AdapterType, Verdicts, Revisions
<1>2. FactorySaw
  BY DEF IntegrationInit, FactorySaw
<1>3. \A c \in Calls : calls[c] = Idle /\ CallOK(calls[c])
  BY DEF IntegrationInit, CallOK, Underway, Idle, CallState, Kinds, NotCallable
<1> QED
  BY <1>1, <1>2, <1>3 DEF IntegrationInit, AdapterInv

(* A step of one call: what is left to show is that the call is well.      *)
LEMMA OneCall ==
  ASSUME AdapterInv, NEW c \in Calls, NEW call, SetCall(c, call), CallOK(call)
  PROVE  AdapterInv'
<1>1. AdapterType' /\ FactorySaw'
  BY DEF SetCall, AdapterInv, AdapterType, FactorySaw, Methods, SearchAccepted
<1>2. calls' = [d \in Calls |-> IF d = c THEN call ELSE calls[d]]
  BY DEF SetCall, AdapterInv
<1>3. ASSUME NEW d \in Calls PROVE CallOK(calls[d])'
  <2>1. CallOK(calls'[d])
    BY <1>2 DEF AdapterInv
  <2> QED
    BY <2>1 DEF SetCall, CallOK, Underway, Missing, Refused, LetGo, Failed, Answered,
                Methods, Mode
<1> QED
  BY <1>1, <1>2, <1>3 DEF AdapterInv

LEMMA MakeOK == AdapterInv /\ Make => AdapterInv'
<1> SUFFICES ASSUME AdapterInv, Make PROVE AdapterInv'
  OBVIOUS
<1>1. AdapterType'
  BY DEF Make, AdapterInv, AdapterType, FactoryVerdict, Verdicts, Methods
<1>2. FactorySaw'
  BY DEF Make, AdapterInv, AdapterType, FactoryVerdict, FactorySaw, RequireMethods, Methods,
         SearchAccepted
<1>3. \A c \in Calls : calls[c] = Idle
  BY DEF Make, AdapterInv, CallOK
<1>4. \A c \in Calls : CallOK(calls[c])'
  BY <1>3 DEF Make, CallOK, Underway, AdapterInv, Methods
<1> QED
  BY <1>1, <1>2, <1>4 DEF AdapterInv, Make

LEMMA ReplaceOK ==
  ASSUME AdapterInv, NEW m \in Methods, NEW kind \in Kinds, Replace(m, kind)
  PROVE  AdapterInv'
<1>1. AdapterType' /\ FactorySaw'
  BY DEF Replace, AdapterInv, AdapterType, FactorySaw, Methods, SearchAccepted
<1>2. ASSUME NEW c \in Calls PROVE CallOK(calls[c])'
  <2>1. CallOK(calls[c])
    BY DEF AdapterInv
  <2> QED
    BY <2>1 DEF Replace, CallOK, Underway, Missing, Refused, LetGo, Failed, Answered,
                Methods, Mode
<1> QED
  BY <1>1, <1>2 DEF AdapterInv, Replace

LEMMA BeginOK ==
  ASSUME AdapterInv, NEW c \in Calls, NEW m \in Methods, Begin(c, m)
  PROVE  AdapterInv'
<1> DEFINE call == [Idle EXCEPT !.method = m, !.kind = Resolved(m)]
           next == IF call.kind = "absent"
                   THEN [call EXCEPT !.phase = "done", !.answer = "attributeError"]
                   ELSE IF Mode(m) = "sync" /\ call.kind = "coroutine"
                   THEN [call EXCEPT !.phase = "done", !.answer = "contractError"]
                   ELSE [call EXCEPT !.phase = "inside", !.ran = "running", !.span = "open"]
<1>1. /\ adapter = "made" /\ FactorySaw /\ AdapterType
      /\ SetCall(c, next)
  BY DEF Begin, AdapterInv
<1>2. Resolved(m) \in Kinds
  BY <1>1 DEF Resolved, AdapterType
<1>4. call.kind = "coroutine" => Mode(m) = "async" \/ Mode(m) = "sync"
  BY <1>1, SurfaceFacts DEF AdapterType
<1>5. next \in CallState(Methods)
  BY <1>2 DEF CallState, Idle, Kinds, NotCallable
<1>6. CallOK(next)
  <2>1. CASE call.kind = "absent"
    <3>1. Missing(next) /\ next.phase = "done" /\ next.method = m /\ next # Idle
      BY <2>1 DEF Missing, Idle
    <3> HIDE DEF next
    <3> QED
      BY <1>1, <1>5, <3>1 DEF CallOK
  <2>2. CASE Mode(m) = "sync" /\ call.kind = "coroutine"
    <3>1. Refused(next) /\ next.phase = "done" /\ next.method = m /\ next # Idle
      BY <2>2 DEF Refused, Idle
    <3> HIDE DEF next
    <3> QED
      BY <1>1, <1>5, <3>1 DEF CallOK
  <2>3. CASE call.kind # "absent" /\ ~(Mode(m) = "sync" /\ call.kind = "coroutine")
    <3>1. Underway(next) /\ next.phase = "inside" /\ next.method = m /\ next # Idle
      BY <1>4, <2>3 DEF Underway, Idle
    <3> HIDE DEF next
    <3> QED
      BY <1>1, <1>5, <3>1 DEF CallOK
  <2> QED
    BY <2>1, <2>2, <2>3
<1> HIDE DEF next
<1> QED
  BY <1>1, <1>6, OneCall

(* A call that has begun and not answered is of a method of the adapter.   *)
LEMMA BegunCall ==
  ASSUME AdapterInv, NEW c \in Calls, calls[c].phase # "idle"
  PROVE  /\ CallOK(calls[c]) /\ calls[c] \in CallState(Methods) /\ calls[c] # Idle
         /\ calls[c].method \in Methods /\ adapter = "made"
         /\ Mode(calls[c].method) \in {"sync", "async"}
BY SurfaceFacts DEF AdapterInv, AdapterType, CallOK, Idle

LEMMA RaiseOK ==
  ASSUME AdapterInv, NEW c \in Calls, Raise(c)
  PROVE  AdapterInv'
<1> DEFINE next == Ended([calls[c] EXCEPT !.ran = "raised"], "ERROR", "raised")
<1>1. CallOK(calls[c]) /\ calls[c] \in CallState(Methods) /\ calls[c].method \in Methods
      /\ adapter = "made" /\ calls[c].phase = "inside" /\ SetCall(c, next)
  BY BegunCall DEF Raise
<1>2. Underway(calls[c]) /\ calls[c].work = "none"
  BY <1>1 DEF CallOK, Underway, Idle
<1>3. Failed(next) /\ next.phase = "done" /\ next.method = calls[c].method
      /\ next \in CallState(Methods) /\ next # Idle
  BY <1>1, <1>2 DEF Failed, Ended, CallState, Idle
<1> HIDE DEF next
<1>4. CallOK(next)
  BY <1>1, <1>3 DEF CallOK
<1> QED
  BY <1>1, <1>4, OneCall

LEMMA ReturnValueOK ==
  ASSUME AdapterInv, NEW c \in Calls, ReturnValue(c)
  PROVE  AdapterInv'
<1> DEFINE call == [calls[c] EXCEPT !.ran = "value"]
           next == IF Mode(call.method) = "sync" THEN Ended(call, "OK", "value")
                   ELSE NotAwaitable(call)
<1>1. CallOK(calls[c]) /\ calls[c] \in CallState(Methods) /\ calls[c].method \in Methods
      /\ adapter = "made" /\ calls[c].phase = "inside" /\ SetCall(c, next)
  BY BegunCall DEF ReturnValue
<1>2. Underway(calls[c]) /\ calls[c].work = "none"
  BY <1>1 DEF CallOK, Underway, Idle
<1>3. Answered(next) \/ Refused(next)
  BY <1>1, <1>2 DEF Answered, Refused, Ended, NotAwaitable, CallState
<1>4. next.phase = "done" /\ next.method = calls[c].method
      /\ next \in CallState(Methods) /\ next # Idle
  BY <1>1, <1>2 DEF Ended, NotAwaitable, CallState, Idle
<1> HIDE DEF next
<1>5. CallOK(next)
  BY <1>1, <1>3, <1>4 DEF CallOK
<1> QED
  BY <1>1, <1>5, OneCall

LEMMA ReturnAwaitableOK ==
  ASSUME AdapterInv, NEW c \in Calls, ReturnAwaitable(c)
  PROVE  AdapterInv'
<1> DEFINE call == [calls[c] EXCEPT !.ran = "awaitable"]
           awaited == Mode(call.method) = "async"
           next == [call EXCEPT !.phase = IF awaited THEN "awaiting" ELSE "returned",
                                !.span = IF awaited THEN "open" ELSE "OK",
                                !.work = IF awaited \/ call.kind = "task" THEN "running"
                                         ELSE "created"]
<1>1. CallOK(calls[c]) /\ calls[c] \in CallState(Methods) /\ calls[c].method \in Methods
      /\ adapter = "made" /\ calls[c].phase = "inside" /\ SetCall(c, next)
      /\ calls[c].kind \in {"coroutine", "lazy", "task"}
      /\ Mode(calls[c].method) \in {"sync", "async"}
  BY BegunCall DEF ReturnAwaitable
<1>2. Underway(next) /\ next.phase # "idle" /\ next.method = calls[c].method
  BY <1>1 DEF CallOK, Underway, Missing, Refused, LetGo, Failed, Answered, CallState, Idle
<1>3. next \in CallState(Methods) /\ next # Idle
  <2>1. CASE awaited
    <3>1. next = [calls[c] EXCEPT !.ran = "awaitable", !.phase = "awaiting",
                                  !.span = "open", !.work = "running"]
      BY <1>1, <2>1 DEF CallState
    <3>2. next \in CallState(Methods)
      BY <1>1, <3>1 DEF CallState
    <3> QED
      BY <1>2, <3>2 DEF Idle
  <2>2. CASE ~awaited /\ calls[c].kind = "task"
    BY <1>1, <1>2, <2>2 DEF CallState, Idle
  <2>3. CASE ~awaited /\ calls[c].kind # "task"
    BY <1>1, <1>2, <2>3 DEF CallState, Idle
  <2> QED
    BY <2>1, <2>2, <2>3
<1> HIDE DEF next
<1>4. CallOK(next)
  BY <1>1, <1>2, <1>3 DEF CallOK
<1> QED
  BY <1>1, <1>4, OneCall

LEMMA InspectResultOK ==
  ASSUME AdapterInv, NEW c \in Calls, InspectResult(c)
  PROVE  AdapterInv'
<1> DEFINE next ==
      IF Inspects
      THEN [calls[c] EXCEPT !.phase = "done", !.work = CloseAwaitable(calls[c]),
                            !.answer = "contractError"]
      ELSE [calls[c] EXCEPT !.phase = "done", !.answer = "awaitable"]
<1>1. CallOK(calls[c]) /\ calls[c] \in CallState(Methods) /\ calls[c].method \in Methods
      /\ adapter = "made" /\ calls[c].phase = "returned" /\ SetCall(c, next)
  BY BegunCall DEF InspectResult
<1>2. /\ Underway(calls[c]) /\ Mode(calls[c].method) = "sync"
      /\ calls[c].ran = "awaitable" /\ calls[c].span = "OK"
      /\ \/ calls[c].kind = "lazy" /\ calls[c].work = "created"
         \/ calls[c].kind = "task" /\ calls[c].work \in {"running", "finished", "failed"}
  BY <1>1 DEF CallOK, Underway, Idle
<1>3. ~Inspects => framework = "vector"
  BY <1>1, <1>2, SurfaceFacts DEF Inspects, AdapterInv, AdapterType, Vectors
<1>4. next \in CallState(Methods) /\ next.method = calls[c].method /\ next # Idle
      /\ next.phase = "done"
  BY <1>1, <1>2 DEF CallState, Idle, CloseAwaitable
<1>5. Refused(next) \/ LetGo(next)
  <2>1. CASE Inspects /\ next.work = "running"
    <3>1. LetGo(next)
      BY <1>1, <1>2, <2>1 DEF LetGo, CallState, CloseAwaitable
    <3> QED
      BY <3>1
  <2>2. CASE Inspects /\ next.work # "running"
    <3>1. Refused(next)
      BY <1>1, <1>2, <2>2 DEF Refused, CallState, CloseAwaitable
    <3> QED
      BY <3>1
  <2>3. CASE ~Inspects
    <3>1. LetGo(next)
      BY <1>1, <1>2, <1>3, <2>3 DEF LetGo, CallState
    <3> QED
      BY <3>1
  <2> QED
    BY <2>1, <2>2, <2>3
<1> HIDE DEF next
<1>6. CallOK(next)
  BY <1>1, <1>4, <1>5 DEF CallOK
<1> QED
  BY <1>1, <1>6, OneCall

LEMMA WorkEndsOK ==
  ASSUME AdapterInv, NEW c \in Calls, NEW how \in {"finished", "failed"}, WorkEnds(c, how)
  PROVE  AdapterInv'
<1> DEFINE next == [calls[c] EXCEPT !.work = how]
<1>1. calls[c].work = "running" /\ calls[c].phase # "idle" /\ SetCall(c, next)
  BY DEF WorkEnds, AdapterInv, CallOK, Idle
<1>2. CallOK(calls[c]) /\ calls[c] \in CallState(Methods) /\ calls[c].method \in Methods
      /\ adapter = "made"
  BY <1>1, BegunCall
<1>3. next \in CallState(Methods) /\ next # Idle /\ next.phase # "idle"
      /\ next.method = calls[c].method /\ next.phase = calls[c].phase
  BY <1>1, <1>2 DEF CallState, Idle
<1>4. CASE Underway(calls[c])
  <2>1. Underway(next)
    BY <1>1, <1>2, <1>4 DEF Underway, CallState, Idle
  <2> HIDE DEF next
  <2>2. CallOK(next)
    BY <1>2, <1>3, <2>1 DEF CallOK
  <2> QED
    BY <1>1, <2>2, OneCall
<1>5. CASE ~Underway(calls[c])
  <2>1. calls[c].phase = "done" /\ LetGo(calls[c])
    BY <1>1, <1>2, <1>5 DEF CallOK, Missing, Refused, Failed, Answered
  <2>2. Refused(next) \/ LetGo(next)
    BY <1>1, <1>2, <2>1 DEF LetGo, Refused, CallState
  <2> HIDE DEF next
  <2>3. CallOK(next)
    BY <1>2, <1>3, <2>1, <2>2 DEF CallOK
  <2> QED
    BY <1>1, <2>3, OneCall
<1> QED
  BY <1>4, <1>5

LEMMA AwaitEndsOK ==
  ASSUME AdapterInv, NEW c \in Calls, AwaitEnds(c)
  PROVE  AdapterInv'
<1> DEFINE next == IF calls[c].work = "failed" THEN Ended(calls[c], "ERROR", "raised")
                   ELSE Ended(calls[c], "OK", "value")
<1>1. CallOK(calls[c]) /\ calls[c] \in CallState(Methods) /\ calls[c].method \in Methods
      /\ adapter = "made" /\ calls[c].phase = "awaiting" /\ Settled(calls[c])
      /\ SetCall(c, next)
  BY BegunCall DEF AwaitEnds
<1>2. calls[c].ran = "awaitable" /\ Mode(calls[c].method) = "async"
  BY <1>1 DEF CallOK, Underway, Idle
<1>3. Answered(next) \/ Failed(next)
  BY <1>1, <1>2 DEF Answered, Failed, Ended, Settled, CallState
<1>4. next.phase = "done" /\ next.method = calls[c].method
      /\ next \in CallState(Methods) /\ next # Idle
  BY <1>1 DEF Ended, CallState, Idle
<1> HIDE DEF next
<1>5. CallOK(next)
  BY <1>1, <1>3, <1>4 DEF CallOK
<1> QED
  BY <1>1, <1>5, OneCall

LEMMA CallerAwaitsOK ==
  ASSUME AdapterInv, NEW c \in Calls, CallerAwaits(c)
  PROVE  AdapterInv'
<1> DEFINE next == [calls[c] EXCEPT !.work = "running"]
<1>1. calls[c].answer = "awaitable" /\ calls[c].phase # "idle" /\ SetCall(c, next)
  BY DEF CallerAwaits, AdapterInv, CallOK, Idle
<1>2. CallOK(calls[c]) /\ calls[c] \in CallState(Methods) /\ calls[c].method \in Methods
      /\ adapter = "made"
  BY <1>1, BegunCall
<1>3. CallOK(next)
  BY <1>1, <1>2 DEF CallOK, Underway, Missing, Refused, LetGo, Failed, Answered, CallState, Idle
<1> HIDE DEF next
<1> QED
  BY <1>1, <1>3, OneCall

LEMMA AdapterStep == AdapterInv /\ [IntegrationNext]_integrationVars => AdapterInv'
<1> SUFFICES ASSUME AdapterInv, [IntegrationNext]_integrationVars PROVE AdapterInv'
  OBVIOUS
<1>1. CASE Make
  BY <1>1, MakeOK
<1>2. ASSUME NEW m \in Methods, NEW kind \in Kinds, Replace(m, kind) PROVE AdapterInv'
  BY <1>2, ReplaceOK
<1>3. ASSUME NEW c \in Calls, CallStep(c) PROVE AdapterInv'
  BY <1>3, BeginOK, RaiseOK, ReturnValueOK, ReturnAwaitableOK, InspectResultOK, WorkEndsOK,
     AwaitEndsOK, CallerAwaitsOK DEF CallStep
<1>4. CASE UNCHANGED integrationVars
  BY <1>4 DEF integrationVars, AdapterInv, AdapterType, FactorySaw, SearchAccepted, CallOK,
              Underway, Missing, Refused, LetGo, Failed, Answered, Methods, Mode
<1> QED
  BY <1>1, <1>2, <1>3, <1>4 DEF IntegrationNext

LEMMA AdapterInvariant == IntegrationSpec => []AdapterInv
<1> QED
  BY AdapterInitOK, AdapterStep, PTL DEF IntegrationSpec

(* Type correctness of the adapter and its calls, for any number of calls. *)
THEOREM IntegrationTypeCorrect == IntegrationSpec => []IntegrationTypeOK
<1>1. AdapterInv => IntegrationTypeOK
  BY DEF AdapterInv, AdapterType, IntegrationTypeOK, CallOK
<1> QED
  BY <1>1, AdapterInvariant, PTL

LEMMA FoundWhenBegun ==
  ASSUME AdapterInv, MissingOnlyIfReplaced, NEW c \in Calls, NEW m \in Methods, Begin(c, m)
  PROVE  MissingOnlyIfReplaced'
<1> DEFINE call == [Idle EXCEPT !.method = m, !.kind = Resolved(m)]
           next == IF call.kind = "absent"
                   THEN [call EXCEPT !.phase = "done", !.answer = "attributeError"]
                   ELSE IF Mode(m) = "sync" /\ call.kind = "coroutine"
                   THEN [call EXCEPT !.phase = "done", !.answer = "contractError"]
                   ELSE [call EXCEPT !.phase = "inside", !.ran = "running", !.span = "open"]
<1>1. /\ adapter = "made" /\ FactorySaw /\ AdapterType
      /\ SetCall(c, next) /\ calls = [d \in Calls |-> calls[d]]
  BY DEF Begin, AdapterInv
<1>2. next.kind = Resolved(m) /\ next.method = m
  BY DEF Idle
<1>3. Resolved(m) \in NotCallable => framework \in Declared /\ checked[m] \notin NotCallable
  BY <1>1, SurfaceFacts DEF AdapterType, FactorySaw, Resolved, SearchAccepted, NotCallable,
                            Vectors
<1> HIDE DEF next
<1>4. /\ calls' = [d \in Calls |-> IF d = c THEN next ELSE calls[d]]
      /\ UNCHANGED <<framework, checked>>
  BY <1>1 DEF SetCall
<1> QED
  BY <1>2, <1>3, <1>4 DEF MissingOnlyIfReplaced

(* Every other step of a call leaves alone what the call found.            *)
LEMMA FoundBefore ==
  ASSUME AdapterInv, MissingOnlyIfReplaced, NEW c \in Calls, NEW call, SetCall(c, call),
         calls[c].phase # "idle", call.kind = calls[c].kind, call.method = calls[c].method
  PROVE  MissingOnlyIfReplaced'
<1>1. /\ calls' = [d \in Calls |-> IF d = c THEN call ELSE calls[d]]
      /\ UNCHANGED <<framework, checked>>
  BY DEF SetCall, AdapterInv
<1> QED
  BY <1>1 DEF MissingOnlyIfReplaced

LEMMA FoundByCallStep ==
  ASSUME AdapterInv, MissingOnlyIfReplaced, NEW c \in Calls, CallStep(c)
  PROVE  MissingOnlyIfReplaced'
<1>1. calls[c] \in CallState(Methods)
  BY DEF AdapterInv, CallOK
<1>2. CASE \E m \in Methods : Begin(c, m)
  BY <1>2, FoundWhenBegun
<1>3. CASE Raise(c)
  <2> DEFINE next == Ended([calls[c] EXCEPT !.ran = "raised"], "ERROR", "raised")
  <2>1. SetCall(c, next) /\ calls[c].phase # "idle"
    BY <1>3 DEF Raise
  <2>2. next.kind = calls[c].kind /\ next.method = calls[c].method
    BY <1>1 DEF Ended, CallState
  <2> HIDE DEF next
  <2> QED
    BY <2>1, <2>2, FoundBefore
<1>4. CASE ReturnValue(c)
  <2> DEFINE call == [calls[c] EXCEPT !.ran = "value"]
             next == IF Mode(call.method) = "sync" THEN Ended(call, "OK", "value")
                     ELSE NotAwaitable(call)
  <2>1. SetCall(c, next) /\ calls[c].phase # "idle"
    BY <1>4 DEF ReturnValue
  <2>2. next.kind = calls[c].kind /\ next.method = calls[c].method
    BY <1>1 DEF Ended, NotAwaitable, CallState
  <2> HIDE DEF next
  <2> QED
    BY <2>1, <2>2, FoundBefore
<1>5. CASE ReturnAwaitable(c)
  <2> DEFINE call == [calls[c] EXCEPT !.ran = "awaitable"]
             awaited == Mode(call.method) = "async"
             next == [call EXCEPT !.phase = IF awaited THEN "awaiting" ELSE "returned",
                                  !.span = IF awaited THEN "open" ELSE "OK",
                                  !.work = IF awaited \/ call.kind = "task" THEN "running"
                                           ELSE "created"]
  <2>1. SetCall(c, next) /\ calls[c].phase # "idle"
    BY <1>5 DEF ReturnAwaitable
  <2>2. next.kind = calls[c].kind /\ next.method = calls[c].method
    BY <1>1 DEF CallState
  <2> HIDE DEF next
  <2> QED
    BY <2>1, <2>2, FoundBefore
<1>6. CASE InspectResult(c)
  <2> DEFINE next ==
        IF Inspects
        THEN [calls[c] EXCEPT !.phase = "done", !.work = CloseAwaitable(calls[c]),
                              !.answer = "contractError"]
        ELSE [calls[c] EXCEPT !.phase = "done", !.answer = "awaitable"]
  <2>1. SetCall(c, next) /\ calls[c].phase # "idle"
    BY <1>6 DEF InspectResult
  <2>2. next.kind = calls[c].kind /\ next.method = calls[c].method
    BY <1>1 DEF CallState
  <2> HIDE DEF next
  <2> QED
    BY <2>1, <2>2, FoundBefore
<1>7. ASSUME NEW how \in {"finished", "failed"}, WorkEnds(c, how)
      PROVE  MissingOnlyIfReplaced'
  <2> DEFINE next == [calls[c] EXCEPT !.work = how]
  <2>1. SetCall(c, next) /\ calls[c].phase # "idle"
    BY <1>7 DEF WorkEnds, AdapterInv, CallOK, Idle
  <2>2. next.kind = calls[c].kind /\ next.method = calls[c].method
    BY <1>1 DEF CallState
  <2> HIDE DEF next
  <2> QED
    BY <2>1, <2>2, FoundBefore
<1>8. CASE AwaitEnds(c)
  <2> DEFINE next == IF calls[c].work = "failed" THEN Ended(calls[c], "ERROR", "raised")
                     ELSE Ended(calls[c], "OK", "value")
  <2>1. SetCall(c, next) /\ calls[c].phase # "idle"
    BY <1>8 DEF AwaitEnds
  <2>2. next.kind = calls[c].kind /\ next.method = calls[c].method
    BY <1>1 DEF Ended, CallState
  <2> HIDE DEF next
  <2> QED
    BY <2>1, <2>2, FoundBefore
<1>9. CASE CallerAwaits(c)
  <2> DEFINE next == [calls[c] EXCEPT !.work = "running"]
  <2>1. SetCall(c, next) /\ calls[c].phase # "idle"
    BY <1>9 DEF CallerAwaits, AdapterInv, CallOK, Idle
  <2>2. next.kind = calls[c].kind /\ next.method = calls[c].method
    BY <1>1 DEF CallState
  <2> HIDE DEF next
  <2> QED
    BY <2>1, <2>2, FoundBefore
<1> QED
  BY <1>2, <1>3, <1>4, <1>5, <1>6, <1>7, <1>8, <1>9 DEF CallStep

(* A method that is missing at a call, or cannot be called, was replaced   *)
(* since the factory saw it, in any number of calls (require_methods).     *)
THEOREM MissingWasReplaced == IntegrationSpec => []MissingOnlyIfReplaced
<1>1. IntegrationInit => MissingOnlyIfReplaced
  BY DEF IntegrationInit, Idle, MissingOnlyIfReplaced
<1>2. ASSUME AdapterInv, MissingOnlyIfReplaced, [IntegrationNext]_integrationVars
      PROVE  MissingOnlyIfReplaced'
  <2>1. CASE Make
    <3>1. \A c \in Calls : calls'[c] = Idle
      BY <1>2, <2>1 DEF Make, AdapterInv, CallOK
    <3> QED
      BY <3>1 DEF MissingOnlyIfReplaced, Idle
  <2>2. ASSUME NEW m \in Methods, NEW kind \in Kinds, Replace(m, kind)
        PROVE  MissingOnlyIfReplaced'
    BY <1>2, <2>2 DEF Replace, MissingOnlyIfReplaced
  <2>3. ASSUME NEW c \in Calls, CallStep(c) PROVE MissingOnlyIfReplaced'
    BY <1>2, <2>3, FoundByCallStep
  <2>4. CASE UNCHANGED integrationVars
    BY <1>2, <2>4 DEF integrationVars, MissingOnlyIfReplaced
  <2> QED
    BY <1>2, <2>1, <2>2, <2>3, <2>4 DEF IntegrationNext
<1> QED
  BY <1>1, <1>2, AdapterInvariant, PTL DEF IntegrationSpec

(* The record of a call and its caller's answer agree, with the one        *)
(* exception the property names (invoke_sync, invoke_async).               *)
THEOREM SpansTellAnswers == IntegrationSpec => []SpanTellsAnswer
<1>1. ASSUME AdapterInv, NEW c \in Calls, calls[c].phase = "done"
      PROVE  Missing(calls[c]) \/ Refused(calls[c]) \/ LetGo(calls[c]) \/ Failed(calls[c])
             \/ Answered(calls[c])
  BY <1>1 DEF AdapterInv, CallOK, Underway, Idle
<1>2. ASSUME AdapterInv, NEW c \in Calls, calls[c].phase = "done"
      PROVE  Mode(calls[c].method) \in {"sync", "async"}
  BY <1>2, BegunCall
<1>3. AdapterInv => SpanTellsAnswer
  BY <1>1, <1>2 DEF SpanTellsAnswer, Missing, Refused, LetGo, Failed, Answered
<1> QED
  BY <1>3, AdapterInvariant, PTL

(* The asynchronous work of a call ends with the call and its span, but    *)
(* for a task of a method called synchronously (invoke_sync, invoke_async).*)
THEOREM WorkIsEnded == IntegrationSpec => []WorkEndsWithCall
<1>1. ASSUME AdapterInv, NEW c \in Calls, calls[c].work # "none"
      PROVE  Mode(calls[c].method) \in {"sync", "async"}
  <2>1. calls[c].phase # "idle"
    BY <1>1 DEF AdapterInv, CallOK, Underway, Idle
  <2> QED BY <1>1, <2>1, BegunCall
<1>2. AdapterInv => WorkEndsWithCall
  BY <1>1 DEF AdapterInv, WorkEndsWithCall, CallOK, Underway, Missing, Refused, LetGo, Failed,
              Answered, Idle
<1> QED
  BY <1>2, AdapterInvariant, PTL
=============================================================================
