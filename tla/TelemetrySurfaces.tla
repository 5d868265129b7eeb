-------------------------- MODULE TelemetrySurfaces --------------------------
(***************************************************************************)
(* Python services as Telemetry has them, with TypeScript services that    *)
(* get and send contexts over the same boundary.  TypeScript code has no   *)
(* current context: instrumentSync and instrumentAsync take the parent as  *)
(* an argument, and the code may pass any context it extracted or was      *)
(* handed, that of a call that has ended included.  Its calls run on one   *)
(* event loop and end in any order; what a call does once its operation    *)
(* has settled is one turn of the loop.                                    *)
(***************************************************************************)
EXTENDS Telemetry

VARIABLE tsCalls   \* the calls made so far: [parent, active, runs]

surfaceVars == <<telemetryVars, tsCalls>>

TSCall == [parent: ContextOrNone, active: Context, runs: BOOLEAN]

(* Contexts are contexts, frames are frames, and a record names a span that *)
(* a service opened, on both surfaces (HarnessContext, SpanRecord).         *)
SurfacesTypeOK == TelemetryTypeOK /\ tsCalls \subseteq TSCall

SurfacesInit == TelemetryInit /\ tsCalls = {}

\* extractContext of a valid carrier: identity headers count only if trusted.
TSExtract(carrier, trust) ==
  IF trust THEN carrier ELSE [carrier EXCEPT !.identity = None]

\* The contexts that TypeScript code can hold.
TSHeld ==
  {TSExtract(carrier, trust) : carrier \in carriers, trust \in BOOLEAN}
    \cup {call.active : call \in tsCalls}

\* Mutant: the child context takes only the trace of its parent.
TSChildOfTrace(context, span) ==
  [trace |-> context.trace, span |-> span, identity |-> None]

\* childContext
TSChild(context, span) == [context EXCEPT !.span = span]

\* activeContext: a new trace where no parent is given.
TSActive(parent, span) == IF parent = None THEN Create(span) ELSE TSChild(parent, span)

\* injectContext into the headers of an outgoing call.
TSInject(context, includeIdentity) ==
  /\ Cardinality(carriers) < MaxCarriers
  /\ carriers' = carriers \cup {TSExtract(context, includeIdentity)}
  /\ UNCHANGED <<live, current, stack, spans, records, base, tsCalls>>

\* The wrapper is called: the operation starts in the same turn.
TSBegin(parent) ==
  /\ spans < MaxSpans
  /\ spans' = spans + 1
  /\ tsCalls' = tsCalls \cup {[parent |-> parent, active |-> TSActive(parent, spans + 1),
                               runs |-> TRUE]}
  /\ UNCHANGED <<live, current, stack, carriers, records, base>>

\* buildRecord
TSRecord(call, how) ==
  [trace |-> call.active.trace, span |-> call.active.span,
   parent |-> IF call.parent = None THEN None ELSE call.parent.span,
   identity |-> call.active.identity,
   status |-> IF how = "raised" THEN "ERROR" ELSE "OK",
   ran |-> how, within |-> call.parent]

\* The operation settles; the record is built and given to the sink, which may
\* throw.
TSSettle(call, how, sinkThrows) ==
  /\ call.runs
  /\ tsCalls' = (tsCalls \ {call}) \cup {[call EXCEPT !.runs = FALSE]}
  /\ records' = IF sinkThrows THEN records ELSE records \cup {TSRecord(call, how)}
  /\ UNCHANGED <<live, current, stack, spans, carriers, base>>

TSStep ==
  \/ \E context \in TSHeld, includeIdentity \in BOOLEAN : TSInject(context, includeIdentity)
  \/ \E parent \in TSHeld \cup {None} : TSBegin(parent)
  \/ \E call \in tsCalls, how \in {"returned", "raised"}, sinkThrows \in BOOLEAN :
       TSSettle(call, how, sinkThrows)

SurfacesNext ==
  \/ TelemetryNext /\ UNCHANGED tsCalls
  \/ TSStep

SurfacesSpec == SurfacesInit /\ [][SurfacesNext]_surfaceVars

=============================================================================
