----------------------------- MODULE Integrations -----------------------------
(***************************************************************************)
(* An adapter around an object of some framework (crewai, langchain,       *)
(* langgraph, mcp, semantic_kernel), or around a vector search function,   *)
(* and the calls made through it.  The factory looks at the object once;   *)
(* a framework adapter looks its method up again at every call, and the    *)
(* object is its caller's, who may replace a method meanwhile.  Neither    *)
(* knows before it calls whether a method answers with a value or with an  *)
(* awaitable.                                                              *)
(*                                                                         *)
(* A method is abstracted to what calling it does:                         *)
(*   "absent"     there is no such attribute                               *)
(*   "uncallable" there is something that cannot be called                 *)
(*   "coroutine"  an async def: calling it makes a coroutine               *)
(*   "plain"      a def that answers with a value                          *)
(*   "lazy"       a def that answers with a coroutine (a callable object   *)
(*                whose __call__ is async is one of these)                 *)
(*   "task"       a def that starts a task and answers with that           *)
(***************************************************************************)
EXTENDS Naturals

CONSTANTS
  Calls  \* calls made through the adapter, in any number of threads and tasks

Declared == {"crewai", "langchain", "langgraph", "mcp", "semantic_kernel"}

\* The methods of each adapter, and how it calls them.
CrewAI == [kickoff |-> "sync", kickoff_async |-> "async"]
LangChain == [invoke |-> "sync", ainvoke |-> "async"]
LangGraph == [invoke |-> "sync", ainvoke |-> "async"]
SemanticKernel == [invoke |-> "async", invoke_prompt |-> "async"]
McpClient == [call_tool |-> "async"]
VectorSearch == [search |-> "sync"]
AsyncVectorSearch == [search |-> "async"]

Surface ==
  [crewai |-> CrewAI, langchain |-> LangChain, langgraph |-> LangGraph,
   semantic_kernel |-> SemanticKernel, mcp |-> McpClient,
   vector |-> VectorSearch, async_vector |-> AsyncVectorSearch]

Vectors == {"vector", "async_vector"}

NotCallable == {"absent", "uncallable"}

Kinds == NotCallable \cup {"coroutine", "plain", "lazy", "task"}

McpCurrent == "2026-07-28"
McpCompatibility == "2025-11-25"
Revisions == {McpCurrent, McpCompatibility, "2025-06-18"}

VARIABLES
  framework,   \* what the caller adapts
  importable,  \* whether the framework can be imported
  asked,       \* the MCP revision asked for; McpCurrent by default
  target,      \* the caller's object: what each of its methods is now
  adapter,     \* what the factory answered last
  checked,     \* the object as the factory saw it last
  calls        \* the calls

integrationVars == <<framework, importable, asked, target, adapter, checked, calls>>

Methods == DOMAIN Surface[framework]

Mode(m) == Surface[framework][m]

Idle ==
  [phase |-> "idle", method |-> "none", kind |-> "absent", ran |-> "no", span |-> "none",
   work |-> "none", answer |-> "none"]

\* A call: the method it calls and what that was, what the method did, the
\* call's span, the asynchronous work the method made, and the caller's answer.
CallState(methods) ==
  [phase : {"idle", "inside", "returned", "awaiting", "done"},
   method : methods \cup {"none"}, kind : Kinds,
   ran : {"no", "running", "value", "awaitable", "raised"},
   span : {"none", "open", "OK", "ERROR"},
   work : {"none", "created", "running", "finished", "failed", "closed"},
   answer : {"none", "value", "awaitable", "raised", "contractError", "attributeError"}]

Verdicts ==
  {"none", "made", "OPTIONAL_INTEGRATION_UNAVAILABLE", "UNSUPPORTED_PROTOCOL_VERSION",
   "INVALID_INTEGRATION_SURFACE"}

(* The adapter is of a known framework, its object has a method of some    *)
(* kind in every place of the surface, and calls are calls.                *)
IntegrationTypeOK ==
  /\ framework \in DOMAIN Surface
  /\ importable \in BOOLEAN
  /\ asked \in Revisions
  /\ target \in [Methods -> Kinds]
  /\ adapter \in Verdicts
  /\ checked \in [Methods -> Kinds]
  /\ calls \in [Calls -> CallState(Methods)]

IntegrationInit ==
  /\ framework \in DOMAIN Surface
  /\ importable \in BOOLEAN
  /\ asked \in IF framework = "mcp" THEN Revisions ELSE {McpCurrent}
  /\ target \in [Methods -> Kinds]
  /\ adapter = "none"
  /\ checked = target
  /\ calls = [c \in Calls |-> Idle]

-----------------------------------------------------------------------------
(* The factory.                                                            *)

\* Exactly the revision that was offered, the newest of several.
NegotiateMcpVersion(offered) ==
  IF McpCurrent \in offered THEN McpCurrent
  ELSE IF McpCompatibility \in offered THEN McpCompatibility
  ELSE "none"

RequireMethods(object) == \A m \in DOMAIN object : object[m] \notin NotCallable

\* A vector function is looked at when it is wrapped, and never again.
SearchAccepted(function) ==
  IF framework = "vector" THEN function \notin NotCallable \cup {"coroutine"}
  ELSE function = "coroutine"

FactoryVerdict ==
  IF framework \in Declared /\ ~importable THEN "OPTIONAL_INTEGRATION_UNAVAILABLE"
  ELSE IF framework = "mcp" /\ NegotiateMcpVersion({asked}) = "none"
       THEN "UNSUPPORTED_PROTOCOL_VERSION"
  ELSE IF (framework \in Declared /\ ~RequireMethods(target))
          \/ (framework \in Vectors /\ ~SearchAccepted(target["search"]))
       THEN "INVALID_INTEGRATION_SURFACE"
  ELSE "made"

\* A caller whose object was refused may come back with a better one.
Make ==
  /\ adapter # "made"
  /\ adapter' = FactoryVerdict
  /\ checked' = target
  /\ UNCHANGED <<framework, importable, asked, target, calls>>

\* The caller replaces, adds or removes a method of the object.
Replace(m, kind) ==
  /\ target' = [target EXCEPT ![m] = kind]
  /\ UNCHANGED <<framework, importable, asked, adapter, checked, calls>>

-----------------------------------------------------------------------------
(* A call.                                                                 *)

\* A framework adapter holds the object, a vector wrapper the function.
Resolved(m) == IF framework \in Vectors THEN checked[m] ELSE target[m]

\* Only a framework adapter looks at what a synchronous method answered.
Inspects == framework \in Declared

SetCall(c, call) ==
  /\ calls' = [calls EXCEPT ![c] = call]
  /\ UNCHANGED <<framework, importable, asked, target, adapter, checked>>

\* Only the lookup of the attribute is outside the span.
Begin(c, m) ==
  /\ adapter = "made" /\ calls[c].phase = "idle"
  /\ SetCall(c,
       LET call == [Idle EXCEPT !.method = m, !.kind = Resolved(m)]
       IN  IF call.kind = "absent"
           THEN [call EXCEPT !.phase = "done", !.answer = "attributeError"]
           ELSE IF Mode(m) = "sync" /\ call.kind = "coroutine"
           THEN [call EXCEPT !.phase = "done", !.answer = "contractError"]
           ELSE [call EXCEPT !.phase = "inside", !.ran = "running", !.span = "open"])

\* The span ends, and its record says how; the caller is answered.
Ended(call, status, answer) ==
  [call EXCEPT !.phase = "done", !.span = status, !.answer = answer]

\* The method raises, before it makes any asynchronous work; calling what cannot
\* be called does nothing else.
Raise(c) ==
  /\ calls[c].phase = "inside" /\ calls[c].kind # "coroutine"
  /\ SetCall(c, Ended([calls[c] EXCEPT !.ran = "raised"], "ERROR", "raised"))

\* Mutant: a value where an awaitable was due is refused after the span.
RefusedOutside(call) == Ended(call, "OK", "contractError")

\* delegate refuses a value inside the span.
NotAwaitable(call) == Ended(call, "ERROR", "contractError")

ReturnValue(c) ==
  LET call == [calls[c] EXCEPT !.ran = "value"]
  IN  /\ calls[c].phase = "inside" /\ calls[c].kind = "plain"
      /\ SetCall(c, IF Mode(call.method) = "sync" THEN Ended(call, "OK", "value")
                    ELSE NotAwaitable(call))

\* A task runs whether or not anybody awaits it, a coroutine only when awaited:
\* in an asynchronous call at once and inside the span, while the span of a
\* synchronous call has ended by then.
ReturnAwaitable(c) ==
  LET call == [calls[c] EXCEPT !.ran = "awaitable"]
      awaited == Mode(call.method) = "async"
  IN  /\ calls[c].phase = "inside" /\ calls[c].kind \in {"coroutine", "lazy", "task"}
      /\ SetCall(c,
           [call EXCEPT !.phase = IF awaited THEN "awaiting" ELSE "returned",
                        !.span = IF awaited THEN "open" ELSE "OK",
                        !.work = IF awaited \/ call.kind = "task" THEN "running"
                                 ELSE "created"])

\* A coroutine has close(), a task has none.
CloseAwaitable(call) == IF call.kind = "task" THEN call.work ELSE "closed"

\* invoke_sync refuses an awaitable after the span; a vector wrapper gives it to
\* its caller.
InspectResult(c) ==
  /\ calls[c].phase = "returned"
  /\ SetCall(c,
       IF Inspects
       THEN [calls[c] EXCEPT !.phase = "done", !.work = CloseAwaitable(calls[c]),
                             !.answer = "contractError"]
       ELSE [calls[c] EXCEPT !.phase = "done", !.answer = "awaitable"])

\* Asynchronous work ends, by a value or an exception, cancellation included.
WorkEnds(c, how) ==
  /\ calls[c].work = "running"
  /\ SetCall(c, [calls[c] EXCEPT !.work = how])

\* Mutant: the awaitable is not waited for.
AtOnce(call) == TRUE

Settled(call) == call.work \in {"finished", "failed"}

AwaitEnds(c) ==
  /\ calls[c].phase = "awaiting" /\ Settled(calls[c])
  /\ SetCall(c, IF calls[c].work = "failed" THEN Ended(calls[c], "ERROR", "raised")
                ELSE Ended(calls[c], "OK", "value"))

\* The caller of a vector wrapper awaits what it was given.
CallerAwaits(c) ==
  /\ calls[c].answer = "awaitable" /\ calls[c].work = "created"
  /\ SetCall(c, [calls[c] EXCEPT !.work = "running"])

-----------------------------------------------------------------------------
CallStep(c) ==
  \/ \E m \in Methods : Begin(c, m)
  \/ Raise(c)
  \/ ReturnValue(c)
  \/ ReturnAwaitable(c)
  \/ InspectResult(c)
  \/ \E how \in {"finished", "failed"} : WorkEnds(c, how)
  \/ AwaitEnds(c)
  \/ CallerAwaits(c)

IntegrationNext ==
  \/ Make
  \/ \E m \in Methods, kind \in Kinds : Replace(m, kind)
  \/ \E c \in Calls : CallStep(c)

IntegrationSpec == IntegrationInit /\ [][IntegrationNext]_integrationVars

-----------------------------------------------------------------------------
(* Properties.                                                             *)

(* A method that is not there at a call, or cannot be called, could be     *)
(* called when the adapter was made: a caller who leaves its object alone  *)
(* never meets AttributeError, nor TypeError for want of a method,         *)
(* whichever method it calls first and however late, since the factory     *)
(* looked for the complete surface (require_methods and the lookups of the *)
(* adapters' methods).                                                     *)
MissingOnlyIfReplaced ==
  \A c \in Calls :
    calls[c].phase # "idle" /\ calls[c].kind \in NotCallable =>
      /\ framework \in Declared
      /\ checked[calls[c].method] \notin NotCallable

(* The record of a call and its caller's answer agree: OK for a value,     *)
(* ERROR for an exception, a refused value included, and no span at all    *)
(* exactly when the method was never called.  One kind of call is recorded *)
(* OK and refused: a synchronous call whose method answered with an        *)
(* awaitable (invoke_sync looks at the result after the span).             *)
SpanTellsAnswer ==
  \A c \in Calls :
    LET call == calls[c]
    IN  call.phase = "done" =>
          /\ call.span = "none" <=> call.ran = "no"
          /\ call.span = "none" => call.answer \in {"attributeError", "contractError"}
          /\ call.span = "ERROR" <=>
               \/ call.answer = "raised"
               \/ call.answer = "contractError" /\ call.ran = "value"
          /\ call.span = "OK" <=>
               \/ call.answer = "value"
               \/ Mode(call.method) = "sync" /\ call.ran = "awaitable"

(* The asynchronous work of a call ends with the call.  In an asynchronous *)
(* call the span covers it: the span is open as long as the work runs, and *)
(* tells how it ended, also when the method started a task that runs on    *)
(* its own.  A synchronous call leaves nothing behind: once it has         *)
(* answered, the work was closed before it ran or has ended, except for a  *)
(* task, which has no close(): the caller is told that the call failed     *)
(* while the task runs on.  Only the synchronous vector wrapper gives an   *)
(* awaitable away (invoke_sync, invoke_async).                             *)
WorkEndsWithCall ==
  \A c \in Calls :
    LET call == calls[c]
    IN  call.work # "none" =>
          IF Mode(call.method) = "async"
          THEN /\ call.span = "open" <=> call.phase = "awaiting"
               /\ call.work = "running" => call.span = "open"
               /\ call.span = "OK" => call.work = "finished" /\ call.answer = "value"
               /\ call.span = "ERROR" => call.work = "failed" /\ call.answer = "raised"
          ELSE call.phase = "done" =>
                 /\ call.answer = "awaitable" => framework = "vector"
                 /\ call.work \in {"created", "running"} =>
                      \/ framework = "vector"
                      \/ /\ call.kind = "task" /\ call.work = "running"
                         /\ call.answer = "contractError"
=============================================================================
