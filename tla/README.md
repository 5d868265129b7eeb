# Verification of planeon-harness

TLA+ models, TLC runs and TLAPS proofs for the Planeon harness SDKs: the Python
package `planeon_harness` (`python/src`), its TypeScript surface
(`typescript/src`) and the tooling around them (`ci/`, `generators/`). Paths
below are relative to `src/`.

## 1. The system

The SDKs are libraries. A host process embeds them; they keep little state of
their own, take the clock, the store, the sinks and the detectors from the
caller, and fail closed. What is hard about them is what happens *between* their
calls: several calls at once, a store that answers late or not at all, a process
that dies half way, a trust root that is replaced while a call is in flight, two
languages that must agree. The tooling is a set of short programs over files
that nothing locks, which may die or find the files changed at any write.

| Part | Code | State | Operations |
| --- | --- | --- | --- |
| Runtime trust | `runtime/trust.py`, `validation.py`, `crypto.py` | none; the host keeps the adopted bundle | bootstrap from a pinned digest, +1 rotation, exact-key selection, receipt verification |
| Runtime admission | `runtime/admission.py`, `replay.py`, `authz.py` | the caller's durable replay records | `verify_admission`: checks, atomic reservation of nonce and idempotency key, budget; `require_admitted` |
| Budget | `budget.py` | none | `evaluate_budget` over five dimensions |
| TypeScript runtime | `typescript/src/runtime/index.ts` | as above | the same verifiers, asynchronous |
| Guardrail client | `guardrail/_core.py`, `typescript/src/guardrail/runtime.js` | none | `evaluate`: detectors in declared order, fail mode, precedence, redaction |
| Guardrail stream | same | buffer, last result, terminal, finished | `push`, `finish` |
| Telemetry | `context.py`, `decorators.py`, `attributes.py`, `typescript/src/telemetry` | task-local current context (Python); the parent is an argument (TypeScript) | `instrument`, `use_context`, inject and extract; `instrumentSync`, `instrumentAsync` |
| Packet runner | `ci/run_packet_argv.py` | the packet file, the child that runs | read once, admit as a whole, run, compare the digest after every child |
| Make dispatch | `ci/run_make_target.py` | the descriptors in `ci/targets`, the selected rules | load the rules, select one per packet, run their commands |
| Contract snapshot, code generator | `generators/sync_contract_snapshot.py`, `verify_contract_lock.py`, `generate.py` | snapshot files, lock, generated files | copy, prune, write the lock; verify; write, prune and check the generated files |
| Package build | `generators/build_packages.py`, `python/build_backend.py` | the package directories | build twice, compare, replace |
| Integrations | `integrations/` | the caller's object or search function | factories that look at it once; sync and async delegation through `instrument` |
| Compatibility wheel | `python/compat/prometa/build_compat.py` | the output directory | `build_wheel`, `verify_reproducible` |
| Protocol helpers | `protocols/`, `typescript/src/protocols` | none | MCP version negotiation and requests, task-state classification, CloudEvents |
| Generated code, compatibility aliases, scans | `generated/`, `python/compat/prometa/src`, `ci/*scan*`, `ci/validate_porting.py` | none | field validation, re-exports, file checks |

Interactions. The host bootstraps a trust bundle and rotates it; every
`verify_admission` reads the bundle once, at its start. Admission reserves in the
host's store through `AtomicReplayStore.reserve`, evaluates the budget, and the
host commits the signed receipt; runtimes of both languages may share the store.
A guardrail stream calls its client's `evaluate` on the accumulated content at
each push. Integrations call `instrument`, which reads and binds the task-local
context; contexts leave a service in headers and come back to either surface.
The packet runner starts `make` or `ci/run_make_target.py` as a child, which
starts handlers. The generator verifies the snapshot before it writes, the
package build checks the generated files before it reads.

What makes each part correct:

- *Trust*: one unbroken chain from the pin, each link signed under its
  predecessor's authority at the time; both surfaces on the same chain.
- *Admission*: at most one outcome per nonce and idempotency key, whichever
  surface the calls run on; nothing unverified reserves; receipts tell the truth;
  nothing stays reserved without a fault; what was refused stays refused.
- *Guardrails*: redaction removes exactly what was found; objections prevail over
  failures and over order; a stream's verdict is on the whole; content does not
  outlive its stream; both surfaces give one result.
- *Telemetry*: records of one task never hang under another's span or
  identity; a trace is one tree across services; a record tells how its own
  operation ended.
- *Integrations*: what is recorded of a call, what its caller is told and what
  becomes of the work it started belong together.
- *Tooling*: what runs is what was read and admitted; after a crash, what a
  verifier accepts is consistent; a package is of one build, and as much of one
  moment as reading twice can tell.

## 2. Modules

| Module | Models |
| --- | --- |
| `RuntimeTrust` | the pure verifiers: the form of documents, `select_key`, signature check, bootstrap, rotation, the checks of `verify_admission` before it reserves |
| `TrustChain` | a runtime's life with them: clock, one bootstrap, rotations; any bundle may be offered at any time |
| `RuntimeTrustTS`, `TrustSurfaces` | the TypeScript verifiers, and two runtimes of one organization, one on each surface |
| `RuntimeReceipt` | `verify_receipt`, `verifyReceipt`, and the checks of `verifyAdmission` before it reserves |
| `RuntimeBudget` | `evaluate_budget` |
| `Admission` | `verify_admission` calls in flight, the replay store, commits, lost replies, crashes; extends `TrustChain` and `RuntimeBudget`, so rotations and the clock interleave with calls |
| `AdmissionLedger` | the abstract specification of admission: keys spent once, outcomes given once |
| `AdmissionSurfaces` | Python and TypeScript calls over one store, the TypeScript runtime following the rotations at its own pace; receipts that are signed, kept and shown to either surface |
| `Guardrail`, `GuardrailSurfaces` | `GuardrailClient.evaluate`, and the JavaScript client beside it on the same detectors |
| `GuardrailStream` | `GuardrailStream` |
| `Telemetry`, `TelemetrySurfaces` | `instrument`, `use_context`, `inject_context`, `extract_context` in interleaved tasks; TypeScript calls over the same boundary and sink |
| `PacketRunner` | `ci/run_packet_argv.py` and its packet file |
| `MakeDispatch` | `ci/run_make_target.py` and the descriptors |
| `PacketMake` | the runner with the programs its commands start, and the environment in between |
| `ContractRelease` | synchronization, verification, generation and check, with crashes and edits by hand |
| `PackageBuild` | the two builds, their comparison and the replacement of the directories |
| `Integrations` | an adapter of any framework, or a vector wrapper, around an object whose methods its owner replaces, and the calls through it |
| `CompatBuild` | builds and verifications of the compatibility wheel that share a directory |
| `TwoReadings` | the history of a double reading of unlocked files, and what equal readings can and cannot tell; used by `PackageBuild` and `CompatBuild` |
| `TrustChainProofs`, `TrustSurfacesProofs`, `AdmissionProofs`, `GuardrailProofs`, `TelemetryProofs`, `PacketRunnerProofs`, `ContractReleaseProofs`, `PackageBuildProofs` | theorems; `TelemetryProofs` has those of `Integrations`, `PackageBuildProofs` those of `CompatBuild` |
| `MCTrustSurfaces`, `MCAdmission`, `MCAdmissionSurfaces`, `MCGuardrail`, `MCTelemetry`, `MCPacketMake`, `MCContractRelease`, `MCPackageBuild`, `MCIntegrations` | instances for TLC |

### How state and steps correspond to the code

*Documents.* A bundle or envelope is named by its SHA-256 digest, so a name
stands for the digest (no collisions) and `previousBundleDigest` holds a name. A
signature records the key pair that made it, the key id it claims and whether
`signedMessageDigest` is that of the payload; nobody forges a signature.
Documents are taken as parsed values. `defects` is what is wrong with the form of
one: `"malformed"` for closed fields, patterns and types, which both surfaces
refuse, and one value for each kind of form that only one of them refuses:
`"longId"` (an id of more than 128 characters where nothing compares it:
`metadata.id`, `admissionId`), `"yearZero"` (a timestamp of the year 0000) and
`"base64"` (a nonce, public key or signature with `+` or `/` for `-` or `_`).
Organization and key ids are compared, so the long ones among them are in
`LongIds`. `WellFormed` and `TSWellFormed` are what each surface asks of a signed
document. Orderings of timestamps, key-set uniqueness and the version bound are
modelled as such. `MaxBundleVersion` is 2147483647 in the code.

*Trust.* `adopted` is the host's trust root with its history; `Bootstrap` and
`Rotate` are guarded by the verifiers. The host verifies and adopts in one step
(a host that verifies two rotations against one predecessor must serialize them;
the library cannot).

*Admission.* `phase[c]` is the program counter of a call. `Begin` is everything
before `reserve` (with the clock and the trusted bundle as they are then);
`Reserve`, `ReserveRefused` and `ReserveRaises` are the store's possible answers,
the last with or without the reservation made; `Decide` is the budget and the
return; `Commit` is the host binding the receipt; `Crash` loses the calls and
keeps store and trust. The store is the caller's and is modelled from the
`AtomicReplayStore` protocol, its docstrings and the decision vectors of
`fixtures/runtime/interoperability-vectors.json`: both keys are reserved in one
transaction, another request under the same idempotency key is a conflict, the
same request whose record has a receipt the store hands out again is IDEMPOTENT,
any other use of a spent key is REPLAY_DETECTED. `Replayable` says which records'
receipts it hands out. Records are kept for ever: the EXPIRED state of the record
schema, whose retention rule is the store's, is not modelled.
`granted`, `refused` and `disturbed` are history.

*Both surfaces of admission.* `known` is how many of the adopted bundles the
TypeScript runtime has; `Follow` is its bootstrap or next rotation. The calls in
`TSCalls` take `TSBegin`, `TSReserve`, `TSReserveRefused` and `TSDecide`, which
are `verifyAdmission` around its one `await`. `SignAndCommit` is the host that
signs a receipt of the decision and commits it; `Shown` is what may be presented
as a receipt: those that were signed, and what can be made of them by changing a
field, the decision or the signature; `Reformed` are those with a fault of form.

*Guardrail.* Content is the sequence of its own positions, so the result shows
which scalars survive. One action per consulted detector. A Python detector
constructs a finding, which raises where it is not one; a JavaScript detector
returns any object, which the client normalizes: `BothAnswer` is the same
answer seen from both. The TypeScript redaction merges and cuts as its code does, the
Python one as its own.

*Stream.* A push reads the buffer, evaluates, and writes the buffer: two steps.
`EvaluateRaises` is an evaluation that ends in an exception.

*Telemetry.* `current[t]` is `_CURRENT_CONTEXT` as task `t` sees it. `stack[t]` is
the open scopes and calls of the task: the wrapper's locals `active` and `parent`
(`saved`, which is also what the reset token restores). A call is three steps,
`BeginCall`, `EndOperation` (the operation ends and the context is reset) and
`Emit`; anything may happen in between, in the task or in others. The sync and
async wrappers have the same steps. A sink stores the record or raises an
`Exception`; clocks and id factories do not raise, and random ids are distinct.
Identity headers are one claim, dropped where `trust_identity` or
`include_identity` is false. An asyncio task starts with a copy of its creator's
context, a thread with none. TypeScript code holds whatever context it extracted
or was handed, that of a call that has ended included, and passes it to
`TSBegin`; `TSSettle` is the turn of the event loop in which the record is built
and given to the sink. Whether a sink's exception reaches the caller
(`strict_sink`) is left open, as the code that called may raise for any reason.
`base`, `within` and `ran` are history.

*Packet runner.* `path` is what the packet file holds, decoded; a digest is the
text it was taken of. `ReadPacket` is `main` up to the canary, refusals included;
`LoseCanary`, `EndCanary`, `StartChild` and `EndChild` bracket the children, the
first being a canary that cannot be started; `Verify` is `verify_packet_digest` after a child, before its status is looked at. `Change`
is anything that rewrites, removes or replaces the file while a child runs.

*Make dispatch.* `Called` is the start of the program with a command line and
what `_environment_variables` finds; `Select` is everything before the first
command (`load_rules`, the matching of each packet's rules): `selected` has the
rule of each packet that has one, and `turn` and `ran` say whose command is next.
`RunCommand` and `CommandMissing` render a command and run it; `Rewrite` changes
the descriptors while a handler runs. In `PacketMake` a child of the
runner that is `make` or the program itself runs these steps; the scrubbed
environment, make's export of its command line, and make's own return code 2 are
between the two.

*Contract release.* One action per file that a program reads or writes:
`CopyEntry`, `WriteManifest`, `PruneFile`, `WriteLock`; `StartGenerate` (the
verification), `WriteOutput`, `PruneOutput`, `EndGenerate`; `Check`. `Crash` may
come between any two, or inside a write, which leaves the file `Torn`. `Edit` is
a hand edit between commands. `locked` is history.

*Package build.* `content[f]` is what a file contains, 0 being what the generator
would write; an archive is the content of each file it was made of. `EditFile`
gives a file any other content, one it had before included. `CheckFile`, `ReadFirst` and `ReadSecond` read one file
each and an edit may come between any two; `Compare` is the comparison of
digests; `RemoveArchive` and `CopyArchive` are `_replace_directory` file by file,
and `CrashBuild` may interrupt it anywhere. `history` (of the build that reads) and
`origin` (of the build that last filled each directory) are records of
`TwoReadings`: what every file contained between the two readings, what it has
contained since the first began, and which files were given back a content they
had had since then. `Explains` says what two equal readings tell of a file: it is
as it was between them, or it was changed and changed back meanwhile.

*Integrations.* `target` is the caller's object, a method of it being what a call
of it does: a value, a coroutine, a task, or no method, absent or something that
cannot be called. A call finds the absent one missing before its span and calls
the other inside it, where that raises. `Make` is a factory, with
`RequireMethods` and `NegotiateMcpVersion`; `Replace` is the caller, at any time.
A call is `Begin` (the lookup and the checks before the span), the method's
`Raise`, `ReturnValue` or `ReturnAwaitable`, then `InspectResult`
(`invoke_sync` after its span) or `AwaitEnds` (`invoke_async` inside it).
`WorkEnds` ends the work an awaitable stands for, whoever waits for it. The span
itself, one record and its context, is `Telemetry`'s.

*Compatibility wheel.* A wheel is the content of each file it was read from;
`Change` gives a file any other, one it had before included. `ReadMember` reads one file, of the first or the
second build; `CheckOutput` and `Open` are the existence check and the creation
of the artifact, which are two calls in the code; `Refuse` is any check that
fails, any exception and the death of the process, which all leave the directory
as it is. `build_wheel` called by a front end and `verify_reproducible` with and
without an output are the three kinds of runs. `seen`, a record of `TwoReadings`
for each run, and `openers` are history.

## 3. Runs

Each run finishes within three minutes on two workers.

| Run | Checks | Bounds |
| --- | --- | --- |
| `TrustSurfaces` | `ChainSound`, `TSChainSound`, `SameRotationVerdict` | 30 bundles around one honest chain that runs past the version limit: forks, forgeries, skipped versions, self-signed, revoked and pending signers, foreign tenant, duplicates, malformed, nine that only one surface refuses, and successors of those; five seconds |
| `TrustSurfacesVersion` | `VersionsInContract`, violated | the same |
| `AdmissionLive` | `OnlyVerifiedReserve`, `ReservationSettled`, `ImplementsLedger` | two calls, eight envelopes: four that collide on nonce, on idempotency key or on both, four that fail one check each; budgets within, over and unreportable; one rotation that revokes a signer; crashes at any point |
| `AdmissionRetry` | `RefusedStaysRefused`, violated | a store that hands out rejected receipts as well |
| `AdmissionSurfaces` | `OneOutcomePerKey`, `ReservationExplained`, `AdmissionsAreBacked`, `VerifiedReceiptsTrue` | a Python and a TypeScript call at a time, three in all, four envelopes that collide, one rotation that revokes a signer and the receipt key, lost replies and crashes |
| `SurfaceVerdicts` | `SameAdmissionVerdict`, `SameReceiptVerdict` | sixteen envelopes, one for each check that can fail and one for each form the surfaces judge differently, five seconds, receipts with every single and some double faults |
| `Guardrail` | `RedactionExact`, `ObjectionsPrevail`, `EvaluateAnswers`, `OrderDecidesNothing`, `SameGuardrailVerdict`, `FinishJudgesWhole`, `ContentReleased` | three detectors, four scalars, up to two ranges each (in any order, and past the end), both fail modes; or a stream with one caller, five pushes of two chunks, a limit of three |
| `Telemetry` | `ContextFollowsCode`, `RecordsFollowCode`, `TraceTree`, `RecordsTruthful` | two tasks and TypeScript calls, one request (trusted or not), two contexts at the boundary, two spans, two scopes or calls open at a time |
| `PacketMake` | `RunsTheReadPacket`, `AuthorityRechecked`, `ExitExplained`, `OneRulePerPacket`, `HandlersInOrder`, `TargetsAsWritten` | seven packets, two of which break an admission rule; descriptors of two packets with shared targets, overlapping enums and one fault each; two changes of the files; a runner with and without a make variable in its environment |
| `ContractRelease` | `VerifiedIsOneRelease`, `AcceptedSyncVerifies`, `AcceptedGenerateChecks` | two sound releases that share a document, a dirty checkout, four manifests that one of the programs refuses; crashes at any write, one edit by hand |
| `PackageBuild` | `DirectoriesOfOneBuild`, `AcceptedOfOneBuild`, `VerifiedOfOneMoment`, `OutputExplained`, `NeverReplaced` | three archives over a generated, a hand-written and a shared file, two contents each, two directories, three edits, crashes while the directories are replaced; or two runs of every kind of the compatibility wheel's builder, wheels of two files of two contents, three edits |
| `Integrations` | `SpanTellsAnswer`, `WorkEndsWithCall` | all seven adapters, every object, three MCP revisions, any replacements, two calls |

In `Guardrail` and `PackageBuild` a behaviour is one of two components that share
nothing (`GuardrailNext`, `BuildersNext`). Types (`TypeOK`, `SurfacesTypeOK`,
`RunnerTypeOK`, `IntegrationTypeOK` and the others) are proved, not run, and so
are `ReceiptMatchesDecision`, whose consequence for whoever is shown a receipt,
`VerifiedReceiptsTrue`, is run, and `MissingOnlyIfReplaced`: that a caller who
leaves its object alone never meets an `AttributeError`, nor a `TypeError` for
want of a method.

Why the bounds are enough. Every conflict of admission is between two holders of
a key, so two calls in flight and a third after them produce each order of
reserve, decide, commit, crash and retry; two times and two bundles put a
rotation or a second's passing before, between or after the steps of a call.
Two ranges from each of two detectors already overlap, nest, touch and repeat in
every way on four scalars; the third detector adds one that fails or objects.
Two frames and two spans put a scope in a call, a call in a scope and a call in
a call while another task or a TypeScript call does the same; the context of the
request, without its identity, and that of the first span are contexts one could
be mistaken for another. A change of the packet and one that puts it back need
two changes. Two releases, one killed synchronization and one edit make every
mixture of files a verifier could be shown; three edits put one in the check, one
in each build or all in one of them, and change a file, change it back and change
it again around its two readings, which is how a wheel of no moment passes. Calls through an adapter share only the
object, and two show one call's method being replaced under the other. Two runs
are the writer of an artifact and the one that finds it, or both its writers; two
files have a member before and one after an edit. Counters are bounded by
`MaxCalls`, `MaxTime`, `MaxPushes`, `MaxSpans`, `MaxDepth`, `MaxCarriers`,
`MaxChanges` and `MaxEdits` in the guards. Deadlock is checked in
`ContractRelease` and `PackageBuild`, whose programs can always be started again
(builders of the compatibility wheel stop when all have ended, `AllEnded`), and in
`Integrations`, whose caller can always replace a method; in the others the
bounded system stops.
The proofs remove the bounds for the properties they prove.

The two tasks are symmetric in `Telemetry` and the two calls in `Integrations`,
neither of which checks liveness; no other run uses symmetry.

Fairness. `FairSpec` (`AdmissionLive`) has weak fairness of `Progress(c)`: a call
that has begun waits for nothing but the store's answer, and its host commits the
receipt of a decision it was given. Nothing is assumed about new calls, the
clock, rotations or crashes. A crash is allowed to end any call, and then the
reservation is in `disturbed`.

### Disagreements found

- `AdmissionRetry`: `verify_admission` admits on IDEMPOTENT without looking at
  the cached receipt (`admission.py:136`). If the store returns the committed
  receipt of a refusal (`commit(..., accepted=False)`), a request refused over
  budget is admitted when retried. With `Replayable = {"COMMITTED"}`, a store that
  answers REPLAY_DETECTED for rejected records, `AdmissionsAreBacked` holds, on
  both surfaces.
- `TrustSurfacesVersion`: TypeScript does not enforce the contract's maximum
  `bundleVersion`, Python does.

Where the surfaces differ. The parity properties compare the two verifiers on one
document and one bundle, and name each check of form that only one of them makes.
A document such a check refuses is MALFORMED on that surface and may be accepted
on the other; for a bundle this splits the organization, as each later rotation
must name the bundle in force.

| Only | refuses | Code |
| --- | --- | --- |
| Python | ids of more than 128 characters: `metadata.id`, `organizationId`, `admissionId` and `signature.keyId` (a signature that names so long a key verifies on neither, as both bound the ids of trust keys, but is SIGNER_UNKNOWN in TypeScript) | `validation.py:58`; `index.ts:209`, `:220`, `:229`, `:256` |
| Python | timestamps of the year 0000 | `validation.py:66`; `index.ts:199` |
| Python | `bundleVersion` past 2147483647; a REVOKED key with `revokedAt` before `notBefore` | `validation.py:119`; `index.ts:230` |
| Python | a receipt's `receiptId`, which TypeScript does not read | `validation.py:192` |
| TypeScript | a nonce, public key or signature in the standard base64 alphabet | `canonical.py` (`base64url_decode`), `index.ts:156` |

One reason differs besides: TypeScript looks at the tenant of a receipt before its
fields, so a receipt that is foreign and malformed is TENANT_MISMATCH there.
`SameRotationVerdict`, `SameAdmissionVerdict` and `SameReceiptVerdict` say that
these are all, for documents that reach both verifiers as the same parsed value
(an integer written `1.0` is refused by Python's parser and read by TypeScript's)
and cryptography that is perfect.

## 4. Proofs

The proofs hold for every set of documents, any number of calls, tasks, packets,
files and edits and any budget inputs, from the assumptions on the constants in
the modules (documents have their types, `None` is not one of them, the runtime
has an organization and a pin, the bounds are naturals, `Replayable` names
settled states, absent and torn files are no contents).

- `TrustChainProofs`. The inductive invariant is `TrustTypeOK` and `ChainSound`,
  which is `ChainLinked` and `ChainAuthority`; lemmas say what acceptance by each
  verifier means. That no bundle is adopted twice follows from the versions. It
  also holds what both surfaces share: on a bundle that is well formed for Python
  they select the same key (`SelectAlike`) and judge a signature alike
  (`SignerAlike`).
- `TrustSurfacesProofs`. The TypeScript chain is `SoundChain`, link by link
  (`Linked`, `Authorized`), and stays so when a link is added (`ChainGrows`). A
  bundle that one surface alone takes for malformed breaks one of the rules only
  that surface has: with `SignerAlike` this is `SameRotationVerdict`.
- `AdmissionProofs`. `OneOutcomePerKey` is not inductive: it needs that store
  records do not conflict and are one per envelope (`StoreExclusive`), that a call
  past its reservation is the only one that holds its record, still reserved and
  undecided (`HolderExclusive`), that whatever was decided holds a record
  (`DecidedHeld`), and that inputs in flight were verified (`InputVerified`). The
  conjunction, `AdmissionInv`, is proved inductive action by action; type
  correctness, `OneOutcomePerKey`, `ReceiptMatchesDecision` and the refinement of
  `AdmissionLedger` (each step maps to `Spend`, `Grant`, `Refuse` or a stutter)
  follow. `ReservationExplained` is inductive beside it. `AdmissionsAreBacked`
  needs `Replayable = {"COMMITTED"}`, an assumption of the theorem: without it the
  property is false (`AdmissionRetry`). `OnlyVerifiedReserve` rests on
  `VerifiedInv`: what is in flight or in the store passed the checks under the
  bundle in force when its call began, which later rotations leave true of that
  moment (`PastStands`). For `AdmissionSurfaces`, `SurfacesInv` adds that the
  TypeScript runtime stands on an adopted, well-formed bundle (`FollowInv`), so
  that its checks are the Python ones (`SameReason`) and each of its steps is one
  of `Admission`'s, under a trust root that may be behind: `SurfacesOneOutcome`,
  `SurfacesSameVerdict`, `SurfacesSameReceiptVerdict`. `VerifiedReceiptsTrue` adds
  that what was signed was decided and that decisions stand (`ReceiptsInv`,
  `OutcomesStand`), and assumes that nobody but the runtimes holds a receipt key
  of some bundle (`OthersCannotSign`) and that the organization is not the foreign
  one of the forged receipts.
- `GuardrailProofs`. The merge and the cut are loops over a sorted list, and no
  induction theorem of the library can be used on them. `UpTo` proves the one
  principle that is needed, from the minimal elements of the well-founded order
  of the naturals, for a *set* of numbers; `LoopRuns` gives a recursive function
  its rounds with it. Then the loop invariants are proved round by round:
  `Merging` (the merged ranges are apart, in order, and cover what the ranges so
  far do) and `Cutting` (the output so far is the redaction of what was passed).
  Redaction is unique (`RedactionUnique`), so the result is the redaction of the
  set that was found, which is `RedactionExact`; as that set is the same for every
  order of the findings and for both surfaces, it gives `OrderDecidesNothing` and
  `SameGuardrailVerdict` too. The sort is a ranking of what was reported
  (`RankNumbers`), stable in the order of reporting. The stream, for one
  caller (`OneCaller`): the buffer is what was accepted while the stream is open,
  the last result is a verdict on it, and a push in flight still judges the buffer
  as it is.
- `TelemetryProofs`, of both surfaces together. `ContextFollowsCode` is not
  inductive: leaving a scope is right only if what it resets to is what encloses
  it. `Nested` says so of every open frame (`saved` is the context of the frame
  below), that only the innermost may have ended, and that a call's context
  continues the one it found. `NestedPush` and `NestedPop` carry it over the two
  ways a stack changes; `ContextFollowsCode` and `RecordsFollowCode` follow.
  `TraceTree` and `RecordsTruthful` need more: that a span belongs to one call,
  Python or TypeScript, and has a record only when that call is over (`SpanInv`),
  and that a span has one trace wherever it is named, in a context, a carrier, a
  frame or a record (`LinkInv`). `TraceInv` is their conjunction.
  The adapters (`AdapterInv`): while an adapter stands, what the factory saw was
  complete (`FactorySaw`), and every call is where the code can have brought it,
  with span, work and answer that belong together (`CallOK`), whatever the caller
  does to the object meanwhile.
- `PacketRunnerProofs`. `RunnerInv` ties the log to the program of the packet and
  says at which program counters the file is known to have held it. The runner
  composed with its make targets implements the runner alone
  (`PacketImplementsRunner`), so its guarantees are inherited.
  For the make targets, `DispatchInv` says that the selected rules are those of
  the directory as it was read (`Chosen`), that the log is in the order of turns
  and places (`LogInv`), and that what comes before the present place has run,
  with success (`RunInv`): `OneRulePerPacket` and `HandlersInOrder`, for any
  number of packets and commands. `CallInv` ties a call in progress to the
  command that started it. What make exports and what the program parses are the
  last values given, by the greatest index of a name (`GreatestIndex`):
  `TargetsAsWritten`.
- `ContractReleaseProofs`. `ReleaseInv`: while a synchronization copies, the
  entries before its position have been written as listed (`Copied`), and a
  whole lock is that of the last checkout that came to its end; the three
  properties follow, whatever state a crash or an edit left behind.
- `PackageBuildProofs`. The first build reads each file no later than the moment
  between the builds (`middle`), the second no earlier. What the first read and the
  file no longer contains at that moment, it can contain again only by being given
  back a content it had (`returned`); equal texts on both sides are therefore
  those of that moment, or of a file that was changed back. `BuildInv` carries
  this to the
  directories through removal, copy and crash. The compatibility wheel is read by
  the same argument, a run at a time (`ReadingInv`); `OpenersInv` and `OutputInv`
  say that whoever writes found no artifact, that every member written is of such
  a run, and that one such run, which writes, failed or was accepted, has filled
  its members up to its place (`FilledBy`), also when another run emptied the
  artifact in between. `NeverReplaced` is an action property, from `CompatInv`.

Only model-checked. Every invariant and action property that a passing run checks
is the subject of a theorem. Liveness (`ReservationSettled`) stays with TLC:
fairness is beyond the prover. So do the two violations, which are
counterexamples on an instance.

What `TargetsAsWritten` says of a call depends on who made it. Started by make,
the program is given what make exports: the last of several values, and no name
it does not know. Started directly it parses its own command line and refuses
names it does not know and empty values, so there every name that is written is
one of those that were used (the last conjunct).

## 5. Not modelled

- Encoding (canonical JSON, base64url, Ed25519, archives), header syntax, the
  allow-lists of span attributes and the text the generator renders are data here.
- *Protocol helpers* other than version negotiation: tables, a classification of
  task states and field validation; no operation depends on an earlier one.
- *Generated models and client*, *compatibility aliases*, *scans and bootstrap*:
  field validation, re-exports, single-pass file checks and downloads.
- The mapping of attributes given to `instrument`, which `_record` reads after
  every call: its owner could change it meanwhile; it is taken as constant.
- A sink that raises a `BaseException` (an interrupt); clocks and id factories
  that raise.
- Store retention, adoption races in the host and budget accounting across calls
  are the host's; the hazards are listed in `PROJECT.json` with this note.
- A stream used by several callers at once is in the model but promised by no
  text of the code: with two callers `ContentReleased` is violated by a push that
  ends after the stream did.
- A double reading is no lock, and the code promises none: files that are changed
  and changed back around their readings (three edits of one file of a wheel, six
  of two files of an archive) give two equal builds that match no moment of the
  files. The properties of the builders except exactly these files: without the
  exception all three are violated in the same run.
- A packet that is changed and put back while one child runs goes unnoticed: the
  code compares digests when the child has ended and promises no more
  (`AuthorityRechecked` says exactly this much).

## 6. Plan

1. A store with retention, from the EXPIRED state of the record schema, to say,
   and prove, which retention keeps `OneOutcomePerKey` when calls sample the clock
   early.
2. Abstract specifications of the contract release and the package build (a
   directory that holds one version or none) and proofs that they are implemented.
3. `AttributeRecord`: what the allow-lists keep of given attributes on both
   surfaces, and that they never keep what they must drop.
