# Verification of consequence-rail

TLA+ modules, TLC configurations and TLAPS proofs about the rail in `src/src`:
the program that lets an agent perform an external action only after the
recourse for undoing it is reserved, and that closes every action with a signed
receipt that an offline verifier can check against the event log.

Contents: [the system](#the-system), [modules](#modules),
[model and code](#model-and-code), [runs](#runs), [bounds](#bounds),
[fairness](#fairness), [proofs](#proofs), [findings](#findings),
[what is left out](#what-is-left-out), [plan](#plan).

## The system

| Part | Source | State | Operations | Correct when |
|---|---|---|---|---|
| Rail lifecycle | `rail-class.js`, `rail-state.js`, `rail-schema.js` | one record per action: state, permit, reservation, counters, evidence, receipt | `propose`, `authorize`, `reserveRecourse`, `acceptRecoveryQualification`, `issuePermit`, `execute`, `reconcile`, `verifyOutcome`, `remediate`, `reconcileRemedy`, `exportBundle`, `inspect` | the external operation and its remedy are called at most once; recourse is held while an effect may stand; a receipt is final and follows from the log |
| Event store | `event-store.js` | per action, a hash-linked list of signed events | `append`, `list`, `verifyEventChain` | an append shows exactly one event or throws and shows none |
| Clock | `clock.js` | the time | `now`, `advance` | monotonic |
| Offline verifier | `verify.js` | none | `verifyBundle` and its semantic checks | accepts what the rail exports; derives the outcome from the log alone |
| Recovery preflight | `recovery-preflight.js`, `recovery-review.js`, `mock-refund-recovery-adapter.js` | none (artifacts) | run a drill, qualify, verify an attestation | binds a reservation to a measured remedy implementation until an expiry |
| Connectors | `mock-refund-connector.js`, `mock-inventory-connector.js` | reservations, effects, results remembered by idempotency key | `reserveRecourse`, `recourseStatus`, `releaseRecourse`, `execute`, `status`, `observe`, `remediate`, `remedyStatus` | a key acts once; a remedy undoes only its own action's effect |
| HTTP sidecar | `http-server.js`, `cmd/rail.js` | active request count, a rate window per address, the requests marked for an unread body | one route per rail operation | the gate counts its handlers and reopens; no connection is reused with a body in flight; the rate is bounded |
| Artifact files | `artifact-files.js` | the file system | bounded read, digest pin, exclusive publication | a destination is absent or complete, never replaced |
| Command line | `cmd/crctl.js`, `cli-args.js`, `review.js`, `recovery-review.js`, `batch.js`, `trust-config.js` | one process per command | verify, review, compare, export, link and batch commands over files | the exit status is truthful; an export is what was verified; a batch judges every file |
| Pure parts | `postconditions.js`, `bundle-validation.js`, `canonical.js`, `signing.js`, `review-markdown.js`, `json-input.js` | none | parsing, evaluation, projection | functions of their input |

**How they interact.** A caller (a demo script, the HTTP sidecar) calls the
rail's handlers. A handler checks the record, reads the clock and the
reservation's status at the connector, appends events to the store and then
writes the record. Five handlers await the connector: `execute`, `reconcile`,
`verifyOutcome`, `remediate` and `reconcileRemedy`; the last two then await a
second call, the observation that verifies the remedy. `close` finalizes the
recourse at the connector, moves the action to `CLOSED` and signs the receipt.
`exportBundle` joins record and log into the bundle the verifier reads. The
sidecar calls the same handlers for its requests; `crctl` meets the rail only
through exported files, which several processes may read and write at once.

**What is hard.** JavaScript runs a handler without interruption between two
awaits, but at each await every other handler may run, for the same action too.
After an await `reconcile`, `reconcileRemedy` and `verifyRemedyOutcome` do not
read the state again; only the transition table keeps a late answer from acting
twice. The store and the connector may throw at any call, in the middle of a
handler. The clock moves between reading an expiry and stamping an event. The
connector may lose, spend or forget a reservation, and its remedy callable may be
replaced under a reservation that was qualified with another one. Clients of
the sidecar stall, vanish or send a body nobody reads, and each way a request ends
must give its place in the gate back. Commands race for a destination, are
killed between two calls of the file system, and see files change between reading
and publishing. All of this is in `PROJECT.json` under `hazards`, each at the line where it bites.

## Modules

| Module | Models | Extends |
|---|---|---|
| `RailState` | the transition table, the outcomes and the vocabularies shared by rail and verifier | |
| `Rail` | the lifecycle of actions under an arbitrary connector: rail, event store, clock, reservation | `RailState` |
| `Verify` | the offline verifier as predicates over what the rail would export | `Rail` |
| `Settlement` | the abstract promise: one exposure, at most one remedy, recourse returned only when nothing is left to undo, one receipt | |
| `RailProperties` | invariants, action properties, the refinement of `Settlement`, fairness and liveness; the module TLC runs | `Verify`, instance of `Settlement` |
| `RailProofs` | type correctness and single calls, proved | `RailProperties`, `TLAPS` |
| `RailWalks` | every segment of `Rail` shown to be a walk in a few relations between slices | `RailProofs` |
| `RecordProofs` | recourse, the refinement of `Settlement`, record and log, preflight, receipt, proved | `RailWalks` |
| `BundleProofs` | exported bundles verify, proved | `RecordProofs` |
| `Demo` | the scripts of `demo.js` and `inventory-demo.js`, the callers in the repository, over either connector | `ConnectorProperties` |
| `Connector` | the refund and the inventory connector, each joined with the rail call by call | `Rail` |
| `ConnectorProperties` | what rail and connector guarantee together, over several actions | `Connector`, `RailProperties` |
| `ConnectorProofs` | what rail and connectors guarantee together, proved | `ConnectorProperties`, `BundleProofs` |
| `RecoveryPreflight` | recovery drills: the runner, the refund adapter, qualification, attestation, replay, diagnosis | |
| `RecoveryProperties` | what an attested drill says and for how long | `RecoveryPreflight` |
| `RecoveryProofs` | what an attested drill says, proved | `RecoveryProperties`, `TLAPS` |
| `HttpServer` | the sidecar's request handler: gate, boundary, rate window, bodies, connections | |
| `HttpServerProperties` | what the sidecar guarantees, its fairness and liveness | `HttpServer` |
| `HttpServerProofs` | TLAPS proofs about the sidecar | `HttpServerProperties`, `TLAPS` |
| `ArtifactFiles` | files, the bounded read, the steps of exclusive publication | |
| `CommandLine` | processes of `crctl`, each from its trusted keys to its exit status | `ArtifactFiles` |
| `CommandProperties` | what commands guarantee under competition, failure and kills | `CommandLine` |
| `CommandProofs` | TLAPS proofs about the command line and its files | `CommandProperties`, `TLAPS` |
| `Boundary` | the instance TLC runs for the sidecar and the command line | `HttpServerProperties`, `CommandProperties` |

## Model and code

`actions[a]` is action `a`'s *slice* of everything: the rail's record, the
store's list of its events, its reservation and call counters at the connector,
and the number of continuations awaiting an answer. A slice that was never
proposed has state `UNREGISTERED`. The fields carry the names of the code
(`permit_uses`, `remedy_attempts`, `evidence`, `receipt`); digests are not
modelled because hashing is taken as exact: an event's position stands for its
hash and an artifact for its digest.

*One action per atomic segment.* A handler that awaits is two actions: the call
up to its await (`Execute`) and the answer that resumes it (`ExecuteAnswered`).
`awaiting[op]` counts the pending continuations of an operation, so two
overlapping `reconcile` calls are two units of `awaiting["reconcile"]`.

*A segment is a walk.* A segment makes several writes: an append, the record, a
release at the connector, another append. The operators `Note`, `Transition`,
`Release`, `Finalize`, `Close` and `Cut` each take a slice to the next one.
`Reaches(a, done, stops)` ends the segment at `done`; when `Failures` is TRUE
it may also end at any of the `stops`, the slices in which a throwing append or
connector call would leave it. `CloseStops` has the stop after the `CLOSED` event,
where reading the log back or signing throws: the action is then closed for good
and has no receipt, so a receipt, not the state, is what `Exportable` asks for.

| Code | Model |
|---|---|
| `transition()` | `CanMove` (the check) and `Transition` (event, then state) |
| `eventStore.append` | `Note`, `Transition` |
| `finalizeRecourse()` | `Finalize`, `FinalizeStops` |
| `close()` | `Close`, `Cut`, `CloseStops`, `Releases` |
| `assertNotExpired()` | `Lapsed` with `Withdraw(a, c, "EXPIRED", t)` |
| `assertAcceptedRecoveryPreflight()` | `PreflightHolds` |
| `validateEvidence()`, `acceptEvidence()` | `Fresh`, `Accept` |
| `failClosedEvidenceObservation()` and the `EVIDENCE_*` branch | `RejectEvidence` |
| each handler | the action of the same name, with `...Answered`, `OutcomeObserved`, `RemedyObserved` for what follows an await |
| `exportBundle()` then `verifyBundle()` | `Exportable`, `VerifiesBundle` and the predicates of `Verify` |

In `Rail` the connector answers anything its contract lets it: a status, a
refusal before an effect, an error, an answer bound to another key; and a remedy
may or may not spend the reservation (`Spent`). `FinalAnswers` says whether a
definite answer about a remedy is ever contradicted by a later one; `connectors`
shows, with `FinalAnswers` FALSE, that the repository's connectors never do. Two
more things the rail accepts of a connector unseen have a constant: a reservation
dated other than by the clock (`ReservedAts`), and facts of another currency or
SKU (`ForeignFacts`). The reference connectors do neither.

*The connectors.* In `Connector` the answer is no longer free. A method of a
reference connector is an async function without an await, so it runs within the
segment that calls it: `CallExecute`, `CallRemediate`, ... are a step of `Rail`
joined with the method's body, which puts its answer into `replies[a][op]`.
`DeliverExecute`, `DeliverStatus`, ... are the rail's resumption joined with the
answer at the head of that queue, so they select the outcome of the `Rail` step
(`MovesTo`, `Weighed`) and add nothing to it. `effects` is the list of refunds or
allocations, `executions` and `remedies` the results remembered by key, `stock`
the inventory; each fault of the code is a choice. The two connectors are one
module because they differ in two places only: an allocation takes stock, and a
refund is voided only when it is a duplicate. Each effect is for one unit, and a
postcondition is that the order has exactly one live effect, as in both demos.

*The callers.* `Demo` adds to `Connector` where the script stands. A visit calls
its handler if the action is in the state the script asks for and is skipped
otherwise; the next waits until nothing is awaited. A fault is drawn for each call,
so every fault of the demos is contained, and combinations they do not offer.

*Drills.* `drills[d]` is how far one `runRecoveryPreflight` got. Its connectors
are its own, so only its readings of the clock are steps of their own: `Begin`
(`drilled_at`), `RunFixture` (the fixture's `reserved_at`) and `Attest`. The number
of live refunds stands for everything an oracle path reads, a contract or trace
for its digest. `Replays` and `Current` are `verifyRecoveryPreflight` without and
with `requireCurrent`, `failed_checks` and `limiting_constraints` the diagnosis of
`reviewRecovery`. What the rail does with an accepted attestation is in `Rail`
(`AcceptRecoveryQualification`, `PreflightHolds`).

*The sidecar.* A request is at most three atomic segments: its arrival (one
action per way it can end there: `Busy`, `RefuseAtBoundary`, `Limit`,
`AnswerUnread`, or `StartReading`), the end of its body (`ReadWhole`,
`ReadTooLarge`, `ReadAborted`) and the rail's answer (`RailAnswers`). The routes
differ, for what is modelled, only in whether they read a body and whether they
then await; so `Requests` has one member per combination of boundary verdict,
kind of route, declared body and acceptable headers. `Leave` is the `finally` of
the handler, `Arm`, `ClearMark` and `Finish` the mark of an unread body. `Arm` covers
both ways to be marked: `armUnreadBodyClose` marks a declared body, `readJson` any
request it refuses by its headers, with or without a body (`RefusedByHeaders`);
`assertNoBody` marks only what declares one, which is marked already. A body that
passes the size limit while it streams is destroyed, so its 413 reaches nobody;
this is modelled as it is. `OverIPv6` allows for a host that embeds
`createReferenceServer` and listens on both loopback addresses.

*Files and commands.* `files` is what each path holds, and a document stands for
its digest with what a verifier would find: its profile, its action, its proof
(receipt or attestation), its signer, and whether its log replays. Each call of the
file system is a step of its process, may fail, and may be the last one
(`Crash`); so may the final write to standard output. `Verified` says which verification each command applies to its inputs;
`Accepted` is what the argument checks let through. `Place` is anyone else who
puts, replaces or removes documents where no command has published.

## Runs

`connectors` and `refused_duplicate` run `ConnectorProperties`, `demo` runs `Demo`,
`recovery` runs `RecoveryProperties`, `boundary` runs `Boundary`, the others
`RailProperties`; the `.cfg` of the same name gives the constants.

| Run | Question | Result |
|---|---|---|
| `lifecycle` | One action, nothing throws, status reads overlap, answers are lost, reservations lapse. `AtMostOneCall`, `RecourseHeldWhileExposed`, `BundleVerifies`, `NothingStranded`, `ReceiptIsFinal`, `TypeOK`, and the liveness property `EveryCallConcludes` | hold |
| `failures` | Two proposals for one place; store, connector and signing may throw anywhere, also between `CLOSED` and the receipt; a preflight, required or not, may expire and its implementation be replaced at any time. `RecordFollowsLog`, `BundleVerifies`, `ImplementsSettlement`, `PreflightBeforePermit`, `QualifiedRemedyOnly` | hold |
| `connectors` | Two actions on one order, keys shared or distinct, every fault of either connector. `ConfirmedHasEffect`, `WithdrawnLeavesNoEffect`, `SettledStands`, `StockConserved`, `ReceiptIsFinal` | hold |
| `demo` | The script of the demos, once through, over either connector with every fault. `OnePassSuffices` | holds |
| `recovery` | Two drills, every drill fault, contracts that depart from the demo's. `OnlyWholeBundlesReplay`, `QualifiedMeansRestored`, `FaultsClassified`, `ChecksExplainVerdict`, `CurrentWhileCovered` | hold |
| `boundary` | Two connections on a gate of one; two commands on three paths. `GateCountsHandlers`, `NoUnreadBodyKept`, `ReadBodyKeepsConnection`, `LessThanTwiceTheRate`, `LimitedOnlyAtLimit`, `GateReopens`, `UnreadBodyEnds`, `HttpTypeOK`; `NothingReplaced`, `PublishedWhole`, `ExitTellsPublication`, `ExportsAreVerified`, `BatchVerdict`, `CommandTypeOK` | hold |
| `late_answer` | `ReceiptBindsHead` with contradicting remedy answers | violated |
| `remedy_result` | `RemedyResultFollowsLog` with a failing append | violated |
| `moving_clock` | `OwnExecutionsVerify` with a clock that moves inside a handler | violated |
| `unseen_inputs` | `OwnInputsVerify` with a proposal requested in the future, a commitment dated after the permit, and facts of another currency or SKU | violated |
| `early_evidence` | `CompensatedOnLaterEvidence` | violated |
| `refused_duplicate` | `RefusalPrecedesEffect` with stock for one of two allocations | violated |

What the passing properties say:

- `AtMostOneCall`: the protected operation and the remedy are each called at
  most once, although `max_attempts` is two.
- `RecourseHeldWhileExposed`: the rail has released the reservation only if the
  action was withdrawn, confirmed without effect, settled or compensated.
- `BundleVerifies`: every exported bundle passes every modelled check of
  `verifyBundle`, including replay of the log, derivation of the outcome, the
  order of reservation, permit and execution, and freshness, currency and SKU of
  the evidence. It is a claim about an environment: what the rail accepts unseen
  breaks it (`unseen_inputs`), and so do `moving_clock` and `late_answer`.
- `NothingStranded`: every transient state has exactly the continuation that
  leaves it. It is stated only without failures: a failing append does strand
  an action, and the code documents no recovery from that.
- `ReceiptIsFinal`: once the receipt exists no late continuation appends an
  event or adds evidence. It is stated under `FinalAnswers`; `late_answer`
  shows it needs that.
- `RecordFollowsLog`: after any failure, the record is what the last committed
  event describes, and a receipt, if the handler came as far as signing one,
  states the outcome its `CLOSED` event states. `remedy_result` and `execution` are the fields in which the
  code is weaker: `execution` is set after its event (checked in one
  direction), `remedy_result` before it (see findings).
- `ImplementsSettlement`: the rail refines `Settlement` under `PhaseOf`, step by
  step, with partial failure.
- `PreflightBeforePermit`, `QualifiedRemedyOnly`: a required preflight is
  accepted before the permit, and the remedy that runs is the measured one.
- `EveryCallConcludes`: whatever was called comes to a state in which a caller
  can act, or to an end; `OnePassSuffices`: the callers in the repository, which
  call each handler at most once, do end. See [fairness](#fairness).
- `ConfirmedHasEffect`, `WithdrawnLeavesNoEffect`: the rail's view of an effect is
  the connector's: what it counts as executed exists and is this action's own,
  and what it withdrew or confirmed absent does not exist, whichever answers
  were lost and whichever keys are shared.
- `SettledStands`: an action settled by its evidence keeps its one effect,
  whatever remedy another action on the same order runs later.
- `StockConserved`: units are on hand or allocated; none is lost or released
  twice.
- `QualifiedMeansRestored`: `QUALIFIED_EXACT` is said only of a drill whose fault did
  damage and whose remedy restored the state before it, with the registered
  adapter and a fixture reserved as the live action was. `FaultsClassified` is
  the converse for the drill faults the tests name.
- `OnlyWholeBundlesReplay`: parts of two drills put together do not replay, and
  what the runner exports does.
- `ChecksExplainVerdict`: the checks `reviewRecovery` computes anew agree with the
  verdict of `deriveQualification`.
- `CurrentWhileCovered`: the boundaries of freshness.
- `GateCountsHandlers`: the gate's count is the number of handlers that run, on
  live and on lost connections, however each of them ends.
- `NoUnreadBodyKept`, `ReadBodyKeepsConnection`: a connection is offered for another
  request only if no body is in flight on it, and the server ends one only if
  a body on it was not read or `readJson` refused the request by its headers.
- `LessThanTwiceTheRate`, `LimitedOnlyAtLimit`: a fixed window that restarts lets
  up to twice the limit minus one through in a minute, and no more; and refuses
  only an address that did reach the limit within its last minute.
- `GateReopens`, `UnreadBodyEnds`: clients that stall or vanish cannot keep the gate
  shut or hold a socket with a body nobody reads. A refused request without a
  body leaves only the server's FIN behind, which a client may leave unanswered.
- `PublishedWhole`, `NothingReplaced`: a destination holds the whole output of one
  process or what it held before (`test/atomic-output.test.js` tries one
  failing write; here every order of two processes, failures and kills).
- `ExitTellsPublication`: status 0 means published by this process and cleaned up;
  1 means not published, or published while only the cleaning or the final write
  to standard output failed.
- `ExportsAreVerified`: a receipt cannot be replayed any more, so what is
  exported must be the document that was pinned, verified and checkpointed.
- `BatchVerdict`: a batch judges each file as the command for one file would under
  the same flags, and succeeds exactly if all pass and none contradict each other.
  The code reaches this by two different functions, `reviewBundle` and
  `verifySettlementArtifact`.

`CHECK_DEADLOCK FALSE` everywhere: an action that is closed, denied, withdrawn or
refused has nothing left to do, the clock stops at its bound, and commands end.

## Bounds

- `Action`: records of different actions share nothing but the capacity of the
  map, so one action is the general case for the lifecycle; `failures` has two
  proposals for `MaxActions = 1`, the boundary of the capacity check.
- `lifecycle` has `MaxTime = 3` with expiries at 2 and 3: before, at and after each
  is reachable, and so is the gap in which the permit has expired and the
  reservation has not. `failures` has `MaxTime = 2`, the attestation at 1 and permit
  and reservation at 2: so the attestation lapses under a permit that holds.
  `RemedyWindow` (1 and 0) puts the reservation exactly at the least time
  `validateReservation` admits.
- `MaxAge = 1` separates evidence that is fresh, at the bound, and stale.
- `AttemptLimits = {2}`: a second attempt would be within the limit, so the
  single remedy call is due to the states and not to the limit.
- `MaxInFlight = 2`: two overlapping reads are what a late answer needs.
  `execute`, `verifyOutcome` and `remediate` are not bounded by it: their states
  admit one call.
- `MaxQualifications = 1` and two `Implementations`: qualify, replace, and
  replace back. In `failures` proposals and implementations are interchangeable and
  reduced by `Interchangeable`.
- `connectors`: two actions are what a foreign key, a shared order and shared
  stock need; `Baseline = 2` lets both duplicate faults and an exhausted stock
  occur. `MaxInFlight = 2` lets two remedy status reads overlap. Actions and keys are
  interchangeable and reduced by `Symmetry`. `AttemptLimits`, `Kinds` and `Modes`
  have one member: `lifecycle` varies them.
- `demo`: `MaxTime = 0`, as nobody moves the `ManualClock`; `Baseline = 2`, enough
  for the one allocation and its duplicate (the demo allocates 4 of 25).
- `recovery`: `MaxDepartures = 3` bounds how many fields of contract, drill fault
  and adapter differ from the demo's over both drills; every field takes every
  value, and any three interact. `MaxTime = 2` puts each boundary of the windows
  before, at and after an instant.
- `boundary`: a gate of one makes the second connection meet it full; a limit of
  two and a minute of two ticks make windows begin, fill, overflow and restart
  within the three instants. The rate count is not told apart above the limit.
  Two processes are what a race needs: each has commands of its own, chosen so
  that one publishes what the other competes for, exports, or judges. A third
  party changes the directory in any way before the start (`CommandInit`) and
  once during it (`MaxPlacements`). `out` is vacant at the start unless someone
  places a file there. The run is the sum of the two sides and not their
  product: they share no variable, so a behaviour of both is an interleaving of
  one of each, and no property speaks of both.
- `Lapses`: the statuses the connector may report instead of `active`;
  `unknown` is the one a receipt cannot carry. `lifecycle` and `failures` have
  different ones and different remedy kinds and modes.

## Fairness

Nothing in `src/` calls a handler again when it threw or was refused, so no call
of a handler is fair. What is: the rest of a call that was sent. The connector
settles the promise the rail awaits, and the runtime then resumes the
continuation, with whatever answer. `LiveSpec` assumes weak fairness of exactly these
six actions (`AnswersArrive`), once per operation and not of any one of their outcomes.
Time need not pass and no status read need ever be definite. `EveryCallConcludes`
shows that this is enough to leave every transient state. Where a caller must act
next - `UNKNOWN`, `REMEDY_DUE`, `REMEDY_UNKNOWN` - the action stays as it is without
one; that an attestation lapses or a remedy is replaced and nobody calls again is
listed among the hazards, without a property.

`DemoSpec` is about the callers there are. `runRefundDemo` and `runInventoryDemo` are
each one asynchronous function without a loop, every promise it awaits settles,
so weak fairness of `DemoNext` as a whole is what the runtime gives. `OnePassSuffices`
then says that a straight line of at most five calls ends every action, which
is a property of the transition table and the connectors together: there is no
order of faults after which the script would have to come back to a line it passed.

`HttpFairness` assumes of Node's server that it ends an empty stream
(`ReadWhole` without a body), reports a lost connection to the loop that reads it
(`ReadAborted`) and enforces `requestTimeout` (`TimeOut`), and of the rail that
its promises settle (`RailAnswers`). Nothing is assumed of a client: it may
stop in the middle of a body and keep its connection for ever. `BoundaryFairness`
states the same where the run is about the sidecar. No liveness is stated for
`crctl`, whose commands run straight through.

## Proofs

The theorems hold for every value of the constants that the `ASSUME`s of the
modules admit - any number of actions, connections, processes, drills, keys, any
clock and bounds, with failures wherever `Failures` may be TRUE. A theorem with
a hypothesis of its own names it below, with the reason.

| Theorem | States | Hypothesis |
|---|---|---|
| `TypeCorrect`, `SingleCalls` | `TypeOK`, `AtMostOneCall` | |
| `RecourseHeld`, `SettlementImplemented` | `RecourseHeldWhileExposed`, `ImplementsSettlement` | `"released" \notin Lapses` |
| `RecordTold`, `PermitOnPreflight`, `RemedyIsTheDrilledOne` | `RecordFollowsLog`, `PreflightBeforePermit`, `QualifiedRemedyOnly` | |
| `ReceiptFinality` | `ReceiptIsFinal` | `FinalAnswers` |
| `NoneStranded` | `NothingStranded` | `FinalAnswers`, `~Failures` |
| `BundlesVerify` | `BundleVerifies` | `FinalAnswers`, `~ForeignFacts`, `Drift = 0`, `[]Timely`, `[]Dated` |
| `StockIsConserved`, `EffectConfirmed`, `NothingWithdrawnStands`, `SettlementStands` | `StockConserved`, `ConfirmedHasEffect`, `WithdrawnLeavesNoEffect`, `SettledStands` | `ConnectorAssumption` |
| `AnswersAreFinal` | `ReceiptIsFinal` under `ConnectorSpec` | `ConnectorAssumption` |
| `ConnectedBundlesVerify` | `BundleVerifies` under `ConnectorSpec` | `ConnectorAssumption`, `Drift = 0`, `[]Timely` |
| `WholeBundles`, `QualifiedRestored`, `FaultsAreClassified`, `ChecksExplain`, `CurrentIsCovered` | `OnlyWholeBundlesReplay`, `QualifiedMeansRestored`, `FaultsClassified`, `ChecksExplainVerdict`, `CurrentWhileCovered` | |
| `GateIsExact`, `UnreadBodyNotKept`, `ReadBodyKept` | `GateCountsHandlers`, `NoUnreadBodyKept`, `ReadBodyKeepsConnection` | |
| `RateIsBounded`, `LimitIsDue`, `SidecarTypeCorrect` | `LessThanTwiceTheRate`, `LimitedOnlyAtLimit`, `HttpTypeOK` | |
| `PublicationIsWhole`, `NothingIsReplaced`, `ExitIsTruthful`, `ExportIsVerified`, `BatchIsFair`, `CommandTypeCorrect` | `PublishedWhole`, `NothingReplaced`, `ExitTellsPublication`, `ExportsAreVerified`, `BatchVerdict`, `CommandTypeOK` | |

*The hypotheses.* A connector that reports a reservation as released has given
it back without the rail; what the rail released is then no longer what is
released, and every run that checks the property has `Lapses` without it.
`FinalAnswers` is needed, as `late_answer` shows; `Drift = 0` (a handler reads one
instant) as `moving_clock` shows; `Timely` (no proposal is requested in the future)
and `Dated` (no reservation is dated ahead of the clock) and `~ForeignFacts` as
`unseen_inputs` shows, whose bundle is refused for all three; and a failing append strands an action, so
`NothingStranded` says nothing with `Failures`. `ConnectorAssumption` fixes how
`Connector` instantiates the rail: nothing throws, because the reference connectors
do not, `FinalAnswers` is FALSE, so that finality is not assumed of them, and they
date their commitments by the clock and report the action's own currency or SKU,
so that `Dated` is proved where `BundlesVerify` assumes it.

### The rail

*Counting.* `AtMostOneCall` is not inductive: it fails one step after a
slice in `PERMITTED` with a used permit or in `REMEDY_DUE` with a counted
attempt. So `Inv` (`RailProofs`) ties the counters to the state: before `EXECUTING` no
use and no call, before `REMEDIATING` no attempt and no remedy call (`Counted`).
This is preserved by a continuation only if the continuation finds the state its
call left: an `execute` answer that met `REMEDY_DUE` would move the action back to
`EXECUTED` and to a second remedy. The code never reads the state again there, so
this has to be part of the invariant (`Resumable`): a pending execute finds
`EXECUTING`, a pending remedy `REMEDIATING`, a pending first observation
`VERIFYING`, each exactly one. A pending status read or remedy observation may meet
any later state; for those the transition table (`CanMove`) is what protects, and
`AfterUnknown` and `AfterRemedyUnknown` list what they can meet.

*Walks.* A handler's slice is computed by nested operators, and each property
would meet each handler anew. `RailWalks` shows once, for every handler and every
place where it may stop, that what it does to a slice is a walk in a few
relations: an answer is taken (`Resumed`), evidence is logged or rejected, the
state moves, recourse is given back and recorded, the receipt is cut, a new call
goes out. An invariant of slices then needs one lemma per relation, and one that
puts the relations of a walk together, instead of one per handler:

- `SettlementInv`: `Held`, recourse is released only in the states that return it, or
  in a closed action that is not disputed; and `Receipted`, only a closed action
  has a receipt. A step of the rail is then a step of `Settlement` or a stutter,
  by the course of the phases (`Alike`, `Proceeds`).
- `RecordInv`: the record is what the log tells (`Told`), what the permit and the
  remedy rest on is in the log (`Backed`), no observation of a remedy is awaited
  before there is one (`Awaited`), and qualification, reservation and permit agree
  on the measured implementation (`Drilled`).
- `ConsistentInv`: what the answers so far said of the remedy and what the record
  and the answers still awaited can make of it. From `FinalAnswers` it follows
  that nothing awaited can move a closed action. `WaitsInv` adds that a transient
  state has its one continuation.
- `BundleInv`: of every open action what the verifier will ask once it is closed.
  The log is a legal run in time order (`Chained`), permit and execution are
  inside their windows and recourse outlives them (`Windowed`), the log holds no
  second closing state (`Visited`), each piece of evidence was accepted while fresh
  and once (`Assessed`, `Single`). Closing adds two events and the receipt; after
  that nothing changes, which is where `ReceiptFinality` comes in.

### The connectors

`ConnectorInv` relates four things that no single step writes together: the
record's state, the answers on their way, the results remembered by key, and the
effects. A result is remembered for the action that caused it (`Remembered`), an
effect carries its action's key and order (`Labelled`), every awaited answer is on
its way and no other (`Linked`) and says what is remembered (`Truthful`), and an
action past its execution holds its key unless it was refused, so that what the
rail concluded is true of the effects (`Concluded`). `ConfirmedHasEffect` alone fails
one step after a truthful answer meets a key bound to another action. The rail's
side comes from the walks: a resumption decides by the answer it takes.

`AgreedInv` takes the place of `FinalAnswers`, which `ConnectorSpec` does not assume.
The result of a remedy key never changes (`RemediesStay`), an action that asks for
the status has a result under its key, and every status on its way is that result
(`RemedyStatuses`). Verification starts only from a call that was answered
`remediated` or from a status that says so; in the first case no status read is
under way, in the second every other one says the same, and `REMEDY_VERIFYING` has
no transition to itself. So one observation of the remedy is awaited at a time, and
none when the receipt is cut. It follows that the receipt is final
(`AnswersAreFinal`), and with `BundleInv`, which asks of the answers only that, that
the bundles verify (`ConnectedBundlesVerify`). The counterexample of `late_answer`
therefore needs a connector other than the two in the repository.

### Recovery drills

Drills share only the clock. `DrillInv` says of each that what it exports is its own
contract, the trace of that contract's set-up and the verdict on both (`BundleOf`);
since the attestation carries the digests of contract and trace, a bundle
assembled from several replays only if it is whole. `TraceOf` keeps the one thing
that depends on the clock: a fixture not reserved at the instant of the live
reservation is not tested.

### The sidecar

- `GateInv`: `activeRequests` is a cardinality, so each action is one of three
  changes of the set of served connections - it gains one that was idle, loses one,
  or stays - and a request that is answered at once enters and leaves in one step.
- `BodyInv`: a connection is marked exactly if a body is in flight on it, as long as
  it is open. `NoUnreadBodyKept` alone is not inductive: `Finish` must find the mark
  that arrival set.
- `WindowInv`: the rate property speaks of a minute, the code only of a window. A
  window begins with a request, so at most its limit less one lie after its start;
  that is all of it the last minute can still hold when the next window runs.
  The history `admitted` numbers the requests of an address within a window and
  forgets what is older than a minute.

### The command line

`Inv` says for every process what its step tells about its
staging directory and its publication (`GoodRun`: before the link nothing is
published, at the link the whole text is staged, after it either the link or a
failure happened), and for every path that its publisher's text is what it holds
(`GoodPath`). `PublishedWhole` needs both: a link publishes the whole because `Write`
leads to it only when everything was written, and it stays whole because nobody
else finds the destination vacant. `BatchInv` adds that a batch which read a file
reads all of them before it judges, so that its status is `ExitCode` of all rows;
that no row depends on another (`RowsAreJudgedAlone`) is about the two functions the
code uses for one file and for many.

### Only model-checked

Liveness (`EveryCallConcludes`, `OnePassSuffices`, `GateReopens`, `UnreadBodyEnds`),
which the proof system does not handle, and the counterexamples of the violated
runs. Every other property of the runs is a theorem of the specification it is about.

## Findings

Statements of the repository that the code does not keep in an environment it
accepts; each is refuted by the counterexample of a run. `PROJECT.json` quotes
code and statement.

1. `late_answer`: remedy evidence is appended behind the head the receipt binds
   when two overlapping `reconcileRemedy` calls get different definite answers.
2. `remedy_result`: `record.remedy_result` is written before its event.
3. `moving_clock`: the permit's expiry is checked before the instant the
   `EXECUTING` event is stamped with, and the verifier compares that instant.
4. `unseen_inputs`: three inputs are compared with nothing when the rail accepts
   them, and the verifier refuses the resulting bundle for each: `requested_at` may
   lie in the future, a commitment's `reserved_at` after the permit, and the facts
   of the evidence may be in another currency or of another SKU. The property is
   the weakest claim, that no bundle is refused for all three at once; its
   counterexample refutes each.
5. `early_evidence`: "post-remedy" evidence may have been observed before the
   remedy.
6. `refused_duplicate`: with the duplicate fault the inventory connector raises
   `INVENTORY_INSUFFICIENT` after its first allocation; the rail takes the code for a
   refusal before any effect and gives the recourse back.

An observation that contradicts no statement: a drill repeats the reservation on
a connector of its own and compares commitments, which carry `reserved_at`. It
therefore matches only while the clock stands where the live reservation was
made; with the system clock it ends as `NOT_TESTABLE_LOCAL`.

## What is left out

- Signatures, digests, canonical JSON and key trust are exact. The checks of
  the verifier that recompute a digest or compare a copied field are therefore
  not modelled; those that relate times, states, counts, outcomes and the subject
  of evidence are. The fields of a reservation that the rail compares with its
  commitment as the verifier does are exact as well.
- The reports of `review.js`, `recovery-review.js` and `review-markdown.js` as text:
  projections of verified artifacts. Their verdicts are in `CommandLine`.
- The comparisons of `linkRecovery`, one per field, are `bindings_match`: the drill is
  about the settled action or it is not. Only that verdict reaches the exit status.
- Headers, URLs and JSON syntax: a request or a document carries the verdict. A
  `Content-Length` of several zeros, which declares a body that is whole with its
  headers, is left out.
  `--at` in `crctl`: freshness is `Current` in `RecoveryPreflight`.
- Pipelined requests on one connection.
- Quantities: an action moves one unit of one article; scope checks of
  `reserveRecourse` are represented by the reservations they admit.
- Validation of inputs field by field is represented by the inputs it admits.
- The faults `proposalOverride` and the fault names select a connector's
  behaviour; the model lets the connector behave in every such way at any time.
- A clock that steps backwards; a rail process that crashes (nothing is persisted).
- Reading handlers (`inspect`, `exportBundle`) change nothing.
- `bundle-validation.js`, `canonical.js` and `signing.js`: shape checks of JSON,
  serialisation and Ed25519, without state and taken as exact.
- In `Demo`, the second `execute` of the fault permit-replay, which the rail refuses on
  the permit alone, and what the scripts do with the finished bundle.
- Demo commands that publish nothing, the recovery demo, the scenario matrix, the
  release scripts.

## Plan

1. *Done.* `RailState`, `Rail`, `Verify`, `Settlement`, `RailProperties`, first
   theorems in `RailProofs`.
2. *Done.* `Connector`: the rail with its reference connectors, whose answers are
   no longer arbitrary, and several actions that share an order, keys and stock.
3. *Done.* `RecoveryPreflight`: the drill, its qualification and its replay.
4. *Done.* `HttpServer`, `ArtifactFiles`, `CommandLine`, `Boundary` and their proofs.
5. *Pure algorithms* against reference definitions: postconditions.
6. *Done.* Proofs of every invariant and action property of the runs.
7. *Done.* That the reference connectors answer finally, so that `ReceiptIsFinal` and
   `BundleVerifies` hold of `ConnectorSpec` without `FinalAnswers`.
8. *Done.* `Demo`: the callers in the repository, and that one pass of them is enough.
