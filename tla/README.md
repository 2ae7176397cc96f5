# Verification of the agents-company control plane

TLA+ models of the control plane of this repository, the TLC configurations that
check them, and proofs TLAPS checks. The models are translated from the source;
`PROJECT.json` gives for every definition the lines it stands for.

Contents: [The system](#the-system) · [Modules](#modules) · [Runs](#runs) ·
[Fairness](#fairness) · [Proofs](#proofs) · [Findings](#findings) ·
[What is not modelled](#what-is-not-modelled) · [Plan](#plan)

## The system

An operator creates an *objective* with *work items*. A dispatch of a work item
creates a *run* with an execution packet and takes a *claim lease* on the scope
of the item. Worker processes take queued runs from the database, execute the
tool requests of the packet and settle run and item. Items may need an
*approval*. Every change is written as a row (the projection) and as an event of
an append-only *ledger*, in one PostgreSQL transaction. GitHub issues and
comments mirror the rows, webhooks propose commands, and finished runs feed a
memory of candidate and promoted knowledge.

### Components

| component | state it keeps | operations | interacts with | hard behaviour | what makes it correct |
|---|---|---|---|---|---|
| operator endpoints (`server.ts` 2695–4355) | none of its own; rows of objectives, work_items, runs, approvals, claim_leases | create, replan, dispatch, cancel, requeue, complete, grant, deny | tables, ledger | reads precede the transaction and nothing is locked; constraints are the only arbiter | one active run and one claim per item; attempts in budget; no run before approval; claims end with their run |
| worker loop (`worker.ts`) | run, item, objective it read, in memory | dequeue, read context, execute, settle expired, retry, settle | tables, ledger, executors | settles from old rows; dies between steps; backoff against lease length | each queued run settled once dequeued; retry only after a transient failure |
| claim leases (`db/runtime.ts` 920–1170, `migrate.ts` 140–163) | claim_leases | acquire, sweep, transfer, release | dispatch, retry, settle, cancel, complete | expiry discovered by somebody else's dispatch | one owner per scope, free in between |
| dispatch policy, roll-up (`packages/orchestration`) | pure | decisions, projections | endpoints, worker | used on stale inputs | roll-up follows the items |
| ledger transactions (`runtime-ledger.ts`, `db/events.ts`) | ledger_events, command_log | number, append, upsert, roll up | every writer | two transactions on one stream; lock order; page limit | streams are gapless sequences; replay gives the row; every call ends |
| memory (`packages/memory`, `db/memory.ts`, `server.ts` 4357–5088) | memory_candidates, knowledge_memories, provenance edges, audits | extract, promote (and supersede), invalidate, retrieve | runs, approvals, GitHub events | every request writes whole rows it read before its transaction | knowledge has provenance; its class fits its evidence; reviews are kept; only a reviewer revives |
| outbound GitHub sync (`packages/github`, `github-app`, `github.ts`, `db/github.ts`) | bindings, deliveries, drift alerts | plan, apply in batches, post results | GitHub | effect outside the database before its record; overlapping calls; lost answers | updates reach their own object; nothing is created twice by repetition; applied means shown; failures are visible |
| inbound GitHub events (`packages/github/reconciliation.ts`, `server.ts` 2339–2393, `github-app`) | github_inbound_events, drift alerts | ingest, classify, alert, execute intent | operator endpoints | redelivery during and after a handler; death between effect and record | a command takes effect once and only where it fits; conflicts are alerted |
| sessions, memberships, invitations (`auth.ts`, `db/auth.ts`, `server.ts` 891–1770) | users, user_sessions, companies, memberships, invitations | bootstrap, login, logout, create company, invite, accept, revoke | mail outbox | statements without a transaction; accept without a second look | only the invited get in, with the role offered; only owners make admins |
| mail outbox (`mail.ts`, `db/mail.ts`) | outbound_mail | queue, send, store the outcome | mail server | the answer of the server is lost, or its record | the outbox is truthful |
| company enrollment (`server.ts` 1384–1516) | companies (phase and status of the beta) | create, set phase and status | ledger | default idempotency key | see [What is not modelled](#what-is-not-modelled) |
| kernel replay (`packages/kernel`) | pure | order, replay | tests and golden traces only | comparator over two keys | order is total and respects streams |
| executors, timeline and metrics, control web, release readiness, SDK, UI, deployment | see `PROJECT.json` | | | | |

Hazards, at their lines, are listed in `PROJECT.json`.

### How components interact

Endpoints, workers and GitHub handlers share nothing but the database; there is
no queue and no message between them (a run is "sent" by a row with status
`queued`). So the models have one table per variable and one process per
request or worker, and every interaction is a read, a statement or a transaction.

The composition follows from that. `GitHubInbound` sees of `RunLifecycle` that a
command takes effect in one transaction with its idempotency key, or refuses.
`GitHubOutbound` sees of the runtime that rows change and each change has an event.
`MemoryLifecycle` sees that a run settles and an approval is decided.
`RunLifecycle` takes from `LedgerTransactions` that a transaction is one step, which is
`LedgerRefinement`.

## Modules

| module | models | lines of code |
|---|---|---|
| `Orchestration` | status vocabulary and `deriveObjectiveStatus` | `packages/orchestration`, `packages/domain` |
| `RunLifecycle` | operator endpoints, worker loop, claim leases, approvals, roll-up | `server.ts`, `worker.ts`, `db/runtime.ts` |
| `ScopeLease` | abstract: exclusive ownership of scopes | what `claim_leases` is for |
| `AttemptHistory` | abstract: the attempts of a work item, one after the other | what `runs` promises |
| `LedgerTransactions` | one transaction of a handler, statement by statement | `runtime-ledger.ts`, `db/events.ts`, `db/migrate.ts` |
| `AtomicLedger` | abstract: a call is one step, all of it or nothing | what the transactions promise |
| `GitHubOutbound` | synchronization of rows into issues, comments and check runs | `packages/github`, `github-app`, `github.ts`, `db/github.ts` |
| `GitHubInbound` | ingestion of webhooks | `reconciliation.ts`, `github-app`, `server.ts` 2339–2393 |
| `MemoryLifecycle` | candidates, promotion, invalidation, provenance | `packages/memory`, `db/memory.ts`, `server.ts` |
| `KnowledgeBase` | abstract: what is known, by whose review | what promotion and invalidation promise |
| `Identity` | accounts, sessions, companies, invitations, invitation mail | `auth.ts`, `db/auth.ts`, `mail.ts`, `server.ts` |
| `AccessControl` | abstract: who offers which role to whom | what invitations promise |
| `MC…` | the instances for TLC, one for each module that has runs | |
| `…Proofs` | the theorems, see [Proofs](#proofs) | |

### RunLifecycle

The variables are the tables (`workItem`, `approval`, `objective`, `runs`,
`claim`), the default idempotency keys already used (`usedKeys`), what each
process holds in memory (`request` for an operator request, `worker` for a
worker), and two counters that bound behaviours (`issued`, `crashes`).

- A handler is two actions. `BeginDispatch`, `BeginCancel`, … are its reads and
  guards; they leave the rows it is about to write, computed from what it read,
  in `request[c]`. `Commit` and `CommitDispatch` are its transaction: whole rows
  are written over whatever the tables hold by then, as the upserts do. A
  constraint that fails disables the commit, and `Rollback` is the throw (also
  a database error or a restart of the server).
- `BeginDispatch` sweeps expired leases of its scope at once, as the code does
  outside of its transaction, and plans either a dispatch or the `blocked` /
  `escalated` row of a withheld decision. Any scope may be given (the
  `scopeAllowlist` of the body) and any comparison of the signatures may result
  (`newInput`).
- A claim row is named after its item (`claim_<workItemId>`), so `claim` is a
  function of items, and `acquireClaimLease` needs the row to be new and the
  scope to have no active claim: the primary key and the partial unique index.
- A worker dequeues (`Dequeue`), reads its context (`ReadContext`), and settles
  in one of three ways (`settleRunWithExpiredClaim`, `scheduleRetry`,
  `settleRunWithTaskResult`) from the rows it read, not from the tables.
  `WorkerCrash` is its death, or an exception, which ends `runWorkerLoop`.
- Time is relative: `delay` of a run and `ttl` of a claim are ticks left, and
  `Tick` lowers all of them.

Abstractions: all reads of a handler are one step (they are separate queries; the
interleavings between them add older reads of the kind the gap between reads and
transaction already has); packets, signatures, repositories and titles are left
out; a result the validator rejects is an `invalid_output` result; a transaction
is one step, which `LedgerTransactions` is shown to implement (`AtomicLedger`). Two handlers with disjoint rows may overlap in the
database; the one thing they both touch is the roll-up of the objective, which
therefore is studied in `LedgerTransactions` and not here. The length of a lease
is assumed positive (`ConstantsAssumption`): the worker enforces it, dispatch
does not (`server.ts:3486`).

### LedgerTransactions

A handler reads the objective's status, then in one transaction persists the
snapshots in `Writes[h]` in the order of its source: `getNextSequence`,
`persistSnapshot`; then `syncObjectiveStatus`, then `Commit`. Read committed: a
statement sees committed rows and its own. The unique index on (aggregate,
stream_sequence) makes an insert of a number that an open transaction has
inserted wait (`WaitsFor`) and one that is committed fail (`UniqueViolation`);
rings of waits end with a `DeadlockVictim`. `Fail` is any other error. A `todo`
head is one aggregate, so claim events and the command log, which follow their
run and request, add no conflict of their own and are left out. No handler persists
one aggregate twice (`LedgerAssumption`), which is so of every handler in `server.ts`
and `worker.ts`.

`AtomicLedger` sees of this the rows, the statuses in the streams and the outcome of each
call: a call takes effect whole, in one step, with or without the roll-up of the
objective, or not at all.

### GitHubOutbound

The variables are the row of each aggregate (`version`, which is also its last
event), the tables (`linked`, `binding`, `delivery`, `alert`), GitHub itself
(`object`, in order of creation) and what each call of the synchronization holds
(`sync`). A *surface* is one aggregate and one GitHub object type.

- A call reads the latest events (`listDomainEvents`), later the rows and bindings
  (`PlanAccepted`, `PlanRefused`), which queues a delivery per surface; the order of the
  two reads is `eventsThenRows`, and a row may change in between. It then takes
  a token per repository (`requestGitHubInstallationAccessToken`), calls GitHub once
  per surface in the order of the plan (`Create`, `Update`, `FailClosed`), and posts
  its bindings, its deliveries and its alerts, in three statements.
- A call of GitHub may be refused, or be done and its answer lost; the record it
  answers with may differ from what was sent (drift). `Abort` is the death of either
  process, a refused token, or results that cannot be posted.
- A binding counts within its batch only, so a comment whose issue is in another
  repository fails closed.
- The primary key of a delivery omits the action, its delivery key does not
  (`DuplicateId`): which plans are refused for it, and what was queued before.

Abstractions: the reads of a plan and the upserts of its deliveries are one step, as
are the upserts of each kind of result; a text is the version of the row it was
rendered from, and drift is any that the detection can report, with the severities it
gives. `lost` and `overlap` remember that a call ended without posting, and that two
were in progress at once: several properties promise less then, as the code does.

### GitHubInbound

The variables are the payload of each webhook, its row (`inbound`), its alert
(`reconcile`), what has taken effect (`executed`) and under which keys (`causation`),
and what each handler holds (`ingest`). A webhook may arrive again at any time
(`getGitHubInboundEventByDeliveryId`); a handler records it
(`recordGitHubInboundWebhook`), opens an alert (`upsertReconcileAlert`), executes its
command (`executeAcceptedGitHubIntent`) and stores the outcome
(`upsertGitHubInboundEvent`), each in a statement of its own, and may die between any
two. `unalerted` remembers for which webhook a handler died before its alert.

A payload is the record of what `classifyGitHubInboundEvent` reads; the order in
which it looks for commands, mutations and linkage is kept, so the command in the text of
an edited or closed issue comes before the edit. Signatures are verified before the
ingestion and are left out.

### MemoryLifecycle

The variables are the sources (runs, approvals, events), the candidates, the
memories (named after their candidate, as their ids are derived), the provenance
edges, and what each request has read (`call`). `ReadSource`, `ReadCandidate` and
`ReadMemory` are the reads and guards of the three endpoints; `Extract`, `Promote`
and `Invalidate` their transactions, which write what was computed from the reads
over whatever is there; `Rollback` is an error or a death in between.

What a memory says is the status of the source it was extracted from. A run's work item
may require approval (`gated`): the success of a gated one is a convention, that of an
ungated one a constraint, both under the id of a convention. So the class that is hashed
into an id and the class of the row are two things (`Named`); an upsert rewrites what a
row says and keeps its class (`classKept`). A run that is settled may be settled again
with another outcome, and one that waits for its retry has a summary already
(`unfinished`); either may be extracted in between.

A promotion reads the memory it supersedes again inside its transaction and upserts it;
the two statements are one step here. Freshness, confidence and rank are left out, with
the retrieval that uses them.

`KnowledgeBase` sees of this which candidates there are and are promoted, which memories
are active or retired, and which promotions are in progress.

### Identity

An account is its email. `startBootstrap`, `startInvitation`, `startAccept` and
`startRevoke` are the reads and guards of their endpoints; the statements that follow
are one action each (`findActiveCompanyInvitationByEmail`, `getCompanyMembership`,
`createCompanyInvitation`, `sendInvitationEmail`, `sendMail`, …), because only the
acceptance writes in a transaction (`acceptCompanyInvitation`), and that one does not
look at the status again. An acceptance is by a session of the invited email, or by
whoever has the link, with the password of the account or a new one. `mishaps`
counts what goes wrong or runs out: dying requests, mails that fail, sessions and
invitations that end.

Passwords, tokens and the text of mails are left out: holding a link or a session is
being able to take the step.

`AccessControl` sees of this the memberships and what the invitations ever made offer,
whatever their status.

## Runs

All runs set `CHECK_DEADLOCK FALSE`: a system whose requests are spent and whose
runs are settled stops.

| run | question | bounds |
|---|---|---|
| `LifecycleOneItem` | do run, attempts, claim and item stay consistent when everything races on one item, are its runs an `AttemptHistory`, and, where no worker dies, is every queued run settled and does every lease end? | 1 item, budget 2, 2 operators, 4 requests, 2 workers, 1 crash |
| `LifecycleTwoItems` | are scopes owned exclusively, as `ScopeLease` says, and does an approval precede every run? | 2 items (one gated), 2 scopes, 2 operators, 3 requests, default and fresh keys |
| `LedgerStatements` | are streams sequences, do rows equal replays, do writers of one aggregate follow each other, is a call one step of `AtomicLedger`, does the objective follow its items without overlap, does every call end? | 2 items, 2 runs, 4 overlapping handlers |
| `GitHubOutbound` | do overlapping, dying and repeated calls keep bindings, objects, deliveries and health consistent? | the issue of an item and the comment of its run, 1 repository, 2 calls, 2 changes in all, so up to version 2 of an aggregate, 1 fault |
| `GitHubInbound` | is a redelivered webhook handled once, and rightly? | 1 webhook of 16 kinds of payload, 4 arrivals, 3 handlers, 2 of which may die |
| `MemoryLifecycle` | does knowledge keep its provenance and evidence, and change as `KnowledgeBase` says? | 1 run, 1 approval, 1 event (5 ids, 2 candidates at a time), 2 requests |
| `Identity` | who gets in, with which role (`AccessControl`), and what does the outbox say? | 3 emails, 1 company, 2 invitations, 2 requests, 1 session each, 1 mishap |
| `WorkerLost`, `RetryNotEligible`, `ObjectiveLeftBehind`, `ResyncIsAccepted`, `EditExecutes` | see [Findings](#findings) | the smallest that shows it |

Why the bounds are enough. One item reaches everything that happens between
operations on one item: a dispatch needs one request, a retry none, and the three
others are enough to cancel, complete and requeue around it; two processes of each
kind give every pair of overlapping read–write gaps, and a third adds no new kind
of overwrite because each write is a whole row. An item can take a claim once, so
a budget of 2 reaches the retry and the exhausted budget. Two items and two scopes
are what the partial unique index can tell apart. `ClaimTTL` and `Backoff` of one
tick make a lease expire before, during and after each of the other steps.
`PageLimit` (1000 in the code) is 8, which the run does not reach: it is there for the
proofs, which hold for every value of it.

One pair of surfaces is the smallest with a parent and a child, and the child's
repository may come from its own binding, its parent's or the only installation; two
calls give every overlap of two plans, and one fault suffices to lose an answer, a
batch or the results. A second version is what makes an event older, or newer, than the
row a text was rendered from; each aggregate may have it, or both have their first.
Three handlers are a webhook that arrives during and after another one's death; the
payloads are one of each kind the classification separates, commands that do not fit
their aggregate, and commands in the text of an issue that is closed and of a comment
that is deleted. The five ids are one of each class and two of the same source; two
candidates at a time (`MaxCandidates`) are one that supersedes and one that is
superseded, or the success and the failure of one run. A single reason to invalidate
suffices because it is only stored. Three emails are an owner, an admin and a guest; two invitations are two
overlapping ones of the same email, or one by an admin on the way while the other
changes who is an admin. The theorems hold for all values of these constants.

Properties, in the order of what they guard:

- `ActiveClaimHeldByActiveRun`, `ImplementsScopeLease`, `LeaseOutlivesBackoff`: leases. No order of cancel, complete, settle and retry,
  from rows however old, leaves the lease of a finished run; a scope changes its
  owner only through being free; a retry cannot lose its scope while it waits.
- `OneActiveRunPerItem`, `AttemptsWithinBudget`, `RetryFollowsTransientFailure`,
  `ImplementsAttemptHistory`: runs. None of these is checked by the code where runs are
  created; they hold because the insert of the claim fails. An item's runs are one
  attempt after the other, each queued and taken from the queue once.
- `CompletedOnlyBySuccess`, `RunningHasActiveRun`: the item's row against its runs,
  although both are overwritten from stale copies.
- `ApprovalPrecedesRun`: the gate at the approval.
- `AllRunsSettle`, `AllLeasesEnd`: progress.
- `StreamsAreSequences`, `ReplayGivesRow`, `OneOpenWriterPerStream`,
  `EveryCallEnds`: the ledger. `ImplementsAtomicLedger`: overlapping handlers do what
  single steps would, in the order of their commits, with a roll-up that agrees with the
  call's own items but may miss another call's; `RollUpHoldsWithoutOverlap`: it misses
  them only if two calls overlap.
- `BindingsNameTheirObject`, `CommentsUnderTheirIssue`: no call writes to the issue or
  comment of another aggregate, or under the wrong issue, whatever overlaps or dies.
- `OneObjectPerSurface`: as long as calls neither overlap nor end without posting,
  repeating them creates nothing twice. `AppliedMeansShown`: a delivery called applied
  was written to GitHub, in the version of the event it is stored for or a later one,
  whatever changes between the read of the events and that of the rows. `FailureShowsInHealth`: what failed
  leaves the health drifted.
- `IntentTakesEffectOnce`, `AppliedIntentTookEffect`, `OnlyFittingIntentsExecute`:
  commands from GitHub. The last one: a command takes effect only if the payload asks for
  it and it fits the linked aggregate; that the payload is no edit is not part of it,
  since edits do execute (`EditExecutes`). `ConflictIsAlerted`: a manual change that contradicts the
  runtime is not only recorded. `SettledForGood`: a later delivery changes nothing.
- `KnowledgeHasProvenance`, `ClassFitsEvidence`, `ImplementsKnowledgeBase`: knowledge,
  although each request overwrites rows it read earlier. What a row says fits its class
  although the run may have been settled with another outcome since, except that a run
  waiting for its retry counts as a failure (`TooSoon`, see below). No review is undone, and a
  memory becomes active, again too, only by a review in progress.
- `MembersWereInvited`, `ImplementsAccessControl`: who is in a company, and as what. Only
  the owner offers to be an admin, nobody offers to be an owner, and the owner is never
  demoted.
  `OutboxIsTruthful`: no mail is called sent that was not, and none leaves unnoticed.

Every one of them is violated by at least one of the mutants in `PROJECT.json`: a
dropped constraint, a missing release, an early return without commit, and so on.

## Fairness

`RunLifecycle!FairSpec` has weak fairness of `Tick` (time passes) and of each
worker's step: `runWorkerLoop` polls for ever, the tool calls of a run have
timeouts, and the queries of a worker return. Nothing is assumed of operators, and a
worker's crash is possible only where `MaxCrashes` allows it. `AllRunsSettle` and
`AllLeasesEnd` speak of the behaviours in which no worker dies (`NobodyDies`), because
the code promises nothing after a death (`WorkerLost`). A worker's
transaction that a deadlock or any other error aborts ends `runWorkerLoop`, so it
counts as a crash.

`LedgerTransactions!FairSpec` has weak fairness of each handler's statements: a
lock wait ends when its holder's transaction does, and PostgreSQL detects
deadlocks. Nothing is assumed of `Fail`.

The other modules have safety properties only: nothing makes a caller repeat a
synchronization or a promotion, GitHub does not deliver again by itself once it has an
answer, and a mail that failed is not sent again.

## Proofs

Every invariant, action property and refinement that a run checks is proved as well, for
every value of the constants that satisfies the one named assumption of its module.

| module | theorem | states |
|---|---|---|
| `RunLifecycleProofs` | `TypeCorrect` | `Spec => []TypeOK` |
| | `LeaseSafety` | `Spec => [](OneActiveClaimPerScope /\ ActiveClaimHeldByActiveRun)` |
| | `ClaimsHeld` | `Spec => []ActiveClaimHeldByActiveRun` |
| | `LeaseRefinement` | `Spec => ImplementsScopeLease` |
| `RunExclusionProofs` | `RunExclusion` | `Spec => []OneActiveRunPerItem` |
| | `AttemptNumbering` | `Spec => []AttemptsWithinBudget` |
| | `ApprovalBeforeRun` | `Spec => []ApprovalPrecedesRun` |
| | `DequeuedOnce` | `Spec => LeavesQueueOnce` |
| `RunOutcomeProofs` | `RetryAfterFailure` | `Spec => RetryFollowsTransientFailure` |
| | `RetryKeepsLease` | `Spec => []LeaseOutlivesBackoff` |
| | `CompletedBySuccess` | `Spec => []CompletedOnlyBySuccess` |
| | `RunningIsRunning` | `Spec => []RunningHasActiveRun` |
| | `AttemptRefinement` | `Spec => ImplementsAttemptHistory` |
| `LedgerProofs` | `LedgerTypes` | `Spec => []TypeOK` |
| | `StreamNumbering` | `Spec => []StreamsAreSequences` |
| | `ReplayIsRow` | `Spec => []ReplayGivesRow` |
| | `WritersTakeTurns` | `Spec => []OneOpenWriterPerStream` |
| | `LedgerRefinement` | `Spec => ImplementsAtomicLedger` |
| | `RollUpWithoutOverlap` | `Spec => RollUpHoldsWithoutOverlap` |
| `GitHubOutboundProofs` | `OutboundTypeCorrect` | `OutboundSpec => []OutboundTypeOK` |
| | `BindingsFit` | `OutboundSpec => []BindingsNameTheirObject` |
| | `CommentsFit` | `OutboundSpec => []CommentsUnderTheirIssue` |
| | `OneObject` | `OutboundSpec => []OneObjectPerSurface` |
| | `AppliedIsShown` | `OutboundSpec => []AppliedMeansShown` |
| | `FailureShows` | `OutboundSpec => []FailureShowsInHealth` |
| `GitHubInboundProofs` | `InboundTypeCorrect` | `InboundSpec => []InboundTypeOK` |
| | `EffectOnce` | `InboundSpec => []IntentTakesEffectOnce` |
| | `AppliedIsTrue` | `InboundSpec => []AppliedIntentTookEffect` |
| | `OnlyFittingIntents` | `InboundSpec => []OnlyFittingIntentsExecute` |
| | `ConflictsAlerted` | `InboundSpec => []ConflictIsAlerted` |
| | `SettledRows` | `InboundSpec => SettledForGood` |
| `MemoryProofs` | `MemoryTypeCorrect` | `MemorySpec => []MemoryTypeOK` |
| | `NoOrphanedKnowledge` | `MemorySpec => []KnowledgeHasProvenance` |
| | `EvidenceFits` | `MemorySpec => []ClassFitsEvidence` |
| | `ReviewKept` | `MemorySpec => ReviewIsKept` |
| | `RevivedByReview` | `MemorySpec => RevivedOnlyByReview` |
| | `KnowledgeRefinement` | `MemorySpec => ImplementsKnowledgeBase` |
| `IdentityProofs` | `IdentityTypeCorrect` | `IdentitySpec => []IdentityTypeOK` |
| | `OwnersMakeAdmins` | `IdentitySpec => []OnlyOwnersMakeAdmins` |
| | `MembersInvited` | `IdentitySpec => []MembersWereInvited` |
| | `OutboxTrue` | `IdentitySpec => []OutboxIsTruthful` |
| | `AccessRefinement` | `IdentitySpec => ImplementsAccessControl` |

`OneActiveClaimPerScope`, `LeavesQueueOnce`, `ReviewIsKept`, `RevivedOnlyByReview` and
`OnlyOwnersMakeAdmins` are proved but not checked by a run of their own: the abstract
specifications the runs check say the same.

The assumptions are `ConstantsAssumption` (`RunLifecycle`), `LedgerAssumption`,
`OutboundAssumption`, `InboundAssumption`, `MemoryAssumption` and
`IdentityAssumption`: the kinds of the constants, that ids of different kinds differ,
that the length of a lease is positive, and that a plan puts an issue before the
comments on it. The runs evaluate all of them.

**Types.** `TypeOK` is not inductive: `runs[r]` is read for run ids that live in
memory. `TypeInv` adds `RunReferencesExist`: the run of every planned completion and
of every worker is a row.

**Leases.** `LeaseInv` adds to `TypeInv` the two lease invariants, which need each
other: a retry hands the active claim to the new run, which is fine because the
claim is its item's; a release by run ends the one claim of that run's item, because
holders are of their own items. The refinement follows from `LeaseInv`: acquiring
needs a free scope, and a release empties one scope because it ends at most one
claim.

**Runs.** No handler checks that an item has no other active run in the transaction
that inserts one. `RunInv` holds why there is none: an item without a claim row has
no run (`RunsHaveClaims`), so the run of a dispatch, whose claim row must be new, is
the first; the run a worker holds is the only one of its item that may be active
(`HeldRunsExclusive`), and no other worker holds one of that item
(`OneWorkerPerItem`), so the run of a retry replaces it. `StepKinds` reduces the
steps to four kinds: a dispatch, a dequeue, a retry, and all that create no run.

**Attempts.** `AttemptInv` adds that an active or held run is the last of its item
(`LatestAttempts`), which numbers a retry; and that a dispatch planned for an item
that still has no run plans attempt 1 within the budget (`PlannedFirst`), which needs
that rows naming a latest run, in the table or in a pending transaction, belong to
items that have runs (`LatestRunsExist`).

**Attempts as a history.** The refinement maps the runs of an item, by attempt, to the
history of its statuses; `Numbered` says that this is a sequence, each number being one run.
A dequeue takes the latest attempt because it is the active one (`LatestAttempts`); a
retry appends because the run the worker holds is the latest and no longer queued; and a
settlement overwrites the result of one attempt, which may be an earlier one, but by
`PlannedFit` and `HeldRunsExclusive` never makes it queued or running again.

**Approvals.** `ApprovalInv` adds that a dispatch of a gated item is planned only
after the approval was decided (`PlannedAllowed`); a decision changes but never
becomes pending again, and a retry's item already has a run.

**Outcomes.** Rows are overwritten from stale copies, and a settlement may overwrite the
outcome of a run. `OutcomeInv` adds to `RunInv` why the row of an item still fits its
runs: whoever gives a run its status writes the row of its item in the same
transaction, and what is planned fits (`PlannedFit`: never running, completed only
with the success it stores, and the item of the run is among the rows); the latest
run of a row, in the table or in a worker's memory, is one of the item
(`LatestRunsOwn`, `ContextsOwn`). `LeaseTimeInv` is `LeaseInv` with
`LeaseOutlivesBackoff`: a retry sets both times at once, and time lowers them together.

**Ledger.** A number is read before it is inserted and nothing is locked. `LedgerInv`
says of every number a handler holds that it is at most the next of its stream
(`NumbersRead`), since a page can only be too short and a stream only grows; of every
inserted event that its number is at most the next and not committed, hence the next
(`InsertedNext`); and that no two open transactions insert the same key
(`InsertedOnce`, the unique index). So two open writers of one stream would have
inserted the same number (`WritersTakeTurns`), and a commit appends exactly the next
one (`StreamNumbering`), whatever `PageLimit` is: a short page makes a write fail,
never a stream wrong.

A call is one step of `AtomicLedger`, the step of its commit, because of `Accounted`: at
every statement, what a handler has inserted and what it has still to do are the writes
of its handler, and its roll-up if it made one. The commit then makes all of them visible
at once; each event is the next of its stream (`InsertedNext`) and gives the row its
status, because the row is written after the event and by nobody else meanwhile
(`WritersTakeTurns`). That no handler persists an aggregate twice makes the event of the
handler on it unique. The roll-up agrees with the call's own items since a transaction
sees its own writes; what it does not see, another call's, is `ObjectiveLeftBehind`.
`RollUpInv` shows the reverse: as long as no two calls are open, the status a handler
compares with is the row's (`RollUpFits`) and what it derives from is what it commits,
so after every commit the objective is what its items make it.

**Outbound.** `Base` has the types, that what is known of a surface is what was done
with it (`ResultsFit`) or is still to do (`TodoFits`), and that bindings stored and
known name objects of their surface: each is made of the object just written, and an
update keeps the surface of an object. As long as calls do not overlap there is one
(`Alone`); it knows every binding that is stored (`KnownAsStored`), and every object is
bound or held by it (`ObjectKnown`), so it creates only what is not there.
`Versioned`, `Written` and `Shown` follow the versions: events are read before rows,
and no object is newer than the rows the only call has read. `FailedAlerted` holds the
alert of each failed delivery.

**Inbound.** The key of a command is in the ledger exactly when the command took effect
(`KeyIsEffect`), and a handler about to store *applied* has seen that (`HandlersFit`).

**Memory.** What a request has read stays true enough (`CallsFit`): candidates and edges
are never removed, no candidate is quarantined by any endpoint (`CandidatesFit`), and a
row fits whenever it was read. `RowsFit` says of every row, stored or held, that its id
bounds both its class and its evidence: the id of a convention carries only successes,
as a convention or a constraint; that of a failure signature only failures and runs that
are not settled; and so on. An upsert keeps the class and takes the evidence of another
row of the same id, so the result fits again (`UpsertFits`), and what an id carries
supports the class unless the row is `TooSoon` (`RowsAreSupported`). For the refinement the same facts say that a promotion approves a candidate that is there, that
what it supersedes is another memory that is still there, and that a row written back
stale is written retired, which is what `KnowledgeBase` allows of a memory that is known.

**Identity.** An acceptance overwrites whatever role there is, so an owner stays one only
because no invitation is addressed to the owner of its company (`InvitationsFit`). That
is decided statements before the row is inserted and still holds then (`InvitingFits`):
a company has its owner from the transaction that creates it (`FounderIsOwner`).
`AccessRefinement` rests on these and on `InvitersBelong`: who was let in when the request
read the memberships still is when its invitation is stored, since no step removes a
member. An acceptance that overtakes a revocation or an expiry takes up an offer that
was made; one that follows another changes nothing the offer did not.
`MailFits` says that a mail leaves only from a request whose row is already queued.

Model-checked only: `AllRunsSettle`, `AllLeasesEnd` and `EveryCallEnds`, liveness under
fairness, which the prover does not reach.

## Findings

| run | what the code does |
|---|---|
| `RetryNotEligible` | an item takes a claim once in its life: a dispatch after any earlier run throws on the claim row that is left (`server.ts:3479`) |
| `ObjectiveLeftBehind` | two overlapping settlements leave an objective in progress with all items completed (`runtime-ledger.ts:360`) |
| `WorkerLost` | after a worker's death its item stays running; leases are swept only by a dispatch of another item on the same scope, and the sweep moves no item (`worker.ts:804`) |
| `EditExecutes` | the slash command at the start of an issue that is edited or closed, or of a comment that is deleted, is executed, and the edit is not reported (`reconciliation.ts:250`), although `docs/github-backbone/inbound-reconciliation-and-conflict-handling.md:25-31` says that edits and a manual close do not change kernel truth |
| `ResyncIsAccepted` | a synchronization with no new event since the one before plans an update under the delivery id of the creation; the primary key refuses it and with it the whole plan (`db/github.ts:464`) |

Seen in the source and in the models, each visible in one function and given no run:

- after 1000 events of an aggregate the next number is one that exists, and every later
  write of it fails (`runtime-ledger.ts:50`);
- a settlement overwrites the outcome an operator gave the run (`worker.ts:378`);
- a run executes while its claim is expired (`server.ts:3305`), and a dispatch that read
  the approval earlier queues a run after the denial is committed (`server.ts:3217`);
- `dequeueQueuedRun` appends no event; grant and deny accept decided approvals; a gated
  item is never retried automatically, because the worker decides without the approval;
- a command repeated with its default idempotency key is answered with a server error;
- two bootstraps that overlap under two emails both succeed (`server.ts:905`);
- a webhook whose handler died between its effect and its record ends as rejected
  (`server.ts:2380`), and a conflict whose handler died before its alert has none
  (`github.ts:302`);
- a run that waits for its retry has the summary of the failed attempt already
  (`worker.ts:460`), so an extraction before it settles stores a failure signature, though
  `docs/memory/memory-extraction-from-runs-artifacts-and-github-events.md:30` counts
  one-off transient errors among what is no candidate;
- promoting a candidate again revives the memory that was retired (`server.ts:4725`);
- nothing ever closes a drift alert, so a company that drifted once stays drifted
  (`drift.ts:338`).

## What is not modelled

- Memory retrieval and evaluation: pure scoring of rows that are read; what they
  write are audit rows, which only a list endpoint reads.
- The beta enrollment of a company: one transaction on one row.
- Kernel replay and its comparator: only tests and the golden traces replay. That the
  streams it would replay are sequences, and give the rows, is proved.
- The golden-trace harness, smoke scripts, release readiness, user interface, SDK,
  deployment: tests, pure evaluations or no program logic of the service.
- The executors: their effects are outside the process, and a run may have any of the
  results they lead to.
- Timeline, metrics and health pages: read-only; the derivation of the projection health
  is in `GitHubOutbound`, without its page limits (200 rows).
- Authorization of the runtime endpoints (`requireCompanyAccess` returns before any
  change); the roles themselves are in `Identity`.
- Liveness of a system whose workers die: nothing is promised (`WorkerLost`).

## Plan

Done, in this order: `RunLifecycle` with `ScopeLease`, `LedgerTransactions`,
`GitHubOutbound`, `GitHubInbound`, `MemoryLifecycle`, `Identity`, the proofs of every
invariant and action property of each, and the abstract specifications `AtomicLedger`,
`AttemptHistory`, `AccessControl` and `KnowledgeBase` with the proofs that they are
implemented.

What could follow:

1. An abstract specification of what `GitHubInbound` promises of a webhook (offered,
   taken effect at most once, settled), and of what `GitHubOutbound` promises of a
   surface, each with its refinement.
2. The safety half of `EveryCallEnds`: that a handler that cannot move is on a ring of
   waits whose victim the database chooses.
3. `ReplayOrder`: the comparator of the replay order and `replayAggregate`, as recursive
   functions against a reference definition, once the service itself replays.
4. Retrieval of memory, once what it returns changes state or is promised a property.
