---------------------------- MODULE RunLifecycle ----------------------------
(***************************************************************************)
(* The run lifecycle of the control plane: work items, runs, claim leases, *)
(* approvals and the objective status derived from them, as changed by the *)
(* operator endpoints of server.ts and by the worker loop of worker.ts.    *)
(*                                                                         *)
(* Every handler first reads rows with separate awaited queries on the     *)
(* pool and then, later, writes rows derived from what it read in one      *)
(* database transaction.  Nothing locks or re-reads the rows in between.   *)
(* A handler is therefore two actions: Begin... reads and leaves its       *)
(* pending writes in request[c]; Commit performs the transaction.  A       *)
(* transaction is one step: the unique (aggregate, stream_sequence) index  *)
(* of the ledger makes two transactions on one row fail or follow each     *)
(* other.  All reads of one handler are one step.                          *)
(*                                                                         *)
(* Time is relative: a run carries the ticks until it is available, a      *)
(* claim the ticks until its lease expires, and Tick lowers them all.      *)
(***************************************************************************)
EXTENDS Integers, Sequences, FiniteSets, Orchestration

CONSTANTS
  Objectives,     \* the objectives of one company
  WorkItems,      \* their work items
  Scopes,         \* scope references a claim lease can protect
  Operators,      \* concurrent requests to the operator endpoints
  Workers,        \* worker processes
  ObjectiveOf,    \* the objective a work item belongs to
  ScopeOf,        \* the scopeRef of a work item
  Gated,          \* the work items whose requiresApproval is set
  AttemptBudget,  \* the attemptBudget of a work item
  ClaimTTL,       \* ticks a claim lease lasts
  Backoff,        \* the RETRY_BACKOFF_MS table, in ticks
  KeyModes,       \* {"default"}: no x-idempotency-key header, {"header"}: a fresh one
  MaxRequests,    \* bound on the operator requests of a behaviour
  MaxCrashes      \* bound on the worker crashes of a behaviour

ASSUME ConstantsAssumption ==
  /\ ObjectiveOf \in [WorkItems -> Objectives]
  /\ ScopeOf \in [WorkItems -> Scopes]
  /\ Gated \subseteq WorkItems
  /\ AttemptBudget \in [WorkItems -> Nat]
  /\ ClaimTTL \in Nat \ {0}
  /\ Backoff \in Seq(Nat) /\ Backoff # << >>
  /\ KeyModes \subseteq {"default", "header"}
  /\ MaxRequests \in Nat
  /\ MaxCrashes \in Nat

VARIABLES
  workItem,   \* work_items: status, blocking_reason and latest_run_id
  approval,   \* approvals: the status of a gated work item's approval
  objective,  \* objectives: status
  runs,       \* runs, in order of creation; a run id is an index
  claim,      \* claim_leases: claim_id is claim_<workItemId>, one row per item
  usedKeys,   \* default idempotency keys that reached ledger_events
  request,    \* the transaction each operator request is about to run
  worker,     \* what each worker holds in memory
  issued,     \* operator requests so far
  crashes     \* worker crashes so far

vars == <<workItem, approval, objective, runs, claim, usedKeys, request,
          worker, issued, crashes>>

-----------------------------------------------------------------------------
(* Rows. *)

Reason == {"none", "approval_required", "approval_denied", "scope_conflict",
           "attempt_budget_exhausted", "no_new_causal_input",
           "retry_available", "claim_expired", "cancelled_by_operator",
           "invalid_output", "permanent_failure"}
\* What deriveTaskResultFromEffects may make of what the tools did: any of the five.
TaskResult == {"valid_success", "invalid_output", "transient_failure",
               "permanent_failure", "cancelled"}
ActiveStatus == {"queued", "running"}
ApprovalStatus == {"pending", "granted", "denied"}
ClaimStatus == {"none", "active", "expired", "released"}

ItemRow == [status : ItemStatus, reason : Reason, latestRun : Nat]
RunRow == [item : WorkItems, attempt : Nat, status : ActiveStatus \cup TaskResult,
           delay : Nat]
ClaimRow == [status : ClaimStatus, scope : Scopes, holder : Nat, ttl : Nat]
Decision == {"dispatched", "withheld_missing_approval", "withheld_scope_conflict",
             "withheld_retry_budget_exhausted", "escalated"}
Command == {"work-item:dispatch", "work-item:cancel", "work-item:requeue",
            "run:complete", "approval:grant", "approval:deny"}
Key == [command : Command, item : WorkItems, n : Nat,
        detail : {""} \cup Decision \cup TaskResult]

\* A pending transaction leaves the rows marked Keep alone.
Keep == [status |-> "keep"]
NoRow == [w \in WorkItems |-> Keep]
RowFor(w, row) == [NoRow EXCEPT ![w] = row]
NoDecision == [w \in Gated |-> "keep"]

UpdateRequest ==
  [op : {"update"}, objective : Objectives, seen : ObjectiveStatus,
   rows : [WorkItems -> ItemRow \cup {Keep}],
   approvals : [Gated -> {"granted", "denied", "keep"}],
   run : Nat, outcome : TaskResult, keys : SUBSET Key]
DispatchRequest ==
  [op : {"dispatch"}, item : WorkItems, scope : Scopes, attempt : Nat,
   seen : ObjectiveStatus, keys : SUBSET Key]
NoRequest == [op |-> "none"]

IdleWorker == [pc |-> "idle", run |-> 0]
WorkerState ==
  {IdleWorker}
    \cup [pc : {"claimed"}, run : Nat \ {0}]
    \cup [pc : {"executing", "expired"}, run : Nat \ {0}, row : ItemRow,
          seen : ObjectiveStatus]

-----------------------------------------------------------------------------
(* Decisions and projections shared by the handlers. *)

ItemsOf(o) == {w \in WorkItems : ObjectiveOf[w] = o}
RunIds == 1 .. Len(runs)
RunsOf(w) == {r \in RunIds : runs[r].item = w}
IsActive(r) == r \in RunIds /\ runs[r].status \in ActiveStatus

\* Dispatch falls back on the highest attempt when latest_run_id is null.
LatestRun(w) ==
  IF workItem[w].latestRun # 0 \/ RunsOf(w) = {}
  THEN workItem[w].latestRun
  ELSE CHOOSE r \in RunsOf(w) :
         \A q \in RunsOf(w) : runs[q].attempt <= runs[r].attempt

\* The roll-up of the item rows of an objective.
ObjectiveStatusFor(o, items) ==
  deriveObjectiveStatus({items[w].status : w \in ItemsOf(o)})

\* The status found in the same transaction is compared with the status the
\* handler read before it; the row is written only when those two differ.
syncObjectiveStatus(o, seen, items) ==
  LET next == ObjectiveStatusFor(o, items)
  IN  [objective EXCEPT ![o] = IF next = seen THEN @ ELSE next]

\* The status of a gated item that no grant allows to run.
ItemAwaiting(w, row) ==
  [row EXCEPT !.status = "blocked",
              !.reason = IF approval[w] = "denied" THEN "approval_denied"
                         ELSE "approval_required"]
ItemReady(row) == [row EXCEPT !.status = "ready", !.reason = "none"]
ReadyOrAwaiting(w) ==
  IF w \in Gated /\ approval[w] # "granted" THEN ItemAwaiting(w, workItem[w])
  ELSE ItemReady(workItem[w])

isRetryBudgetExhausted(w, consumed) == consumed >= AttemptBudget[w]

\* Mutant: dispatch does not look at the approval.
DecisionIgnoringApproval(w, granted, conflict, consumed, newInput) ==
  IF conflict THEN "withheld_scope_conflict"
  ELSE IF isRetryBudgetExhausted(w, consumed)
       THEN "withheld_retry_budget_exhausted"
  ELSE IF ~newInput THEN "escalated"
  ELSE "dispatched"
createDispatchDecision(w, granted, conflict, consumed, newInput) ==
  IF w \in Gated /\ ~granted THEN "withheld_missing_approval"
  ELSE IF conflict THEN "withheld_scope_conflict"
  ELSE IF isRetryBudgetExhausted(w, consumed)
       THEN "withheld_retry_budget_exhausted"
  ELSE IF ~newInput THEN "escalated"
  ELSE "dispatched"

WithheldReason(decision) ==
  CASE decision = "withheld_missing_approval" -> "approval_required"
    [] decision = "withheld_scope_conflict" -> "scope_conflict"
    [] decision = "withheld_retry_budget_exhausted" -> "attempt_budget_exhausted"
    [] decision = "escalated" -> "no_new_causal_input"

\* Mutants: the blocking reason of a failure is the name of its result, whichever it
\* is; a cancelled result leaves the row of the item as it is.
ResultAsReason(row, result, exhausted) ==
  LET To(status, reason) == [row EXCEPT !.status = status, !.reason = reason]
  IN  CASE result = "valid_success" -> To("completed", "none")
        [] result = "transient_failure" /\ ~exhausted -> To("ready", "retry_available")
        [] result = "cancelled" -> To("cancelled", "cancelled_by_operator")
        [] OTHER -> To("blocked", result)
ResultWithoutCancelled(row, result, exhausted) ==
  LET To(status, reason) == [row EXCEPT !.status = status, !.reason = reason]
  IN  CASE result = "valid_success" -> To("completed", "none")
        [] result = "transient_failure" ->
             IF exhausted THEN To("blocked", "attempt_budget_exhausted")
             ELSE To("ready", "retry_available")
        [] result = "cancelled" -> row
        [] result = "invalid_output" -> To("blocked", "invalid_output")
        [] result = "permanent_failure" -> To("blocked", "permanent_failure")
mapTaskResultToWorkItemStatus(row, result, exhausted) ==
  LET To(status, reason) == [row EXCEPT !.status = status, !.reason = reason]
  IN  CASE result = "valid_success" -> To("completed", "none")
        [] result = "transient_failure" ->
             IF exhausted THEN To("blocked", "attempt_budget_exhausted")
             ELSE To("ready", "retry_available")
        [] result = "cancelled" -> To("cancelled", "cancelled_by_operator")
        [] result = "invalid_output" -> To("blocked", "invalid_output")
        [] result = "permanent_failure" -> To("blocked", "permanent_failure")

selectRetryBackoff(attempt) ==
  Backoff[IF attempt < 1 THEN 1
          ELSE IF attempt > Len(Backoff) THEN Len(Backoff)
          ELSE attempt]

\* Mutant: the lease of a retry starts when the retry is scheduled.
RetryLeaseFromNow(backoff) == ClaimTTL
\* The lease of a retry starts when its backoff is over.
RetryLease(backoff) == backoff + ClaimTTL

\* Tables after a write.
ItemsWith(rows) ==
  [w \in WorkItems |-> IF rows[w] = Keep THEN workItem[w] ELSE rows[w]]
\* Mutant: upsertRun leaves a settled run alone, the item is still written.
RunsWithUnlessSettled(r, status) ==
  IF ~IsActive(r) THEN runs ELSE [runs EXCEPT ![r].status = status]
RunsWith(r, status) == IF r = 0 THEN runs ELSE [runs EXCEPT ![r].status = status]
\* Mutant: the lease of the run is not released.
ReleaseNothing(r, how) == claim
releaseClaimLeaseByRunId(r, how) ==
  [w \in WorkItems |->
     IF claim[w].status = "active" /\ claim[w].holder = r
     THEN [claim[w] EXCEPT !.status = how, !.ttl = 0]
     ELSE claim[w]]
expireActiveClaimLeases(s) ==
  [w \in WorkItems |->
     IF claim[w].status = "active" /\ claim[w].scope = s /\ claim[w].ttl = 0
     THEN [claim[w] EXCEPT !.status = "expired"]
     ELSE claim[w]]

-----------------------------------------------------------------------------
(* The state objective creation leaves behind: gated items blocked on a     *)
(* pending approval, the others ready.                                      *)

InitialItem(w) ==
  IF w \in Gated
  THEN [status |-> "blocked", reason |-> "approval_required", latestRun |-> 0]
  ELSE [status |-> "ready", reason |-> "none", latestRun |-> 0]

Init ==
  /\ workItem = [w \in WorkItems |-> InitialItem(w)]
  /\ approval = [w \in Gated |-> "pending"]
  /\ objective = [o \in Objectives |->
                    ObjectiveStatusFor(o, [w \in WorkItems |-> InitialItem(w)])]
  /\ runs = << >>
  /\ claim = [w \in WorkItems |-> [status |-> "none", scope |-> ScopeOf[w],
                                   holder |-> 0, ttl |-> 0]]
  /\ usedKeys = {}
  /\ request = [c \in Operators |-> NoRequest]
  /\ worker = [k \in Workers |-> IdleWorker]
  /\ issued = 0
  /\ crashes = 0

-----------------------------------------------------------------------------
(* Operator endpoints: the reads of a handler, up to its transaction. *)

\* Operator c has no transaction pending and this request is within the bound.
Arrives(c) ==
  /\ request[c].op = "none"
  /\ issued < MaxRequests
  /\ issued' = issued + 1
KeysFor(mode, command, w, n, detail) ==
  IF mode = "default"
  THEN {[command |-> command, item |-> w, n |-> n, detail |-> detail]}
  ELSE {}

\* The transaction of a handler that writes item rows rows, settles run r
\* (0: none) with outcome and sets the approvals in decided.
Plan(c, o, rows, r, outcome, decided, keys) ==
  request' = [request EXCEPT ![c] =
    [op |-> "update", objective |-> o, seen |-> objective[o], rows |-> rows,
     approvals |-> decided, run |-> r, outcome |-> outcome, keys |-> keys]]

BeginDispatch(c, w, s, newInput, mode) ==
  LET latest == LatestRun(w)
      consumed == IF IF latest = 0 THEN FALSE
                     ELSE runs[latest].status = "transient_failure"
                  THEN runs[latest].attempt
                  ELSE Cardinality(RunsOf(w))
      swept == expireActiveClaimLeases(s)
      conflict == \E v \in WorkItems \ {w} :
                    swept[v].status = "active" /\ swept[v].scope = s
      decision == createDispatchDecision(w, w \in Gated /\ approval[w] = "granted",
                    conflict, consumed, latest = 0 \/ newInput)
      attempt == Cardinality(RunsOf(w)) + 1
      withheld == [workItem[w] EXCEPT
                     !.status = IF decision = "escalated" THEN "escalated"
                                ELSE "blocked",
                     !.reason = WithheldReason(decision)]
  IN  /\ Arrives(c)
      /\ workItem[w].status \notin {"completed", "cancelled"}
      /\ ~IsActive(latest)
      /\ claim' = swept
      /\ IF decision = "dispatched"
         THEN request' = [request EXCEPT ![c] =
                [op |-> "dispatch", item |-> w, scope |-> s,
                 attempt |-> attempt, seen |-> objective[ObjectiveOf[w]],
                 keys |-> KeysFor(mode, "work-item:dispatch", w, attempt, "")]]
         ELSE Plan(c, ObjectiveOf[w], RowFor(w, withheld), 0, "cancelled", NoDecision,
                   KeysFor(mode, "work-item:dispatch", w, 0, decision))
      /\ UNCHANGED <<workItem, approval, objective, runs, usedKeys, worker, crashes>>

BeginCancel(c, w, mode) ==
  LET latest == workItem[w].latestRun
  IN  /\ Arrives(c)
      /\ workItem[w].status # "completed"
      /\ Plan(c, ObjectiveOf[w],
              RowFor(w, [workItem[w] EXCEPT !.status = "cancelled",
                                            !.reason = "cancelled_by_operator"]),
              IF IsActive(latest) THEN latest ELSE 0, "cancelled", NoDecision,
              KeysFor(mode, "work-item:cancel", w, 0, ""))
      /\ UNCHANGED <<workItem, approval, objective, runs, claim, usedKeys, worker,
                     crashes>>

BeginRequeue(c, w, mode) ==
  LET attempts == Cardinality(RunsOf(w))
  IN  /\ Arrives(c)
      /\ workItem[w].status \notin {"running", "completed"}
      /\ attempts < AttemptBudget[w]
      /\ Plan(c, ObjectiveOf[w], RowFor(w, ReadyOrAwaiting(w)), 0, "cancelled",
              NoDecision, KeysFor(mode, "work-item:requeue", w, attempts + 1, ""))
      /\ UNCHANGED <<workItem, approval, objective, runs, claim, usedKeys, worker,
                     crashes>>

BeginComplete(c, r, result, mode) ==
  LET w == runs[r].item
      exhausted == isRetryBudgetExhausted(w, Cardinality(RunsOf(w)))
  IN  /\ Arrives(c)
      /\ IsActive(r)
      /\ Plan(c, ObjectiveOf[w],
              RowFor(w, mapTaskResultToWorkItemStatus(workItem[w], result, exhausted)),
              r, result, NoDecision, KeysFor(mode, "run:complete", w, r, result))
      /\ UNCHANGED <<workItem, approval, objective, runs, claim, usedKeys, worker,
                     crashes>>

BeginGrant(c, w, mode) ==
  /\ Arrives(c)
  /\ Plan(c, ObjectiveOf[w],
          IF workItem[w].status \in {"running", "completed", "cancelled"}
          THEN NoRow ELSE RowFor(w, ItemReady(workItem[w])),
          0, "cancelled", [NoDecision EXCEPT ![w] = "granted"],
          KeysFor(mode, "approval:grant", w, 0, ""))
  /\ UNCHANGED <<workItem, approval, objective, runs, claim, usedKeys, worker,
                 crashes>>

BeginDeny(c, w, mode) ==
  /\ Arrives(c)
  /\ workItem[w].status \notin {"running", "completed", "cancelled"}
  /\ Plan(c, ObjectiveOf[w],
          RowFor(w, [workItem[w] EXCEPT !.status = "blocked",
                                        !.reason = "approval_denied"]),
          0, "cancelled", [NoDecision EXCEPT ![w] = "denied"],
          KeysFor(mode, "approval:deny", w, 0, ""))
  /\ UNCHANGED <<workItem, approval, objective, runs, claim, usedKeys, worker,
                 crashes>>

\* The default key of a replan holds the time of the request, so it is fresh.
BeginReplan(c, o) ==
  LET changed == {w \in ItemsOf(o) :
                    /\ workItem[w].status \notin {"running", "completed", "cancelled"}
                    /\ workItem[w] # ReadyOrAwaiting(w)}
  IN  /\ Arrives(c)
      /\ changed # {}
      /\ Plan(c, o, [w \in WorkItems |-> IF w \in changed THEN ReadyOrAwaiting(w) ELSE Keep],
              0, "cancelled", NoDecision, {})
      /\ UNCHANGED <<workItem, approval, objective, runs, claim, usedKeys, worker,
                     crashes>>

(* Operator endpoints: the transaction. *)

Commit(c) ==
  LET q == request[c]
      items == ItemsWith(q.rows)
  IN  /\ q.op = "update"
      /\ q.keys \cap usedKeys = {}
      /\ workItem' = items
      /\ approval' = [w \in Gated |-> IF q.approvals[w] = "keep"
                                      THEN approval[w] ELSE q.approvals[w]]
      /\ objective' = syncObjectiveStatus(q.objective, q.seen, items)
      /\ runs' = RunsWith(q.run, q.outcome)
      /\ claim' = releaseClaimLeaseByRunId(q.run, "released")
      /\ usedKeys' = usedKeys \cup q.keys
      /\ request' = [request EXCEPT ![c] = NoRequest]
      /\ UNCHANGED <<worker, issued, crashes>>

\* Mutant: a claim row is reused, as on conflict (claim_id) do update would.
AcquireReusingRow(w, s) ==
  \A v \in WorkItems : ~(claim[v].status = "active" /\ claim[v].scope = s)
\* Mutant: no unique index on the active claim of a scope.
AcquireWithoutScopeIndex(w, s) == claim[w].status = "none"
\* Mutant: a conflict on insert is not noticed.
AcquireUnchecked(w, s) == TRUE

\* on conflict do nothing: the claim row must be new (primary key claim_id) and
\* no other claim of the scope active (unique index); otherwise the handler throws.
acquireClaimLease(w, s) ==
  /\ claim[w].status = "none"
  /\ \A v \in WorkItems : ~(claim[v].status = "active" /\ claim[v].scope = s)

CommitDispatch(c) ==
  LET q == request[c]
      w == q.item
      r == Len(runs) + 1
      items == ItemsWith(RowFor(w, [status |-> "running", reason |-> "none",
                                    latestRun |-> r]))
  IN  /\ q.op = "dispatch"
      /\ q.keys \cap usedKeys = {}
      /\ acquireClaimLease(w, q.scope)
      /\ workItem' = items
      /\ runs' = Append(runs, [item |-> w, attempt |-> q.attempt,
                               status |-> "queued", delay |-> 0])
      /\ claim' = [claim EXCEPT ![w] = [status |-> "active", scope |-> q.scope,
                                        holder |-> r, ttl |-> ClaimTTL]]
      /\ objective' = syncObjectiveStatus(ObjectiveOf[w], q.seen, items)
      /\ usedKeys' = usedKeys \cup q.keys
      /\ request' = [request EXCEPT ![c] = NoRequest]
      /\ UNCHANGED <<approval, worker, issued, crashes>>

\* A constraint violation, a database error or a restart of the server: the
\* transaction is rolled back and nothing of the request remains.
Rollback(c) ==
  /\ request[c].op # "none"
  /\ request' = [request EXCEPT ![c] = NoRequest]
  /\ UNCHANGED <<workItem, approval, objective, runs, claim, usedKeys, worker,
                 issued, crashes>>

-----------------------------------------------------------------------------
(* The worker loop. *)

\* Mutant: the queued run of a cancelled item is skipped.
DequeueUncancelled(k) ==
  /\ worker[k].pc = "idle"
  /\ \E r \in RunIds :
       /\ runs[r].status = "queued"
       /\ runs[r].delay = 0
       /\ workItem[runs[r].item].status # "cancelled"
       /\ runs' = [runs EXCEPT ![r].status = "running"]
       /\ worker' = [worker EXCEPT ![k] = [pc |-> "claimed", run |-> r]]
  /\ UNCHANGED <<workItem, approval, objective, claim, usedKeys, request, issued,
                 crashes>>

Dequeue(k) ==
  /\ worker[k].pc = "idle"
  /\ \E r \in RunIds :
       /\ runs[r].status = "queued"
       /\ runs[r].delay = 0
       /\ runs' = [runs EXCEPT ![r].status = "running"]
       /\ worker' = [worker EXCEPT ![k] = [pc |-> "claimed", run |-> r]]
  /\ UNCHANGED <<workItem, approval, objective, claim, usedKeys, request, issued,
                 crashes>>

\* processRun reads the item, its objective and the active claim of the run
\* and, unless that claim's lease is over, starts the tool requests.
ReadContext(k) ==
  LET r == worker[k].run
      w == runs[r].item
      expired == \E v \in WorkItems : /\ claim[v].status = "active"
                                      /\ claim[v].holder = r
                                      /\ claim[v].ttl = 0
  IN  /\ worker[k].pc = "claimed"
      /\ worker' = [worker EXCEPT ![k] =
           [pc |-> IF expired THEN "expired" ELSE "executing", run |-> r,
            row |-> workItem[w], seen |-> objective[ObjectiveOf[w]]]]
      /\ UNCHANGED <<workItem, approval, objective, runs, claim, usedKeys, request,
                     issued, crashes>>

\* The transaction of worker k on the item of its run: the row it read, changed.
WorkerWrite(k, row) ==
  LET w == runs[worker[k].run].item
      items == ItemsWith(RowFor(w, row))
  IN  /\ workItem' = items
      /\ objective' = syncObjectiveStatus(ObjectiveOf[w], worker[k].seen, items)
      /\ worker' = [worker EXCEPT ![k] = IdleWorker]
      /\ UNCHANGED <<approval, usedKeys, request, issued,
                 crashes>>

settleRunWithExpiredClaim(k) ==
  LET r == worker[k].run
  IN  /\ worker[k].pc = "expired"
      /\ WorkerWrite(k, [worker[k].row EXCEPT !.status = "escalated",
                                              !.reason = "claim_expired"])
      /\ runs' = RunsWith(r, "cancelled")
      /\ claim' = releaseClaimLeaseByRunId(r, "expired")

\* The retry decision is taken without the approval, so a gated item is withheld.
RetryDispatched(r, result) ==
  LET w == runs[r].item
  IN  /\ result = "transient_failure"
      /\ runs[r].attempt < AttemptBudget[w]
      /\ createDispatchDecision(w, FALSE, FALSE, runs[r].attempt, TRUE) = "dispatched"

\* A new attempt is queued behind the backoff and takes over the active claim.
scheduleRetry(k) ==
  LET r == worker[k].run
      next == Len(runs) + 1
      backoff == selectRetryBackoff(runs[r].attempt)
  IN  /\ worker[k].pc = "executing"
      /\ RetryDispatched(r, "transient_failure")
      /\ WorkerWrite(k, [status |-> "running", reason |-> "none", latestRun |-> next])
      /\ runs' = Append(RunsWith(r, "transient_failure"),
                        [item |-> runs[r].item, attempt |-> runs[r].attempt + 1,
                         status |-> "queued", delay |-> backoff])
      /\ claim' = [w \in WorkItems |->
                     IF claim[w].status = "active" /\ claim[w].holder = r
                     THEN [claim[w] EXCEPT !.holder = next,
                                           !.ttl = RetryLease(backoff)]
                     ELSE claim[w]]

settleRunWithTaskResult(k, result) ==
  LET r == worker[k].run
      exhausted == isRetryBudgetExhausted(runs[r].item, runs[r].attempt)
  IN  /\ worker[k].pc = "executing"
      /\ ~RetryDispatched(r, result)
      /\ WorkerWrite(k, mapTaskResultToWorkItemStatus(worker[k].row, result, exhausted))
      /\ runs' = RunsWith(r, result)
      /\ claim' = releaseClaimLeaseByRunId(r, "released")

\* Mutant: a worker that starts again puts the run it had claimed back.
WorkerCrashRequeues(k) ==
  /\ worker[k].pc # "idle"
  /\ crashes < MaxCrashes
  /\ crashes' = crashes + 1
  /\ worker' = [worker EXCEPT ![k] = IdleWorker]
  /\ runs' = RunsWith(worker[k].run, "queued")
  /\ UNCHANGED <<workItem, approval, objective, claim, usedKeys, request, issued>>

\* The process dies, or an exception ends runWorkerLoop; a new one starts idle.
WorkerCrash(k) ==
  /\ worker[k].pc # "idle"
  /\ crashes < MaxCrashes
  /\ crashes' = crashes + 1
  /\ worker' = [worker EXCEPT ![k] = IdleWorker]
  /\ UNCHANGED <<workItem, approval, objective, runs, claim, usedKeys, request,
                 issued>>

Lower(n) == IF n = 0 THEN 0 ELSE n - 1

Tick ==
  /\ \/ \E r \in RunIds : runs[r].delay > 0
     \/ \E w \in WorkItems : claim[w].ttl > 0
  /\ runs' = [r \in RunIds |-> [runs[r] EXCEPT !.delay = Lower(@)]]
  /\ claim' = [w \in WorkItems |-> [claim[w] EXCEPT !.ttl = Lower(@)]]
  /\ UNCHANGED <<workItem, approval, objective, usedKeys, request, worker,
                 issued, crashes>>

-----------------------------------------------------------------------------

Begin(c) ==
  \/ \E w \in WorkItems, s \in Scopes, newInput \in BOOLEAN, mode \in KeyModes :
       BeginDispatch(c, w, s, newInput, mode)
  \/ \E w \in WorkItems, mode \in KeyModes :
       BeginCancel(c, w, mode) \/ BeginRequeue(c, w, mode)
  \/ \E r \in RunIds, result \in TaskResult, mode \in KeyModes :
       BeginComplete(c, r, result, mode)
  \/ \E w \in Gated, mode \in KeyModes :
       BeginGrant(c, w, mode) \/ BeginDeny(c, w, mode)
  \/ \E o \in Objectives : BeginReplan(c, o)

OperatorStep(c) == Begin(c) \/ Commit(c) \/ CommitDispatch(c) \/ Rollback(c)

WorkerStep(k) ==
  \/ Dequeue(k)
  \/ ReadContext(k)
  \/ settleRunWithExpiredClaim(k)
  \/ scheduleRetry(k)
  \/ \E result \in TaskResult : settleRunWithTaskResult(k, result)

Next ==
  \/ \E c \in Operators : OperatorStep(c)
  \/ \E k \in Workers : WorkerStep(k) \/ WorkerCrash(k)
  \/ Tick

Spec == Init /\ [][Next]_vars

\* runWorkerLoop polls for ever and every await of a worker returns; time passes.
FairSpec == Spec /\ WF_vars(Tick) /\ \A k \in Workers : WF_vars(WorkerStep(k))

-----------------------------------------------------------------------------
(* Properties. *)

\* Every row, pending transaction and worker has the shape the tables and the
\* closures of the handlers give it.
TypeOK ==
  /\ workItem \in [WorkItems -> ItemRow]
  /\ approval \in [Gated -> ApprovalStatus]
  /\ objective \in [Objectives -> ObjectiveStatus]
  /\ runs \in Seq(RunRow)
  /\ claim \in [WorkItems -> ClaimRow]
  /\ usedKeys \subseteq Key
  /\ request \in [Operators -> {NoRequest} \cup UpdateRequest \cup DispatchRequest]
  /\ worker \in [Workers -> WorkerState]
  /\ issued \in 0 .. MaxRequests
  /\ crashes \in 0 .. MaxCrashes

\* No two claims on one scope are active, whatever dispatches, retries and
\* expiries interleave (acquireClaimLease, the claim transfer of a retry).
OneActiveClaimPerScope ==
  \A v, w \in WorkItems :
    /\ claim[v].status = "active" /\ claim[w].status = "active"
    /\ claim[v].scope = claim[w].scope
    => v = w

\* An active claim is held by a queued or running run of its own work item: no
\* cancellation, completion, settlement or retry, in any order and from however
\* old a read, leaves the lease of a finished run behind.
ActiveClaimHeldByActiveRun ==
  \A w \in WorkItems :
    claim[w].status = "active" =>
      IsActive(claim[w].holder) /\ runs[claim[w].holder].item = w

\* A work item never has two runs queued or running at once, although nothing
\* locks it between the check of the latest run in dispatch and the insert.
OneActiveRunPerItem ==
  \A q, r \in RunIds :
    IsActive(q) /\ IsActive(r) /\ runs[q].item = runs[r].item => q = r

\* The attempts of a work item are numbered 1, 2, ... without gap or repetition
\* and never exceed its budget, manual dispatches and automatic retries together.
AttemptsWithinBudget ==
  \A w \in WorkItems :
    /\ {runs[r].attempt : r \in RunsOf(w)} = 1 .. Cardinality(RunsOf(w))
    /\ Cardinality(RunsOf(w)) <= AttemptBudget[w]

\* A run of a gated item exists only once its approval has been decided: the
\* pause at the approval boundary cannot be raced by a dispatch.
ApprovalPrecedesRun ==
  \A w \in Gated : RunsOf(w) # {} => approval[w] # "pending"

\* An item is completed only while one of its runs ended in valid_success: a
\* late settlement that overwrites the run takes the item out of completed too.
CompletedOnlyBySuccess ==
  \A w \in WorkItems :
    workItem[w].status = "completed" =>
      \E r \in RunsOf(w) : runs[r].status = "valid_success"

\* An item shown as running has a queued or running run; no stale row write
\* brings running back after the run ended.
RunningHasActiveRun ==
  \A w \in WorkItems :
    workItem[w].status = "running" => \E r \in RunsOf(w) : IsActive(r)

\* An attempt after the first is created only by the step that records the
\* attempt before it as a transient failure.
RetryFollowsTransientFailure ==
  [][\A r \in (1 .. Len(runs')) \ RunIds :
       runs'[r].attempt > 1 =>
         \E q \in 1 .. Len(runs') :
           /\ runs'[q].item = runs'[r].item
           /\ runs'[q].attempt = runs'[r].attempt - 1
           /\ runs'[q].status = "transient_failure"]_vars

\* A run leaves the queue once: nothing puts a claimed or settled run back, so
\* no run is dequeued, and its tool requests executed, twice.
LeavesQueueOnce ==
  [][\A r \in RunIds :
       runs[r].status # "queued" => runs'[r].status # "queued"]_vars

\* The lease handed to a retry lasts beyond the backoff of that retry, so that no
\* other dispatch can sweep it while the attempt waits to become available.
LeaseOutlivesBackoff ==
  \A w \in WorkItems :
    claim[w].status = "active" /\ runs[claim[w].holder].delay > 0 =>
      claim[w].ttl > runs[claim[w].holder].delay

\* The claim leases implement exclusive ownership of scopes.
scopeOwners ==
  [s \in Scopes |->
     {w \in WorkItems : claim[w].status = "active" /\ claim[w].scope = s}]
Lease == INSTANCE ScopeLease WITH owners <- scopeOwners
ImplementsScopeLease == Lease!Spec

\* The runs of a work item are its attempts, one after the other: however requests,
\* workers and crashes interleave, no attempt begins twice or beside another.
runNumbered(table, S, n) == CHOOSE r \in S : table[r].attempt = n
outcomesOf(table, S) ==
  [n \in 1 .. Cardinality(S) |-> table[runNumbered(table, S, n)].status]
attemptHistory == [w \in WorkItems |-> outcomesOf(runs, RunsOf(w))]
Attempts == INSTANCE AttemptHistory WITH attempts <- attemptHistory
ImplementsAttemptHistory == Attempts!Spec

\* If no worker ever dies or fails a transaction, a run once queued is settled in
\* the end, whatever the operators do to it and to its work item.
NobodyDies == [](crashes = 0)
RunSettles(r) == NobodyDies => ((r \in RunIds) ~> (r \in RunIds /\ ~IsActive(r)))

\* Under the same condition no lease is held for ever: an active claim ends.
LeaseEnds(w) == NobodyDies => ((claim[w].status = "active") ~> (claim[w].status # "active"))

-----------------------------------------------------------------------------
(* What the documents, comments and messages of the repository state and   *)
(* the code does not do; each is the subject of a run TLC refutes.         *)

\* docs/orchestration/scheduler-with-leases-and-retries.md:38: an expired lease
\* takes the work item to blocked, retry or planner review, whatever became of
\* the worker that held it.
RunningItemMovesOn ==
  \A w \in WorkItems :
    (workItem[w].status = "running") ~> (workItem[w].status # "running")

\* docs/orchestration/scheduler-with-leases-and-retries.md:27: an item in the retry
\* queue is retry-eligible: while no lease is active, a dispatch can take one for it.
RetryQueueIsEligible ==
  \A w \in WorkItems :
    /\ workItem[w].reason = "retry_available"
    /\ \A v \in WorkItems : claim[v].status # "active"
    => \E s \in Scopes : acquireClaimLease(w, s)

=============================================================================
