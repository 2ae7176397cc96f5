--------------------------- MODULE RunOutcomeProofs ---------------------------
(***************************************************************************)
(* Theorems about how runs end: what a retry follows and how long it holds *)
(* its scope, and what the row of a work item says of its runs.            *)
(*                                                                         *)
(* Rows are written whole, from reads however old, and the outcome of a    *)
(* run may be overwritten.  That the row of an item still tells the truth  *)
(* about its runs is because whoever writes the status of a run writes the *)
(* row of its item in the same transaction, to fit.                        *)
(***************************************************************************)
EXTENDS RunExclusionProofs

\* A retry is numbered after the run it replaces, which its step records as a
\* transient failure (scheduleRetry); the run of a dispatch is a first attempt
\* (acquireClaimLease refuses any other).
THEOREM RetryAfterFailure == Spec => RetryFollowsTransientFailure
<1> DEFINE Follows(r) ==
             runs'[r].attempt > 1 =>
               \E q \in 1 .. Len(runs') :
                 /\ runs'[q].item = runs'[r].item
                 /\ runs'[q].attempt = runs'[r].attempt - 1
                 /\ runs'[q].status = "transient_failure"
<1>1. AttemptInv /\ [Next]_vars => \A r \in (1 .. Len(runs')) \ RunIds : Follows(r)
  <2> SUFFICES ASSUME AttemptInv, [Next]_vars, NEW r \in (1 .. Len(runs')) \ RunIds
               PROVE  Follows(r)
    OBVIOUS
  <2>1. RunInv /\ TypeInv /\ TypeOK /\ Len(runs) \in Nat
    BY RunsFunction DEF AttemptInv, RunInv, TypeInv
  <2>2. Len(runs') # Len(runs)
    BY DEF RunIds
  <2>3. Len(runs') = Len(runs) + 1 => r = Len(runs) + 1
    BY <2>1 DEF RunIds
  <2>4. ASSUME NEW c \in Operators, CommitDispatch(c)
        PROVE  Follows(r)
    <3>1. \A q \in RunIds : runs[q].item # request[c].item
      BY <2>1, <2>4, DispatchKeeps
    <3>2. RunsOf(request[c].item) = {}
      BY <3>1 DEF RunsOf
    <3>3. request[c].attempt = 1
      BY <2>4, <3>2 DEF AttemptInv, PlannedFirst, CommitDispatch
    <3>4. /\ Len(runs') = Len(runs) + 1
          /\ runs'[Len(runs) + 1] =
               [item |-> request[c].item, attempt |-> request[c].attempt,
                status |-> "queued", delay |-> 0]
      BY <2>1, <2>4, CommitDispatchType
    <3>5. runs'[r].attempt = 1
      BY <2>3, <3>3, <3>4
    <3> QED
      BY <3>5
  <2>5. ASSUME NEW k \in Workers, scheduleRetry(k)
        PROVE  Follows(r)
    <3> DEFINE q == worker[k].run
    <3>1. /\ q \in RunIds /\ Len(runs') = Len(runs) + 1
          /\ runs'[q] = [runs[q] EXCEPT !.status = "transient_failure"]
          /\ runs'[Len(runs) + 1].item = runs[q].item
          /\ runs'[Len(runs) + 1].attempt = runs[q].attempt + 1
      BY <2>1, <2>5, RetryTables
    <3>2. runs[q] \in RunRow
      BY <2>1, <3>1, RunsFunction
    <3>3. /\ q \in 1 .. Len(runs')
          /\ runs'[q].item = runs[q].item
          /\ runs'[q].attempt = runs[q].attempt
          /\ runs'[q].status = "transient_failure"
          /\ runs[q].attempt \in Nat
      BY <2>1, <3>1, <3>2 DEF RunRow, RunIds
    <3>4. /\ r = Len(runs) + 1
          /\ runs'[r].item = runs[q].item
          /\ runs'[r].attempt - 1 = runs[q].attempt
      BY <2>3, <3>1, <3>3
    <3> HIDE DEF q
    <3> QED
      BY <3>3, <3>4
  <2>6. ASSUME NEW k \in Workers, Dequeue(k)
        PROVE  FALSE
    BY <2>1, <2>2, <2>6, DequeueTables
  <2>7. CASE NoNewRun
    BY <2>2, <2>7 DEF NoNewRun
  <2> QED
    BY <2>1, <2>4, <2>5, <2>6, <2>7, StepKinds
<1>2. AttemptInv /\ [Next]_vars =>
        [\A r \in (1 .. Len(runs')) \ RunIds :
           runs'[r].attempt > 1 =>
             \E q \in 1 .. Len(runs') :
               /\ runs'[q].item = runs'[r].item
               /\ runs'[q].attempt = runs'[r].attempt - 1
               /\ runs'[q].status = "transient_failure"]_vars
  BY <1>1
<1>3. QED
  BY <1>2, AttemptInit, AttemptStep, PTL DEF Spec, RetryFollowsTransientFailure

-----------------------------------------------------------------------------
(* The lease of a retry. *)

\* What the lease of a run is while the run waits for its backoff.
LeaseTimeInv == LeaseInv /\ LeaseOutlivesBackoff

\* A step that gives no claim another holder or less time, and no run more delay,
\* keeps it.
LEMMA LeaseTimeKept ==
  ASSUME LeaseTimeInv,
         \A w \in WorkItems : claim'[w].status = "active" =>
           /\ claim[w].status = "active"
           /\ claim'[w].holder = claim[w].holder
           /\ claim'[w].ttl = claim[w].ttl
           /\ claim[w].holder \in RunIds =>
                runs'[claim[w].holder].delay = runs[claim[w].holder].delay
  PROVE  LeaseOutlivesBackoff'
<1>1. \A w \in WorkItems : claim[w].status = "active" => claim[w].holder \in RunIds
  BY DEF LeaseTimeInv, LeaseInv, ActiveClaimHeldByActiveRun, IsActive
<1> QED
  BY <1>1 DEF LeaseTimeInv, LeaseOutlivesBackoff

LEMMA LeaseTimeStep == LeaseTimeInv /\ [Next]_vars => LeaseTimeInv'
<1> SUFFICES ASSUME LeaseTimeInv, [Next]_vars
             PROVE  LeaseOutlivesBackoff'
  BY LeaseStep DEF LeaseTimeInv
<1>1. /\ TypeInv /\ TypeOK /\ Len(runs) \in Nat
      /\ \A r \in RunIds : runs[r] \in RunRow
      /\ DOMAIN runs = RunIds
      /\ claim \in [WorkItems -> ClaimRow]
  BY RunsFunction DEF LeaseTimeInv, LeaseInv, TypeInv, TypeOK
<1>2. \A w \in WorkItems : claim[w].status = "active" => claim[w].holder \in RunIds
  BY DEF LeaseTimeInv, LeaseInv, ActiveClaimHeldByActiveRun, IsActive
<1>3. ASSUME NEW r \in 0 .. Len(runs), NEW st \in TaskResult,
             NEW how \in {"released", "expired"},
             runs' = RunsWith(r, st), claim' = releaseClaimLeaseByRunId(r, how)
      PROVE  LeaseOutlivesBackoff'
  <2>1. \A q \in RunIds : runs'[q].delay = runs[q].delay
    <3>1. st \in RunStatus
      BY DEF RunStatus
    <3>2. \A q \in RunIds : runs'[q] = IF q = r THEN [runs[q] EXCEPT !.status = st]
                                       ELSE runs[q]
      BY <1>1, <1>3, <3>1, RunsWithType
    <3> QED
      BY <1>1, <3>2 DEF RunRow
  <2>2. \A w \in WorkItems : claim'[w].status = "active" => claim'[w] = claim[w]
    BY <1>1, <1>3 DEF releaseClaimLeaseByRunId, ClaimRow
  <2> QED
    BY <2>1, <2>2, LeaseTimeKept
<1>4. ASSUME NEW c \in Operators, Begin(c)
      PROVE  LeaseOutlivesBackoff'
  <2>1. UNCHANGED runs
    BY <1>1, <1>4, BeginType
  <2>2. claim' = claim \/ \E s \in Scopes : claim' = expireActiveClaimLeases(s)
    BY <1>4, BeginSweeps
  <2>3. \A w \in WorkItems : claim'[w].status = "active" => claim'[w] = claim[w]
    BY <1>1, <2>2 DEF expireActiveClaimLeases, ClaimRow
  <2> QED
    BY <2>1, <2>3, LeaseTimeKept
<1>5. ASSUME NEW c \in Operators, Commit(c)
      PROVE  LeaseOutlivesBackoff'
  <2>1. /\ runs' = RunsWith(request[c].run, request[c].outcome)
        /\ claim' = releaseClaimLeaseByRunId(request[c].run, "released")
        /\ request[c].op = "update"
    BY <1>5 DEF Commit
  <2>2. request[c].run \in 0 .. Len(runs)
    BY <1>1, <2>1 DEF TypeInv, RunReferencesExist
  <2>3. request[c].outcome \in TaskResult
    <3>1. request[c] \in {NoRequest} \cup UpdateRequest \cup DispatchRequest
      BY <1>1 DEF TypeOK
    <3> QED
      BY <2>1, <3>1 DEF NoRequest, UpdateRequest, DispatchRequest
  <2> QED
    BY <1>3, <2>1, <2>2, <2>3
<1>6. ASSUME NEW c \in Operators, CommitDispatch(c)
      PROVE  LeaseOutlivesBackoff'
  <2> DEFINE w == request[c].item
             r == Len(runs) + 1
  <2>1. /\ w \in WorkItems
        /\ \A q \in RunIds : runs'[q] = runs[q]
        /\ runs'[r].delay = 0
    <3>1. /\ request[c] \in DispatchRequest
          /\ \A q \in RunIds : runs'[q] = runs[q]
          /\ runs'[Len(runs) + 1] =
               [item |-> request[c].item, attempt |-> request[c].attempt,
                status |-> "queued", delay |-> 0]
      BY <1>1, <1>6, CommitDispatchType
    <3> QED
      BY <3>1 DEF DispatchRequest
  <2>2. claim' = [claim EXCEPT ![w] = [status |-> "active", scope |-> request[c].scope,
                                       holder |-> r, ttl |-> ClaimTTL]]
    BY <1>6 DEF CommitDispatch
  <2>3. claim'[w].holder = r /\ \A v \in WorkItems \ {w} : claim'[v] = claim[v]
    BY <1>1, <2>1, <2>2
  <2> HIDE DEF w, r
  <2> QED
    BY <1>2, <2>1, <2>3 DEF LeaseTimeInv, LeaseOutlivesBackoff
<1>7. ASSUME NEW k \in Workers, Dequeue(k)
      PROVE  LeaseOutlivesBackoff'
  <2>1. PICK r \in RunIds : runs' = [runs EXCEPT ![r].status = "running"]
    BY <1>7 DEF Dequeue
  <2>2. \A q \in RunIds : runs'[q].delay = runs[q].delay
    BY <1>1, <2>1 DEF RunRow
  <2>3. UNCHANGED claim
    BY <1>7 DEF Dequeue
  <2> QED
    BY <2>2, <2>3, LeaseTimeKept
<1>8. ASSUME NEW k \in Workers,
             settleRunWithExpiredClaim(k)
               \/ \E result \in TaskResult : settleRunWithTaskResult(k, result)
      PROVE  LeaseOutlivesBackoff'
  <2>1. PICK st \in TaskResult, how \in {"released", "expired"} :
          /\ runs' = RunsWith(worker[k].run, st)
          /\ claim' = releaseClaimLeaseByRunId(worker[k].run, how)
    BY <1>1, <1>8, SettleTables
  <2>2. worker[k].run \in RunIds
    BY <1>1, <1>8, ContextType DEF settleRunWithExpiredClaim, settleRunWithTaskResult
  <2>3. worker[k].run \in 0 .. Len(runs)
    BY <1>1, <2>2 DEF RunIds
  <2> QED
    BY <1>3, <2>1, <2>3
<1>9. ASSUME NEW k \in Workers, scheduleRetry(k)
      PROVE  LeaseOutlivesBackoff'
  <2> DEFINE r == worker[k].run
             next == Len(runs) + 1
             backoff == selectRetryBackoff(runs[r].attempt)
  <2>1. /\ r \in RunIds
        /\ \A q \in RunIds :
             runs'[q] = IF q = r THEN [runs[q] EXCEPT !.status = "transient_failure"]
                        ELSE runs[q]
        /\ runs' \in Seq(RunRow) /\ Len(runs') = next
    BY <1>1, <1>9, RetryTables
  <2>2. \A q \in RunIds : runs'[q].delay = runs[q].delay
    BY <1>1, <2>1 DEF RunRow
  <2>3. runs'[next].delay = backoff
    <3> DEFINE new == [item |-> runs[r].item, attempt |-> runs[r].attempt + 1,
                       status |-> "queued", delay |-> backoff]
    <3>1. runs' = Append(RunsWith(r, "transient_failure"), new)
      BY <1>9 DEF scheduleRetry
    <3>2. /\ RunsWith(r, "transient_failure") \in Seq(RunRow)
          /\ Len(RunsWith(r, "transient_failure")) = Len(runs)
      BY <1>1, <2>1, RunsWithType DEF RunStatus, TaskResult, RunIds
    <3>3. runs'[next] = new
      BY <3>1, <3>2
    <3> QED
      BY <3>3
  <2>4. backoff \in Nat
    <3>1. next \in 1 .. Len(runs')
      BY <1>1, <2>1
    <3>2. runs'[next] \in RunRow
      BY <2>1, <3>1, ElementOfSeq
    <3> QED
      BY <2>3, <3>2 DEF RunRow
  <2>5. \A w \in WorkItems :
          claim'[w] = IF claim[w].status = "active" /\ claim[w].holder = r
                      THEN [claim[w] EXCEPT !.holder = next, !.ttl = RetryLease(backoff)]
                      ELSE claim[w]
    BY <1>9 DEF scheduleRetry
  <2>6. RetryLease(backoff) > backoff
    BY <2>4, ConstantsAssumption DEF RetryLease
  <2> HIDE DEF r, next, backoff
  <2>7. ASSUME NEW w \in WorkItems, claim'[w].status = "active",
               runs'[claim'[w].holder].delay > 0
        PROVE  claim'[w].ttl > runs'[claim'[w].holder].delay
    <3>1. CASE claim[w].status = "active" /\ claim[w].holder = r
      BY <1>1, <2>3, <2>5, <2>6, <3>1 DEF ClaimRow
    <3>2. CASE ~ (claim[w].status = "active" /\ claim[w].holder = r)
      BY <1>2, <2>2, <2>5, <2>7, <3>2 DEF LeaseTimeInv, LeaseOutlivesBackoff
    <3> QED
      BY <3>1, <3>2
  <2> QED
    BY <2>7 DEF LeaseOutlivesBackoff
<1>10. ASSUME Tick
       PROVE  LeaseOutlivesBackoff'
  <2>1. /\ runs' = [r \in RunIds |-> [runs[r] EXCEPT !.delay = Lower(@)]]
        /\ claim' = [w \in WorkItems |-> [claim[w] EXCEPT !.ttl = Lower(@)]]
    BY <1>10 DEF Tick
  <2>2. /\ \A r \in RunIds : runs'[r].delay = Lower(runs[r].delay) /\ runs[r].delay \in Nat
        /\ \A w \in WorkItems : /\ claim'[w].status = claim[w].status
                                /\ claim'[w].holder = claim[w].holder
                                /\ claim'[w].ttl = Lower(claim[w].ttl)
                                /\ claim[w].ttl \in Nat
    BY <1>1, <2>1 DEF RunRow, ClaimRow
  <2> SUFFICES ASSUME NEW w \in WorkItems, claim[w].status = "active",
                      Lower(runs[claim[w].holder].delay) > 0
               PROVE  Lower(claim[w].ttl) > Lower(runs[claim[w].holder].delay)
    BY <1>2, <2>2 DEF LeaseOutlivesBackoff
  <2>3. claim[w].holder \in RunIds
    BY <1>2
  <2>4. runs[claim[w].holder].delay \in Nat /\ claim[w].ttl \in Nat
    BY <2>2, <2>3
  <2>5. runs[claim[w].holder].delay > 0
    BY <2>4 DEF Lower
  <2>6. claim[w].ttl > runs[claim[w].holder].delay
    BY <2>5 DEF LeaseTimeInv, LeaseOutlivesBackoff
  <2> QED
    BY <2>4, <2>5, <2>6 DEF Lower
<1>11. ASSUME UNCHANGED <<runs, claim>>
       PROVE  LeaseOutlivesBackoff'
  BY <1>11, LeaseTimeKept
<1>12. QED
  BY <1>4, <1>5, <1>6, <1>7, <1>8, <1>9, <1>10, <1>11
  DEF Next, OperatorStep, WorkerStep, Rollback, ReadContext, WorkerCrash, vars

\* While a retry waits for its backoff its lease cannot run out: no other dispatch
\* sweeps it, so the retry keeps its scope (scheduleRetry, expireActiveClaimLeases).
THEOREM RetryKeepsLease == Spec => []LeaseOutlivesBackoff
<1>1. Init => LeaseTimeInv
  BY LeaseInit DEF Init, LeaseTimeInv, LeaseOutlivesBackoff
<1>2. LeaseTimeInv => LeaseOutlivesBackoff
  BY DEF LeaseTimeInv
<1>3. QED BY <1>1, <1>2, LeaseTimeStep, PTL DEF Spec

-----------------------------------------------------------------------------
(* The row of an item and its runs. *)

\* The latest run a row of w names is one of w.
OwnRun(w, r) == r # 0 => r \in RunsOf(w)

\* What a transaction may write: a row never becomes running by an operator, is
\* completed only with the success of a run of its item, and the item of the run
\* that is settled is written too.
FittingRows(rows, r, outcome) ==
  /\ \A w \in WorkItems : rows[w] # Keep =>
       /\ OwnRun(w, rows[w].latestRun)
       /\ rows[w].status # "running"
       /\ rows[w].status = "completed" => r \in RunsOf(w) /\ outcome = "valid_success"
  /\ r # 0 => rows[runs[r].item] # Keep

PlannedFit ==
  \A c \in Operators :
    request[c].op = "update" =>
      FittingRows(request[c].rows, request[c].run, request[c].outcome)
LatestRunsOwn == \A w \in WorkItems : OwnRun(w, workItem[w].latestRun)
ContextsOwn ==
  \A k \in Workers :
    worker[k].pc \in {"executing", "expired"} =>
      OwnRun(runs[worker[k].run].item, worker[k].row.latestRun)

OutcomeInv ==
  /\ RunInv
  /\ PlannedFit
  /\ LatestRunsOwn
  /\ ContextsOwn
  /\ CompletedOnlyBySuccess
  /\ RunningHasActiveRun

\* A result completes an item only if it is a success, and leaves its latest run.
LEMMA ResultRow ==
  ASSUME NEW row \in ItemRow, NEW result \in TaskResult, NEW exhausted
  PROVE  LET next == mapTaskResultToWorkItemStatus(row, result, exhausted)
         IN  /\ next.latestRun = row.latestRun
             /\ next.status \in {"completed", "ready", "blocked", "cancelled"}
             /\ next.status = "completed" => result = "valid_success"
<1>1. CASE result = "valid_success"
  BY <1>1 DEF mapTaskResultToWorkItemStatus, ItemRow
<1>2. CASE result = "transient_failure"
  BY <1>2 DEF mapTaskResultToWorkItemStatus, ItemRow
<1>3. CASE result = "cancelled"
  BY <1>3 DEF mapTaskResultToWorkItemStatus, ItemRow
<1>4. CASE result \in {"invalid_output", "permanent_failure"}
  BY <1>4 DEF mapTaskResultToWorkItemStatus, ItemRow
<1> QED
  BY <1>1, <1>2, <1>3, <1>4 DEF TaskResult

\* What an operator request plans, it plans to fit.
LEMMA BeginFits ==
  ASSUME OutcomeInv, NEW c \in Operators, Begin(c), request'[c].op = "update"
  PROVE  FittingRows(request'[c].rows, request'[c].run, request'[c].outcome)
<1> DEFINE Planned == FittingRows(request'[c].rows, request'[c].run, request'[c].outcome)
<1>1. /\ TypeInv /\ LatestRunsOwn
      /\ request \in [Operators -> {NoRequest} \cup UpdateRequest \cup DispatchRequest]
      /\ \A w \in WorkItems : workItem[w] \in ItemRow
  BY DEF OutcomeInv, RunInv, TypeInv, TypeOK
<1>2. ASSUME NEW o, NEW rows, NEW r, NEW outcome, NEW decided, NEW keys,
             Plan(c, o, rows, r, outcome, decided, keys), FittingRows(rows, r, outcome)
      PROVE  Planned
  <2>1. request'[c].rows = rows /\ request'[c].run = r /\ request'[c].outcome = outcome
    BY <1>1, <1>2 DEF Plan
  <2> QED
    BY <1>2, <2>1
<1>3. ASSUME NEW v \in WorkItems, NEW st \in ItemStatus, NEW why, NEW r, NEW outcome,
             st # "running",
             st = "completed" => r \in RunsOf(v) /\ outcome = "valid_success",
             r # 0 => runs[r].item = v
      PROVE  FittingRows(RowFor(v, [workItem[v] EXCEPT !.status = st, !.reason = why]),
                         r, outcome)
  <2> DEFINE row == [workItem[v] EXCEPT !.status = st, !.reason = why]
  <2>1. /\ row.status = st /\ row.latestRun = workItem[v].latestRun
        /\ row # Keep
    <3>1. row.status = st /\ row.latestRun = workItem[v].latestRun
      BY <1>1 DEF ItemRow
    <3>2. Keep.status = "keep" /\ st # "keep"
      BY <1>3 DEF Keep, ItemStatus
    <3> QED
      BY <3>1, <3>2
  <2>2. OwnRun(v, row.latestRun)
    BY <1>1, <2>1 DEF LatestRunsOwn
  <2> HIDE DEF row
  <2>3. \A w \in WorkItems : RowFor(v, row)[w] = IF w = v THEN row ELSE Keep
    BY DEF RowFor, NoRow
  <2>4. FittingRows(RowFor(v, row), r, outcome)
    BY <1>3, <2>1, <2>2, <2>3 DEF FittingRows
  <2> QED
    BY <2>4 DEF row
<1>4. ASSUME NEW outcome
      PROVE  FittingRows(NoRow, 0, outcome)
  BY DEF FittingRows, NoRow
<1>5. ASSUME NEW v \in WorkItems
      PROVE  /\ ReadyOrAwaiting(v) # Keep
             /\ \E st \in {"ready", "blocked"} : \E why :
                  ReadyOrAwaiting(v) = [workItem[v] EXCEPT !.status = st, !.reason = why]
  BY <1>1 DEF ReadyOrAwaiting, ItemAwaiting, ItemReady, ItemRow, Keep
<1> HIDE DEF Planned
<1>6. ASSUME NEW w \in WorkItems, NEW s \in Scopes, NEW newInput \in BOOLEAN,
             NEW mode \in KeyModes, BeginDispatch(c, w, s, newInput, mode)
      PROVE  Planned
  <2>1. \E st \in {"escalated", "blocked"} : \E why, o, decided, keys :
          Plan(c, o, RowFor(w, [workItem[w] EXCEPT !.status = st, !.reason = why]), 0,
               "cancelled", decided, keys)
    <3> DEFINE latest == LatestRun(w)
               consumed == IF IF latest = 0 THEN FALSE
                              ELSE runs[latest].status = "transient_failure"
                           THEN runs[latest].attempt
                           ELSE Cardinality(RunsOf(w))
               conflict == \E v \in WorkItems \ {w} :
                             /\ expireActiveClaimLeases(s)[v].status = "active"
                             /\ expireActiveClaimLeases(s)[v].scope = s
               granted == w \in Gated /\ approval[w] = "granted"
               decision == createDispatchDecision(w, granted, conflict, consumed,
                                                  latest = 0 \/ newInput)
    <3>1. decision # "dispatched"
      <4> SUFFICES ASSUME decision = "dispatched"
                   PROVE  FALSE
        OBVIOUS
      <4>1. \E keys : request' = [request EXCEPT ![c] =
                       [op |-> "dispatch", item |-> w, scope |-> s,
                        attempt |-> Cardinality(RunsOf(w)) + 1,
                        seen |-> objective[ObjectiveOf[w]], keys |-> keys]]
        BY <1>6 DEF BeginDispatch
      <4>2. request'[c].op = "dispatch"
        BY <1>1, <4>1
      <4> QED
        BY <4>2
    <3>2. \E decided, keys :
            Plan(c, ObjectiveOf[w],
                 RowFor(w, [workItem[w] EXCEPT
                              !.status = IF decision = "escalated" THEN "escalated"
                                         ELSE "blocked",
                              !.reason = WithheldReason(decision)]),
                 0, "cancelled", decided, keys)
      BY <1>6, <3>1 DEF BeginDispatch
    <3> HIDE DEF decision
    <3> QED
      BY <3>2
  <2>2. \A st \in {"escalated", "blocked"} : \A why :
          FittingRows(RowFor(w, [workItem[w] EXCEPT !.status = st, !.reason = why]), 0,
                      "cancelled")
    BY <1>3 DEF ItemStatus
  <2> QED
    BY <1>2, <2>1, <2>2
<1>7. ASSUME NEW w \in WorkItems, NEW mode \in KeyModes, BeginCancel(c, w, mode)
      PROVE  Planned
  <2> DEFINE latest == workItem[w].latestRun
             r == IF IsActive(latest) THEN latest ELSE 0
             rows == RowFor(w, [workItem[w] EXCEPT !.status = "cancelled",
                                                   !.reason = "cancelled_by_operator"])
  <2>1. r # 0 => runs[r].item = w
    BY <1>1 DEF LatestRunsOwn, OwnRun, RunsOf
  <2>2. \E o, decided, keys : Plan(c, o, rows, r, "cancelled", decided, keys)
    BY <1>7 DEF BeginCancel
  <2> HIDE DEF r
  <2>3. FittingRows(rows, r, "cancelled")
    BY <1>3, <2>1 DEF ItemStatus
  <2> HIDE DEF rows
  <2> QED
    BY <1>2, <2>2, <2>3
<1>8. ASSUME NEW w \in WorkItems, NEW mode \in KeyModes, BeginRequeue(c, w, mode)
      PROVE  Planned
  <2>1. \E o, decided, keys :
          Plan(c, o, RowFor(w, ReadyOrAwaiting(w)), 0, "cancelled", decided, keys)
    BY <1>8 DEF BeginRequeue
  <2>2. FittingRows(RowFor(w, ReadyOrAwaiting(w)), 0, "cancelled")
    BY <1>3, <1>5 DEF ItemStatus
  <2> QED
    BY <1>2, <2>1, <2>2
<1>9. ASSUME NEW r \in RunIds, NEW result \in TaskResult, NEW mode \in KeyModes,
             BeginComplete(c, r, result, mode)
      PROVE  Planned
  <2> DEFINE w == runs[r].item
             row == mapTaskResultToWorkItemStatus(workItem[w], result,
                      isRetryBudgetExhausted(w, Cardinality(RunsOf(w))))
  <2>1. w \in WorkItems /\ r \in RunsOf(w)
    BY <1>1, RunsFunction DEF TypeInv, RunRow, RunsOf
  <2>2. \E o, decided, keys : Plan(c, o, RowFor(w, row), r, result, decided, keys)
    BY <1>9 DEF BeginComplete
  <2>3. \E st \in ItemStatus \ {"running"} : \E why :
          /\ row = [workItem[w] EXCEPT !.status = st, !.reason = why]
          /\ st = "completed" => result = "valid_success"
    <3> DEFINE exhausted == isRetryBudgetExhausted(w, Cardinality(RunsOf(w)))
    <3>1. \E st \in {"completed", "ready", "blocked", "cancelled"} : \E why :
            /\ row = [workItem[w] EXCEPT !.status = st, !.reason = why]
            /\ st = "completed" => result = "valid_success"
      <4> HIDE DEF exhausted
      <4>1. CASE result = "valid_success"
        BY <4>1 DEF mapTaskResultToWorkItemStatus
      <4>2. CASE result = "transient_failure"
        BY <4>2 DEF mapTaskResultToWorkItemStatus
      <4>3. CASE result = "cancelled"
        BY <4>3 DEF mapTaskResultToWorkItemStatus
      <4>4. CASE result \in {"invalid_output", "permanent_failure"}
        BY <4>4 DEF mapTaskResultToWorkItemStatus
      <4> QED
        BY <4>1, <4>2, <4>3, <4>4 DEF TaskResult
    <3>2. {"completed", "ready", "blocked", "cancelled"} \subseteq ItemStatus \ {"running"}
      BY DEF ItemStatus
    <3> HIDE DEF row
    <3> QED
      BY <3>1, <3>2
  <2> HIDE DEF row
  <2>4. FittingRows(RowFor(w, row), r, result)
    BY <1>3, <2>1, <2>3
  <2> QED
    BY <1>2, <2>2, <2>4
<1>10. ASSUME NEW w \in Gated, NEW mode \in KeyModes,
              BeginGrant(c, w, mode) \/ BeginDeny(c, w, mode)
       PROVE  Planned
  <2>1. w \in WorkItems
    BY ConstantsAssumption
  <2>2. \E rows : /\ \E o, decided, keys : Plan(c, o, rows, 0, "cancelled", decided, keys)
                  /\ \/ rows = NoRow
                     \/ \E st \in {"ready", "blocked"} : \E why :
                          rows = RowFor(w, [workItem[w] EXCEPT !.status = st, !.reason = why])
    BY <1>10 DEF BeginGrant, BeginDeny, ItemReady
  <2>3. \A st \in {"ready", "blocked"} : \A why :
          FittingRows(RowFor(w, [workItem[w] EXCEPT !.status = st, !.reason = why]), 0,
                      "cancelled")
    BY <1>3, <2>1 DEF ItemStatus
  <2>4. \E rows : /\ \E o, decided, keys : Plan(c, o, rows, 0, "cancelled", decided, keys)
                  /\ FittingRows(rows, 0, "cancelled")
    BY <1>4, <2>2, <2>3
  <2> QED
    BY <1>2, <2>4
<1>11. ASSUME NEW o \in Objectives, BeginReplan(c, o)
       PROVE  Planned
  <2>1. \E S, decided, keys :
          Plan(c, o, [w \in WorkItems |-> IF w \in S THEN ReadyOrAwaiting(w) ELSE Keep],
               0, "cancelled", decided, keys)
    BY <1>11 DEF BeginReplan
  <2>2. ASSUME NEW w \in WorkItems
        PROVE  /\ OwnRun(w, ReadyOrAwaiting(w).latestRun)
               /\ ReadyOrAwaiting(w).status \in {"ready", "blocked"}
    <3>1. PICK st \in {"ready", "blocked"} :
            \E why : ReadyOrAwaiting(w) = [workItem[w] EXCEPT !.status = st, !.reason = why]
      BY <1>5
    <3>2. /\ ReadyOrAwaiting(w).status = st
          /\ ReadyOrAwaiting(w).latestRun = workItem[w].latestRun
      BY <1>1, <3>1 DEF ItemRow
    <3> QED
      BY <1>1, <3>2 DEF LatestRunsOwn
  <2>3. \A S : FittingRows([w \in WorkItems |-> IF w \in S THEN ReadyOrAwaiting(w) ELSE Keep],
                           0, "cancelled")
    BY <2>2 DEF FittingRows
  <2> QED
    BY <1>2, <2>1, <2>3
<1>12. Planned
  BY <1>6, <1>7, <1>8, <1>9, <1>10, <1>11 DEF Begin
<1>13. QED BY <1>12 DEF Planned

\* A run keeps its item, and an item its runs.
LEMMA OwnRunStays ==
  ASSUME RunInv, [Next]_vars
  PROVE  /\ \A w \in WorkItems : \A r : OwnRun(w, r) => OwnRun(w, r)'
         /\ \A r \in RunIds : r \in RunIds' /\ runs'[r].item = runs[r].item
<1>1. \A w : RunsOf(w) \subseteq RunsOf(w)'
  BY RunsGrow
<1> QED
  BY <1>1 DEF OwnRun, RunsOf

LEMMA PlannedFitStep ==
  ASSUME OutcomeInv, [Next]_vars
  PROVE  PlannedFit'
<1>1. RunInv /\ TypeInv
  BY DEF OutcomeInv, RunInv
<1> SUFFICES ASSUME NEW c \in Operators, request'[c].op = "update"
             PROVE  FittingRows(request[c].rows, request[c].run, request[c].outcome)'
  BY DEF PlannedFit
<1>2. CASE Begin(c)
  <2>1. UNCHANGED runs
    BY <1>1, <1>2, BeginType
  <2>2. FittingRows(request'[c].rows, request'[c].run, request'[c].outcome)
    BY <1>2, BeginFits
  <2> QED
    BY <2>1, <2>2 DEF FittingRows, OwnRun, RunsOf, RunIds
<1>3. CASE ~ Begin(c)
  <2>1. request'[c] = request[c]
    BY <1>1, <1>3, BegunBy
  <2>2. FittingRows(request[c].rows, request[c].run, request[c].outcome)
    BY <2>1 DEF OutcomeInv, PlannedFit
  <2>3. \A w : RunsOf(w) \subseteq RunsOf(w)'
    BY <1>1, RunsGrow
  <2>4. request[c].run # 0 => /\ request[c].run \in RunIds
                              /\ runs'[request[c].run].item = runs[request[c].run].item
    <3>1. request[c].run \in 0 .. Len(runs)
      BY <1>1, <2>1 DEF TypeInv, RunReferencesExist
    <3>2. request[c].run # 0 => request[c].run \in RunIds
      BY <1>1, <3>1, RunsFunction DEF TypeInv, RunIds
    <3> QED
      BY <1>1, <3>2, OwnRunStays
  <2>5. \A w \in WorkItems : request[c].rows[w] # Keep =>
          /\ OwnRun(w, request[c].rows[w].latestRun)'
          /\ request[c].rows[w].status # "running"
          /\ request[c].rows[w].status = "completed" =>
               request[c].run \in RunsOf(w)' /\ request[c].outcome = "valid_success"
    BY <2>1, <2>2, <2>3 DEF FittingRows, OwnRun
  <2> QED
    BY <2>1, <2>2, <2>4, <2>5 DEF FittingRows
<1> QED
  BY <1>2, <1>3

\* A worker that reads its context reads the row of the item of its run.
LEMMA ContextsOwnStep ==
  ASSUME OutcomeInv, [Next]_vars
  PROVE  ContextsOwn'
<1>1. /\ RunInv /\ TypeInv
      /\ worker \in [Workers -> WorkerState]
      /\ \A w \in WorkItems : \A r : OwnRun(w, r) => OwnRun(w, r)'
      /\ \A r \in RunIds : runs'[r].item = runs[r].item /\ runs[r].item \in WorkItems
  BY OwnRunStays, RunsFunction DEF OutcomeInv, RunInv, TypeInv, TypeOK, RunRow
<1> SUFFICES ASSUME NEW k \in Workers, worker'[k].pc \in {"executing", "expired"}
             PROVE  OwnRun(runs[worker[k].run].item, worker[k].row.latestRun)'
  BY DEF ContextsOwn
<1>2. CASE worker'[k] = worker[k]
  <2>1. worker[k].run \in RunIds
    BY <1>1, <1>2 DEF TypeInv, RunReferencesExist
  <2>2. OwnRun(runs[worker[k].run].item, worker[k].row.latestRun)
    BY <1>2 DEF OutcomeInv, ContextsOwn
  <2>3. OwnRun(runs[worker[k].run].item, worker[k].row.latestRun)
        => (OwnRun(runs[worker[k].run].item, worker[k].row.latestRun))'
    BY <1>1, <1>2, <2>1 DEF OwnRun
  <2> QED
    BY <2>2, <2>3
<1>3. CASE worker'[k] # worker[k]
  <2>1. PICK j \in Workers : ReadContext(j) /\ worker'[j] # worker[j] /\ j = k
    <3>1. \A j \in Workers : \A s : worker' = [worker EXCEPT ![j] = s] =>
            j = k /\ worker'[k] = s
      BY <1>1, <1>3
    <3>2. \A j \in Workers : worker' = [worker EXCEPT ![j] = IdleWorker] => FALSE
      <4>1. IdleWorker.pc = "idle"
        BY DEF IdleWorker
      <4> QED
        BY <3>1, <4>1
    <3>3. \A j \in Workers : Dequeue(j) => FALSE
      <4>1. \A r : [pc |-> "claimed", run |-> r].pc = "claimed"
        OBVIOUS
      <4>2. \A j \in Workers : Dequeue(j) =>
              \E r : worker' = [worker EXCEPT ![j] = [pc |-> "claimed", run |-> r]]
        BY DEF Dequeue
      <4>3. \A j \in Workers : Dequeue(j) => \E r : worker'[k] = [pc |-> "claimed", run |-> r]
        BY <3>1, <4>2
      <4> QED
        BY <4>1, <4>3
    <3>4. \A c \in Operators : OperatorStep(c) => UNCHANGED worker
      BY <1>1, BeginType DEF OperatorStep, Commit, CommitDispatch, Rollback
    <3>5. \E j \in Workers : ReadContext(j)
      BY <1>3, <3>2, <3>3, <3>4
      DEF Next, vars, WorkerStep, settleRunWithExpiredClaim, scheduleRetry,
          settleRunWithTaskResult, WorkerWrite, WorkerCrash, Tick
    <3>6. \A j \in Workers : ReadContext(j) => \E s : worker' = [worker EXCEPT ![j] = s]
      BY DEF ReadContext
    <3> QED
      BY <1>3, <3>1, <3>5, <3>6
  <2> DEFINE r == worker[k].run
             w == runs[r].item
  <2>2. r \in RunIds /\ UNCHANGED runs
    BY <1>1, <2>1 DEF ReadContext, TypeInv, RunReferencesExist
  <2>3. worker'[k].run = r /\ worker'[k].row = workItem[w]
    BY <1>1, <2>1 DEF ReadContext
  <2>4. OwnRun(w, workItem[w].latestRun)
    BY <1>1, <2>2 DEF OutcomeInv, LatestRunsOwn
  <2> QED
    BY <2>2, <2>3, <2>4 DEF OwnRun, RunsOf, RunIds
<1> QED
  BY <1>2, <1>3

\* The three facts about rows, after a step.
RowsTell == LatestRunsOwn /\ CompletedOnlyBySuccess /\ RunningHasActiveRun

\* A step that writes no row of an item and ends or activates no run.
LEMMA RowsKept ==
  ASSUME OutcomeInv, UNCHANGED workItem, RunIds' = RunIds,
         \A r \in RunIds : /\ runs'[r].item = runs[r].item
                           /\ runs[r].status \in ActiveStatus => runs'[r].status \in ActiveStatus
                           /\ runs[r].status = "valid_success"
                                => runs'[r].status = "valid_success"
  PROVE  RowsTell'
<1>1. \A w : RunsOf(w)' = RunsOf(w)
  BY DEF RunsOf
<1>2. \A r : IsActive(r) => IsActive(r)'
  BY DEF IsActive
<1>3. LatestRunsOwn'
  BY <1>1 DEF OutcomeInv, LatestRunsOwn, OwnRun
<1>4. CompletedOnlyBySuccess'
  BY <1>1 DEF OutcomeInv, CompletedOnlyBySuccess, RunsOf
<1>5. RunningHasActiveRun'
  BY <1>1, <1>2 DEF OutcomeInv, RunningHasActiveRun
<1> QED
  BY <1>3, <1>4, <1>5 DEF RowsTell

\* A transaction that settles a run and writes fitting rows.
LEMMA RowsSettled ==
  ASSUME OutcomeInv, NEW rows, NEW r \in 0 .. Len(runs), NEW st \in TaskResult,
         FittingRows(rows, r, st),
         workItem' = ItemsWith(rows), runs' = RunsWith(r, st)
  PROVE  RowsTell'
<1>1. TypeOK /\ Len(runs) \in Nat /\ \A q \in RunIds : runs[q] \in RunRow
  BY RunsFunction DEF OutcomeInv, RunInv, TypeInv
<1>2. /\ Len(runs') = Len(runs)
      /\ \A q \in RunIds : runs'[q] = IF q = r THEN [runs[q] EXCEPT !.status = st]
                                      ELSE runs[q]
  <2>1. st \in RunStatus
    BY DEF RunStatus
  <2> QED
    BY <1>1, <2>1, RunsWithType
<1>3. /\ RunIds' = RunIds
      /\ \A q \in RunIds : /\ runs'[q].item = runs[q].item
                           /\ q # r => runs'[q].status = runs[q].status
                           /\ q = r => runs'[q].status = st
  BY <1>1, <1>2 DEF RunIds, RunRow
<1>4. \A w : RunsOf(w)' = RunsOf(w)
  BY <1>3 DEF RunsOf
<1>5. \A w \in WorkItems : workItem'[w] = IF rows[w] = Keep THEN workItem[w] ELSE rows[w]
  BY DEF ItemsWith
<1>6. ASSUME NEW w \in WorkItems, rows[w] = Keep
      PROVE  \A q \in RunsOf(w) : runs'[q].status = runs[q].status /\ q \in RunIds'
  <2>1. r \notin RunsOf(w)
    BY <1>1, <1>6 DEF FittingRows, RunsOf, RunIds
  <2> QED
    BY <1>3, <2>1 DEF RunsOf
<1>7. LatestRunsOwn'
  BY <1>4, <1>5 DEF LatestRunsOwn, OutcomeInv, FittingRows, OwnRun
<1>8. CompletedOnlyBySuccess'
  <2> SUFFICES ASSUME NEW w \in WorkItems, workItem'[w].status = "completed"
               PROVE  \E q \in RunsOf(w)' : runs'[q].status = "valid_success"
    BY DEF CompletedOnlyBySuccess
  <2>1. CASE rows[w] = Keep
    BY <1>4, <1>5, <1>6, <2>1 DEF OutcomeInv, CompletedOnlyBySuccess
  <2>2. CASE rows[w] # Keep
    <3>1. r \in RunsOf(w) /\ st = "valid_success"
      BY <1>5, <2>2 DEF FittingRows
    <3> QED
      BY <1>3, <1>4, <3>1 DEF RunsOf
  <2> QED
    BY <2>1, <2>2
<1>9. RunningHasActiveRun'
  <2> SUFFICES ASSUME NEW w \in WorkItems, workItem'[w].status = "running"
               PROVE  \E q \in RunsOf(w)' : IsActive(q)'
    BY DEF RunningHasActiveRun
  <2>1. rows[w] = Keep
    BY <1>5 DEF FittingRows
  <2>2. PICK q \in RunsOf(w) : IsActive(q)
    BY <1>5, <2>1 DEF OutcomeInv, RunningHasActiveRun
  <2>3. IsActive(q)'
    BY <1>6, <2>1, <2>2 DEF IsActive
  <2> QED
    BY <1>4, <2>3
<1> QED
  BY <1>7, <1>8, <1>9 DEF RowsTell

\* A transaction that queues a new run of w and shows w as running, and settles at
\* most a run of w.
LEMMA RowsStarted ==
  ASSUME OutcomeInv, NEW w \in WorkItems, NEW new, new = Len(runs) + 1,
         Len(runs') = new,
         \A q \in RunIds : /\ runs'[q].item = runs[q].item
                           /\ runs[q].item # w => runs'[q].status = runs[q].status,
         runs'[new].item = w, runs'[new].status = "queued",
         workItem' = ItemsWith(RowFor(w, [status |-> "running", reason |-> "none",
                                          latestRun |-> new]))
  PROVE  RowsTell'
<1> DEFINE row == [status |-> "running", reason |-> "none", latestRun |-> new]
<1>1. TypeOK
  BY DEF OutcomeInv, RunInv, TypeInv
<1>2. /\ RunIds' = RunIds \cup {new}
      /\ \A v : RunsOf(v)' = IF v = w THEN RunsOf(v) \cup {new} ELSE RunsOf(v)
  BY <1>1, RunAdded
<1>3. /\ workItem'[w] = row
      /\ \A v \in WorkItems : v # w => workItem'[v] = workItem[v]
  <2>1. row # Keep
    <3>1. row.status = "running" /\ Keep.status = "keep"
      BY DEF Keep
    <3> QED
      BY <3>1
  <2> HIDE DEF row
  <2>2. \A v \in WorkItems : RowFor(w, row)[v] = IF v = w THEN row ELSE Keep
    BY DEF RowFor, NoRow
  <2>3. workItem' = ItemsWith(RowFor(w, row))
    BY DEF row
  <2> QED
    BY <2>1, <2>2, <2>3 DEF ItemsWith
<1>4. workItem'[w].status = "running" /\ workItem'[w].latestRun = new
  BY <1>3
<1>5. IsActive(new)'
  BY <1>2 DEF IsActive, ActiveStatus
<1> HIDE DEF row
<1>6. \A v \in WorkItems : v # w => \A q \in RunsOf(v) :
        runs'[q].status = runs[q].status /\ q \in RunIds' /\ IsActive(q)' = IsActive(q)
  BY <1>2 DEF RunsOf, IsActive
<1>7. LatestRunsOwn'
  BY <1>2, <1>3, <1>4 DEF OutcomeInv, LatestRunsOwn, OwnRun
<1>8. CompletedOnlyBySuccess'
  BY <1>2, <1>3, <1>4, <1>6 DEF OutcomeInv, CompletedOnlyBySuccess
<1>9. RunningHasActiveRun'
  BY <1>2, <1>3, <1>4, <1>5, <1>6 DEF OutcomeInv, RunningHasActiveRun
<1> QED
  BY <1>7, <1>8, <1>9 DEF RowsTell

\* What a settlement of a worker writes fits the result it records.
LEMMA SettlementFits ==
  ASSUME OutcomeInv, NEW k \in Workers,
         settleRunWithExpiredClaim(k)
           \/ \E result \in TaskResult : settleRunWithTaskResult(k, result)
  PROVE  RowsTell'
<1> DEFINE r == worker[k].run
           w == runs[r].item
<1>1. /\ TypeInv /\ worker[k].pc \in {"executing", "expired"}
  BY DEF OutcomeInv, RunInv, settleRunWithExpiredClaim, settleRunWithTaskResult
<1>2. r \in RunIds /\ worker[k].row \in ItemRow
  BY <1>1, ContextType
<1>3. r \in 0 .. Len(runs) /\ w \in WorkItems /\ r \in RunsOf(w)
  BY <1>1, <1>2, RunsFunction DEF TypeInv, RunIds, RunRow, RunsOf
<1>4. OwnRun(w, worker[k].row.latestRun)
  BY <1>1 DEF OutcomeInv, ContextsOwn
<1>5. \E row, st :
        /\ st \in TaskResult
        /\ workItem' = ItemsWith(RowFor(w, row))
        /\ runs' = RunsWith(r, st)
        /\ row.latestRun = worker[k].row.latestRun
        /\ row.status \in ItemStatus \ {"running"}
        /\ row.status = "completed" => st = "valid_success"
  <2>1. CASE settleRunWithExpiredClaim(k)
    <3> DEFINE row == [worker[k].row EXCEPT !.status = "escalated",
                                            !.reason = "claim_expired"]
    <3>1. workItem' = ItemsWith(RowFor(w, row)) /\ runs' = RunsWith(r, "cancelled")
      BY <2>1 DEF settleRunWithExpiredClaim, WorkerWrite
    <3>2. row.latestRun = worker[k].row.latestRun /\ row.status = "escalated"
      BY <1>2 DEF ItemRow
    <3> HIDE DEF row
    <3> QED
      BY <3>1, <3>2 DEF TaskResult, ItemStatus
  <2>2. ASSUME NEW result \in TaskResult, settleRunWithTaskResult(k, result)
        PROVE  \E row : /\ workItem' = ItemsWith(RowFor(w, row))
                        /\ runs' = RunsWith(r, result)
                        /\ row.latestRun = worker[k].row.latestRun
                        /\ row.status \in ItemStatus \ {"running"}
                        /\ row.status = "completed" => result = "valid_success"
    <3> DEFINE row == mapTaskResultToWorkItemStatus(worker[k].row, result,
                        isRetryBudgetExhausted(w, runs[r].attempt))
    <3>1. workItem' = ItemsWith(RowFor(w, row)) /\ runs' = RunsWith(r, result)
      BY <2>2 DEF settleRunWithTaskResult, WorkerWrite
    <3>2. /\ row.latestRun = worker[k].row.latestRun
          /\ row.status \in {"completed", "ready", "blocked", "cancelled"}
          /\ row.status = "completed" => result = "valid_success"
      BY <1>2, ResultRow
    <3> HIDE DEF row
    <3> QED
      BY <3>1, <3>2 DEF ItemStatus
  <2> QED
    BY <2>1, <2>2
<1>6. PICK row, st :
        /\ st \in TaskResult
        /\ workItem' = ItemsWith(RowFor(w, row))
        /\ runs' = RunsWith(r, st)
        /\ row.latestRun = worker[k].row.latestRun
        /\ row.status \in ItemStatus \ {"running"}
        /\ row.status = "completed" => st = "valid_success"
  BY <1>5
<1>7. row # Keep
  <2>1. Keep.status \notin ItemStatus
    BY DEF Keep, ItemStatus
  <2> QED
    BY <1>6, <2>1
<1>8. \A v \in WorkItems : RowFor(w, row)[v] = IF v = w THEN row ELSE Keep
  BY DEF RowFor, NoRow
<1> HIDE DEF r, w
<1>9. FittingRows(RowFor(w, row), r, st)
  BY <1>3, <1>4, <1>6, <1>7, <1>8 DEF FittingRows, r, w
<1> QED
  BY <1>3, <1>6, <1>9, RowsSettled

\* Every step keeps what rows tell of runs.
LEMMA OutcomeStep == OutcomeInv /\ [Next]_vars => OutcomeInv'
<1> SUFFICES ASSUME OutcomeInv, [Next]_vars
             PROVE  RowsTell'
  BY RunStep, PlannedFitStep, ContextsOwnStep DEF OutcomeInv, RowsTell
<1>1. /\ RunInv /\ TypeInv /\ TypeOK /\ Len(runs) \in Nat
      /\ \A r \in RunIds : runs[r] \in RunRow
      /\ DOMAIN runs = RunIds
  BY RunsFunction DEF OutcomeInv, RunInv, TypeInv
<1>2. ASSUME UNCHANGED <<workItem, runs>>
      PROVE  RowsTell'
  BY <1>2, RowsKept DEF RunIds
<1>3. ASSUME NEW c \in Operators, Begin(c)
      PROVE  RowsTell'
  <2>1. UNCHANGED <<workItem, runs>>
    BY <1>1, <1>3, BeginType
  <2> QED
    BY <1>2, <2>1
<1>4. ASSUME NEW c \in Operators, Commit(c)
      PROVE  RowsTell'
  <2>1. /\ request[c].op = "update"
        /\ workItem' = ItemsWith(request[c].rows)
        /\ runs' = RunsWith(request[c].run, request[c].outcome)
    BY <1>4 DEF Commit
  <2>2. request[c].run \in 0 .. Len(runs)
    BY <1>1, <2>1 DEF TypeInv, RunReferencesExist
  <2>3. request[c].outcome \in TaskResult
    <3>1. request[c] \in {NoRequest} \cup UpdateRequest \cup DispatchRequest
      BY <1>1 DEF TypeOK
    <3> QED
      BY <2>1, <3>1 DEF NoRequest, UpdateRequest, DispatchRequest
  <2>4. FittingRows(request[c].rows, request[c].run, request[c].outcome)
    BY <2>1 DEF OutcomeInv, PlannedFit
  <2> QED
    BY <2>1, <2>2, <2>3, <2>4, RowsSettled
<1>5. ASSUME NEW c \in Operators, CommitDispatch(c)
      PROVE  RowsTell'
  <2>1. PICK new : new = Len(runs) + 1
    OBVIOUS
  <2>2. /\ request[c] \in DispatchRequest
        /\ Len(runs') = Len(runs) + 1
        /\ \A q \in RunIds : runs'[q] = runs[q]
        /\ runs'[Len(runs) + 1] =
             [item |-> request[c].item, attempt |-> request[c].attempt,
              status |-> "queued", delay |-> 0]
    BY <1>1, <1>5, CommitDispatchType
  <2>3. /\ request[c].item \in WorkItems /\ Len(runs') = new
        /\ runs'[new].item = request[c].item /\ runs'[new].status = "queued"
    BY <2>1, <2>2 DEF DispatchRequest
  <2>4. workItem' = ItemsWith(RowFor(request[c].item,
                      [status |-> "running", reason |-> "none", latestRun |-> new]))
    BY <1>5, <2>1 DEF CommitDispatch
  <2> QED
    BY <2>1, <2>2, <2>3, <2>4, RowsStarted
<1>6. ASSUME NEW k \in Workers, scheduleRetry(k)
      PROVE  RowsTell'
  <2>1. PICK new : new = Len(runs) + 1
    OBVIOUS
  <2>2. PICK r : r = worker[k].run
    OBVIOUS
  <2>3. /\ r \in RunIds /\ Len(runs') = new
        /\ \A q \in RunIds :
             runs'[q] = IF q = r THEN [runs[q] EXCEPT !.status = "transient_failure"]
                        ELSE runs[q]
        /\ runs'[new].item = runs[r].item /\ runs'[new].status = "queued"
    BY <1>1, <1>6, <2>1, <2>2, RetryTables
  <2>4. \A q \in RunIds : /\ runs'[q].item = runs[q].item
                          /\ q # r => runs'[q].status = runs[q].status
    BY <1>1, <2>3 DEF RunRow
  <2>5. workItem' = ItemsWith(RowFor(runs[r].item,
                      [status |-> "running", reason |-> "none", latestRun |-> new]))
    BY <1>6, <2>1, <2>2 DEF scheduleRetry, WorkerWrite
  <2>6. runs[r].item \in WorkItems
    BY <1>1, <2>3 DEF RunRow
  <2> QED
    BY <2>1, <2>3, <2>4, <2>5, <2>6, RowsStarted
<1>7. ASSUME NEW k \in Workers, Dequeue(k)
      PROVE  RowsTell'
  <2>1. PICK r \in RunIds :
          runs[r].status = "queued" /\ runs' = [runs EXCEPT ![r].status = "running"]
    BY <1>7 DEF Dequeue
  <2>2. RunIds' = RunIds
    BY <1>1, <1>7, DequeueTables DEF RunIds
  <2>3. \A q \in RunIds :
          /\ runs'[q].item = runs[q].item
          /\ runs[q].status \in ActiveStatus => runs'[q].status \in ActiveStatus
          /\ runs[q].status = "valid_success" => runs'[q].status = "valid_success"
    BY <1>1, <2>1 DEF RunRow, ActiveStatus
  <2>4. UNCHANGED workItem
    BY <1>7 DEF Dequeue
  <2> QED
    BY <2>2, <2>3, <2>4, RowsKept
<1>8. ASSUME Tick
      PROVE  RowsTell'
  <2>1. UNCHANGED workItem /\ runs' = [r \in RunIds |-> [runs[r] EXCEPT !.delay = Lower(@)]]
    BY <1>8 DEF Tick
  <2>2. RunIds' = RunIds
    BY <1>1, <1>8, TickTables DEF RunIds
  <2>3. \A q \in RunIds : runs'[q].item = runs[q].item /\ runs'[q].status = runs[q].status
    BY <1>1, <2>1 DEF RunRow
  <2> QED
    BY <2>1, <2>2, <2>3, RowsKept
<1>9. ASSUME NEW k \in Workers, ReadContext(k) \/ WorkerCrash(k)
      PROVE  RowsTell'
  BY <1>2, <1>9 DEF ReadContext, WorkerCrash
<1>10. ASSUME NEW c \in Operators, Rollback(c)
       PROVE  RowsTell'
  BY <1>2, <1>10 DEF Rollback
<1>11. CASE UNCHANGED vars
  BY <1>2, <1>11 DEF vars
<1>12. QED
  BY <1>3, <1>4, <1>5, <1>6, <1>7, <1>8, <1>9, <1>10, <1>11, SettlementFits
  DEF Next, OperatorStep, WorkerStep

LEMMA OutcomeInit == Init => OutcomeInv
<1> SUFFICES ASSUME Init
             PROVE  OutcomeInv
  OBVIOUS
<1>1. PlannedFit /\ ContextsOwn
  BY DEF Init, PlannedFit, ContextsOwn, NoRequest, IdleWorker
<1>2. LatestRunsOwn /\ CompletedOnlyBySuccess /\ RunningHasActiveRun
  BY DEF Init, InitialItem, LatestRunsOwn, OwnRun, CompletedOnlyBySuccess,
         RunningHasActiveRun
<1> QED
  BY <1>1, <1>2, RunInit DEF OutcomeInv

\* An item shown as completed has a run that succeeded, although every writer of the
\* row overwrites it from an older read, and may overwrite the outcome of a run.
THEOREM CompletedBySuccess == Spec => []CompletedOnlyBySuccess
<1>1. OutcomeInv => CompletedOnlyBySuccess
  BY DEF OutcomeInv
<1>2. QED BY <1>1, OutcomeInit, OutcomeStep, PTL DEF Spec

\* An item shown as running has a queued or running run: no row written from an
\* older read brings running back after the run ended.
THEOREM RunningIsRunning == Spec => []RunningHasActiveRun
<1>1. OutcomeInv => RunningHasActiveRun
  BY DEF OutcomeInv
<1>2. QED BY <1>1, OutcomeInit, OutcomeStep, PTL DEF Spec

-----------------------------------------------------------------------------
(* The history of an item's attempts. *)

\* The rows S of a table are numbered from 1 by their attempts.
Numbered(table, S) ==
  /\ IsFiniteSet(S)
  /\ Cardinality(S) \in Nat
  /\ {table[r].attempt : r \in S} = 1 .. Cardinality(S)

\* Every attempt of a numbered table has its one row.
LEMMA NumberedRun ==
  ASSUME NEW table, NEW S, Numbered(table, S)
  PROVE  /\ \A r \in S : /\ table[r].attempt \in 1 .. Cardinality(S)
                         /\ runNumbered(table, S, table[r].attempt) = r
         /\ \A n \in 1 .. Cardinality(S) :
              /\ runNumbered(table, S, n) \in S
              /\ table[runNumbered(table, S, n)].attempt = n
<1> DEFINE f == [r \in S |-> table[r].attempt]
           N == 1 .. Cardinality(S)
<1>1. IsFiniteSet(N) /\ Cardinality(N) = Cardinality(S)
  BY FS_Interval DEF Numbered
<1>2. \A r \in S : table[r].attempt \in N
  BY DEF Numbered
<1>3. \A n \in N : \E r \in S : table[r].attempt = n
  BY DEF Numbered
<1>4. f \in Surjection(S, N)
  BY <1>2, <1>3 DEF Surjection
<1>5. f \in Injection(S, N)
  BY <1>1, <1>4, FS_SurjSameCardinalityImpliesInj DEF Numbered
<1>6. \A q, r \in S : table[q].attempt = table[r].attempt => q = r
  BY <1>5 DEF Injection, IsInjective
<1> QED
  BY <1>2, <1>3, <1>6 DEF runNumbered

\* Rows that keep attempt and status have the same outcomes.
LEMMA OutcomesKept ==
  ASSUME NEW table, NEW next, NEW S, Numbered(table, S),
         \A q \in S : /\ next[q].attempt = table[q].attempt
                      /\ next[q].status = table[q].status
  PROVE  outcomesOf(next, S) = outcomesOf(table, S)
<1>1. {next[q].attempt : q \in S} = {table[q].attempt : q \in S}
  OBVIOUS
<1>2. Numbered(next, S)
  BY <1>1 DEF Numbered
<1>3. ASSUME NEW n \in 1 .. Cardinality(S)
      PROVE  next[runNumbered(next, S, n)].status = table[runNumbered(table, S, n)].status
  <2> DEFINE r == runNumbered(table, S, n)
  <2>1. r \in S /\ table[r].attempt = n
    BY <1>3, NumberedRun
  <2> HIDE DEF r
  <2>2. next[r].attempt = n
    BY <2>1
  <2>3. runNumbered(next, S, n) = r
    BY <1>2, <2>1, <2>2, NumberedRun
  <2> QED
    BY <2>1, <2>3 DEF r
<1> QED
  BY <1>3 DEF outcomesOf

\* Of the rows S only that of r changes, to the status st.
RowGiven(table, next, S, r, st) ==
  \A q \in S : /\ next[q].attempt = table[q].attempt
               /\ next[q].status = IF q = r THEN st ELSE table[q].status

\* The outcomes h with that of attempt n replaced by st.
WithOutcome(h, n, st) == [h EXCEPT ![n] = st]

\* A row that gets another status changes the outcome of its attempt.
LEMMA OutcomeChanged ==
  ASSUME NEW table, NEW next, NEW S, Numbered(table, S), NEW r \in S, NEW st,
         RowGiven(table, next, S, r, st)
  PROVE  /\ Numbered(next, S)
         /\ outcomesOf(next, S) = WithOutcome(outcomesOf(table, S), table[r].attempt, st)
<1> USE DEF RowGiven
<1>1. {next[q].attempt : q \in S} = {table[q].attempt : q \in S}
  OBVIOUS
<1>2. Numbered(next, S)
  BY <1>1 DEF Numbered
<1>3. ASSUME NEW n \in 1 .. Cardinality(S)
      PROVE  next[runNumbered(next, S, n)].status
               = IF n = table[r].attempt THEN st ELSE table[runNumbered(table, S, n)].status
  <2> DEFINE q == runNumbered(table, S, n)
  <2>1. q \in S /\ table[q].attempt = n
    BY <1>3, NumberedRun
  <2>2. n = table[r].attempt <=> q = r
    BY <2>1, NumberedRun
  <2> HIDE DEF q
  <2>3. runNumbered(next, S, n) = q
    BY <1>2, <2>1, NumberedRun
  <2> QED
    BY <2>1, <2>2, <2>3 DEF q
<1> DEFINE old == [n \in 1 .. Cardinality(S) |-> table[runNumbered(table, S, n)].status]
<1>4. [n \in 1 .. Cardinality(S) |-> next[runNumbered(next, S, n)].status]
        = [n \in 1 .. Cardinality(S) |-> IF n = table[r].attempt THEN st ELSE old[n]]
  BY <1>3
<1>5. outcomesOf(next, S) = [old EXCEPT ![table[r].attempt] = st]
  BY <1>4 DEF outcomesOf
<1> QED
  BY <1>2, <1>5 DEF outcomesOf, WithOutcome

\* A row with the next attempt adds its outcome.
LEMMA OutcomeAdded ==
  ASSUME NEW table, NEW next, NEW S, Numbered(table, S), NEW new, new \notin S,
         \A q \in S : /\ next[q].attempt = table[q].attempt
                      /\ next[q].status = table[q].status,
         next[new].attempt = Cardinality(S) + 1
  PROVE  outcomesOf(next, S \cup {new}) = Append(outcomesOf(table, S), next[new].status)
<1> DEFINE n == Cardinality(S)
           T == S \cup {new}
<1>1. n \in Nat /\ IsFiniteSet(T) /\ Cardinality(T) = n + 1
  BY FS_AddElement DEF Numbered
<1>2. Numbered(next, T)
  <2>1. {next[q].attempt : q \in T} = {table[q].attempt : q \in S} \cup {n + 1}
    OBVIOUS
  <2>2. {table[q].attempt : q \in S} = 1 .. n
    BY DEF Numbered
  <2>3. (1 .. n) \cup {n + 1} = 1 .. (n + 1)
    BY <1>1
  <2>4. {next[q].attempt : q \in T} = 1 .. Cardinality(T)
    BY <1>1, <2>1, <2>2, <2>3
  <2> HIDE DEF T
  <2> QED
    BY <1>1, <2>4 DEF Numbered
<1>3. ASSUME NEW k \in 1 .. n
      PROVE  next[runNumbered(next, T, k)].status = table[runNumbered(table, S, k)].status
  <2> DEFINE q == runNumbered(table, S, k)
  <2>1. q \in S /\ table[q].attempt = k
    BY <1>3, NumberedRun
  <2> HIDE DEF q
  <2>2. q \in T /\ next[q].attempt = k
    BY <2>1
  <2>3. runNumbered(next, T, k) = q
    BY <1>2, <2>2, NumberedRun
  <2> QED
    BY <2>1, <2>3 DEF q
<1>4. runNumbered(next, T, n + 1) = new
  <2>1. new \in T /\ next[new].attempt = n + 1
    OBVIOUS
  <2> HIDE DEF n, T
  <2> QED
    BY <1>2, <2>1, NumberedRun
<1> DEFINE old == [k \in 1 .. n |-> table[runNumbered(table, S, k)].status]
           st == next[new].status
<1>5. [k \in 1 .. (n + 1) |-> next[runNumbered(next, T, k)].status]
        = [k \in 1 .. (n + 1) |-> IF k = n + 1 THEN st ELSE old[k]]
  <2>1. ASSUME NEW k \in 1 .. (n + 1)
        PROVE  next[runNumbered(next, T, k)].status = IF k = n + 1 THEN st ELSE old[k]
    <3>1. CASE k = n + 1
      BY <1>4, <3>1
    <3>2. CASE k # n + 1
      <4>1. k \in 1 .. n
        BY <1>1, <3>2
      <4> QED
        BY <1>3, <3>2, <4>1
    <3> QED
      BY <3>1, <3>2
  <2> QED
    BY <2>1
<1>6. Append(old, st) = [k \in 1 .. (n + 1) |-> IF k = n + 1 THEN st ELSE old[k]]
  <2> HIDE DEF n, st
  <2>1. old \in Seq({old[k] : k \in 1 .. n}) /\ Len(old) = n
    BY <1>1
  <2> QED
    BY <1>1, <2>1
<1> QED
  BY <1>1, <1>5, <1>6 DEF outcomesOf

LEMMA RunsNumbered ==
  ASSUME AttemptInv, NEW w \in WorkItems
  PROVE  Numbered(runs, RunsOf(w))
BY RunCountType DEF Numbered, AttemptInv, AttemptsWithinBudget, RunInv, TypeInv

LEMMA HistoryLength ==
  ASSUME AttemptInv, NEW w \in WorkItems
  PROVE  /\ Len(attemptHistory[w]) = Cardinality(RunsOf(w))
         /\ Len(attemptHistory[w]) \in Nat
<1>1. Cardinality(RunsOf(w)) \in Nat
  BY RunsNumbered DEF Numbered
<1> QED
  BY <1>1 DEF attemptHistory, outcomesOf

SameOutcomes ==
  /\ Len(runs') = Len(runs)
  /\ \A q \in RunIds : /\ runs'[q].item = runs[q].item
                       /\ runs'[q].attempt = runs[q].attempt
                       /\ runs'[q].status = runs[q].status
StatusSet(r, st) ==
  /\ Len(runs') = Len(runs)
  /\ \A q \in RunIds : /\ runs'[q].item = runs[q].item
                       /\ runs'[q].attempt = runs[q].attempt
                       /\ runs'[q].status = IF q = r THEN st ELSE runs[q].status

LEMMA RunsWithSets ==
  ASSUME TypeInv, NEW r \in 0 .. Len(runs), NEW st \in TaskResult, runs' = RunsWith(r, st)
  PROVE  SameOutcomes \/ (r \in RunIds /\ StatusSet(r, st))
<1>1. TypeOK /\ st \in RunStatus /\ Len(runs) \in Nat
  BY RunsFunction DEF TypeInv, RunStatus
<1>2. /\ Len(runs') = Len(runs)
      /\ \A q \in RunIds : runs'[q] = IF q = r THEN [runs[q] EXCEPT !.status = st]
                                      ELSE runs[q]
  BY <1>1, RunsWithType
<1>3. \A q \in RunIds : runs[q] \in RunRow
  BY <1>1, RunsFunction
<1>4. CASE r = 0
  <2>1. r \notin RunIds
    BY <1>1, <1>4 DEF RunIds
  <2>2. \A q \in RunIds : runs'[q] = runs[q]
    BY <1>2, <2>1
  <2> QED
    BY <1>2, <2>2 DEF SameOutcomes
<1>5. CASE r # 0
  <2>1. r \in RunIds
    BY <1>1, <1>5 DEF RunIds
  <2>2. StatusSet(r, st)
    BY <1>2, <1>3 DEF StatusSet, RunRow
  <2> QED
    BY <2>1, <2>2
<1> QED
  BY <1>4, <1>5

\* A step gives at most one run a result, or is a dispatch, a dequeue or a retry.
LEMMA OutcomeKinds ==
  ASSUME TypeInv, [Next]_vars
  PROVE  \/ SameOutcomes
         \/ \E r \in RunIds, st \in TaskResult : StatusSet(r, st)
         \/ \E c \in Operators : CommitDispatch(c)
         \/ \E k \in Workers : Dequeue(k) \/ scheduleRetry(k)
<1>1. TypeOK /\ Len(runs) \in Nat
  BY RunsFunction DEF TypeInv
<1>2. ASSUME UNCHANGED runs
      PROVE  SameOutcomes
  BY <1>2 DEF SameOutcomes
<1>3. ASSUME NEW c \in Operators, Commit(c)
      PROVE  SameOutcomes \/ \E r \in RunIds, st \in TaskResult : StatusSet(r, st)
  <2>1. runs' = RunsWith(request[c].run, request[c].outcome) /\ request[c].op = "update"
    BY <1>3 DEF Commit
  <2>2. request[c].run \in 0 .. Len(runs)
    BY <2>1 DEF TypeInv, RunReferencesExist
  <2>3. request[c].outcome \in TaskResult
    <3>1. request[c] \in {NoRequest} \cup UpdateRequest \cup DispatchRequest
      BY <1>1 DEF TypeOK
    <3> QED
      BY <2>1, <3>1 DEF NoRequest, UpdateRequest, DispatchRequest
  <2> QED
    BY <2>1, <2>2, <2>3, RunsWithSets
<1>4. ASSUME NEW k \in Workers,
             settleRunWithExpiredClaim(k)
               \/ \E result \in TaskResult : settleRunWithTaskResult(k, result)
      PROVE  SameOutcomes \/ \E r \in RunIds, st \in TaskResult : StatusSet(r, st)
  <2>1. PICK st \in TaskResult : runs' = RunsWith(worker[k].run, st)
    BY <1>4, SettleTables
  <2>2. worker[k].run \in RunIds
    BY <1>4, ContextType DEF settleRunWithExpiredClaim, settleRunWithTaskResult
  <2>3. worker[k].run \in 0 .. Len(runs)
    BY <1>1, <2>2 DEF RunIds
  <2> QED
    BY <2>1, <2>3, RunsWithSets
<1>5. ASSUME Tick
      PROVE  SameOutcomes
  BY <1>5, TickTables DEF SameOutcomes
<1>6. ASSUME NEW c \in Operators, Begin(c) \/ Rollback(c)
      PROVE  SameOutcomes
  BY <1>2, <1>6, BeginType DEF Rollback
<1>7. ASSUME NEW k \in Workers, ReadContext(k) \/ WorkerCrash(k)
      PROVE  SameOutcomes
  BY <1>2, <1>7 DEF ReadContext, WorkerCrash
<1>8. CASE UNCHANGED vars
  BY <1>2, <1>8 DEF vars
<1> QED
  BY <1>3, <1>4, <1>5, <1>6, <1>7, <1>8 DEF Next, OperatorStep, WorkerStep

LEMMA HistoryKept ==
  ASSUME AttemptInv, SameOutcomes
  PROVE  attemptHistory' = attemptHistory
<1>1. ASSUME NEW w \in WorkItems
      PROVE  outcomesOf(runs, RunsOf(w))' = outcomesOf(runs, RunsOf(w))
  <2>1. RunsOf(w)' = RunsOf(w)
    BY DEF SameOutcomes, RunsOf, RunIds
  <2>2. outcomesOf(runs', RunsOf(w)) = outcomesOf(runs, RunsOf(w))
    BY RunsNumbered, OutcomesKept DEF SameOutcomes, RunsOf
  <2> QED
    BY <2>1, <2>2
<1> QED
  BY <1>1 DEF attemptHistory

\* A run that gets a status gives it to its attempt in the history of its item.
LEMMA HistorySet ==
  ASSUME AttemptInv, NEW r \in RunIds, NEW st, StatusSet(r, st)
  PROVE  LET w == runs[r].item
             n == runs[r].attempt
         IN  /\ w \in WorkItems /\ n \in 1 .. Len(attemptHistory[w])
             /\ attemptHistory[w][n] = runs[r].status
             /\ attemptHistory' = [attemptHistory EXCEPT ![w] =
                  [attemptHistory[w] EXCEPT ![n] = st]]
<1> DEFINE w == runs[r].item
           n == runs[r].attempt
<1>1. TypeOK /\ w \in WorkItems /\ r \in RunsOf(w)
  BY RunsFunction DEF AttemptInv, RunInv, TypeInv, RunRow, RunsOf
<1>2. Numbered(runs, RunsOf(w))
  BY <1>1, RunsNumbered
<1>3. n \in 1 .. Len(attemptHistory[w])
  BY <1>1, <1>2, NumberedRun, HistoryLength
<1>4. attemptHistory[w][n] = runs[r].status
  <2>1. runNumbered(runs, RunsOf(w), n) = r /\ n \in 1 .. Cardinality(RunsOf(w))
    BY <1>1, <1>2, NumberedRun
  <2> QED
    BY <1>1, <2>1 DEF attemptHistory, outcomesOf
<1>5. \A v : RunsOf(v)' = RunsOf(v)
  BY DEF StatusSet, RunsOf, RunIds
<1>6. outcomesOf(runs', RunsOf(w)) = [outcomesOf(runs, RunsOf(w)) EXCEPT ![n] = st]
  <2>1. RowGiven(runs, runs', RunsOf(w), r, st)
    BY DEF StatusSet, RunsOf, RowGiven
  <2>2. outcomesOf(runs', RunsOf(w))
          = WithOutcome(outcomesOf(runs, RunsOf(w)), runs[r].attempt, st)
    BY <1>1, <1>2, <2>1, OutcomeChanged
  <2> QED
    BY <2>2 DEF WithOutcome
<1>7. ASSUME NEW v \in WorkItems, v # w
      PROVE  outcomesOf(runs', RunsOf(v)) = outcomesOf(runs, RunsOf(v))
  <2>1. \A q \in RunsOf(v) : /\ runs'[q].attempt = runs[q].attempt
                             /\ runs'[q].status = runs[q].status
    BY <1>7 DEF StatusSet, RunsOf
  <2> QED
    BY <2>1, RunsNumbered, OutcomesKept
<1>8. attemptHistory' = [v \in WorkItems |-> outcomesOf(runs', RunsOf(v))]
  BY <1>5 DEF attemptHistory
<1>9. attemptHistory' = [attemptHistory EXCEPT ![w] = [attemptHistory[w] EXCEPT ![n] = st]]
  BY <1>1, <1>6, <1>7, <1>8 DEF attemptHistory
<1> QED
  BY <1>1, <1>3, <1>4, <1>9

\* The run of a dispatch is the first attempt of its item.
LEMMA DispatchBegins ==
  ASSUME AttemptInv, NEW c \in Operators, CommitDispatch(c)
  PROVE  \E w \in WorkItems : Attempts!Dispatch(w)
<1> DEFINE w == request[c].item
           new == Len(runs) + 1
<1>1. RunInv /\ TypeInv /\ TypeOK
  BY DEF AttemptInv, RunInv, TypeInv
<1>2. /\ request[c] \in DispatchRequest
      /\ Len(runs') = Len(runs) + 1
      /\ \A q \in RunIds : runs'[q] = runs[q]
      /\ runs'[new] = [item |-> w, attempt |-> request[c].attempt,
                       status |-> "queued", delay |-> 0]
  BY <1>1, CommitDispatchType
<1>3. w \in WorkItems
  BY <1>2 DEF DispatchRequest
<1>4. RunsOf(w) = {}
  BY <1>1, DispatchKeeps DEF RunsOf
<1>5. request[c].attempt = 1 /\ AttemptBudget[w] > 0
  BY <1>4 DEF AttemptInv, PlannedFirst, CommitDispatch
<1>6. \A v : RunsOf(v)' = IF v = w THEN {new} ELSE RunsOf(v)
  <2>1. runs'[new].item = w /\ \A q \in RunIds : runs'[q].item = runs[q].item
    BY <1>2
  <2> HIDE DEF w, new
  <2>2. \A v : RunsOf(v)' = IF v = w THEN RunsOf(v) \cup {new} ELSE RunsOf(v)
    BY <1>1, <1>2, <2>1, RunAdded DEF new
  <2>3. RunsOf(w) \cup {new} = {new}
    BY <1>4
  <2>4. ASSUME NEW v
        PROVE  RunsOf(v)' = IF v = w THEN {new} ELSE RunsOf(v)
    BY <2>2, <2>3
  <2> QED
    BY <2>4
<1>7. outcomesOf(runs', {new}) = <<"queued">>
  <2>1. runs'[new].status = "queued" /\ runs'[new].attempt = 1
    BY <1>2, <1>5
  <2> HIDE DEF new
  <2>2. Cardinality({new}) = 1
    BY FS_Singleton
  <2>3. (CHOOSE r \in {new} : runs'[r].attempt = 1) = new
    BY <2>1
  <2>4. outcomesOf(runs', {new}) = [n \in 1 .. 1 |-> runs'[runNumbered(runs', {new}, n)].status]
    BY <2>2 DEF outcomesOf
  <2>5. \A n \in 1 .. 1 : runs'[runNumbered(runs', {new}, n)].status = "queued"
    <3> SUFFICES ASSUME NEW n \in 1 .. 1
                 PROVE  runs'[runNumbered(runs', {new}, n)].status = "queued"
      OBVIOUS
    <3>1. n = 1
      OBVIOUS
    <3> QED
      BY <2>1, <2>3, <3>1 DEF runNumbered
  <2> QED
    BY <2>4, <2>5
<1>8. ASSUME NEW v \in WorkItems, v # w
      PROVE  outcomesOf(runs', RunsOf(v)) = outcomesOf(runs, RunsOf(v))
  <2>1. \A q \in RunsOf(v) : runs'[q] = runs[q]
    BY <1>2 DEF RunsOf
  <2> QED
    BY <2>1, RunsNumbered, OutcomesKept
<1>9. attemptHistory[w] = << >>
  <2>1. Cardinality(RunsOf(w)) = 0
    BY <1>4, FS_EmptySet
  <2> QED
    BY <1>3, <2>1 DEF attemptHistory, outcomesOf
<1> HIDE DEF w, new
<1>10. attemptHistory' = [attemptHistory EXCEPT ![w] = <<"queued">>]
  BY <1>3, <1>6, <1>7, <1>8 DEF attemptHistory
<1> QED
  BY <1>3, <1>5, <1>9, <1>10 DEF Attempts!Dispatch, w

LEMMA DequeueStarts ==
  ASSUME AttemptInv, NEW k \in Workers, Dequeue(k)
  PROVE  \E w \in WorkItems : Attempts!Dequeue(w)
<1>1. PICK r \in RunIds : /\ runs[r].status = "queued"
                          /\ runs' = [runs EXCEPT ![r].status = "running"]
  BY DEF Dequeue
<1>2. TypeInv /\ TypeOK
  BY DEF AttemptInv, RunInv, TypeInv
<1>3. StatusSet(r, "running")
  <2>1. Len(runs') = Len(runs)
    BY <1>2, DequeueTables
  <2>2. DOMAIN runs = RunIds /\ \A q \in RunIds : runs[q] \in RunRow
    BY <1>2, RunsFunction
  <2> QED
    BY <1>1, <2>1, <2>2 DEF StatusSet, RunRow
<1>4. IsActive(r)
  BY <1>1 DEF IsActive, ActiveStatus
<1> DEFINE w == runs[r].item
           n == runs[r].attempt
<1>5. /\ w \in WorkItems /\ n \in 1 .. Len(attemptHistory[w])
      /\ attemptHistory[w][n] = "queued"
      /\ attemptHistory' = [attemptHistory EXCEPT ![w] = [attemptHistory[w] EXCEPT ![n] = "running"]]
  BY <1>1, <1>3, HistorySet
<1>6. n = Len(attemptHistory[w])
  BY <1>4, <1>5, HistoryLength DEF AttemptInv, LatestAttempts
<1>7. attemptHistory[w] # << >>
  BY <1>5
<1> HIDE DEF w, n
<1> QED
  BY <1>5, <1>6, <1>7 DEF Attempts!Dequeue, Attempts!Latest, Attempts!Given

\* A retry follows the last attempt of its item, which is not in the queue.
LEMMA RetryFollows ==
  ASSUME AttemptInv, NEW k \in Workers, scheduleRetry(k)
  PROVE  \E w \in WorkItems : Attempts!Retry(w)
<1> DEFINE r == worker[k].run
           w == runs[r].item
           m == Cardinality(RunsOf(w))
           new == Len(runs) + 1
           failed == [q \in RunsOf(w) |->
             [attempt |-> runs[q].attempt,
              status |-> IF q = r THEN "transient_failure" ELSE runs[q].status]]
<1>1. RunInv /\ TypeInv /\ TypeOK
  BY DEF AttemptInv, RunInv, TypeInv
<1>2. /\ r \in RunIds /\ Len(runs') = Len(runs) + 1
      /\ \A q \in RunIds :
           runs'[q] = IF q = r THEN [runs[q] EXCEPT !.status = "transient_failure"]
                      ELSE runs[q]
      /\ runs'[new].item = w
      /\ runs'[new].attempt = runs[r].attempt + 1
      /\ runs'[new].status = "queued"
  BY <1>1, RetryTables
<1>3. \A q \in RunIds :
        /\ runs'[q].item = runs[q].item
        /\ runs'[q].attempt = runs[q].attempt
        /\ runs'[q].status = IF q = r THEN "transient_failure" ELSE runs[q].status
        /\ runs[q].item \in WorkItems
  BY <1>1, <1>2, RunsFunction DEF RunRow
<1>4. w \in WorkItems /\ r \in RunsOf(w)
  BY <1>2, <1>3 DEF RunsOf
<1>5. Busy(k) /\ Held(r)
  BY DEF scheduleRetry, Held, Busy
<1>6. runs[r].attempt = m /\ m < AttemptBudget[w] /\ m \in Nat
  BY <1>2, <1>4, <1>5, RunsNumbered DEF AttemptInv, LatestAttempts, scheduleRetry,
     RetryDispatched, Numbered
<1>7. runs[r].status # "queued"
  BY <1>1, <1>5 DEF RunInv, HeldRunsExclusive
<1> HIDE DEF r, w, m, new
<1>8. /\ new \notin RunIds
      /\ \A v : RunsOf(v)' = IF v = w THEN RunsOf(v) \cup {new} ELSE RunsOf(v)
  BY <1>1, <1>2, <1>3, RunAdded DEF new
<1>9. /\ Numbered(failed, RunsOf(w))
      /\ outcomesOf(failed, RunsOf(w))
           = [outcomesOf(runs, RunsOf(w)) EXCEPT ![m] = "transient_failure"]
  <2>1. RowGiven(runs, failed, RunsOf(w), r, "transient_failure")
    BY DEF RowGiven
  <2> HIDE DEF failed
  <2>2. Numbered(runs, RunsOf(w))
    BY <1>4, RunsNumbered
  <2>3. /\ Numbered(failed, RunsOf(w))
        /\ outcomesOf(failed, RunsOf(w))
             = WithOutcome(outcomesOf(runs, RunsOf(w)), runs[r].attempt, "transient_failure")
    BY <1>4, <2>1, <2>2, OutcomeChanged
  <2> QED
    BY <1>6, <2>3 DEF WithOutcome
<1>10. outcomesOf(runs', RunsOf(w) \cup {new})
         = Append(outcomesOf(failed, RunsOf(w)), "queued")
  <2>1. \A q \in RunsOf(w) : /\ runs'[q].attempt = failed[q].attempt
                             /\ runs'[q].status = failed[q].status
    BY <1>3 DEF RunsOf
  <2>2. new \notin RunsOf(w) /\ runs'[new].attempt = m + 1
    BY <1>2, <1>6, <1>8 DEF RunsOf
  <2> HIDE DEF failed
  <2> QED
    BY <1>2, <1>9, <2>1, <2>2, OutcomeAdded DEF m
<1>11. ASSUME NEW v \in WorkItems, v # w
       PROVE  outcomesOf(runs', RunsOf(v)) = outcomesOf(runs, RunsOf(v))
  <2>1. \A q \in RunsOf(v) : /\ runs'[q].attempt = runs[q].attempt
                             /\ runs'[q].status = runs[q].status
    BY <1>3, <1>4, <1>11 DEF RunsOf
  <2> QED
    BY <2>1, RunsNumbered, OutcomesKept
<1>12. attemptHistory' = [attemptHistory EXCEPT ![w] =
         Append([attemptHistory[w] EXCEPT ![m] = "transient_failure"], "queued")]
  <2> HIDE DEF failed
  <2> QED
    BY <1>4, <1>8, <1>9, <1>10, <1>11 DEF attemptHistory
<1>13. /\ Len(attemptHistory[w]) = m /\ m \in 1 .. m
       /\ attemptHistory[w][m] = runs[r].status
  <2>1. runNumbered(runs, RunsOf(w), m) = r /\ m \in 1 .. Cardinality(RunsOf(w))
    BY <1>4, <1>6, RunsNumbered, NumberedRun
  <2>2. Len(attemptHistory[w]) = m
    BY <1>4, HistoryLength DEF m
  <2> QED
    BY <1>4, <2>1, <2>2 DEF attemptHistory, outcomesOf, m
<1>14. attemptHistory[w] # << >>
  BY <1>13
<1> QED
  BY <1>4, <1>6, <1>7, <1>12, <1>13, <1>14
  DEF Attempts!Retry, Attempts!Latest, Attempts!Given

LEMMA HistorySteps ==
  AttemptInv /\ [Next]_vars => [Attempts!Next]_attemptHistory
<1> SUFFICES ASSUME AttemptInv, [Next]_vars
             PROVE  Attempts!Next \/ UNCHANGED attemptHistory
  OBVIOUS
<1>1. TypeInv
  BY DEF AttemptInv, RunInv
<1>2. ASSUME NEW r \in RunIds, NEW st \in TaskResult, StatusSet(r, st)
      PROVE  Attempts!Next
  <2> DEFINE w == runs[r].item
             n == runs[r].attempt
  <2>1. /\ w \in WorkItems /\ n \in 1 .. Len(attemptHistory[w])
        /\ attemptHistory' = [attemptHistory EXCEPT ![w] = [attemptHistory[w] EXCEPT ![n] = st]]
    BY <1>2, HistorySet
  <2> HIDE DEF w, n
  <2>2. Attempts!Settle(w, n, st)
    BY <2>1 DEF Attempts!Settle, Attempts!Given
  <2> QED
    BY <2>1, <2>2 DEF Attempts!Next
<1>3. ASSUME NEW c \in Operators, CommitDispatch(c)
      PROVE  Attempts!Next
  BY <1>3, DispatchBegins DEF Attempts!Next
<1>4. ASSUME NEW k \in Workers, Dequeue(k) \/ scheduleRetry(k)
      PROVE  Attempts!Next
  BY <1>4, DequeueStarts, RetryFollows DEF Attempts!Next
<1> QED
  BY <1>1, <1>2, <1>3, <1>4, HistoryKept, OutcomeKinds

LEMMA HistoryInit == Init => Attempts!Init
<1> SUFFICES ASSUME Init
             PROVE  Attempts!Init
  OBVIOUS
<1>1. \A w : RunsOf(w) = {} /\ Cardinality(RunsOf(w)) = 0
  BY FS_EmptySet DEF Init, RunsOf, RunIds
<1>2. \A w : outcomesOf(runs, RunsOf(w)) = << >>
  BY <1>1 DEF outcomesOf
<1> QED
  BY <1>2 DEF attemptHistory, Attempts!Init

\* However dispatches, retries, settlements, cancellations and crashes interleave, a work
\* item goes through one attempt after the other (acquireClaimLease, dequeueQueuedRun,
\* scheduleRetry): what the rows of its runs show is a history of AttemptHistory.
THEOREM AttemptRefinement == Spec => ImplementsAttemptHistory
<1>1. Spec => Attempts!Init /\ [][Attempts!Next]_attemptHistory
  BY AttemptInit, AttemptStep, HistoryInit, HistorySteps, PTL DEF Spec
<1> QED
  BY <1>1 DEF ImplementsAttemptHistory, Attempts!Spec
=============================================================================
