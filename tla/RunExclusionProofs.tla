-------------------------- MODULE RunExclusionProofs --------------------------
(***************************************************************************)
(* Theorems about the runs of a work item: at most one is active, they are *)
(* numbered without gap up to the attempt budget, none precedes the        *)
(* decision of an approval, and none is dequeued twice.  No handler checks *)
(* any of this where it creates a run; it follows from what the claim row  *)
(* of an item and the worker that holds a run say about the others.        *)
(***************************************************************************)
EXTENDS RunLifecycleProofs

\* An item that has no claim row has no run: acquireClaimLease, in the transaction
\* that inserts the first run, inserts the row, and nothing deletes it.
RunsHaveClaims == \A r \in RunIds : claim[runs[r].item].status # "none"

Busy(k) == worker[k].pc # "idle"
Held(r) == \E k \in Workers : Busy(k) /\ worker[k].run = r

\* The run a worker holds has left the queue and no other run of its item is active.
HeldRunsExclusive ==
  \A k \in Workers :
    Busy(k) =>
      /\ runs[worker[k].run].status # "queued"
      /\ \A q \in RunIds :
           runs[q].item = runs[worker[k].run].item /\ IsActive(q) => q = worker[k].run

OneWorkerPerItem ==
  \A j, k \in Workers :
    /\ Busy(j) /\ Busy(k)
    /\ runs[worker[j].run].item = runs[worker[k].run].item
    => j = k

RunInv ==
  /\ TypeInv
  /\ RunsHaveClaims
  /\ OneActiveRunPerItem
  /\ HeldRunsExclusive
  /\ OneWorkerPerItem

-----------------------------------------------------------------------------
(* What a step does to the runs. *)

\* No run is created, activated or put back, and no run is taken by a worker.
NoNewRun ==
  /\ Len(runs') = Len(runs)
  /\ \A q \in RunIds :
       /\ runs'[q].item = runs[q].item
       /\ runs'[q].attempt = runs[q].attempt
       /\ runs'[q].status \in ActiveStatus => runs[q].status \in ActiveStatus
       /\ runs'[q].status = "queued" => runs[q].status = "queued"
  /\ \A w \in WorkItems : claim'[w].status = "none" => claim[w].status = "none"
  /\ \A k \in Workers :
       worker'[k].pc # "idle" => Busy(k) /\ worker'[k].run = worker[k].run

\* Settling a run and ending its claims.
LEMMA SettleNoNewRun ==
  ASSUME TypeInv, NEW r \in 0 .. Len(runs), NEW st \in TaskResult,
         NEW how \in {"released", "expired"},
         runs' = RunsWith(r, st), claim' = releaseClaimLeaseByRunId(r, how),
         \A k \in Workers :
           worker'[k].pc # "idle" => Busy(k) /\ worker'[k].run = worker[k].run
  PROVE  NoNewRun
<1>1. TypeOK /\ st \in RunStatus /\ st \notin ActiveStatus /\ st # "queued"
  BY DEF TypeInv, RunStatus, TaskResult, ActiveStatus
<1>2. /\ Len(runs') = Len(runs)
      /\ \A q \in RunIds : runs'[q] = IF q = r THEN [runs[q] EXCEPT !.status = st]
                                      ELSE runs[q]
  BY <1>1, RunsWithType
<1>3. \A q \in RunIds : runs[q] \in RunRow
  BY <1>1, RunsFunction
<1>4. \A q \in RunIds :
        /\ runs'[q].item = runs[q].item
        /\ runs'[q].attempt = runs[q].attempt
        /\ runs'[q].status \in ActiveStatus => runs[q].status \in ActiveStatus
        /\ runs'[q].status = "queued" => runs[q].status = "queued"
  BY <1>1, <1>2, <1>3 DEF RunRow
<1>5. \A w \in WorkItems : claim'[w].status = "none" => claim[w].status = "none"
  BY <1>1 DEF releaseClaimLeaseByRunId, TypeOK, ClaimRow
<1>6. QED BY <1>2, <1>4, <1>5 DEF NoNewRun

\* A step creates no run, or is a dispatch, a dequeue or a retry.
LEMMA StepKinds ==
  ASSUME TypeInv, [Next]_vars
  PROVE  \/ NoNewRun
         \/ \E c \in Operators : CommitDispatch(c)
         \/ \E k \in Workers : Dequeue(k) \/ scheduleRetry(k)
<1>1. TypeOK /\ worker \in [Workers -> WorkerState]
  BY DEF TypeInv, TypeOK
<1>2. ASSUME UNCHANGED <<runs, worker>>,
             \A w \in WorkItems : claim'[w].status = "none" => claim[w].status = "none"
      PROVE  NoNewRun
  BY <1>2 DEF NoNewRun, Busy
<1>3. ASSUME NEW c \in Operators, Begin(c) PROVE NoNewRun
  <2>1. UNCHANGED <<runs, worker>>
    BY <1>3, BeginType
  <2>2. claim' = claim \/ \E s \in Scopes : claim' = expireActiveClaimLeases(s)
    BY <1>3, BeginSweeps
  <2>3. \A w \in WorkItems : claim'[w].status = "none" => claim[w].status = "none"
    BY <1>1, <2>2 DEF expireActiveClaimLeases, TypeOK, ClaimRow
  <2>4. QED BY <1>2, <2>1, <2>3
<1>4. ASSUME NEW c \in Operators, Commit(c) PROVE NoNewRun
  <2>1. /\ runs' = RunsWith(request[c].run, request[c].outcome)
        /\ claim' = releaseClaimLeaseByRunId(request[c].run, "released")
        /\ request[c].op = "update" /\ UNCHANGED worker
    BY <1>4 DEF Commit
  <2>2. request[c].run \in 0 .. Len(runs)
    BY <2>1 DEF TypeInv, RunReferencesExist
  <2>3. request[c].outcome \in TaskResult
    <3>1. request[c] \in {NoRequest} \cup UpdateRequest \cup DispatchRequest
      BY <1>1 DEF TypeOK
    <3>2. QED BY <2>1, <3>1 DEF NoRequest, UpdateRequest, DispatchRequest
  <2>4. QED BY <2>1, <2>2, <2>3, SettleNoNewRun DEF Busy
<1>5. ASSUME NEW c \in Operators, Rollback(c) PROVE NoNewRun
  BY <1>2, <1>5 DEF Rollback
<1>6. ASSUME NEW k \in Workers, ReadContext(k) PROVE NoNewRun
  <2>1. /\ worker[k].pc = "claimed" /\ UNCHANGED <<runs, claim>>
        /\ \E p, row, seen :
             worker' = [worker EXCEPT ![k] =
               [pc |-> p, run |-> worker[k].run, row |-> row, seen |-> seen]]
    BY <1>6 DEF ReadContext
  <2>2. \A j \in Workers :
          worker'[j].pc # "idle" => Busy(j) /\ worker'[j].run = worker[j].run
    BY <1>1, <2>1 DEF Busy
  <2>3. QED BY <2>1, <2>2 DEF NoNewRun
<1>7. ASSUME NEW k \in Workers, worker' = [worker EXCEPT ![k] = IdleWorker]
      PROVE  \A j \in Workers :
               worker'[j].pc # "idle" => Busy(j) /\ worker'[j].run = worker[j].run
  BY <1>1, <1>7 DEF Busy, IdleWorker
<1>8. ASSUME NEW k \in Workers,
             settleRunWithExpiredClaim(k)
               \/ \E result \in TaskResult : settleRunWithTaskResult(k, result)
      PROVE  NoNewRun
  <2>1. PICK st \in TaskResult, how \in {"released", "expired"} :
          /\ runs' = RunsWith(worker[k].run, st)
          /\ claim' = releaseClaimLeaseByRunId(worker[k].run, how)
    BY <1>8, SettleTables
  <2>2. worker[k].run \in RunIds
    BY <1>8, ContextType DEF settleRunWithExpiredClaim, settleRunWithTaskResult
  <2>3. worker[k].run \in 0 .. Len(runs)
    BY <1>1, <2>2, RunsFunction DEF RunIds
  <2>4. worker' = [worker EXCEPT ![k] = IdleWorker]
    BY <1>8 DEF settleRunWithExpiredClaim, settleRunWithTaskResult, WorkerWrite
  <2>5. QED BY <1>7, <2>1, <2>3, <2>4, SettleNoNewRun
<1>9. ASSUME NEW k \in Workers, WorkerCrash(k) PROVE NoNewRun
  BY <1>7, <1>9 DEF WorkerCrash, NoNewRun
<1>10. ASSUME Tick PROVE NoNewRun
  <2>1. UNCHANGED worker
    BY <1>10 DEF Tick
  <2>2. QED BY <1>10, <2>1, TickTables DEF NoNewRun, Busy
<1>11. CASE UNCHANGED vars
  BY <1>2, <1>11 DEF vars
<1>12. QED
  BY <1>3, <1>4, <1>5, <1>6, <1>8, <1>9, <1>10, <1>11
  DEF Next, OperatorStep, WorkerStep

-----------------------------------------------------------------------------
(* One active run per item. *)

\* There are no runs and no busy workers when an objective has been created.
LEMMA RunInit == Init => RunInv
<1> SUFFICES ASSUME Init PROVE RunInv
  OBVIOUS
<1>1. TypeInv
  BY TypeInit
<1>2. RunIds = {} /\ \A k \in Workers : ~ Busy(k)
  BY DEF Init, RunIds, Busy, IdleWorker
<1>3. QED
  BY <1>1, <1>2 DEF RunInv, RunsHaveClaims, OneActiveRunPerItem, HeldRunsExclusive,
                    OneWorkerPerItem

\* A step that creates no run and gives none to a worker keeps all four parts.
LEMMA NoNewRunKeeps ==
  ASSUME RunInv, NoNewRun
  PROVE  RunsHaveClaims' /\ OneActiveRunPerItem' /\ HeldRunsExclusive'
         /\ OneWorkerPerItem'
<1>1. /\ RunIds' = RunIds
      /\ \A q \in RunIds : /\ runs'[q].item = runs[q].item
                           /\ runs[q].item \in WorkItems
                           /\ IsActive(q)' => IsActive(q)
                           /\ runs'[q].status = "queued" => runs[q].status = "queued"
  BY RunsFunction DEF NoNewRun, RunInv, TypeInv, RunIds, IsActive, RunRow
<1>2. \A k \in Workers :
        Busy(k)' => /\ Busy(k) /\ worker'[k].run = worker[k].run
                    /\ worker[k].run \in RunIds
  BY DEF NoNewRun, Busy, RunInv, TypeInv, RunReferencesExist
<1>3. RunsHaveClaims'
  BY <1>1 DEF RunsHaveClaims, RunInv, NoNewRun
<1>4. OneActiveRunPerItem'
  BY <1>1 DEF OneActiveRunPerItem, RunInv
<1>5. HeldRunsExclusive'
  BY <1>1, <1>2 DEF HeldRunsExclusive, RunInv
<1>6. OneWorkerPerItem'
  BY <1>1, <1>2 DEF OneWorkerPerItem, RunInv
<1>7. QED BY <1>3, <1>4, <1>5, <1>6

\* dequeueQueuedRun gives a worker a queued run: no other run of its item is active,
\* so no other worker holds one.
LEMMA DequeueKeeps ==
  ASSUME RunInv, NEW k \in Workers, Dequeue(k)
  PROVE  RunsHaveClaims' /\ OneActiveRunPerItem' /\ HeldRunsExclusive'
         /\ OneWorkerPerItem'
<1>1. PICK r \in RunIds :
        /\ runs[r].status = "queued"
        /\ runs' = [runs EXCEPT ![r].status = "running"]
        /\ worker' = [worker EXCEPT ![k] = [pc |-> "claimed", run |-> r]]
        /\ UNCHANGED claim
  BY DEF Dequeue
<1>2. TypeOK /\ worker \in [Workers -> WorkerState]
  BY DEF RunInv, TypeInv, TypeOK
<1>3. /\ RunIds' = RunIds
      /\ \A q \in RunIds :
           /\ runs'[q].item = runs[q].item
           /\ IsActive(q)' <=> IsActive(q)
           /\ q # r => runs'[q].status = runs[q].status
      /\ runs'[r].status = "running"
      /\ IsActive(r)
  <2>1. \A q \in RunIds : runs[q] \in RunRow
    BY <1>2, RunsFunction
  <2>2. DOMAIN runs = RunIds /\ Len(runs) \in Nat /\ runs \in Seq(RunRow)
    BY <1>2, RunsFunction DEF TypeOK
  <2>3. \A q \in RunIds :
          runs'[q] = IF q = r THEN [runs[r] EXCEPT !.status = "running"] ELSE runs[q]
    BY <1>1, <2>2
  <2>4. Len(runs') = Len(runs)
    BY <1>1, <1>2, DequeueTables DEF RunInv
  <2>5. QED
    BY <1>1, <2>1, <2>3, <2>4 DEF RunIds, IsActive, ActiveStatus, RunRow
<1>4. /\ Busy(k)' /\ worker'[k].run = r
      /\ \A j \in Workers \ {k} : /\ Busy(j)' <=> Busy(j)
                                  /\ worker'[j].run = worker[j].run
  BY <1>1, <1>2 DEF Busy
<1>5. \A q \in RunIds : IsActive(q) /\ runs[q].item = runs[r].item => q = r
  BY <1>3 DEF RunInv, OneActiveRunPerItem
<1>6. \A j \in Workers : Busy(j) =>
        worker[j].run \in RunIds /\ runs[worker[j].run].item # runs[r].item
  BY <1>1, <1>3 DEF RunInv, HeldRunsExclusive, TypeInv, RunReferencesExist, Busy
<1>7. RunsHaveClaims'
  BY <1>1, <1>3 DEF RunInv, RunsHaveClaims
<1>8. OneActiveRunPerItem'
  BY <1>3 DEF RunInv, OneActiveRunPerItem
<1>9. ASSUME NEW j \in Workers, Busy(j)'
      PROVE  /\ runs'[worker'[j].run].status # "queued"
             /\ \A q \in RunIds :
                  runs'[q].item = runs'[worker'[j].run].item /\ IsActive(q)'
                    => q = worker'[j].run
  <2>1. CASE j = k
    BY <1>3, <1>4, <1>5, <2>1
  <2>2. CASE j # k
    BY <1>3, <1>4, <1>6, <1>9, <2>2 DEF RunInv, HeldRunsExclusive
  <2>3. QED BY <2>1, <2>2
<1>10. HeldRunsExclusive'
  BY <1>3, <1>9 DEF HeldRunsExclusive
<1>11. OneWorkerPerItem'
  <2>1. \A j \in Workers \ {k} : Busy(j)' =>
          runs'[worker'[j].run].item # runs'[worker'[k].run].item
    BY <1>3, <1>4, <1>6
  <2>2. \A i, j \in Workers \ {k} :
          Busy(i)' /\ Busy(j)' /\ runs'[worker'[i].run].item = runs'[worker'[j].run].item
            => i = j
    BY <1>3, <1>4, <1>6 DEF RunInv, OneWorkerPerItem
  <2>3. QED BY <2>1, <2>2 DEF OneWorkerPerItem
<1>12. QED BY <1>7, <1>8, <1>10, <1>11

\* The run of a dispatch is the first of its item: the item had no claim row.
LEMMA DispatchKeeps ==
  ASSUME RunInv, NEW c \in Operators, CommitDispatch(c)
  PROVE  /\ RunsHaveClaims' /\ OneActiveRunPerItem' /\ HeldRunsExclusive'
         /\ OneWorkerPerItem'
         /\ \A q \in RunIds : runs[q].item # request[c].item
<1> DEFINE w == request[c].item
           new == Len(runs) + 1
<1>1. TypeOK /\ w \in WorkItems
  BY CommitDispatchType DEF RunInv, TypeInv, DispatchRequest
<1>2. /\ Len(runs) \in Nat /\ RunIds' = RunIds \cup {new}
      /\ \A q \in RunIds : runs'[q] = runs[q]
      /\ runs'[new].item = w /\ runs'[new].status = "queued"
  <2>1. /\ Len(runs') = Len(runs) + 1
        /\ \A q \in RunIds : runs'[q] = runs[q]
        /\ runs'[new] = [item |-> request[c].item, attempt |-> request[c].attempt,
                         status |-> "queued", delay |-> 0]
    BY CommitDispatchType DEF RunInv
  <2>2. Len(runs) \in Nat
    BY <1>1, RunsFunction
  <2>3. QED BY <2>1, <2>2 DEF RunIds
<1>3. /\ claim[w].status = "none" /\ UNCHANGED worker
      /\ claim' = [claim EXCEPT ![w] = [status |-> "active",
                     scope |-> request[c].scope, holder |-> new, ttl |-> ClaimTTL]]
  BY DEF CommitDispatch, acquireClaimLease
<1>4. \A v \in WorkItems : claim'[v].status = "none" => v # w /\ claim[v].status = "none"
  BY <1>1, <1>3 DEF TypeOK
<1>5. \A q \in RunIds : runs[q].item # w /\ runs[q].item \in WorkItems
  BY <1>1, <1>3, RunsFunction DEF RunInv, RunsHaveClaims, RunRow
<1> HIDE DEF w
<1>6. RunsHaveClaims'
  BY <1>1, <1>2, <1>4, <1>5 DEF RunInv, RunsHaveClaims
<1>7. \A q \in RunIds : IsActive(q)' <=> IsActive(q)
  BY <1>2 DEF IsActive
<1>8. OneActiveRunPerItem'
  BY <1>2, <1>5, <1>7 DEF RunInv, OneActiveRunPerItem
<1>9. \A k \in Workers : /\ Busy(k)' <=> Busy(k)
                         /\ worker'[k].run = worker[k].run
                         /\ Busy(k) => worker[k].run \in RunIds
  BY <1>3 DEF Busy, RunInv, TypeInv, RunReferencesExist
<1>10. HeldRunsExclusive'
  BY <1>2, <1>5, <1>7, <1>9 DEF RunInv, HeldRunsExclusive
<1>11. OneWorkerPerItem'
  BY <1>2, <1>9 DEF RunInv, OneWorkerPerItem
<1>12. QED BY <1>5, <1>6, <1>8, <1>10, <1>11 DEF w

\* A retry replaces the run of a worker, the only one of its item that may be active.
LEMMA RetryKeeps ==
  ASSUME RunInv, NEW k \in Workers, scheduleRetry(k)
  PROVE  /\ RunsHaveClaims' /\ OneActiveRunPerItem' /\ HeldRunsExclusive'
         /\ OneWorkerPerItem'
         /\ \A q \in RunIds : IsActive(q)' \/ Held(q)' =>
              runs[q].item # runs[worker[k].run].item
<1> DEFINE r == worker[k].run
           new == Len(runs) + 1
<1>1. TypeOK /\ worker \in [Workers -> WorkerState]
  BY DEF RunInv, TypeInv, TypeOK
<1>2. /\ r \in RunIds /\ Len(runs') = new
      /\ \A q \in RunIds :
           runs'[q] = IF q = r THEN [runs[q] EXCEPT !.status = "transient_failure"]
                      ELSE runs[q]
      /\ runs'[new].item = runs[r].item /\ runs'[new].status = "queued"
      /\ \A v \in WorkItems : claim'[v].status = claim[v].status
  BY RetryTables DEF RunInv
<1>3. /\ worker[k].pc = "executing"
      /\ worker' = [worker EXCEPT ![k] = IdleWorker]
  BY DEF scheduleRetry, WorkerWrite
<1>4. Len(runs) \in Nat /\ RunIds' = RunIds \cup {new} /\ new \notin RunIds
  BY <1>1, <1>2, RunsFunction DEF RunIds
<1>5. \A q \in RunIds : /\ runs[q] \in RunRow
                        /\ runs'[q].item = runs[q].item
                        /\ runs'[q].item \in WorkItems
                        /\ q # r => runs'[q] = runs[q]
  BY <1>1, <1>2, RunsFunction DEF RunRow
<1>6. runs'[r].status = "transient_failure"
  BY <1>2, <1>5 DEF RunRow
<1>7. Busy(k)
  BY <1>3 DEF Busy
<1> HIDE DEF r
<1>8. \A q \in RunIds : /\ IsActive(q)' <=> IsActive(q) /\ q # r
                        /\ IsActive(q)' => runs[q].item # runs[r].item
  <2>1. \A q \in RunIds : IsActive(q)' <=> IsActive(q) /\ q # r
    BY <1>4, <1>5, <1>6 DEF IsActive, ActiveStatus
  <2>2. \A q \in RunIds : runs[q].item = runs[r].item /\ IsActive(q) => q = r
    BY <1>7 DEF RunInv, HeldRunsExclusive, r
  <2>3. QED BY <2>1, <2>2
<1>9. RunsHaveClaims'
  BY <1>2, <1>4, <1>5 DEF RunInv, RunsHaveClaims
<1>10. OneActiveRunPerItem'
  BY <1>2, <1>4, <1>5, <1>8 DEF RunInv, OneActiveRunPerItem
<1>11. \A j \in Workers : Busy(j)' =>
         /\ Busy(j) /\ worker'[j].run = worker[j].run /\ j # k
         /\ worker[j].run \in RunIds /\ runs[worker[j].run].item # runs[r].item
  <2>1. \A j \in Workers : Busy(j)' =>
          /\ Busy(j) /\ worker'[j].run = worker[j].run /\ j # k
    BY <1>1, <1>3 DEF Busy, IdleWorker
  <2>2. QED
    BY <1>7, <2>1 DEF RunInv, OneWorkerPerItem, TypeInv, RunReferencesExist, Busy, r
<1>12. HeldRunsExclusive'
  BY <1>2, <1>4, <1>5, <1>8, <1>11 DEF RunInv, HeldRunsExclusive
<1>13. OneWorkerPerItem'
  BY <1>5, <1>11 DEF RunInv, OneWorkerPerItem
<1>14. \A q \in RunIds : IsActive(q)' \/ Held(q)' => runs[q].item # runs[r].item
  BY <1>8, <1>11 DEF Held
<1>15. QED BY <1>9, <1>10, <1>12, <1>13, <1>14 DEF r

\* Every step keeps what is known of an item's runs.
LEMMA RunStep == RunInv /\ [Next]_vars => RunInv'
<1> SUFFICES ASSUME RunInv, [Next]_vars PROVE RunInv'
  OBVIOUS
<1>1. TypeInv /\ TypeInv'
  BY TypeStep DEF RunInv
<1>2. QED
  BY <1>1, StepKinds, NoNewRunKeeps, DispatchKeeps, DequeueKeeps, RetryKeeps DEF RunInv

\* A work item never has two runs queued or running at once, for any number of
\* operators and workers, although dispatch checks the latest run only in a row
\* read before (acquireClaimLease, scheduleRetry in settleRunWithTaskResult).
THEOREM RunExclusion == Spec => []OneActiveRunPerItem
<1>1. RunInv => OneActiveRunPerItem
  BY DEF RunInv
<1>2. QED BY <1>1, RunInit, RunStep, PTL DEF Spec

\* A run leaves the queue once: no step puts a run back that was claimed or settled,
\* so its tool requests are executed by one worker (dequeueQueuedRun, upsertRun).
THEOREM DequeuedOnce == Spec => LeavesQueueOnce
<1>1. TypeInv /\ [Next]_vars =>
        [\A r \in RunIds : runs[r].status # "queued" => runs'[r].status # "queued"]_vars
  <2> SUFFICES ASSUME TypeInv, [Next]_vars, NEW r \in RunIds,
                      runs'[r].status = "queued"
               PROVE  runs[r].status = "queued"
    OBVIOUS
  <2>1. CASE NoNewRun
    BY <2>1 DEF NoNewRun
  <2>2. ASSUME NEW c \in Operators, CommitDispatch(c) PROVE runs[r].status = "queued"
    BY <2>2, CommitDispatchType
  <2>3. ASSUME NEW k \in Workers, Dequeue(k) PROVE runs[r].status = "queued"
    <3>1. PICK q \in RunIds : runs' = [runs EXCEPT ![q].status = "running"]
                              /\ runs[q].status = "queued"
      BY <2>3 DEF Dequeue
    <3>2. CASE q = r
      BY <3>1, <3>2
    <3>3. CASE q # r
      BY <3>1, <3>3
    <3>4. QED BY <3>2, <3>3
  <2>4. ASSUME NEW k \in Workers, scheduleRetry(k) PROVE runs[r].status = "queued"
    <3>1. runs'[r] = IF r = worker[k].run
                     THEN [runs[r] EXCEPT !.status = "transient_failure"] ELSE runs[r]
      BY <2>4, RetryTables
    <3>2. runs[r] \in RunRow
      BY RunsFunction DEF TypeInv
    <3>3. QED BY <3>1, <3>2 DEF RunRow
  <2>5. QED BY <2>1, <2>2, <2>3, <2>4, StepKinds
<1>2. QED BY <1>1, TypeInit, TypeStep, PTL DEF Spec, LeavesQueueOnce

-----------------------------------------------------------------------------
(* What a dispatch has found. *)

\* Every endpoint leaves its pending transaction in its own request.
LEMMA BeginPlans ==
  ASSUME NEW c \in Operators, Begin(c)
  PROVE  \E q : request' = [request EXCEPT ![c] = q]
<1>1. ASSUME NEW o, NEW rows, NEW r, NEW outcome, NEW decided, NEW keys,
             Plan(c, o, rows, r, outcome, decided, keys)
      PROVE  \E q : request' = [request EXCEPT ![c] = q]
  BY <1>1 DEF Plan
<1>2. ASSUME NEW w \in WorkItems, NEW s \in Scopes, NEW newInput \in BOOLEAN,
             NEW mode \in KeyModes, BeginDispatch(c, w, s, newInput, mode)
      PROVE  \E q : request' = [request EXCEPT ![c] = q]
  <2>1. \/ \E q : request' = [request EXCEPT ![c] = q]
        \/ \E o, rows, r, outcome, decided, keys :
             Plan(c, o, rows, r, outcome, decided, keys)
    BY <1>2 DEF BeginDispatch
  <2>2. QED BY <1>1, <2>1
<1>3. \A w, mode : BeginCancel(c, w, mode) \/ BeginRequeue(c, w, mode)
        => \E q : request' = [request EXCEPT ![c] = q]
  BY <1>1 DEF BeginCancel, BeginRequeue
<1>4. \A r, result, mode : BeginComplete(c, r, result, mode)
        => \E q : request' = [request EXCEPT ![c] = q]
  BY <1>1 DEF BeginComplete
<1>5. \A w, mode : BeginGrant(c, w, mode) \/ BeginDeny(c, w, mode)
        => \E q : request' = [request EXCEPT ![c] = q]
  BY <1>1 DEF BeginGrant, BeginDeny
<1>6. \A o : BeginReplan(c, o) => \E q : request' = [request EXCEPT ![c] = q]
  BY <1>1 DEF BeginReplan
<1>7. QED BY <1>2, <1>3, <1>4, <1>5, <1>6 DEF Begin

\* A request with other contents than before, and not gone, has just been planned.
LEMMA BegunBy ==
  ASSUME TypeInv, [Next]_vars, NEW c \in Operators,
         request'[c] # request[c], request'[c].op # "none"
  PROVE  Begin(c)
<1>1. request \in [Operators -> {NoRequest} \cup UpdateRequest \cup DispatchRequest]
  BY DEF TypeInv, TypeOK
<1>2. \A d \in Operators : request' = [request EXCEPT ![d] = NoRequest] => FALSE
  BY <1>1 DEF NoRequest
<1>3. PICK d \in Operators : Begin(d)
  BY <1>2
  DEF Next, vars, OperatorStep, WorkerStep, Commit, CommitDispatch, Rollback, Dequeue,
      ReadContext, settleRunWithExpiredClaim, scheduleRetry, settleRunWithTaskResult,
      WorkerWrite, WorkerCrash, Tick
<1>4. \E q : request' = [request EXCEPT ![d] = q]
  BY <1>3, BeginPlans
<1>5. d = c
  BY <1>1, <1>4
<1>6. QED BY <1>3, <1>5

\* A request that comes to plan a dispatch is a dispatch request.
LEMMA PlannedBy ==
  ASSUME TypeInv, [Next]_vars, NEW c \in Operators,
         request'[c].op = "dispatch", request'[c] # request[c]
  PROVE  \E w \in WorkItems, s \in Scopes, newInput \in BOOLEAN, mode \in KeyModes :
           BeginDispatch(c, w, s, newInput, mode)
<1>1. Begin(c)
  BY BegunBy
<1>2. request \in [Operators -> {NoRequest} \cup UpdateRequest \cup DispatchRequest]
  BY DEF TypeInv, TypeOK
<1>3. \A o, rows, r, outcome, decided, keys :
        Plan(c, o, rows, r, outcome, decided, keys) => FALSE
  BY <1>2 DEF Plan
<1>4. \A w \in WorkItems, mode \in KeyModes :
        BeginCancel(c, w, mode) \/ BeginRequeue(c, w, mode) => FALSE
  BY <1>3 DEF BeginCancel, BeginRequeue
<1>5. \A r \in RunIds, result \in TaskResult, mode \in KeyModes :
        BeginComplete(c, r, result, mode) => FALSE
  BY <1>3 DEF BeginComplete
<1>6. \A w \in Gated, mode \in KeyModes :
        BeginGrant(c, w, mode) \/ BeginDeny(c, w, mode) => FALSE
  BY <1>3 DEF BeginGrant, BeginDeny
<1>7. \A o \in Objectives : BeginReplan(c, o) => FALSE
  BY <1>3 DEF BeginReplan
<1>8. QED BY <1>1, <1>4, <1>5, <1>6, <1>7 DEF Begin

\* A dispatch is planned only if the item needs no approval or has one, and a first
\* run only within the budget.
LEMMA DispatchPlanned ==
  ASSUME TypeInv, NEW c \in Operators, NEW w \in WorkItems, NEW s \in Scopes,
         NEW newInput \in BOOLEAN, NEW mode \in KeyModes,
         BeginDispatch(c, w, s, newInput, mode), request'[c].op = "dispatch"
  PROVE  /\ request'[c].item = w
         /\ w \in Gated => approval[w] = "granted"
         /\ workItem[w].latestRun = 0 /\ RunsOf(w) = {} =>
              request'[c].attempt = 1 /\ AttemptBudget[w] \in Nat \ {0}
<1> DEFINE latest == LatestRun(w)
           consumed == IF IF latest = 0 THEN FALSE
                          ELSE runs[latest].status = "transient_failure"
                       THEN runs[latest].attempt
                       ELSE Cardinality(RunsOf(w))
           conflict == \E v \in WorkItems \ {w} :
                         /\ expireActiveClaimLeases(s)[v].status = "active"
                         /\ expireActiveClaimLeases(s)[v].scope = s
           granted == w \in Gated /\ approval[w] = "granted"
           fresh == latest = 0 \/ newInput
           decision == createDispatchDecision(w, granted, conflict, consumed, fresh)
           attempt == Cardinality(RunsOf(w)) + 1
<1>1. request \in [Operators -> {NoRequest} \cup UpdateRequest \cup DispatchRequest]
  BY DEF TypeInv, TypeOK
<1>2. /\ decision = "dispatched"
      /\ request'[c].item = w /\ request'[c].attempt = attempt
  <2>1. ASSUME NEW o, NEW rows, NEW r, NEW outcome, NEW decided, NEW keys,
               Plan(c, o, rows, r, outcome, decided, keys)
        PROVE  FALSE
    BY <1>1, <2>1 DEF Plan
  <2>2. decision = "dispatched"
    BY <2>1 DEF BeginDispatch
  <2>3. \E keys : request' = [request EXCEPT ![c] =
                   [op |-> "dispatch", item |-> w, scope |-> s, attempt |-> attempt,
                    seen |-> objective[ObjectiveOf[w]], keys |-> keys]]
    BY <2>2 DEF BeginDispatch
  <2> HIDE DEF attempt, decision
  <2>4. request'[c].item = w /\ request'[c].attempt = attempt
    BY <1>1, <2>3
  <2>5. QED BY <2>2, <2>4
<1>3. ~ (w \in Gated /\ ~ granted) /\ ~ isRetryBudgetExhausted(w, consumed)
  BY <1>2 DEF createDispatchDecision
<1>4. ASSUME workItem[w].latestRun = 0, RunsOf(w) = {}
      PROVE  request'[c].attempt = 1 /\ AttemptBudget[w] \in Nat \ {0}
  <2>1. Cardinality(RunsOf(w)) = 0
    BY <1>4, FS_EmptySet
  <2>2. consumed = 0
    BY <1>4, <2>1 DEF LatestRun
  <2>3. AttemptBudget[w] \in Nat
    BY ConstantsAssumption
  <2>4. QED BY <1>2, <1>3, <2>1, <2>2, <2>3 DEF isRetryBudgetExhausted
<1>5. QED BY <1>2, <1>3, <1>4

-----------------------------------------------------------------------------
(* Approvals precede runs. *)

\* A dispatch of a gated item is planned only when its approval has been granted,
\* and no decision ever makes an approval pending again.
PlannedAllowed ==
  \A c \in Operators :
    request[c].op = "dispatch" /\ request[c].item \in Gated =>
      approval[request[c].item] # "pending"

ApprovalInv == RunInv /\ ApprovalPrecedesRun /\ PlannedAllowed

\* A run is added behind the others and belongs to one item.
LEMMA RunAdded ==
  ASSUME TypeOK, Len(runs') = Len(runs) + 1,
         \A q \in RunIds : runs'[q].item = runs[q].item,
         NEW v, runs'[Len(runs) + 1].item = v
  PROVE  /\ RunIds' = RunIds \cup {Len(runs) + 1} /\ Len(runs) + 1 \notin RunIds
         /\ \A w : RunsOf(w)' = IF w = v THEN RunsOf(w) \cup {Len(runs) + 1}
                                ELSE RunsOf(w)
<1>1. RunIds' = RunIds \cup {Len(runs) + 1} /\ Len(runs) + 1 \notin RunIds
  BY RunsFunction DEF RunIds
<1>2. QED BY <1>1 DEF RunsOf

\* The runs of an item after a step are those before, and a new one of the item of a
\* dispatch or of a run there was.
LEMMA RunsGrow ==
  ASSUME RunInv, [Next]_vars
  PROVE  /\ \A w : RunsOf(w) \subseteq RunsOf(w)'
         /\ \A w \in WorkItems :
              RunsOf(w) = {} /\ RunsOf(w)' # {} =>
                \E c \in Operators : CommitDispatch(c) /\ request[c].item = w
<1>1. TypeOK /\ TypeInv /\ Len(runs) \in Nat
  BY RunsFunction DEF RunInv, TypeInv
<1>2. ASSUME UNCHANGED Len(runs), \A q \in RunIds : runs'[q].item = runs[q].item
      PROVE  \A w : RunsOf(w)' = RunsOf(w)
  BY <1>2 DEF RunsOf, RunIds
<1>3. CASE NoNewRun
  BY <1>2, <1>3 DEF NoNewRun
<1>4. ASSUME NEW k \in Workers, Dequeue(k)
      PROVE  \A w : RunsOf(w)' = RunsOf(w)
  BY <1>1, <1>2, <1>4, DequeueTables
<1>5. ASSUME NEW c \in Operators, CommitDispatch(c)
      PROVE  \A w : RunsOf(w)' = IF w = request[c].item
                                 THEN RunsOf(w) \cup {Len(runs) + 1} ELSE RunsOf(w)
  <2>1. /\ Len(runs') = Len(runs) + 1
        /\ \A q \in RunIds : runs'[q] = runs[q]
        /\ runs'[Len(runs) + 1] =
             [item |-> request[c].item, attempt |-> request[c].attempt,
              status |-> "queued", delay |-> 0]
    BY <1>1, <1>5, CommitDispatchType
  <2>2. runs'[Len(runs) + 1].item = request[c].item
    BY <2>1
  <2>3. QED BY <1>1, <2>1, <2>2, RunAdded
<1>6. ASSUME NEW k \in Workers, scheduleRetry(k)
      PROVE  /\ worker[k].run \in RunsOf(runs[worker[k].run].item)
             /\ \A w : RunsOf(w)' = IF w = runs[worker[k].run].item
                                    THEN RunsOf(w) \cup {Len(runs) + 1} ELSE RunsOf(w)
  <2>1. /\ worker[k].run \in RunIds /\ Len(runs') = Len(runs) + 1
        /\ \A q \in RunIds :
             runs'[q] = IF q = worker[k].run
                        THEN [runs[q] EXCEPT !.status = "transient_failure"]
                        ELSE runs[q]
        /\ runs'[Len(runs) + 1].item = runs[worker[k].run].item
    BY <1>1, <1>6, RetryTables
  <2>2. \A q \in RunIds : runs'[q].item = runs[q].item
    BY <1>1, <2>1, RunsFunction DEF RunRow
  <2>3. QED BY <1>1, <2>1, <2>2, RunAdded DEF RunsOf
<1>7. QED
  BY <1>1, <1>3, <1>4, <1>5, <1>6, StepKinds

\* Approvals that have been decided stay decided.
LEMMA DecidedStays ==
  ASSUME TypeInv, [Next]_vars, NEW w \in Gated, approval[w] # "pending"
  PROVE  approval'[w] # "pending"
<1>1. ASSUME NEW c \in Operators, Begin(c) PROVE approval'[w] # "pending"
  BY <1>1, BeginType
<1>2. ASSUME NEW c \in Operators, Commit(c) PROVE approval'[w] # "pending"
  <2>1. request[c] \in {NoRequest} \cup UpdateRequest \cup DispatchRequest
        /\ request[c].op = "update"
    BY <1>2 DEF TypeInv, TypeOK, Commit
  <2>2. request[c].approvals \in [Gated -> {"granted", "denied", "keep"}]
    BY <2>1 DEF NoRequest, UpdateRequest, DispatchRequest
  <2>3. approval' = [v \in Gated |-> IF request[c].approvals[v] = "keep"
                                     THEN approval[v] ELSE request[c].approvals[v]]
    BY <1>2 DEF Commit
  <2>4. QED BY <2>2, <2>3
<1>3. QED
  BY <1>1, <1>2
  DEF Next, vars, OperatorStep, WorkerStep, CommitDispatch, Rollback, Dequeue,
      ReadContext, settleRunWithExpiredClaim, scheduleRetry, settleRunWithTaskResult,
      WorkerWrite, WorkerCrash, Tick

\* Every step keeps the two parts.
LEMMA ApprovalStep == ApprovalInv /\ [Next]_vars => ApprovalInv'
<1> SUFFICES ASSUME ApprovalInv, [Next]_vars
             PROVE  ApprovalPrecedesRun' /\ PlannedAllowed'
  BY RunStep DEF ApprovalInv
<1>1. TypeInv /\ TypeInv' /\ RunInv
  BY TypeStep DEF ApprovalInv, RunInv
<1>2. Gated \subseteq WorkItems
  BY ConstantsAssumption
<1>3. ASSUME NEW w \in Gated, RunsOf(w)' # {} PROVE approval'[w] # "pending"
  <2>1. CASE RunsOf(w) # {}
    BY <1>1, <2>1, DecidedStays DEF ApprovalInv, ApprovalPrecedesRun
  <2>2. CASE RunsOf(w) = {}
    <3>1. PICK c \in Operators : CommitDispatch(c) /\ request[c].item = w
      BY <1>1, <1>2, <1>3, <2>2, RunsGrow
    <3>2. request[c].op = "dispatch"
      BY <3>1 DEF CommitDispatch
    <3>3. approval[w] # "pending"
      BY <3>1, <3>2 DEF ApprovalInv, PlannedAllowed
    <3>4. QED BY <1>1, <3>3, DecidedStays
  <2>3. QED BY <2>1, <2>2
<1>4. ASSUME NEW c \in Operators, request'[c].op = "dispatch", request'[c].item \in Gated
      PROVE  approval'[request'[c].item] # "pending"
  <2>1. CASE request'[c] = request[c]
    <3>1. approval[request[c].item] # "pending"
      BY <1>4, <2>1 DEF ApprovalInv, PlannedAllowed
    <3>2. QED BY <1>1, <1>4, <2>1, <3>1, DecidedStays
  <2>2. CASE request'[c] # request[c]
    <3>1. PICK w \in WorkItems, s \in Scopes, newInput \in BOOLEAN, mode \in KeyModes :
            BeginDispatch(c, w, s, newInput, mode)
      BY <1>1, <1>4, <2>2, PlannedBy
    <3>2. request'[c].item = w /\ (w \in Gated => approval[w] = "granted")
      BY <1>1, <1>4, <3>1, DispatchPlanned
    <3>3. QED BY <1>1, <1>4, <3>2, DecidedStays
  <2>3. QED BY <2>1, <2>2
<1>5. QED BY <1>3, <1>4 DEF ApprovalPrecedesRun, PlannedAllowed

\* A run of a gated item exists only once its approval has been decided: a dispatch
\* that read the approval before cannot race it (createDispatchDecision, grant, deny).
THEOREM ApprovalBeforeRun == Spec => []ApprovalPrecedesRun
<1>1. Init => ApprovalInv
  BY RunInit
  DEF ApprovalInv, ApprovalPrecedesRun, PlannedAllowed, Init, NoRequest, RunsOf, RunIds
<1>2. ApprovalInv => ApprovalPrecedesRun
  BY DEF ApprovalInv
<1>3. QED BY <1>1, <1>2, ApprovalStep, PTL DEF Spec

-----------------------------------------------------------------------------
(* Attempts are numbered within the budget. *)

\* A run that is active, or that a worker has yet to settle, is the last of its item.
LatestAttempts ==
  \A r \in RunIds :
    IsActive(r) \/ Held(r) => runs[r].attempt = Cardinality(RunsOf(runs[r].item))

\* An item whose row, or whose row to be, names a latest run has runs.
LatestRunsExist ==
  /\ \A w \in WorkItems : workItem[w].latestRun # 0 => RunsOf(w) # {}
  /\ \A c \in Operators, w \in WorkItems :
       /\ request[c].op = "update"
       /\ request[c].rows[w] # Keep
       /\ request[c].rows[w].latestRun # 0
       => RunsOf(w) # {}

\* What a dispatch planned for an item that still has no run.
PlannedFirst ==
  \A c \in Operators :
    /\ request[c].op = "dispatch"
    /\ RunsOf(request[c].item) = {}
    => request[c].attempt = 1 /\ AttemptBudget[request[c].item] \in Nat \ {0}

AttemptInv ==
  /\ RunInv
  /\ AttemptsWithinBudget
  /\ LatestAttempts
  /\ LatestRunsExist
  /\ PlannedFirst

\* No operator changes which run is the latest of an item.
LEMMA PlannedRows ==
  ASSUME TypeInv, NEW c \in Operators, Begin(c), request'[c].op = "update"
  PROVE  \A w \in WorkItems :
           request'[c].rows[w] # Keep =>
             request'[c].rows[w].latestRun = workItem[w].latestRun
<1> DEFINE Same(rows) == \A w \in WorkItems :
                           rows[w] # Keep => rows[w].latestRun = workItem[w].latestRun
<1>1. /\ request \in [Operators -> {NoRequest} \cup UpdateRequest \cup DispatchRequest]
      /\ \A w \in WorkItems : workItem[w] \in ItemRow
  BY DEF TypeInv, TypeOK
<1>2. ASSUME NEW o, NEW rows, NEW r, NEW outcome, NEW decided, NEW keys,
             Plan(c, o, rows, r, outcome, decided, keys), Same(rows)
      PROVE  Same(request'[c].rows)
  <2>1. request'[c].rows = rows
    BY <1>1, <1>2 DEF Plan
  <2>2. QED BY <1>2, <2>1
<1>3. ASSUME NEW v \in WorkItems, NEW row, row.latestRun = workItem[v].latestRun
      PROVE  Same(RowFor(v, row))
  BY <1>3 DEF RowFor, NoRow
<1>4. \A row \in ItemRow : \A s, t :
        [row EXCEPT !.status = s, !.reason = t].latestRun = row.latestRun
  BY DEF ItemRow
<1>5. \A v \in WorkItems : ReadyOrAwaiting(v).latestRun = workItem[v].latestRun
  BY <1>1, <1>4 DEF ReadyOrAwaiting, ItemAwaiting, ItemReady
<1>6. Same(NoRow)
  BY DEF NoRow
<1> HIDE DEF Same
<1>7. ASSUME NEW w \in WorkItems, NEW s \in Scopes, NEW newInput \in BOOLEAN,
             NEW mode \in KeyModes, BeginDispatch(c, w, s, newInput, mode)
      PROVE  Same(request'[c].rows)
  <2> DEFINE latest == LatestRun(w)
             consumed == IF IF latest = 0 THEN FALSE
                            ELSE runs[latest].status = "transient_failure"
                         THEN runs[latest].attempt
                         ELSE Cardinality(RunsOf(w))
             conflict == \E v \in WorkItems \ {w} :
                           /\ expireActiveClaimLeases(s)[v].status = "active"
                           /\ expireActiveClaimLeases(s)[v].scope = s
             granted == w \in Gated /\ approval[w] = "granted"
             decision == createDispatchDecision(w, granted, conflict, consumed,
                                                latest = 0 \/ newInput)
             withheld == [workItem[w] EXCEPT
                            !.status = IF decision = "escalated" THEN "escalated"
                                       ELSE "blocked",
                            !.reason = WithheldReason(decision)]
  <2>1. decision # "dispatched"
    <3>1. SUFFICES ASSUME decision = "dispatched" PROVE FALSE
      OBVIOUS
    <3>2. \E keys : request' = [request EXCEPT ![c] =
                     [op |-> "dispatch", item |-> w, scope |-> s,
                      attempt |-> Cardinality(RunsOf(w)) + 1,
                      seen |-> objective[ObjectiveOf[w]], keys |-> keys]]
      BY <1>7, <3>1 DEF BeginDispatch
    <3>3. request'[c].op = "dispatch"
      BY <1>1, <3>2
    <3>4. QED BY <3>3
  <2>2. withheld.latestRun = workItem[w].latestRun
    BY <1>1, <1>4
  <2>3. \E o, r, outcome, decided, keys :
          Plan(c, o, RowFor(w, withheld), r, outcome, decided, keys)
    BY <1>7, <2>1 DEF BeginDispatch
  <2> HIDE DEF withheld
  <2>4. QED BY <1>2, <1>3, <2>2, <2>3
<1>8. ASSUME NEW w \in WorkItems, NEW mode \in KeyModes, BeginCancel(c, w, mode)
      PROVE  Same(request'[c].rows)
  BY <1>1, <1>2, <1>3, <1>4, <1>8 DEF BeginCancel
<1>9. ASSUME NEW w \in WorkItems, NEW mode \in KeyModes, BeginRequeue(c, w, mode)
      PROVE  Same(request'[c].rows)
  BY <1>2, <1>3, <1>5, <1>9 DEF BeginRequeue
<1>10. ASSUME NEW r \in RunIds, NEW result \in TaskResult, NEW mode \in KeyModes,
              BeginComplete(c, r, result, mode)
       PROVE  Same(request'[c].rows)
  <2> DEFINE w == runs[r].item
             row == mapTaskResultToWorkItemStatus(workItem[w], result,
                      isRetryBudgetExhausted(w, Cardinality(RunsOf(w))))
  <2>1. w \in WorkItems
    BY RunsFunction DEF TypeInv, RunRow
  <2>2. row.latestRun = workItem[w].latestRun
    BY <1>1, <1>4, <2>1 DEF mapTaskResultToWorkItemStatus, TaskResult
  <2>3. \E o, q, outcome, decided, keys : Plan(c, o, RowFor(w, row), q, outcome, decided, keys)
    BY <1>10 DEF BeginComplete
  <2> HIDE DEF w, row
  <2>4. QED BY <1>2, <1>3, <2>1, <2>2, <2>3
<1>11. ASSUME NEW w \in Gated, NEW mode \in KeyModes,
              BeginGrant(c, w, mode) \/ BeginDeny(c, w, mode)
       PROVE  Same(request'[c].rows)
  <2>1. w \in WorkItems
    BY ConstantsAssumption
  <2>2. \E rows : /\ \E o, q, outcome, decided, keys :
                       Plan(c, o, rows, q, outcome, decided, keys)
                  /\ \/ rows = NoRow
                     \/ \E st, why : rows = RowFor(w, [workItem[w] EXCEPT
                                                        !.status = st, !.reason = why])
    BY <1>11 DEF BeginGrant, BeginDeny, ItemReady
  <2>3. QED BY <1>1, <1>2, <1>3, <1>4, <1>6, <2>1, <2>2
<1>12. ASSUME NEW o \in Objectives, BeginReplan(c, o)
       PROVE  Same(request'[c].rows)
  <2>1. \E S, q, outcome, decided, keys :
          Plan(c, o, [w \in WorkItems |-> IF w \in S THEN ReadyOrAwaiting(w) ELSE Keep],
               q, outcome, decided, keys)
    BY <1>12 DEF BeginReplan
  <2>2. \A S : Same([w \in WorkItems |-> IF w \in S THEN ReadyOrAwaiting(w) ELSE Keep])
    BY <1>5 DEF Same
  <2>3. QED BY <1>2, <2>1, <2>2
<1>13. Same(request'[c].rows)
  BY <1>7, <1>8, <1>9, <1>10, <1>11, <1>12 DEF Begin
<1>14. QED BY <1>13 DEF Same

\* Every step keeps the rows that name a latest run behind the runs there are.
LEMMA LatestRunsStep ==
  ASSUME AttemptInv, [Next]_vars
  PROVE  LatestRunsExist'
<1>1. /\ TypeInv /\ RunInv /\ TypeInv'
      /\ workItem \in [WorkItems -> ItemRow]
      /\ request \in [Operators -> {NoRequest} \cup UpdateRequest \cup DispatchRequest]
  BY TypeStep DEF AttemptInv, RunInv, TypeInv, TypeOK
<1>2. \A w : RunsOf(w) # {} => RunsOf(w)' # {}
  BY <1>1, RunsGrow
<1>3. ASSUME NEW c \in Operators, NEW w \in WorkItems, request'[c].op = "update",
             request'[c].rows[w] # Keep, request'[c].rows[w].latestRun # 0
      PROVE  RunsOf(w)' # {}
  <2>1. CASE request'[c] = request[c]
    BY <1>2, <1>3, <2>1 DEF AttemptInv, LatestRunsExist
  <2>2. CASE request'[c] # request[c]
    <3>1. Begin(c)
      BY <1>1, <1>3, <2>2, BegunBy
    <3>2. request'[c].rows[w].latestRun = workItem[w].latestRun
      BY <1>1, <1>3, <3>1, PlannedRows
    <3>3. QED BY <1>2, <1>3, <3>2 DEF AttemptInv, LatestRunsExist
  <2>3. QED BY <2>1, <2>2
<1>4. \A w \in WorkItems : workItem[w].latestRun # 0 => RunsOf(w)' # {}
  BY <1>2 DEF AttemptInv, LatestRunsExist
<1>5. ASSUME NEW c \in Operators, Commit(c), NEW w \in WorkItems,
             workItem'[w].latestRun # 0
      PROVE  RunsOf(w)' # {}
  <2>1. request[c].op = "update"
        /\ workItem'[w] = IF request[c].rows[w] = Keep THEN workItem[w]
                          ELSE request[c].rows[w]
    BY <1>5 DEF Commit, ItemsWith
  <2>2. QED BY <1>2, <1>4, <1>5, <2>1 DEF AttemptInv, LatestRunsExist
<1>6. ASSUME NEW c \in Operators, CommitDispatch(c), NEW w \in WorkItems,
             workItem'[w].latestRun # 0
      PROVE  RunsOf(w)' # {}
  <2>1. CASE w = request[c].item
    <3>1. runs'[Len(runs) + 1].item = w /\ Len(runs') = Len(runs) + 1
      <4>1. /\ Len(runs') = Len(runs) + 1
            /\ runs'[Len(runs) + 1] =
                 [item |-> request[c].item, attempt |-> request[c].attempt,
                  status |-> "queued", delay |-> 0]
        BY <1>1, <1>6, CommitDispatchType
      <4>2. QED BY <2>1, <4>1
    <3>2. Len(runs) + 1 \in RunIds'
      BY <1>1, <3>1, RunsFunction DEF RunIds, TypeInv
    <3>3. QED BY <3>1, <3>2 DEF RunsOf
  <2>2. CASE w # request[c].item
    <3>1. workItem'[w] = workItem[w]
      BY <1>6, <2>2 DEF CommitDispatch, ItemsWith, RowFor, NoRow
    <3>2. QED BY <1>4, <1>6, <3>1
  <2>3. QED BY <2>1, <2>2
<1>7. ASSUME NEW k \in Workers, worker[k].run \in RunIds, NEW row, WorkerWrite(k, row),
             NEW w \in WorkItems, workItem'[w].latestRun # 0
      PROVE  RunsOf(w)' # {}
  <2>1. CASE w = runs[worker[k].run].item
    BY <1>2, <1>7, <2>1 DEF RunsOf
  <2>2. CASE w # runs[worker[k].run].item
    <3>1. workItem'[w] = workItem[w]
      BY <1>7, <2>2 DEF WorkerWrite, ItemsWith, RowFor, NoRow
    <3>2. QED BY <1>4, <1>7, <3>1
  <2>3. QED BY <2>1, <2>2
<1>8. ASSUME NEW w \in WorkItems, workItem'[w].latestRun # 0
      PROVE  RunsOf(w)' # {}
  <2>1. CASE UNCHANGED workItem
    BY <1>4, <1>8, <2>1
  <2>2. ASSUME NEW c \in Operators, OperatorStep(c)
        PROVE  UNCHANGED workItem \/ Commit(c) \/ CommitDispatch(c)
    BY <1>1, <2>2, BeginType DEF OperatorStep, Rollback
  <2>3. ASSUME NEW k \in Workers, WorkerStep(k)
        PROVE  \/ UNCHANGED workItem
               \/ worker[k].run \in RunIds /\ \E row : WorkerWrite(k, row)
    BY <1>1, <2>3, ContextType
    DEF WorkerStep, Dequeue, ReadContext, settleRunWithExpiredClaim, scheduleRetry,
        settleRunWithTaskResult
  <2>4. QED
    BY <1>5, <1>6, <1>7, <1>8, <2>1, <2>2, <2>3 DEF Next, vars, WorkerCrash, Tick
<1>9. QED BY <1>3, <1>8 DEF LatestRunsExist

\* Every step keeps what a dispatch planned for an item that still has no run.
LEMMA PlannedFirstStep ==
  ASSUME AttemptInv, [Next]_vars
  PROVE  PlannedFirst'
<1>1. TypeInv /\ RunInv /\ TypeInv'
  BY TypeStep DEF AttemptInv, RunInv
<1>2. ASSUME NEW c \in Operators, request'[c].op = "dispatch",
             NEW w, w = request'[c].item, RunsOf(w)' = {}
      PROVE  request'[c].attempt = 1 /\ AttemptBudget[w] \in Nat \ {0}
  <2>1. RunsOf(w) = {}
    BY <1>1, <1>2, RunsGrow
  <2>2. CASE request'[c] = request[c]
    BY <1>2, <2>1, <2>2 DEF AttemptInv, PlannedFirst
  <2>3. CASE request'[c] # request[c]
    <3>1. PICK v \in WorkItems, s \in Scopes, newInput \in BOOLEAN, mode \in KeyModes :
            BeginDispatch(c, v, s, newInput, mode)
      BY <1>1, <1>2, <2>3, PlannedBy
    <3>2. v = w
      BY <1>1, <1>2, <3>1, DispatchPlanned
    <3>3. workItem[v].latestRun = 0 /\ RunsOf(v) = {}
      BY <2>1, <3>2 DEF AttemptInv, LatestRunsExist
    <3>4. QED BY <1>1, <1>2, <3>1, <3>2, <3>3, DispatchPlanned
  <2>4. QED BY <2>2, <2>3
<1>3. QED BY <1>2 DEF PlannedFirst, RunsOf

\* A step that creates no run keeps the attempts and their number.
LEMMA NoNewAttempt ==
  ASSUME AttemptInv, [Next]_vars, Len(runs') = Len(runs),
         \A q \in RunIds : /\ runs'[q].item = runs[q].item
                           /\ runs'[q].attempt = runs[q].attempt
                           /\ IsActive(q)' \/ Held(q)' => IsActive(q) \/ Held(q)
  PROVE  AttemptsWithinBudget' /\ LatestAttempts'
<1>1. RunIds' = RunIds
  BY DEF RunIds
<1>2. \A w : RunsOf(w)' = RunsOf(w)
  BY <1>1 DEF RunsOf
<1>3. \A w : {runs'[r].attempt : r \in RunsOf(w)} = {runs[r].attempt : r \in RunsOf(w)}
  BY DEF RunsOf
<1>4. AttemptsWithinBudget'
  BY <1>2, <1>3 DEF AttemptInv, AttemptsWithinBudget
<1>5. LatestAttempts'
  BY <1>1, <1>2 DEF AttemptInv, LatestAttempts
<1>6. QED BY <1>4, <1>5

\* A new run with the next attempt, after which no earlier run of the item counts.
LEMMA NextAttempt ==
  ASSUME AttemptInv, NEW w \in WorkItems, Len(runs') = Len(runs) + 1,
         \A q \in RunIds : /\ runs'[q].item = runs[q].item
                           /\ runs'[q].attempt = runs[q].attempt
                           /\ IsActive(q)' \/ Held(q)' =>
                                (IsActive(q) \/ Held(q)) /\ runs[q].item # w,
         runs'[Len(runs) + 1].item = w,
         runs'[Len(runs) + 1].attempt = Cardinality(RunsOf(w)) + 1,
         Cardinality(RunsOf(w)) < AttemptBudget[w]
  PROVE  AttemptsWithinBudget' /\ LatestAttempts'
<1> DEFINE new == Len(runs) + 1
           n == Cardinality(RunsOf(w))
<1>1. TypeOK /\ n \in Nat /\ IsFiniteSet(RunsOf(w)) /\ AttemptBudget[w] \in Nat
  BY ConstantsAssumption, RunCountType DEF AttemptInv, RunInv, TypeInv
<1>2. /\ RunIds' = RunIds \cup {new} /\ new \notin RunIds
      /\ \A v : RunsOf(v)' = IF v = w THEN RunsOf(v) \cup {new} ELSE RunsOf(v)
  BY <1>1, RunAdded
<1>3. Cardinality(RunsOf(w)') = n + 1
  <2>1. new \notin RunsOf(w)
    BY <1>2 DEF RunsOf
  <2>2. QED BY <1>1, <1>2, <2>1, FS_AddElement
<1>4. \A v \in WorkItems \ {w} :
        {runs'[r].attempt : r \in RunsOf(v)'} = {runs[r].attempt : r \in RunsOf(v)}
  BY <1>2 DEF RunsOf
<1>5. {runs'[r].attempt : r \in RunsOf(w)'} = 1 .. (n + 1)
  <2>1. {runs'[r].attempt : r \in RunsOf(w)'}
          = {runs[r].attempt : r \in RunsOf(w)} \cup {n + 1}
    <3>1. /\ RunsOf(w)' = RunsOf(w) \cup {new}
          /\ \A r \in RunsOf(w) : runs'[r].attempt = runs[r].attempt
          /\ runs'[new].attempt = n + 1
      BY <1>2 DEF RunsOf
    <3> HIDE DEF n, new
    <3>2. QED BY <3>1
  <2>2. {runs[r].attempt : r \in RunsOf(w)} = 1 .. n
    BY DEF AttemptInv, AttemptsWithinBudget
  <2>3. (1 .. n) \cup {n + 1} = 1 .. (n + 1)
    BY <1>1
  <2>4. QED BY <2>1, <2>2, <2>3
<1> HIDE DEF n, new
<1>6. ASSUME NEW v \in WorkItems
      PROVE  /\ {runs'[r].attempt : r \in RunsOf(v)'} = 1 .. Cardinality(RunsOf(v)')
             /\ Cardinality(RunsOf(v)') <= AttemptBudget[v]
  <2>1. CASE v = w
    BY <1>1, <1>3, <1>5, <2>1 DEF n
  <2>2. CASE v # w
    BY <1>2, <1>4, <2>2 DEF AttemptInv, AttemptsWithinBudget
  <2>3. QED BY <2>1, <2>2
<1>7. AttemptsWithinBudget'
  BY <1>6 DEF AttemptsWithinBudget
<1>8. ASSUME NEW r \in RunIds', IsActive(r)' \/ Held(r)', NEW v, v = runs'[r].item
      PROVE  runs'[r].attempt = Cardinality(RunsOf(v)')
  <2>1. CASE r = new
    BY <1>3, <1>8, <2>1 DEF n, new
  <2>2. CASE r \in RunIds
    <3>1. v = runs[r].item /\ v # w /\ (IsActive(r) \/ Held(r))
          /\ runs'[r].attempt = runs[r].attempt
      BY <1>8, <2>2
    <3>2. runs[r].attempt = Cardinality(RunsOf(v))
      BY <2>2, <3>1 DEF AttemptInv, LatestAttempts
    <3>3. RunsOf(v)' = RunsOf(v)
      BY <1>2, <3>1
    <3>4. QED BY <3>1, <3>2, <3>3
  <2>3. QED BY <1>2, <2>1, <2>2
<1>9. LatestAttempts'
  BY <1>8 DEF LatestAttempts, RunsOf
<1>10. QED BY <1>7, <1>9

\* A dispatch numbers the first run of its item.
LEMMA DispatchAttempts ==
  ASSUME AttemptInv, NEW c \in Operators, CommitDispatch(c)
  PROVE  AttemptsWithinBudget' /\ LatestAttempts'
<1> DEFINE w == request[c].item
<1>1. RunInv /\ TypeInv /\ TypeOK
  BY DEF AttemptInv, RunInv, TypeInv
<1>2. /\ request[c] \in DispatchRequest
      /\ Len(runs') = Len(runs) + 1
      /\ \A q \in RunIds : runs'[q] = runs[q]
      /\ runs'[Len(runs) + 1] = [item |-> w, attempt |-> request[c].attempt,
                                 status |-> "queued", delay |-> 0]
  BY <1>1, CommitDispatchType
<1>3. w \in WorkItems
  BY <1>2 DEF DispatchRequest
<1>4. \A q \in RunIds : runs[q].item # w
  BY <1>1, DispatchKeeps
<1>5. RunsOf(w) = {} /\ Cardinality(RunsOf(w)) = 0
  BY <1>4, FS_EmptySet DEF RunsOf
<1>6. request[c].attempt = 1 /\ AttemptBudget[w] \in Nat \ {0}
  BY <1>5 DEF AttemptInv, PlannedFirst, CommitDispatch
<1>7. \A q \in RunIds : IsActive(q)' \/ Held(q)' => IsActive(q) \/ Held(q)
  <2>1. UNCHANGED worker
    BY DEF CommitDispatch
  <2>2. QED BY <1>2, <2>1 DEF IsActive, Held, Busy
<1>8. /\ runs'[Len(runs) + 1].item = w
      /\ runs'[Len(runs) + 1].attempt = Cardinality(RunsOf(w)) + 1
  BY <1>2, <1>5, <1>6
<1>9. Cardinality(RunsOf(w)) < AttemptBudget[w]
  BY <1>5, <1>6
<1> HIDE DEF w
<1>10. QED BY <1>2, <1>3, <1>4, <1>7, <1>8, <1>9, NextAttempt

\* A retry numbers its run after the attempt it replaces, the last of the item.
LEMMA RetryAttempts ==
  ASSUME AttemptInv, NEW k \in Workers, scheduleRetry(k)
  PROVE  AttemptsWithinBudget' /\ LatestAttempts'
<1> DEFINE r == worker[k].run
           w == runs[r].item
<1>1. RunInv /\ TypeInv /\ TypeOK /\ worker \in [Workers -> WorkerState]
  BY DEF AttemptInv, RunInv, TypeInv, TypeOK
<1>2. /\ r \in RunIds /\ Len(runs') = Len(runs) + 1
      /\ \A q \in RunIds :
           runs'[q] = IF q = r THEN [runs[q] EXCEPT !.status = "transient_failure"]
                      ELSE runs[q]
      /\ runs'[Len(runs) + 1].item = w
  BY <1>1, RetryTables
<1>3. runs'[Len(runs) + 1].attempt = runs[r].attempt + 1
  BY <1>1, RetryTables
<1>4. \A q \in RunIds : /\ runs'[q].item = runs[q].item
                        /\ runs'[q].attempt = runs[q].attempt
                        /\ runs[q].item \in WorkItems
                        /\ IsActive(q)' => IsActive(q)
  <2>1. \A q \in RunIds : runs[q] \in RunRow
    BY <1>1, RunsFunction
  <2>2. \A q \in RunIds : q # r => runs'[q] = runs[q]
    BY <1>2
  <2>3. runs'[r].status = "transient_failure" /\ runs'[r].item = runs[r].item
        /\ runs'[r].attempt = runs[r].attempt
    BY <1>2, <2>1 DEF RunRow
  <2>4. QED BY <2>1, <2>2, <2>3 DEF IsActive, ActiveStatus, RunRow
<1>5. Held(r)
  BY DEF scheduleRetry, Held, Busy
<1>6. runs[r].attempt = Cardinality(RunsOf(w)) /\ runs[r].attempt < AttemptBudget[w]
  BY <1>2, <1>5 DEF AttemptInv, LatestAttempts, scheduleRetry, RetryDispatched
<1>7. \A q \in RunIds : Held(q)' => Held(q)
  <2>1. worker' = [worker EXCEPT ![k] = IdleWorker]
    BY DEF scheduleRetry, WorkerWrite
  <2>2. QED BY <1>1, <2>1 DEF Held, Busy, IdleWorker
<1>8. \A q \in RunIds : IsActive(q)' \/ Held(q)' => runs[q].item # w
  BY <1>1, RetryKeeps
<1>9. w \in WorkItems
  BY <1>2, <1>4
<1>10. runs'[Len(runs) + 1].attempt = Cardinality(RunsOf(w)) + 1
  BY <1>3, <1>6
<1> HIDE DEF r, w
<1>11. QED BY <1>2, <1>4, <1>6, <1>7, <1>8, <1>9, <1>10, NextAttempt

\* Every step keeps the numbering and what it rests on.
LEMMA AttemptStep == AttemptInv /\ [Next]_vars => AttemptInv'
<1> SUFFICES ASSUME AttemptInv, [Next]_vars
             PROVE  AttemptsWithinBudget' /\ LatestAttempts'
  BY RunStep, LatestRunsStep, PlannedFirstStep DEF AttemptInv
<1>1. RunInv /\ TypeInv /\ TypeOK /\ worker \in [Workers -> WorkerState]
  BY DEF AttemptInv, RunInv, TypeInv, TypeOK
<1>2. CASE NoNewRun
  <2>1. \A q \in RunIds : IsActive(q)' \/ Held(q)' => IsActive(q) \/ Held(q)
    BY <1>2 DEF NoNewRun, IsActive, Held, Busy
  <2>2. QED BY <1>2, <2>1, NoNewAttempt DEF NoNewRun
<1>3. ASSUME NEW k \in Workers, Dequeue(k)
      PROVE  AttemptsWithinBudget' /\ LatestAttempts'
  <2>1. PICK r \in RunIds : /\ runs[r].status = "queued"
                            /\ runs' = [runs EXCEPT ![r].status = "running"]
                            /\ worker' = [worker EXCEPT ![k] =
                                            [pc |-> "claimed", run |-> r]]
    BY <1>3 DEF Dequeue
  <2>2. \A q \in RunIds : runs[q] \in RunRow
    BY <1>1, RunsFunction
  <2>3. \A q \in RunIds : /\ runs'[q].item = runs[q].item
                          /\ runs'[q].attempt = runs[q].attempt
                          /\ q # r => runs'[q].status = runs[q].status
    <3>1. DOMAIN runs = RunIds
      BY <1>1, RunsFunction
    <3>2. QED BY <2>1, <2>2, <3>1 DEF RunRow
  <2>4. Len(runs') = Len(runs)
    BY <1>1, <1>3, DequeueTables
  <2>5. \A q \in RunIds : Held(q)' => q = r \/ Held(q)
    BY <1>1, <2>1 DEF Held, Busy
  <2>6. IsActive(r) /\ \A q \in RunIds : IsActive(q)' => q = r \/ IsActive(q)
    BY <2>1, <2>3, <2>4 DEF IsActive, ActiveStatus, RunIds
  <2>7. \A q \in RunIds : IsActive(q)' \/ Held(q)' => IsActive(q) \/ Held(q)
    BY <2>5, <2>6
  <2>8. QED BY <2>3, <2>4, <2>7, NoNewAttempt
<1>4. QED BY <1>1, <1>2, <1>3, StepKinds, DispatchAttempts, RetryAttempts

\* There are no runs and no requests when an objective has been created.
LEMMA AttemptInit == Init => AttemptInv
<1> SUFFICES ASSUME Init PROVE AttemptInv
  OBVIOUS
<1>1. RunInv /\ \A w : RunsOf(w) = {} /\ Cardinality(RunsOf(w)) = 0
  BY RunInit, FS_EmptySet DEF Init, RunsOf, RunIds
<1>2. AttemptsWithinBudget
  BY <1>1, ConstantsAssumption DEF AttemptsWithinBudget
<1>3. LatestAttempts
  BY DEF Init, LatestAttempts, RunIds
<1>4. LatestRunsExist /\ PlannedFirst
  BY DEF Init, LatestRunsExist, PlannedFirst, NoRequest, InitialItem
<1>5. QED BY <1>1, <1>2, <1>3, <1>4 DEF AttemptInv

\* The attempts of a work item are numbered 1, 2, ... and stay within its budget,
\* for any number of operators, workers and crashes: a dispatch read before another
\* attempt began is stopped by the claim row (createDispatchDecision, scheduleRetry).
THEOREM AttemptNumbering == Spec => []AttemptsWithinBudget
<1>1. AttemptInv => AttemptsWithinBudget
  BY DEF AttemptInv
<1>2. QED BY <1>1, AttemptInit, AttemptStep, PTL DEF Spec
=============================================================================
