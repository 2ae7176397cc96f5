-------------------------- MODULE RunLifecycleProofs --------------------------
(***************************************************************************)
(* Theorems about RunLifecycle for every set of items, scopes, operators   *)
(* and workers, every budget, backoff table and lease length.              *)
(***************************************************************************)
EXTENDS RunLifecycle, FiniteSetTheorems, SequenceTheorems, TLAPS

\* The run ids that pending transactions and workers hold are ids of rows of the
\* runs table, which never loses one.
RunReferencesExist ==
  /\ \A c \in Operators :
       request[c].op = "update" => request[c].run \in 0 .. Len(runs)
  /\ \A k \in Workers :
       worker[k].pc # "idle" => worker[k].run \in RunIds

TypeInv == TypeOK /\ RunReferencesExist

-----------------------------------------------------------------------------
(* Lemmas about the helpers. *)

RunStatus == ActiveStatus \cup TaskResult

\* runs is a function on the run ids.
LEMMA RunsFunction ==
  ASSUME TypeOK
  PROVE  /\ Len(runs) \in Nat
         /\ DOMAIN runs = RunIds
         /\ \A r \in RunIds : runs[r] \in RunRow
BY LenProperties, ElementOfSeq DEF TypeOK, RunIds

\* RunsWith keeps the table's length, every row but one, and its type.
LEMMA RunsWithType ==
  ASSUME TypeOK, NEW r \in 0 .. Len(runs), NEW st \in RunStatus
  PROVE  /\ RunsWith(r, st) \in Seq(RunRow)
         /\ Len(RunsWith(r, st)) = Len(runs)
         /\ \A q \in RunIds :
              RunsWith(r, st)[q] = IF q = r THEN [runs[q] EXCEPT !.status = st]
                                   ELSE runs[q]
<1>1. CASE r = 0
  BY <1>1, RunsFunction DEF RunsWith, TypeOK, RunIds
<1>2. CASE r # 0
  <2>1. r \in 1 .. Len(runs) /\ runs[r] \in RunRow
    BY <1>2, RunsFunction DEF RunIds
  <2>2. [runs[r] EXCEPT !.status = st] \in RunRow
    BY <2>1 DEF RunRow, RunStatus
  <2>3. RunsWith(r, st) = [runs EXCEPT ![r] = [runs[r] EXCEPT !.status = st]]
    BY <1>2 DEF RunsWith
  <2>4. QED
    BY <2>1, <2>2, <2>3, ExceptSeq DEF TypeOK, RunIds
<1>3. QED BY <1>1, <1>2

\* Appending a row keeps the rows there are.
LEMMA AppendRow ==
  ASSUME NEW tbl \in Seq(RunRow), NEW row \in RunRow
  PROVE  /\ Append(tbl, row) \in Seq(RunRow)
         /\ Len(Append(tbl, row)) = Len(tbl) + 1
         /\ Len(tbl) \in Nat
         /\ \A q \in 1 .. Len(tbl) : Append(tbl, row)[q] = tbl[q]
         /\ Append(tbl, row)[Len(tbl) + 1] = row
BY AppendProperties, LenProperties

\* The roll-up of an objective is a status, and so is the row it writes.
LEMMA ObjectiveType ==
  ASSUME TypeOK, NEW o \in Objectives, NEW seen, NEW items
  PROVE  syncObjectiveStatus(o, seen, items) \in [Objectives -> ObjectiveStatus]
<1>1. ObjectiveStatusFor(o, items) \in ObjectiveStatus
  BY DEF ObjectiveStatusFor, deriveObjectiveStatus, ObjectiveStatus
<1>2. QED
  BY <1>1 DEF syncObjectiveStatus, TypeOK

\* Writing item rows leaves item rows.
LEMMA ItemsType ==
  ASSUME TypeOK, NEW rows \in [WorkItems -> ItemRow \cup {Keep}]
  PROVE  ItemsWith(rows) \in [WorkItems -> ItemRow]
BY DEF ItemsWith, TypeOK

\* A transaction may write one item row and leave the others alone.
LEMMA RowForType ==
  ASSUME NEW w \in WorkItems, NEW row \in ItemRow
  PROVE  RowFor(w, row) \in [WorkItems -> ItemRow \cup {Keep}]
BY DEF RowFor, NoRow

\* What a task result makes of an item row, and what approvals make of it.
LEMMA RowTypes ==
  ASSUME TypeOK
  PROVE  /\ \A row \in ItemRow, result \in TaskResult, exhausted \in BOOLEAN :
              mapTaskResultToWorkItemStatus(row, result, exhausted) \in ItemRow
         /\ \A row \in ItemRow : ItemReady(row) \in ItemRow
         /\ \A w \in WorkItems : ReadyOrAwaiting(w) \in ItemRow
         /\ \A w \in WorkItems, row \in ItemRow : ItemAwaiting(w, row) \in ItemRow
<1>1. \A row \in ItemRow, s \in ItemStatus, t \in Reason :
        [row EXCEPT !.status = s, !.reason = t] \in ItemRow
  BY DEF ItemRow
<1>2. ASSUME NEW row \in ItemRow, NEW result \in TaskResult, NEW exhausted \in BOOLEAN
      PROVE  mapTaskResultToWorkItemStatus(row, result, exhausted) \in ItemRow
  BY <1>1 DEF mapTaskResultToWorkItemStatus, TaskResult, ItemStatus, Reason
<1>3. ASSUME NEW row \in ItemRow PROVE ItemReady(row) \in ItemRow
  BY <1>1 DEF ItemReady, ItemStatus, Reason
<1>4. ASSUME NEW w \in WorkItems, NEW row \in ItemRow
      PROVE  ItemAwaiting(w, row) \in ItemRow
  BY <1>1 DEF ItemAwaiting, ItemStatus, Reason
<1>5. ASSUME NEW w \in WorkItems PROVE ReadyOrAwaiting(w) \in ItemRow
  BY <1>3, <1>4 DEF ReadyOrAwaiting, TypeOK
<1>6. QED BY <1>2, <1>3, <1>4, <1>5

\* Releasing and sweeping claims changes neither scopes nor holders, activates
\* nothing, and deactivates only the claims they are about.
LEMMA ReleaseType ==
  ASSUME TypeOK, NEW r, NEW how \in {"released", "expired"}
  PROVE  LET after == releaseClaimLeaseByRunId(r, how)
         IN  /\ after \in [WorkItems -> ClaimRow]
             /\ \A w \in WorkItems :
                  /\ after[w].scope = claim[w].scope
                  /\ after[w].holder = claim[w].holder
                  /\ after[w].status = "active" <=>
                       claim[w].status = "active" /\ claim[w].holder # r
BY DEF releaseClaimLeaseByRunId, TypeOK, ClaimRow, ClaimStatus

\* The sweep of a dispatch leaves claim rows, scopes and holders as they are.
LEMMA SweepType ==
  ASSUME TypeOK, NEW s
  PROVE  LET after == expireActiveClaimLeases(s)
         IN  /\ after \in [WorkItems -> ClaimRow]
             /\ \A w \in WorkItems :
                  /\ after[w].scope = claim[w].scope
                  /\ after[w].holder = claim[w].holder
                  /\ after[w].status = "active" =>  claim[w].status = "active"
                  /\ /\ claim[w].status = "active"
                     /\ after[w].status # "active"
                     => claim[w].scope = s
BY DEF expireActiveClaimLeases, TypeOK, ClaimRow, ClaimStatus

\* The runs of an item are finitely many.
LEMMA RunCountType ==
  ASSUME TypeOK, NEW w
  PROVE  IsFiniteSet(RunsOf(w)) /\ Cardinality(RunsOf(w)) \in Nat
<1>1. IsFiniteSet(1 .. Len(runs))
  BY RunsFunction, FS_Interval
<1>2. RunsOf(w) \in SUBSET (1 .. Len(runs))
  BY DEF RunsOf, RunIds
<1>3. QED BY <1>1, <1>2, FS_Subset, FS_CardinalityType

-----------------------------------------------------------------------------
(* Type correctness. *)

\* The pending transactions, on their own.
RequestType ==
  request \in [Operators -> {NoRequest} \cup UpdateRequest \cup DispatchRequest]

\* The keys of a request are idempotency keys.
LEMMA KeysType ==
  ASSUME NEW mode, NEW command \in Command, NEW w \in WorkItems, NEW n \in Nat,
         NEW detail \in {""} \cup Decision \cup TaskResult
  PROVE  KeysFor(mode, command, w, n, detail) \in SUBSET Key
<1>1. [command |-> command, item |-> w, n |-> n, detail |-> detail] \in Key
  BY DEF Key
<1>2. QED BY <1>1 DEF KeysFor

\* A handler that plans a well-typed transaction leaves the table well typed.
LEMMA PlanType ==
  ASSUME TypeInv, NEW c \in Operators, NEW o \in Objectives,
         NEW rows \in [WorkItems -> ItemRow \cup {Keep}],
         NEW r \in 0 .. Len(runs), NEW outcome \in TaskResult,
         NEW decided \in [Gated -> {"granted", "denied", "keep"}],
         NEW keys \in SUBSET Key,
         Plan(c, o, rows, r, outcome, decided, keys),
         UNCHANGED <<runs, worker>>
  PROVE  RequestType' /\ RunReferencesExist'
<1> DEFINE row == [op |-> "update", objective |-> o, seen |-> objective[o],
                   rows |-> rows, approvals |-> decided, run |-> r,
                   outcome |-> outcome, keys |-> keys]
<1>1. r \in Nat
  BY RunsFunction DEF TypeInv
<1>2. objective[o] \in ObjectiveStatus
  BY DEF TypeInv, TypeOK
<1>3. row \in UpdateRequest
  BY <1>1, <1>2 DEF UpdateRequest
<1>4. request' = [request EXCEPT ![c] = row]
  BY DEF Plan
<1> HIDE DEF row
<1>5. RequestType'
  BY <1>3, <1>4 DEF RequestType, TypeInv, TypeOK
<1>6. row.run = r
  BY DEF row
<1>7. RunReferencesExist'
  BY <1>4, <1>6 DEF RunReferencesExist, TypeInv, TypeOK, RunIds
<1>8. QED BY <1>5, <1>7

\* A request that is over, and any step that neither plans nor removes a run,
\* keeps pending transactions well typed.
LEMMA DoneType ==
  ASSUME TypeInv, NEW c \in Operators,
         request' = [request EXCEPT ![c] = NoRequest]
  PROVE  /\ RequestType'
         /\ \A d \in Operators :
              request'[d].op = "update" =>
                request[d].op = "update" /\ request'[d].run = request[d].run
BY DEF RequestType, TypeInv, TypeOK, NoRequest

\* A transaction or worker write of one item row and one objective row.
LEMMA WriteType ==
  ASSUME TypeInv, NEW o \in Objectives, NEW seen,
         NEW rows \in [WorkItems -> ItemRow \cup {Keep}],
         workItem' = ItemsWith(rows),
         objective' = syncObjectiveStatus(o, seen, ItemsWith(rows))
  PROVE  /\ workItem' \in [WorkItems -> ItemRow]
         /\ objective' \in [Objectives -> ObjectiveStatus]
BY ItemsType, ObjectiveType DEF TypeInv

\* The rows objective creation leaves behind have their types.
LEMMA TypeInit == Init => TypeInv
<1> SUFFICES ASSUME Init PROVE TypeInv
  OBVIOUS
<1>1. workItem \in [WorkItems -> ItemRow]
  BY DEF Init, InitialItem, ItemRow, ItemStatus, Reason
<1>2. objective \in [Objectives -> ObjectiveStatus]
  BY DEF Init, ObjectiveStatusFor, deriveObjectiveStatus, ObjectiveStatus
<1>3. claim \in [WorkItems -> ClaimRow]
  BY ConstantsAssumption DEF Init, ClaimRow, ClaimStatus
<1>4. approval \in [Gated -> ApprovalStatus]
  BY DEF Init, ApprovalStatus
<1>5. runs \in Seq(RunRow)
  BY DEF Init
<1>6. /\ request \in [Operators -> {NoRequest}]
      /\ worker \in [Workers -> {IdleWorker}]
      /\ usedKeys = {} /\ issued = 0 /\ crashes = 0
  BY DEF Init
<1>7. TypeOK
  BY <1>1, <1>2, <1>3, <1>4, <1>5, <1>6, ConstantsAssumption
  DEF TypeOK, WorkerState
<1>8. RunReferencesExist
  BY <1>6 DEF RunReferencesExist, NoRequest, IdleWorker
<1>9. QED BY <1>7, <1>8 DEF TypeInv

\* The reads of an operator request change only its pending transaction and, in
\* dispatch, sweep claims.
LEMMA BeginType ==
  ASSUME TypeInv, NEW c \in Operators, Begin(c)
  PROVE  /\ RequestType' /\ RunReferencesExist'
         /\ claim' \in [WorkItems -> ClaimRow]
         /\ issued' \in 0 .. MaxRequests
         /\ UNCHANGED <<workItem, approval, objective, runs, usedKeys, worker,
                        crashes>>
<1> USE DEF TypeInv
<1>1. TypeOK /\ claim \in [WorkItems -> ClaimRow] /\ Len(runs) \in Nat
  BY RunsFunction DEF TypeOK
<1>2. ASSUME Arrives(c) PROVE issued' \in 0 .. MaxRequests
  BY <1>2, ConstantsAssumption DEF Arrives, TypeOK
<1>3. NoDecision \in [Gated -> {"granted", "denied", "keep"}]
  BY DEF NoDecision
<1>4. NoRow \in [WorkItems -> ItemRow \cup {Keep}]
  BY DEF NoRow
<1>5. 0 \in 0 .. Len(runs) /\ "cancelled" \in TaskResult
  BY <1>1 DEF TaskResult
<1>6. \A w \in WorkItems : ObjectiveOf[w] \in Objectives
  BY ConstantsAssumption
<1>7. \A w \in WorkItems : workItem[w] \in ItemRow
  BY DEF TypeOK
<1>8. ASSUME NEW w \in WorkItems, NEW s \in Scopes, NEW newInput \in BOOLEAN,
             NEW mode \in KeyModes, BeginDispatch(c, w, s, newInput, mode)
      PROVE  /\ RequestType' /\ RunReferencesExist'
             /\ claim' \in [WorkItems -> ClaimRow]
  <2> DEFINE latest == LatestRun(w)
             consumed == IF IF latest = 0 THEN FALSE
                            ELSE runs[latest].status = "transient_failure"
                         THEN runs[latest].attempt
                         ELSE Cardinality(RunsOf(w))
             swept == expireActiveClaimLeases(s)
             conflict == \E v \in WorkItems \ {w} :
                           swept[v].status = "active" /\ swept[v].scope = s
             decision == createDispatchDecision(w, w \in Gated /\ approval[w] = "granted",
                           conflict, consumed, latest = 0 \/ newInput)
             attempt == Cardinality(RunsOf(w)) + 1
             withheld == [workItem[w] EXCEPT
                            !.status = IF decision = "escalated" THEN "escalated"
                                       ELSE "blocked",
                            !.reason = WithheldReason(decision)]
  <2>1. claim' \in [WorkItems -> ClaimRow]
    BY <1>8, <1>1, SweepType DEF BeginDispatch
  <2>2. UNCHANGED <<runs, worker>>
    BY <1>8 DEF BeginDispatch
  <2>3. attempt \in Nat
    BY <1>1, RunCountType
  <2>4. CASE decision = "dispatched"
    <3> DEFINE row == [op |-> "dispatch", item |-> w, scope |-> s,
                       attempt |-> attempt, seen |-> objective[ObjectiveOf[w]],
                       keys |-> KeysFor(mode, "work-item:dispatch", w, attempt, "")]
    <3>1. request' = [request EXCEPT ![c] = row]
      BY <1>8, <2>4 DEF BeginDispatch
    <3>2. objective[ObjectiveOf[w]] \in ObjectiveStatus
      BY <1>6 DEF TypeOK
    <3>3. KeysFor(mode, "work-item:dispatch", w, attempt, "") \in SUBSET Key
      BY <2>3, KeysType DEF Command
    <3> HIDE DEF attempt
    <3>4. row \in DispatchRequest
      BY <2>3, <3>2, <3>3 DEF DispatchRequest
    <3>5. row.op = "dispatch"
      OBVIOUS
    <3> HIDE DEF row
    <3>6. RequestType'
      BY <3>1, <3>4 DEF RequestType, TypeOK
    <3>7. RunReferencesExist'
      BY <3>1, <3>5, <2>2 DEF RunReferencesExist, TypeOK, RunIds
    <3>8. QED BY <3>6, <3>7, <2>1
  <2>5. CASE decision # "dispatched"
    <3>1. decision \in {"withheld_missing_approval", "withheld_scope_conflict",
                        "withheld_retry_budget_exhausted", "escalated"}
      BY <2>5 DEF createDispatchDecision
    <3>2. Plan(c, ObjectiveOf[w], RowFor(w, withheld), 0, "cancelled", NoDecision,
               KeysFor(mode, "work-item:dispatch", w, 0, decision))
      BY <1>8, <2>5 DEF BeginDispatch
    <3> HIDE DEF decision
    <3>3. WithheldReason(decision) \in Reason
      BY <3>1 DEF WithheldReason, Reason
    <3>4. withheld \in ItemRow
      BY <3>3, <1>7 DEF ItemRow, ItemStatus
    <3>5. KeysFor(mode, "work-item:dispatch", w, 0, decision) \in SUBSET Key
      BY <3>1, KeysType DEF Command, Decision
    <3> HIDE DEF withheld
    <3>6. RowFor(w, withheld) \in [WorkItems -> ItemRow \cup {Keep}]
      BY <3>4, RowForType
    <3>7. RequestType' /\ RunReferencesExist'
      BY <3>2, <3>5, <3>6, <2>2, <1>3, <1>5, <1>6, PlanType
    <3>8. QED BY <3>7, <2>1
  <2>6. QED BY <2>4, <2>5
<1>9. ASSUME NEW w \in WorkItems, NEW mode \in KeyModes, BeginCancel(c, w, mode)
      PROVE  RequestType' /\ RunReferencesExist'
  <2> DEFINE row == [workItem[w] EXCEPT !.status = "cancelled",
                                        !.reason = "cancelled_by_operator"]
             latest == workItem[w].latestRun
             run == IF IsActive(latest) THEN latest ELSE 0
  <2>1. row \in ItemRow
    BY <1>7 DEF ItemRow, ItemStatus, Reason
  <2>2. RowFor(w, row) \in [WorkItems -> ItemRow \cup {Keep}]
    BY <2>1, RowForType
  <2>3. run \in 0 .. Len(runs)
    BY <1>5 DEF IsActive, RunIds
  <2>4. KeysFor(mode, "work-item:cancel", w, 0, "") \in SUBSET Key
    BY KeysType DEF Command
  <2>5. /\ Plan(c, ObjectiveOf[w], RowFor(w, row), run, "cancelled", NoDecision,
                KeysFor(mode, "work-item:cancel", w, 0, ""))
        /\ UNCHANGED <<runs, worker>>
    BY <1>9 DEF BeginCancel
  <2> HIDE DEF row, run
  <2>6. QED BY <2>2, <2>3, <2>4, <2>5, <1>3, <1>5, <1>6, PlanType
<1>10. ASSUME NEW w \in WorkItems, NEW mode \in KeyModes, BeginRequeue(c, w, mode)
       PROVE  RequestType' /\ RunReferencesExist'
  <2>1. RowFor(w, ReadyOrAwaiting(w)) \in [WorkItems -> ItemRow \cup {Keep}]
    BY RowTypes, RowForType
  <2>2. Cardinality(RunsOf(w)) + 1 \in Nat
    BY RunCountType
  <2>3. KeysFor(mode, "work-item:requeue", w, Cardinality(RunsOf(w)) + 1, "")
          \in SUBSET Key
    BY <2>2, KeysType DEF Command
  <2>4. /\ Plan(c, ObjectiveOf[w], RowFor(w, ReadyOrAwaiting(w)), 0, "cancelled",
                NoDecision,
                KeysFor(mode, "work-item:requeue", w, Cardinality(RunsOf(w)) + 1, ""))
        /\ UNCHANGED <<runs, worker>>
    BY <1>10 DEF BeginRequeue
  <2>5. QED BY <2>1, <2>3, <2>4, <1>3, <1>5, <1>6, PlanType
<1>11. ASSUME NEW r \in RunIds, NEW result \in TaskResult, NEW mode \in KeyModes,
              BeginComplete(c, r, result, mode)
       PROVE  RequestType' /\ RunReferencesExist'
  <2> DEFINE w == runs[r].item
             exhausted == isRetryBudgetExhausted(w, Cardinality(RunsOf(w)))
             row == mapTaskResultToWorkItemStatus(workItem[w], result, exhausted)
  <2>1. w \in WorkItems /\ r \in 0 .. Len(runs) /\ r \in Nat
    BY RunsFunction DEF RunRow, RunIds
  <2>2. exhausted \in BOOLEAN
    BY DEF isRetryBudgetExhausted
  <2>3. /\ Plan(c, ObjectiveOf[w], RowFor(w, row), r, result, NoDecision,
                KeysFor(mode, "run:complete", w, r, result))
        /\ UNCHANGED <<runs, worker>>
    BY <1>11 DEF BeginComplete
  <2> HIDE DEF w, exhausted
  <2>4. row \in ItemRow
    BY <2>1, <2>2, <1>7, RowTypes
  <2>5. RowFor(w, row) \in [WorkItems -> ItemRow \cup {Keep}]
    BY <2>1, <2>4, RowForType
  <2>6. KeysFor(mode, "run:complete", w, r, result) \in SUBSET Key
    BY <2>1, KeysType DEF Command
  <2> HIDE DEF row
  <2>7. QED BY <2>1, <2>3, <2>5, <2>6, <1>3, <1>6, PlanType
<1>12. ASSUME NEW w \in Gated, NEW mode \in KeyModes, BeginGrant(c, w, mode)
       PROVE  RequestType' /\ RunReferencesExist'
  <2> DEFINE rows == IF workItem[w].status \in {"running", "completed", "cancelled"}
                     THEN NoRow ELSE RowFor(w, ItemReady(workItem[w]))
             decided == [NoDecision EXCEPT ![w] = "granted"]
  <2>1. w \in WorkItems
    BY ConstantsAssumption
  <2>2. rows \in [WorkItems -> ItemRow \cup {Keep}]
    BY <2>1, <1>4, <1>7, RowTypes, RowForType
  <2>3. decided \in [Gated -> {"granted", "denied", "keep"}]
    BY <1>3
  <2>4. KeysFor(mode, "approval:grant", w, 0, "") \in SUBSET Key
    BY <2>1, KeysType DEF Command
  <2>5. /\ Plan(c, ObjectiveOf[w], rows, 0, "cancelled", decided,
                KeysFor(mode, "approval:grant", w, 0, ""))
        /\ UNCHANGED <<runs, worker>>
    BY <1>12 DEF BeginGrant
  <2> HIDE DEF rows, decided
  <2>6. QED BY <2>1, <2>2, <2>3, <2>4, <2>5, <1>5, <1>6, PlanType
<1>13. ASSUME NEW w \in Gated, NEW mode \in KeyModes, BeginDeny(c, w, mode)
       PROVE  RequestType' /\ RunReferencesExist'
  <2> DEFINE row == [workItem[w] EXCEPT !.status = "blocked",
                                        !.reason = "approval_denied"]
             decided == [NoDecision EXCEPT ![w] = "denied"]
  <2>1. w \in WorkItems
    BY ConstantsAssumption
  <2>2. row \in ItemRow
    BY <2>1, <1>7 DEF ItemRow, ItemStatus, Reason
  <2>3. RowFor(w, row) \in [WorkItems -> ItemRow \cup {Keep}]
    BY <2>1, <2>2, RowForType
  <2>4. decided \in [Gated -> {"granted", "denied", "keep"}]
    BY <1>3
  <2>5. KeysFor(mode, "approval:deny", w, 0, "") \in SUBSET Key
    BY <2>1, KeysType DEF Command
  <2>6. /\ Plan(c, ObjectiveOf[w], RowFor(w, row), 0, "cancelled", decided,
                KeysFor(mode, "approval:deny", w, 0, ""))
        /\ UNCHANGED <<runs, worker>>
    BY <1>13 DEF BeginDeny
  <2> HIDE DEF row, decided
  <2>7. QED BY <2>1, <2>3, <2>4, <2>5, <2>6, <1>5, <1>6, PlanType
<1>14. ASSUME NEW o \in Objectives, BeginReplan(c, o)
       PROVE  RequestType' /\ RunReferencesExist'
  <2> DEFINE changed == {w \in ItemsOf(o) :
                    /\ workItem[w].status \notin {"running", "completed", "cancelled"}
                    /\ workItem[w] # ReadyOrAwaiting(w)}
             rows == [w \in WorkItems |-> IF w \in changed THEN ReadyOrAwaiting(w)
                                          ELSE Keep]
  <2>1. rows \in [WorkItems -> ItemRow \cup {Keep}]
    BY RowTypes
  <2>2. /\ Plan(c, o, rows, 0, "cancelled", NoDecision, {})
        /\ UNCHANGED <<runs, worker>>
    BY <1>14 DEF BeginReplan
  <2> HIDE DEF rows
  <2>3. QED BY <2>1, <2>2, <1>3, <1>5, PlanType
<1>15. Arrives(c) /\ UNCHANGED <<workItem, approval, objective, runs, usedKeys,
                                 worker, crashes>>
  <2> DEFINE Read == Arrives(c) /\ UNCHANGED <<workItem, approval, objective, runs,
                                              usedKeys, worker, crashes>>
  <2>1. ASSUME NEW w \in WorkItems, NEW s \in Scopes, NEW newInput \in BOOLEAN,
               NEW mode \in KeyModes, BeginDispatch(c, w, s, newInput, mode)
        PROVE  Read
    BY <2>1 DEF BeginDispatch
  <2>2. \A w \in WorkItems, mode \in KeyModes :
          BeginCancel(c, w, mode) \/ BeginRequeue(c, w, mode) => Read
    BY DEF BeginCancel, BeginRequeue
  <2>3. \A r \in RunIds, result \in TaskResult, mode \in KeyModes :
          BeginComplete(c, r, result, mode) => Read
    BY DEF BeginComplete
  <2>4. \A w \in Gated, mode \in KeyModes :
          BeginGrant(c, w, mode) \/ BeginDeny(c, w, mode) => Read
    BY DEF BeginGrant, BeginDeny
  <2>5. \A o \in Objectives : BeginReplan(c, o) => Read
    BY DEF BeginReplan
  <2> HIDE DEF Read
  <2>6. Read
    BY <2>1, <2>2, <2>3, <2>4, <2>5 DEF Begin
  <2>7. QED BY <2>6 DEF Read
<1>16. RequestType' /\ RunReferencesExist' /\ claim' \in [WorkItems -> ClaimRow]
  <2>1. CASE \E w \in WorkItems, s \in Scopes, newInput \in BOOLEAN, mode \in KeyModes :
               BeginDispatch(c, w, s, newInput, mode)
    BY <2>1, <1>8
  <2>2. CASE \E w \in WorkItems, mode \in KeyModes :
               BeginCancel(c, w, mode) \/ BeginRequeue(c, w, mode)
    <3>1. claim' = claim
      BY <2>2 DEF BeginCancel, BeginRequeue
    <3>2. QED BY <2>2, <3>1, <1>1, <1>9, <1>10
  <2>3. CASE \E r \in RunIds, result \in TaskResult, mode \in KeyModes :
               BeginComplete(c, r, result, mode)
    <3>1. claim' = claim
      BY <2>3 DEF BeginComplete
    <3>2. QED BY <2>3, <3>1, <1>1, <1>11
  <2>4. CASE \E w \in Gated, mode \in KeyModes :
               BeginGrant(c, w, mode) \/ BeginDeny(c, w, mode)
    <3>1. claim' = claim
      BY <2>4 DEF BeginGrant, BeginDeny
    <3>2. QED BY <2>4, <3>1, <1>1, <1>12, <1>13
  <2>5. CASE \E o \in Objectives : BeginReplan(c, o)
    <3>1. claim' = claim
      BY <2>5 DEF BeginReplan
    <3>2. QED BY <2>5, <3>1, <1>1, <1>14
  <2>6. QED BY <2>1, <2>2, <2>3, <2>4, <2>5 DEF Begin
<1>17. QED BY <1>2, <1>15, <1>16

\* One transaction of an operator request.
LEMMA CommitType ==
  ASSUME TypeInv, NEW c \in Operators, Commit(c)
  PROVE  TypeInv'
<1> DEFINE q == request[c]
<1>1. q \in UpdateRequest
  <2>1. request[c] \in {NoRequest} \cup UpdateRequest \cup DispatchRequest
    BY DEF TypeInv, TypeOK
  <2>2. request[c].op = "update"
    BY DEF Commit
  <2>3. QED BY <2>1, <2>2 DEF NoRequest, DispatchRequest
<1>2. /\ q.objective \in Objectives
      /\ q.rows \in [WorkItems -> ItemRow \cup {Keep}]
      /\ q.approvals \in [Gated -> {"granted", "denied", "keep"}]
      /\ q.outcome \in RunStatus /\ q.keys \in SUBSET Key
  BY <1>1 DEF UpdateRequest, RunStatus
<1>3. q.run \in 0 .. Len(runs)
  BY DEF Commit, TypeInv, RunReferencesExist
<1>4. /\ workItem' = ItemsWith(q.rows)
      /\ approval' = [w \in Gated |-> IF q.approvals[w] = "keep"
                                      THEN approval[w] ELSE q.approvals[w]]
      /\ objective' = syncObjectiveStatus(q.objective, q.seen, ItemsWith(q.rows))
      /\ runs' = RunsWith(q.run, q.outcome)
      /\ claim' = releaseClaimLeaseByRunId(q.run, "released")
      /\ usedKeys' = usedKeys \cup q.keys
      /\ request' = [request EXCEPT ![c] = NoRequest]
      /\ UNCHANGED <<worker, issued, crashes>>
  BY DEF Commit
<1> HIDE DEF q
<1>5. /\ workItem' \in [WorkItems -> ItemRow]
      /\ objective' \in [Objectives -> ObjectiveStatus]
  BY <1>2, <1>4, WriteType
<1>6. approval' \in [Gated -> ApprovalStatus]
  BY <1>2, <1>4 DEF TypeInv, TypeOK, ApprovalStatus
<1>7. runs' \in Seq(RunRow) /\ Len(runs') = Len(runs)
  BY <1>2, <1>3, <1>4, RunsWithType DEF TypeInv
<1>8. claim' \in [WorkItems -> ClaimRow]
  BY <1>4, ReleaseType DEF TypeInv
<1>9. RequestType' /\ \A d \in Operators :
        request'[d].op = "update" =>
          request[d].op = "update" /\ request'[d].run = request[d].run
  BY <1>4, DoneType
<1>10. TypeOK'
  BY <1>2, <1>4, <1>5, <1>6, <1>7, <1>8, <1>9 DEF TypeInv, TypeOK, RequestType
<1>11. RunReferencesExist'
  BY <1>4, <1>7, <1>9 DEF TypeInv, RunReferencesExist, RunIds
<1>12. QED BY <1>10, <1>11 DEF TypeInv

\* The transaction of a dispatch: a run behind the others, its claim, its item.
LEMMA CommitDispatchType ==
  ASSUME TypeInv, NEW c \in Operators, CommitDispatch(c)
  PROVE  /\ TypeInv'
         /\ request[c] \in DispatchRequest
         /\ Len(runs') = Len(runs) + 1
         /\ \A r \in RunIds : runs'[r] = runs[r]
         /\ runs'[Len(runs) + 1] =
              [item |-> request[c].item, attempt |-> request[c].attempt,
               status |-> "queued", delay |-> 0]
<1> DEFINE q == request[c]
           r == Len(runs) + 1
           new == [item |-> q.item, attempt |-> q.attempt, status |-> "queued",
                   delay |-> 0]
           item == [status |-> "running", reason |-> "none", latestRun |-> r]
           lease == [status |-> "active", scope |-> q.scope, holder |-> r,
                     ttl |-> ClaimTTL]
<1>1. q \in DispatchRequest
  <2>1. request[c] \in {NoRequest} \cup UpdateRequest \cup DispatchRequest
    BY DEF TypeInv, TypeOK
  <2>2. request[c].op = "dispatch"
    BY DEF CommitDispatch
  <2>3. QED BY <2>1, <2>2 DEF NoRequest, UpdateRequest
<1>2. /\ q.item \in WorkItems /\ q.scope \in Scopes /\ q.attempt \in Nat
      /\ q.keys \in SUBSET Key
  BY <1>1 DEF DispatchRequest
<1>3. Len(runs) \in Nat /\ r \in Nat /\ runs \in Seq(RunRow)
  BY RunsFunction DEF TypeInv, TypeOK
<1>4. /\ workItem' = ItemsWith(RowFor(q.item, item))
      /\ objective' = syncObjectiveStatus(ObjectiveOf[q.item], q.seen,
                                          ItemsWith(RowFor(q.item, item)))
      /\ runs' = Append(runs, new)
      /\ claim' = [claim EXCEPT ![q.item] = lease]
      /\ usedKeys' = usedKeys \cup q.keys
      /\ request' = [request EXCEPT ![c] = NoRequest]
      /\ UNCHANGED <<approval, worker, issued, crashes>>
  BY DEF CommitDispatch
<1>5. new \in RunRow
  BY <1>2 DEF RunRow, ActiveStatus
<1>6. item \in ItemRow
  BY <1>3 DEF ItemRow, ItemStatus, Reason
<1>7. lease \in ClaimRow
  BY <1>2, <1>3, ConstantsAssumption DEF ClaimRow, ClaimStatus
<1> HIDE DEF q, item, lease, new
<1>8. /\ workItem' \in [WorkItems -> ItemRow]
      /\ objective' \in [Objectives -> ObjectiveStatus]
  <2>1. RowFor(q.item, item) \in [WorkItems -> ItemRow \cup {Keep}]
    BY <1>2, <1>6, RowForType
  <2>2. ObjectiveOf[q.item] \in Objectives
    BY <1>2, ConstantsAssumption
  <2>3. QED BY <1>4, <2>1, <2>2, WriteType
<1>9. /\ runs' \in Seq(RunRow) /\ Len(runs') = Len(runs) + 1
      /\ \A p \in RunIds : runs'[p] = runs[p]
      /\ runs'[r] = new
  BY <1>3, <1>4, <1>5, AppendRow DEF RunIds
<1>10. claim' \in [WorkItems -> ClaimRow]
  BY <1>2, <1>4, <1>7 DEF TypeInv, TypeOK
<1>11. RequestType' /\ \A d \in Operators :
         request'[d].op = "update" =>
           request[d].op = "update" /\ request'[d].run = request[d].run
  BY <1>4, DoneType
<1>12. TypeOK'
  BY <1>2, <1>4, <1>8, <1>9, <1>10, <1>11 DEF TypeInv, TypeOK, RequestType
<1>13. RunReferencesExist'
  BY <1>3, <1>4, <1>9, <1>11 DEF TypeInv, RunReferencesExist, RunIds
<1>14. QED BY <1>1, <1>9, <1>12, <1>13 DEF TypeInv, new, q

\* A transaction of a worker, whatever it writes to runs and claims.
LEMMA WorkerWriteType ==
  ASSUME TypeInv, NEW k \in Workers, NEW row \in ItemRow, WorkerWrite(k, row),
         worker[k].pc # "idle",
         runs' \in Seq(RunRow), Len(runs') \in Nat, Len(runs) <= Len(runs'),
         claim' \in [WorkItems -> ClaimRow]
  PROVE  TypeInv'
<1> DEFINE w == runs[worker[k].run].item
           rows == RowFor(w, row)
<1>1. worker[k].run \in RunIds
  BY DEF TypeInv, RunReferencesExist
<1>2. w \in WorkItems /\ Len(runs) \in Nat
  BY <1>1, RunsFunction DEF TypeInv, RunRow
<1>3. /\ workItem' = ItemsWith(rows)
      /\ objective' = syncObjectiveStatus(ObjectiveOf[w], worker[k].seen, ItemsWith(rows))
      /\ worker' = [worker EXCEPT ![k] = IdleWorker]
      /\ UNCHANGED <<approval, usedKeys, request, issued, crashes>>
  BY DEF WorkerWrite
<1> HIDE DEF w
<1>4. rows \in [WorkItems -> ItemRow \cup {Keep}]
  BY <1>2, RowForType
<1> HIDE DEF rows
<1>5. /\ workItem' \in [WorkItems -> ItemRow]
      /\ objective' \in [Objectives -> ObjectiveStatus]
  BY <1>2, <1>3, <1>4, WriteType, ConstantsAssumption
<1>6. worker' \in [Workers -> WorkerState]
  BY <1>3 DEF TypeInv, TypeOK, WorkerState
<1>7. TypeOK'
  BY <1>3, <1>5, <1>6 DEF TypeInv, TypeOK
<1>8. \A j \in Workers : worker'[j].pc # "idle" =>
        worker[j].pc # "idle" /\ worker'[j].run = worker[j].run
  BY <1>3 DEF TypeInv, TypeOK, IdleWorker
<1>9. RunReferencesExist'
  BY <1>2, <1>3, <1>8 DEF TypeInv, RunReferencesExist, RunIds
<1>10. QED BY <1>7, <1>9 DEF TypeInv

\* What a worker that has read its context holds.
LEMMA ContextType ==
  ASSUME TypeInv, NEW k \in Workers, worker[k].pc \in {"executing", "expired"}
  PROVE  worker[k].row \in ItemRow /\ worker[k].run \in RunIds
<1>1. worker[k] \in WorkerState
  BY DEF TypeInv, TypeOK
<1>2. QED BY <1>1 DEF WorkerState, IdleWorker, TypeInv, RunReferencesExist

\* The two tables after a retry: the settled run, the new one behind it, and the
\* claim handed over.
LEMMA RetryTables ==
  ASSUME TypeInv, NEW k \in Workers, scheduleRetry(k)
  PROVE  /\ worker[k].run \in RunIds
         /\ runs' \in Seq(RunRow) /\ Len(runs') = Len(runs) + 1
         /\ \A q \in RunIds :
              runs'[q] = IF q = worker[k].run
                         THEN [runs[q] EXCEPT !.status = "transient_failure"]
                         ELSE runs[q]
         /\ runs'[Len(runs) + 1].item = runs[worker[k].run].item
         /\ runs'[Len(runs) + 1].attempt = runs[worker[k].run].attempt + 1
         /\ runs'[Len(runs) + 1].status = "queued"
         /\ claim' \in [WorkItems -> ClaimRow]
         /\ \A w \in WorkItems :
              /\ claim'[w].status = claim[w].status
              /\ claim'[w].scope = claim[w].scope
              /\ claim'[w].holder =
                   IF claim[w].status = "active" /\ claim[w].holder = worker[k].run
                   THEN Len(runs) + 1 ELSE claim[w].holder
<1> DEFINE r == worker[k].run
           next == Len(runs) + 1
           backoff == selectRetryBackoff(runs[r].attempt)
           new == [item |-> runs[r].item, attempt |-> runs[r].attempt + 1,
                   status |-> "queued", delay |-> backoff]
<1>1. r \in RunIds
  BY ContextType DEF scheduleRetry
<1>2. runs[r] \in RunRow /\ Len(runs) \in Nat /\ r \in 0 .. Len(runs)
  BY <1>1, RunsFunction DEF TypeInv, RunIds
<1>3. backoff \in Nat
  <2>1. Len(Backoff) \in Nat /\ Len(Backoff) > 0
        /\ \A i \in 1 .. Len(Backoff) : Backoff[i] \in Nat
    BY ConstantsAssumption
  <2>2. runs[r].attempt \in Nat
    BY <1>2 DEF RunRow
  <2>3. QED BY <2>1, <2>2 DEF selectRetryBackoff
<1>4. new \in RunRow
  BY <1>2, <1>3 DEF RunRow, ActiveStatus
<1>5. /\ RunsWith(r, "transient_failure") \in Seq(RunRow)
      /\ Len(RunsWith(r, "transient_failure")) = Len(runs)
      /\ \A q \in RunIds : RunsWith(r, "transient_failure")[q] =
           IF q = r THEN [runs[q] EXCEPT !.status = "transient_failure"] ELSE runs[q]
  BY <1>2, RunsWithType DEF TypeInv, RunStatus, TaskResult
<1>6. runs' = Append(RunsWith(r, "transient_failure"), new)
  BY DEF scheduleRetry
<1>7. /\ runs' \in Seq(RunRow) /\ Len(runs') = Len(runs) + 1
      /\ \A q \in 1 .. Len(runs) : runs'[q] = RunsWith(r, "transient_failure")[q]
      /\ runs'[Len(runs) + 1] = new
  <2> HIDE DEF new
  <2>1. QED BY <1>4, <1>5, <1>6, AppendRow
<1>8. claim' = [w \in WorkItems |->
                 IF claim[w].status = "active" /\ claim[w].holder = r
                 THEN [claim[w] EXCEPT !.holder = next, !.ttl = RetryLease(backoff)]
                 ELSE claim[w]]
  BY DEF scheduleRetry
<1>9. RetryLease(backoff) \in Nat /\ next \in Nat
  BY <1>2, <1>3, ConstantsAssumption DEF RetryLease
<1> HIDE DEF r, next, backoff
<1>10. claim' \in [WorkItems -> ClaimRow]
  BY <1>8, <1>9 DEF TypeInv, TypeOK, ClaimRow
<1>11. \A w \in WorkItems :
         /\ claim'[w].status = claim[w].status
         /\ claim'[w].scope = claim[w].scope
         /\ claim'[w].holder =
              IF claim[w].status = "active" /\ claim[w].holder = r
              THEN next ELSE claim[w].holder
  BY <1>8 DEF TypeInv, TypeOK, ClaimRow
<1>12. QED BY <1>1, <1>5, <1>7, <1>10, <1>11 DEF r, next, RunIds

\* Passing time touches nothing but delays and lease lengths.
LEMMA TickTables ==
  ASSUME TypeInv, Tick
  PROVE  /\ runs' \in Seq(RunRow) /\ Len(runs') = Len(runs)
         /\ \A q \in RunIds : /\ runs'[q].item = runs[q].item
                              /\ runs'[q].attempt = runs[q].attempt
                              /\ runs'[q].status = runs[q].status
         /\ claim' \in [WorkItems -> ClaimRow]
         /\ \A w \in WorkItems : /\ claim'[w].status = claim[w].status
                                 /\ claim'[w].scope = claim[w].scope
                                 /\ claim'[w].holder = claim[w].holder
<1>1. \A n \in Nat : Lower(n) \in Nat
  BY DEF Lower
<1>2. Len(runs) \in Nat /\ \A q \in RunIds : runs[q] \in RunRow
  BY RunsFunction DEF TypeInv
<1>3. runs' = [r \in RunIds |-> [runs[r] EXCEPT !.delay = Lower(@)]]
  BY DEF Tick
<1>4. runs' \in [1 .. Len(runs) -> RunRow]
  BY <1>1, <1>2, <1>3 DEF RunRow, RunIds
<1>5. runs' \in Seq(RunRow)
  BY <1>2, <1>4
<1>6. Len(runs') = Len(runs)
  BY <1>2, <1>4, <1>5, LenProperties
<1>7. \A q \in RunIds : /\ runs'[q].item = runs[q].item
                        /\ runs'[q].attempt = runs[q].attempt
                        /\ runs'[q].status = runs[q].status
  BY <1>2, <1>3 DEF RunRow
<1>8. claim' = [w \in WorkItems |-> [claim[w] EXCEPT !.ttl = Lower(@)]]
  BY DEF Tick
<1>9. claim' \in [WorkItems -> ClaimRow]
  BY <1>1, <1>8 DEF TypeInv, TypeOK, ClaimRow
<1>10. \A w \in WorkItems : /\ claim'[w].status = claim[w].status
                            /\ claim'[w].scope = claim[w].scope
                            /\ claim'[w].holder = claim[w].holder
  BY <1>8 DEF TypeInv, TypeOK, ClaimRow
<1>11. QED BY <1>5, <1>6, <1>7, <1>9, <1>10

\* dequeueQueuedRun changes the status of one run and claims it for a worker.
LEMMA DequeueTables ==
  ASSUME TypeInv, NEW k \in Workers, Dequeue(k)
  PROVE  /\ TypeInv'
         /\ Len(runs') = Len(runs)
         /\ \A q \in RunIds : /\ runs'[q].item = runs[q].item
                              /\ runs[q].status \in ActiveStatus
                                   => runs'[q].status \in ActiveStatus
<1>1. PICK r \in RunIds :
        /\ runs[r].status = "queued"
        /\ runs' = [runs EXCEPT ![r].status = "running"]
        /\ worker' = [worker EXCEPT ![k] = [pc |-> "claimed", run |-> r]]
  BY DEF Dequeue
<1>2. UNCHANGED <<workItem, approval, objective, claim, usedKeys, request, issued,
                  crashes>>
  BY DEF Dequeue
<1>3. r \in Nat \ {0} /\ Len(runs) \in Nat /\ runs[r] \in RunRow
  BY RunsFunction DEF TypeInv, RunIds
<1>4. [runs[r] EXCEPT !.status = "running"] \in RunRow
  BY <1>3 DEF RunRow, ActiveStatus
<1>5. /\ runs' \in Seq(RunRow) /\ Len(runs') = Len(runs)
      /\ \A q \in RunIds : runs'[q] = IF q = r THEN [runs[r] EXCEPT !.status = "running"]
                                      ELSE runs[q]
  BY <1>1, <1>4, ExceptSeq DEF TypeInv, TypeOK, RunIds
<1>6. [pc |-> "claimed", run |-> r] \in WorkerState
  BY <1>3 DEF WorkerState
<1>7. worker' \in [Workers -> WorkerState]
  BY <1>1, <1>6 DEF TypeInv, TypeOK
<1>8. TypeOK'
  BY <1>2, <1>5, <1>7 DEF TypeInv, TypeOK
<1>9. RunReferencesExist'
  BY <1>1, <1>2, <1>5 DEF TypeInv, TypeOK, RunReferencesExist, RunIds
<1>10. QED
  BY <1>3, <1>5, <1>8, <1>9 DEF TypeInv, RunRow, ActiveStatus

\* What processRun reads has the types of the rows it reads.
LEMMA ReadContextType ==
  ASSUME TypeInv, NEW k \in Workers, ReadContext(k)
  PROVE  TypeInv'
<1> DEFINE r == worker[k].run
           w == runs[r].item
           pc == worker'[k].pc
<1>1. r \in RunIds /\ r \in Nat \ {0}
  BY RunsFunction DEF ReadContext, TypeInv, RunReferencesExist, RunIds
<1>2. w \in WorkItems
  BY <1>1, RunsFunction DEF TypeInv, RunRow
<1>3. workItem[w] \in ItemRow /\ objective[ObjectiveOf[w]] \in ObjectiveStatus
  BY <1>2, ConstantsAssumption DEF TypeInv, TypeOK
<1>4. \E p \in {"expired", "executing"} :
        worker' = [worker EXCEPT ![k] =
          [pc |-> p, run |-> r, row |-> workItem[w], seen |-> objective[ObjectiveOf[w]]]]
  <2> DEFINE expired == \E v \in WorkItems : /\ claim[v].status = "active"
                                             /\ claim[v].holder = r
                                             /\ claim[v].ttl = 0
  <2>1. worker' = [worker EXCEPT ![k] =
          [pc |-> IF expired THEN "expired" ELSE "executing", run |-> r,
           row |-> workItem[w], seen |-> objective[ObjectiveOf[w]]]]
    BY DEF ReadContext
  <2> HIDE DEF expired
  <2>2. QED BY <2>1
<1>5. PICK p \in {"expired", "executing"} :
        worker' = [worker EXCEPT ![k] =
          [pc |-> p, run |-> r, row |-> workItem[w], seen |-> objective[ObjectiveOf[w]]]]
  BY <1>4
<1>6. [pc |-> p, run |-> r, row |-> workItem[w], seen |-> objective[ObjectiveOf[w]]]
        \in WorkerState
  BY <1>1, <1>3 DEF WorkerState
<1>7. UNCHANGED <<workItem, approval, objective, runs, claim, usedKeys, request,
                  issued, crashes>>
  BY DEF ReadContext
<1>8. TypeOK'
  BY <1>5, <1>6, <1>7 DEF TypeInv, TypeOK
<1>9. RunReferencesExist'
  BY <1>1, <1>5, <1>7 DEF TypeInv, TypeOK, RunReferencesExist, RunIds
<1>10. QED BY <1>8, <1>9 DEF TypeInv

\* Both settlements: the run gets its outcome and its claims end.
LEMMA SettleTables ==
  ASSUME TypeInv, NEW k \in Workers,
         settleRunWithExpiredClaim(k)
           \/ \E result \in TaskResult : settleRunWithTaskResult(k, result)
  PROVE  /\ TypeInv'
         /\ \E st \in TaskResult, how \in {"released", "expired"} :
              /\ runs' = RunsWith(worker[k].run, st)
              /\ claim' = releaseClaimLeaseByRunId(worker[k].run, how)
<1> DEFINE r == worker[k].run
<1>1. r \in RunIds /\ worker[k].row \in ItemRow /\ worker[k].pc # "idle"
  BY ContextType DEF settleRunWithExpiredClaim, settleRunWithTaskResult
<1>2. r \in 0 .. Len(runs) /\ Len(runs) \in Nat
  BY <1>1, RunsFunction DEF TypeInv, RunIds
<1>3. PICK row \in ItemRow, st \in TaskResult, how \in {"released", "expired"} :
        /\ WorkerWrite(k, row)
        /\ runs' = RunsWith(r, st)
        /\ claim' = releaseClaimLeaseByRunId(r, how)
  <2>1. CASE settleRunWithExpiredClaim(k)
    <3>1. [worker[k].row EXCEPT !.status = "escalated", !.reason = "claim_expired"]
            \in ItemRow
      BY <1>1 DEF ItemRow, ItemStatus, Reason
    <3>2. "cancelled" \in TaskResult
      BY DEF TaskResult
    <3>3. QED BY <2>1, <3>1, <3>2 DEF settleRunWithExpiredClaim
  <2>2. CASE \E result \in TaskResult : settleRunWithTaskResult(k, result)
    <3>1. PICK result \in TaskResult : settleRunWithTaskResult(k, result)
      BY <2>2
    <3> DEFINE exhausted == isRetryBudgetExhausted(runs[r].item, runs[r].attempt)
    <3>2. exhausted \in BOOLEAN
      BY DEF isRetryBudgetExhausted
    <3>3. /\ WorkerWrite(k, mapTaskResultToWorkItemStatus(worker[k].row, result, exhausted))
          /\ runs' = RunsWith(r, result)
          /\ claim' = releaseClaimLeaseByRunId(r, "released")
      BY <3>1 DEF settleRunWithTaskResult
    <3> HIDE DEF exhausted
    <3>4. mapTaskResultToWorkItemStatus(worker[k].row, result, exhausted) \in ItemRow
      BY <1>1, <3>2, RowTypes DEF TypeInv
    <3>5. QED BY <3>3, <3>4
  <2>3. QED BY <2>1, <2>2
<1>4. runs' \in Seq(RunRow) /\ Len(runs') = Len(runs)
  BY <1>2, <1>3, RunsWithType DEF TypeInv, RunStatus
<1>5. claim' \in [WorkItems -> ClaimRow]
  BY <1>3, ReleaseType DEF TypeInv
<1>6. TypeInv'
  BY <1>1, <1>2, <1>3, <1>4, <1>5, WorkerWriteType
<1>7. QED BY <1>3, <1>6

\* Every step of the operators, the workers and time keeps the types.
LEMMA TypeStep == TypeInv /\ [Next]_vars => TypeInv'
<1> SUFFICES ASSUME TypeInv, [Next]_vars PROVE TypeInv'
  OBVIOUS
<1>1. ASSUME NEW c \in Operators, Begin(c) PROVE TypeInv'
  BY <1>1, BeginType DEF TypeInv, TypeOK, RequestType
<1>2. ASSUME NEW c \in Operators, Commit(c) PROVE TypeInv'
  BY <1>2, CommitType
<1>3. ASSUME NEW c \in Operators, CommitDispatch(c) PROVE TypeInv'
  BY <1>3, CommitDispatchType
<1>4. ASSUME NEW c \in Operators, Rollback(c) PROVE TypeInv'
  <2>1. /\ request' = [request EXCEPT ![c] = NoRequest]
        /\ UNCHANGED <<workItem, approval, objective, runs, claim, usedKeys, worker,
                       issued, crashes>>
    BY <1>4 DEF Rollback
  <2>2. RequestType' /\ \A d \in Operators :
          request'[d].op = "update" =>
            request[d].op = "update" /\ request'[d].run = request[d].run
    BY <2>1, DoneType
  <2>3. QED BY <2>1, <2>2 DEF TypeInv, TypeOK, RequestType, RunReferencesExist, RunIds
<1>5. ASSUME NEW k \in Workers, Dequeue(k) PROVE TypeInv'
  BY <1>5, DequeueTables
<1>6. ASSUME NEW k \in Workers, ReadContext(k) PROVE TypeInv'
  BY <1>6, ReadContextType
<1>7. ASSUME NEW k \in Workers,
             settleRunWithExpiredClaim(k)
               \/ \E result \in TaskResult : settleRunWithTaskResult(k, result)
      PROVE  TypeInv'
  BY <1>7, SettleTables
<1>8. ASSUME NEW k \in Workers, scheduleRetry(k) PROVE TypeInv'
  <2> DEFINE next == Len(runs) + 1
             row == [status |-> "running", reason |-> "none", latestRun |-> next]
  <2>1. WorkerWrite(k, row) /\ worker[k].pc # "idle"
    BY <1>8 DEF scheduleRetry
  <2>2. Len(runs) \in Nat
    BY RunsFunction DEF TypeInv
  <2>3. row \in ItemRow
    BY <2>2 DEF ItemRow, ItemStatus, Reason
  <2>4. /\ runs' \in Seq(RunRow) /\ Len(runs') = Len(runs) + 1
        /\ claim' \in [WorkItems -> ClaimRow]
    BY <1>8, RetryTables
  <2> HIDE DEF row
  <2>5. QED BY <2>1, <2>2, <2>3, <2>4, WorkerWriteType
<1>9. ASSUME NEW k \in Workers, WorkerCrash(k) PROVE TypeInv'
  <2>1. /\ crashes' = crashes + 1 /\ crashes < MaxCrashes
        /\ worker' = [worker EXCEPT ![k] = IdleWorker]
        /\ UNCHANGED <<workItem, approval, objective, runs, claim, usedKeys, request,
                       issued>>
    BY <1>9 DEF WorkerCrash
  <2>2. crashes' \in 0 .. MaxCrashes
    BY <2>1, ConstantsAssumption DEF TypeInv, TypeOK
  <2>3. worker' \in [Workers -> WorkerState]
    BY <2>1 DEF TypeInv, TypeOK, WorkerState
  <2>4. QED BY <2>1, <2>2, <2>3
    DEF TypeInv, TypeOK, RunReferencesExist, RunIds, IdleWorker
<1>10. ASSUME Tick PROVE TypeInv'
  <2>1. UNCHANGED <<workItem, approval, objective, usedKeys, request, worker,
                    issued, crashes>>
    BY <1>10 DEF Tick
  <2>2. QED BY <2>1, <1>10, TickTables DEF TypeInv, TypeOK, RunReferencesExist, RunIds
<1>11. CASE UNCHANGED vars
  BY <1>11 DEF vars, TypeInv, TypeOK, RunReferencesExist, RunIds
<1>12. QED
  BY <1>1, <1>2, <1>3, <1>4, <1>5, <1>6, <1>7, <1>8, <1>9, <1>10, <1>11
  DEF Next, OperatorStep, WorkerStep

\* Every row, pending transaction and worker keeps its type, and the run ids they
\* hold stay ids of rows (the tables of db/migrate.ts, the handlers' closures).
THEOREM TypeCorrect == Spec => []TypeOK
<1>1. TypeInv => TypeOK
  BY DEF TypeInv
<1>2. QED BY <1>1, TypeInit, TypeStep, PTL DEF Spec

-----------------------------------------------------------------------------
(* Lease safety. *)

LeaseInv == TypeInv /\ OneActiveClaimPerScope /\ ActiveClaimHeldByActiveRun

\* A step after which no claim is active that was not, with holders and scopes
\* as before, keeps both parts if the runs that hold the claims stay active.
LEMMA LeaseKept ==
  ASSUME LeaseInv,
         \A w \in WorkItems :
           claim'[w].status = "active" =>
             /\ claim[w].status = "active"
             /\ claim'[w].scope = claim[w].scope
             /\ claim'[w].holder = claim[w].holder
             /\ IsActive(claim[w].holder) =>
                  /\ IsActive(claim[w].holder)'
                  /\ runs'[claim[w].holder].item = runs[claim[w].holder].item
  PROVE  OneActiveClaimPerScope' /\ ActiveClaimHeldByActiveRun'
<1>1. OneActiveClaimPerScope'
  BY DEF LeaseInv, OneActiveClaimPerScope
<1>2. ASSUME NEW w \in WorkItems, claim'[w].status = "active"
      PROVE  (IsActive(claim[w].holder) /\ runs[claim[w].holder].item = w)'
  BY <1>2 DEF LeaseInv, ActiveClaimHeldByActiveRun, IsActive
<1>3. QED BY <1>1, <1>2 DEF ActiveClaimHeldByActiveRun

\* No claim is active when an objective has been created.
LEMMA LeaseInit == Init => LeaseInv
<1> SUFFICES ASSUME Init PROVE LeaseInv
  OBVIOUS
<1>1. \A w \in WorkItems : claim[w].status = "none"
  BY DEF Init
<1>2. QED BY <1>1, TypeInit
  DEF LeaseInv, OneActiveClaimPerScope, ActiveClaimHeldByActiveRun

\* A run that is settled in the step that ends its claims leaves none behind.
LEMMA SettleLease ==
  ASSUME LeaseInv, NEW r \in 0 .. Len(runs), NEW st \in TaskResult,
         NEW how \in {"released", "expired"},
         runs' = RunsWith(r, st), claim' = releaseClaimLeaseByRunId(r, how)
  PROVE  OneActiveClaimPerScope' /\ ActiveClaimHeldByActiveRun'
<1>1. /\ Len(runs') = Len(runs)
      /\ \A q \in RunIds : q # r => runs'[q] = runs[q]
  <2>1. TypeOK /\ st \in RunStatus
    BY DEF LeaseInv, TypeInv, RunStatus
  <2>2. QED BY <2>1, RunsWithType
<1>2. \A w \in WorkItems :
        /\ claim'[w].scope = claim[w].scope
        /\ claim'[w].holder = claim[w].holder
        /\ claim'[w].status = "active" <=>
             claim[w].status = "active" /\ claim[w].holder # r
  BY ReleaseType DEF LeaseInv, TypeInv
<1>3. QED BY <1>1, <1>2, LeaseKept DEF IsActive, RunIds

\* The reads of an operator request sweep the claims of a scope or none.
LEMMA BeginSweeps ==
  ASSUME NEW c \in Operators, Begin(c)
  PROVE  claim' = claim \/ \E s \in Scopes : claim' = expireActiveClaimLeases(s)
<1> DEFINE Swept == claim' = claim
                      \/ \E s \in Scopes : claim' = expireActiveClaimLeases(s)
<1>1. ASSUME NEW w \in WorkItems, NEW s \in Scopes, NEW newInput \in BOOLEAN,
             NEW mode \in KeyModes, BeginDispatch(c, w, s, newInput, mode)
      PROVE  Swept
  BY <1>1 DEF BeginDispatch
<1>2. \A w \in WorkItems, mode \in KeyModes :
        BeginCancel(c, w, mode) \/ BeginRequeue(c, w, mode) => Swept
  BY DEF BeginCancel, BeginRequeue
<1>3. \A r \in RunIds, result \in TaskResult, mode \in KeyModes :
        BeginComplete(c, r, result, mode) => Swept
  BY DEF BeginComplete
<1>4. \A w \in Gated, mode \in KeyModes :
        BeginGrant(c, w, mode) \/ BeginDeny(c, w, mode) => Swept
  BY DEF BeginGrant, BeginDeny
<1>5. \A o \in Objectives : BeginReplan(c, o) => Swept
  BY DEF BeginReplan
<1> HIDE DEF Swept
<1>6. Swept
  BY <1>1, <1>2, <1>3, <1>4, <1>5 DEF Begin
<1>7. QED BY <1>6 DEF Swept

\* Every step keeps the claims of active runs, one per scope.
LEMMA LeaseStep == LeaseInv /\ [Next]_vars => LeaseInv'
<1> SUFFICES ASSUME LeaseInv, [Next]_vars
             PROVE  OneActiveClaimPerScope' /\ ActiveClaimHeldByActiveRun'
  BY TypeStep DEF LeaseInv
<1>1. TypeInv /\ TypeOK
  BY DEF LeaseInv, TypeInv
<1>2. ASSUME NEW c \in Operators, Begin(c)
      PROVE  OneActiveClaimPerScope' /\ ActiveClaimHeldByActiveRun'
  <2>1. UNCHANGED runs
    BY <1>1, <1>2, BeginType
  <2>2. claim' = claim \/ \E s \in Scopes : claim' = expireActiveClaimLeases(s)
    BY <1>2, BeginSweeps
  <2>3. \A w \in WorkItems :
          claim'[w].status = "active" =>
            /\ claim[w].status = "active"
            /\ claim'[w].scope = claim[w].scope
            /\ claim'[w].holder = claim[w].holder
    BY <1>1, <2>2, SweepType
  <2>4. QED BY <2>1, <2>3, LeaseKept DEF IsActive, RunIds
<1>3. ASSUME NEW c \in Operators, Commit(c)
      PROVE  OneActiveClaimPerScope' /\ ActiveClaimHeldByActiveRun'
  <2>1. /\ runs' = RunsWith(request[c].run, request[c].outcome)
        /\ claim' = releaseClaimLeaseByRunId(request[c].run, "released")
        /\ request[c].op = "update"
    BY <1>3 DEF Commit
  <2>2. request[c].run \in 0 .. Len(runs)
    BY <1>1, <2>1 DEF TypeInv, RunReferencesExist
  <2>3. request[c].outcome \in TaskResult
    <3>1. request[c] \in {NoRequest} \cup UpdateRequest \cup DispatchRequest
      BY <1>1 DEF TypeOK
    <3>2. QED BY <2>1, <3>1 DEF NoRequest, UpdateRequest, DispatchRequest
  <2>4. QED BY <2>1, <2>2, <2>3, SettleLease
<1>4. ASSUME NEW c \in Operators, CommitDispatch(c)
      PROVE  OneActiveClaimPerScope' /\ ActiveClaimHeldByActiveRun'
  <2> DEFINE q == request[c]
             r == Len(runs) + 1
             lease == [status |-> "active", scope |-> q.scope, holder |-> r,
                       ttl |-> ClaimTTL]
  <2>1. q.item \in WorkItems /\ q.scope \in Scopes
    BY <1>1, <1>4, CommitDispatchType DEF DispatchRequest
  <2>2. /\ claim' = [claim EXCEPT ![q.item] = lease]
        /\ acquireClaimLease(q.item, q.scope)
    BY <1>4 DEF CommitDispatch
  <2>3. /\ Len(runs') = r /\ \A p \in RunIds : runs'[p] = runs[p]
        /\ runs'[r].item = q.item /\ runs'[r].status = "queued"
    <3>1. /\ Len(runs') = Len(runs) + 1
          /\ \A p \in RunIds : runs'[p] = runs[p]
          /\ runs'[Len(runs) + 1] =
               [item |-> request[c].item, attempt |-> request[c].attempt,
                status |-> "queued", delay |-> 0]
      BY <1>1, <1>4, CommitDispatchType
    <3>2. QED BY <3>1
  <2>4. Len(runs) \in Nat
    BY <1>1, RunsFunction
  <2>5. \A w \in WorkItems : claim'[w] = IF w = q.item THEN lease ELSE claim[w]
    BY <1>1, <2>1, <2>2 DEF TypeOK
  <2>6. OneActiveClaimPerScope'
    BY <2>2, <2>5 DEF LeaseInv, OneActiveClaimPerScope, acquireClaimLease
  <2>7. ASSUME NEW w \in WorkItems, claim'[w].status = "active"
        PROVE  (IsActive(claim[w].holder) /\ runs[claim[w].holder].item = w)'
    <3>1. CASE w = q.item
      BY <2>3, <2>4, <2>5, <3>1 DEF IsActive, RunIds, ActiveStatus
    <3>2. CASE w # q.item
      <4>1. claim'[w] = claim[w]
        BY <2>5, <3>2
      <4>2. IsActive(claim[w].holder) /\ runs[claim[w].holder].item = w
        BY <2>7, <4>1 DEF LeaseInv, ActiveClaimHeldByActiveRun
      <4>3. QED BY <2>3, <2>4, <4>1, <4>2 DEF IsActive, RunIds
    <3>3. QED BY <3>1, <3>2
  <2>8. QED BY <2>6, <2>7 DEF ActiveClaimHeldByActiveRun
<1>5. ASSUME NEW c \in Operators, Rollback(c)
      PROVE  OneActiveClaimPerScope' /\ ActiveClaimHeldByActiveRun'
  BY <1>5, LeaseKept DEF Rollback, IsActive, RunIds
<1>6. ASSUME NEW k \in Workers, Dequeue(k)
      PROVE  OneActiveClaimPerScope' /\ ActiveClaimHeldByActiveRun'
  <2>1. claim' = claim
    BY <1>6 DEF Dequeue
  <2>2. QED BY <1>1, <1>6, <2>1, DequeueTables, LeaseKept DEF IsActive, RunIds
<1>7. ASSUME NEW k \in Workers, ReadContext(k)
      PROVE  OneActiveClaimPerScope' /\ ActiveClaimHeldByActiveRun'
  <2>1. UNCHANGED <<claim, runs>>
    BY <1>7 DEF ReadContext
  <2>2. QED BY <2>1, LeaseKept DEF IsActive, RunIds
<1>8. ASSUME NEW k \in Workers,
             settleRunWithExpiredClaim(k)
               \/ \E result \in TaskResult : settleRunWithTaskResult(k, result)
      PROVE  OneActiveClaimPerScope' /\ ActiveClaimHeldByActiveRun'
  <2>1. PICK st \in TaskResult, how \in {"released", "expired"} :
          /\ runs' = RunsWith(worker[k].run, st)
          /\ claim' = releaseClaimLeaseByRunId(worker[k].run, how)
    BY <1>1, <1>8, SettleTables
  <2>2. worker[k].run \in RunIds
    BY <1>1, <1>8, ContextType DEF settleRunWithExpiredClaim, settleRunWithTaskResult
  <2>3. worker[k].run \in 0 .. Len(runs)
    BY <1>1, <2>2, RunsFunction DEF RunIds
  <2>4. QED BY <2>1, <2>3, SettleLease
<1>9. ASSUME NEW k \in Workers, scheduleRetry(k)
      PROVE  OneActiveClaimPerScope' /\ ActiveClaimHeldByActiveRun'
  <2> DEFINE r == worker[k].run
             next == Len(runs) + 1
  <2>1. /\ r \in RunIds /\ Len(runs') = next
        /\ \A q \in RunIds : q # r => runs'[q] = runs[q]
        /\ runs'[next].item = runs[r].item /\ runs'[next].status = "queued"
        /\ \A w \in WorkItems :
             /\ claim'[w].status = claim[w].status
             /\ claim'[w].scope = claim[w].scope
             /\ claim'[w].holder =
                  IF claim[w].status = "active" /\ claim[w].holder = r
                  THEN next ELSE claim[w].holder
    BY <1>1, <1>9, RetryTables
  <2>2. Len(runs) \in Nat
    BY <1>1, RunsFunction
  <2>3. OneActiveClaimPerScope'
    BY <2>1 DEF LeaseInv, OneActiveClaimPerScope
  <2>4. ASSUME NEW w \in WorkItems, claim'[w].status = "active"
        PROVE  (IsActive(claim[w].holder) /\ runs[claim[w].holder].item = w)'
    <3>1. /\ claim[w].status = "active"
          /\ IsActive(claim[w].holder) /\ runs[claim[w].holder].item = w
      BY <2>1, <2>4 DEF LeaseInv, ActiveClaimHeldByActiveRun
    <3>2. CASE claim[w].holder = r
      BY <2>1, <2>2, <3>1, <3>2 DEF IsActive, RunIds, ActiveStatus
    <3>3. CASE claim[w].holder # r
      BY <2>1, <2>2, <3>1, <3>3 DEF IsActive, RunIds
    <3>4. QED BY <3>2, <3>3
  <2>5. QED BY <2>3, <2>4 DEF ActiveClaimHeldByActiveRun
<1>10. ASSUME NEW k \in Workers, WorkerCrash(k)
       PROVE  OneActiveClaimPerScope' /\ ActiveClaimHeldByActiveRun'
  <2>1. UNCHANGED <<claim, runs>>
    BY <1>10 DEF WorkerCrash
  <2>2. QED BY <2>1, LeaseKept DEF IsActive, RunIds
<1>11. ASSUME Tick
       PROVE  OneActiveClaimPerScope' /\ ActiveClaimHeldByActiveRun'
  BY <1>1, <1>11, TickTables, LeaseKept DEF IsActive, RunIds
<1>12. CASE UNCHANGED vars
  BY <1>12, LeaseKept DEF vars, IsActive, RunIds
<1>13. QED
  BY <1>2, <1>3, <1>4, <1>5, <1>6, <1>7, <1>8, <1>9, <1>10, <1>11, <1>12
  DEF Next, OperatorStep, WorkerStep

\* No two claims on one scope are ever active, and an active claim is held by a
\* queued or running run of its own work item, for any number of operators and
\* workers (acquireClaimLease, releaseClaimLeaseByRunId, the transfer of a retry).
THEOREM LeaseSafety ==
  Spec => [](OneActiveClaimPerScope /\ ActiveClaimHeldByActiveRun)
<1>1. LeaseInv => OneActiveClaimPerScope /\ ActiveClaimHeldByActiveRun
  BY DEF LeaseInv
<1>2. QED BY <1>1, LeaseInit, LeaseStep, PTL DEF Spec

\* An active claim is held by a queued or running run of its own work item, whatever
\* cancels, completes, settles or retries it (the same, as the run states it).
THEOREM ClaimsHeld == Spec => []ActiveClaimHeldByActiveRun
<1>1. LeaseInv => ActiveClaimHeldByActiveRun
  BY DEF LeaseInv
<1>2. QED BY <1>1, LeaseInit, LeaseStep, PTL DEF Spec

-----------------------------------------------------------------------------
(* The claim leases implement ScopeLease. *)

\* Owners are sets of work items, before and after a step.
LEMMA OwnersType ==
  /\ scopeOwners \in [Scopes -> SUBSET WorkItems]
  /\ scopeOwners' \in [Scopes -> SUBSET WorkItems]
BY DEF scopeOwners

\* A step after which no claim is active that was not leaves every scope with its
\* owner or with none.
LEMMA ReleaseRefines ==
  ASSUME LeaseInv, NEW s \in Scopes,
         \A w \in WorkItems :
           /\ claim'[w].scope = claim[w].scope
           /\ claim'[w].status = "active" => claim[w].status = "active"
           /\ /\ claim[w].status = "active"
              /\ claim'[w].status # "active"
              => claim[w].scope = s
  PROVE  [Lease!Next]_scopeOwners
<1>1. \A t \in Scopes : t # s => scopeOwners'[t] = scopeOwners[t]
  BY DEF scopeOwners
<1>2. CASE scopeOwners'[s] = scopeOwners[s]
  <2>1. scopeOwners' = scopeOwners
    BY <1>1, <1>2 DEF scopeOwners
  <2>2. QED BY <2>1
<1>3. CASE scopeOwners'[s] # scopeOwners[s]
  <2>1. PICK w \in WorkItems :
          claim[w].status = "active" /\ claim[w].scope = s /\ claim'[w].status # "active"
    BY <1>3 DEF scopeOwners
  <2>2. scopeOwners[s] = {w}
    BY <2>1 DEF scopeOwners, LeaseInv, OneActiveClaimPerScope
  <2>3. scopeOwners'[s] = {}
    BY <2>1, <2>2 DEF scopeOwners, LeaseInv, OneActiveClaimPerScope
  <2>4. scopeOwners' = [scopeOwners EXCEPT ![s] = {}]
    BY <1>1, <2>3, OwnersType
  <2>5. Lease!Release(s)
    BY <2>2, <2>4 DEF Lease!Release
  <2>6. QED BY <2>5 DEF Lease!Next
<1>4. QED BY <1>2, <1>3

\* No change of the active claims and their scopes is a stutter.
LEMMA SameOwners ==
  ASSUME \A w \in WorkItems : /\ claim'[w].scope = claim[w].scope
                              /\ claim'[w].status = "active" <=> claim[w].status = "active"
  PROVE  [Lease!Next]_scopeOwners
BY DEF scopeOwners

\* A release by run ends at most the one claim of the item of that run.
LEMMA ReleaseByRunRefines ==
  ASSUME LeaseInv, NEW r, NEW how \in {"released", "expired"},
         claim' = releaseClaimLeaseByRunId(r, how)
  PROVE  [Lease!Next]_scopeOwners
<1>1. \A w \in WorkItems :
        /\ claim'[w].scope = claim[w].scope
        /\ claim'[w].status = "active" <=>
             claim[w].status = "active" /\ claim[w].holder # r
  BY ReleaseType DEF LeaseInv, TypeInv
<1>2. CASE \E w \in WorkItems : claim[w].status = "active" /\ claim[w].holder = r
  <2>1. PICK w \in WorkItems : claim[w].status = "active" /\ claim[w].holder = r
    BY <1>2
  <2>2. \A v \in WorkItems : claim[v].status = "active" /\ claim[v].holder = r => v = w
    BY <2>1 DEF LeaseInv, ActiveClaimHeldByActiveRun
  <2>3. claim[w].scope \in Scopes
    BY DEF LeaseInv, TypeInv, TypeOK, ClaimRow
  <2>4. QED BY <1>1, <2>2, <2>3, ReleaseRefines
<1>3. CASE ~ \E w \in WorkItems : claim[w].status = "active" /\ claim[w].holder = r
  BY <1>1, <1>3, SameOwners
<1>4. QED BY <1>2, <1>3

\* At first no scope has an owner.
LEMMA LeaseRefinementInit == Init => Lease!Init
BY DEF Init, Lease!Init, scopeOwners

\* Every step takes a free scope for one item, frees scopes of one item, or is
\* a stutter of the abstract lease.
LEMMA LeaseRefinementStep ==
  LeaseInv /\ [Next]_vars => [Lease!Next]_scopeOwners
<1> SUFFICES ASSUME LeaseInv, [Next]_vars PROVE [Lease!Next]_scopeOwners
  OBVIOUS
<1>1. TypeInv /\ TypeOK
  BY DEF LeaseInv, TypeInv
<1>2. ASSUME UNCHANGED claim PROVE [Lease!Next]_scopeOwners
  BY <1>2, SameOwners
<1>3. ASSUME NEW c \in Operators, Begin(c) PROVE [Lease!Next]_scopeOwners
  <2>1. claim' = claim \/ \E s \in Scopes : claim' = expireActiveClaimLeases(s)
    BY <1>3, BeginSweeps
  <2>2. CASE claim' = claim
    BY <2>2, <1>2
  <2>3. CASE \E s \in Scopes : claim' = expireActiveClaimLeases(s)
    <3>1. PICK s \in Scopes : claim' = expireActiveClaimLeases(s)
      BY <2>3
    <3>2. QED BY <1>1, <3>1, SweepType, ReleaseRefines
  <2>4. QED BY <2>1, <2>2, <2>3
<1>4. ASSUME NEW c \in Operators, Commit(c) PROVE [Lease!Next]_scopeOwners
  BY <1>4, ReleaseByRunRefines DEF Commit
<1>5. ASSUME NEW c \in Operators, CommitDispatch(c) PROVE [Lease!Next]_scopeOwners
  <2> DEFINE w == request[c].item
             s == request[c].scope
             lease == [status |-> "active", scope |-> s, holder |-> Len(runs) + 1,
                       ttl |-> ClaimTTL]
  <2>1. w \in WorkItems /\ s \in Scopes
    BY <1>1, <1>5, CommitDispatchType DEF DispatchRequest
  <2>2. claim' = [claim EXCEPT ![w] = lease] /\ acquireClaimLease(w, s)
    BY <1>5 DEF CommitDispatch
  <2>3. \A v \in WorkItems : claim'[v] = IF v = w THEN lease ELSE claim[v]
    BY <1>1, <2>1, <2>2 DEF TypeOK
  <2>4. scopeOwners[s] = {}
    BY <2>1, <2>2 DEF scopeOwners, acquireClaimLease
  <2>5. \A t \in Scopes : scopeOwners'[t] = IF t = s THEN {w} ELSE scopeOwners[t]
    <3>1. claim[w].status = "none"
      BY <2>2 DEF acquireClaimLease
    <3>2. lease.status = "active" /\ lease.scope = s
      OBVIOUS
    <3> HIDE DEF lease
    <3>3. ASSUME NEW t \in Scopes
          PROVE  scopeOwners'[t] = IF t = s THEN {w} ELSE scopeOwners[t]
      <4>1. CASE t = s
        <5>1. \A v \in WorkItems :
                claim'[v].status = "active" /\ claim'[v].scope = s <=> v = w
          <6>1. \A v \in WorkItems : ~(claim[v].status = "active" /\ claim[v].scope = s)
            BY <2>2 DEF acquireClaimLease
          <6>2. QED BY <2>1, <2>3, <3>2, <6>1
        <5>2. QED BY <2>1, <4>1, <5>1 DEF scopeOwners
      <4>2. CASE t # s
        <5>1. \A v \in WorkItems :
                /\ claim'[v].status = "active"
                /\ claim'[v].scope = t
                <=> claim[v].status = "active" /\ claim[v].scope = t
          BY <2>3, <3>1, <3>2, <4>2
        <5>2. QED BY <4>2, <5>1 DEF scopeOwners
      <4>3. QED BY <4>1, <4>2
    <3>4. QED BY <3>3
  <2>6. scopeOwners' = [scopeOwners EXCEPT ![s] = {w}]
    BY <2>1, <2>5, OwnersType
  <2>7. Lease!Acquire(s, w)
    BY <2>4, <2>6 DEF Lease!Acquire
  <2>8. QED BY <2>1, <2>7 DEF Lease!Next
<1>6. ASSUME NEW c \in Operators, Rollback(c) PROVE [Lease!Next]_scopeOwners
  BY <1>6, <1>2 DEF Rollback
<1>7. ASSUME NEW k \in Workers,
             Dequeue(k) \/ ReadContext(k) \/ WorkerCrash(k)
      PROVE  [Lease!Next]_scopeOwners
  <2>1. UNCHANGED claim
    BY <1>7 DEF Dequeue, ReadContext, WorkerCrash
  <2>2. QED BY <2>1, <1>2
<1>8. ASSUME NEW k \in Workers,
             settleRunWithExpiredClaim(k)
               \/ \E result \in TaskResult : settleRunWithTaskResult(k, result)
      PROVE  [Lease!Next]_scopeOwners
  <2>1. \E how \in {"released", "expired"} :
          claim' = releaseClaimLeaseByRunId(worker[k].run, how)
    BY <1>1, <1>8, SettleTables
  <2>2. QED BY <2>1, ReleaseByRunRefines
<1>9. ASSUME NEW k \in Workers, scheduleRetry(k) PROVE [Lease!Next]_scopeOwners
  BY <1>1, <1>9, RetryTables, SameOwners
<1>10. ASSUME Tick PROVE [Lease!Next]_scopeOwners
  BY <1>1, <1>10, TickTables, SameOwners
<1>11. CASE UNCHANGED vars
  BY <1>11, <1>2 DEF vars
<1>12. QED
  BY <1>3, <1>4, <1>5, <1>6, <1>7, <1>8, <1>9, <1>10, <1>11
  DEF Next, OperatorStep, WorkerStep

\* The claim leases implement exclusive scope ownership: taken only when free, by
\* one item, and never handed to another item without being free in between.
THEOREM LeaseRefinement == Spec => ImplementsScopeLease
<1>1. Spec => Lease!Init /\ [][Lease!Next]_scopeOwners
  BY LeaseInit, LeaseStep, LeaseRefinementInit, LeaseRefinementStep, PTL DEF Spec
<1>2. QED BY <1>1 DEF ImplementsScopeLease, Lease!Spec

=============================================================================
