------------------------ MODULE GitHubInboundProofs -------------------------
(***************************************************************************)
(* What the invariants of GitHubInbound say, for any number of webhooks,   *)
(* payloads, handlers, deliveries and crashes.                             *)
(*                                                                         *)
(* The key of a command is in the ledger exactly when the command has      *)
(* taken effect; a handler that is about to store applied has seen it.     *)
(***************************************************************************)
EXTENDS GitHubInbound, TLAPS

\* A command takes effect in the transaction that takes its key.
KeyIsEffect == \A d \in Webhooks : executed[d] = IF d \in causation THEN 1 ELSE 0

\* What a handler holds is a webhook, and the outcome it is to store is what happened.
HandlersFit ==
  \A h \in Handlers :
    /\ ingest[h].pc # "idle" => ingest[h].of \in Webhooks
    /\ ingest[h].pc = "executed" => ingest[h].outcome \in Settled
    /\ ingest[h].outcome = "applied" => executed[ingest[h].of] > 0 /\ ingest[h].pc = "executed"

\* Only an accepted intent is executed.
OnlyIntents == \A d \in Webhooks : executed[d] > 0 => IsIntent(d)

Inv == /\ InboundTypeOK
       /\ KeyIsEffect
       /\ HandlersFit
       /\ OnlyIntents
       /\ AppliedIntentTookEffect
       /\ ConflictIsAlerted

-----------------------------------------------------------------------------

Handler == [pc : {"idle", "new", "alert", "recorded", "executed"},
            of : Webhooks \cup {"none"}, outcome : Settled \cup {"none"}]

\* What a handler that moves on within a delivery holds besides its step stays.
LEMMA GotoKeeps ==
  ASSUME InboundTypeOK, NEW h \in Handlers, NEW pc \in {"alert", "recorded"}, Goto(h, pc)
  PROVE  /\ ingest' \in [Handlers -> Handler]
         /\ ingest'[h].pc = pc
         /\ ingest'[h].of = ingest[h].of
         /\ ingest'[h].outcome = ingest[h].outcome
         /\ \A g \in Handlers : g # h => ingest'[g] = ingest[g]
<1>1. ingest \in [Handlers -> Handler]
  BY DEF InboundTypeOK, Handler
<1> QED
  BY <1>1 DEF Goto, Handler

\* A handler that is done holds nothing.
LEMMA DoneHoldsNothing ==
  ASSUME InboundTypeOK, NEW h \in Handlers, ingest' = [ingest EXCEPT ![h] = Idle]
  PROVE  /\ ingest' \in [Handlers -> Handler]
         /\ ingest'[h] = Idle
         /\ \A g \in Handlers : g # h => ingest'[g] = ingest[g]
<1>1. ingest \in [Handlers -> Handler]
  BY DEF InboundTypeOK, Handler
<1>2. Idle \in Handler
  BY DEF Idle, Handler
<1> QED
  BY <1>1, <1>2

\* A status a webhook is recorded with is not a settled one, and the one of a conflict
\* is the one that is alerted.
LEMMA RecordedStatus ==
  ASSUME NEW d \in Webhooks
  PROVE  /\ statusOf(d) \in InboundStatus \ Settled
         /\ statusOf(d) = "reproject_required" <=> NeedsAlert(d)
<1>1. classification(payload[d]) = "missing_linkage" =>
        classification(payload[d]) # "authoritative_conflict"
  OBVIOUS
<1> QED
  BY <1>1 DEF statusOf, NeedsAlert, InboundStatus, Settled

\* What is executed has a command that was asked for, and one that fits the aggregate.
LEMMA IntentFits ==
  ASSUME NEW p \in Payload, classification(p) = "accepted_intent"
  PROVE  /\ AsksFor(p, proposedCommand(p))
         /\ \/ p.linkage = "approval" /\ proposedCommand(p) \in ApprovalCommand
            \/ p.linkage = "work_item" /\ proposedCommand(p) \in ItemCommand
<1>1. proposedCommand(p) # "none"
  BY DEF classification
<1>2. CASE parseSlashCommand(p) # "none"
  BY <1>2 DEF proposedCommand, parseSlashCommand, AsksFor
<1>3. CASE parseSlashCommand(p) = "none" /\ parseLabelIntent(p) # "none"
  BY <1>3 DEF proposedCommand, parseLabelIntent, Payload, AsksFor
<1>4. CASE parseSlashCommand(p) = "none" /\ parseLabelIntent(p) = "none"
  <2>1. proposedCommand(p) = reviewIntent(p)
    BY <1>4 DEF proposedCommand
  <2>2. reviewIntent(p) # "none" =>
          /\ p.eventName = "pull_request_review" /\ p.linkage = "approval"
          /\ \/ p.review = "approved" /\ reviewIntent(p) = "approval.grant"
             \/ p.review = "changes_requested" /\ reviewIntent(p) = "approval.deny"
    BY DEF reviewIntent
  <2> QED
    BY <1>1, <2>1, <2>2 DEF ApprovalCommand, AsksFor
<1> QED
  BY <1>2, <1>3, <1>4

LEMMA Arrive_Inv ==
  ASSUME Inv, NEW h \in Handlers, NEW d \in Webhooks, getGitHubInboundEventByDeliveryId(h, d)
  PROVE  Inv'
<1> DEFINE held == IF duplicate(d) THEN Idle
                   ELSE [pc |-> IF inbound[d] = "none" THEN "new" ELSE "recorded", of |-> d,
                         outcome |-> "none"]
<1>1. ingest \in [Handlers -> Handler]
  BY DEF Inv, InboundTypeOK, Handler
<1>2. held \in Handler
  BY DEF Idle, Handler
<1>3. ingest' = [ingest EXCEPT ![h] = held]
  BY DEF getGitHubInboundEventByDeliveryId
<1>4. /\ held.outcome = "none" /\ held.pc \in {"idle", "new", "recorded"}
      /\ held.pc # "idle" => held.of = d
  BY DEF Idle
<1> HIDE DEF held
<1>5. /\ ingest' \in [Handlers -> Handler] /\ ingest'[h] = held
      /\ \A g \in Handlers : g # h => ingest'[g] = ingest[g]
  BY <1>1, <1>2, <1>3
<1>6. UNCHANGED <<payload, inbound, reconcile, executed, causation, crashes, unalerted>>
  BY DEF getGitHubInboundEventByDeliveryId
<1>7. InboundTypeOK'
  <2>1. arrivals' \in [Webhooks -> 0..MaxArrivals]
    BY InboundAssumption DEF getGitHubInboundEventByDeliveryId, Inv, InboundTypeOK
  <2> QED
    BY <1>5, <1>6, <2>1 DEF Inv, InboundTypeOK, Handler
<1>8. HandlersFit'
  BY <1>4, <1>5, <1>6 DEF Inv, HandlersFit
<1>9. ConflictIsAlerted'
  <2>1. ingest[h].pc = "idle"
    BY DEF getGitHubInboundEventByDeliveryId
  <2> QED
    BY <1>5, <1>6, <2>1 DEF Inv, ConflictIsAlerted
<1> QED
  BY <1>6, <1>7, <1>8, <1>9 DEF Inv, KeyIsEffect, OnlyIntents, IsIntent, AppliedIntentTookEffect

LEMMA Record_Inv ==
  ASSUME Inv, NEW h \in Handlers, recordGitHubInboundWebhook(h)
  PROVE  Inv'
<1> DEFINE d == ingest[h].of
<1>1. d \in Webhooks
  BY DEF recordGitHubInboundWebhook, Inv, HandlersFit
<1>2. /\ inbound' = [inbound EXCEPT ![d] = statusOf(d)]
      /\ Goto(h, IF NeedsAlert(d) THEN "alert" ELSE "recorded")
      /\ UNCHANGED <<payload, reconcile, executed, causation, arrivals, crashes, unalerted>>
      /\ ingest[h].pc = "new"
  BY DEF recordGitHubInboundWebhook
<1> DEFINE pc == IF NeedsAlert(d) THEN "alert" ELSE "recorded"
<1>3. /\ ingest' \in [Handlers -> Handler]
      /\ ingest'[h].pc = pc /\ ingest'[h].of = d /\ ingest'[h].outcome = ingest[h].outcome
      /\ \A g \in Handlers : g # h => ingest'[g] = ingest[g]
  BY <1>2, GotoKeeps DEF Inv
<1>4. /\ statusOf(d) \in InboundStatus \ Settled
      /\ statusOf(d) = "reproject_required" <=> NeedsAlert(d)
  BY <1>1, RecordedStatus
<1>5. /\ inbound' \in [Webhooks -> InboundStatus] /\ inbound'[d] = statusOf(d)
      /\ \A e \in Webhooks : e # d => inbound'[e] = inbound[e]
  BY <1>1, <1>2, <1>4 DEF Inv, InboundTypeOK
<1> HIDE DEF d
<1>6. InboundTypeOK'
  BY <1>2, <1>3, <1>5 DEF Inv, InboundTypeOK, Handler
<1>7. HandlersFit'
  BY <1>1, <1>2, <1>3 DEF Inv, HandlersFit
<1>8. AppliedIntentTookEffect'
  BY <1>2, <1>4, <1>5 DEF Inv, AppliedIntentTookEffect, Settled
<1>9. ConflictIsAlerted'
  <2> SUFFICES ASSUME NEW e \in Webhooks \ unalerted', inbound'[e] = "reproject_required"
               PROVE  \/ reconcile'[e] = "high"
                      \/ \E g \in Handlers : ingest'[g].of = e /\ ingest'[g].pc = "alert"
    BY DEF ConflictIsAlerted
  <2>1. CASE e = d
    BY <1>3, <1>4, <1>5, <2>1
  <2>2. CASE e # d
    BY <1>2, <1>3, <1>5, <2>2 DEF Inv, ConflictIsAlerted
  <2> QED
    BY <2>1, <2>2
<1> QED
  BY <1>2, <1>6, <1>7, <1>8, <1>9 DEF Inv, KeyIsEffect, OnlyIntents, IsIntent

LEMMA Alert_Inv ==
  ASSUME Inv, NEW h \in Handlers, upsertReconcileAlert(h)
  PROVE  Inv'
<1> DEFINE d == ingest[h].of
<1>1. d \in Webhooks
  BY DEF upsertReconcileAlert, Inv, HandlersFit
<1>2. /\ reconcile' = [reconcile EXCEPT ![d] = "high"]
      /\ Goto(h, "recorded")
      /\ UNCHANGED <<payload, inbound, executed, causation, arrivals, crashes, unalerted>>
      /\ ingest[h].pc = "alert"
  BY DEF upsertReconcileAlert
<1>3. /\ ingest' \in [Handlers -> Handler]
      /\ ingest'[h].pc = "recorded" /\ ingest'[h].of = d
      /\ ingest'[h].outcome = ingest[h].outcome
      /\ \A g \in Handlers : g # h => ingest'[g] = ingest[g]
  BY <1>2, GotoKeeps DEF Inv
<1>4. /\ reconcile' \in [Webhooks -> {"none", "high"}] /\ reconcile'[d] = "high"
      /\ \A e \in Webhooks : e # d => reconcile'[e] = reconcile[e]
  BY <1>1, <1>2 DEF Inv, InboundTypeOK
<1> HIDE DEF d
<1>5. InboundTypeOK'
  BY <1>2, <1>3, <1>4 DEF Inv, InboundTypeOK, Handler
<1>6. HandlersFit'
  BY <1>1, <1>2, <1>3 DEF Inv, HandlersFit
<1>7. ConflictIsAlerted'
  <2> SUFFICES ASSUME NEW e \in Webhooks \ unalerted', inbound'[e] = "reproject_required"
               PROVE  \/ reconcile'[e] = "high"
                      \/ \E g \in Handlers : ingest'[g].of = e /\ ingest'[g].pc = "alert"
    BY DEF ConflictIsAlerted
  <2>1. CASE e = d
    BY <1>4, <2>1
  <2>2. CASE e # d
    <3>1. CASE reconcile[e] = "high"
      BY <1>4, <2>2, <3>1
    <3>2. ASSUME NEW g \in Handlers, ingest[g].of = e, ingest[g].pc = "alert"
          PROVE  ingest'[g].of = e /\ ingest'[g].pc = "alert"
      BY <1>3, <2>2, <3>2 DEF d
    <3> QED
      BY <1>2, <3>1, <3>2 DEF Inv, ConflictIsAlerted
  <2> QED
    BY <2>1, <2>2
<1> QED
  BY <1>2, <1>5, <1>6, <1>7 DEF Inv, KeyIsEffect, OnlyIntents, IsIntent, AppliedIntentTookEffect

LEMMA Execute_Inv ==
  ASSUME Inv, NEW h \in Handlers, executeAcceptedGitHubIntent(h)
  PROVE  Inv'
<1> DEFINE d == ingest[h].of
<1>1. PICK accepted \in BOOLEAN :
        /\ d \in causation => ~accepted
        /\ executed' = IF accepted THEN [executed EXCEPT ![d] = @ + 1] ELSE executed
        /\ causation' = IF accepted THEN causation \cup {d} ELSE causation
        /\ ingest' = [ingest EXCEPT ![h].pc = "executed", ![h].outcome = nextStatus(accepted)]
  BY DEF executeAcceptedGitHubIntent, keyTaken
<1>2. d \in Webhooks /\ IsIntent(d)
  BY DEF executeAcceptedGitHubIntent, Inv, HandlersFit
<1>3. UNCHANGED <<payload, inbound, reconcile, arrivals, crashes, unalerted>>
  BY DEF executeAcceptedGitHubIntent
<1>4. nextStatus(accepted) \in Settled /\ (nextStatus(accepted) = "applied" => accepted)
  BY DEF nextStatus, Settled
<1>5. /\ ingest' \in [Handlers -> Handler]
      /\ ingest'[h].pc = "executed" /\ ingest'[h].of = d
      /\ ingest'[h].outcome = nextStatus(accepted)
      /\ \A g \in Handlers : g # h => ingest'[g] = ingest[g]
  <2>1. ingest \in [Handlers -> Handler]
    BY DEF Inv, InboundTypeOK, Handler
  <2> QED
    BY <1>1, <1>4, <2>1 DEF Handler
<1>6. executed \in [Webhooks -> Nat] /\ causation \subseteq Webhooks
  BY DEF Inv, InboundTypeOK
<1> HIDE DEF d
<1>7. /\ \A e \in Webhooks : executed'[e] = IF accepted /\ e = d THEN executed[e] + 1
                                            ELSE executed[e]
      /\ executed' \in [Webhooks -> Nat] /\ causation' \subseteq Webhooks
  BY <1>1, <1>2, <1>6
<1>8. InboundTypeOK'
  BY <1>3, <1>5, <1>7 DEF Inv, InboundTypeOK, Handler
<1>9. KeyIsEffect'
  BY <1>1, <1>6, <1>7 DEF Inv, KeyIsEffect
<1>10. HandlersFit'
  <2> SUFFICES ASSUME NEW g \in Handlers
               PROVE  /\ ingest'[g].pc # "idle" => ingest'[g].of \in Webhooks
                      /\ ingest'[g].pc = "executed" => ingest'[g].outcome \in Settled
                      /\ ingest'[g].outcome = "applied" =>
                           executed'[ingest'[g].of] > 0 /\ ingest'[g].pc = "executed"
    BY DEF HandlersFit
  <2>1. CASE g = h
    BY <1>2, <1>4, <1>5, <1>6, <1>7, <2>1
  <2>2. CASE g # h
    BY <1>5, <1>6, <1>7, <2>2 DEF Inv, HandlersFit
  <2> QED
    BY <2>1, <2>2
<1>11. OnlyIntents'
  BY <1>2, <1>3, <1>7 DEF Inv, OnlyIntents, IsIntent
<1>12. AppliedIntentTookEffect'
  BY <1>3, <1>6, <1>7 DEF Inv, AppliedIntentTookEffect
<1>13. ConflictIsAlerted'
  <2>1. ingest[h].pc = "recorded"
    BY DEF executeAcceptedGitHubIntent
  <2> QED
    BY <1>3, <1>5, <2>1 DEF Inv, ConflictIsAlerted
<1> QED
  BY <1>8, <1>9, <1>10, <1>11, <1>12, <1>13 DEF Inv

LEMMA Store_Inv ==
  ASSUME Inv, NEW h \in Handlers, upsertGitHubInboundEvent(h)
  PROVE  Inv'
<1> DEFINE d == ingest[h].of
<1>1. d \in Webhooks /\ ingest[h].outcome \in Settled
  BY DEF upsertGitHubInboundEvent, Inv, HandlersFit
<1>2. /\ inbound' = [inbound EXCEPT ![d] = ingest[h].outcome]
      /\ ingest' = [ingest EXCEPT ![h] = Idle]
      /\ UNCHANGED <<payload, reconcile, executed, causation, arrivals, crashes, unalerted>>
      /\ ingest[h].pc = "executed"
  BY DEF upsertGitHubInboundEvent
<1>3. /\ ingest' \in [Handlers -> Handler] /\ ingest'[h] = Idle
      /\ \A g \in Handlers : g # h => ingest'[g] = ingest[g]
  BY <1>2, DoneHoldsNothing DEF Inv
<1>4. /\ inbound' \in [Webhooks -> InboundStatus] /\ inbound'[d] = ingest[h].outcome
      /\ \A e \in Webhooks : e # d => inbound'[e] = inbound[e]
  BY <1>1, <1>2 DEF Inv, InboundTypeOK, InboundStatus, Settled
<1>5. InboundTypeOK'
  BY <1>2, <1>3, <1>4 DEF Inv, InboundTypeOK, Handler
<1>6. HandlersFit'
  BY <1>2, <1>3 DEF Inv, HandlersFit, Idle
<1>7. AppliedIntentTookEffect'
  BY <1>1, <1>2, <1>4 DEF Inv, AppliedIntentTookEffect, HandlersFit
<1>8. ConflictIsAlerted'
  BY <1>1, <1>2, <1>3, <1>4 DEF Inv, ConflictIsAlerted, Settled
<1> QED
  BY <1>2, <1>5, <1>6, <1>7, <1>8 DEF Inv, KeyIsEffect, OnlyIntents, IsIntent

LEMMA Answer_Inv ==
  ASSUME Inv, NEW h \in Handlers, Answer(h)
  PROVE  Inv'
<1>1. /\ ingest[h].pc = "recorded"
      /\ ingest' = [ingest EXCEPT ![h] = Idle]
      /\ UNCHANGED <<payload, inbound, reconcile, executed, causation, arrivals, crashes,
                     unalerted>>
  BY DEF Answer
<1>2. /\ ingest' \in [Handlers -> Handler] /\ ingest'[h] = Idle
      /\ \A g \in Handlers : g # h => ingest'[g] = ingest[g]
  BY <1>1, DoneHoldsNothing DEF Inv
<1>3. InboundTypeOK'
  BY <1>1, <1>2 DEF Inv, InboundTypeOK, Handler
<1>4. HandlersFit'
  BY <1>1, <1>2 DEF Inv, HandlersFit, Idle
<1>5. ConflictIsAlerted'
  BY <1>1, <1>2 DEF Inv, ConflictIsAlerted
<1> QED
  BY <1>1, <1>3, <1>4, <1>5 DEF Inv, KeyIsEffect, OnlyIntents, IsIntent, AppliedIntentTookEffect

LEMMA Dies_Inv ==
  ASSUME Inv, NEW h \in Handlers, HandlerDies(h)
  PROVE  Inv'
<1>1. /\ ingest[h].pc # "idle"
      /\ ingest' = [ingest EXCEPT ![h] = Idle]
      /\ unalerted' = IF ingest[h].pc = "alert" THEN unalerted \cup {ingest[h].of} ELSE unalerted
      /\ UNCHANGED <<payload, inbound, reconcile, executed, causation, arrivals>>
  BY DEF HandlerDies
<1>2. /\ ingest' \in [Handlers -> Handler] /\ ingest'[h] = Idle
      /\ \A g \in Handlers : g # h => ingest'[g] = ingest[g]
  BY <1>1, DoneHoldsNothing DEF Inv
<1>3. ingest[h].of \in Webhooks
  BY <1>1 DEF Inv, HandlersFit
<1>4. InboundTypeOK'
  <2>1. crashes' \in 0..MaxCrashes
    BY InboundAssumption DEF HandlerDies, Inv, InboundTypeOK
  <2> QED
    BY <1>1, <1>2, <1>3, <2>1 DEF Inv, InboundTypeOK, Handler
<1>5. HandlersFit'
  BY <1>1, <1>2 DEF Inv, HandlersFit, Idle
<1>6. ConflictIsAlerted'
  BY <1>1, <1>2 DEF Inv, ConflictIsAlerted
<1> QED
  BY <1>1, <1>4, <1>5, <1>6 DEF Inv, KeyIsEffect, OnlyIntents, IsIntent, AppliedIntentTookEffect

-----------------------------------------------------------------------------

LEMMA Init_Inv == InboundInit => Inv
<1> SUFFICES ASSUME InboundInit PROVE Inv
  OBVIOUS
<1>1. InboundTypeOK
  BY InboundAssumption DEF InboundInit, InboundTypeOK, InboundStatus, Idle
<1>2. KeyIsEffect /\ HandlersFit /\ OnlyIntents
  BY DEF InboundInit, KeyIsEffect, HandlersFit, OnlyIntents, Idle
<1>3. AppliedIntentTookEffect /\ ConflictIsAlerted
  BY DEF InboundInit, AppliedIntentTookEffect, ConflictIsAlerted
<1> QED
  BY <1>1, <1>2, <1>3 DEF Inv

LEMMA Next_Inv == Inv /\ [InboundNext]_inboundVars => Inv'
<1> SUFFICES ASSUME Inv, [InboundNext]_inboundVars PROVE Inv'
  OBVIOUS
<1>1. CASE UNCHANGED inboundVars
  BY <1>1 DEF inboundVars, Inv, InboundTypeOK, KeyIsEffect, HandlersFit, OnlyIntents, IsIntent,
              AppliedIntentTookEffect, ConflictIsAlerted
<1>2. CASE InboundNext
  BY <1>2, Arrive_Inv, Record_Inv, Alert_Inv, Execute_Inv, Store_Inv, Answer_Inv, Dies_Inv
     DEF InboundNext
<1> QED
  BY <1>1, <1>2

LEMMA Inv_Once == Inv => IntentTakesEffectOnce
BY DEF Inv, KeyIsEffect, IntentTakesEffectOnce

LEMMA Inv_Fitting == Inv => OnlyFittingIntentsExecute
<1> SUFFICES ASSUME Inv, NEW d \in Webhooks, executed[d] > 0
             PROVE  /\ AsksFor(payload[d], proposedCommand(payload[d]))
                    /\ \/ /\ payload[d].linkage = "approval"
                          /\ proposedCommand(payload[d]) \in ApprovalCommand
                       \/ /\ payload[d].linkage = "work_item"
                          /\ proposedCommand(payload[d]) \in ItemCommand
  BY DEF OnlyFittingIntentsExecute
<1>1. payload[d] \in Payload
  BY InboundAssumption DEF Inv, InboundTypeOK
<1>2. classification(payload[d]) = "accepted_intent"
  BY DEF Inv, OnlyIntents, IsIntent
<1> QED
  BY <1>1, <1>2, IntentFits

\* The types of what is stored.
THEOREM InboundTypeCorrect == InboundSpec => []InboundTypeOK
<1>1. Inv => InboundTypeOK
  BY DEF Inv
<1> QED
  BY <1>1, Init_Inv, Next_Inv, PTL DEF InboundSpec

\* A webhook's command takes effect at most once, however often and however many at a
\* time it is delivered.
THEOREM EffectOnce == InboundSpec => []IntentTakesEffectOnce
BY Init_Inv, Next_Inv, Inv_Once, PTL DEF InboundSpec

\* A row that says applied belongs to a command that took effect.
THEOREM AppliedIsTrue == InboundSpec => []AppliedIntentTookEffect
<1>1. Inv => AppliedIntentTookEffect
  BY DEF Inv
<1> QED
  BY <1>1, Init_Inv, Next_Inv, PTL DEF InboundSpec

\* Whatever the payload, GitHub changes the runtime only by a command that the payload
\* asks for by a slash word, a label or a review, and that fits the linked aggregate.
THEOREM OnlyFittingIntents == InboundSpec => []OnlyFittingIntentsExecute
BY Init_Inv, Next_Inv, Inv_Fitting, PTL DEF InboundSpec

\* A manual change that contradicts the runtime is alerted, unless its handler died.
THEOREM ConflictsAlerted == InboundSpec => []ConflictIsAlerted
<1>1. Inv => ConflictIsAlerted
  BY DEF Inv
<1> QED
  BY <1>1, Init_Inv, Next_Inv, PTL DEF InboundSpec

-----------------------------------------------------------------------------
(* SettledForGood *)

\* The row of d says status, and no handler has anything of d.
SettledAs(d, status) ==
  /\ inbound[d] = status
  /\ \A h \in Handlers : ingest[h].of # d

\* A handler that arrives finds a settled row and leaves; the others store for their own
\* deliveries.
LEMMA SettledStays ==
  ASSUME Inv, NEW d \in Webhooks, NEW status \in Settled, SettledAs(d, status),
         [InboundNext]_inboundVars
  PROVE  SettledAs(d, status)'
<1>1. /\ ingest \in [Handlers -> Handler] /\ inbound \in [Webhooks -> InboundStatus]
      /\ d # "none"
  BY InboundAssumption DEF Inv, InboundTypeOK, Handler
<1>2. CASE UNCHANGED inboundVars
  BY <1>2 DEF inboundVars, SettledAs
<1>3. ASSUME NEW h \in Handlers, NEW e \in Webhooks, getGitHubInboundEventByDeliveryId(h, e)
      PROVE  SettledAs(d, status)'
  <2> DEFINE held == IF duplicate(e) THEN Idle
                     ELSE [pc |-> IF inbound[e] = "none" THEN "new" ELSE "recorded", of |-> e,
                           outcome |-> "none"]
  <2>1. ingest' = [ingest EXCEPT ![h] = held] /\ inbound' = inbound
    BY <1>3 DEF getGitHubInboundEventByDeliveryId
  <2>2. held.of # d
    BY <1>1 DEF SettledAs, duplicate, Idle
  <2> HIDE DEF held
  <2> QED
    BY <1>1, <2>1, <2>2 DEF SettledAs
<1>4. ASSUME NEW h \in Handlers, NEW pc, Goto(h, pc) PROVE \A g \in Handlers : ingest'[g].of # d
  <2>1. ingest[h] \in Handler
    BY <1>1
  <2>2. [ingest[h] EXCEPT !.pc = pc].of = ingest[h].of
    BY <2>1 DEF Handler
  <2> QED
    BY <1>1, <1>4, <2>2 DEF SettledAs, Goto
<1>5. ASSUME NEW h \in Handlers, ingest' = [ingest EXCEPT ![h] = Idle]
      PROVE  \A g \in Handlers : ingest'[g].of # d
  BY <1>1, <1>5 DEF SettledAs, Idle
<1>6. ASSUME NEW h \in Handlers, recordGitHubInboundWebhook(h) \/ upsertReconcileAlert(h)
      PROVE  SettledAs(d, status)'
  <2>1. \A g \in Handlers : ingest'[g].of # d
    BY <1>4, <1>6 DEF recordGitHubInboundWebhook, upsertReconcileAlert
  <2>2. inbound'[d] = inbound[d]
    BY <1>1, <1>6 DEF recordGitHubInboundWebhook, upsertReconcileAlert, SettledAs
  <2> QED
    BY <2>1, <2>2 DEF SettledAs
<1>7. ASSUME NEW h \in Handlers, executeAcceptedGitHubIntent(h) PROVE SettledAs(d, status)'
  <2>1. PICK accepted \in BOOLEAN :
          ingest' = [ingest EXCEPT ![h].pc = "executed", ![h].outcome = nextStatus(accepted)]
    BY <1>7 DEF executeAcceptedGitHubIntent
  <2>2. ingest[h] \in Handler
    BY <1>1
  <2>3. [ingest[h] EXCEPT !.pc = "executed", !.outcome = nextStatus(accepted)].of = ingest[h].of
    BY <2>2 DEF Handler
  <2>4. \A g \in Handlers : ingest'[g].of = ingest[g].of
    BY <1>1, <2>1, <2>3
  <2> QED
    BY <1>7, <2>4 DEF executeAcceptedGitHubIntent, SettledAs
<1>8. ASSUME NEW h \in Handlers,
             upsertGitHubInboundEvent(h) \/ Answer(h) \/ HandlerDies(h)
      PROVE  SettledAs(d, status)'
  <2>1. \A g \in Handlers : ingest'[g].of # d
    BY <1>5, <1>8 DEF upsertGitHubInboundEvent, Answer, HandlerDies
  <2>2. inbound'[d] = inbound[d]
    BY <1>1, <1>8 DEF upsertGitHubInboundEvent, Answer, HandlerDies, SettledAs
  <2> QED
    BY <2>1, <2>2 DEF SettledAs
<1> QED
  BY <1>2, <1>3, <1>6, <1>7, <1>8 DEF InboundNext

\* Once a row is settled and no handler is left that read it earlier, it stays.
THEOREM SettledRows == InboundSpec => SettledForGood
<1>1. ASSUME NEW d \in Webhooks, NEW status \in Settled
      PROVE  InboundSpec => [](SettledAs(d, status) => [](inbound[d] = status))
  <2>1. Inv /\ SettledAs(d, status) /\ [InboundNext]_inboundVars => SettledAs(d, status)'
    BY SettledStays
  <2>2. SettledAs(d, status) => inbound[d] = status
    BY DEF SettledAs
  <2> QED
    BY <2>1, <2>2, Init_Inv, Next_Inv, PTL DEF InboundSpec
<1> QED
  BY <1>1 DEF SettledForGood, SettledAs
=============================================================================
