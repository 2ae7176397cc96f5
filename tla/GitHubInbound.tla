--------------------------- MODULE GitHubInbound ----------------------------
(***************************************************************************)
(* Ingestion of GitHub webhooks.                                           *)
(*                                                                         *)
(* The GitHub app verifies a webhook and forwards it to                    *)
(* /internal/github/webhooks/ingest.  The control plane looks the delivery *)
(* up by its id, records and classifies it, opens an alert for a conflict, *)
(* and executes an accepted intent by calling its own operator endpoint    *)
(* under an idempotency key made of the delivery id.  Every step is a      *)
(* statement of its own, and GitHub may deliver again at any time: while   *)
(* an earlier delivery is handled, or after its handler died.              *)
(*                                                                         *)
(* A payload is what the classification reads of it.                       *)
(***************************************************************************)
EXTENDS Integers, FiniteSets

CONSTANTS
  Webhooks,      \* GitHub delivery ids
  Payloads,      \* what a webhook may carry
  Handlers,      \* ingestions that may be in progress at once
  MaxArrivals,   \* bound: how often a webhook is delivered
  MaxCrashes     \* bound: handlers that die

ApprovalCommand == {"approval.grant", "approval.deny"}
ItemCommand == {"work_item.cancel", "work_item.requeue"}
Command == ApprovalCommand \cup ItemCommand
Payload ==
  [eventName : {"issues", "issue_comment", "pull_request", "pull_request_review"},
   action : {"labeled", "edited", "closed", "reopened", "deleted", "created"},
   linkage : {"none", "objective", "work_item", "approval", "run"},  \* of the metadata block
   slash : Command \cup {"none"},    \* what the first word of the body asks for
   label : ItemCommand \cup {"none"},
   review : {"none", "approved", "changes_requested"},
   selfAuthored : BOOLEAN]           \* sender and author are the app's own bot

ASSUME InboundAssumption ==
  /\ Payloads \subseteq Payload
  /\ "none" \notin Webhooks
  /\ MaxArrivals \in Nat
  /\ MaxCrashes \in Nat

VARIABLES
  payload,      \* of each webhook, the same when it is delivered again
  inbound,      \* the status of each row of github_inbound_events
  reconcile,    \* the severity of the alert <delivery id>:reconcile
  executed,     \* how often the command of a delivery has taken effect
  causation,    \* the deliveries whose idempotency key is in the ledger
  ingest,       \* what each handler holds
  arrivals,     \* how often each webhook was delivered
  crashes,      \* handlers that died
  unalerted     \* the deliveries whose handler died before it opened the alert

inboundVars == <<payload, inbound, reconcile, executed, causation, ingest, arrivals,
                 crashes, unalerted>>

-----------------------------------------------------------------------------
(* classifyGitHubInboundEvent *)

\* Mutant: a command is accepted on the metadata of any aggregate.
slashOnAnything(p) == IF p.linkage = "none" THEN "none" ELSE p.slash
parseSlashCommand(p) ==
  IF \/ p.linkage = "approval" /\ p.slash \in ApprovalCommand
     \/ p.linkage = "work_item" /\ p.slash \in ItemCommand
  THEN p.slash ELSE "none"
parseLabelIntent(p) ==
  IF p.action = "labeled" /\ p.linkage = "work_item" /\ p.eventName = "issues"
  THEN p.label ELSE "none"
reviewIntent(p) ==
  IF p.eventName = "pull_request_review" /\ p.linkage = "approval"
  THEN CASE p.review = "approved" -> "approval.grant"
         [] p.review = "changes_requested" -> "approval.deny"
         [] OTHER -> "none"
  ELSE "none"
proposedCommand(p) ==
  IF parseSlashCommand(p) # "none" THEN parseSlashCommand(p)
  ELSE IF parseLabelIntent(p) # "none" THEN parseLabelIntent(p)
  ELSE reviewIntent(p)

protectedMutation(p) ==
  \/ p.eventName \in {"issues", "pull_request"} /\ p.action \in {"edited", "closed", "reopened"}
  \/ p.eventName = "issue_comment" /\ p.action = "deleted"

classification(p) ==
  CASE proposedCommand(p) # "none" -> "accepted_intent"
    [] proposedCommand(p) = "none" /\ protectedMutation(p) /\ p.linkage = "none" ->
         "missing_linkage"
    [] proposedCommand(p) = "none" /\ protectedMutation(p) /\ p.linkage # "none" ->
         IF p.selfAuthored THEN "benign_divergence" ELSE "authoritative_conflict"
    [] OTHER -> IF p.linkage = "none" THEN "ignored" ELSE "benign_divergence"

InboundStatus == {"none", "recorded", "requires_review", "reproject_required",
                  "applied", "rejected"}
Settled == {"applied", "rejected"}
statusOf(d) ==
  CASE classification(payload[d]) = "missing_linkage" -> "requires_review"
    [] classification(payload[d]) = "authoritative_conflict" -> "reproject_required"
    [] OTHER -> "recorded"

\* Mutant: only what is recorded for review is alerted.
NeedsAlertForReview(d) == statusOf(d) = "requires_review"
\* An event without linkage has no company, so no alert can be stored for it.
NeedsAlert(d) == classification(payload[d]) = "authoritative_conflict"
IsIntent(d) == classification(payload[d]) = "accepted_intent"

-----------------------------------------------------------------------------

Idle == [pc |-> "idle", of |-> "none", outcome |-> "none"]

InboundInit ==
  /\ payload \in [Webhooks -> Payloads]
  /\ inbound = [d \in Webhooks |-> "none"]
  /\ reconcile = [d \in Webhooks |-> "none"]
  /\ executed = [d \in Webhooks |-> 0]
  /\ causation = {}
  /\ ingest = [h \in Handlers |-> Idle]
  /\ arrivals = [d \in Webhooks |-> 0]
  /\ crashes = 0
  /\ unalerted = {}

Goto(h, pc) == ingest' = [ingest EXCEPT ![h].pc = pc]

\* Mutant: a delivery is executed again whatever became of it.
NeverDuplicate(d) == FALSE
\* The early return of the endpoint.
duplicate(d) == inbound[d] \in Settled

\* A webhook arrives; the row of its delivery id is read.  A row that is there and
\* not settled is taken as it is, without recording or alerting again.
getGitHubInboundEventByDeliveryId(h, d) ==
  /\ ingest[h].pc = "idle"
  /\ arrivals[d] < MaxArrivals
  /\ arrivals' = [arrivals EXCEPT ![d] = @ + 1]
  /\ ingest' = [ingest EXCEPT ![h] =
       IF duplicate(d) THEN Idle
       ELSE [pc |-> IF inbound[d] = "none" THEN "new" ELSE "recorded", of |-> d,
             outcome |-> "none"]]
  /\ UNCHANGED <<payload, inbound, reconcile, executed, causation, crashes, unalerted>>

\* The upsert of recordGitHubInboundWebhook, which overwrites the status of a row
\* another handler has stored since.
recordGitHubInboundWebhook(h) ==
  LET d == ingest[h].of
  IN  /\ ingest[h].pc = "new"
      /\ inbound' = [inbound EXCEPT ![d] = statusOf(d)]
      /\ Goto(h, IF NeedsAlert(d) THEN "alert" ELSE "recorded")
      /\ UNCHANGED <<payload, reconcile, executed, causation, arrivals, crashes, unalerted>>

upsertReconcileAlert(h) ==
  LET d == ingest[h].of
  IN  /\ ingest[h].pc = "alert"
      /\ reconcile' = [reconcile EXCEPT ![d] = "high"]
      /\ Goto(h, "recorded")
      /\ UNCHANGED <<payload, inbound, executed, causation, arrivals, crashes, unalerted>>

\* Mutant: the idempotency key of a command holds more than the delivery id.
FreshKey(d) == FALSE
\* The key of a command is taken: the insert of its event fails on the unique index.
keyTaken(d) == d \in causation

\* Mutants: any answer counts as executed; a refusal is stored as a failed delivery.
FailedOfAnswer(accepted) == IF accepted THEN "applied" ELSE "failed"
StatusOfAnswer(accepted) == "applied"
nextStatus(accepted) == IF accepted THEN "applied" ELSE "rejected"

\* executeAcceptedGitHubIntent: the endpoint takes effect in one transaction, or
\* refuses (its guards, a lost lock, a taken key).
executeAcceptedGitHubIntent(h) ==
  LET d == ingest[h].of
  IN  /\ ingest[h].pc = "recorded"
      /\ IsIntent(d)
      /\ \E accepted \in BOOLEAN :
           /\ keyTaken(d) => ~accepted
           /\ executed' = IF accepted THEN [executed EXCEPT ![d] = @ + 1] ELSE executed
           /\ causation' = IF accepted THEN causation \cup {d} ELSE causation
           /\ ingest' = [ingest EXCEPT ![h].pc = "executed", ![h].outcome = nextStatus(accepted)]
      /\ UNCHANGED <<payload, inbound, reconcile, arrivals, crashes, unalerted>>

upsertGitHubInboundEvent(h) ==
  /\ ingest[h].pc = "executed"
  /\ inbound' = [inbound EXCEPT ![ingest[h].of] = ingest[h].outcome]
  /\ ingest' = [ingest EXCEPT ![h] = Idle]
  /\ UNCHANGED <<payload, reconcile, executed, causation, arrivals, crashes, unalerted>>

\* What is no intent is answered once it is recorded.
Answer(h) ==
  /\ ingest[h].pc = "recorded"
  /\ ~IsIntent(ingest[h].of)
  /\ ingest' = [ingest EXCEPT ![h] = Idle]
  /\ UNCHANGED <<payload, inbound, reconcile, executed, causation, arrivals, crashes, unalerted>>

HandlerDies(h) ==
  /\ ingest[h].pc # "idle"
  /\ crashes < MaxCrashes
  /\ crashes' = crashes + 1
  /\ unalerted' = IF ingest[h].pc = "alert" THEN unalerted \cup {ingest[h].of} ELSE unalerted
  /\ ingest' = [ingest EXCEPT ![h] = Idle]
  /\ UNCHANGED <<payload, inbound, reconcile, executed, causation, arrivals>>

InboundNext ==
  \E h \in Handlers :
    \/ \E d \in Webhooks : getGitHubInboundEventByDeliveryId(h, d)
    \/ recordGitHubInboundWebhook(h)
    \/ upsertReconcileAlert(h)
    \/ executeAcceptedGitHubIntent(h)
    \/ upsertGitHubInboundEvent(h)
    \/ Answer(h)
    \/ HandlerDies(h)

InboundSpec == InboundInit /\ [][InboundNext]_inboundVars

-----------------------------------------------------------------------------
(* Properties. *)

\* Type invariant: a row's status and what a handler is about to store are the
\* statuses the code has.
InboundTypeOK ==
  /\ payload \in [Webhooks -> Payloads]
  /\ inbound \in [Webhooks -> InboundStatus]
  /\ reconcile \in [Webhooks -> {"none", "high"}]
  /\ executed \in [Webhooks -> Nat]
  /\ causation \subseteq Webhooks
  /\ ingest \in [Handlers -> [pc : {"idle", "new", "alert", "recorded", "executed"},
                              of : Webhooks \cup {"none"}, outcome : Settled \cup {"none"}]]
  /\ arrivals \in [Webhooks -> 0..MaxArrivals]
  /\ crashes \in 0..MaxCrashes
  /\ unalerted \subseteq Webhooks

\* However often a webhook is delivered, at once or after a crash, its command takes
\* effect at most once.
IntentTakesEffectOnce == \A d \in Webhooks : executed[d] <= 1

\* A row that says applied belongs to a command that took effect.  (The converse is
\* not true: a second handler finds the key taken and stores rejected.)
AppliedIntentTookEffect == \A d \in Webhooks : inbound[d] = "applied" => executed[d] > 0

\* What a payload asks for in so many words: a slash command, wherever its body came
\* from, a label put on an issue, or the verdict of a review.
AsksFor(p, command) ==
  \/ p.slash = command
  \/ p.eventName = "issues" /\ p.action = "labeled" /\ p.label = command
  \/ /\ p.eventName = "pull_request_review"
     /\ \/ p.review = "approved" /\ command = "approval.grant"
        \/ p.review = "changes_requested" /\ command = "approval.deny"

\* GitHub changes the runtime only by a command that the payload asks for and that fits
\* the linked aggregate: approvals are decided on an approval, items are cancelled and
\* requeued on a work item, whichever of the three channels the classification tries
\* first.  That what carries the command is a new comment is not part of it: the code
\* executes the slash command in the body of an issue that is edited or closed, or of a
\* comment that is deleted (EditsChangeNothing).
OnlyFittingIntentsExecute ==
  \A d \in Webhooks : executed[d] > 0 =>
    LET command == proposedCommand(payload[d])
    IN  /\ AsksFor(payload[d], command)
        /\ \/ payload[d].linkage = "approval" /\ command \in ApprovalCommand
           \/ payload[d].linkage = "work_item" /\ command \in ItemCommand

\* A manual change that contradicts the runtime is never only recorded: its alert is
\* open, or a handler has it still to open or died before it did (a redelivery takes
\* the row as it is and does not alert again).
ConflictIsAlerted ==
  \A d \in Webhooks \ unalerted :
    inbound[d] = "reproject_required" =>
      \/ reconcile[d] = "high"
      \/ \E h \in Handlers : ingest[h].of = d /\ ingest[h].pc = "alert"

\* Once a row is applied or rejected and no handler is left that read it earlier, no
\* further delivery of the webhook changes it.
SettledForGood ==
  \A d \in Webhooks, status \in Settled :
    []( /\ inbound[d] = status
        /\ \A h \in Handlers : ingest[h].of # d
        => [](inbound[d] = status) )

-----------------------------------------------------------------------------
(* What the documents state and the code does not do. *)

\* docs/github-backbone/inbound-reconciliation-and-conflict-handling.md:25-32: body
\* edits and a manual close do not mutate kernel truth; what the code itself takes for
\* a protected mutation executes no command.
EditsChangeNothing ==
  \A d \in Webhooks : protectedMutation(payload[d]) => executed[d] = 0
=============================================================================
