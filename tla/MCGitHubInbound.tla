-------------------------- MODULE MCGitHubInbound ---------------------------
(* One webhook, delivered up to four times to three handlers, carrying any   *)
(* of the payloads the classification treats differently.                    *)
EXTENDS GitHubInbound

MCPlain == [eventName |-> "issue_comment", action |-> "created", linkage |-> "work_item",
            slash |-> "none", label |-> "none", review |-> "none", selfAuthored |-> FALSE]
MCPayloads ==
  {MCPlain,
   [MCPlain EXCEPT !.slash = "work_item.cancel"],
   [MCPlain EXCEPT !.slash = "approval.grant"],
   [MCPlain EXCEPT !.slash = "work_item.cancel", !.linkage = "approval"],
   [MCPlain EXCEPT !.eventName = "issues", !.action = "labeled", !.label = "work_item.requeue"],
   [MCPlain EXCEPT !.eventName = "pull_request_review", !.linkage = "approval",
                   !.review = "changes_requested"],
   [MCPlain EXCEPT !.eventName = "pull_request_review", !.review = "approved"],
   [MCPlain EXCEPT !.eventName = "issues", !.action = "closed"],
   [MCPlain EXCEPT !.eventName = "issues", !.action = "closed", !.selfAuthored = TRUE],
   [MCPlain EXCEPT !.eventName = "issues", !.action = "closed", !.linkage = "none"],
   [MCPlain EXCEPT !.eventName = "issues", !.action = "closed", !.slash = "work_item.cancel"],
   [MCPlain EXCEPT !.action = "deleted"],
   [MCPlain EXCEPT !.action = "deleted", !.slash = "work_item.requeue"],
   [MCPlain EXCEPT !.eventName = "pull_request", !.action = "labeled",
                   !.label = "work_item.cancel"],
   [MCPlain EXCEPT !.linkage = "none", !.slash = "work_item.cancel"],
   [MCPlain EXCEPT !.linkage = "none"]}
=============================================================================
