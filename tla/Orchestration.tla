---------------------------- MODULE Orchestration ----------------------------
(***************************************************************************)
(* The status vocabulary of packages/domain and the roll-up of             *)
(* packages/orchestration, shared by the modules that change statuses.     *)
(***************************************************************************)

ItemStatus == {"planned", "ready", "running", "completed", "blocked",
               "escalated", "cancelled"}
ObjectiveStatus == {"draft", "planned", "in_progress", "completed", "blocked",
                    "cancelled"}

\* The status of an objective whose work items have the given statuses.
deriveObjectiveStatus(statuses) ==
  LET Some(S) == statuses \cap S # {}
  IN  IF statuses = {} THEN "draft"
      ELSE IF statuses = {"completed"} THEN "completed"
      ELSE IF statuses = {"cancelled"} THEN "cancelled"
      ELSE IF \/ Some({"running"})
              \/ /\ Some({"ready", "planned", "completed"})
                 /\ Some({"completed", "blocked", "escalated", "cancelled"})
           THEN "in_progress"
      ELSE IF Some({"ready", "planned"}) THEN "planned"
      ELSE "blocked"
=============================================================================
