------------------------ MODULE SubmissionLifecycle ------------------------
(***************************************************************************)
(* What the upload pipeline promises of each submission, whatever workers, *)
(* administrators and leases do underneath: the stages it may go through,  *)
(* that its content is frozen once and for all when it is submitted, and   *)
(* that only a frozen content that is good gets any further than that.     *)
(***************************************************************************)
CONSTANTS Submissions, Contents, Good, None

VARIABLES stage, frozen

Stages == {"none", "draft", "validating", "ready_for_review", "needs_changes",
           "validation_failed", "approved", "rejected", "importing", "import_failed",
           "published"}

After(from) ==
  CASE from = "none"          -> {"draft"}
    [] from = "validating"    -> {"ready_for_review", "needs_changes", "validation_failed"}
    [] from = "ready_for_review" -> {"approved", "rejected"}
    [] from \in {"needs_changes", "validation_failed"} -> {"rejected"}
    [] from = "approved"      -> {"importing"}
    [] from = "importing"     -> {"published", "import_failed"}
    [] from = "import_failed" -> {"importing", "rejected"}
    [] OTHER                  -> {}

Init == /\ stage  = [s \in Submissions |-> "none"]
        /\ frozen = [s \in Submissions |-> None]

Freeze(s) ==
  /\ stage[s] = "draft" /\ stage'[s] = "validating"
  /\ frozen'[s] \in Contents

Advance(s) ==
  /\ stage'[s] \in After(stage[s])
  /\ stage'[s] \in {"ready_for_review", "approved", "published"} => frozen[s] \in Good
  /\ frozen'[s] = frozen[s]

Stay(s) == stage'[s] = stage[s] /\ frozen'[s] = frozen[s]

\* One transaction may move several submissions.
Next ==
  /\ stage'  \in [Submissions -> Stages]
  /\ frozen' \in [Submissions -> Contents \cup {None}]
  /\ \A s \in Submissions : Freeze(s) \/ Advance(s) \/ Stay(s)

Spec == Init /\ [][Next]_<<stage, frozen>>
=============================================================================
