----------------------------- MODULE Validation -----------------------------
(***************************************************************************)
(* Uploaded challenges, from draft to the administrator's decision.        *)
(*                                                                         *)
(* Authors write and submit revisions; worker processes, started by hand   *)
(* or by a timer, claim validation jobs from the database under a lease    *)
(* that a heartbeat thread renews; an administrator reviews the verdict.   *)
(* Every write is one BEGIN IMMEDIATE transaction, so an action is one     *)
(* transaction; the slow checks run between two of them.                   *)
(*                                                                         *)
(*   sub      the challenge_submissions rows with their files' metadata    *)
(*   vjob     the validation job of each (idempotency key: at most one)    *)
(*   attest   its last submission_validation audit record                  *)
(*   review   its last submission_review audit record                      *)
(*   notices  the notification outbox, by deduplication key                *)
(*   trusted  the active accounts with the sysadmin role                   *)
(*   vwork    the worker processes                                         *)
(*                                                                         *)
(* A lease is live or expired; a token is the number of the attempt it was *)
(* drawn for. A digest is the content it was computed from. Retry delays   *)
(* are left out: a waiting job may be picked up at any time.               *)
(***************************************************************************)
EXTENDS Naturals, FiniteSets

CONSTANTS
  Submissions,  \* the submission ids the database will hand out
  Contents,     \* a manifest together with its file inventory
  Good,         \* the contents that have no fault for a check to find
  Sysadmins,    \* accounts that may hold the sysadmin role
  Workers,      \* validation worker processes
  MaxAttempts,  \* submission_jobs.max_attempts
  MaxEdits,     \* how often stored metadata changes behind the application
  None

ASSUME ContentAssumption == Good \subseteq Contents /\ None \notin Contents
ASSUME AdminAssumption   == None \notin Sysadmins /\ None \notin Submissions
ASSUME LimitAssumption   == MaxAttempts \in Nat \ {0} /\ MaxEdits \in Nat

VARIABLES sub, vjob, attest, review, notices, trusted, vwork, edits
vvars == <<sub, vjob, attest, review, notices, trusted, vwork, edits>>

Blank    == [status |-> "none", content |-> None, digest |-> None, passed |-> FALSE,
             approver |-> None]
NoJob    == [status |-> "none", attempts |-> 0, token |-> 0, live |-> FALSE, issues |-> FALSE]
NoAttest == [status |-> "none", digest |-> None]
NoReview == [decision |-> "none", digest |-> None, by |-> None]
Off      == [pc |-> "idle", sub |-> None, token |-> 0, seen |-> None, report |-> "none",
             lost |-> FALSE]

Draft(c)     == [Blank EXCEPT !.status = "draft", !.content = c]
Notice(s, k, n, e) == [sub |-> s, kind |-> k, n |-> n, event |-> e]
\* The UNIQUE deduplication key of a notice is still unused.
Fresh(s, k, n) == \A m \in notices : ~(m.sub = s /\ m.kind = k /\ m.n = n)

ActiveJob == {"queued", "running", "retry_wait"}
\* The reports of validate_submission() and the status each one suggests.
Suggested(report) ==
  CASE report = "clean"     -> "ready_for_review"
    [] report = "faults"    -> "needs_changes"
    [] report = "technical" -> "validation_failed"

VInit ==
  /\ sub     = [s \in Submissions |-> Blank]
  /\ vjob    = [s \in Submissions |-> NoJob]
  /\ attest  = [s \in Submissions |-> NoAttest]
  /\ review  = [s \in Submissions |-> NoReview]
  /\ notices = {}
  /\ trusted = Sysadmins
  /\ vwork   = [w \in Workers |-> Off]
  /\ edits   = 0

-----------------------------------------------------------------------------
(* Authors.                                                                *)

Create(s, c) ==
  /\ sub[s] = Blank
  /\ sub' = [sub EXCEPT ![s] = Draft(c)]
  /\ UNCHANGED <<vjob, attest, review, notices, trusted, vwork, edits>>

\* A new manifest, an image added or removed.
EditDraft(s, c) ==
  /\ sub[s].status = "draft"
  /\ sub' = [sub EXCEPT ![s].content = c]
  /\ UNCHANGED <<vjob, attest, review, notices, trusted, vwork, edits>>

Submit(s) ==
  /\ vjob[s] = NoJob
  /\ sub[s].status = "draft"
  /\ sub'  = [sub EXCEPT ![s].status = "validating", ![s].digest = sub[s].content]
  /\ vjob' = [vjob EXCEPT ![s].status = "queued"]
  /\ UNCHANGED <<attest, review, notices, trusted, vwork, edits>>

\* A correction is a new draft with the old one's manifest and files.
Revise(old, s) ==
  /\ sub[old].status \in {"needs_changes", "validation_failed", "rejected"}
  /\ sub[s] = Blank
  /\ sub' = [sub EXCEPT ![s] = Draft(sub[old].content)]
  /\ UNCHANGED <<vjob, attest, review, notices, trusted, vwork, edits>>

\* Someone changes the rows of a frozen submission behind the application.
Tamper(s, c) ==
  /\ edits < MaxEdits
  /\ sub[s].digest # None
  /\ sub'   = [sub EXCEPT ![s].content = c]
  /\ edits' = edits + 1
  /\ UNCHANGED <<vjob, attest, review, notices, trusted, vwork>>

\* An administrator is demoted, another one must be left, or an account is
\* promoted.
SetRole(a) ==
  /\ trusted # {a}
  /\ trusted' = IF a \in trusted THEN trusted \ {a} ELSE trusted \cup {a}
  /\ UNCHANGED <<sub, vjob, attest, review, notices, vwork, edits>>

-----------------------------------------------------------------------------
(* The validation worker.                                                  *)

VOwned(w) == LET s == vwork[w].sub IN
  vjob[s].status = "running" /\ vjob[s].live /\ vjob[s].token = vwork[w].token

Expired(job)  == job.status = "running" /\ ~job.live
Waiting   == {s \in Submissions : vjob[s].status \in {"queued", "retry_wait"}}
SlipNoRecovery == Waiting
Eligible  == Waiting \cup {s \in Submissions : Expired(vjob[s])}
SlipNoLimit == {}
Exhausted == {s \in Submissions : vjob[s].attempts >= MaxAttempts}

Retries(s, report, exhausted) ==
  report = "technical" /\ ~exhausted /\ vjob[s].attempts < MaxAttempts

SlipJudged(s, report, exhausted) ==
  [sub[s] EXCEPT !.status = Suggested(report), !.passed = (report = "clean")]

\* What _result() makes of each record it writes.
Judged(s, report, exhausted) ==
  [sub[s] EXCEPT
     !.status = IF Retries(s, report, exhausted) THEN "validating" ELSE Suggested(report),
     !.passed = (report = "clean")]
Settled(s, report, exhausted) ==
  [vjob[s] EXCEPT
     !.status = IF Retries(s, report, exhausted) THEN "retry_wait"
                ELSE IF report = "technical" THEN "failed" ELSE "succeeded",
     !.issues = (report # "clean"), !.token = 0, !.live = FALSE]
Evidence(s, report, exhausted) ==
  [status |-> Judged(s, report, exhausted).status,
   digest |-> IF report = "clean" THEN sub[s].digest ELSE None]
SlipNotifyRetry(s, report, exhausted) ==
  IF Fresh(s, "verdict", 0) THEN {Notice(s, "verdict", 0, Suggested(report))} ELSE {}
\* _notify() looks for its key before it inserts.
Verdict(s, report, exhausted) ==
  IF Fresh(s, "verdict", 0) /\ ~Retries(s, report, exhausted)
  THEN {Notice(s, "verdict", 0, Suggested(report))} ELSE {}

\* claim(): in one transaction, cancel the jobs whose submission is not in
\* validation and settle the exhausted ones until there is one to take; with
\* none to take, all are passed.
Claim(w) ==
  LET strays  == {s \in Submissions : sub[s].status # "validating"}
      settled == Exhausted \ strays
      taking  == Eligible \ (strays \cup Exhausted)
  IN
  /\ vwork[w] = Off
  /\ Eligible # {}
  /\ \E passed \in SUBSET (Eligible \ taking), pick \in taking \cup {None} :
       /\ pick = None => taking = {} /\ passed = Eligible
       /\ taking # {} => pick # None
       /\ sub'     = [s \in Submissions |->
                        IF s \in passed \cap settled THEN Judged(s, "technical", TRUE) ELSE sub[s]]
       /\ attest'  = [s \in Submissions |->
                        IF s \in passed \cap settled THEN Evidence(s, "technical", TRUE) ELSE attest[s]]
       /\ notices' = notices \cup UNION {Verdict(s, "technical", TRUE) : s \in passed \cap settled}
       /\ vjob'    = [s \in Submissions |->
            CASE s \in passed \cap settled -> Settled(s, "technical", TRUE)
              [] s \in passed \cap strays  -> [vjob[s] EXCEPT !.status = "cancelled", !.token = 0,
                                                             !.live = FALSE]
              [] s = pick -> [vjob[s] EXCEPT !.status = "running", !.live = TRUE,
                                !.attempts = vjob[s].attempts + 1, !.token = vjob[s].attempts + 1]
              [] OTHER    -> vjob[s]]
       /\ vwork'   = IF pick = None THEN vwork
                     ELSE [vwork EXCEPT ![w] = [Off EXCEPT !.pc = "claimed", !.sub = pick,
                                                  !.token = vjob[pick].attempts + 1]]
  /\ UNCHANGED <<review, trusted, edits>>

\* Drop the work: LeaseLost, any other exception, or the process dies.
Drop(w) == vwork' = [vwork EXCEPT ![w] = Off]

\* Take the snapshot and run the checks on it. The verification services
\* or the storage may fail, and a stored file may no longer be what its
\* row says; a clean report needs an unchanged content without fault.
Inspect(w) ==
  /\ vwork[w].pc = "claimed"
  /\ LET s == vwork[w].sub IN
     IF ~VOwned(w) THEN Drop(w)
     ELSE \E report \in {"clean", "faults", "technical"} :
            /\ report = "clean" => sub[s].content = sub[s].digest /\ sub[s].content \in Good
            /\ vwork' = [vwork EXCEPT ![w].pc = "inspected", ![w].seen = sub[s].content,
                                      ![w].report = report]
  /\ UNCHANGED <<sub, vjob, attest, review, notices, trusted, edits>>

\* The heartbeat thread could not renew the lease: not owned any more, or
\* the database stayed locked. It gives up and the lease will run out. The
\* flag is read after the checks only, so it is not raised before their end.
HeartbeatFails(w) ==
  /\ vwork[w].pc = "inspected"
  /\ vwork' = [vwork EXCEPT ![w].lost = TRUE]
  /\ UNCHANGED <<sub, vjob, attest, review, notices, trusted, edits>>

\* Time passes the lease's end before a heartbeat renewed it.
Expire(s) ==
  /\ vjob[s].live
  /\ vjob' = [vjob EXCEPT ![s].live = FALSE]
  /\ UNCHANGED <<sub, attest, review, notices, trusted, vwork, edits>>

SlipNoCompare(w) == vwork[w].report
\* finish(): the report counts only for the content it was made of.
Counted(w) == IF sub[vwork[w].sub].content = vwork[w].seen THEN vwork[w].report ELSE "faults"

Finish(w) ==
  /\ vwork[w].pc = "inspected"
  /\ LET s == vwork[w].sub  r == Counted(w) IN
     IF vwork[w].lost \/ ~VOwned(w) \/ sub[s].status # "validating"
     THEN UNCHANGED <<sub, vjob, attest, notices>>
     ELSE /\ sub'     = [sub EXCEPT ![s] = Judged(s, r, FALSE)]
          /\ vjob'    = [vjob EXCEPT ![s] = Settled(s, r, FALSE)]
          /\ attest'  = [attest EXCEPT ![s] = Evidence(s, r, FALSE)]
          /\ notices' = notices \cup Verdict(s, r, FALSE)
  /\ Drop(w)
  /\ UNCHANGED <<review, trusted, edits>>

Crash(w) ==
  /\ vwork[w].pc # "idle"
  /\ Drop(w)
  /\ UNCHANGED <<sub, vjob, attest, review, notices, trusted, edits>>

-----------------------------------------------------------------------------
(* The administrator's decision.                                           *)

SlipApprovable(s) == TRUE
\* What an approval needs besides the conditions of every decision.
Approvable(s) ==
  /\ sub[s].status = "ready_for_review"
  /\ vjob[s].status = "succeeded" /\ ~vjob[s].issues
  /\ sub[s].passed
  /\ attest[s] = [status |-> "ready_for_review", digest |-> sub[s].digest]

Intact(s) == sub[s].content = sub[s].digest

\* decide(): actor, frozen digest and rows as the form showed them, no work
\* under way. A repeated click finds the status final and changes nothing.
Decide(s, a, decision) ==
  /\ a \in trusted
  /\ sub[s].digest # None /\ Intact(s)
  /\ sub[s].status \in {"ready_for_review", "needs_changes", "validation_failed"}
  /\ vjob[s].status \in {"succeeded", "failed"}
  /\ decision = "approve" => Approvable(s)
  /\ Fresh(s, decision, 0)
  /\ LET final == IF decision = "approve" THEN "approved" ELSE "rejected" IN
     /\ sub' = [sub EXCEPT ![s].status = final,
                           ![s].approver = IF decision = "approve" THEN a ELSE None]
     /\ notices' = notices \cup {Notice(s, decision, 0, final)}
  /\ review' = [review EXCEPT ![s] = [decision |-> decision, digest |-> sub[s].digest, by |-> a]]
  /\ UNCHANGED <<vjob, attest, trusted, vwork, edits>>

-----------------------------------------------------------------------------
Author ==
  \E s \in Submissions :
    \/ \E c \in Contents : Create(s, c) \/ EditDraft(s, c) \/ Tamper(s, c)
    \/ Submit(s)
    \/ \E old \in Submissions : Revise(old, s)

Admin ==
  \E a \in Sysadmins :
    \/ SetRole(a)
    \/ \E s \in Submissions, d \in {"approve", "reject"} : Decide(s, a, d)

VWorker(w) == Claim(w) \/ Inspect(w) \/ Finish(w) \/ HeartbeatFails(w) \/ Crash(w)

VNext ==
  \/ Author
  \/ Admin
  \/ \E w \in Workers : VWorker(w)
  \/ \E s \in Submissions : Expire(s)

\* The worker command is run again and again, a started worker carries on
\* unless it dies, and a lease nobody renews runs out.
VFairness ==
  /\ WF_vvars(\E w \in Workers : Claim(w))
  /\ \A w \in Workers : WF_vvars(Inspect(w) \/ Finish(w))
  /\ \A s \in Submissions : WF_vvars(Expire(s))

VSpec == VInit /\ [][VNext]_vvars /\ VFairness

-----------------------------------------------------------------------------
Lifecycle == INSTANCE SubmissionLifecycle WITH
  stage  <- [s \in Submissions |-> sub[s].status],
  frozen <- [s \in Submissions |-> sub[s].digest]

\* Stages follow the pipeline, a submitted content is frozen for good, and
\* one with a fault is never ready, approved or published.
LifecycleRefines == Lifecycle!Spec

Reports     == {"clean", "faults", "technical"}
NoticeKinds == {"verdict", "approve", "reject", "returned", "failed", "published"}

Submission == [status : Lifecycle!Stages, content : Contents \cup {None},
               digest : Contents \cup {None}, passed : BOOLEAN,
               approver : Sysadmins \cup {None}]
VJob  == [status : {"none", "succeeded", "failed"} \cup ActiveJob, attempts : 0 .. MaxAttempts,
          token : 0 .. MaxAttempts, live : BOOLEAN, issues : BOOLEAN]
VWork == [pc : {"idle", "claimed", "inspected"}, sub : Submissions \cup {None},
          token : 0 .. MaxAttempts, seen : Contents \cup {None},
          report : Reports \cup {"none"}, lost : BOOLEAN]

\* Every variable keeps its type; no job is attempted more often than its
\* limit, and none is ever cancelled for a submission out of validation.
VTypeOK ==
  /\ sub     \in [Submissions -> Submission]
  /\ vjob    \in [Submissions -> VJob]
  /\ attest  \in [Submissions -> [status : Lifecycle!Stages, digest : Contents \cup {None}]]
  /\ review  \in [Submissions -> [decision : {"none", "approve", "reject"},
                                  digest : Contents \cup {None}, by : Sysadmins \cup {None}]]
  /\ notices \subseteq [sub : Submissions, kind : NoticeKinds, n : 0 .. MaxAttempts,
                        event : Lifecycle!Stages]
  /\ trusted \subseteq Sysadmins
  /\ vwork   \in [Workers -> VWork]
  /\ edits   \in 0 .. MaxEdits

\* The job of a submission is active exactly while it is in validation.
JobsMatch ==
  \A s \in Submissions : sub[s].status = "validating" <=> vjob[s].status \in ActiveJob

\* Author and audit agree: each finished validation, and no other, has told
\* the author once, and what it told is the verdict on record.
OneVerdict ==
  \A s \in Submissions :
    LET told == {m \in notices : m.sub = s /\ m.kind = "verdict"} IN
    IF vjob[s].status \in {"succeeded", "failed"}
    THEN told = {Notice(s, "verdict", 0, attest[s].status)}
    ELSE told = {}

\* An approval stays on record: its review, its approver, the attestation of
\* the same content and the one message to the author agree, and no worker
\* that comes late overwrites any of them.
ApprovalOnRecord ==
  \A s \in Submissions : sub[s].status = "approved" =>
    /\ review[s] = [decision |-> "approve", digest |-> sub[s].digest, by |-> sub[s].approver]
    /\ attest[s] = [status |-> "ready_for_review", digest |-> sub[s].digest]
    /\ sub[s].passed /\ vjob[s].status = "succeeded"
    /\ {m \in notices : m.sub = s /\ m.kind \in {"approve", "reject"}}
         = {Notice(s, "approve", 0, "approved")}

\* Whatever happens to the stored rows meanwhile: the moment a submission
\* becomes ready, and the moment it is approved, its rows are the frozen
\* content and that content passed the checks.
JudgedAsFrozen ==
  [][\A s \in Submissions :
       sub'[s].status # sub[s].status /\ sub'[s].status \in {"ready_for_review", "approved"}
         => sub[s].content = sub[s].digest /\ sub[s].content \in Good]_vvars

\* A validation ends, whatever workers die, stall or lose their lease.
ValidationEnds ==
  \A s \in Submissions : sub[s].status = "validating" ~> sub[s].status # "validating"
=============================================================================
