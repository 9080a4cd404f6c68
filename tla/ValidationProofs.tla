-------------------------- MODULE ValidationProofs --------------------------
(***************************************************************************)
(* Proofs about Validation, for every number of submissions, workers and   *)
(* administrators: types, a job for exactly the submissions in validation, *)
(* one verdict and one decision each, on the content that was frozen, and  *)
(* that the pipeline keeps to the stages of SubmissionLifecycle.           *)
(*                                                                         *)
(* The invariant follows one submission: its job, its attestation, and the *)
(* messages about it, which only transactions that move it add to. What is *)
(* at work in a process is bound by one fact alone: a clean report is of   *)
(* the frozen content, and that content is good.                           *)
(***************************************************************************)
EXTENDS Validation, TLAPS

\* What the author of s was told.
Told(s) == {m \in notices : m.sub = s}

Accepted  == {"ready_for_review", "approved", "importing", "import_failed", "published"}
Concluded == (Accepted \ {"ready_for_review"}) \cup {"rejected"}
Decisions == {"approve", "reject"}

Match(s) == sub[s].status = "validating" <=> vjob[s].status \in ActiveJob

One(s) == {m \in Told(s) : m.kind = "verdict"} =
            IF vjob[s].status \in {"succeeded", "failed"}
            THEN {Notice(s, "verdict", 0, attest[s].status)} ELSE {}

Recorded(s) == sub[s].status = "approved" =>
  /\ review[s] = [decision |-> "approve", digest |-> sub[s].digest, by |-> sub[s].approver]
  /\ attest[s] = [status |-> "ready_for_review", digest |-> sub[s].digest]
  /\ sub[s].passed /\ vjob[s].status = "succeeded"
  /\ {m \in Told(s) : m.kind \in Decisions} = {Notice(s, "approve", 0, "approved")}

\* Nobody was told of a decision that was not taken.
Undecided(s) == sub[s].status \notin Concluded => \A m \in Told(s) : m.kind \notin Decisions

\* A draft is not frozen; everything further is.
Whole(s) ==
  /\ sub[s].status # "none" => sub[s].content \in Contents
  /\ sub[s].status \in {"none", "draft"} => sub[s].digest = None
  /\ sub[s].status \notin {"none", "draft"} => sub[s].digest \in Contents

\* What went past validation is good.
Sound(s) == sub[s].status \in Accepted => sub[s].digest \in Good

At(s) == Match(s) /\ One(s) /\ Recorded(s) /\ Undecided(s) /\ Whole(s) /\ Sound(s)

\* A clean report is of the frozen content.
Reported(w) ==
  /\ vwork[w].pc # "idle" => vwork[w].sub \in Submissions
  /\ vwork[w].pc = "inspected" =>
       /\ vwork[w].report \in Reports
       /\ vwork[w].report = "clean" =>
            vwork[w].seen \in Good /\ sub[vwork[w].sub].digest = vwork[w].seen

VInv == VTypeOK /\ (\A s \in Submissions : At(s)) /\ (\A w \in Workers : Reported(w))

\* What a step may do to one submission.
Moves(s)   == Lifecycle!Freeze(s) \/ Lifecycle!Advance(s) \/ Lifecycle!Stay(s)
Careful(s) ==
  sub'[s].status # sub[s].status /\ sub'[s].status \in {"ready_for_review", "approved"}
    => sub[s].content = sub[s].digest /\ sub[s].content \in Good
Fine(s)    == At(s)' /\ Moves(s) /\ Careful(s)

-----------------------------------------------------------------------------
(* One submission.                                                         *)

LEMMA StagesAre ==
  Lifecycle!Stages = {"none", "draft", "validating", "ready_for_review", "needs_changes",
                      "validation_failed", "approved", "rejected", "importing", "import_failed",
                      "published"}
BY DEF Lifecycle!Stages

LEMMA RowTypes ==
  ASSUME VTypeOK, NEW s \in Submissions
  PROVE  /\ sub[s] \in Submission /\ vjob[s] \in VJob
         /\ attest[s] \in [status : Lifecycle!Stages, digest : Contents \cup {None}]
BY DEF VTypeOK

LEMMA NoticeType ==
  ASSUME NEW s \in Submissions, NEW k \in NoticeKinds, NEW n \in 0 .. MaxAttempts,
         NEW e \in Lifecycle!Stages
  PROVE  Notice(s, k, n, e) \in [sub : Submissions, kind : NoticeKinds, n : 0 .. MaxAttempts,
                                 event : Lifecycle!Stages]
BY DEF Notice

\* Nothing about it changes but, perhaps, the stored content.
LEMMA Untouched ==
  ASSUME VTypeOK, NEW s \in Submissions, At(s),
         sub'[s].status = sub[s].status, sub'[s].digest = sub[s].digest,
         sub'[s].passed = sub[s].passed, sub'[s].approver = sub[s].approver,
         sub[s].status # "none" => sub'[s].content \in Contents,
         vjob'[s] = vjob[s], attest'[s] = attest[s], review'[s] = review[s], Told(s)' = Told(s)
  PROVE  Fine(s)
<1>1. Match(s)' /\ One(s)' /\ Undecided(s)' /\ Whole(s)' /\ Sound(s)'
  BY DEF At, Match, One, Undecided, Whole, Sound
<1>2. Recorded(s)'
  BY DEF At, Recorded
<1>3. Lifecycle!Stay(s)
  BY DEF Lifecycle!Stay
<1> QED BY <1>1, <1>2, <1>3 DEF Fine, At, Moves, Careful

\* Processes do not mind what happens to digests that are still missing.
LEMMA Undisturbed ==
  ASSUME VInv, NEW w \in Workers, vwork'[w] = vwork[w],
         \A s \in Submissions : sub[s].digest # None => sub'[s].digest = sub[s].digest
  PROVE  Reported(w)'
<1>1. None \notin Good
  BY ContentAssumption
<1> QED BY <1>1 DEF VInv, Reported

LEMMA AtRest ==
  ASSUME NEW w \in Workers, vwork'[w] = Off
  PROVE  Reported(w)'
BY DEF Reported, Off

LEMMA OffType == Off \in VWork
BY LimitAssumption DEF Off, VWork

LEMMA JudgedType ==
  ASSUME VTypeOK, NEW s \in Submissions, NEW r \in Reports, NEW e \in BOOLEAN
  PROVE  /\ Judged(s, r, e) \in Submission
         /\ Settled(s, r, e) \in VJob
         /\ Evidence(s, r, e) \in [status : Lifecycle!Stages, digest : Contents \cup {None}]
         /\ Verdict(s, r, e) \subseteq [sub : Submissions, kind : NoticeKinds,
                                        n : 0 .. MaxAttempts, event : Lifecycle!Stages]
<1>1. Suggested(r) \in {"ready_for_review", "needs_changes", "validation_failed"}
  BY DEF Suggested, Reports
<1>2. Judged(s, r, e) \in Submission /\ Judged(s, r, e).status \in Lifecycle!Stages
  BY <1>1, RowTypes, StagesAre DEF Judged, Submission
<1> DEFINE st == IF Retries(s, r, e) THEN "retry_wait"
                 ELSE IF r = "technical" THEN "failed" ELSE "succeeded"
           no == (r # "clean")
<1>0. 0 \in 0 .. MaxAttempts /\ "verdict" \in NoticeKinds /\ st \in {"retry_wait", "failed", "succeeded"}
      /\ no \in BOOLEAN
  BY LimitAssumption DEF NoticeKinds
<1>3. Settled(s, r, e) \in VJob
  <2>1. Settled(s, r, e) = [vjob[s] EXCEPT !.status = st, !.issues = no, !.token = 0, !.live = FALSE]
    BY DEF Settled
  <2> HIDE DEF st, no
  <2> QED BY <1>0, <2>1, RowTypes DEF VJob, ActiveJob
<1>4. Evidence(s, r, e) \in [status : Lifecycle!Stages, digest : Contents \cup {None}]
  BY <1>2, RowTypes DEF Evidence, Submission
<1>5. Notice(s, "verdict", 0, Suggested(r)) \in
        [sub : Submissions, kind : NoticeKinds, n : 0 .. MaxAttempts, event : Lifecycle!Stages]
  <2>1. Suggested(r) \in Lifecycle!Stages
    BY <1>1, StagesAre
  <2> QED BY <1>0, <2>1, NoticeType
<1> QED BY <1>2, <1>3, <1>4, <1>5 DEF Verdict

\* A validation is settled, or put back for another attempt.
LEMMA Settling ==
  ASSUME VTypeOK, NEW s \in Submissions, At(s), sub[s].status = "validating",
         NEW r \in Reports, NEW e \in BOOLEAN,
         r = "clean" => sub[s].content = sub[s].digest /\ sub[s].content \in Good,
         sub'[s] = Judged(s, r, e), vjob'[s] = Settled(s, r, e), attest'[s] = Evidence(s, r, e),
         review'[s] = review[s], Told(s)' = Told(s) \cup Verdict(s, r, e)
  PROVE  Fine(s)
<1>1. /\ sub'[s].digest = sub[s].digest /\ sub'[s].content = sub[s].content
      /\ sub'[s].status = IF Retries(s, r, e) THEN "validating" ELSE Suggested(r)
  BY RowTypes DEF Judged, Submission
<1>2. Suggested(r) \in {"ready_for_review", "needs_changes", "validation_failed"}
  BY DEF Suggested, Reports
<1>3. Suggested(r) = "ready_for_review" => r = "clean"
  BY DEF Suggested, Reports
<1>4. Match(s)'
  BY <1>1, <1>2, RowTypes DEF Match, Settled, VJob, ActiveJob, Retries
<1>5. \A m \in Told(s) : m.kind \notin Decisions /\ m.kind # "verdict"
  BY DEF At, One, Match, Undecided, Concluded, Accepted, ActiveJob
<1>6. Fresh(s, "verdict", 0)
  BY <1>5 DEF Fresh, Told
<1>7. Verdict(s, r, e) = IF Retries(s, r, e) THEN {} ELSE {Notice(s, "verdict", 0, Suggested(r))}
  BY <1>6 DEF Verdict
<1>8. One(s)'
  <2>1. {m \in Told(s)' : m.kind = "verdict"} = Verdict(s, r, e)
    BY <1>5, <1>7 DEF Notice
  <2>2. attest'[s].status = sub'[s].status
    BY DEF Evidence
  <2>3. vjob'[s].status \in {"succeeded", "failed"} <=> ~Retries(s, r, e)
    BY RowTypes DEF Settled, VJob, Retries
  <2> QED BY <1>1, <1>7, <2>1, <2>2, <2>3 DEF One
<1>9. \A m \in Told(s)' : m.kind \notin Decisions
  BY <1>5, <1>7 DEF Notice, Decisions
<1>10. Recorded(s)' /\ Undecided(s)' /\ Whole(s)' /\ Sound(s)'
  BY <1>1, <1>2, <1>3, <1>9 DEF At, Recorded, Undecided, Whole, Sound, Accepted
<1>11. Moves(s)
  BY <1>1, <1>2, <1>3
     DEF Moves, Lifecycle!Advance, Lifecycle!After, Lifecycle!Stay
<1>12. Careful(s)
  BY <1>1, <1>2, <1>3 DEF Careful
<1> QED BY <1>4, <1>8, <1>10, <1>11, <1>12 DEF Fine, At

-----------------------------------------------------------------------------
(* Actions.                                                                *)

Keeps == VInv' /\ \A s \in Submissions : Moves(s) /\ Careful(s)

LEMMA Gather ==
  ASSUME VTypeOK', \A s \in Submissions : Fine(s), \A w \in Workers : Reported(w)'
  PROVE  Keeps
BY DEF Keeps, VInv, Fine

\* The author, or the row changed behind the application: one submission has
\* another content, and a new one becomes a draft.
LEMMA Rewritten ==
  ASSUME VInv, NEW s \in Submissions, NEW c \in Contents, NEW row \in Submission,
         sub' = [sub EXCEPT ![s] = row],
         UNCHANGED <<vjob, attest, review, notices, trusted, vwork>>, edits' \in 0 .. MaxEdits,
         \/ sub[s] = Blank /\ row = Draft(c)
         \/ sub[s].status # "none" /\ row = [sub[s] EXCEPT !.content = c]
  PROVE  Keeps
<1>1. VTypeOK'
  BY DEF VInv, VTypeOK
<1>2. Told(s)' = Told(s) /\ \A t \in Submissions : Told(t)' = Told(t)
  BY DEF Told
<1>3. sub[s] \in Submission /\ sub'[s] = row /\ \A t \in Submissions : t # s => sub'[t] = sub[t]
  BY DEF VInv, VTypeOK
<1>4. Fine(s)
  <2>1. CASE sub[s].status # "none" /\ row = [sub[s] EXCEPT !.content = c]
    <3>1. /\ row.status = sub[s].status /\ row.digest = sub[s].digest
          /\ row.passed = sub[s].passed /\ row.approver = sub[s].approver /\ row.content = c
      BY <1>3, <2>1 DEF Submission
    <3> QED BY <1>2, <1>3, <3>1, Untouched DEF VInv
  <2>2. CASE sub[s] = Blank /\ row = Draft(c)
    <3>1. /\ sub[s].status = "none" /\ sub[s].digest = None
          /\ row.status = "draft" /\ row.digest = None /\ row.content = c
      BY <2>2 DEF Blank, Draft
    <3>2. Match(s)' /\ One(s)' /\ Undecided(s)' /\ Recorded(s)'
      BY <1>2, <1>3, <3>1 DEF VInv, At, Match, One, Undecided, Recorded, Concluded, Accepted
    <3>3. Whole(s)' /\ Sound(s)'
      BY <1>3, <3>1 DEF Whole, Sound, Accepted
    <3>4. Moves(s) /\ Careful(s)
      BY <1>3, <3>1 DEF Moves, Careful, Lifecycle!Advance, Lifecycle!After
    <3> QED BY <3>2, <3>3, <3>4 DEF Fine, At
  <2> QED BY <2>1, <2>2
<1>5. \A t \in Submissions \ {s} : Fine(t)
  <2> SUFFICES ASSUME NEW t \in Submissions \ {s} PROVE Fine(t)
    OBVIOUS
  <2>1. sub[t].status # "none" => sub[t].content \in Contents
    BY DEF VInv, At, Whole
  <2> QED BY <1>2, <1>3, <2>1, Untouched DEF VInv
<1>6. \A t \in Submissions : sub[t].digest # None => sub'[t].digest = sub[t].digest
  BY <1>3 DEF Blank, Submission
<1>7. \A w \in Workers : Reported(w)'
  BY <1>6, Undisturbed
<1> QED BY <1>1, <1>4, <1>5, <1>7, Gather

LEMMA DraftType ==
  ASSUME NEW c \in Contents
  PROVE  Draft(c) \in Submission
BY StagesAre DEF Draft, Blank, Submission

LEMMA CreateKeeps ==
  ASSUME VInv, NEW s \in Submissions, NEW c \in Contents, Create(s, c)
  PROVE  Keeps
<1>1. edits' \in 0 .. MaxEdits
  BY DEF VInv, VTypeOK, Create
<1> QED BY <1>1, DraftType, Rewritten DEF Create

LEMMA ContentType ==
  ASSUME VInv, NEW s \in Submissions, NEW c \in Contents
  PROVE  [sub[s] EXCEPT !.content = c] \in Submission
<1>1. sub[s] \in Submission
  BY RowTypes DEF VInv
<1> QED BY <1>1 DEF Submission

LEMMA EditKeeps ==
  ASSUME VInv, NEW s \in Submissions, NEW c \in Contents, EditDraft(s, c)
  PROVE  Keeps
<1>1. edits' \in 0 .. MaxEdits
  BY DEF VInv, VTypeOK, EditDraft
<1>2. sub' = [sub EXCEPT ![s] = [sub[s] EXCEPT !.content = c]]
  BY DEF EditDraft
<1> QED BY <1>1, <1>2, ContentType, Rewritten DEF EditDraft

LEMMA TamperKeeps ==
  ASSUME VInv, NEW s \in Submissions, NEW c \in Contents, Tamper(s, c)
  PROVE  Keeps
<1>1. edits' \in 0 .. MaxEdits
  BY LimitAssumption DEF VInv, VTypeOK, Tamper
<1>2. sub' = [sub EXCEPT ![s] = [sub[s] EXCEPT !.content = c]]
  BY DEF Tamper
<1>3. sub[s].status # "none"
  BY DEF Tamper, VInv, At, Whole
<1> QED BY <1>1, <1>2, <1>3, ContentType, Rewritten DEF Tamper

LEMMA ReviseKeeps ==
  ASSUME VInv, NEW old \in Submissions, NEW s \in Submissions, Revise(old, s)
  PROVE  Keeps
<1>1. edits' \in 0 .. MaxEdits
  BY DEF VInv, VTypeOK, Revise
<1>2. sub[old].content \in Contents
  BY DEF Revise, VInv, At, Whole
<1> QED BY <1>1, <1>2, DraftType, Rewritten DEF Revise

LEMMA SubmitKeeps ==
  ASSUME VInv, NEW s \in Submissions, Submit(s)
  PROVE  Keeps
<1>1. /\ sub[s] \in Submission /\ vjob[s] \in VJob /\ sub[s].content \in Contents
      /\ sub[s].digest = None /\ vjob[s] = NoJob
  BY DEF Submit, VInv, VTypeOK, At, Whole
<1>2. /\ sub'[s] = [sub[s] EXCEPT !.status = "validating", !.digest = sub[s].content]
      /\ vjob'[s] = [vjob[s] EXCEPT !.status = "queued"]
      /\ \A t \in Submissions \ {s} : sub'[t] = sub[t] /\ vjob'[t] = vjob[t]
      /\ sub' \in [Submissions -> Submission] /\ vjob' \in [Submissions -> VJob]
  BY <1>1, StagesAre DEF Submit, VInv, VTypeOK, Submission, VJob, ActiveJob
<1>3. VTypeOK'
  BY <1>2 DEF VInv, VTypeOK, Submit
<1>4. \A t \in Submissions : Told(t)' = Told(t)
  BY DEF Told, Submit
<1>5. /\ sub'[s].status = "validating" /\ sub'[s].digest = sub[s].content
      /\ sub'[s].content = sub[s].content /\ vjob'[s].status = "queued"
  BY <1>1, <1>2 DEF Submission, VJob
<1>6. Fine(s)
  <2>1. Match(s)' /\ Recorded(s)' /\ Whole(s)' /\ Sound(s)' /\ Undecided(s)'
    BY <1>1, <1>4, <1>5
       DEF VInv, At, Match, Recorded, Whole, Sound, Undecided, Submit, ActiveJob, Accepted, Concluded
  <2>2. One(s)'
    BY <1>1, <1>4, <1>5 DEF VInv, At, One, NoJob
  <2>3. Moves(s) /\ Careful(s)
    BY <1>1, <1>5 DEF Submit, Moves, Careful, Lifecycle!Freeze
  <2> QED BY <2>1, <2>2, <2>3 DEF Fine, At
<1>7. \A t \in Submissions \ {s} : Fine(t)
  <2> SUFFICES ASSUME NEW t \in Submissions \ {s} PROVE Fine(t)
    OBVIOUS
  <2>1. sub[t].status # "none" => sub[t].content \in Contents
    BY DEF VInv, At, Whole
  <2> QED BY <1>2, <1>4, <2>1, Untouched DEF VInv, Submit
<1>8. \A w \in Workers : Reported(w)'
  BY <1>1, <1>2, Undisturbed DEF Submit
<1> QED BY <1>3, <1>6, <1>7, <1>8, Gather

\* A step that no submission notices.
LEMMA Aside ==
  ASSUME VInv, UNCHANGED <<sub, attest, review, notices>>, VTypeOK',
         \A s \in Submissions : vjob'[s].status = vjob[s].status,
         \A w \in Workers : Reported(w)'
  PROVE  Keeps
<1> SUFFICES ASSUME NEW s \in Submissions PROVE Fine(s)
  BY Gather
<1>1. Told(s)' = Told(s)
  BY DEF Told
<1>2. At(s)'
  BY <1>1 DEF VInv, At, Match, One, Recorded, Undecided, Whole, Sound
<1>3. Lifecycle!Stay(s) /\ Careful(s)
  BY DEF Lifecycle!Stay, Careful
<1> QED BY <1>2, <1>3 DEF Fine, Moves

LEMMA SetRoleKeeps ==
  ASSUME VInv, NEW a \in Sysadmins, SetRole(a)
  PROVE  Keeps
<1>1. VTypeOK'
  BY DEF VInv, VTypeOK, SetRole
<1>2. \A w \in Workers : Reported(w)'
  BY Undisturbed DEF SetRole
<1> QED BY <1>1, <1>2, Aside DEF SetRole

LEMMA DropType ==
  ASSUME VTypeOK, NEW w \in Workers, Drop(w)
  PROVE  /\ vwork' \in [Workers -> VWork] /\ vwork'[w] = Off
         /\ \A v \in Workers \ {w} : vwork'[v] = vwork[v]
BY OffType DEF VTypeOK, Drop

LEMMA CrashKeeps ==
  ASSUME VInv, NEW w \in Workers, Crash(w)
  PROVE  Keeps
<1>1. VTypeOK'
  BY DropType DEF VInv, VTypeOK, Crash
<1>2. \A v \in Workers : Reported(v)'
  BY DropType, Undisturbed, AtRest DEF VInv, Crash
<1> QED BY <1>1, <1>2, Aside DEF Crash

LEMMA HeartbeatFailsKeeps ==
  ASSUME VInv, NEW w \in Workers, HeartbeatFails(w)
  PROVE  Keeps
<1>1. vwork[w] \in VWork
  BY DEF VInv, VTypeOK
<1>2. [vwork[w] EXCEPT !.lost = TRUE] \in VWork
  BY <1>1 DEF VWork
<1>3. VTypeOK'
  BY <1>2 DEF VInv, VTypeOK, HeartbeatFails
<1>4. \A v \in Workers \ {w} : Reported(v)'
  BY Undisturbed DEF VInv, VTypeOK, HeartbeatFails
<1>5. Reported(w)'
  BY <1>1 DEF VInv, VTypeOK, HeartbeatFails, Reported, VWork
<1> QED BY <1>3, <1>4, <1>5, Aside DEF HeartbeatFails

LEMMA ExpireKeeps ==
  ASSUME VInv, NEW s \in Submissions, Expire(s)
  PROVE  Keeps
<1>1. vjob[s] \in VJob
  BY DEF VInv, VTypeOK
<1>2. [vjob[s] EXCEPT !.live = FALSE] \in VJob /\ [vjob[s] EXCEPT !.live = FALSE].status = vjob[s].status
  BY <1>1 DEF VJob
<1>3. VTypeOK' /\ \A t \in Submissions : vjob'[t].status = vjob[t].status
  BY <1>2 DEF VInv, VTypeOK, Expire
<1>4. \A v \in Workers : Reported(v)'
  BY Undisturbed DEF Expire
<1> QED BY <1>3, <1>4, Aside DEF Expire

LEMMA InspectKeeps ==
  ASSUME VInv, NEW w \in Workers, Inspect(w)
  PROVE  Keeps
<1> DEFINE s == vwork[w].sub
<1>1. vwork[w] \in VWork /\ s \in Submissions /\ sub[s] \in Submission
  BY DEF VInv, VTypeOK, Inspect, Reported
<1>2. CASE ~VOwned(w)
  <2>1. Drop(w)
    BY <1>2 DEF Inspect
  <2>2. VTypeOK'
    BY <2>1, DropType DEF VInv, VTypeOK, Inspect
  <2>3. \A v \in Workers : Reported(v)'
    BY <2>1, DropType, Undisturbed, AtRest DEF VInv, Inspect
  <2> QED BY <2>2, <2>3, Aside DEF Inspect
<1>3. CASE VOwned(w)
  <2>1. PICK report \in Reports :
          /\ report = "clean" => sub[s].content = sub[s].digest /\ sub[s].content \in Good
          /\ vwork' = [vwork EXCEPT ![w].pc = "inspected", ![w].seen = sub[s].content,
                                    ![w].report = report]
    BY <1>3 DEF Inspect, Reports
  <2> DEFINE row == [vwork[w] EXCEPT !.pc = "inspected", !.seen = sub[s].content, !.report = report]
  <2>2. row \in VWork /\ row.pc = "inspected" /\ row.sub = s /\ row.seen = sub[s].content /\ row.report = report
    BY <1>1, <2>1 DEF VWork, Submission
  <2>3. vwork' = [vwork EXCEPT ![w] = row]
    BY <2>1
  <2> HIDE DEF row
  <2>4. VTypeOK' /\ vwork'[w] = row
    BY <2>2, <2>3 DEF VInv, VTypeOK, Inspect
  <2>5. Reported(w)'
    BY <1>1, <2>1, <2>2, <2>4 DEF Reported, Inspect
  <2>6. \A v \in Workers \ {w} : Reported(v)'
    BY <2>3, Undisturbed DEF VInv, VTypeOK, Inspect
  <2> QED BY <2>4, <2>5, <2>6, Aside DEF Inspect
<1> QED BY <1>2, <1>3

\* Digests stand while a job is settled.
LEMMA JudgedDigest ==
  ASSUME VTypeOK, NEW s \in Submissions, NEW r \in Reports, NEW e \in BOOLEAN
  PROVE  Judged(s, r, e).digest = sub[s].digest
BY RowTypes DEF Judged, Submission

LEMMA VerdictIsOf ==
  ASSUME NEW s \in Submissions, NEW r \in Reports, NEW e \in BOOLEAN
  PROVE  \A m \in Verdict(s, r, e) : m.sub = s
BY DEF Verdict, Notice

LEMMA FinishKeeps ==
  ASSUME VInv, NEW w \in Workers, Finish(w)
  PROVE  Keeps
<1>1. PICK s \in Submissions : s = vwork[w].sub
  BY DEF VInv, Finish, Reported
<1>2. PICK r \in Reports : r = Counted(w)
  BY DEF VInv, Finish, Reported, Counted, Reports
<1>3. r = "clean" => sub[s].content = sub[s].digest /\ sub[s].content \in Good
  BY <1>1, <1>2 DEF VInv, Finish, Reported, Counted
<1>4. /\ vwork' \in [Workers -> VWork] /\ vwork'[w] = Off
      /\ \A v \in Workers \ {w} : vwork'[v] = vwork[v]
  BY DropType DEF VInv, Finish
<1>5. CASE UNCHANGED <<sub, vjob, attest, notices>>
  <2>1. VTypeOK'
    BY <1>4, <1>5 DEF VInv, VTypeOK, Finish
  <2>2. \A v \in Workers : Reported(v)'
    BY <1>4, <1>5, Undisturbed, AtRest
  <2> QED BY <1>5, <2>1, <2>2, Aside DEF Finish
<1>6. CASE /\ sub[s].status = "validating"
           /\ sub'     = [sub EXCEPT ![s] = Judged(s, r, FALSE)]
           /\ vjob'    = [vjob EXCEPT ![s] = Settled(s, r, FALSE)]
           /\ attest'  = [attest EXCEPT ![s] = Evidence(s, r, FALSE)]
           /\ notices' = notices \cup Verdict(s, r, FALSE)
  <2> DEFINE row == Judged(s, r, FALSE)
             job == Settled(s, r, FALSE)
             evidence == Evidence(s, r, FALSE)
             told == Verdict(s, r, FALSE)
  <2>0. /\ row \in Submission /\ job \in VJob
        /\ evidence \in [status : Lifecycle!Stages, digest : Contents \cup {None}]
        /\ told \subseteq [sub : Submissions, kind : NoticeKinds, n : 0 .. MaxAttempts,
                           event : Lifecycle!Stages]
        /\ row.digest = sub[s].digest /\ \A m \in told : m.sub = s
    BY <1>1, <1>2, JudgedType, JudgedDigest, VerdictIsOf DEF VInv
  <2>a. /\ sub' = [sub EXCEPT ![s] = row] /\ vjob' = [vjob EXCEPT ![s] = job]
        /\ attest' = [attest EXCEPT ![s] = evidence] /\ notices' = notices \cup told
        /\ review' = review /\ trusted' = trusted /\ edits' = edits
    BY <1>6 DEF Finish
  <2>b. ASSUME sub'[s] = row, vjob'[s] = job, attest'[s] = evidence, review'[s] = review[s],
               Told(s)' = Told(s) \cup told
        PROVE  Fine(s)
    <3>1. FALSE \in BOOLEAN /\ VTypeOK /\ At(s) /\ sub[s].status = "validating"
      BY <1>6 DEF VInv
    <3> QED BY <1>3, <2>b, <3>1, Settling
  <2> HIDE DEF row, job, evidence, told
  <2>1. VTypeOK'
    BY <1>1, <1>4, <2>0, <2>a DEF VInv, VTypeOK
  <2>2. /\ sub'[s] = row /\ vjob'[s] = job /\ attest'[s] = evidence
        /\ \A t \in Submissions \ {s} :
             sub'[t] = sub[t] /\ vjob'[t] = vjob[t] /\ attest'[t] = attest[t]
    BY <1>1, <2>a DEF VInv, VTypeOK
  <2>3. /\ Told(s)' = Told(s) \cup told
        /\ \A t \in Submissions \ {s} : Told(t)' = Told(t)
    BY <2>0, <2>a DEF Told
  <2>4. Fine(s)
    BY <2>a, <2>b, <2>2, <2>3
  <2>5. \A t \in Submissions \ {s} : Fine(t)
    <3> SUFFICES ASSUME NEW t \in Submissions \ {s} PROVE Fine(t)
      OBVIOUS
    <3>1. sub[t].status # "none" => sub[t].content \in Contents
      BY DEF VInv, At, Whole
    <3> QED BY <2>a, <2>2, <2>3, <3>1, Untouched DEF VInv
  <2>6. \A t \in Submissions : sub'[t].digest = sub[t].digest
    BY <2>0, <2>2
  <2>7. \A v \in Workers : Reported(v)'
    BY <1>4, <2>6, Undisturbed, AtRest
  <2>8. \A t \in Submissions : Fine(t)
    BY <2>4, <2>5
  <2> QED BY <2>1, <2>7, <2>8, Gather
<1> QED BY <1>1, <1>2, <1>5, <1>6 DEF Finish

\* A job somebody takes.
LEMMA TakenType ==
  ASSUME VInv, NEW s \in Submissions, s \notin Exhausted
  PROVE  LET job == [vjob[s] EXCEPT !.status = "running", !.live = TRUE,
                       !.attempts = vjob[s].attempts + 1, !.token = vjob[s].attempts + 1]
         IN  /\ job \in VJob /\ job.status = "running"
             /\ vjob[s].attempts + 1 \in 0 .. MaxAttempts
<1>1. vjob[s] \in VJob
  BY DEF VInv, VTypeOK
<1>2. vjob[s].attempts + 1 \in 0 .. MaxAttempts
  BY <1>1, LimitAssumption DEF VJob, Exhausted
<1> QED BY <1>1, <1>2 DEF VJob, ActiveJob

LEMMA ClaimKeeps ==
  ASSUME VInv, NEW w \in Workers, Claim(w)
  PROVE  Keeps
<1> DEFINE strays  == {s \in Submissions : sub[s].status # "validating"}
           settled == Exhausted \ strays
           taking  == Eligible \ (strays \cup Exhausted)
<1>1. PICK passed \in SUBSET (Eligible \ taking), pick \in taking \cup {None} :
       /\ sub'     = [s \in Submissions |->
                        IF s \in passed \cap settled THEN Judged(s, "technical", TRUE) ELSE sub[s]]
       /\ attest'  = [s \in Submissions |->
                        IF s \in passed \cap settled THEN Evidence(s, "technical", TRUE) ELSE attest[s]]
       /\ notices' = notices \cup UNION {Verdict(s, "technical", TRUE) : s \in passed \cap settled}
       /\ vjob'    = [s \in Submissions |->
            CASE s \in passed \cap settled -> Settled(s, "technical", TRUE)
              [] s \in passed \cap strays  -> [vjob[s] EXCEPT !.status = "cancelled", !.token = 0,
                                                             !.live = FALSE]
              [] s = pick -> [vjob[s] EXCEPT !.status = "running", !.live = TRUE,
                                !.attempts = vjob[s].attempts + 1, !.token = vjob[s].attempts + 1]
              [] OTHER    -> vjob[s]]
       /\ vwork'   = IF pick = None THEN vwork
                     ELSE [vwork EXCEPT ![w] = [Off EXCEPT !.pc = "claimed", !.sub = pick,
                                                  !.token = vjob[pick].attempts + 1]]
  BY DEF Claim
<1> DEFINE P == passed \cap settled
<1>2. /\ Eligible \cap strays = {} /\ passed \cap strays = {}
      /\ \A s \in Eligible : vjob[s].status \in ActiveJob /\ s \in Submissions
  BY DEF VInv, At, Match, Eligible, Waiting, Expired, ActiveJob
<1>3. /\ P \subseteq Submissions /\ pick \notin passed
      /\ \A s \in P : sub[s].status = "validating"
      /\ pick # None => pick \in Submissions /\ pick \notin Exhausted /\ sub[pick].status = "validating"
  BY <1>2, AdminAssumption DEF Exhausted, Eligible, Waiting
<1> DEFINE Row(s)   == Judged(s, "technical", TRUE)
           Done(s)  == Settled(s, "technical", TRUE)
           Proof(s) == Evidence(s, "technical", TRUE)
           News(s)  == Verdict(s, "technical", TRUE)
<1>4. \A s \in Submissions :
        /\ Row(s) \in Submission /\ Done(s) \in VJob
        /\ Proof(s) \in [status : Lifecycle!Stages, digest : Contents \cup {None}]
        /\ News(s) \subseteq [sub : Submissions, kind : NoticeKinds, n : 0 .. MaxAttempts,
                             event : Lifecycle!Stages]
        /\ Row(s).digest = sub[s].digest /\ \A m \in News(s) : m.sub = s
  <2>1. "technical" \in Reports /\ TRUE \in BOOLEAN
    BY DEF Reports
  <2> QED BY <2>1, JudgedType, JudgedDigest, VerdictIsOf DEF VInv
<1>a. ASSUME NEW s \in Submissions, sub[s].status = "validating",
             sub'[s] = Row(s), vjob'[s] = Done(s), attest'[s] = Proof(s),
             review'[s] = review[s], Told(s)' = Told(s) \cup News(s)
      PROVE  Fine(s)
  <2>1. "technical" \in Reports /\ TRUE \in BOOLEAN /\ "technical" # "clean"
    BY DEF Reports
  <2> QED BY <1>a, <2>1, Settling DEF VInv
<1>5. \A s \in P : sub'[s] = Row(s) /\ vjob'[s] = Done(s) /\ attest'[s] = Proof(s)
  BY <1>1, <1>3
<1>b. \A m : m \in notices' <=> m \in notices \/ \E s \in P : m \in News(s)
  BY <1>1
<1>6. \A s \in Submissions \ P : sub'[s] = sub[s] /\ attest'[s] = attest[s]
  BY <1>1
<1>7. pick # None =>
        vjob'[pick] = [vjob[pick] EXCEPT !.status = "running", !.live = TRUE,
                         !.attempts = vjob[pick].attempts + 1, !.token = vjob[pick].attempts + 1]
  BY <1>1, <1>3
<1>8. \A s \in Submissions \ P : s # pick => vjob'[s] = vjob[s]
  BY <1>1, <1>2
<1>9. pick # None => vjob'[pick] \in VJob /\ vjob'[pick].status = "running" /\ vjob[pick].attempts + 1 \in 0 .. MaxAttempts
  BY <1>3, <1>7, TakenType
<1> DEFINE Job(s) ==
             CASE s \in P -> Done(s)
               [] s \in passed \cap strays  -> [vjob[s] EXCEPT !.status = "cancelled", !.token = 0,
                                                              !.live = FALSE]
               [] s = pick -> [vjob[s] EXCEPT !.status = "running", !.live = TRUE,
                                 !.attempts = vjob[s].attempts + 1, !.token = vjob[s].attempts + 1]
               [] OTHER    -> vjob[s]
<1>d. /\ sub' = [s \in Submissions |-> IF s \in P THEN Row(s) ELSE sub[s]]
      /\ attest' = [s \in Submissions |-> IF s \in P THEN Proof(s) ELSE attest[s]]
      /\ vjob' = [s \in Submissions |-> Job(s)]
  BY <1>1
<1> HIDE DEF P, Row, Done, Proof, News, Job
<1>c. /\ sub' = [s \in Submissions |-> sub'[s]] /\ vjob' = [s \in Submissions |-> vjob'[s]]
      /\ attest' = [s \in Submissions |-> attest'[s]]
  BY <1>d
<1>10. vwork' \in [Workers -> VWork] /\ \A v \in Workers : Reported(v)'
  <2>1. \A s \in Submissions : sub'[s].digest = sub[s].digest
    BY <1>3, <1>4, <1>5, <1>6
  <2>2. CASE pick = None
    BY <1>1, <2>1, <2>2, Undisturbed DEF VInv, VTypeOK
  <2>3. CASE pick # None
    <3> DEFINE row == [Off EXCEPT !.pc = "claimed", !.sub = pick, !.token = vjob[pick].attempts + 1]
    <3>1. row \in VWork /\ row.pc = "claimed" /\ row.sub = pick
      BY <1>3, <1>9, <2>3 DEF Off, VWork
    <3>2. vwork' = [vwork EXCEPT ![w] = row]
      BY <1>1, <2>3
    <3> HIDE DEF row
    <3>3. Reported(w)'
      BY <1>3, <2>3, <3>1, <3>2 DEF Reported, VInv, VTypeOK
    <3>4. \A v \in Workers \ {w} : Reported(v)'
      BY <2>1, <3>2, Undisturbed DEF VInv, VTypeOK
    <3> QED BY <3>1, <3>2, <3>3, <3>4 DEF VInv, VTypeOK
  <2> QED BY <2>2, <2>3
<1>11. VTypeOK'
  <2>1. \A s \in Submissions :
          /\ sub'[s] \in Submission /\ vjob'[s] \in VJob
          /\ attest'[s] \in [status : Lifecycle!Stages, digest : Contents \cup {None}]
    <3> SUFFICES ASSUME NEW s \in Submissions
                 PROVE  /\ sub'[s] \in Submission /\ vjob'[s] \in VJob
                        /\ attest'[s] \in [status : Lifecycle!Stages, digest : Contents \cup {None}]
      OBVIOUS
    <3>1. CASE s \in P
      BY <1>4, <1>5, <3>1
    <3>2. CASE s \notin P
      BY <1>6, <1>8, <1>9, <3>2, AdminAssumption, RowTypes DEF VInv
    <3> QED BY <3>1, <3>2
  <2>2. notices' \subseteq [sub : Submissions, kind : NoticeKinds, n : 0 .. MaxAttempts,
                            event : Lifecycle!Stages]
    BY <1>3, <1>4, <1>b DEF VInv, VTypeOK
  <2>3. sub' \in [Submissions -> Submission] /\ vjob' \in [Submissions -> VJob]
        /\ attest' \in [Submissions -> [status : Lifecycle!Stages, digest : Contents \cup {None}]]
    BY <1>c, <2>1
  <2> QED BY <1>10, <2>2, <2>3 DEF VInv, VTypeOK, Claim
<1>12. \A t \in Submissions : Told(t)' = IF t \in P THEN Told(t) \cup News(t) ELSE Told(t)
  BY <1>3, <1>4, <1>b DEF Told
<1>13. review' = review
  BY DEF Claim
<1>14. \A s \in Submissions : Fine(s)
  <2> SUFFICES ASSUME NEW s \in Submissions PROVE Fine(s)
    OBVIOUS
  <2>1. CASE s \in P
    BY <1>3, <1>5, <1>12, <1>13, <1>a, <2>1
  <2>2. CASE s \notin P /\ s # pick
    <3>1. sub[s].status # "none" => sub[s].content \in Contents
      BY DEF VInv, At, Whole
    <3> QED BY <1>6, <1>8, <1>12, <1>13, <2>2, <3>1, Untouched DEF VInv
  <2>3. CASE s \notin P /\ s = pick
    <3>1. /\ sub'[s] = sub[s] /\ attest'[s] = attest[s] /\ Told(s)' = Told(s)
          /\ vjob'[s].status = "running" /\ sub[s].status = "validating"
          /\ vjob[s].status \in ActiveJob
      BY <1>2, <1>3, <1>6, <1>9, <1>12, <2>3, AdminAssumption
    <3>2. At(s)'
      BY <3>1 DEF VInv, At, Match, One, Recorded, Undecided, Whole, Sound, ActiveJob
    <3>3. Lifecycle!Stay(s) /\ Careful(s)
      BY <3>1 DEF Lifecycle!Stay, Careful
    <3> QED BY <3>2, <3>3 DEF Fine, Moves
  <2> QED BY <2>1, <2>2, <2>3
<1> QED BY <1>10, <1>11, <1>14, Gather

LEMMA DecideKeeps ==
  ASSUME VInv, NEW s \in Submissions, NEW a \in Sysadmins, NEW d \in Decisions, Decide(s, a, d)
  PROVE  Keeps
<1> DEFINE final == IF d = "approve" THEN "approved" ELSE "rejected"
           told  == Notice(s, d, 0, final)
           who   == IF d = "approve" THEN a ELSE None
           row   == [sub[s] EXCEPT !.status = final, !.approver = who]
<1>1. /\ sub[s] \in Submission /\ sub[s].digest \in Contents \cup {None}
      /\ sub[s].digest # None /\ sub[s].content = sub[s].digest
      /\ sub[s].status \in {"ready_for_review", "needs_changes", "validation_failed"}
      /\ vjob[s].status \in {"succeeded", "failed"}
      /\ d = "approve" => Approvable(s)
  <2>1. sub[s] \in Submission /\ sub[s].digest \in Contents \cup {None}
    BY RowTypes DEF VInv, Submission
  <2> QED BY <2>1 DEF Decide, Intact
<1>2. /\ sub' = [sub EXCEPT ![s] = row] /\ notices' = notices \cup {told}
      /\ review' = [review EXCEPT ![s] = [decision |-> d, digest |-> sub[s].digest, by |-> a]]
      /\ UNCHANGED <<vjob, attest, trusted, vwork, edits>>
  <2>1. sub' = [sub EXCEPT ![s] = [sub[s] EXCEPT !.status = final, !.approver = who]]
    BY DEF Decide
  <2> QED BY <2>1 DEF Decide
<1>3. /\ row \in Submission /\ row.status = final /\ row.approver = who
      /\ row.digest = sub[s].digest /\ row.content = sub[s].content /\ row.passed = sub[s].passed
  BY <1>1, StagesAre DEF Submission
<1>4. /\ told \in [sub : Submissions, kind : NoticeKinds, n : 0 .. MaxAttempts,
                   event : Lifecycle!Stages]
      /\ told.sub = s /\ told.kind = d
  <2>1. /\ d \in NoticeKinds /\ 0 \in 0 .. MaxAttempts /\ final \in Lifecycle!Stages
    BY StagesAre, LimitAssumption DEF Decisions, NoticeKinds
  <2>2. told.sub = s /\ told.kind = d
    BY DEF Notice
  <2> HIDE DEF final
  <2> QED BY <2>1, <2>2, NoticeType
<1>5. d = "approve" => told = Notice(s, "approve", 0, "approved")
  OBVIOUS
<1>6. final \in {"approved", "rejected"} /\ (final = "approved" <=> d = "approve")
  OBVIOUS
<1>7. d = "approve" => who = a
  OBVIOUS
<1> HIDE DEF row, told, final, who
<1>8. VTypeOK'
  <2>1. [decision |-> d, digest |-> sub[s].digest, by |-> a] \in
          [decision : {"none", "approve", "reject"}, digest : Contents \cup {None},
           by : Sysadmins \cup {None}]
    BY <1>1 DEF Decisions
  <2> QED BY <1>2, <1>3, <1>4, <2>1 DEF VInv, VTypeOK
<1>9. /\ sub'[s] = row /\ review'[s] = [decision |-> d, digest |-> sub[s].digest, by |-> a]
      /\ \A t \in Submissions \ {s} : sub'[t] = sub[t] /\ review'[t] = review[t]
  BY <1>2 DEF VInv, VTypeOK
<1>10. /\ Told(s)' = Told(s) \cup {told}
       /\ \A t \in Submissions \ {s} : Told(t)' = Told(t)
  BY <1>2, <1>4 DEF Told
<1>11. Fine(s)
  <2>1. Match(s)' /\ Whole(s)' /\ Undecided(s)'
    BY <1>1, <1>2, <1>3, <1>6, <1>9
       DEF VInv, At, Match, Whole, Undecided, ActiveJob, Concluded, Accepted
  <2>2. One(s)'
    BY <1>2, <1>4, <1>10 DEF VInv, At, One, Decisions
  <2>3. Recorded(s)'
    <3>1. \A m \in Told(s) : m.kind \notin Decisions
      BY <1>1 DEF VInv, At, Undecided, Concluded, Accepted
    <3>2. {m \in Told(s)' : m.kind \in Decisions} = {told}
      BY <1>4, <1>10, <3>1
    <3>3. d = "approve" =>
            /\ attest[s] = [status |-> "ready_for_review", digest |-> sub[s].digest]
            /\ sub[s].passed /\ vjob[s].status = "succeeded"
      BY <1>1 DEF Approvable
    <3> QED BY <1>2, <1>3, <1>5, <1>6, <1>7, <1>9, <3>2, <3>3 DEF Recorded
  <2>4. d = "approve" => sub[s].status = "ready_for_review" /\ sub[s].digest \in Good
    BY <1>1 DEF Approvable, VInv, At, Sound, Accepted
  <2>5. Sound(s)' /\ Careful(s)
    BY <1>1, <1>3, <1>6, <1>9, <2>4 DEF Sound, Careful, Accepted
  <2>6. Lifecycle!Advance(s)
    BY <1>1, <1>3, <1>6, <1>9, <2>4 DEF Lifecycle!Advance, Lifecycle!After
  <2> QED BY <2>1, <2>2, <2>3, <2>5, <2>6 DEF Fine, At, Moves
<1>12. \A t \in Submissions \ {s} : Fine(t)
  <2> SUFFICES ASSUME NEW t \in Submissions \ {s} PROVE Fine(t)
    OBVIOUS
  <2>1. sub[t].status # "none" => sub[t].content \in Contents
    BY DEF VInv, At, Whole
  <2> QED BY <1>2, <1>9, <1>10, <2>1, Untouched DEF VInv
<1>13. \A w \in Workers : Reported(w)'
  BY <1>2, <1>3, <1>9, Undisturbed
<1>14. \A t \in Submissions : Fine(t)
  BY <1>11, <1>12
<1> QED BY <1>8, <1>13, <1>14, Gather

-----------------------------------------------------------------------------
LEMMA VInitHolds == VInit => VInv
<1> SUFFICES ASSUME VInit PROVE VInv
  OBVIOUS
<1>1. Blank \in Submission /\ NoJob \in VJob /\ Off \in VWork
  BY StagesAre, LimitAssumption, OffType DEF Blank, NoJob, Submission, VJob
<1>2. /\ NoAttest \in [status : Lifecycle!Stages, digest : Contents \cup {None}]
      /\ NoReview \in [decision : {"none", "approve", "reject"},
                       digest : Contents \cup {None}, by : Sysadmins \cup {None}]
  BY StagesAre DEF NoAttest, NoReview
<1>3. VTypeOK
  BY <1>1, <1>2, LimitAssumption DEF VInit, VTypeOK
<1>4. \A s \in Submissions : At(s)
  <2> SUFFICES ASSUME NEW s \in Submissions PROVE At(s)
    OBVIOUS
  <2>1. sub[s].status = "none" /\ sub[s].digest = None /\ vjob[s].status = "none" /\ Told(s) = {}
    BY DEF VInit, Blank, NoJob, Told
  <2> QED BY <2>1 DEF At, Match, One, Recorded, Undecided, Whole, Sound, ActiveJob, Accepted
<1>5. \A w \in Workers : Reported(w)
  BY DEF VInit, Off, Reported
<1> QED BY <1>3, <1>4, <1>5 DEF VInv

LEMMA VNextKeeps == VInv /\ VNext => Keeps
<1> SUFFICES ASSUME VInv, VNext PROVE Keeps
  OBVIOUS
<1>1. CASE Author
  <2>1. CASE \E s \in Submissions, c \in Contents : Create(s, c) \/ EditDraft(s, c) \/ Tamper(s, c)
    BY <2>1, CreateKeeps, EditKeeps, TamperKeeps
  <2>2. CASE \E s \in Submissions : Submit(s)
    BY <2>2, SubmitKeeps
  <2>3. CASE \E s, old \in Submissions : Revise(old, s)
    BY <2>3, ReviseKeeps
  <2> QED BY <1>1, <2>1, <2>2, <2>3 DEF Author
<1>2. CASE Admin
  BY <1>2, SetRoleKeeps, DecideKeeps DEF Admin, Decisions
<1>3. ASSUME NEW w \in Workers, VWorker(w) PROVE Keeps
  BY <1>3, ClaimKeeps, InspectKeeps, FinishKeeps, HeartbeatFailsKeeps, CrashKeeps DEF VWorker
<1>4. ASSUME NEW s \in Submissions, Expire(s) PROVE Keeps
  BY <1>4, ExpireKeeps
<1> QED BY <1>1, <1>2, <1>3, <1>4 DEF VNext

LEMMA VStutters == VInv /\ UNCHANGED vvars => Keeps
<1> SUFFICES ASSUME VInv, UNCHANGED vvars PROVE Keeps
  OBVIOUS
<1>1. VTypeOK'
  BY DEF VInv, VTypeOK, vvars
<1>2. \A w \in Workers : Reported(w)'
  BY Undisturbed DEF vvars
<1> QED BY <1>1, <1>2, Aside DEF vvars

\* The types, and for each submission and worker what At and Reported say.
THEOREM VInvariant == VSpec => []VInv
<1>1. VInv /\ [VNext]_vvars => VInv'
  BY VNextKeeps, VStutters DEF Keeps
<1> QED BY VInitHolds, <1>1, PTL DEF VSpec

\* Every variable of the upload pipeline keeps its type, and no job is
\* attempted beyond max_attempts.
THEOREM VTyped == VSpec => []VTypeOK
BY VInvariant, PTL DEF VInv

\* A submission waits for a verdict exactly while a worker will come for it.
THEOREM ValidationHasJob == VSpec => []JobsMatch
<1>1. VInv => JobsMatch
  BY DEF VInv, At, Match, JobsMatch
<1> QED BY VInvariant, <1>1, PTL

\* However often a job is tried, and whoever settles it, its author hears of
\* one verdict: the one on record.
THEOREM OneVerdictEach == VSpec => []OneVerdict
<1>1. ASSUME VInv PROVE OneVerdict
  <2> SUFFICES ASSUME NEW s \in Submissions PROVE
        LET told == {m \in notices : m.sub = s /\ m.kind = "verdict"} IN
        IF vjob[s].status \in {"succeeded", "failed"}
        THEN told = {Notice(s, "verdict", 0, attest[s].status)} ELSE told = {}
    BY DEF OneVerdict
  <2>1. {m \in notices : m.sub = s /\ m.kind = "verdict"} = {m \in Told(s) : m.kind = "verdict"}
    BY DEF Told
  <2> QED BY <1>1, <2>1 DEF VInv, At, One
<1> QED BY VInvariant, <1>1, PTL

\* No late worker overwrites what an approval rests on, and its author hears
\* of it once.
THEOREM ApprovalsStay == VSpec => []ApprovalOnRecord
<1>1. ASSUME VInv PROVE ApprovalOnRecord
  <2> SUFFICES ASSUME NEW s \in Submissions PROVE sub[s].status = "approved" =>
        /\ review[s] = [decision |-> "approve", digest |-> sub[s].digest, by |-> sub[s].approver]
        /\ attest[s] = [status |-> "ready_for_review", digest |-> sub[s].digest]
        /\ sub[s].passed /\ vjob[s].status = "succeeded"
        /\ {m \in notices : m.sub = s /\ m.kind \in {"approve", "reject"}}
             = {Notice(s, "approve", 0, "approved")}
    BY DEF ApprovalOnRecord
  <2>1. {m \in notices : m.sub = s /\ m.kind \in {"approve", "reject"}}
          = {m \in Told(s) : m.kind \in Decisions}
    BY DEF Told, Decisions
  <2> QED BY <1>1, <2>1 DEF VInv, At, Recorded
<1> QED BY VInvariant, <1>1, PTL

\* The verdict, and the approval, are about the content that was frozen,
\* whatever happened to the rows while the checks ran.
THEOREM JudgedIsFrozen == VSpec => JudgedAsFrozen
<1>1. VInv /\ [VNext]_vvars =>
        [\A s \in Submissions :
           sub'[s].status # sub[s].status /\ sub'[s].status \in {"ready_for_review", "approved"}
             => sub[s].content = sub[s].digest /\ sub[s].content \in Good]_vvars
  BY VNextKeeps DEF Keeps, Careful
<1> QED BY VInvariant, <1>1, PTL DEF VSpec, JudgedAsFrozen

\* The transactions of authors, workers and administrators together implement
\* the pipeline: each moves a submission along it, or leaves it where it is.
THEOREM ImplementsLifecycle == VSpec => LifecycleRefines
<1>1. VInit => Lifecycle!Init
  BY DEF VInit, Lifecycle!Init, Blank
<1>2. VInv /\ [VNext]_vvars =>
        [Lifecycle!Next]_<<[s \in Submissions |-> sub[s].status], [s \in Submissions |-> sub[s].digest]>>
  <2>1. ASSUME VInv, Keeps PROVE Lifecycle!Next
    <3>1. /\ [s \in Submissions |-> sub[s].status]' \in [Submissions -> Lifecycle!Stages]
          /\ [s \in Submissions |-> sub[s].digest]' \in [Submissions -> Contents \cup {None}]
      BY <2>1 DEF Keeps, VInv, VTypeOK, Submission
    <3> QED BY <2>1, <3>1 DEF Keeps, Moves, Lifecycle!Next
  <2>2. VInv /\ UNCHANGED vvars =>
          UNCHANGED <<[s \in Submissions |-> sub[s].status], [s \in Submissions |-> sub[s].digest]>>
    BY DEF vvars
  <2> QED BY <2>1, <2>2, VNextKeeps
<1> QED BY VInvariant, <1>1, <1>2, PTL DEF VSpec, LifecycleRefines, Lifecycle!Spec
=============================================================================
