---------------------------- MODULE Publication ----------------------------
(***************************************************************************)
(* From approval to the live catalogue.                                    *)
(*                                                                         *)
(* An administrator queues an approved submission; a publication worker,   *)
(* a ValidationWorker with the same lease, plans a VM template for each    *)
(* role, has the deployment's adapter prepare and test them, keeping a     *)
(* journal of what may exist on the hypervisor, and commits the challenge. *)
(* A failed import keeps its journal and is retried by hand, or returned   *)
(* to the author.                                                          *)
(*                                                                         *)
(*   pjob       the publication job of each submission, with its journal   *)
(*   catalogue  the VMIDs in vm_templates, and what put each there: the    *)
(*              publication of a submission, or the register_template      *)
(*              command, which staff run at any time (by = None)           *)
(*   live       the content each published challenge was made from         *)
(*   pwork      the publication worker processes                           *)
(***************************************************************************)
EXTENDS Validation

CONSTANTS
  RolesOf,     \* [Contents -> SUBSET Roles]: the VM roles of a manifest
  Vmids,       \* VMIDs the adapter may plan
  Registrable, \* those of them that staff may register as templates
  Publishers   \* publication worker processes

Roles == UNION {RolesOf[c] : c \in Contents}

ASSUME PublicationAssumption ==
  /\ \A c \in Contents : c \in DOMAIN RolesOf
  /\ Registrable \subseteq Vmids

VARIABLES pjob, catalogue, live, pwork
pvars == <<pjob, catalogue, live, pwork>>
vars  == <<vvars, pvars>>

NoPublish == [status |-> "none", attempts |-> 0, token |-> 0, live |-> FALSE, journal |-> {}]
Resting   == [pc |-> "idle", sub |-> None, token |-> 0, seen |-> None, approver |-> None,
              lost |-> FALSE]

Planned(journal) == {e.vmid : e \in journal}
Assigned         == {t.vmid : t \in catalogue}

\* The rows of vm_templates with these VMIDs that belong to s, or to staff.
Templates(vmids, s) == {[vmid |-> v, by |-> s] : v \in vmids}

Init ==
  /\ VInit
  /\ pjob      = [s \in Submissions |-> NoPublish]
  /\ catalogue = {}
  /\ live      = [s \in Submissions |-> None]
  /\ pwork     = [w \in Publishers |-> Resting]

-----------------------------------------------------------------------------
(* The administrator.                                                      *)

\* _approval(): the approver still holds the role, the rows are the frozen
\* content, and the last review is this approval of it.
Approval(s) ==
  /\ sub[s].approver \in trusted
  /\ sub[s].content = sub[s].digest
  /\ review[s] = [decision |-> "approve", digest |-> sub[s].digest, by |-> sub[s].approver]

MayQueue(s) ==
  \/ sub[s].status = "approved" /\ pjob[s] = NoPublish
  \/ /\ sub[s].status = "import_failed"
     /\ pjob[s].status = "failed" /\ pjob[s].attempts < MaxAttempts

SlipNotImporting(s) == sub
Queued(s) == [sub EXCEPT ![s].status = "importing"]

\* A repeated request finds the job and changes nothing. A retry keeps the
\* job, its attempts and its journal.
Enqueue(s, a) ==
  /\ a \in trusted
  /\ Approval(s)
  /\ MayQueue(s)
  /\ pjob' = [pjob EXCEPT ![s].status = "queued"]
  /\ sub'  = Queued(s)
  /\ UNCHANGED <<vjob, attest, review, notices, trusted, vwork, edits, catalogue, live, pwork>>

SlipReturnable(s) == sub[s].status \in {"approved", "import_failed"}
Returnable(s) == sub[s].status = "import_failed" /\ pjob[s].status = "failed"

ReturnForCorrection(s, a) ==
  /\ a \in trusted
  /\ Returnable(s)
  /\ Fresh(s, "returned", 0)
  /\ sub'     = [sub EXCEPT ![s].status = "rejected", ![s].approver = None]
  /\ notices' = notices \cup {Notice(s, "returned", 0, "rejected")}
  /\ UNCHANGED <<vjob, attest, review, trusted, vwork, edits, pvars>>

-----------------------------------------------------------------------------
(* The publication worker.                                                 *)

Owns(w) == LET s == pwork[w].sub IN
  pjob[s].status = "running" /\ pjob[s].live /\ pjob[s].token = pwork[w].token

\* _fail(), as part of a transaction: the notice's key has the attempt in
\* it, and the transaction is undone if that key is taken.
SlipFailKey(s)  == 0
FailKey(s)      == pjob[s].attempts
SlipFailedRow(s) == sub[s]
FailedRow(s)    == [sub[s] EXCEPT !.status = "import_failed"]
FailedJob(s)    == [pjob[s] EXCEPT !.status = "failed", !.token = 0, !.live = FALSE]
FailNotice(s)   == Notice(s, "failed", FailKey(s), "import_failed")
CanFail(s)      == Fresh(s, "failed", FailKey(s))

\* claim(): fail every import whose lease ran out, then look at a queued
\* job, if there is one: cancel it, fail it, or take it.
PClaim(w) ==
  LET dead   == {s \in Submissions : Expired(pjob[s]) /\ sub[s].status = "importing"}
      queued == {s \in Submissions : pjob[s].status = "queued"}
  IN
  /\ pwork[w] = Resting
  /\ dead \cup queued # {}
  /\ \E pick \in queued \cup {None} :
       LET stray  == pick # None /\ sub[pick].status # "importing"
           failed == dead \cup {s \in {pick} \cap Submissions :
                                  ~stray /\ pjob[s].attempts >= MaxAttempts}
           taken  == {pick} \cap {s \in Submissions : ~stray /\ s \notin failed}
       IN
       /\ pick = None <=> queued = {}
       /\ \A s \in failed : CanFail(s)
       /\ sub'     = [s \in Submissions |-> IF s \in failed THEN FailedRow(s) ELSE sub[s]]
       /\ notices' = notices \cup {FailNotice(s) : s \in failed}
       /\ pjob'    = [s \in Submissions |->
            CASE s \in failed -> FailedJob(s)
              [] s \in taken  -> [pjob[s] EXCEPT !.status = "running", !.live = TRUE,
                                    !.attempts = pjob[s].attempts + 1, !.token = pjob[s].attempts + 1]
              [] stray /\ s = pick -> [pjob[s] EXCEPT !.status = "cancelled"]
              [] OTHER -> pjob[s]]
       /\ pwork'   = IF taken = {} THEN pwork
                     ELSE [pwork EXCEPT ![w] = [Resting EXCEPT !.pc = "claimed", !.sub = pick,
                                                  !.token = pjob[pick].attempts + 1]]
  /\ UNCHANGED <<vjob, attest, review, trusted, vwork, edits, catalogue, live>>

Rest(w)     == pwork' = [pwork EXCEPT ![w] = Resting]
PGoto(w, l) == pwork' = [pwork EXCEPT ![w].pc = l]
Unwritten   == UNCHANGED <<vvars, pjob, catalogue, live>>

\* Read the approved rows and validate them again. The checks may fail on
\* any content, for want of a service; they pass only on a good one.
ReadApproval(w) ==
  /\ pwork[w].pc = "claimed"
  /\ LET s == pwork[w].sub IN
     IF ~Owns(w) THEN Rest(w)
     ELSE \/ PGoto(w, "stopped")
          \/ /\ Approval(s) /\ sub[s].content \in Good
             /\ pwork' = [pwork EXCEPT ![w].seen = sub[s].content, ![w].approver = sub[s].approver,
                            ![w].pc = IF RolesOf[sub[s].content] = {} THEN "prepared" ELSE "plan"]
  /\ Unwritten

\* The plans the adapter may come up with: a VMID of its own for each role.
Plans(c) == {{[role |-> r, vmid |-> f[r], ready |-> FALSE] : r \in RolesOf[c]} :
               f \in {g \in [RolesOf[c] -> Vmids] : \A q, r \in RolesOf[c] : g[q] = g[r] => q = r}}

\* No live template and no other publication record has one of its VMIDs.
Unclaimed(s, plan) ==
  /\ Planned(plan) \cap Assigned = {}
  /\ \A t \in Submissions \ {s} : Planned(plan) \cap Planned(pjob[t].journal) = {}

SlipNoJournal(s) == FALSE
HasJournal(s)    == pjob[s].journal # {}

\* An earlier attempt's journal is taken up as it stands; else a new plan is
\* written down before anything is made on the hypervisor.
Journal(w) ==
  /\ pwork[w].pc = "plan"
  /\ LET s == pwork[w].sub IN
     IF ~Owns(w) THEN Rest(w) /\ UNCHANGED pjob
     ELSE IF HasJournal(s) THEN PGoto(w, "prepare") /\ UNCHANGED pjob
     ELSE \/ PGoto(w, "stopped") /\ UNCHANGED pjob     \* the adapter cannot plan
          \/ \E plan \in Plans(pwork[w].seen) :
               IF Unclaimed(s, plan)
               THEN /\ pjob' = [pjob EXCEPT ![s].journal = plan]
                    /\ PGoto(w, "prepare")
               ELSE PGoto(w, "stopped") /\ UNCHANGED pjob
  /\ UNCHANGED <<vvars, catalogue, live>>

\* The adapter, at work on the hypervisor, records how far a role has come:
\* 'ready', or one of the states short of that.
Checkpoint(w, e, ready) ==
  /\ pwork[w].pc = "prepare"
  /\ LET s == pwork[w].sub IN
     /\ e \in pjob[s].journal
     /\ IF Owns(w)
        THEN /\ pjob' = [pjob EXCEPT ![s].journal = (@ \ {e}) \cup {[e EXCEPT !.ready = ready]}]
             /\ UNCHANGED pwork
        ELSE Rest(w) /\ UNCHANGED pjob
  /\ UNCHANGED <<vvars, catalogue, live>>

\* prepare() and ready() report success, or fail; then guard() asks again
\* whether the claim still holds.
AdapterReturns(w) ==
  /\ pwork[w].pc = "prepare"
  /\ IF Owns(w) /\ sub[pwork[w].sub].status = "importing"
     THEN PGoto(w, "prepared") \/ PGoto(w, "stopped")
     ELSE Rest(w)
  /\ Unwritten

PHeartbeatFails(w) ==
  /\ pwork[w].pc = "prepared"
  /\ pwork' = [pwork EXCEPT ![w].lost = TRUE]
  /\ Unwritten

SlipStillApproved(w) == sub[pwork[w].sub].status = "importing"

\* What _commit_live() asks of the rows, besides the claim.
StillApproved(w) ==
  LET s == pwork[w].sub IN
  /\ sub[s].status = "importing"
  /\ Approval(s)
  /\ sub[s].content = pwork[w].seen /\ sub[s].approver = pwork[w].approver

SlipReady(w) ==
  LET journal == pjob[pwork[w].sub].journal IN
  /\ Cardinality(journal) = Cardinality(RolesOf[pwork[w].seen])
  /\ \A e \in journal : e.ready

\* Every planned machine is there, and staff registered none of their VMIDs
\* since the plan was made.
ResourcesReady(w) ==
  LET journal == pjob[pwork[w].sub].journal IN
  /\ Cardinality(journal) = Cardinality(RolesOf[pwork[w].seen])
  /\ \A e \in journal : e.ready
  /\ Planned(journal) \cap Assigned = {}

\* Validate once more; then, in one transaction, the challenge, its
\* templates, the status, the job, the notice.
Commit(w) ==
  /\ pwork[w].pc = "prepared"
  /\ LET s == pwork[w].sub IN
     \/ PGoto(w, "stopped") /\ UNCHANGED <<sub, pjob, notices, catalogue, live>>
     \/ /\ pwork[w].lost \/ ~Owns(w)
        /\ Rest(w) /\ UNCHANGED <<sub, pjob, notices, catalogue, live>>
     \/ /\ ~pwork[w].lost /\ Owns(w)
        /\ StillApproved(w) /\ ResourcesReady(w) /\ Fresh(s, "published", 0)
        /\ sub'       = [sub EXCEPT ![s].status = "published"]
        /\ pjob'      = [pjob EXCEPT ![s].status = "succeeded", ![s].token = 0, ![s].live = FALSE]
        /\ notices'   = notices \cup {Notice(s, "published", 0, "published")}
        /\ catalogue' = catalogue \cup Templates(Planned(pjob[s].journal), s)
        /\ live'      = [live EXCEPT ![s] = pwork[w].seen]
        /\ Rest(w)
  /\ UNCHANGED <<vjob, attest, review, trusted, vwork, edits>>

\* The handler of every other exception: the import failed, if the claim is
\* still the worker's.
Stop(w) ==
  /\ pwork[w].pc = "stopped"
  /\ LET s == pwork[w].sub IN
     IF Owns(w) /\ sub[s].status = "importing" /\ CanFail(s)
     THEN /\ sub'     = [sub EXCEPT ![s] = FailedRow(s)]
          /\ pjob'    = [pjob EXCEPT ![s] = FailedJob(s)]
          /\ notices' = notices \cup {FailNotice(s)}
     ELSE UNCHANGED <<sub, pjob, notices>>
  /\ Rest(w)
  /\ UNCHANGED <<vjob, attest, review, trusted, vwork, edits, catalogue, live>>

PCrash(w) ==
  /\ pwork[w].pc # "idle"
  /\ Rest(w)
  /\ Unwritten

PExpire(s) ==
  /\ pjob[s].live
  /\ pjob' = [pjob EXCEPT ![s].live = FALSE]
  /\ UNCHANGED <<vvars, catalogue, live, pwork>>

-----------------------------------------------------------------------------
\* The register_template command: metadata of a template that is on the
\* hypervisor already. A VMID that is registered changes nothing.
Register(v) ==
  /\ v \notin Assigned
  /\ catalogue' = catalogue \cup Templates({v}, None)
  /\ UNCHANGED <<vvars, pjob, live, pwork>>

-----------------------------------------------------------------------------
Publisher(w) ==
  \/ PClaim(w) \/ ReadApproval(w) \/ Journal(w) \/ AdapterReturns(w)
  \/ \E s \in Submissions : \E e \in pjob[s].journal, ready \in BOOLEAN : Checkpoint(w, e, ready)
  \/ Commit(w) \/ Stop(w) \/ PHeartbeatFails(w) \/ PCrash(w)

Publishing ==
  \/ \E a \in Sysadmins, s \in Submissions : Enqueue(s, a) \/ ReturnForCorrection(s, a)
  \/ \E w \in Publishers : Publisher(w)
  \/ \E s \in Submissions : PExpire(s)
  \/ \E v \in Registrable : Register(v)

Next == (VNext /\ UNCHANGED pvars) \/ Publishing

\* As for validation: the command is run again and again, the adapter's
\* calls return, and a lease nobody renews runs out.
Fairness ==
  /\ WF_vars(\E w \in Publishers : PClaim(w))
  /\ \A w \in Publishers :
       WF_vars(ReadApproval(w) \/ Journal(w) \/ AdapterReturns(w) \/ Commit(w) \/ Stop(w))
  /\ \A s \in Submissions : WF_vars(PExpire(s))

Spec == Init /\ [][Next]_vars /\ Fairness

-----------------------------------------------------------------------------
Entry == [role : Roles, vmid : Vmids, ready : BOOLEAN]
PJob  == [status : {"none", "queued", "running", "succeeded", "failed"},
          attempts : 0 .. MaxAttempts, token : 0 .. MaxAttempts, live : BOOLEAN,
          journal : SUBSET Entry]
PWork == [pc : {"idle", "claimed", "plan", "prepare", "prepared", "stopped"},
          sub : Submissions \cup {None}, token : 0 .. MaxAttempts,
          seen : Contents \cup {None}, approver : Sysadmins \cup {None}, lost : BOOLEAN]

\* Every variable keeps its type; no import is attempted beyond the limit.
TypeOK ==
  /\ VTypeOK
  /\ pjob      \in [Submissions -> PJob]
  /\ catalogue \subseteq [vmid : Vmids, by : Submissions \cup {None}]
  /\ live      \in [Submissions -> Contents \cup {None}]
  /\ pwork     \in [Publishers -> PWork]

\* A submission is being imported exactly while it has a publication job
\* that will be worked on: none is left behind without a worker to come.
ImportHasJob ==
  \A s \in Submissions : sub[s].status = "importing" <=> pjob[s].status \in {"queued", "running"}

\* One VMID, one owner, though staff may register any VMID at any moment: no
\* two journals plan the same one, no two templates have the same one, and the
\* templates made for a submission are its plan's, once it is published.
VmidExclusive ==
  /\ \A t, u \in catalogue : t.vmid = u.vmid => t = u
  /\ \A s \in Submissions :
       LET planned == Planned(pjob[s].journal) IN
       /\ \A t \in Submissions \ {s} : planned \cap Planned(pjob[t].journal) = {}
       /\ {t \in catalogue : t.by = s}
            = IF sub[s].status = "published" THEN Templates(planned, s) ELSE {}

\* What an attempt may have made on the hypervisor is never forgotten: once
\* planned, the roles and VMIDs of a journal stay.
JournalKept ==
  [][\A s \in Submissions :
       {<<e.role, e.vmid>> : e \in pjob[s].journal}
         \subseteq {<<e.role, e.vmid>> : e \in pjob'[s].journal}]_vars

\* Every step, of workers of either kind, keeps to the stages of the pipeline
\* and to the content that was frozen.
StagesKept == [][Lifecycle!Next]_vars

\* What goes live is what was frozen, found good and approved: by someone
\* who is an administrator at that moment, with every machine ready.
PublishedAsApproved ==
  [][\A s \in Submissions : sub[s].status # "published" /\ sub'[s].status = "published" =>
       /\ live'[s] = sub[s].digest /\ sub[s].content = sub[s].digest /\ live'[s] \in Good
       /\ sub[s].approver \in trusted
       /\ {e.role : e \in {d \in pjob[s].journal : d.ready}} = RolesOf[live'[s]]]_vars

\* An import ends, published or failed, whatever workers die or stall.
PublicationEnds ==
  \A s \in Submissions : sub[s].status = "importing" ~> sub[s].status # "importing"
=============================================================================
