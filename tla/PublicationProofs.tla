-------------------------- MODULE PublicationProofs --------------------------
(***************************************************************************)
(* Proofs about Publication, together with the validation it extends, for  *)
(* every number of submissions, workers, administrators and VMIDs: types,  *)
(* a job for exactly the submissions being imported, VMIDs that belong to  *)
(* one publication, journals that are never forgotten, and that what goes  *)
(* live is what was frozen, found good and approved.                       *)
(*                                                                         *)
(* The invariant adds to the one of ValidationProofs what a journal and a  *)
(* worker know: a journal names all the roles of the frozen content, or is *)
(* empty, and a worker past the reading of the approval works on it.       *)
(***************************************************************************)
EXTENDS Publication, ValidationProofs

RolesIn(s) == {e.role : e \in pjob[s].journal}

Import(s)  == sub[s].status = "importing" <=> pjob[s].status \in {"queued", "running"}
Complete(s) == RolesIn(s) # {} => sub[s].digest \in Contents /\ RolesIn(s) = RolesOf[sub[s].digest]

\* The VMIDs of s are its own, and the templates made for it are its plan's.
Own(s) ==
  LET planned == Planned(pjob[s].journal) IN
  /\ \A t \in Submissions \ {s} : planned \cap Planned(pjob[t].journal) = {}
  /\ {t \in catalogue : t.by = s}
       = IF sub[s].status = "published" THEN Templates(planned, s) ELSE {}

PAt(s) == Import(s) /\ Complete(s) /\ Own(s)

\* What the worker whose row is r is doing.
Doing(r) ==
  /\ r.pc # "idle" => r.sub \in Submissions
  /\ r.pc \in {"plan", "prepare", "prepared"} =>
       r.seen \in Contents /\ r.seen = sub[r.sub].digest
  /\ r.pc = "plan"     => RolesOf[r.seen] # {}
  /\ r.pc = "prepare"  => RolesIn(r.sub) # {}
  /\ r.pc = "prepared" => RolesIn(r.sub) = RolesOf[r.seen]

\* Types, and that no two templates have the same VMID.
PTypes == /\ pjob      \in [Submissions -> PJob]
          /\ catalogue \subseteq [vmid : Vmids, by : Submissions \cup {None}]
          /\ \A t, u \in catalogue : t.vmid = u.vmid => t = u
          /\ live      \in [Submissions -> Contents \cup {None}]
          /\ pwork     \in [Publishers -> PWork]

IInv == /\ VInv /\ PTypes
        /\ \A s \in Submissions : PAt(s)
        /\ \A w \in Publishers : Doing(pwork[w])

\* What no step may do to a journal, or put into the catalogue.
Grows(s) == {<<e.role, e.vmid>> : e \in pjob[s].journal}
              \subseteq {<<e.role, e.vmid>> : e \in pjob'[s].journal}
Released(s) ==
  sub[s].status # "published" /\ sub'[s].status = "published" =>
    /\ live'[s] = sub[s].digest /\ sub[s].content = sub[s].digest /\ live'[s] \in Good
    /\ sub[s].approver \in trusted
    /\ {e.role : e \in {d \in pjob[s].journal : d.ready}} = RolesOf[live'[s]]

PKeeps == IInv' /\ Keeps /\ \A s \in Submissions : Grows(s) /\ Released(s)

-----------------------------------------------------------------------------
(* Workers.                                                                *)

LEMMA RestingType ==
  Resting \in PWork /\ (Doing(Resting) /\ Doing(Resting)')
BY LimitAssumption DEF Resting, PWork, Doing

\* Nothing disturbs a worker as long as digests stand and journals, once
\* complete, keep their roles.
LEMMA DoingStands ==
  ASSUME IInv, NEW w \in Publishers,
         \A s \in Submissions : sub[s].digest # None => sub'[s].digest = sub[s].digest,
         \A s \in Submissions : \/ RolesIn(s)' = RolesIn(s)
                                \/ RolesIn(s) = {} /\ RolesIn(s)' = RolesOf[sub[s].digest],
         pwork'[w] = pwork[w]
  PROVE  Doing(pwork[w])'
<1> DEFINE r == pwork[w]
<1>1. Doing(r)
  BY DEF IInv
<1>2. CASE r.pc \notin {"plan", "prepare", "prepared"}
  BY <1>1, <1>2 DEF Doing
<1>3. CASE r.pc \in {"plan", "prepare", "prepared"}
  <2>1. PICK s \in Submissions : s = r.sub
    BY <1>1, <1>3 DEF Doing
  <2>2. /\ r.seen \in Contents /\ r.seen = sub[s].digest /\ sub'[s].digest = r.seen
    BY <1>1, <1>3, <2>1, ContentAssumption DEF Doing
  <2>3. \/ RolesIn(s)' = RolesIn(s)
        \/ RolesIn(s) = {} /\ RolesIn(s)' = RolesOf[r.seen]
    BY <2>2
  <2>4. /\ r.pc = "plan"     => RolesOf[r.seen] # {}
        /\ r.pc = "prepare"  => RolesIn(s) # {}
        /\ r.pc = "prepared" => RolesIn(s) = RolesOf[r.seen]
    BY <1>1, <2>1 DEF Doing
  <2>5. /\ r.pc = "prepare"  => RolesIn(s)' # {}
        /\ r.pc = "prepared" => RolesIn(s)' = RolesOf[r.seen]
    BY <2>3, <2>4
  <2> HIDE DEF r
  <2>6. pwork'[w] = r
    BY DEF r
  <2>7. Doing(pwork[w])' <=>
          /\ r.pc # "idle" => r.sub \in Submissions
          /\ r.pc \in {"plan", "prepare", "prepared"} =>
               r.seen \in Contents /\ r.seen = sub'[r.sub].digest
          /\ r.pc = "plan"     => RolesOf[r.seen] # {}
          /\ r.pc = "prepare"  => {e.role : e \in pjob'[r.sub].journal} # {}
          /\ r.pc = "prepared" => {e.role : e \in pjob'[r.sub].journal} = RolesOf[r.seen]
    BY <2>6 DEF Doing, RolesIn
  <2> QED BY <2>1, <2>2, <2>4, <2>5, <2>7 DEF RolesIn
<1> QED BY <1>2, <1>3

\* A worker goes on by itself.
LEMMA Local ==
  ASSUME IInv, NEW w \in Publishers, Unwritten, NEW row \in PWork, Doing(row),
         pwork' = [pwork EXCEPT ![w] = row]
  PROVE  PKeeps
<1>1. UNCHANGED vvars /\ UNCHANGED <<pjob, catalogue, live>>
  BY DEF Unwritten
<1>2. Keeps
  BY <1>1, VStutters DEF IInv
<1>3. sub' = sub /\ pwork'[w] = row /\ \A v \in Publishers \ {w} : pwork'[v] = pwork[v]
  BY <1>1 DEF vvars, IInv, PTypes
<1>4. \A s \in Submissions : RolesIn(s)' = RolesIn(s)
  BY <1>1 DEF RolesIn
<1>5. \A v \in Publishers \ {w} : Doing(pwork[v])'
  BY <1>3, <1>4, DoingStands
<1>6. Doing(pwork[w])'
  BY <1>1, <1>3 DEF Doing, RolesIn
<1>7. \A s \in Submissions : PAt(s)' /\ Grows(s) /\ Released(s)
  BY <1>1, <1>3 DEF IInv, PAt, Import, Complete, Own, RolesIn, Grows, Released
<1>8. PTypes'
  BY <1>1 DEF IInv, PTypes
<1> QED BY <1>2, <1>5, <1>6, <1>7, <1>8 DEF PKeeps, Keeps, IInv

LEMMA GotoLocal ==
  ASSUME IInv, NEW w \in Publishers, Unwritten, pwork[w].pc # "idle",
         PGoto(w, "stopped") \/ Rest(w)
  PROVE  PKeeps
<1>1. CASE Rest(w)
  BY <1>1, RestingType, Local DEF Rest
<1>2. CASE PGoto(w, "stopped")
  <2> DEFINE row == [pwork[w] EXCEPT !.pc = "stopped"]
  <2>1. pwork[w] \in PWork /\ pwork[w].sub \in Submissions
    BY DEF IInv, PTypes, Doing
  <2>2. row \in PWork /\ row.pc = "stopped" /\ row.sub = pwork[w].sub
    BY <2>1 DEF PWork
  <2>3. pwork' = [pwork EXCEPT ![w] = row]
    BY <1>2 DEF PGoto
  <2> HIDE DEF row
  <2>4. Doing(row)
    BY <2>1, <2>2 DEF Doing
  <2> QED BY <2>2, <2>3, <2>4, Local
<1> QED BY <1>1, <1>2

LEMMA PCrashKeeps ==
  ASSUME IInv, NEW w \in Publishers, PCrash(w)
  PROVE  PKeeps
BY GotoLocal DEF PCrash

LEMMA PHeartbeatFailsKeeps ==
  ASSUME IInv, NEW w \in Publishers, PHeartbeatFails(w)
  PROVE  PKeeps
<1> DEFINE row == [pwork[w] EXCEPT !.lost = TRUE]
<1>1. pwork[w] \in PWork /\ pwork[w].pc = "prepared"
  BY DEF IInv, PTypes, PHeartbeatFails
<1>2. /\ row \in PWork /\ row.pc = pwork[w].pc /\ row.sub = pwork[w].sub /\ row.seen = pwork[w].seen
  BY <1>1 DEF PWork
<1>3. pwork' = [pwork EXCEPT ![w] = row] /\ Unwritten
  BY DEF PHeartbeatFails
<1> HIDE DEF row
<1>4. Doing(row)
  BY <1>2 DEF IInv, Doing
<1> QED BY <1>2, <1>3, <1>4, Local

LEMMA ReadApprovalKeeps ==
  ASSUME IInv, NEW w \in Publishers, ReadApproval(w)
  PROVE  PKeeps
<1>1. PICK s \in Submissions : s = pwork[w].sub
  BY DEF IInv, Doing, ReadApproval
<1>2. /\ pwork[w] \in PWork /\ sub[s] \in Submission /\ pwork[w].pc = "claimed" /\ Unwritten
      /\ PAt(s) /\ sub[s].content \in Contents \cup {None} /\ sub[s].approver \in Sysadmins \cup {None}
  <2>1. sub[s] \in Submission
    BY RowTypes DEF IInv, VInv
  <2> QED BY <2>1 DEF IInv, PTypes, ReadApproval, Submission
<1>3. CASE Rest(w) \/ PGoto(w, "stopped")
  BY <1>2, <1>3, GotoLocal
<1>4. CASE /\ Approval(s) /\ sub[s].content \in Good
           /\ pwork' = [pwork EXCEPT ![w].seen = sub[s].content, ![w].approver = sub[s].approver,
                            ![w].pc = IF RolesOf[sub[s].content] = {} THEN "prepared" ELSE "plan"]
  <2> DEFINE pc  == IF RolesOf[sub[s].content] = {} THEN "prepared" ELSE "plan"
             row == [pwork[w] EXCEPT !.seen = sub[s].content, !.approver = sub[s].approver, !.pc = pc]
  <2>1. pc \in {"prepared", "plan"} /\ (pc = "prepared" <=> RolesOf[sub[s].content] = {})
    OBVIOUS
  <2> HIDE DEF pc
  <2>2. row \in PWork /\ row.pc = pc /\ row.seen = sub[s].content /\ row.sub = s
    BY <1>1, <1>2, <2>1 DEF PWork
  <2>3. pwork' = [pwork EXCEPT ![w] = row]
    BY <1>4 DEF pc
  <2> HIDE DEF row
  <2>4. sub[s].content = sub[s].digest /\ sub[s].content \in Contents
    BY <1>4, ContentAssumption DEF Approval
  <2>5. pc = "prepared" => RolesIn(s) = {}
    BY <1>2, <2>1, <2>4 DEF PAt, Complete
  <2>6. Doing(row)
    BY <2>1, <2>2, <2>4, <2>5 DEF Doing
  <2> QED BY <1>2, <2>2, <2>3, <2>6, Local
<1> QED BY <1>1, <1>3, <1>4 DEF ReadApproval

LEMMA JournalRoles ==
  ASSUME NEW s
  PROVE  RolesIn(s) = {} <=> pjob[s].journal = {}
BY DEF RolesIn

LEMMA AdapterReturnsKeeps ==
  ASSUME IInv, NEW w \in Publishers, AdapterReturns(w)
  PROVE  PKeeps
<1>1. CASE Rest(w) \/ PGoto(w, "stopped")
  BY <1>1, GotoLocal DEF AdapterReturns
<1>2. CASE PGoto(w, "prepared")
  <2> DEFINE row == [pwork[w] EXCEPT !.pc = "prepared"]
  <2>1. pwork[w] \in PWork /\ pwork[w].pc = "prepare" /\ Doing(pwork[w]) /\ Unwritten
    BY DEF IInv, PTypes, AdapterReturns
  <2>2. row \in PWork /\ row.pc = "prepared" /\ row.sub = pwork[w].sub /\ row.seen = pwork[w].seen
    BY <2>1 DEF PWork
  <2>3. pwork' = [pwork EXCEPT ![w] = row]
    BY <1>2 DEF PGoto
  <2> HIDE DEF row
  <2>4. RolesIn(pwork[w].sub) = RolesOf[pwork[w].seen]
    BY <2>1 DEF Doing, IInv, PAt, Complete
  <2>5. Doing(row)
    BY <2>1, <2>2, <2>4 DEF Doing
  <2> QED BY <2>1, <2>2, <2>3, <2>5, Local
<1> QED BY <1>1, <1>2 DEF AdapterReturns

-----------------------------------------------------------------------------
(* Journals.                                                               *)

\* The journal of s changes: new entries are VMIDs of its own.
LEMMA Jotted ==
  ASSUME IInv, NEW s \in Submissions, UNCHANGED <<vvars, catalogue, live>>,
         NEW job \in PJob, pjob' = [pjob EXCEPT ![s] = job],
         job.status = pjob[s].status,
         \/ {e.role : e \in job.journal} = RolesIn(s)
         \/ /\ RolesIn(s) = {} /\ sub[s].digest \in Contents
            /\ {e.role : e \in job.journal} = RolesOf[sub[s].digest],
         Grows(s),
         \/ Planned(job.journal) = Planned(pjob[s].journal)
         \/ Unclaimed(s, job.journal) /\ sub[s].status # "published",
         pwork' \in [Publishers -> PWork],
         \A v \in Publishers : pwork'[v] = pwork[v] \/ Doing(pwork[v])'
  PROVE  PKeeps
<1>1. Keeps
  BY VStutters DEF IInv
<1>2. /\ sub' = sub /\ pjob'[s] = job /\ \A t \in Submissions \ {s} : pjob'[t] = pjob[t]
      /\ pjob' \in [Submissions -> PJob]
  BY DEF vvars, IInv, PTypes
<1>3. PTypes'
  BY <1>2 DEF IInv, PTypes
<1>4. \A t \in Submissions : \/ RolesIn(t)' = RolesIn(t)
                             \/ RolesIn(t) = {} /\ RolesIn(t)' = RolesOf[sub[t].digest]
  BY <1>2 DEF RolesIn
<1>5. \A v \in Publishers : Doing(pwork[v])'
  BY <1>2, <1>4, DoingStands
<1>6. \A t \in Submissions : Import(t)' /\ Complete(t)'
  <2>1. \A t \in Submissions : Import(t)'
    BY <1>2 DEF IInv, PAt, Import
  <2>2. \A t \in Submissions \ {s} : Complete(t)'
    BY <1>2 DEF IInv, PAt, Complete, RolesIn
  <2>3. RolesIn(s)' = {e.role : e \in job.journal} /\ Complete(s)
    BY <1>2 DEF RolesIn, IInv, PAt
  <2>4. Complete(s)'
    BY <1>2, <2>3 DEF Complete
  <2> QED BY <2>1, <2>2, <2>4
<1>7. \A t \in Submissions : Own(t)'
  <2> SUFFICES ASSUME NEW t \in Submissions PROVE Own(t)'
    OBVIOUS
  <2>1. \A u \in Submissions : Own(u)
    BY DEF IInv, PAt
  <2>2. CASE Planned(job.journal) = Planned(pjob[s].journal)
    <3>1. \A u \in Submissions : Planned(pjob'[u].journal) = Planned(pjob[u].journal)
      BY <1>2, <2>2
    <3> QED BY <1>2, <2>1, <3>1 DEF Own
  <2>3. CASE Unclaimed(s, job.journal) /\ sub[s].status # "published"
    <3>1. \A u \in Submissions \ {s} : Planned(pjob'[u].journal) = Planned(pjob[u].journal)
      BY <1>2
    <3>2. \A u \in Submissions \ {s} :
            Planned(job.journal) \cap Planned(pjob[u].journal) = {}
      BY <2>3 DEF Unclaimed
    <3>3. catalogue' = catalogue /\ sub' = sub /\ Planned(pjob'[s].journal) = Planned(job.journal)
      BY <1>2
    <3>4. CASE t = s
      BY <2>1, <2>3, <3>1, <3>2, <3>3, <3>4 DEF Own
    <3>5. CASE t # s
      <4>1. \A u \in Submissions \ {t} :
              Planned(pjob'[t].journal) \cap Planned(pjob'[u].journal) = {}
        BY <2>1, <3>1, <3>2, <3>3, <3>5 DEF Own
      <4> QED BY <2>1, <3>1, <3>3, <3>5, <4>1 DEF Own
    <3> QED BY <3>4, <3>5
  <2> QED BY <2>2, <2>3
<1>8. \A t \in Submissions : Grows(t) /\ Released(t)
  BY <1>2 DEF Grows, Released
<1> QED BY <1>1, <1>3, <1>5, <1>6, <1>7, <1>8 DEF PKeeps, Keeps, IInv, PAt

LEMMA PExpireKeeps ==
  ASSUME IInv, NEW s \in Submissions, PExpire(s)
  PROVE  PKeeps
<1> DEFINE job == [pjob[s] EXCEPT !.live = FALSE]
<1>1. pjob[s] \in PJob
  BY DEF IInv, PTypes
<1>2. job \in PJob /\ job.status = pjob[s].status /\ job.journal = pjob[s].journal
  BY <1>1 DEF PJob
<1>3. pjob' = [pjob EXCEPT ![s] = job]
  BY DEF PExpire
<1> HIDE DEF job
<1>4. Grows(s)
  BY <1>2, <1>3 DEF Grows, IInv, PTypes
<1> QED BY <1>2, <1>3, <1>4, Jotted DEF PExpire, RolesIn, IInv, PTypes

LEMMA CheckpointKeeps ==
  ASSUME IInv, NEW w \in Publishers, NEW s \in Submissions, NEW e \in pjob[s].journal,
         NEW ready \in BOOLEAN, Checkpoint(w, e, ready)
  PROVE  PKeeps
<1>1. PICK t \in Submissions : t = pwork[w].sub
  BY DEF IInv, Doing, Checkpoint
<1>2. CASE Rest(w) /\ UNCHANGED pjob
  BY <1>2, GotoLocal DEF Checkpoint, Unwritten
<1>3. CASE /\ pjob' = [pjob EXCEPT ![t].journal = (@ \ {e}) \cup {[e EXCEPT !.ready = ready]}]
           /\ UNCHANGED pwork
  <2> DEFINE f   == [e EXCEPT !.ready = ready]
             jo  == (pjob[t].journal \ {e}) \cup {f}
             job == [pjob[t] EXCEPT !.journal = jo]
  <2>1. pjob[t] \in PJob /\ e \in pjob[t].journal /\ e \in Entry /\ pjob[t].journal \subseteq Entry
    BY <1>1 DEF IInv, PTypes, Checkpoint, PJob
  <2>2. f \in Entry /\ f.role = e.role /\ f.vmid = e.vmid
    BY <2>1 DEF Entry
  <2>3. pjob' = [pjob EXCEPT ![t] = job]
    BY <1>3
  <2> HIDE DEF f
  <2>4. jo \subseteq Entry
    BY <2>1, <2>2
  <2>5. /\ {d.role : d \in jo} = RolesIn(t) /\ Planned(jo) = Planned(pjob[t].journal)
        /\ {<<d.role, d.vmid>> : d \in pjob[t].journal} \subseteq {<<d.role, d.vmid>> : d \in jo}
    BY <2>1, <2>2 DEF RolesIn, Planned
  <2> HIDE DEF jo
  <2>6. job \in PJob /\ job.status = pjob[t].status /\ job.journal = jo
    BY <2>1, <2>4 DEF PJob
  <2> HIDE DEF job
  <2>7. pjob'[t] = job
    BY <2>3 DEF IInv, PTypes
  <2>8. Grows(t)
    BY <2>5, <2>6, <2>7 DEF Grows
  <2> QED BY <1>3, <2>3, <2>5, <2>6, <2>8, Jotted DEF Checkpoint, IInv, PTypes
<1> QED BY <1>1, <1>2, <1>3 DEF Checkpoint

LEMMA PlanTypes ==
  ASSUME NEW c \in Contents, NEW plan \in Plans(c)
  PROVE  plan \subseteq Entry /\ {e.role : e \in plan} = RolesOf[c]
<1>1. PICK f \in [RolesOf[c] -> Vmids] : plan = {[role |-> r, vmid |-> f[r], ready |-> FALSE] : r \in RolesOf[c]}
  BY DEF Plans
<1>2. RolesOf[c] \subseteq Roles
  BY DEF Roles
<1>3. \A e : e \in plan <=> \E r \in RolesOf[c] : e = [role |-> r, vmid |-> f[r], ready |-> FALSE]
  BY <1>1
<1>4. \A r \in RolesOf[c] : [role |-> r, vmid |-> f[r], ready |-> FALSE] \in Entry
  BY <1>2 DEF Entry
<1>5. plan \subseteq Entry
  BY <1>3, <1>4
<1>6. {e.role : e \in plan} = RolesOf[c]
  <2>1. \A e \in plan : e.role \in RolesOf[c]
    BY <1>3
  <2>2. ASSUME NEW r \in RolesOf[c] PROVE \E e \in plan : e.role = r
    <3> DEFINE e == [role |-> r, vmid |-> f[r], ready |-> FALSE]
    <3>1. e \in plan
      BY <1>1
    <3>2. e.role = r
      OBVIOUS
    <3> QED BY <3>1, <3>2
  <2> QED BY <2>1, <2>2
<1> QED BY <1>5, <1>6

LEMMA JournalKeeps ==
  ASSUME IInv, NEW w \in Publishers, Journal(w)
  PROVE  PKeeps
<1>1. PICK s \in Submissions : s = pwork[w].sub
  BY DEF IInv, Doing, Journal
<1>2. /\ pwork[w] \in PWork /\ pjob[s] \in PJob /\ pwork[w].pc = "plan" /\ PAt(s)
      /\ pwork[w].seen \in Contents /\ pwork[w].seen = sub[s].digest /\ RolesOf[pwork[w].seen] # {}
  BY <1>1 DEF IInv, PTypes, Journal, Doing
<1> DEFINE row == [pwork[w] EXCEPT !.pc = "prepare"]
<1>3. row \in PWork /\ row.pc = "prepare" /\ row.sub = s /\ row.seen = pwork[w].seen
  BY <1>1, <1>2 DEF PWork
<1>4. PGoto(w, "prepare") => pwork' = [pwork EXCEPT ![w] = row]
  BY DEF PGoto
<1> HIDE DEF row
<1>5. CASE (Rest(w) \/ PGoto(w, "stopped")) /\ UNCHANGED pjob
  BY <1>2, <1>5, GotoLocal DEF Journal, Unwritten
<1>6. CASE HasJournal(s) /\ PGoto(w, "prepare") /\ UNCHANGED pjob
  <2>1. RolesIn(s) # {}
    BY <1>6, JournalRoles DEF HasJournal
  <2>2. Doing(row)
    BY <1>2, <1>3, <2>1 DEF Doing
  <2> QED BY <1>3, <1>4, <1>6, <2>2, Local DEF Journal, Unwritten
<1>7. ASSUME Owns(w), ~HasJournal(s), NEW plan \in Plans(pwork[w].seen), Unclaimed(s, plan),
             pjob' = [pjob EXCEPT ![s].journal = plan], PGoto(w, "prepare")
      PROVE  PKeeps
  <2> DEFINE job == [pjob[s] EXCEPT !.journal = plan]
  <2>1. plan \subseteq Entry /\ {e.role : e \in plan} = RolesOf[sub[s].digest]
    BY <1>2, <1>7, PlanTypes
  <2>2. job \in PJob /\ job.status = pjob[s].status /\ job.journal = plan
    BY <1>2, <2>1 DEF PJob
  <2>3. pjob' = [pjob EXCEPT ![s] = job]
    BY <1>7
  <2> HIDE DEF job
  <2>4. RolesIn(s) = {} /\ pjob[s].journal = {}
    BY <1>7, JournalRoles DEF HasJournal
  <2>5. Grows(s)
    BY <2>4 DEF Grows
  <2>10. sub[s].digest \in Contents
    BY <1>2
  <2>6. pwork'[w] = row /\ (\A v \in Publishers \ {w} : pwork'[v] = pwork[v])
        /\ pwork' \in [Publishers -> PWork]
    BY <1>3, <1>4, <1>7 DEF IInv, PTypes
  <2>7. UNCHANGED <<vvars, catalogue, live>> /\ sub' = sub /\ pjob'[s] = job
    BY <2>3 DEF Journal, vvars, IInv, PTypes
  <2>8. RolesIn(s)' = RolesOf[row.seen] /\ RolesIn(s)' # {}
    BY <1>2, <1>3, <2>1, <2>2, <2>7 DEF RolesIn
  <2>9. Doing(pwork[w])'
    BY <1>2, <1>3, <2>6, <2>7, <2>8 DEF Doing, RolesIn
  <2>11. sub[s].status # "published"
    BY <1>1, <1>2, <1>7 DEF Owns, PAt, Import
  <2> QED BY <1>7, <2>1, <2>2, <2>3, <2>4, <2>5, <2>6, <2>7, <2>9, <2>10, <2>11, Jotted
<1> QED BY <1>1, <1>5, <1>6, <1>7 DEF Journal

-----------------------------------------------------------------------------
(* Stages.                                                                 *)

Imports == {"approved", "importing", "import_failed"}

\* A submission goes on from its approval; what its author hears is no verdict.
LEMMA Onward ==
  ASSUME VInv, NEW s \in Submissions, sub[s].status \in Imports,
         sub'[s].status \in Lifecycle!After(sub[s].status),
         sub'[s].digest = sub[s].digest, sub'[s].content = sub[s].content,
         vjob'[s] = vjob[s], attest'[s] = attest[s],
         NEW N, \A m \in N : m.kind # "verdict", Told(s)' = Told(s) \cup N
  PROVE  Fine(s)
<1>1. sub'[s].status \in {"importing", "published", "import_failed", "rejected"}
  BY DEF Imports, Lifecycle!After
<1>2. sub'[s].digest \in Good
  BY DEF VInv, At, Sound, Imports, Accepted
<1>3. Match(s)' /\ One(s)' /\ Recorded(s)' /\ Undecided(s)' /\ Whole(s)' /\ Sound(s)'
  BY <1>1, <1>2
     DEF VInv, At, Match, One, Recorded, Undecided, Whole, Sound, Imports, Concluded, Accepted
<1>4. Moves(s) /\ Careful(s)
  BY <1>1, <1>2 DEF Moves, Careful, Lifecycle!Advance
<1> QED BY <1>3, <1>4 DEF Fine, At

LEMMA Beside ==
  ASSUME VInv, NEW s \in Submissions, sub'[s] = sub[s], vjob'[s] = vjob[s],
         attest'[s] = attest[s], review'[s] = review[s], Told(s)' = Told(s)
  PROVE  Fine(s)
<1>1. sub[s].status # "none" => sub[s].content \in Contents
  BY DEF VInv, At, Whole
<1> QED BY <1>1, Untouched DEF VInv

\* The publisher's transactions leave validation as it is.
LEMMA Through ==
  ASSUME IInv, UNCHANGED <<vjob, attest, review, trusted, vwork, edits>>,
         sub' \in [Submissions -> Submission],
         notices' \subseteq [sub : Submissions, kind : NoticeKinds, n : 0 .. MaxAttempts,
                             event : Lifecycle!Stages],
         \A s \in Submissions : sub'[s].digest = sub[s].digest,
         \A s \in Submissions : Fine(s),
         PTypes', \A s \in Submissions : PAt(s)' /\ Grows(s) /\ Released(s),
         \A w \in Publishers : Doing(pwork[w])'
  PROVE  PKeeps
<1>1. VTypeOK'
  BY DEF IInv, VInv, VTypeOK
<1>2. \A w \in Workers : Reported(w)'
  BY Undisturbed DEF IInv
<1>3. Keeps
  BY <1>1, <1>2, Gather
<1> QED BY <1>3 DEF PKeeps, Keeps, IInv

LEMMA EnqueueKeeps ==
  ASSUME IInv, NEW s \in Submissions, NEW a \in Sysadmins, Enqueue(s, a)
  PROVE  PKeeps
<1> DEFINE row == [sub[s] EXCEPT !.status = "importing"]
           job == [pjob[s] EXCEPT !.status = "queued"]
<1>1. sub[s] \in Submission /\ pjob[s] \in PJob /\ sub[s].status \in {"approved", "import_failed"}
  BY DEF IInv, VInv, VTypeOK, PTypes, Enqueue, MayQueue
<1>2. /\ row \in Submission /\ row.status = "importing" /\ row.digest = sub[s].digest
      /\ row.content = sub[s].content
      /\ job \in PJob /\ job.status = "queued" /\ job.journal = pjob[s].journal
  BY <1>1, StagesAre DEF Submission, PJob
<1>3. sub' = [sub EXCEPT ![s] = row] /\ pjob' = [pjob EXCEPT ![s] = job]
  BY DEF Enqueue, Queued
<1> HIDE DEF row, job
<1>4. /\ sub'[s] = row /\ pjob'[s] = job /\ sub' \in [Submissions -> Submission]
      /\ \A t \in Submissions \ {s} : sub'[t] = sub[t] /\ pjob'[t] = pjob[t]
      /\ pjob' \in [Submissions -> PJob]
  BY <1>2, <1>3 DEF IInv, VInv, VTypeOK, PTypes
<1>5. /\ notices' \subseteq [sub : Submissions, kind : NoticeKinds, n : 0 .. MaxAttempts,
                             event : Lifecycle!Stages]
      /\ \A t \in Submissions : Told(t)' = Told(t)
  BY DEF Enqueue, IInv, VInv, VTypeOK, Told
<1>6. \A t \in Submissions : Fine(t)
  <2>1. row.status \in Lifecycle!After(sub[s].status)
    BY <1>1, <1>2 DEF Lifecycle!After
  <2> DEFINE none == {}
  <2>2. Told(s)' = Told(s) \cup none /\ \A m \in none : m.kind # "verdict"
    BY <1>5
  <2>3. /\ VInv /\ sub[s].status \in Imports /\ vjob'[s] = vjob[s] /\ attest'[s] = attest[s]
        /\ sub'[s].status \in Lifecycle!After(sub[s].status)
        /\ sub'[s].digest = sub[s].digest /\ sub'[s].content = sub[s].content
    BY <1>1, <1>2, <1>4, <2>1 DEF IInv, Enqueue, Imports
  <2> HIDE DEF none
  <2>5. Fine(s)
    BY <2>2, <2>3, Onward
  <2>4. \A t \in Submissions \ {s} : Fine(t)
    BY <1>4, <1>5, Beside DEF IInv, Enqueue
  <2> QED BY <2>4, <2>5
<1>7. PTypes'
  BY <1>4 DEF Enqueue, IInv, PTypes
<1>8. \A t \in Submissions : pjob'[t].journal = pjob[t].journal /\ sub'[t].digest = sub[t].digest
  BY <1>2, <1>4
<1>9. \A t \in Submissions : Complete(t)' /\ Grows(t) /\ RolesIn(t)' = RolesIn(t)
  BY <1>8 DEF IInv, PAt, Complete, RolesIn, Grows
<1>10. \A t \in Submissions : Import(t)'
  BY <1>2, <1>4 DEF IInv, PAt, Import
<1>11. \A t \in Submissions : Own(t)' /\ Released(t)
  BY <1>1, <1>2, <1>4, <1>8 DEF IInv, PAt, Own, Released, Enqueue
<1>12. \A w \in Publishers : Doing(pwork[w])'
  BY <1>8, <1>9, DoingStands DEF Enqueue
<1> QED BY <1>4, <1>5, <1>6, <1>7, <1>8, <1>9, <1>10, <1>11, <1>12, Through DEF PAt, Enqueue

LEMMA ReturnKeeps ==
  ASSUME IInv, NEW s \in Submissions, NEW a \in Sysadmins, ReturnForCorrection(s, a)
  PROVE  PKeeps
<1> DEFINE row  == [sub[s] EXCEPT !.status = "rejected", !.approver = None]
           told == Notice(s, "returned", 0, "rejected")
<1>1. sub[s] \in Submission /\ sub[s].status = "import_failed"
  BY DEF IInv, VInv, VTypeOK, ReturnForCorrection, Returnable
<1>2. /\ row \in Submission /\ row.status = "rejected" /\ row.digest = sub[s].digest
      /\ row.content = sub[s].content
  BY <1>1, StagesAre DEF Submission
<1>3. /\ told \in [sub : Submissions, kind : NoticeKinds, n : 0 .. MaxAttempts, event : Lifecycle!Stages]
      /\ told.sub = s /\ told.kind = "returned"
  BY StagesAre, NoticeType, LimitAssumption DEF NoticeKinds, Notice
<1>4. /\ sub' = [sub EXCEPT ![s] = row] /\ notices' = notices \cup {told}
      /\ UNCHANGED <<vjob, attest, review, trusted, vwork, edits>>
      /\ UNCHANGED <<pjob, catalogue, live, pwork>>
  BY DEF ReturnForCorrection, pvars
<1> HIDE DEF row, told
<1>5. /\ sub'[s] = row /\ sub' \in [Submissions -> Submission]
      /\ \A t \in Submissions \ {s} : sub'[t] = sub[t]
  BY <1>2, <1>4 DEF IInv, VInv, VTypeOK
<1>6. /\ notices' \subseteq [sub : Submissions, kind : NoticeKinds, n : 0 .. MaxAttempts,
                             event : Lifecycle!Stages]
      /\ Told(s)' = Told(s) \cup {told}
      /\ \A t \in Submissions \ {s} : Told(t)' = Told(t)
  BY <1>3, <1>4 DEF IInv, VInv, VTypeOK, Told
<1>7. \A t \in Submissions : Fine(t)
  <2>1. row.status \in Lifecycle!After(sub[s].status)
    BY <1>1, <1>2 DEF Lifecycle!After
  <2>2. \A m \in {told} : m.kind # "verdict"
    BY <1>3
  <2>3. Fine(s)
    BY <1>1, <1>2, <1>4, <1>5, <1>6, <2>1, <2>2, Onward DEF IInv, Imports
  <2>4. \A t \in Submissions \ {s} : Fine(t)
    BY <1>4, <1>5, <1>6, Beside DEF IInv
  <2> QED BY <2>3, <2>4
<1>8. PTypes'
  BY <1>4 DEF IInv, PTypes
<1>9. \A t \in Submissions : sub'[t].digest = sub[t].digest
  BY <1>2, <1>5
<1>10. \A t \in Submissions : Complete(t)' /\ Grows(t) /\ RolesIn(t)' = RolesIn(t)
  BY <1>4, <1>9 DEF IInv, PAt, Complete, RolesIn, Grows
<1>11. \A t \in Submissions : Import(t)' /\ Own(t)' /\ Released(t)
  BY <1>1, <1>2, <1>4, <1>5 DEF IInv, PAt, Import, Own, Released
<1>12. \A w \in Publishers : Doing(pwork[w])'
  BY <1>4, <1>9, <1>10, DoingStands
<1> QED BY <1>4, <1>5, <1>6, <1>7, <1>8, <1>9, <1>10, <1>11, <1>12, Through DEF PAt

LEMMA FailedTypes ==
  ASSUME IInv, NEW s \in Submissions
  PROVE  /\ FailedRow(s) \in Submission /\ FailedRow(s).status = "import_failed"
         /\ FailedRow(s).digest = sub[s].digest /\ FailedRow(s).content = sub[s].content
         /\ FailedJob(s) \in PJob /\ FailedJob(s).status = "failed"
         /\ FailedJob(s).journal = pjob[s].journal
         /\ FailNotice(s) \in [sub : Submissions, kind : NoticeKinds, n : 0 .. MaxAttempts,
                              event : Lifecycle!Stages]
         /\ FailNotice(s).sub = s /\ FailNotice(s).kind = "failed"
<1>1. sub[s] \in Submission /\ pjob[s] \in PJob
  BY DEF IInv, VInv, VTypeOK, PTypes
<1>2. /\ FailedRow(s) \in Submission /\ FailedRow(s).status = "import_failed"
      /\ FailedRow(s).digest = sub[s].digest /\ FailedRow(s).content = sub[s].content
  BY <1>1, StagesAre DEF FailedRow, Submission
<1>3. /\ FailedJob(s) \in PJob /\ FailedJob(s).status = "failed"
      /\ FailedJob(s).journal = pjob[s].journal
  <2>1. 0 \in 0 .. MaxAttempts
    BY LimitAssumption
  <2>2. FailedJob(s) \in PJob
    BY <1>1, <2>1 DEF FailedJob, PJob
  <2> QED BY <1>1, <2>2 DEF FailedJob, PJob
<1>4. FailKey(s) \in 0 .. MaxAttempts
  BY <1>1 DEF FailKey, PJob
<1>5. /\ FailNotice(s) \in [sub : Submissions, kind : NoticeKinds, n : 0 .. MaxAttempts,
                           event : Lifecycle!Stages]
      /\ FailNotice(s).sub = s /\ FailNotice(s).kind = "failed"
  BY <1>4, StagesAre DEF FailNotice, Notice, NoticeKinds
<1> QED BY <1>2, <1>3, <1>5

\* The imports F fail, in one transaction.
LEMMA Failing ==
  ASSUME IInv, NEW F \in SUBSET {s \in Submissions : sub[s].status = "importing"},
         sub' = [s \in Submissions |-> IF s \in F THEN FailedRow(s) ELSE sub[s]],
         notices' = notices \cup {FailNotice(s) : s \in F},
         pjob' \in [Submissions -> PJob],
         \A s \in F : pjob'[s].status = "failed",
         \A s \in Submissions \ F : pjob'[s].status \in {"queued", "running"}
                                      <=> pjob[s].status \in {"queued", "running"},
         \A s \in Submissions : pjob'[s].journal = pjob[s].journal,
         UNCHANGED <<vjob, attest, review, trusted, vwork, edits, catalogue, live>>,
         pwork' \in [Publishers -> PWork],
         \A w \in Publishers : pwork'[w] = pwork[w] \/ Doing(pwork[w])'
  PROVE  PKeeps
<1>1. \A s \in F : s \in Submissions /\ sub[s].status = "importing" /\ sub'[s] = FailedRow(s)
  OBVIOUS
<1>2. \A s \in Submissions \ F : sub'[s] = sub[s]
  OBVIOUS
<1>3. \A s \in Submissions : sub[s] \in Submission
  BY DEF IInv, VInv, VTypeOK
<1>4. sub' \in [Submissions -> Submission]
  BY <1>3, FailedTypes
<1>5. /\ notices' \subseteq [sub : Submissions, kind : NoticeKinds, n : 0 .. MaxAttempts,
                             event : Lifecycle!Stages]
      /\ \A t \in F : Told(t)' = Told(t) \cup {FailNotice(t)}
      /\ \A t \in Submissions \ F : Told(t)' = Told(t)
  <2>1. \A m : m \in notices' <=> m \in notices \/ \E t \in F : m = FailNotice(t)
    OBVIOUS
  <2>2. \A t \in F : /\ FailNotice(t) \in [sub : Submissions, kind : NoticeKinds, n : 0 .. MaxAttempts,
                                           event : Lifecycle!Stages]
                     /\ FailNotice(t).sub = t
    BY <1>1, FailedTypes
  <2> QED BY <1>1, <2>1, <2>2 DEF IInv, VInv, VTypeOK, Told
<1>6. \A t \in Submissions : Fine(t)
  <2> SUFFICES ASSUME NEW t \in Submissions PROVE Fine(t)
    OBVIOUS
  <2>1. CASE t \in F
    <3>1. /\ VInv /\ sub[t].status \in Imports /\ vjob'[t] = vjob[t] /\ attest'[t] = attest[t]
          /\ sub'[t].digest = sub[t].digest /\ sub'[t].content = sub[t].content
          /\ sub'[t].status = "import_failed" /\ sub[t].status = "importing"
      BY <1>1, <2>1, FailedTypes DEF IInv, Imports
    <3>2. sub'[t].status \in Lifecycle!After(sub[t].status)
      BY <3>1 DEF Lifecycle!After
    <3> DEFINE N == {FailNotice(t)}
    <3>3. \A m \in N : m.kind # "verdict"
      BY FailedTypes
    <3>4. Told(t)' = Told(t) \cup N
      BY <1>5, <2>1
    <3> HIDE DEF N
    <3> QED BY <3>1, <3>2, <3>3, <3>4, Onward
  <2>2. CASE t \notin F
    BY <1>2, <1>5, <2>2, Beside DEF IInv
  <2> QED BY <2>1, <2>2
<1>7. \A t \in Submissions : sub'[t].digest = sub[t].digest
  BY <1>1, <1>2, FailedTypes
<1>8. \A t \in Submissions : Complete(t)' /\ Grows(t) /\ RolesIn(t)' = RolesIn(t)
  BY <1>7 DEF IInv, PAt, Complete, RolesIn, Grows
<1>9. \A t \in Submissions : Import(t)' /\ Own(t)' /\ Released(t)
  <2> SUFFICES ASSUME NEW t \in Submissions PROVE Import(t)' /\ Own(t)' /\ Released(t)
    OBVIOUS
  <2>1. sub'[t].status = IF t \in F THEN "import_failed" ELSE sub[t].status
    BY <1>1, <1>2, FailedTypes
  <2>2. t \in F => sub[t].status = "importing"
    BY <1>1
  <2>3. Import(t)'
    BY <2>1 DEF IInv, PAt, Import
  <2>4. Own(t)' /\ Released(t)
    BY <2>1, <2>2 DEF IInv, PAt, Own, Released
  <2> QED BY <2>3, <2>4
<1>10. \A w \in Publishers : Doing(pwork[w])'
  BY <1>7, <1>8, DoingStands
<1>11. PTypes'
  BY DEF IInv, PTypes
<1> QED BY <1>4, <1>5, <1>6, <1>7, <1>8, <1>9, <1>10, <1>11, Through DEF PAt

LEMMA RestTypes ==
  ASSUME IInv, NEW w \in Publishers, Rest(w)
  PROVE  /\ pwork' \in [Publishers -> PWork]
         /\ \A v \in Publishers : pwork'[v] = pwork[v] \/ Doing(pwork[v])'
<1>1. /\ pwork' \in [Publishers -> PWork] /\ pwork'[w] = Resting
      /\ \A v \in Publishers \ {w} : pwork'[v] = pwork[v]
  BY RestingType DEF IInv, PTypes, Rest
<1>2. Doing(pwork[w])'
  BY <1>1 DEF Doing, Resting
<1> QED BY <1>1, <1>2

LEMMA StopKeeps ==
  ASSUME IInv, NEW w \in Publishers, Stop(w)
  PROVE  PKeeps
<1>1. PICK s \in Submissions : s = pwork[w].sub
  BY DEF IInv, Doing, Stop
<1>2. CASE UNCHANGED <<sub, pjob, notices>>
  BY <1>2, GotoLocal DEF Stop, Unwritten, vvars
<1>3. CASE /\ sub[s].status = "importing"
           /\ sub'     = [sub EXCEPT ![s] = FailedRow(s)]
           /\ pjob'    = [pjob EXCEPT ![s] = FailedJob(s)]
           /\ notices' = notices \cup {FailNotice(s)}
  <2> DEFINE F == {s}
  <2>1. F \in SUBSET {t \in Submissions : sub[t].status = "importing"}
    BY <1>3
  <2>2. sub' = [t \in Submissions |-> IF t \in F THEN FailedRow(t) ELSE sub[t]]
    BY <1>3 DEF IInv, VInv, VTypeOK
  <2>3. notices' = notices \cup {FailNotice(t) : t \in F}
    BY <1>3
  <2>4. /\ pjob' \in [Submissions -> PJob] /\ pjob'[s] = FailedJob(s)
        /\ \A t \in Submissions \ F : pjob'[t] = pjob[t]
    BY <1>3, FailedTypes DEF IInv, PTypes
  <2>5. /\ \A t \in F : pjob'[t].status = "failed"
        /\ \A t \in Submissions : pjob'[t].journal = pjob[t].journal
    BY <2>4, FailedTypes
  <2>6. Rest(w) /\ UNCHANGED <<vjob, attest, review, trusted, vwork, edits, catalogue, live>>
    BY DEF Stop
  <2>7. \A t \in Submissions \ F : pjob'[t].status \in {"queued", "running"}
                                     <=> pjob[t].status \in {"queued", "running"}
    BY <2>4
  <2> HIDE DEF F
  <2> QED BY <2>1, <2>2, <2>3, <2>4, <2>5, <2>6, <2>7, RestTypes, Failing
<1> QED BY <1>1, <1>2, <1>3 DEF Stop

LEMMA PClaimKeeps ==
  ASSUME IInv, NEW w \in Publishers, PClaim(w)
  PROVE  PKeeps
<1> DEFINE dead   == {s \in Submissions : Expired(pjob[s]) /\ sub[s].status = "importing"}
           queued == {s \in Submissions : pjob[s].status = "queued"}
           stray(pick)  == pick # None /\ sub[pick].status # "importing"
           failed(pick) == dead \cup {s \in {pick} \cap Submissions :
                                     ~stray(pick) /\ pjob[s].attempts >= MaxAttempts}
           taken(pick)  == {pick} \cap {s \in Submissions : ~stray(pick) /\ s \notin failed(pick)}
           Taken(s) == [pjob[s] EXCEPT !.status = "running", !.live = TRUE,
                          !.attempts = pjob[s].attempts + 1, !.token = pjob[s].attempts + 1]
<1>1. PICK pick \in queued \cup {None} :
       /\ sub'     = [s \in Submissions |-> IF s \in failed(pick) THEN FailedRow(s) ELSE sub[s]]
       /\ notices' = notices \cup {FailNotice(s) : s \in failed(pick)}
       /\ pjob'    = [s \in Submissions |->
            CASE s \in failed(pick) -> FailedJob(s)
              [] s \in taken(pick)  -> Taken(s)
              [] stray(pick) /\ s = pick -> [pjob[s] EXCEPT !.status = "cancelled"]
              [] OTHER -> pjob[s]]
       /\ pwork'   = IF taken(pick) = {} THEN pwork
                     ELSE [pwork EXCEPT ![w] = [Resting EXCEPT !.pc = "claimed", !.sub = pick,
                                                  !.token = pjob[pick].attempts + 1]]
  BY DEF PClaim
<1> DEFINE F == failed(pick)
           T == taken(pick)
<1>2. ~stray(pick)
  BY AdminAssumption DEF IInv, PAt, Import
<1>3. /\ F \in SUBSET {s \in Submissions : sub[s].status = "importing"}
      /\ T \subseteq Submissions /\ T \cap F = {}
      /\ \A s \in T : s = pick /\ pjob[s].status = "queued" /\ pjob[s].attempts < MaxAttempts
  <2>1. \A s \in Submissions : pjob[s].attempts \in Nat
    BY DEF IInv, PTypes, PJob
  <2>2. F \in SUBSET {s \in Submissions : sub[s].status = "importing"}
    BY <1>2, AdminAssumption
  <2> QED BY <2>1, <2>2, LimitAssumption, AdminAssumption
<1> HIDE DEF Taken
<1>4. /\ \A s \in F : pjob'[s] = FailedJob(s)
      /\ \A s \in T : pjob'[s] = Taken(s)
      /\ \A s \in Submissions : s \notin F /\ s \notin T => pjob'[s] = pjob[s]
      /\ pjob' = [s \in Submissions |-> pjob'[s]]
  <2> DEFINE Job(s) ==
       CASE s \in failed(pick) -> FailedJob(s)
         [] s \in taken(pick)  -> Taken(s)
         [] stray(pick) /\ s = pick -> [pjob[s] EXCEPT !.status = "cancelled"]
         [] OTHER -> pjob[s]
  <2>1. pjob' = [s \in Submissions |-> Job(s)]
    BY <1>1
  <2>2. /\ \A s \in F : Job(s) = FailedJob(s)
        /\ \A s \in T : Job(s) = Taken(s)
        /\ \A s \in Submissions : s \notin F /\ s \notin T => Job(s) = pjob[s]
    BY <1>2, <1>3
  <2> HIDE DEF Job
  <2> QED BY <1>3, <2>1, <2>2
<1> HIDE DEF F
<1>5. /\ sub' = [s \in Submissions |-> IF s \in F THEN FailedRow(s) ELSE sub[s]]
      /\ notices' = notices \cup {FailNotice(s) : s \in F}
  BY <1>1 DEF F
<1>6. \A s \in T : /\ Taken(s) \in PJob /\ Taken(s).status = "running"
                   /\ Taken(s).journal = pjob[s].journal
                   /\ pjob[s].attempts + 1 \in 0 .. MaxAttempts
  <2> SUFFICES ASSUME NEW s \in T
               PROVE  /\ Taken(s) \in PJob /\ Taken(s).status = "running"
                      /\ Taken(s).journal = pjob[s].journal
                      /\ pjob[s].attempts + 1 \in 0 .. MaxAttempts
    OBVIOUS
  <2>1. pjob[s] \in PJob
    BY <1>3 DEF IInv, PTypes
  <2>2. pjob[s].attempts + 1 \in 0 .. MaxAttempts
    BY <1>3, <2>1, LimitAssumption DEF PJob
  <2> QED BY <2>1, <2>2 DEF Taken, PJob
<1>7. UNCHANGED <<vjob, attest, review, trusted, vwork, edits, catalogue, live>>
  BY DEF PClaim
<1>8. /\ pwork' \in [Publishers -> PWork]
      /\ \A v \in Publishers : pwork'[v] = pwork[v] \/ Doing(pwork[v])'
  <2>1. CASE T = {}
    BY <1>1, <2>1 DEF IInv, PTypes
  <2>2. CASE T # {}
    <3> DEFINE row == [Resting EXCEPT !.pc = "claimed", !.sub = pick, !.token = pjob[pick].attempts + 1]
    <3>1. pick \in Submissions /\ pick \in T
      BY <1>3, <2>2
    <3>2. row \in PWork /\ row.pc = "claimed" /\ row.sub = pick
      BY <1>6, <3>1, LimitAssumption DEF Resting, PWork
    <3>3. pwork' = [pwork EXCEPT ![w] = row]
      BY <1>1, <2>2
    <3> HIDE DEF row
    <3>4. pwork'[w] = row /\ \A v \in Publishers \ {w} : pwork'[v] = pwork[v]
      BY <3>3 DEF IInv, PTypes
    <3>5. Doing(pwork[w])'
      BY <3>1, <3>2, <3>4 DEF Doing
    <3> QED BY <3>2, <3>3, <3>4, <3>5 DEF IInv, PTypes
  <2> QED BY <2>1, <2>2
<1> HIDE DEF T
<1>9. \A s \in Submissions : pjob'[s] \in PJob
  BY <1>3, <1>4, <1>6, FailedTypes DEF IInv, PTypes
<1>10. pjob' \in [Submissions -> PJob]
  BY <1>4, <1>9
<1>11. \A s \in F : pjob'[s].status = "failed"
  BY <1>3, <1>4, FailedTypes
<1>12. \A s \in Submissions : pjob'[s].journal = pjob[s].journal
  BY <1>3, <1>4, <1>6, FailedTypes
<1>13. \A s \in Submissions \ F : pjob'[s].status \in {"queued", "running"}
                                   <=> pjob[s].status \in {"queued", "running"}
  BY <1>3, <1>4, <1>6
<1> QED BY <1>3, <1>5, <1>7, <1>8, <1>10, <1>11, <1>12, <1>13, Failing

LEMMA CommitKeeps ==
  ASSUME IInv, NEW w \in Publishers, Commit(w)
  PROVE  PKeeps
<1>1. PICK s \in Submissions : s = pwork[w].sub
  BY DEF IInv, Doing, Commit
<1>2. CASE (PGoto(w, "stopped") \/ Rest(w)) /\ UNCHANGED <<sub, pjob, notices, catalogue, live>>
  BY <1>2, GotoLocal DEF Commit, Unwritten, vvars
<1>3. CASE /\ Owns(w) /\ StillApproved(w) /\ ResourcesReady(w)
           /\ sub'       = [sub EXCEPT ![s].status = "published"]
           /\ pjob'      = [pjob EXCEPT ![s].status = "succeeded", ![s].token = 0, ![s].live = FALSE]
           /\ notices'   = notices \cup {Notice(s, "published", 0, "published")}
           /\ catalogue' = catalogue \cup Templates(Planned(pjob[s].journal), s)
           /\ live'      = [live EXCEPT ![s] = pwork[w].seen]
           /\ Rest(w)
  <2> DEFINE row  == [sub[s] EXCEPT !.status = "published"]
             job  == [pjob[s] EXCEPT !.status = "succeeded", !.token = 0, !.live = FALSE]
             told == Notice(s, "published", 0, "published")
             c    == pwork[w].seen
             made == Templates(Planned(pjob[s].journal), s)
  <2>1. /\ sub[s] \in Submission /\ pjob[s] \in PJob /\ sub[s].status = "importing"
        /\ 0 \in 0 .. MaxAttempts /\ pjob[s].journal \subseteq Entry
    BY <1>1, <1>3, LimitAssumption DEF IInv, VInv, VTypeOK, PTypes, StillApproved, PJob
  <2>2. /\ row \in Submission /\ row.status = "published" /\ row.digest = sub[s].digest
        /\ row.content = sub[s].content
    BY <2>1, StagesAre DEF Submission
  <2>3. job \in PJob /\ job.status = "succeeded" /\ job.journal = pjob[s].journal
    <3>1. job \in PJob
      BY <2>1 DEF PJob
    <3> QED BY <2>1, <3>1 DEF PJob
  <2>4. /\ told \in [sub : Submissions, kind : NoticeKinds, n : 0 .. MaxAttempts, event : Lifecycle!Stages]
        /\ told.sub = s /\ told.kind = "published"
    BY <2>1, StagesAre DEF NoticeKinds, Notice
  <2>5. c \in Contents /\ c = sub[s].digest /\ RolesIn(s) = RolesOf[c]
    BY <1>1 DEF Commit, IInv, Doing
  <2>6. /\ sub[s].content = c /\ sub[s].approver \in trusted
        /\ \A e \in pjob[s].journal : e.ready
        /\ Planned(pjob[s].journal) \subseteq Vmids
        /\ Planned(pjob[s].journal) \cap Assigned = {}
    <3>1. Planned(pjob[s].journal) \subseteq Vmids
      BY <2>1 DEF Planned, Entry
    <3> QED BY <1>1, <1>3, <3>1 DEF StillApproved, Approval, ResourcesReady
  <2>7. c \in Good
    BY <2>1, <2>5 DEF IInv, VInv, At, Sound, Accepted
  <2>8. /\ sub' = [sub EXCEPT ![s] = row] /\ pjob' = [pjob EXCEPT ![s] = job]
        /\ notices' = notices \cup {told} /\ live' = [live EXCEPT ![s] = c]
        /\ catalogue' = catalogue \cup made
        /\ UNCHANGED <<vjob, attest, review, trusted, vwork, edits>>
    <3>1. sub' = [sub EXCEPT ![s] = row] /\ pjob' = [pjob EXCEPT ![s] = job]
      BY <1>3
    <3>2. /\ notices' = notices \cup {told} /\ live' = [live EXCEPT ![s] = c]
          /\ catalogue' = catalogue \cup made
      BY <1>3
    <3>3. UNCHANGED <<vjob, attest, review, trusted, vwork, edits>>
      BY DEF Commit
    <3> QED BY <3>1, <3>2, <3>3
  <2>19. /\ catalogue' \subseteq [vmid : Vmids, by : Submissions \cup {None}]
         /\ \A t, u \in catalogue' : t.vmid = u.vmid => t = u
    <3>1. /\ catalogue \subseteq [vmid : Vmids, by : Submissions \cup {None}]
          /\ \A t, u \in catalogue : t.vmid = u.vmid => t = u
      BY DEF IInv, PTypes
    <3>2. \A t \in made : /\ t \in [vmid : Vmids, by : Submissions \cup {None}]
                          /\ t.vmid \in Planned(pjob[s].journal)
                          /\ t = [vmid |-> t.vmid, by |-> s]
      BY <2>6 DEF Templates
    <3>3. \A t \in catalogue, u \in made : t.vmid # u.vmid
      BY <2>6, <3>2 DEF Assigned
    <3>4. \A t, u \in made : t.vmid = u.vmid => t = u
      BY <3>2
    <3> HIDE DEF made
    <3>5. catalogue' = catalogue \cup made
      BY <2>8
    <3> QED BY <3>1, <3>2, <3>3, <3>4, <3>5
  <2>20. \A t \in made : t.by = s
    BY DEF Templates
  <2> HIDE DEF row, job, told, c, made
  <2>9. /\ sub'[s] = row /\ pjob'[s] = job /\ live'[s] = c
        /\ \A t \in Submissions \ {s} : sub'[t] = sub[t] /\ pjob'[t] = pjob[t]
        /\ sub' \in [Submissions -> Submission] /\ pjob' \in [Submissions -> PJob]
        /\ live' \in [Submissions -> Contents \cup {None}]
    BY <2>2, <2>3, <2>5, <2>6, <2>8 DEF IInv, VInv, VTypeOK, PTypes
  <2>10. /\ notices' \subseteq [sub : Submissions, kind : NoticeKinds, n : 0 .. MaxAttempts,
                                event : Lifecycle!Stages]
         /\ Told(s)' = Told(s) \cup {told}
         /\ \A t \in Submissions \ {s} : Told(t)' = Told(t)
    BY <2>4, <2>8 DEF IInv, VInv, VTypeOK, Told
  <2>11. \A t \in Submissions : Fine(t)
    <3>1. row.status \in Lifecycle!After(sub[s].status)
      BY <2>1, <2>2 DEF Lifecycle!After
    <3> DEFINE N == {told}
    <3>2. (\A m \in N : m.kind # "verdict") /\ Told(s)' = Told(s) \cup N
      BY <2>4, <2>10
    <3>5. /\ VInv /\ sub[s].status \in Imports /\ vjob'[s] = vjob[s] /\ attest'[s] = attest[s]
          /\ sub'[s].digest = sub[s].digest /\ sub'[s].content = sub[s].content
          /\ sub'[s].status \in Lifecycle!After(sub[s].status)
      BY <2>1, <2>2, <2>8, <2>9, <3>1 DEF IInv, Imports
    <3> HIDE DEF N
    <3>3. Fine(s)
      BY <3>2, <3>5, Onward
    <3>4. \A t \in Submissions \ {s} : Fine(t)
      BY <2>8, <2>9, <2>10, Beside DEF IInv
    <3> QED BY <3>3, <3>4
  <2>12. \A t \in Submissions : sub'[t].digest = sub[t].digest /\ pjob'[t].journal = pjob[t].journal
    BY <2>2, <2>3, <2>9
  <2>13. \A t \in Submissions : Complete(t)' /\ Grows(t) /\ RolesIn(t)' = RolesIn(t)
    BY <2>12 DEF IInv, PAt, Complete, RolesIn, Grows
  <2>14. \A t \in Submissions : Import(t)'
    BY <2>2, <2>3, <2>9 DEF IInv, PAt, Import
  <2>15. \A t \in Submissions : Own(t)'
    <3> SUFFICES ASSUME NEW t \in Submissions PROVE Own(t)'
      OBVIOUS
    <3>1. Own(t) /\ Own(s)
      BY DEF IInv, PAt
    <3>2. \A u \in Submissions : Planned(pjob'[u].journal) = Planned(pjob[u].journal)
      BY <2>12
    <3>3. CASE t = s
      <4>1. {u \in catalogue : u.by = s} = {}
        BY <2>1, <3>1 DEF Own
      <4>2. {u \in catalogue' : u.by = s} = made
        BY <2>8, <2>20, <4>1
      <4>3. sub'[s].status = "published" /\ made = Templates(Planned(pjob[s].journal), s)
        BY <2>2, <2>9 DEF made
      <4> QED BY <3>1, <3>2, <3>3, <4>2, <4>3 DEF Own
    <3>4. CASE t # s
      <4>1. {u \in catalogue' : u.by = t} = {u \in catalogue : u.by = t}
        BY <2>8, <2>20, <3>4
      <4> QED BY <2>9, <3>1, <3>2, <3>4, <4>1 DEF Own
    <3> QED BY <3>3, <3>4
  <2>16. \A t \in Submissions : Released(t)
    <3>1. {e.role : e \in {d \in pjob[s].journal : d.ready}} = RolesOf[c]
      <4>1. {d \in pjob[s].journal : d.ready} = pjob[s].journal
        BY <2>6
      <4> QED BY <2>5, <4>1 DEF RolesIn
    <3>2. Released(s)
      BY <2>5, <2>6, <2>7, <2>9, <3>1 DEF Released
    <3>3. \A t \in Submissions \ {s} : Released(t)
      BY <2>9 DEF Released
    <3> QED BY <3>2, <3>3
  <2>17. /\ pwork' \in [Publishers -> PWork] /\ \A v \in Publishers : Doing(pwork[v])'
    <3>1. /\ pwork' \in [Publishers -> PWork]
          /\ \A v \in Publishers : pwork'[v] = pwork[v] \/ Doing(pwork[v])'
      BY <1>3, RestTypes
    <3> QED BY <2>12, <2>13, <3>1, DoingStands
  <2>18. PTypes'
    BY <2>9, <2>17, <2>19 DEF PTypes
  <2> QED BY <2>8, <2>9, <2>10, <2>11, <2>12, <2>13, <2>14, <2>15, <2>16, <2>17, <2>18, Through
          DEF PAt
<1> QED BY <1>1, <1>2, <1>3 DEF Commit

-----------------------------------------------------------------------------
(* Validation goes on meanwhile.                                           *)

Calm(s) == sub'[s].status # sub[s].status =>
  /\ sub[s].status \notin {"importing", "published"}
  /\ sub'[s].status \notin {"importing", "published"}

LEMMA SettlingIsCalm ==
  ASSUME VTypeOK, NEW s \in Submissions, NEW r \in Reports, NEW e \in BOOLEAN,
         sub[s].status = "validating", sub'[s] = Judged(s, r, e)
  PROVE  Calm(s)
<1>1. Suggested(r) \in {"ready_for_review", "needs_changes", "validation_failed"}
  BY DEF Suggested, Reports
<1> QED BY <1>1, RowTypes DEF Calm, Judged, Submission

LEMMA AuthorIsCalm ==
  ASSUME VInv, Author, NEW t \in Submissions
  PROVE  Calm(t)
<1>1. \A u \in Submissions : sub[u] \in Submission
  BY DEF VInv, VTypeOK
<1>2. ASSUME NEW s \in Submissions, NEW c \in Contents \cup {None}, sub[s] = Blank,
             sub' = [sub EXCEPT ![s] = Draft(c)]
      PROVE  Calm(t)
  BY <1>1, <1>2 DEF Calm, Draft, Blank, VInv, VTypeOK
<1>3. ASSUME NEW s \in Submissions, NEW c \in Contents, EditDraft(s, c) \/ Tamper(s, c)
      PROVE  Calm(t)
  <2>1. sub' = [sub EXCEPT ![s] = [sub[s] EXCEPT !.content = c]]
    BY <1>3 DEF EditDraft, Tamper
  <2>2. [sub[s] EXCEPT !.content = c].status = sub[s].status
    BY <1>1 DEF Submission
  <2> QED BY <2>1, <2>2 DEF Calm, VInv, VTypeOK
<1>4. ASSUME NEW s \in Submissions, Submit(s) PROVE Calm(t)
  BY <1>1, <1>4 DEF Submit, Calm, VInv, VTypeOK, Submission
<1>5. ASSUME NEW s \in Submissions, NEW old \in Submissions, Revise(old, s) PROVE Calm(t)
  <2>1. sub[old].content \in Contents \cup {None}
    BY <1>1 DEF Submission
  <2> QED BY <1>2, <1>5, <2>1 DEF Revise
<1>6. ASSUME NEW s \in Submissions, NEW c \in Contents, Create(s, c) PROVE Calm(t)
  BY <1>2, <1>6 DEF Create
<1> QED BY <1>3, <1>4, <1>5, <1>6 DEF Author

LEMMA AdminIsCalm ==
  ASSUME VInv, Admin, NEW t \in Submissions
  PROVE  Calm(t)
<1>1. \A u \in Submissions : sub[u] \in Submission
  BY DEF VInv, VTypeOK
<1>2. ASSUME NEW a \in Sysadmins, SetRole(a) PROVE Calm(t)
  BY <1>2 DEF SetRole, Calm
<1>3. ASSUME NEW a \in Sysadmins, NEW s \in Submissions, NEW d \in {"approve", "reject"}, Decide(s, a, d)
      PROVE  Calm(t)
  <2>1. sub[s].status \in {"ready_for_review", "needs_changes", "validation_failed"}
    BY <1>3 DEF Decide
  <2>2. sub'[s].status \in {"approved", "rejected"} /\ (t # s => sub'[t] = sub[t])
    BY <1>1, <1>3 DEF Decide, VInv, VTypeOK, Submission
  <2> QED BY <2>1, <2>2 DEF Calm
<1> QED BY <1>2, <1>3 DEF Admin

LEMMA WorkerIsCalm ==
  ASSUME VInv, NEW w \in Workers, VWorker(w), NEW t \in Submissions
  PROVE  Calm(t)
<1>1. CASE Claim(w)
  <2> DEFINE strays  == {s \in Submissions : sub[s].status # "validating"}
             settled == Exhausted \ strays
             taking  == Eligible \ (strays \cup Exhausted)
  <2>1. PICK passed \in SUBSET (Eligible \ taking), pick \in taking \cup {None} :
          sub' = [s \in Submissions |->
                    IF s \in passed \cap settled THEN Judged(s, "technical", TRUE) ELSE sub[s]]
    BY <1>1 DEF Claim
  <2>2. CASE t \in passed \cap settled
    <3>1. sub[t].status = "validating" /\ sub'[t] = Judged(t, "technical", TRUE)
      BY <2>1, <2>2
    <3>2. "technical" \in Reports /\ TRUE \in BOOLEAN /\ VTypeOK
      BY DEF Reports, VInv
    <3> QED BY <3>1, <3>2, SettlingIsCalm
  <2>3. CASE t \notin passed \cap settled
    BY <2>1, <2>3 DEF Calm
  <2> QED BY <2>2, <2>3
<1>2. CASE Finish(w)
  <2>1. PICK s \in Submissions : s = vwork[w].sub
    BY <1>2 DEF VInv, Finish, Reported
  <2>2. PICK r \in Reports : r = Counted(w)
    BY <1>2 DEF VInv, Finish, Reported, Counted, Reports
  <2>3. \/ sub' = sub
        \/ sub[s].status = "validating" /\ sub' = [sub EXCEPT ![s] = Judged(s, r, FALSE)]
    BY <1>2, <2>1, <2>2 DEF Finish
  <2>4. CASE sub' = sub
    BY <2>4 DEF Calm
  <2>5. CASE sub[s].status = "validating" /\ sub' = [sub EXCEPT ![s] = Judged(s, r, FALSE)]
    <3> DEFINE row == Judged(s, r, FALSE)
    <3>1. ASSUME sub'[s] = row PROVE Calm(s)
      <4>1. FALSE \in BOOLEAN /\ VTypeOK
        BY DEF VInv
      <4> QED BY <2>5, <3>1, <4>1, SettlingIsCalm
    <3>2. sub' = [sub EXCEPT ![s] = row]
      BY <2>5
    <3> HIDE DEF row
    <3>3. sub'[s] = row /\ (t # s => sub'[t] = sub[t])
      BY <3>2 DEF VInv, VTypeOK
    <3> QED BY <3>1, <3>3 DEF Calm
  <2> QED BY <2>3, <2>4, <2>5
<1>3. CASE Inspect(w) \/ HeartbeatFails(w) \/ Crash(w)
  BY <1>3 DEF Inspect, HeartbeatFails, Crash, Calm
<1> QED BY <1>1, <1>2, <1>3 DEF VWorker

LEMMA ValidationKeeps ==
  ASSUME IInv, VNext \/ UNCHANGED vvars, UNCHANGED pvars
  PROVE  PKeeps
<1>1. Keeps
  BY VNextKeeps, VStutters DEF IInv
<1>2. \A s \in Submissions : Calm(s)
  <2>1. ASSUME VNext, NEW s \in Submissions PROVE Calm(s)
    <3>1. ASSUME NEW t \in Submissions, Expire(t) PROVE Calm(s)
      BY <3>1 DEF Expire, Calm
    <3> QED BY <2>1, <3>1, AuthorIsCalm, AdminIsCalm, WorkerIsCalm DEF VNext, IInv
  <2>2. CASE UNCHANGED vvars
    BY <2>2 DEF vvars, Calm
  <2> QED BY <2>1, <2>2
<1>3. UNCHANGED <<pjob, catalogue, live, pwork>>
  BY DEF pvars
<1>4. \A s \in Submissions : sub[s].digest # None => sub'[s].digest = sub[s].digest
  BY <1>1 DEF Keeps, Moves, Lifecycle!Freeze, Lifecycle!Advance, Lifecycle!Stay, IInv, VInv, At, Whole
<1>5. \A s \in Submissions : RolesIn(s)' = RolesIn(s)
  BY <1>3 DEF RolesIn
<1>6. \A w \in Publishers : Doing(pwork[w])'
  BY <1>3, <1>4, <1>5, DoingStands
<1>7. \A s \in Submissions : Import(s)' /\ Own(s)' /\ Released(s) /\ Grows(s)
  BY <1>2, <1>3 DEF Calm, IInv, PAt, Import, Own, Released, Grows
<1>8. \A s \in Submissions : Complete(s)'
  <2> SUFFICES ASSUME NEW s \in Submissions, RolesIn(s) # {}
               PROVE  sub'[s].digest \in Contents /\ RolesIn(s) = RolesOf[sub'[s].digest]
    BY <1>5 DEF Complete
  <2>1. sub[s].digest \in Contents /\ RolesIn(s) = RolesOf[sub[s].digest]
    BY DEF IInv, PAt, Complete
  <2> QED BY <1>4, <2>1, ContentAssumption
<1>9. PTypes'
  BY <1>3 DEF IInv, PTypes
<1> QED BY <1>1, <1>6, <1>7, <1>8, <1>9 DEF PKeeps, Keeps, IInv, PAt

-----------------------------------------------------------------------------
(* Staff register a template.                                              *)

LEMMA RegisterKeeps ==
  ASSUME IInv, NEW v \in Vmids, Register(v)
  PROVE  PKeeps
<1> DEFINE row == [vmid |-> v, by |-> None]
<1>1. /\ UNCHANGED vvars /\ UNCHANGED <<pjob, live, pwork>> /\ sub' = sub
      /\ catalogue' = catalogue \cup {row} /\ \A t \in catalogue : t.vmid # v
  BY DEF Register, vvars, Templates, Assigned
<1>2. Keeps
  BY <1>1, VStutters DEF IInv
<1>3. row \in [vmid : Vmids, by : Submissions \cup {None}] /\ row.vmid = v /\ row.by \notin Submissions
  BY AdminAssumption
<1> HIDE DEF row
<1>4. PTypes'
  BY <1>1, <1>3 DEF IInv, PTypes
<1>5. \A s \in Submissions : RolesIn(s)' = RolesIn(s)
  BY <1>1 DEF RolesIn
<1>6. \A w \in Publishers : Doing(pwork[w])'
  BY <1>1, <1>5, DoingStands
<1>7. \A s \in Submissions : {t \in catalogue' : t.by = s} = {t \in catalogue : t.by = s}
  BY <1>1, <1>3
<1>8. \A s \in Submissions : Own(s)'
  BY <1>1, <1>7 DEF IInv, PAt, Own
<1>9. \A s \in Submissions : Import(s)' /\ Complete(s)' /\ Grows(s) /\ Released(s)
  BY <1>1 DEF IInv, PAt, Import, Complete, RolesIn, Grows, Released
<1> QED BY <1>2, <1>4, <1>6, <1>8, <1>9 DEF PKeeps, Keeps, IInv, PAt

-----------------------------------------------------------------------------
LEMMA InitHolds == Init => IInv
<1> SUFFICES ASSUME Init PROVE IInv
  OBVIOUS
<1>1. VInv
  BY VInitHolds DEF Init
<1>2. 0 \in 0 .. MaxAttempts
  BY LimitAssumption
<1>3. NoPublish \in PJob /\ Resting \in PWork
  BY <1>2, RestingType DEF NoPublish, PJob
<1>4. PTypes
  BY <1>3, PublicationAssumption DEF Init, PTypes
<1>5. ASSUME NEW s \in Submissions PROVE PAt(s)
  <2>1. sub[s].status = "none" /\ pjob[s].status = "none" /\ pjob[s].journal = {}
    BY DEF Init, VInit, Blank, NoPublish
  <2>2. RolesIn(s) = {} /\ Planned(pjob[s].journal) = {} /\ catalogue = {}
    BY <2>1 DEF RolesIn, Planned, Init
  <2> QED BY <2>1, <2>2 DEF PAt, Import, Complete, Own
<1>6. \A w \in Publishers : Doing(pwork[w])
  BY RestingType DEF Init
<1> QED BY <1>1, <1>4, <1>5, <1>6 DEF IInv

LEMMA NextKeeps == IInv /\ [Next]_vars => PKeeps
<1> SUFFICES ASSUME IInv, [Next]_vars PROVE PKeeps
  OBVIOUS
<1>1. CASE VNext /\ UNCHANGED pvars
  BY <1>1, ValidationKeeps
<1>2. CASE UNCHANGED vars
  BY <1>2, ValidationKeeps DEF vars
<1>3. CASE Publishing
  <2>1. ASSUME NEW a \in Sysadmins, NEW s \in Submissions, Enqueue(s, a) \/ ReturnForCorrection(s, a)
        PROVE  PKeeps
    BY <2>1, EnqueueKeeps, ReturnKeeps
  <2>2. ASSUME NEW w \in Publishers, Publisher(w) PROVE PKeeps
    <3>1. ASSUME NEW s \in Submissions, NEW e \in pjob[s].journal, NEW ready \in BOOLEAN,
                 Checkpoint(w, e, ready)
          PROVE  PKeeps
      BY <3>1, CheckpointKeeps
    <3> QED BY <2>2, <3>1, PClaimKeeps, ReadApprovalKeeps, JournalKeeps, AdapterReturnsKeeps,
               CommitKeeps, StopKeeps, PHeartbeatFailsKeeps, PCrashKeeps
            DEF Publisher
  <2>3. ASSUME NEW s \in Submissions, PExpire(s) PROVE PKeeps
    BY <2>3, PExpireKeeps
  <2>4. ASSUME NEW v \in Registrable, Register(v) PROVE PKeeps
    BY <2>4, RegisterKeeps, PublicationAssumption
  <2> QED BY <1>3, <2>1, <2>2, <2>3, <2>4 DEF Publishing
<1> QED BY <1>1, <1>2, <1>3 DEF Next

\* Validation's invariant, and what journals and publication workers know.
THEOREM PInvariant == Spec => []IInv
<1>1. IInv /\ [Next]_vars => IInv'
  BY NextKeeps DEF PKeeps
<1> QED BY InitHolds, <1>1, PTL DEF Spec

\* Every variable of the pipeline, from draft to catalogue, keeps its type,
\* and no import is attempted beyond max_attempts.
THEOREM PTyped == Spec => []TypeOK
<1>1. IInv => TypeOK
  BY DEF IInv, VInv, PTypes, TypeOK
<1> QED BY PInvariant, <1>1, PTL

\* No submission is left 'importing' without a job that a worker will take,
\* and no job is at work on one that is not.
THEOREM ImportsHaveJobs == Spec => []ImportHasJob
<1>1. IInv => ImportHasJob
  BY DEF IInv, PAt, Import, ImportHasJob
<1> QED BY PInvariant, <1>1, PTL

\* One VMID, one owner: workers that plan at the same time never give a VMID
\* to two publications, and a VMID that staff register while its machine is
\* being prepared is not published as well.
THEOREM VmidsAreExclusive == Spec => []VmidExclusive
<1>1. IInv => VmidExclusive
  BY DEF IInv, PTypes, PAt, Own, VmidExclusive
<1> QED BY PInvariant, <1>1, PTL

\* No retry, failure, return or lost lease makes the journal forget a machine.
THEOREM JournalsStand == Spec => JournalKept
<1>1. IInv /\ [Next]_vars =>
        [\A s \in Submissions :
           {<<e.role, e.vmid>> : e \in pjob[s].journal}
             \subseteq {<<e.role, e.vmid>> : e \in pjob'[s].journal}]_vars
  BY NextKeeps DEF PKeeps, Grows
<1> QED BY PInvariant, <1>1, PTL DEF Spec, JournalKept

\* Whatever the adapter reports and whichever worker commits, only the frozen,
\* good and approved content goes live, with a ready machine for each role.
THEOREM PublishesAsApproved == Spec => PublishedAsApproved
<1>1. IInv /\ [Next]_vars =>
        [\A s \in Submissions : sub[s].status # "published" /\ sub'[s].status = "published" =>
           /\ live'[s] = sub[s].digest /\ sub[s].content = sub[s].digest /\ live'[s] \in Good
           /\ sub[s].approver \in trusted
           /\ {e.role : e \in {d \in pjob[s].journal : d.ready}} = RolesOf[live'[s]]]_vars
  BY NextKeeps DEF PKeeps, Released
<1> QED BY PInvariant, <1>1, PTL DEF Spec, PublishedAsApproved

\* Every transaction of the whole pipeline is a step of SubmissionLifecycle.
THEOREM KeepsStages == Spec => StagesKept
<1>1. ASSUME IInv, Keeps PROVE Lifecycle!Next
  <2>1. /\ [s \in Submissions |-> sub[s].status]' \in [Submissions -> Lifecycle!Stages]
        /\ [s \in Submissions |-> sub[s].digest]' \in [Submissions -> Contents \cup {None}]
    BY <1>1 DEF Keeps, VInv, VTypeOK, Submission
  <2> QED BY <1>1, <2>1 DEF Keeps, Moves, Lifecycle!Next
<1>2. IInv /\ [Next]_vars => [Lifecycle!Next]_vars
  BY <1>1, NextKeeps DEF PKeeps
<1> QED BY PInvariant, <1>2, PTL DEF Spec, StagesKept
=============================================================================
