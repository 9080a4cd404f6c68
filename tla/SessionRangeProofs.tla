------------------------- MODULE SessionRangeProofs -------------------------
(***************************************************************************)
(* Proofs about SessionRange, for every number of students, attempts and   *)
(* handlers, every VMID range and every bound: types are kept, no two      *)
(* sessions hold one VMID, and the ledger of machines implements the       *)
(* abstract VmidLedger. No proof looks at SlowLaunch or at MaxCrashes: the *)
(* results hold however late the reaper strikes and whoever dies.          *)
(***************************************************************************)
EXTENDS SessionRange, SequenceTheorems, TLAPS

-----------------------------------------------------------------------------
(* The inductive invariant.                                                *)

\* A handler that is at work works on an attempt.
Working == \A p \in Procs : ~At(p, "idle") => proc[p].attempt \in Attempts

\* What a claimer takes for used includes the protected numbers...
Hinted == \A p \in Procs : At(p, "insert") => Protected \subseteq proc[p].used

\* ... so that no row was ever given one.
Spared == \A r \in 1 .. Len(ledger) : ledger[r].vmid \notin Protected

IInv == TypeOK /\ Working /\ Hinted /\ Spared /\ LedgerUnique

-----------------------------------------------------------------------------
(* The ways a handler moves on keep its type.                              *)

LEMMA HandlerPc ==
  ASSUME NEW h \in Handler, NEW x \in Pcs
  PROVE  [h EXCEPT !.pc = x] \in Handler
BY DEF Handler

LEMMA GotoType ==
  ASSUME TypeOK, Working, Hinted, NEW p \in Procs, NEW x \in Pcs, Goto(p, x),
         ~At(p, "idle"), x # "insert"
  PROVE  proc' \in [Procs -> Handler] /\ Working' /\ Hinted'
<1>1. proc' \in [Procs -> Handler]
  BY HandlerPc DEF TypeOK, Goto
<1>2. Working' /\ Hinted'
  BY DEF TypeOK, Working, Hinted, At, Goto, Handler
<1> QED BY <1>1, <1>2

LEMMA IdleType == Idle \in Handler
BY DEF Idle, Handler, Pcs, Jobs

LEMMA DoneType ==
  ASSUME TypeOK, Working, Hinted, NEW p \in Procs, Done(p)
  PROVE  proc' \in [Procs -> Handler] /\ Working' /\ Hinted'
BY IdleType DEF TypeOK, Done, Working, Hinted, At, Idle

LEMMA FailsType ==
  ASSUME TypeOK, Working, Hinted, NEW p \in Procs, LaunchFails(p), ~At(p, "idle")
  PROVE  proc' \in [Procs -> Handler] /\ Working' /\ Hinted'
<1>1. proc[p] \in Handler /\ "lab" \in Pcs
  BY DEF TypeOK, Pcs
<1>2. [proc[p] EXCEPT !.pc = "lab", !.todo = proc[p].clones] \in Handler
  BY <1>1 DEF Handler
<1>3. proc' \in [Procs -> Handler]
  BY <1>2 DEF TypeOK, LaunchFails
<1>4. Working' /\ Hinted'
  BY DEF TypeOK, Working, Hinted, At, LaunchFails, Handler
<1> QED BY <1>3, <1>4

\* A request or the reaper that starts on an attempt.
LEMMA StartType ==
  ASSUME TypeOK, Working, Hinted, NEW p \in Procs, NEW a \in Attempts,
         NEW x \in Pcs \ {"insert"}, NEW j \in Jobs, NEW o \in Terminal \cup {"none"},
         Begin(p, x, j, a, o)
  PROVE  proc' \in [Procs -> Handler] /\ Working' /\ Hinted'
<1>1. [Idle EXCEPT !.pc = x, !.job = j, !.attempt = a, !.outcome = o] \in Handler
  BY IdleType DEF Handler
<1>2. proc' \in [Procs -> Handler]
  BY <1>1 DEF TypeOK, Begin
<1>3. Working' /\ Hinted'
  BY DEF TypeOK, Begin, Working, Hinted, At, Idle
<1> QED BY <1>2, <1>3

LEMMA StatusType ==
  ASSUME TypeOK, NEW a \in Attempts, NEW s \in Active \cup Terminal, Status(a, s)
  PROVE  inst' \in [Attempts -> Attempt]
BY DEF TypeOK, Status, Attempt

LEMMA LabType ==
  ASSUME TypeOK, NEW a \in Attempts, NEW s \in LabStatus, Lab(a, s)
  PROVE  inst' \in [Attempts -> Attempt]
BY DEF TypeOK, Lab, Attempt

-----------------------------------------------------------------------------
(* The ways the rows of the ledger change. Rows are never removed: a step  *)
(* retires those of R and leaves every number and attempt as it is.        *)

LedgerStep(R) ==
  /\ ledger' \in Seq(Row)
  /\ Len(ledger') = Len(ledger)
  /\ \A r \in 1 .. Len(ledger) :
       /\ ledger'[r].attempt = ledger[r].attempt
       /\ ledger'[r].vmid = ledger[r].vmid
       /\ ledger'[r].live <=> ledger[r].live /\ r \notin R

LEMMA LedgerFacts ==
  ASSUME TypeOK
  PROVE  /\ Len(ledger) \in Nat
         /\ DOMAIN ledger = 1 .. Len(ledger)
         /\ \A r \in 1 .. Len(ledger) : ledger[r] \in Row
BY LenProperties, ElementOfSeq DEF TypeOK

\* One row is replaced by x.
LEMMA RowReplaced ==
  ASSUME TypeOK, NEW r, NEW x, r \in 1 .. Len(ledger) => x \in Row
  PROVE  LET l == [ledger EXCEPT ![r] = x] IN
         /\ l \in Seq(Row)
         /\ Len(l) = Len(ledger)
         /\ \A s \in 1 .. Len(ledger) : l[s] = IF s = r THEN x ELSE ledger[s]
<1>1. CASE r \in 1 .. Len(ledger)
  <2>1. ledger \in Seq(Row) /\ x \in Row
    BY <1>1 DEF TypeOK
  <2> QED BY <1>1, <2>1, ExceptSeq
<1>2. CASE r \notin 1 .. Len(ledger)
  <2>1. ledger \in Seq(Row)
    BY DEF TypeOK
  <2>2. ledger = [s \in 1 .. Len(ledger) |-> ledger[s]]
    BY <2>1, LenProperties
  <2>3. [ledger EXCEPT ![r] = x] = [s \in 1 .. Len(ledger) |-> ledger[s]]
    BY <2>1, <1>2, LenProperties
  <2> QED BY <2>1, <2>2, <2>3, <1>2
<1> QED BY <1>1, <1>2

LEMMA SeqOfFunction ==
  ASSUME NEW S, NEW n \in Nat, NEW f \in [1 .. n -> S]
  PROVE  f \in Seq(S) /\ Len(f) = n
<1>1. f = [i \in 1 .. n |-> f[i]] /\ \A i \in 1 .. n : f[i] \in S
  OBVIOUS
<1> QED BY <1>1

LEMMA RowStatus ==
  ASSUME TypeOK, NEW r, NEW st \in {"running", "error"},
         ledger' = [ledger EXCEPT ![r].status = st]
  PROVE  LedgerStep({})
<1> DEFINE x == [ledger[r] EXCEPT !.status = st]
<1>1. r \in 1 .. Len(ledger) => ledger[r] \in Row
  BY LedgerFacts
<1>2. r \in 1 .. Len(ledger) =>
        x \in Row /\ x.attempt = ledger[r].attempt /\ x.vmid = ledger[r].vmid
          /\ x.live = ledger[r].live
  BY <1>1 DEF Row
<1>3. ledger' = [ledger EXCEPT ![r] = x]
  OBVIOUS
<1> HIDE DEF x
<1>4. r \in 1 .. Len(ledger) => x \in Row
  BY <1>2
<1>5. /\ ledger' \in Seq(Row)
      /\ Len(ledger') = Len(ledger)
      /\ \A s \in 1 .. Len(ledger) : ledger'[s] = IF s = r THEN x ELSE ledger[s]
  BY <1>4, <1>3, RowReplaced
<1> QED BY <1>2, <1>5 DEF LedgerStep

Retires(r) == ledger' = [ledger EXCEPT ![r].status = "error", ![r].live = FALSE]

LEMMA RowRetired ==
  ASSUME TypeOK, NEW r, Retires(r)
  PROVE  LedgerStep({r})
<1> DEFINE x == [ledger[r] EXCEPT !.status = "error", !.live = FALSE]
<1>1. r \in 1 .. Len(ledger) => ledger[r] \in Row
  BY LedgerFacts
<1>2. r \in 1 .. Len(ledger) =>
        x \in Row /\ x.attempt = ledger[r].attempt /\ x.vmid = ledger[r].vmid
          /\ x.live = FALSE
  BY <1>1 DEF Row
<1>3. ledger' = [ledger EXCEPT ![r] = x]
  BY DEF Retires
<1> HIDE DEF x
<1>4. /\ ledger' \in Seq(Row)
      /\ Len(ledger') = Len(ledger)
      /\ \A s \in 1 .. Len(ledger) : ledger'[s] = IF s = r THEN x ELSE ledger[s]
  BY <1>2, <1>3, RowReplaced
<1>5. ASSUME NEW s \in 1 .. Len(ledger)
      PROVE  /\ ledger'[s].attempt = ledger[s].attempt
             /\ ledger'[s].vmid = ledger[s].vmid
             /\ ledger'[s].live <=> ledger[s].live /\ s \notin {r}
  <2>1. CASE s = r
    BY <1>2, <1>4, <2>1
  <2>2. CASE s # r
    BY <1>4, <2>2
  <2> QED BY <2>1, <2>2
<1> QED BY <1>4, <1>5 DEF LedgerStep

LEMMA RowsDestroyed ==
  ASSUME TypeOK, NEW R,
         ledger' = [r \in DOMAIN ledger |->
           IF r \in R THEN [ledger[r] EXCEPT !.status = "destroyed", !.live = FALSE]
                      ELSE ledger[r]]
  PROVE  LedgerStep(R)
<1>1. \A r \in 1 .. Len(ledger) : ledger[r] \in Row
  BY LedgerFacts
<1>2. \A r \in 1 .. Len(ledger) :
        LET x == [ledger[r] EXCEPT !.status = "destroyed", !.live = FALSE] IN
        x \in Row /\ x.attempt = ledger[r].attempt /\ x.vmid = ledger[r].vmid /\ x.live = FALSE
  BY <1>1 DEF Row
<1>3. ledger' \in [1 .. Len(ledger) -> Row]
  BY <1>1, <1>2, LedgerFacts
<1>4. ledger' \in Seq(Row) /\ Len(ledger') = Len(ledger)
  BY <1>3, LedgerFacts, SeqOfFunction
<1>5. \A r \in 1 .. Len(ledger) :
        ledger'[r] = IF r \in R THEN [ledger[r] EXCEPT !.status = "destroyed", !.live = FALSE]
                                ELSE ledger[r]
  BY LedgerFacts
<1> QED BY <1>1, <1>2, <1>4, <1>5 DEF LedgerStep

-----------------------------------------------------------------------------
(* Every action keeps the types.                                           *)

Typed == TypeOK /\ Working /\ Hinted

LEMMA NoVmType == NoVm \in Machine
BY DEF NoVm, Machine

\* claim_vmid() inserted a row for v.
TookRow(p, v) ==
  /\ IndexAllows(v)
  /\ ledger' = Append(ledger, [attempt |-> proc[p].attempt, vmid |-> v,
                               status |-> "reserving", live |-> TRUE])
  /\ proc' = [proc EXCEPT ![p].pc = "clone", ![p].row = Len(ledger) + 1, ![p].used = {}]

LEMMA OpenType ==
  ASSUME Typed, NEW p \in Procs, Open(p)
  PROVE  Typed'
<1>1. At(p, "admitted") /\ proc[p].attempt \in Attempts /\ ~At(p, "idle")
  BY DEF Open, At, Typed, Working
<1>2. PICK c \in Challenges :
        /\ inst' = [inst EXCEPT ![proc[p].attempt].status = "provisioning",
                               ![proc[p].attempt].challenge = c]
        /\ \/ Goto(p, "publish") \/ Goto(p, "net") \/ Goto(p, "list")
  BY DEF Open
<1>3. inst' \in [Attempts -> Attempt]
  BY <1>1, <1>2 DEF Typed, TypeOK, Attempt, Active
<1>4. proc' \in [Procs -> Handler] /\ Working' /\ Hinted'
  BY <1>1, <1>2, GotoType DEF Typed, Pcs
<1> QED BY <1>3, <1>4 DEF Typed, TypeOK, Open

LEMMA MakeNetType ==
  ASSUME Typed, NEW p \in Procs, MakeNet(p)
  PROVE  Typed'
<1>1. At(p, "net") /\ proc[p].attempt \in Attempts /\ ~At(p, "idle")
  BY DEF MakeNet, At, Typed, Working
<1>2. Goto(p, "named") \/ Goto(p, "abandon")
  BY DEF MakeNet
<1>3. proc' \in [Procs -> Handler] /\ Working' /\ Hinted'
  BY <1>1, <1>2, GotoType DEF Typed, Pcs
<1> QED BY <1>1, <1>3 DEF Typed, TypeOK, MakeNet

LEMMA NameNetType ==
  ASSUME Typed, NEW p \in Procs, NameNet(p)
  PROVE  Typed'
<1>1. At(p, "named") /\ proc[p].attempt \in Attempts /\ ~At(p, "idle")
  BY DEF NameNet, At, Typed, Working
<1>2. inst' \in [Attempts -> Attempt]
  BY <1>1 DEF Typed, TypeOK, Attempt, NameNet
<1>3. proc' \in [Procs -> Handler] /\ Working' /\ Hinted'
  BY <1>1, GotoType DEF Typed, Pcs, NameNet
<1> QED BY <1>2, <1>3 DEF Typed, TypeOK, NameNet

LEMMA ReadUsedType ==
  ASSUME Typed, NEW p \in Procs, ReadUsed(p)
  PROVE  Typed'
<1>1. At(p, "list") /\ proc[p].attempt \in Attempts /\ ~At(p, "idle")
  BY DEF ReadUsed, At, Typed, Working
<1>2. CASE LaunchFails(p)
  BY <1>1, <1>2, FailsType DEF Typed, TypeOK, ReadUsed
<1>3. CASE proc' = [proc EXCEPT ![p].pc = "insert",
                  ![p].used = {v \in Vmids : vm[v] # NoVm} \cup LiveVmids \cup Protected]
  <2> DEFINE used == {v \in Vmids : vm[v] # NoVm} \cup LiveVmids \cup Protected
  <2>1. LiveVmids \subseteq Vmids
    BY LedgerFacts DEF Typed, LiveVmids, LiveRows, Row, Vmids
  <2>2. used \in SUBSET Vmids
    BY <2>1 DEF Vmids
  <2>3. proc[p] \in Handler /\ "insert" \in Pcs
    BY DEF Typed, TypeOK, Pcs
  <2> HIDE DEF used
  <2>4. [proc[p] EXCEPT !.pc = "insert", !.used = used] \in Handler
    BY <2>2, <2>3 DEF Handler
  <2>5. proc' = [proc EXCEPT ![p].pc = "insert", ![p].used = used] /\ Protected \subseteq used
    BY <1>3 DEF used
  <2>6. proc' \in [Procs -> Handler]
    BY <2>4, <2>5 DEF Typed, TypeOK
  <2>7. Working' /\ Hinted'
    BY <1>1, <2>5 DEF Typed, TypeOK, Working, Hinted, At, Handler
  <2> QED BY <2>6, <2>7 DEF Typed, TypeOK, ReadUsed
<1> QED BY <1>2, <1>3 DEF ReadUsed

LEMMA ClaimType ==
  ASSUME Typed, NEW p \in Procs, Claim(p)
  PROVE  Typed'
<1>1. At(p, "insert") /\ proc[p].attempt \in Attempts /\ ~At(p, "idle")
  BY DEF Claim, At, Typed, Working
<1>2. CASE LaunchFails(p) /\ UNCHANGED ledger
  BY <1>1, <1>2, FailsType DEF Typed, TypeOK, Claim
<1>3. ASSUME NEW v \in VmidRange \ proc[p].used, TookRow(p, v)
      PROVE  Typed'
  <2>1. [attempt |-> proc[p].attempt, vmid |-> v, status |-> "reserving", live |-> TRUE] \in Row
    BY <1>1, <1>3 DEF Row
  <2>2. ledger' \in Seq(Row) /\ Len(ledger) + 1 \in Nat
    BY <2>1, <1>3 DEF Typed, TypeOK, TookRow
  <2>3. proc[p] \in Handler /\ "clone" \in Pcs
    BY DEF Typed, TypeOK, Pcs
  <2>4. [proc[p] EXCEPT !.pc = "clone", !.row = Len(ledger) + 1, !.used = {}] \in Handler
    BY <2>2, <2>3 DEF Handler
  <2>5. proc' \in [Procs -> Handler]
    BY <2>4, <1>3 DEF Typed, TypeOK, TookRow
  <2>6. Working' /\ Hinted'
    BY <1>1, <1>3 DEF Typed, TypeOK, TookRow, Working, Hinted, At, Handler
  <2> QED BY <2>2, <2>5, <2>6 DEF Typed, TypeOK, Claim
<1>4. ASSUME NEW v \in VmidRange \ proc[p].used, UNCHANGED ledger,
             proc' = [proc EXCEPT ![p].used = @ \cup {v}]
      PROVE  Typed'
  <2>1. proc[p] \in Handler /\ v \in Vmids
    BY DEF Typed, TypeOK, Vmids
  <2>2. [proc[p] EXCEPT !.used = proc[p].used \cup {v}] \in Handler
    BY <2>1 DEF Handler
  <2>3. proc' \in [Procs -> Handler]
    BY <2>2, <1>4 DEF Typed, TypeOK
  <2>4. Working' /\ Hinted'
    BY <1>1, <1>4 DEF Typed, TypeOK, Working, Hinted, At, Handler
  <2> QED BY <2>3, <2>4, <1>4 DEF Typed, TypeOK, Claim
<1> QED BY <1>2, <1>3, <1>4 DEF Claim, TookRow

LEMMA CloneVmType ==
  ASSUME Typed, NEW p \in Procs, CloneVm(p)
  PROVE  Typed'
<1>1. At(p, "clone") /\ proc[p].attempt \in Attempts /\ ~At(p, "idle")
  BY DEF CloneVm, At, Typed, Working
<1>2. proc' \in [Procs -> Handler] /\ Working' /\ Hinted'
  BY <1>1, GotoType DEF Typed, Pcs, CloneVm
<1>3. [owner |-> proc[p].attempt, on |-> FALSE] \in Machine
  BY <1>1 DEF Machine
<1>4. vm' \in [Vmids -> Machine]
  BY <1>3 DEF Typed, TypeOK, CloneVm
<1> QED BY <1>2, <1>4 DEF Typed, TypeOK, CloneVm

LEMMA SetupType ==
  ASSUME Typed, NEW p \in Procs, Setup(p)
  PROVE  Typed'
<1>1. At(p, "setup") /\ proc[p].attempt \in Attempts /\ ~At(p, "idle")
  BY DEF Setup, At, Typed, Working
<1>2. proc' \in [Procs -> Handler] /\ Working' /\ Hinted'
  BY <1>1, GotoType DEF Typed, Pcs, Setup
<1>3. vm' \in [Vmids -> Machine]
  BY DEF Typed, TypeOK, Setup, Machine
<1> QED BY <1>2, <1>3 DEF Typed, TypeOK, Setup

LEMMA BootedType ==
  ASSUME Typed, NEW p \in Procs, Booted(p)
  PROVE  Typed'
<1>1. At(p, "started") /\ proc[p].attempt \in Attempts /\ ~At(p, "idle")
  BY DEF Booted, At, Typed, Working
<1>2. \E x \in {"list", "labreq", "publish"} :
        proc' = [proc EXCEPT ![p].pc = x, ![p].clones = @ \cup {proc[p].row}, ![p].row = 0]
  <2> DEFINE more == Cardinality(proc[p].clones) + 1 < VmCount[inst[proc[p].attempt].challenge]
             lab  == Kind(proc[p].attempt) = "lab"
  <2>1. proc' = [proc EXCEPT
          ![p].pc = CASE more          -> "list"
                      [] ~more /\ lab  -> "labreq"
                      [] ~more /\ ~lab -> "publish",
          ![p].clones = @ \cup {proc[p].row}, ![p].row = 0]
    BY DEF Booted
  <2> HIDE DEF more, lab
  <2>2. (CASE more          -> "list"
          [] ~more /\ lab  -> "labreq"
          [] ~more /\ ~lab -> "publish") \in {"list", "labreq", "publish"}
    OBVIOUS
  <2> QED BY <2>1, <2>2
<1> PICK x \in {"list", "labreq", "publish"} :
        proc' = [proc EXCEPT ![p].pc = x, ![p].clones = @ \cup {proc[p].row}, ![p].row = 0]
  BY <1>2
<1>3. proc[p] \in Handler /\ x \in Pcs
  BY DEF Typed, TypeOK, Pcs
<1>4. [proc[p] EXCEPT !.pc = x, !.clones = proc[p].clones \cup {proc[p].row}, !.row = 0] \in Handler
  BY <1>3 DEF Handler
<1>5. proc' \in [Procs -> Handler]
  BY <1>4 DEF Typed, TypeOK
<1>6. Working' /\ Hinted'
  BY <1>1 DEF Typed, TypeOK, Working, Hinted, At, Handler
<1>7. ledger' \in Seq(Row)
  BY RowStatus DEF Typed, Booted, LedgerStep
<1> QED BY <1>5, <1>6, <1>7 DEF Typed, TypeOK, Booted

LEMMA UndoType ==
  ASSUME Typed, NEW p \in Procs, Undo(p)
  PROVE  Typed'
<1>1. At(p, "undo") /\ proc[p].attempt \in Attempts /\ ~At(p, "idle")
  BY DEF Undo, At, Typed, Working
<1>2. proc' \in [Procs -> Handler] /\ Working' /\ Hinted'
  BY <1>1, GotoType DEF Typed, Pcs, Undo
<1>3. vm' \in [Vmids -> Machine]
  BY NoVmType DEF Typed, TypeOK, Undo
<1> QED BY <1>2, <1>3 DEF Typed, TypeOK, Undo

LEMMA DiscardType ==
  ASSUME Typed, NEW p \in Procs, Discard(p)
  PROVE  Typed'
<1>1. At(p, "discard") /\ proc[p].attempt \in Attempts /\ ~At(p, "idle")
  BY DEF Discard, At, Typed, Working
<1>2. proc' \in [Procs -> Handler] /\ Working' /\ Hinted'
  BY <1>1, FailsType DEF Typed, Discard
<1>3. ledger' \in Seq(Row)
  BY RowRetired DEF Typed, Discard, Retires, LedgerStep
<1> QED BY <1>2, <1>3 DEF Typed, TypeOK, Discard

LEMMA LabRequestType ==
  ASSUME Typed, NEW p \in Procs, LabRequest(p)
  PROVE  Typed'
<1>1. At(p, "labreq") /\ proc[p].attempt \in Attempts /\ ~At(p, "idle")
  BY DEF LabRequest, At, Typed, Working
<1>2. proc' \in [Procs -> Handler] /\ Working' /\ Hinted'
  BY <1>1, GotoType, FailsType DEF Typed, Pcs, LabRequest
<1>3. inst' \in [Attempts -> Attempt]
  BY <1>1, LabType DEF Typed, TypeOK, LabRequest, LabStatus
<1> QED BY <1>2, <1>3 DEF Typed, TypeOK, LabRequest

LEMMA LabStartType ==
  ASSUME Typed, NEW p \in Procs, LabStart(p)
  PROVE  Typed'
<1>1. At(p, "labstart") /\ proc[p].attempt \in Attempts /\ ~At(p, "idle")
  BY DEF LabStart, At, Typed, Working
<1>2. proc' \in [Procs -> Handler] /\ Working' /\ Hinted'
  BY <1>1, GotoType DEF Typed, Pcs, LabStart
<1> QED BY <1>1, <1>2 DEF Typed, TypeOK, LabStart

LEMMA LabOkType ==
  ASSUME Typed, NEW p \in Procs, LabOk(p)
  PROVE  Typed'
<1>1. At(p, "labok") /\ proc[p].attempt \in Attempts /\ ~At(p, "idle")
  BY DEF LabOk, At, Typed, Working
<1>2. proc' \in [Procs -> Handler] /\ Working' /\ Hinted'
  BY <1>1, GotoType DEF Typed, Pcs, LabOk
<1>3. inst' \in [Attempts -> Attempt]
  BY <1>1, LabType DEF Typed, LabOk, LabStatus
<1> QED BY <1>2, <1>3 DEF Typed, TypeOK, LabOk

LEMMA LabBadType ==
  ASSUME Typed, NEW p \in Procs, LabBad(p)
  PROVE  Typed'
<1>1. At(p, "labbad") /\ proc[p].attempt \in Attempts /\ ~At(p, "idle")
  BY DEF LabBad, At, Typed, Working
<1>2. proc' \in [Procs -> Handler] /\ Working' /\ Hinted'
  BY <1>1, FailsType DEF Typed, LabBad
<1>3. inst' \in [Attempts -> Attempt]
  BY <1>1, LabType DEF Typed, LabBad, LabStatus
<1> QED BY <1>2, <1>3 DEF Typed, TypeOK, LabBad

LEMMA PublishType ==
  ASSUME Typed, NEW p \in Procs, Publish(p)
  PROVE  Typed'
<1>1. At(p, "publish") /\ proc[p].attempt \in Attempts /\ ~At(p, "idle")
  BY DEF Publish, At, Typed, Working
<1>2. proc' \in [Procs -> Handler] /\ Working' /\ Hinted'
  BY <1>1, DoneType, FailsType DEF Typed, Publish
<1>3. inst' \in [Attempts -> Attempt]
  BY <1>1, StatusType DEF Typed, TypeOK, Publish, Active
<1> QED BY <1>2, <1>3 DEF Typed, TypeOK, Publish

LEMMA AbandonType ==
  ASSUME Typed, NEW p \in Procs, Abandon(p)
  PROVE  Typed'
<1>1. At(p, "abandon") /\ proc[p].attempt \in Attempts
  BY DEF Abandon, At, Typed, Working
<1>2. proc' \in [Procs -> Handler] /\ Working' /\ Hinted'
  BY DoneType DEF Typed, Abandon
<1>3. inst' \in [Attempts -> Attempt]
  BY <1>1, StatusType DEF Typed, Abandon, Terminal
<1> QED BY <1>2, <1>3 DEF Typed, TypeOK, Abandon

LEMMA RecordType ==
  ASSUME Typed, NEW p \in Procs, Record(p)
  PROVE  Typed'
<1>1. At(p, "closing") /\ proc[p].attempt \in Attempts /\ ~At(p, "idle")
  BY DEF Record, At, Typed, Working
<1>2. proc[p] \in Handler /\ "lab" \in Pcs /\ RowsOf(proc[p].attempt) \subseteq Nat
  BY DEF Typed, TypeOK, Pcs, RowsOf, LiveRows
<1>3. [proc[p] EXCEPT !.pc = "lab", !.todo = RowsOf(proc[p].attempt)] \in Handler
  BY <1>2 DEF Handler
<1>4. proc' \in [Procs -> Handler]
  BY <1>3 DEF Typed, TypeOK, Record
<1>5. Working' /\ Hinted'
  BY <1>1 DEF Typed, TypeOK, Record, Working, Hinted, At, Handler
<1>6. inst' \in [Attempts -> Attempt]
  <2>1. proc[p].outcome \in {"none"} \cup Active \cup Terminal
    BY <1>2 DEF Handler
  <2> QED BY <1>1, <2>1 DEF Typed, TypeOK, Record, Status, Attempt
<1> QED BY <1>4, <1>5, <1>6 DEF Typed, TypeOK, Record

LEMMA LabStopBeginType ==
  ASSUME Typed, NEW p \in Procs, LabStopBegin(p)
  PROVE  Typed'
<1>1. At(p, "lab") /\ proc[p].attempt \in Attempts /\ ~At(p, "idle")
  BY DEF LabStopBegin, At, Typed, Working
<1>2. proc' \in [Procs -> Handler] /\ Working' /\ Hinted'
  BY <1>1, GotoType, DoneType DEF Typed, Pcs, LabStopBegin, AfterLab
<1>3. inst' \in [Attempts -> Attempt]
  BY <1>1, LabType DEF Typed, TypeOK, LabStopBegin, LabStatus
<1> QED BY <1>2, <1>3 DEF Typed, TypeOK, LabStopBegin

LEMMA LabStopCallType ==
  ASSUME Typed, NEW p \in Procs, LabStopCall(p)
  PROVE  Typed'
<1>1. At(p, "labcall") /\ proc[p].attempt \in Attempts /\ ~At(p, "idle")
  BY DEF LabStopCall, At, Typed, Working
<1>2. proc' \in [Procs -> Handler] /\ Working' /\ Hinted'
  BY <1>1, GotoType, DoneType DEF Typed, Pcs, LabStopCall, AfterLab
<1>3. inst' \in [Attempts -> Attempt]
  BY <1>1, LabType DEF Typed, TypeOK, LabStopCall, LabStatus
<1> QED BY <1>2, <1>3 DEF Typed, TypeOK, LabStopCall

LEMMA LabStopAckType ==
  ASSUME Typed, NEW p \in Procs, LabStopAck(p)
  PROVE  Typed'
<1>1. At(p, "labdone") /\ proc[p].attempt \in Attempts /\ ~At(p, "idle")
  BY DEF LabStopAck, At, Typed, Working
<1>2. proc' \in [Procs -> Handler] /\ Working' /\ Hinted'
  BY <1>1, GotoType, DoneType DEF Typed, Pcs, LabStopAck, AfterLab
<1>3. inst' \in [Attempts -> Attempt]
  BY <1>1, LabType DEF Typed, LabStopAck, LabStatus
<1> QED BY <1>2, <1>3 DEF Typed, TypeOK, LabStopAck

LEMMA DestroyType ==
  ASSUME Typed, NEW p \in Procs, Destroy(p)
  PROVE  Typed'
<1>1. At(p, "destroy") /\ proc[p].attempt \in Attempts /\ ~At(p, "idle")
  BY DEF Destroy, At, Typed, Working
<1>2. \/ Goto(p, "mark") \/ Done(p)
      \/ proc' = [proc EXCEPT ![p].todo = @ \ {Doomed(p)}]
  BY DEF Destroy
<1>3. ASSUME proc' = [proc EXCEPT ![p].todo = @ \ {Doomed(p)}]
      PROVE  proc' \in [Procs -> Handler] /\ Working' /\ Hinted'
  <2>1. proc[p] \in Handler
    BY DEF Typed, TypeOK
  <2>2. [proc[p] EXCEPT !.todo = proc[p].todo \ {Doomed(p)}] \in Handler
    BY <2>1 DEF Handler
  <2>3. proc' \in [Procs -> Handler]
    BY <1>3, <2>2 DEF Typed, TypeOK
  <2>4. Working' /\ Hinted'
    BY <1>1, <1>3 DEF Typed, TypeOK, Working, Hinted, At, Handler
  <2> QED BY <2>3, <2>4
<1>4. proc' \in [Procs -> Handler] /\ Working' /\ Hinted'
  BY <1>1, <1>2, <1>3, GotoType, DoneType DEF Typed, Pcs
<1>5. vm' \in [Vmids -> Machine]
  <2>1. [vm EXCEPT ![DoomedVmid(p)] = NoVm] \in [Vmids -> Machine]
    BY NoVmType DEF Typed, TypeOK
  <2>2. [vm EXCEPT ![DoomedVmid(p)].on = FALSE] \in [Vmids -> Machine]
    BY DEF Typed, TypeOK, Machine
  <2> QED BY <2>1, <2>2 DEF Typed, TypeOK, Destroy
<1>6. ledger' \in Seq(Row)
  BY RowStatus DEF Typed, TypeOK, Destroy, LedgerStep
<1> QED BY <1>4, <1>5, <1>6 DEF Typed, TypeOK, Destroy

LEMMA MarkType ==
  ASSUME Typed, NEW p \in Procs, Mark(p)
  PROVE  Typed'
<1>1. At(p, "mark") /\ proc[p].attempt \in Attempts /\ ~At(p, "idle")
  BY DEF Mark, At, Typed, Working
<1>2. PICK x \in {"dropnet", "destroy"} :
        proc' = [proc EXCEPT ![p].pc = x, ![p].todo = @ \ {Doomed(p)}]
  BY DEF Mark
<1>3. proc[p] \in Handler /\ x \in Pcs
  BY DEF Typed, TypeOK, Pcs
<1>4. [proc[p] EXCEPT !.pc = x, !.todo = proc[p].todo \ {Doomed(p)}] \in Handler
  BY <1>3 DEF Handler
<1>5. proc' \in [Procs -> Handler]
  BY <1>2, <1>4 DEF Typed, TypeOK
<1>6. Working' /\ Hinted'
  BY <1>1, <1>2 DEF Typed, TypeOK, Working, Hinted, At, Handler
<1>7. ledger' \in Seq(Row)
  BY RowsDestroyed DEF Typed, Mark, LedgerStep
<1> QED BY <1>5, <1>6, <1>7 DEF Typed, TypeOK, Mark

LEMMA EmptiedType ==
  ASSUME Typed, NEW p \in Procs, Emptied(p)
  PROVE  Typed'
<1>1. At(p, "destroy") /\ proc[p].attempt \in Attempts /\ ~At(p, "idle")
  BY DEF Emptied, At, Typed, Working
<1>2. Done(p) \/ Goto(p, "dropnet") \/ Goto(p, "abandon")
  BY DEF Emptied
<1>3. proc' \in [Procs -> Handler] /\ Working' /\ Hinted'
  BY <1>1, <1>2, GotoType, DoneType DEF Typed, Pcs
<1> QED BY <1>3 DEF Typed, TypeOK, Emptied

LEMMA DropNetType ==
  ASSUME Typed, NEW p \in Procs, DropNet(p)
  PROVE  Typed'
<1>1. At(p, "dropnet") /\ ~At(p, "idle")
  BY DEF DropNet, At
<1>2. proc' \in [Procs -> Handler] /\ Working' /\ Hinted'
  BY <1>1, GotoType, DoneType DEF Typed, Pcs, DropNet
<1> QED BY <1>2 DEF Typed, TypeOK, DropNet

LEMMA CrashType ==
  ASSUME Typed, NEW p \in Procs, Crash(p)
  PROVE  Typed'
<1>1. proc' \in [Procs -> Handler] /\ Working' /\ Hinted'
  BY DoneType DEF Typed, Crash
<1>2. crashes' \in 0 .. MaxCrashes
  BY BoundAssumption DEF Typed, TypeOK, Crash
<1> QED BY <1>1, <1>2 DEF Typed, TypeOK, Crash

LEMMA ArrivalType ==
  ASSUME Typed, NEW p \in Requests, NEW a \in Attempts, Arrival(p, a)
  PROVE  Typed'
<1>1. p \in Procs
  BY DEF Procs
<1> DEFINE Started == proc' \in [Procs -> Handler] /\ Working' /\ Hinted'
<1>2. \A o \in Terminal : Closing(p, a, o) => Started
  BY <1>1, StartType DEF Typed, Closing, Pcs, Jobs
<1>3. Admit(p, a) => Started
  BY <1>1, StartType DEF Typed, Admit, Pcs, Jobs
<1>4. RetryCleanup(p, a) => Started
  BY <1>1, StartType DEF Typed, RetryCleanup, Pcs, Jobs
<1>5. Started
  BY <1>2, <1>3, <1>4 DEF Arrival, LastFlag, StudentClose, StaffClose, Terminal
<1>6. UNCHANGED <<inst, ledger, vm, vnet, labUp, crashes>>
  <2>1. \A o \in Terminal : Closing(p, a, o) => UNCHANGED <<inst, ledger, vm, vnet, labUp, crashes>>
    BY DEF Closing
  <2> QED BY <2>1 DEF Arrival, Admit, LastFlag, StudentClose, StaffClose, RetryCleanup, Terminal
<1> QED BY <1>5, <1>6 DEF Typed, TypeOK

LEMMA ReapType ==
  ASSUME Typed, NEW a \in Attempts, Reap(a)
  PROVE  Typed'
<1>1. Reaper \in Procs
  BY DEF Procs
<1>2. proc' \in [Procs -> Handler] /\ Working' /\ Hinted'
  BY <1>1, StartType DEF Typed, Reap, Closing, Pcs, Jobs, Terminal
<1> QED BY <1>2 DEF Typed, TypeOK, Reap, Closing

-----------------------------------------------------------------------------
(* Every action keeps the numbers apart.                                   *)

LEMMA KeepsUnique ==
  ASSUME TypeOK, LedgerUnique, Spared, NEW R, LedgerStep(R)
  PROVE  LedgerUnique' /\ Spared'
BY LedgerFacts DEF LedgerUnique, Spared, LedgerStep, LiveRows

LEMMA SameLedger ==
  ASSUME LedgerUnique, Spared, UNCHANGED ledger
  PROVE  LedgerUnique' /\ Spared'
BY DEF LedgerUnique, Spared, LiveRows

LEMMA ClaimKeeps ==
  ASSUME Typed, LedgerUnique, Spared, NEW p \in Procs, At(p, "insert"),
         NEW v \in VmidRange \ proc[p].used, TookRow(p, v)
  PROVE  LedgerUnique' /\ Spared'
<1> DEFINE row == [attempt |-> proc[p].attempt, vmid |-> v, status |-> "reserving", live |-> TRUE]
<1>1. row \in Row
  BY DEF Typed, Working, At, Row
<1>2. v \notin Protected
  BY DEF Typed, Hinted
<1>3. row.vmid = v
  OBVIOUS
<1>4. ledger' = Append(ledger, row)
  BY DEF TookRow
<1> HIDE DEF row
<1>5. /\ Len(ledger') = Len(ledger) + 1
      /\ \A r \in 1 .. Len(ledger) + 1 :
           ledger'[r] = IF r = Len(ledger) + 1 THEN row ELSE ledger[r]
  BY <1>1, <1>4, LedgerFacts DEF Typed, TypeOK
<1>6. \A r \in LiveRows : ledger[r].vmid # v
  BY DEF TookRow, IndexAllows, LiveVmids
<1> QED BY <1>2, <1>3, <1>5, <1>6, LedgerFacts DEF Typed, LedgerUnique, Spared, LiveRows

-----------------------------------------------------------------------------
(* Who holds a number, before and after a step.                            *)

LEMMA HolderNow ==
  ASSUME TypeOK, LedgerUnique
  PROVE  \A v \in VmidRange :
           /\ \A r \in LiveRows : ledger[r].vmid = v => Holder[v] = ledger[r].attempt
           /\ (\A r \in LiveRows : ledger[r].vmid # v) => Holder[v] = None
<1> SUFFICES ASSUME NEW v \in VmidRange
             PROVE  /\ \A r \in LiveRows : ledger[r].vmid = v => Holder[v] = ledger[r].attempt
                    /\ (\A r \in LiveRows : ledger[r].vmid # v) => Holder[v] = None
  OBVIOUS
<1>1. Holder[v] = IF LiveOn(v) = {} THEN None ELSE ledger[CHOOSE r \in LiveOn(v) : TRUE].attempt
  BY DEF Holder
<1>2. LiveOn(v) = {r \in LiveRows : ledger[r].vmid = v}
  BY DEF LiveOn, LiveRows
<1>3. ASSUME NEW r \in LiveRows, ledger[r].vmid = v
      PROVE  LiveOn(v) = {r}
  BY <1>2, <1>3 DEF LedgerUnique
<1> QED BY <1>1, <1>2, <1>3

LEMMA HolderNext ==
  ASSUME LedgerUnique'
  PROVE  \A v \in VmidRange :
           /\ \A r \in LiveRows' : ledger'[r].vmid = v => Holder'[v] = ledger'[r].attempt
           /\ (\A r \in LiveRows' : ledger'[r].vmid # v) => Holder'[v] = None
<1> SUFFICES ASSUME NEW v \in VmidRange
             PROVE  /\ \A r \in LiveRows' : ledger'[r].vmid = v => Holder'[v] = ledger'[r].attempt
                    /\ (\A r \in LiveRows' : ledger'[r].vmid # v) => Holder'[v] = None
  OBVIOUS
<1>1. Holder'[v] = IF LiveOn(v)' = {} THEN None
                   ELSE ledger'[CHOOSE r \in LiveOn(v)' : TRUE].attempt
  BY DEF Holder
<1>2. LiveOn(v)' = {r \in LiveRows' : ledger'[r].vmid = v}
  BY DEF LiveOn, LiveRows
<1>3. ASSUME NEW r \in LiveRows', ledger'[r].vmid = v
      PROVE  LiveOn(v)' = {r}
  BY <1>2, <1>3 DEF LedgerUnique
<1> QED BY <1>1, <1>2, <1>3

LEMMA HolderFunction ==
  /\ Holder  = [v \in VmidRange |-> Holder[v]]
  /\ Holder' = [v \in VmidRange |-> Holder'[v]]
BY DEF Holder

\* A step that retires no live row moves no number.
LEMMA HolderKept ==
  ASSUME TypeOK, LedgerUnique, Spared, NEW R, LedgerStep(R), R \cap LiveRows = {}
  PROVE  Holder' = Holder
<1>1. LedgerUnique'
  BY KeepsUnique
<1>2. LiveRows' = LiveRows
  BY DEF LedgerStep, LiveRows
<1>3. \A v \in VmidRange : Holder'[v] = Holder[v]
  <2> TAKE v \in VmidRange
  <2>1. CASE \E r \in LiveRows : ledger[r].vmid = v
    BY <1>1, <1>2, <2>1, HolderNow, HolderNext DEF LedgerStep, LiveRows
  <2>2. CASE \A r \in LiveRows : ledger[r].vmid # v
    BY <1>1, <1>2, <2>2, HolderNow, HolderNext DEF LedgerStep, LiveRows
  <2> QED BY <2>1, <2>2
<1> QED BY <1>3, HolderFunction

\* A step that retires one live row gives its number up.
LEMMA HolderReleases ==
  ASSUME TypeOK, LedgerUnique, Spared, NEW R, LedgerStep(R),
         NEW r \in LiveRows, R \cap LiveRows = {r}
  PROVE  Numbers!Release(ledger[r].vmid) /\ ledger[r].vmid \in VmidRange
<1>1. LedgerUnique'
  BY KeepsUnique
<1>2. LiveRows' = LiveRows \ {r}
  BY DEF LedgerStep, LiveRows
<1>3. ledger[r] \in Row
  BY LedgerFacts DEF LiveRows
<1>4. ledger[r].vmid \in VmidRange /\ ledger[r].attempt \in Attempts
  BY <1>3 DEF Row
<1>5. Holder[ledger[r].vmid] = ledger[r].attempt /\ ledger[r].attempt # None
  BY <1>4, HolderNow, AttemptAssumption
<1>6. \A v \in VmidRange : Holder'[v] = IF v = ledger[r].vmid THEN None ELSE Holder[v]
  <2> TAKE v \in VmidRange
  <2>1. CASE v = ledger[r].vmid
    <3>1. \A s \in LiveRows' : ledger'[s].vmid # v
      BY <1>2, <2>1 DEF LedgerUnique, LedgerStep, LiveRows
    <3> QED BY <1>1, <2>1, <3>1, HolderNext
  <2>2. CASE v # ledger[r].vmid /\ \E s \in LiveRows : ledger[s].vmid = v
    BY <1>1, <1>2, <2>2, HolderNow, HolderNext DEF LedgerStep, LiveRows
  <2>3. CASE v # ledger[r].vmid /\ \A s \in LiveRows : ledger[s].vmid # v
    BY <1>1, <1>2, <2>3, HolderNow, HolderNext DEF LedgerStep, LiveRows
  <2> QED BY <2>1, <2>2, <2>3
<1>7. Holder' = [Holder EXCEPT ![ledger[r].vmid] = None]
  BY <1>4, <1>6, HolderFunction
<1> QED BY <1>4, <1>5, <1>7 DEF Numbers!Release

\* Steps that retire rows of one number move the abstract ledger, or not.
LEMMA RetireImplements ==
  ASSUME TypeOK, LedgerUnique, Spared, NEW R, LedgerStep(R),
         \A r, s \in R \cap LiveRows : r = s
  PROVE  [Numbers!Next]_Holder
<1>1. CASE R \cap LiveRows = {}
  BY <1>1, HolderKept
<1>2. CASE R \cap LiveRows # {}
  <2>1. PICK r \in LiveRows : R \cap LiveRows = {r}
    BY <1>2
  <2> QED BY <2>1, HolderReleases DEF Numbers!Next
<1> QED BY <1>1, <1>2

LEMMA ClaimImplements ==
  ASSUME Typed, LedgerUnique, Spared, NEW p \in Procs, At(p, "insert"),
         NEW v \in VmidRange \ proc[p].used, TookRow(p, v)
  PROVE  Numbers!Reserve(v, proc[p].attempt)
<1> DEFINE row == [attempt |-> proc[p].attempt, vmid |-> v, status |-> "reserving", live |-> TRUE]
<1>1. row \in Row /\ row.vmid = v /\ row.attempt = proc[p].attempt /\ row.live
  BY DEF Typed, Working, At, Row
<1>2. v \notin Protected
  BY DEF Typed, Hinted
<1>3. ledger' = Append(ledger, row)
  BY DEF TookRow
<1> HIDE DEF row
<1>4. /\ Len(ledger') = Len(ledger) + 1
      /\ \A r \in 1 .. Len(ledger) + 1 :
           ledger'[r] = IF r = Len(ledger) + 1 THEN row ELSE ledger[r]
  BY <1>1, <1>3, LedgerFacts DEF Typed, TypeOK
<1>5. \A r \in LiveRows : ledger[r].vmid # v
  BY DEF TookRow, IndexAllows, LiveVmids
<1>6. LedgerUnique'
  BY ClaimKeeps
<1>7. LiveRows' = LiveRows \cup {Len(ledger) + 1}
  BY <1>1, <1>4, LedgerFacts DEF Typed, LiveRows
<1>8. Holder[v] = None
  BY <1>5, HolderNow DEF Typed
<1>9. \A w \in VmidRange : Holder'[w] = IF w = v THEN proc[p].attempt ELSE Holder[w]
  <2> TAKE w \in VmidRange
  <2>1. CASE w = v
    <3>1. Len(ledger) + 1 \in LiveRows' /\ ledger'[Len(ledger) + 1] = row
      BY <1>4, <1>7, LedgerFacts DEF Typed
    <3> QED BY <1>1, <1>6, <2>1, <3>1, HolderNext
  <2>2. CASE w # v /\ \E s \in LiveRows : ledger[s].vmid = w
    <3>1. PICK s \in LiveRows : ledger[s].vmid = w
      BY <2>2
    <3>2. s \in LiveRows' /\ ledger'[s] = ledger[s]
      BY <1>4, <1>7, LedgerFacts DEF Typed, LiveRows
    <3> QED BY <1>6, <2>2, <3>1, <3>2, HolderNow, HolderNext DEF Typed
  <2>3. CASE w # v /\ \A s \in LiveRows : ledger[s].vmid # w
    <3>1. \A s \in LiveRows' : ledger'[s].vmid # w
      BY <1>1, <1>4, <1>7, <2>3, LedgerFacts DEF Typed, LiveRows
    <3> QED BY <1>6, <2>3, <3>1, HolderNow, HolderNext DEF Typed
  <2> QED BY <2>1, <2>2, <2>3
<1>10. Holder' = [Holder EXCEPT ![v] = proc[p].attempt]
  BY <1>9, HolderFunction
<1> QED BY <1>2, <1>8, <1>10 DEF Numbers!Reserve

-----------------------------------------------------------------------------
(* What each step does to the ledger.                                      *)

\* Nothing, a row's status, the rows of one number, or a claim.
LedgerMove ==
  \/ UNCHANGED ledger
  \/ \E R : LedgerStep(R) /\ \A r, s \in R \cap LiveRows : r = s
  \/ \E p \in Procs : At(p, "insert") /\ \E v \in VmidRange \ proc[p].used : TookRow(p, v)

LEMMA StepMoves ==
  ASSUME Typed, LedgerUnique, NEW p \in Procs, Step(p)
  PROVE  LedgerMove
<1>1. CASE Claim(p)
  BY <1>1 DEF Claim, TookRow, LedgerMove
<1>2. CASE Booted(p)
  <2>1. LedgerStep({})
    BY <1>2, RowStatus DEF Typed, Booted
  <2> QED BY <2>1 DEF LedgerMove
<1>3. CASE Discard(p)
  <2>1. LedgerStep({proc[p].row})
    BY <1>3, RowRetired DEF Typed, Discard, Retires
  <2> QED BY <2>1 DEF LedgerMove
<1>4. CASE Destroy(p)
  <2>1. UNCHANGED ledger \/ LedgerStep({})
    BY <1>4, RowStatus DEF Typed, Destroy
  <2> QED BY <2>1 DEF LedgerMove
<1>5. CASE Mark(p)
  <2> DEFINE hit == {r \in LiveRows : ledger[r].vmid = DoomedVmid(p)}
  <2>1. LedgerStep(hit)
    BY <1>5, RowsDestroyed DEF Typed, Mark
  <2>2. \A r, s \in hit \cap LiveRows : r = s
    BY DEF LedgerUnique
  <2> HIDE DEF hit
  <2> QED BY <2>1, <2>2 DEF LedgerMove
<1>6. CASE \/ Open(p) \/ MakeNet(p) \/ NameNet(p) \/ ReadUsed(p) \/ CloneVm(p) \/ Setup(p)
           \/ Undo(p) \/ LabRequest(p) \/ LabStart(p) \/ LabOk(p) \/ LabBad(p) \/ Publish(p)
           \/ Abandon(p) \/ Record(p) \/ LabStopBegin(p) \/ LabStopCall(p) \/ LabStopAck(p)
           \/ Emptied(p) \/ DropNet(p)
  BY <1>6 DEF LedgerMove, Open, MakeNet, NameNet, ReadUsed, CloneVm, Setup, Undo, LabRequest,
     LabStart, LabOk, LabBad, Publish, Abandon, Record, LabStopBegin, LabStopCall, LabStopAck,
     Emptied, DropNet
<1> QED BY <1>1, <1>2, <1>3, <1>4, <1>5, <1>6 DEF Step, LaunchStep, TeardownStep

LEMMA NextMoves ==
  ASSUME Typed, LedgerUnique, [Next]_vars
  PROVE  LedgerMove
<1>1. CASE \E p \in Requests, a \in Attempts : Arrival(p, a)
  BY <1>1 DEF LedgerMove, Arrival, Admit, LastFlag, StudentClose, StaffClose, RetryCleanup, Closing
<1>2. CASE \E a \in Attempts : Reap(a)
  BY <1>2 DEF LedgerMove, Reap, Closing
<1>3. CASE \E p \in Procs : Step(p)
  BY <1>3, StepMoves
<1>4. CASE \E p \in Procs : Crash(p)
  BY <1>4 DEF LedgerMove, Crash
<1>5. CASE UNCHANGED vars
  BY <1>5 DEF LedgerMove, vars
<1> QED BY <1>1, <1>2, <1>3, <1>4, <1>5 DEF Next

LEMMA MoveKeepsUnique ==
  ASSUME IInv, LedgerMove
  PROVE  LedgerUnique' /\ Spared'
BY KeepsUnique, SameLedger, ClaimKeeps DEF IInv, Typed, LedgerMove

LEMMA MoveImplements ==
  ASSUME IInv, LedgerMove
  PROVE  [Numbers!Next]_Holder
<1>1. CASE UNCHANGED ledger
  BY <1>1 DEF Holder, LiveOn
<1>2. CASE \E R : LedgerStep(R) /\ \A r, s \in R \cap LiveRows : r = s
  BY <1>2, RetireImplements DEF IInv
<1>3. CASE \E p \in Procs : At(p, "insert") /\ \E v \in VmidRange \ proc[p].used : TookRow(p, v)
  <2> PICK p \in Procs : At(p, "insert") /\ \E v \in VmidRange \ proc[p].used : TookRow(p, v)
    BY <1>3
  <2>1. PICK v \in VmidRange \ proc[p].used : TookRow(p, v)
    OBVIOUS
  <2>2. Numbers!Reserve(v, proc[p].attempt)
    BY <2>1, ClaimImplements DEF IInv, Typed
  <2>3. proc[p].attempt \in Attempts
    BY DEF IInv, Working, At
  <2> QED BY <2>2, <2>3 DEF Numbers!Next
<1> QED BY <1>1, <1>2, <1>3 DEF LedgerMove

-----------------------------------------------------------------------------
(* The theorems.                                                           *)

LEMMA StepTyped ==
  ASSUME Typed, NEW p \in Procs, Step(p)
  PROVE  Typed'
BY OpenType, MakeNetType, NameNetType, ReadUsedType, ClaimType, CloneVmType,
   SetupType, BootedType, UndoType, DiscardType, LabRequestType, LabStartType,
   LabOkType, LabBadType, PublishType, AbandonType, RecordType, LabStopBeginType,
   LabStopCallType, LabStopAckType, DestroyType, MarkType, EmptiedType, DropNetType
   DEF Step, LaunchStep, TeardownStep

LEMMA NextTyped ==
  ASSUME Typed, [Next]_vars
  PROVE  Typed'
<1>1. CASE Next
  <2>1. CASE \E p \in Requests, a \in Attempts : Arrival(p, a)
    BY <2>1, ArrivalType
  <2>2. CASE \E a \in Attempts : Reap(a)
    BY <2>2, ReapType
  <2>3. CASE \E p \in Procs : Step(p)
    BY <2>3, StepTyped
  <2>4. CASE \E p \in Procs : Crash(p)
    BY <2>4, CrashType
  <2> QED BY <1>1, <2>1, <2>2, <2>3, <2>4 DEF Next
<1>2. CASE UNCHANGED vars
  BY <1>2 DEF vars, Typed, TypeOK, Working, Hinted, At
<1> QED BY <1>1, <1>2

LEMMA InitInvariant == Init => IInv
<1> SUFFICES ASSUME Init PROVE IInv
  OBVIOUS
<1>1. inst \in [Attempts -> Attempt]
  BY DEF Init, Attempt, LabStatus
<1>2. ledger \in Seq(Row) /\ Len(ledger) = 0
  BY DEF Init
<1>3. vm \in [Vmids -> Machine]
  BY DEF Init, Machine, NoVm, Foreign
<1>4. proc \in [Procs -> Handler]
  BY IdleType DEF Init
<1>5. Working /\ Hinted
  BY DEF Init, Working, Hinted, At, Idle
<1>6. Spared /\ LedgerUnique
  BY <1>2 DEF Spared, LedgerUnique, LiveRows
<1>7. TypeOK
  <2>1. vnet \subseteq Attempts /\ labUp \subseteq Attempts
    BY DEF Init
  <2>2. crashes \in 0 .. MaxCrashes
    BY BoundAssumption DEF Init
  <2> QED BY <1>1, <1>2, <1>3, <1>4, <2>1, <2>2 DEF TypeOK
<1> QED BY <1>5, <1>6, <1>7 DEF IInv

\* The inductive invariant holds in every reachable state.
THEOREM RangeInvariant == Spec => []IInv
<1>1. IInv /\ [Next]_vars => IInv'
  BY NextTyped, NextMoves, MoveKeepsUnique DEF IInv, Typed
<1> QED BY InitInvariant, <1>1, PTL DEF Spec

\* Types are kept, and the VMIDs of ledger rows stay in the range.
THEOREM RangeTypeOK == Spec => []TypeOK
BY RangeInvariant, PTL DEF IInv

\* Two live rows never name the same machine, however claimers interleave.
THEOREM RangeLedgerUnique == Spec => []LedgerUnique
BY RangeInvariant, PTL DEF IInv

\* A number is reserved only when free, given up before it is reused, and
\* never protected: the ledger of machines implements VmidLedger.
THEOREM RangeImplementsLedger == Spec => LedgerRefines
<1>1. Init => Numbers!Init
  <2> SUFFICES ASSUME Init PROVE Numbers!Init
    OBVIOUS
  <2>1. \A v \in VmidRange : LiveOn(v) = {}
    BY DEF Init, LiveOn
  <2> QED BY <2>1 DEF Numbers!Init, Holder
<1>2. IInv /\ [Next]_vars => [Numbers!Next]_Holder
  BY NextMoves, MoveImplements DEF IInv, Typed
<1> QED BY <1>1, <1>2, RangeInvariant, PTL DEF Spec, LedgerRefines, Numbers!Spec

=============================================================================
