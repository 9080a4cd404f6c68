---------------------------- MODULE SessionRange ----------------------------
(***************************************************************************)
(* The life of a student's attempt at a challenge: launch, close, reaping. *)
(*                                                                         *)
(* Several gunicorn workers share one SQLite file and one Proxmox cluster. *)
(* A request handler commits to the database many times on its way, and    *)
(* talks to Proxmox and to the Docker challenge server between commits, so *)
(* the steps of two handlers interleave at every commit and at every call. *)
(* Each action below is what one handler does between two such points.     *)
(*                                                                         *)
(*   inst    the challenge_instances rows (one per attempt)                *)
(*   ledger  the vm_instances rows in vm_instance_id order                 *)
(*   vm      the virtual machines Proxmox really holds, by VMID            *)
(*   vnet    the attempts whose session VNet exists on Proxmox             *)
(*   labUp   the attempts whose Docker session is up on its server         *)
(*   proc    the request handlers and the reaper, each between two steps   *)
(***************************************************************************)
EXTENDS Integers, FiniteSets, Sequences

CONSTANTS
  Users,        \* students
  Attempts,     \* the instance ids the database will hand out
  UserOf,       \* [Attempts -> Users]: whose launch gets that id
  Challenges,   \* published challenges
  KindOf,       \* [Challenges -> Kinds]: how each one is run
  VmCount,      \* [Challenges -> Nat]: how many machines its launch clones
  Requests,     \* web request handlers
  Reaper,       \* the timer-driven reap_sessions() process
  RangeStart, RangeEnd,  \* DEFAULT_VMID_RANGE
  Protected,    \* PROTECTED_VMIDS, kept for another project
  Others,       \* those of them on which it has a machine
  SlowLaunch,   \* may a launch outlast PROVISIONING_GRACE?
  MaxCrashes,   \* how many processes die in the middle of their work
  None          \* no attempt

Kinds == {"offline", "vm", "workstation", "lab"}
VmidRange == RangeStart .. RangeEnd
Vmids == VmidRange \cup Protected
Procs == Requests \cup {Reaper}

ASSUME RangeAssumption ==
  /\ RangeStart \in Nat /\ RangeEnd \in Nat
  /\ Protected \subseteq Nat /\ Others \subseteq Protected
ASSUME AttemptAssumption ==
  /\ UserOf \in [Attempts -> Users]
  /\ KindOf \in [Challenges -> Kinds]
  /\ VmCount \in [Challenges -> Nat]
  /\ None \notin Attempts \cup Challenges
\* An offline challenge clones none; launch() refuses any other one to which
\* no template is assigned.
ASSUME CountAssumption ==
  \A c \in Challenges : VmCount[c] = 0 <=> KindOf[c] = "offline"
ASSUME BoundAssumption == MaxCrashes \in Nat /\ SlowLaunch \in BOOLEAN

ASSUME ProcAssumption == Reaper \notin Requests

VARIABLES inst, ledger, vm, vnet, labUp, proc, crashes
vars == <<inst, ledger, vm, vnet, labUp, proc, crashes>>

Active   == {"provisioning", "running"}
Terminal == {"complete", "abandoned"}
NoVm     == [owner |-> None, on |-> FALSE]
Foreign  == [owner |-> "foreign", on |-> TRUE]   \* another project's machine

Idle == [pc |-> "idle", job |-> "none", attempt |-> None, outcome |-> "none",
         clones |-> {}, todo |-> {}, used |-> {}, row |-> 0]

LiveRows    == {r \in 1 .. Len(ledger) : ledger[r].live}
LiveVmids   == {ledger[r].vmid : r \in LiveRows}
RowsOf(a)   == {r \in LiveRows : ledger[r].attempt = a}

Kind(a)      == KindOf[inst[a].challenge]

Launching(a) == \E p \in Procs : proc[p].attempt = a /\ proc[p].job = "launch"

-----------------------------------------------------------------------------
Init ==
  /\ inst   = [a \in Attempts |-> [status |-> "none", challenge |-> None, net |-> FALSE,
                                   lab |-> "not_requested"]]
  /\ ledger = <<>>
  /\ vm     = [v \in Vmids |-> IF v \in Others THEN Foreign ELSE NoVm]
  /\ vnet   = {}
  /\ labUp  = {}
  /\ proc   = [p \in Procs |-> Idle]
  /\ crashes = 0

\* Where a handler goes next, and what it does on the way.
At(p, pc)     == proc[p].pc = pc
Goto(p, pc)   == proc' = [proc EXCEPT ![p].pc = pc]
Done(p)       == proc' = [proc EXCEPT ![p] = Idle]
Begin(p, pc, job, a, outcome) == proc' = [proc EXCEPT ![p] =
  [Idle EXCEPT !.pc = pc, !.job = job, !.attempt = a, !.outcome = outcome]]
Status(a, s)  == inst' = [inst EXCEPT ![a].status = s]
Lab(a, s)     == inst' = [inst EXCEPT ![a].lab = s]
MyVmid(p)     == ledger[proc[p].row].vmid
\* order_by(created_at): rows are taken down oldest first.
Doomed(p)     == CHOOSE r \in proc[p].todo : \A s \in proc[p].todo : r <= s
DoomedVmid(p) == ledger[Doomed(p)].vmid

\* launch()'s except clause: stop the Docker session, then every clone that
\* was made, then the VNet, then record the attempt as abandoned.
LaunchFails(p) == proc' = [proc EXCEPT ![p].pc = "lab", ![p].todo = proc[p].clones]

-----------------------------------------------------------------------------
(* Slips: definitions below as a plausible bug would have them. No action  *)
(* uses them; each is there to be put in the place of the one it names.    *)

\* IndexAllows: the partial unique index is missing.
SlipNoIndex(v) == TRUE

\* ReadUsed: the protected numbers are not left out.
SlipUnprotected(p) ==
  /\ At(p, "list")
  /\ proc' = [proc EXCEPT ![p].pc = "insert",
                ![p].used = {v \in Vmids : vm[v] # NoVm} \cup LiveVmids]
  /\ UNCHANGED <<inst, ledger, vm, vnet, labUp, crashes>>

\* LabRequest: the server is asked before the request is committed.
SlipAskFirst(p) ==
  /\ At(p, "labreq") /\ inst[proc[p].attempt].lab = "not_requested"
  /\ Goto(p, "labstart")
  /\ UNCHANGED <<inst, ledger, vm, vnet, labUp, crashes>>

\* Discard: the launch carries on without the machine it lost.
SlipCarryOn(p) ==
  /\ At(p, "discard")
  /\ ledger' = [ledger EXCEPT ![proc[p].row].status = "error", ![proc[p].row].live = FALSE]
  /\ Goto(p, "publish")
  /\ UNCHANGED <<inst, vm, vnet, labUp, crashes>>

\* Abandon: a status the CHECK constraint does not know.
SlipFailed(p) ==
  /\ At(p, "abandon")
  /\ Status(proc[p].attempt, "failed")
  /\ Done(p)
  /\ UNCHANGED <<ledger, vm, vnet, labUp, crashes>>

\* Reap: sessions left 'provisioning' by a dead launcher are not looked at.
SlipReapRunning(a) ==
  /\ inst[a].status = "running" /\ At(Reaper, "idle")
  /\ Begin(Reaper, "closing", "close", a, "abandoned")
  /\ UNCHANGED <<inst, ledger, vm, vnet, labUp, crashes>>

\* Record: "tidy up first", and commit the outcome only afterwards.
SlipTidyFirst(p) ==
  /\ At(p, "closing")
  /\ proc' = [proc EXCEPT ![p].pc = "lab", ![p].todo = RowsOf(proc[p].attempt)]
  /\ UNCHANGED <<inst, ledger, vm, vnet, labUp, crashes>>

-----------------------------------------------------------------------------
(* Launch.                                                                 *)

\* launch() reads _active_instance() and goes on if the user has none; the
\* row it will insert is not there yet, so nothing stops a second request
\* of the same user from reading the same answer.
Admit(p, a) ==
  /\ p \in Requests /\ At(p, "idle")
  /\ inst[a].status = "none"
  /\ \A q \in Procs : proc[q].attempt # a
  /\ \A b \in Attempts : UserOf[b] = UserOf[a] => inst[b].status \notin Active
  /\ Begin(p, "admitted", "launch", a, "none")
  /\ UNCHANGED <<inst, ledger, vm, vnet, labUp, crashes>>

\* INSERT the attempt as 'provisioning' and commit.
Open(p) ==
  /\ At(p, "admitted")
  /\ \E c \in Challenges :
       /\ inst' = [inst EXCEPT ![proc[p].attempt].status = "provisioning",
                              ![proc[p].attempt].challenge = c]
       /\ Goto(p, CASE KindOf[c] = "offline" -> "publish"
                    [] KindOf[c] = "vm"      -> "net"
                    [] OTHER                 -> "list")
  /\ UNCHANGED <<ledger, vm, vnet, labUp, crashes>>

\* create_session_vnet(): two calls, so a failure may still leave a VNet.
MakeNet(p) ==
  LET a == proc[p].attempt IN
  /\ At(p, "net")
  /\ \/ vnet' = vnet \cup {a} /\ Goto(p, "named")
     \/ vnet' \in {vnet, vnet \cup {a}} /\ Goto(p, "abandon")
  /\ UNCHANGED <<inst, ledger, vm, labUp, crashes>>

\* instance.network_identifier = vnet, committed.
NameNet(p) ==
  /\ At(p, "named")
  /\ inst' = [inst EXCEPT ![proc[p].attempt].net = TRUE]
  /\ Goto(p, "list")
  /\ UNCHANGED <<ledger, vm, vnet, labUp, crashes>>

\* claim_vmid() first collects what looks taken: the machines Proxmox lists
\* and the live ledger rows. It is a hint, stale as soon as it is read. The
\* privilege, isolation and listing calls before it may also refuse.
ReadUsed(p) ==
  /\ At(p, "list")
  /\ \/ proc' = [proc EXCEPT ![p].pc = "insert",
                   ![p].used = {v \in Vmids : vm[v] # NoVm} \cup LiveVmids \cup Protected]
     \/ LaunchFails(p)
  /\ UNCHANGED <<inst, ledger, vm, vnet, labUp, crashes>>

\* The partial unique index on (proxmox_vmid WHERE deleted_at IS NULL).
IndexAllows(v) == v \notin LiveVmids

\* claim_vmid()'s loop: INSERT the lowest candidate; an IntegrityError moves
\* on to the next; an exhausted range fails the launch.
Claim(p) ==
  LET free == VmidRange \ proc[p].used IN
  /\ At(p, "insert")
  /\ \/ \E v \in free :
          /\ \A w \in free : v <= w
          /\ IndexAllows(v)
          /\ ledger' = Append(ledger, [attempt |-> proc[p].attempt, vmid |-> v,
                                       status |-> "reserving", live |-> TRUE])
          /\ proc' = [proc EXCEPT ![p].pc = "clone", ![p].row = Len(ledger) + 1, ![p].used = {}]
     \/ \E v \in free :
          /\ \A w \in free : v <= w
          /\ ~IndexAllows(v)
          /\ proc' = [proc EXCEPT ![p].used = @ \cup {v}]
          /\ UNCHANGED ledger
     \/ free = {} /\ LaunchFails(p) /\ UNCHANGED ledger
  /\ UNCHANGED <<inst, vm, vnet, labUp, crashes>>

\* _refuse_protected(), then clone.post: Proxmox refuses a VMID that exists.
\* An accepted task may never materialise, and a refused one may have made
\* the machine after all.
CloneVm(p) ==
  LET v    == MyVmid(p)
      made == [vm EXCEPT ![v] = [owner |-> proc[p].attempt, on |-> FALSE]]
  IN
  /\ At(p, "clone")
  /\ \/ v \notin Protected /\ vm[v] = NoVm /\ vm' \in {made, vm} /\ Goto(p, "setup")
     \/ v \notin Protected /\ vm[v] = NoVm /\ vm' = made /\ Goto(p, "discard")
     \/ UNCHANGED vm /\ Goto(p, "discard")
  /\ UNCHANGED <<inst, ledger, vnet, labUp, crashes>>

\* Disk injection, NIC rewrite, firewall and start, or an error in one; a
\* start that is refused may have taken effect all the same.
Setup(p) ==
  LET v       == MyVmid(p)
      started == [vm EXCEPT ![v].on = TRUE]
  IN
  /\ At(p, "setup")
  /\ \/ vm[v] # NoVm /\ vm' = started /\ Goto(p, "started")
     \/ vm[v] # NoVm /\ vm' = started /\ Goto(p, "undo")
     \/ UNCHANGED vm /\ Goto(p, "undo")
  /\ UNCHANGED <<inst, ledger, vnet, labUp, crashes>>

\* The row becomes 'running'; then the next template, the Docker session of
\* a container lab, or the end of the launch.
Booted(p) ==
  LET a    == proc[p].attempt
      more == Cardinality(proc[p].clones) + 1 < VmCount[inst[a].challenge]
  IN
  /\ At(p, "started")
  /\ ledger' = [ledger EXCEPT ![proc[p].row].status = "running"]
  /\ proc' = [proc EXCEPT
       ![p].pc = CASE more                      -> "list"
                   [] ~more /\ Kind(a) = "lab"  -> "labreq"
                   [] ~more /\ Kind(a) # "lab"  -> "publish",
       ![p].clones = @ \cup {proc[p].row},
       ![p].row = 0]
  /\ UNCHANGED <<inst, vm, vnet, labUp, crashes>>

\* A clone that was accepted is destroyed again, best effort.
Undo(p) ==
  /\ At(p, "undo")
  /\ vm' \in {vm, [vm EXCEPT ![MyVmid(p)] = NoVm]}
  /\ Goto(p, "discard")
  /\ UNCHANGED <<inst, ledger, vnet, labUp, crashes>>

\* The row of a failed clone is retired whether or not the undo worked.
Discard(p) ==
  /\ At(p, "discard")
  /\ ledger' = [ledger EXCEPT ![proc[p].row].status = "error", ![proc[p].row].live = FALSE]
  /\ LaunchFails(p)
  /\ UNCHANGED <<inst, vm, vnet, labUp, crashes>>

\* container_lab.start(): the request is recorded before it is made, and an
\* attempt that already asked once is refused.
LabRequest(p) ==
  LET a == proc[p].attempt IN
  /\ At(p, "labreq")
  /\ IF inst[a].lab = "not_requested"
       THEN Lab(a, "requested") /\ Goto(p, "labstart")
       ELSE UNCHANGED inst /\ LaunchFails(p)
  /\ UNCHANGED <<ledger, vm, vnet, labUp, crashes>>

\* service.start(): an error or an invalid reference may hide a session
\* that did come up.
LabStart(p) ==
  LET a == proc[p].attempt IN
  /\ At(p, "labstart")
  /\ \/ labUp' = labUp \cup {a} /\ Goto(p, "labok")
     \/ labUp' \in {labUp, labUp \cup {a}} /\ Goto(p, "labbad")
  /\ UNCHANGED <<inst, ledger, vm, vnet, crashes>>

LabOk(p) ==
  /\ At(p, "labok")
  /\ Lab(proc[p].attempt, "active")
  /\ Goto(p, "publish")
  /\ UNCHANGED <<ledger, vm, vnet, labUp, crashes>>

LabBad(p) ==
  /\ At(p, "labbad")
  /\ Lab(proc[p].attempt, "cleanup_pending")
  /\ LaunchFails(p)
  /\ UNCHANGED <<ledger, vm, vnet, labUp, crashes>>

\* The rules between the machines of a session, then 'running' is committed
\* over whatever the row says by now.
Publish(p) ==
  /\ At(p, "publish")
  /\ \/ Status(proc[p].attempt, "running") /\ Done(p)
     \/ Cardinality(proc[p].clones) > 1 /\ UNCHANGED inst /\ LaunchFails(p)
  /\ UNCHANGED <<ledger, vm, vnet, labUp, crashes>>

\* The end of a failed launch.
Abandon(p) ==
  /\ At(p, "abandon")
  /\ Status(proc[p].attempt, "abandoned")
  /\ Done(p)
  /\ UNCHANGED <<ledger, vm, vnet, labUp, crashes>>

-----------------------------------------------------------------------------
(* Closing: by the student, by the last flag, by staff, by the reaper.     *)

\* A closer has read the attempt's status and is about to call _close().
Closing(p, a, outcome) ==
  /\ At(p, "idle")
  /\ Begin(p, "closing", "close", a, outcome)
  /\ UNCHANGED <<inst, ledger, vm, vnet, labUp, crashes>>

\* flag(): the submission that captures the last flag.
LastFlag(p, a) ==
  /\ p \in Requests /\ inst[a].status = "running"
  /\ Closing(p, a, "complete")

\* close(): what the student asks for, or less.
StudentClose(p, a) ==
  /\ p \in Requests /\ inst[a].status = "running"
  /\ \E outcome \in Terminal : Closing(p, a, outcome)

\* admin.close_session().
StaffClose(p, a) ==
  /\ p \in Requests /\ inst[a].status = "running"
  /\ Closing(p, a, "abandoned")

\* reap_sessions() decides on one session: past its TTL, a machine of it not
\* running, or 'provisioning' for longer than PROVISIONING_GRACE.
Reap(a) ==
  /\ \/ inst[a].status = "running"
     \/ inst[a].status = "provisioning" /\ (SlowLaunch \/ ~Launching(a))
  /\ Closing(Reaper, a, "abandoned")

\* _close(): read the live rows, then commit the outcome.
Record(p) ==
  LET a == proc[p].attempt IN
  /\ At(p, "closing")
  /\ Status(a, proc[p].outcome)
  /\ proc' = [proc EXCEPT ![p].pc = "lab", ![p].todo = RowsOf(a)]
  /\ UNCHANGED <<ledger, vm, vnet, labUp, crashes>>

\* close() of an attempt already closed, or cleanup_docker_session. With no
\* Docker session to stop either does nothing.
RetryCleanup(p, a) ==
  /\ p \in Requests /\ At(p, "idle")
  /\ inst[a].status \in Terminal
  /\ inst[a].lab \notin {"not_requested", "closed"}
  /\ Begin(p, "lab", "retry", a, "none")
  /\ UNCHANGED <<inst, ledger, vm, vnet, labUp, crashes>>

-----------------------------------------------------------------------------
(* Teardown, shared by a failed launch and by _close().                    *)

AfterLab(p) == IF proc[p].job = "retry" THEN Done(p) ELSE Goto(p, "destroy")

\* container_lab.stop(): the intent is recorded before the call.
LabStopBegin(p) ==
  LET a == proc[p].attempt IN
  /\ At(p, "lab")
  /\ \/ inst[a].lab \in {"not_requested", "closed"} /\ AfterLab(p) /\ UNCHANGED inst
     \/ inst[a].lab \notin {"not_requested", "closed"}
        /\ Lab(a, "cleanup_pending") /\ Goto(p, "labcall")
  /\ UNCHANGED <<ledger, vm, vnet, labUp, crashes>>

\* adapter().stop(): acknowledged, or not, and then it may still have worked.
LabStopCall(p) ==
  LET a == proc[p].attempt IN
  /\ At(p, "labcall")
  /\ \/ labUp' = labUp \ {a} /\ Goto(p, "labdone") /\ UNCHANGED inst
     \/ labUp' \in {labUp, labUp \ {a}} /\ Lab(a, "cleanup_pending") /\ AfterLab(p)
  /\ UNCHANGED <<ledger, vm, vnet, crashes>>

LabStopAck(p) ==
  /\ At(p, "labdone")
  /\ Lab(proc[p].attempt, "closed")
  /\ AfterLab(p)
  /\ UNCHANGED <<ledger, vm, vnet, labUp, crashes>>

\* stop_and_destroy(): stop the machine and delete it. The stop may time out
\* and the delete is a task nobody awaits: a machine may run on after a call
\* that raised nothing. Only ProxmoxError is caught by _close(), which flags
\* its row; any other exception ends the request. A failed launch swallows
\* both.
Destroy(p) ==
  LET v    == DoomedVmid(p)
      gone == [vm EXCEPT ![v] = NoVm]
      halt == [vm EXCEPT ![v].on = FALSE]
      next == [proc EXCEPT ![p].todo = @ \ {Doomed(p)}]
  IN
  /\ At(p, "destroy") /\ proc[p].todo # {}
  /\ \/ /\ v \notin Protected /\ vm' \in {vm, gone}
        /\ Goto(p, "mark") /\ UNCHANGED ledger
     \/ /\ proc[p].job = "close" /\ proc' = next /\ UNCHANGED vm
        /\ ledger' = [ledger EXCEPT ![Doomed(p)].status = "error"]
     \/ /\ proc[p].job = "close" /\ v \notin Protected
        /\ vm' \in {vm, halt, gone} /\ Done(p) /\ UNCHANGED ledger
     \/ /\ proc[p].job = "launch"
        /\ vm' \in (IF v \in Protected THEN {vm} ELSE {vm, halt, gone})
        /\ proc' = next /\ UNCHANGED ledger
  /\ UNCHANGED <<inst, vnet, labUp, crashes>>

\* The live row with that VMID is marked destroyed; _close() hands the VNet
\* over with its last machine.
Mark(p) ==
  LET hit  == {r \in LiveRows : ledger[r].vmid = DoomedVmid(p)}
      last == /\ proc[p].job = "close" /\ proc[p].todo = {Doomed(p)}
              /\ inst[proc[p].attempt].net
  IN
  /\ At(p, "mark")
  /\ ledger' = [r \in DOMAIN ledger |->
       IF r \in hit THEN [ledger[r] EXCEPT !.status = "destroyed", !.live = FALSE]
                    ELSE ledger[r]]
  /\ proc' = [proc EXCEPT ![p].pc = IF last THEN "dropnet" ELSE "destroy",
                          ![p].todo = @ \ {Doomed(p)}]
  /\ UNCHANGED <<inst, vm, vnet, labUp, crashes>>

\* No machine left to destroy: a failed launch goes on to its VNet.
Emptied(p) ==
  /\ At(p, "destroy") /\ proc[p].todo = {}
  /\ IF proc[p].job = "close" THEN Done(p)
     ELSE Goto(p, IF Kind(proc[p].attempt) = "vm" THEN "dropnet" ELSE "abandon")
  /\ UNCHANGED <<inst, ledger, vm, vnet, labUp, crashes>>

DropNet(p) ==
  /\ At(p, "dropnet")
  /\ vnet' \in {vnet, vnet \ {proc[p].attempt}}
  /\ IF proc[p].job = "close" THEN Done(p) ELSE Goto(p, "abandon")
  /\ UNCHANGED <<inst, ledger, vm, labUp, crashes>>

-----------------------------------------------------------------------------
\* A worker or the reaper is killed; what it committed stays.
Crash(p) ==
  /\ ~At(p, "idle")
  /\ crashes < MaxCrashes
  /\ crashes' = crashes + 1
  /\ Done(p)
  /\ UNCHANGED <<inst, ledger, vm, vnet, labUp>>

LaunchStep(p) ==
  \/ Open(p) \/ MakeNet(p) \/ NameNet(p) \/ ReadUsed(p) \/ Claim(p) \/ CloneVm(p)
  \/ Setup(p) \/ Booted(p) \/ Undo(p) \/ Discard(p)
  \/ LabRequest(p) \/ LabStart(p) \/ LabOk(p) \/ LabBad(p) \/ Publish(p) \/ Abandon(p)

TeardownStep(p) ==
  \/ Record(p) \/ LabStopBegin(p) \/ LabStopCall(p) \/ LabStopAck(p)
  \/ Destroy(p) \/ Mark(p) \/ Emptied(p) \/ DropNet(p)

Step(p) == LaunchStep(p) \/ TeardownStep(p)

Arrival(p, a) ==
  \/ Admit(p, a) \/ LastFlag(p, a) \/ StudentClose(p, a) \/ StaffClose(p, a) \/ RetryCleanup(p, a)

Next ==
  \/ \E p \in Requests, a \in Attempts : Arrival(p, a)
  \/ \E a \in Attempts : Reap(a)
  \/ \E p \in Procs : Step(p) \/ Crash(p)

\* A request that was started goes on, and the timer keeps calling the reaper.
Fairness ==
  /\ \A p \in Procs : WF_vars(Step(p))
  /\ \A a \in Attempts : WF_vars(Reap(a))

Spec == Init /\ [][Next]_vars /\ Fairness

-----------------------------------------------------------------------------
(* What the ledger is for: who holds each number, by its live row.         *)

LiveOn(v) == {r \in 1 .. Len(ledger) : ledger[r].live /\ ledger[r].vmid = v}
Holder    == [v \in VmidRange |->
  IF LiveOn(v) = {} THEN None ELSE ledger[CHOOSE r \in LiveOn(v) : TRUE].attempt]

Numbers == INSTANCE VmidLedger WITH Numbers <- VmidRange, holder <- Holder

\* Numbers are reserved when free, released before they are reused, and the
\* protected ones never reserved.
LedgerRefines == Numbers!Spec

-----------------------------------------------------------------------------
Pcs == {"idle", "admitted", "net", "named", "list", "insert", "clone", "setup", "started",
        "undo", "discard", "labreq", "labstart", "labok", "labbad", "publish", "abandon",
        "closing", "lab", "labcall", "labdone", "destroy", "mark", "dropnet"}
Jobs == {"none", "launch", "close", "retry"}
LabStatus == {"not_requested", "requested", "active", "cleanup_pending", "closed"}

Attempt == [status : {"none"} \cup Active \cup Terminal, challenge : Challenges \cup {None},
            net : BOOLEAN, lab : LabStatus]
Row     == [attempt : Attempts, vmid : VmidRange, live : BOOLEAN,
            status : {"reserving", "running", "error", "destroyed"}]
Machine == [owner : Attempts \cup {None, "foreign"}, on : BOOLEAN]
Handler == [pc : Pcs, job : Jobs, attempt : Attempts \cup {None},
            outcome : Terminal \cup {"none"}, clones : SUBSET Nat,
            todo : SUBSET Nat, used : SUBSET Vmids, row : Nat]

\* Every variable keeps its type; the VMIDs of ledger rows are in range.
TypeOK ==
  /\ inst \in [Attempts -> Attempt]
  /\ ledger \in Seq(Row)
  /\ vm \in [Vmids -> Machine]
  /\ vnet \subseteq Attempts
  /\ labUp \subseteq Attempts
  /\ proc \in [Procs -> Handler]
  /\ crashes \in 0 .. MaxCrashes

\* A VMID belongs to one session at a time, whatever claimers read before
\* they inserted: two live rows never name the same machine.
LedgerUnique ==
  \A r, s \in LiveRows : ledger[r].vmid = ledger[s].vmid => r = s

\* A Docker session that is up is never forgotten: its attempt says that
\* there is, or may be, something to stop, whoever crashed or failed.
LabAccounted ==
  \A a \in labUp : inst[a].lab \in {"requested", "active", "cleanup_pending"}

\* _close()'s ordering: the outcome is committed before anything is torn
\* down, so no failure or crash in the teardown costs the student it.
OutcomeBeforeTeardown ==
  \A p \in Procs :
    proc[p].job = "close" /\ ~At(p, "closing") => inst[proc[p].attempt].status \in Terminal

\* A session is 'running' only when each of its machines was started, its
\* network made and its Docker session up: never half launched.
NeverHalfLaunched ==
  \A a \in Attempts : inst[a].status = "running" =>
    /\ Cardinality({r \in 1 .. Len(ledger) : ledger[r].attempt = a
                      /\ ledger[r].status \in {"running", "destroyed"}}) = VmCount[inst[a].challenge]
    /\ Kind(a) = "vm"  => a \in vnet
    /\ Kind(a) = "lab" => inst[a].lab = "active"

\* No session is left open for ever: by its owner, a failed launch or the
\* reaper each one comes to an end, crashes and failing calls included.
EverySessionEnds ==
  \A a \in Attempts : inst[a].status \in Active ~> inst[a].status \in Terminal

-----------------------------------------------------------------------------
(* What the documentation says and the code does not do.                   *)

\* db/runtime_models.py and themes.py: "Only one instance may be in progress
\* per user; launch() enforces that."
OneActivePerUser ==
  \A a, b \in Attempts :
    UserOf[a] = UserOf[b] /\ inst[a].status \in Active /\ inst[b].status \in Active => a = b

\* themes.py: a repeated close retries the cleanup "without changing the
\* result": a completed attempt stays completed.
ResultKept ==
  [][\A a \in Attempts : inst[a].status = "complete" => inst'[a].status = "complete"]_vars

\* themes.py: the VNet goes with the last machine, and is left orphaned
\* "rather than destroyed underneath a VM that might still be running".
VnetOutlivesVms ==
  [][\A a \in vnet \ vnet' : \A v \in Vmids : ~(vm[v].owner = a /\ vm[v].on)]_vars

\* themes.py, _close(): "tear every VM in the session down" is what it does
\* to one session: no teardown destroys a machine of another attempt.
TeardownStaysInSession ==
  [][\A p \in Procs : \A v \in Vmids :
       At(p, "destroy") /\ proc'[p] # proc[p] /\ vm'[v] = NoVm /\ vm[v] # NoVm
         => vm[v].owner = proc[p].attempt]_vars
=============================================================================
