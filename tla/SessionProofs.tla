---------------------------- MODULE SessionProofs ----------------------------
(***************************************************************************)
(* Proofs that a session is launched as a whole and closed with its        *)
(* result first, and that no Docker session is forgotten: for every number *)
(* of students, attempts, handlers and challenges, whoever dies. They rest *)
(* on the grace period: a session still being launched is not reaped.      *)
(***************************************************************************)
EXTENDS SessionRangeProofs, FiniteSetTheorems, WellFoundedInduction

ShortLaunch == SlowLaunch = FALSE

-----------------------------------------------------------------------------
(* The inductive invariant.                                                *)

Rows(a) == {r \in 1 .. Len(ledger) : ledger[r].attempt = a}
Made    == {"running", "destroyed"}    \* rows whose machine was started

Teardown == {"lab", "labcall", "labdone", "destroy", "mark", "dropnet"}
Between  == {"net", "named", "list", "insert"}   \* no machine in hand
Cloning  == {"clone", "setup", "started", "undo", "discard"}
Finished == {"labreq", "labstart", "labok", "publish"}
Failing  == {"labbad", "abandon"} \cup Teardown

\* Whoever launches an attempt is alone with it: nobody closes it, or looks
\* after what it left, before the launch has ended.
Alone ==
  \A p, q \in Procs :
    proc[p].job = "launch" /\ q # p => proc[q].attempt # proc[p].attempt

\* A launch on its way has all the rows of its attempt in hand, each with a
\* machine that was started but for the one being cloned, and as many as it
\* needs in the end.
Launches(p) ==
  LET h == proc[p]  a == proc[p].attempt IN
  h.job = "launch" =>
    /\ h.pc \in {"admitted"} \cup Between \cup Cloning \cup Finished \cup Failing
    /\ h.pc = "admitted" => inst[a].status = "none" /\ h.clones = {}
    /\ h.pc # "admitted" => inst[a].status = "provisioning" /\ inst[a].challenge \in Challenges
    /\ h.pc \in Between \cup Finished => Rows(a) = h.clones
    /\ h.pc \in Cloning => Rows(a) = h.clones \cup {h.row} /\ h.row \notin h.clones
    /\ h.pc \in Between \cup Cloning \cup Finished =>
         \A r \in h.clones : ledger[r].status \in Made
    /\ h.pc \in Between \cup Cloning => Cardinality(h.clones) < VmCount[inst[a].challenge]
    /\ h.pc \in Finished => Cardinality(h.clones) = VmCount[inst[a].challenge]
    /\ h.pc \in (Between \ {"net"}) \cup Cloning \cup Finished /\ Kind(a) = "vm" => a \in vnet
    /\ h.pc = "labstart" => inst[a].lab = "requested"
    /\ h.pc = "publish" /\ Kind(a) = "lab" => inst[a].lab = "active"

\* A closer has recorded the outcome before it does anything else, and a
\* teardown is at rows of its attempt.
Closes(p) ==
  LET h == proc[p]  a == proc[p].attempt IN
  /\ h.pc = "idle" => h = Idle
  /\ h.job = "none" => h.pc = "idle"
  /\ h.job = "close" =>
       /\ h.pc \in {"closing"} \cup Teardown
       /\ inst[a].status # "none" /\ h.outcome \in Terminal
       /\ h.pc # "closing" => inst[a].status \in Terminal
  /\ h.job = "retry" => h.pc \in {"lab", "labcall", "labdone"} /\ inst[a].status \in Terminal
  /\ h.clones \subseteq Rows(a) /\ h.todo \subseteq Rows(a)
  /\ h.pc = "labdone" => a \notin labUp

\* What the database and the servers hold of one attempt agrees.
Agrees(a) ==
  /\ inst[a].status = "none" => Rows(a) = {}
  /\ inst[a].status = "running" =>
       /\ \A r \in Rows(a) : ledger[r].status \in Made
       /\ Cardinality(Rows(a)) = VmCount[inst[a].challenge]
       /\ Kind(a) = "vm"  => a \in vnet
       /\ Kind(a) = "lab" => inst[a].lab = "active"
  /\ a \in labUp => inst[a].lab \in {"requested", "active", "cleanup_pending"}

SInv ==
  /\ Alone
  /\ \A p \in Procs : Launches(p) /\ Closes(p)
  /\ \A a \in Attempts : Agrees(a)

-----------------------------------------------------------------------------
(* What a step of one handler leaves alone.                                *)

Good == Typed /\ SInv

\* Rows of other attempts stay, but may be marked as destroyed.
Appends(a) ==
  /\ Len(ledger') \in Nat /\ Len(ledger) <= Len(ledger')
  /\ \A r \in 1 .. Len(ledger) :
       /\ ledger'[r].attempt = ledger[r].attempt
       /\ ledger'[r].status \in {ledger[r].status, "destroyed"} \/ ledger[r].attempt = a
  /\ \A r \in 1 .. Len(ledger') : r > Len(ledger) => ledger'[r].attempt = a

Frame(p, a) ==
  /\ \A q \in Procs : q # p => proc'[q] = proc[q]
  /\ \A b \in Attempts : b # a =>
       /\ inst'[b] = inst[b]
       /\ b \in vnet' <=> b \in vnet
       /\ b \in labUp' <=> b \in labUp
  /\ Appends(a)

\* A handler that is not launching leaves a closed attempt closed.
Calm(p, a) ==
  proc[p].job # "launch" =>
    /\ inst'[a].status = "none" => inst[a].status = "none"
    /\ inst[a].status \in Terminal => inst'[a].status \in Terminal
    /\ a \in labUp' => a \in labUp

LEMMA RowsFrame ==
  ASSUME TypeOK, NEW a, Appends(a)
  PROVE  /\ Rows(a) \subseteq Rows(a)'
         /\ \A b : b # a => Rows(b)' = Rows(b)
         /\ \A r \in 1 .. Len(ledger) : ledger[r].status \in Made /\ ledger[r].attempt # a
                                          => ledger'[r].status \in Made
<1>1. Len(ledger) \in Nat
  BY LedgerFacts
<1> QED BY <1>1 DEF Appends, Rows, Made

LEMMA OtherHandler ==
  ASSUME Good, NEW p \in Procs, NEW a \in Attempts, proc[p].attempt = a,
         Frame(p, a), Calm(p, a), NEW q \in Procs, q # p
  PROVE  Launches(q)' /\ Closes(q)'
<1>0. PICK b : b = proc[q].attempt
  OBVIOUS
<1>1. proc'[q] = proc[q] /\ Appends(a) /\ TypeOK
  BY DEF Frame, Good, Typed
<1>2. Launches(q) /\ Closes(q)
  BY DEF Good, SInv
<1>3. b \in Attempts \cup {None} /\ (b = None => proc[q].pc = "idle") /\ proc[q] \in Handler
  BY <1>0, AttemptAssumption DEF Good, Typed, TypeOK, Working, At, Handler
<1>4. CASE b = None
  <2>1. proc[q] = Idle
    BY <1>0, <1>2, <1>3, <1>4 DEF Closes
  <2> QED BY <1>1, <2>1 DEF Launches, Closes, Idle
<1>5. CASE b = a
  <2>1. proc[p].job # "launch" /\ proc[q].job # "launch"
    BY <1>0, <1>5 DEF Good, SInv, Alone
  <2>2. Rows(a) \subseteq Rows(a)'
    BY <1>1, RowsFrame
  <2>3. Launches(q)'
    BY <1>1, <2>1 DEF Launches
  <2>4. /\ inst'[a].status = "none" => inst[a].status = "none"
        /\ inst[a].status \in Terminal => inst'[a].status \in Terminal
        /\ a \in labUp' => a \in labUp
    BY <2>1 DEF Calm
  <2>5. Closes(q)'
    BY <1>0, <1>1, <1>2, <1>5, <2>2, <2>4 DEF Closes
  <2> QED BY <2>3, <2>5
<1>6. CASE b \in Attempts \ {a}
  <2>1. inst'[b] = inst[b] /\ (b \in vnet' <=> b \in vnet) /\ (b \in labUp' <=> b \in labUp)
    BY <1>6 DEF Frame
  <2>2. Rows(b)' = Rows(b)
    BY <1>1, <1>6, RowsFrame
  <2>3. \A r \in Rows(b) : ledger[r].status \in Made => ledger'[r].status \in Made
    BY <1>1, <1>6, RowsFrame DEF Rows
  <2>4. proc[q].clones \subseteq Rows(b)
    BY <1>0, <1>2 DEF Closes
  <2>5. Closes(q)'
    BY <1>0, <1>1, <1>2, <2>1, <2>2 DEF Closes
  <2>6. Launches(q)'
    BY <1>0, <1>1, <1>2, <2>1, <2>2, <2>3, <2>4 DEF Launches, Kind
  <2> QED BY <2>5, <2>6
<1> QED BY <1>3, <1>4, <1>5, <1>6

LEMMA OtherAttempt ==
  ASSUME Good, NEW p \in Procs, NEW a \in Attempts, Frame(p, a),
         NEW b \in Attempts, b # a
  PROVE  Agrees(b)'
<1>1. TypeOK /\ Appends(a) /\ Agrees(b)
  BY DEF Good, Typed, SInv, Frame
<1>2. inst'[b] = inst[b] /\ (b \in vnet' <=> b \in vnet) /\ (b \in labUp' <=> b \in labUp)
  BY DEF Frame
<1>3. Rows(b)' = Rows(b)
  BY <1>1, RowsFrame
<1>4. \A r \in Rows(b) : ledger[r].status \in Made => ledger'[r].status \in Made
  BY <1>1, RowsFrame DEF Rows
<1> QED BY <1>1, <1>2, <1>3, <1>4 DEF Agrees, Kind

\* So a step keeps the invariant if it keeps the parts that are about its
\* handler and its attempt.
LEMMA StepKeeps ==
  ASSUME Good, NEW p \in Procs, NEW a \in Attempts, proc[p].attempt = a,
         Frame(p, a), Calm(p, a),
         proc'[p] = Idle \/ (proc'[p].attempt = a /\ proc'[p].job = proc[p].job),
         Launches(p)', Closes(p)', Agrees(a)'
  PROVE  SInv'
<1>1. \A q \in Procs : Launches(q)' /\ Closes(q)'
  BY OtherHandler
<1>2. \A b \in Attempts : Agrees(b)'
  BY OtherAttempt
<1>3. Alone'
  <2> SUFFICES ASSUME NEW q \in Procs, NEW s \in Procs, s # q, proc'[q].job = "launch"
               PROVE  proc'[s].attempt # proc'[q].attempt
    BY DEF Alone
  <2>1. \A r \in Procs : r # p => proc'[r] = proc[r]
    BY DEF Frame
  <2>2. proc[q].job = "launch" /\ proc'[q].attempt = proc[q].attempt
    BY <2>1 DEF Idle
  <2>3. proc[s].attempt # proc[q].attempt
    BY <2>2 DEF Good, SInv, Alone
  <2>4. proc[q].attempt \in Attempts
    <3>1. proc[q].pc # "idle"
      BY <2>2 DEF Good, SInv, Closes, Idle
    <3> QED BY <3>1 DEF Good, Typed, Working, At
  <2>5. proc'[s].attempt \in {proc[s].attempt, None}
    BY <2>1 DEF Idle
  <2> QED BY <2>2, <2>3, <2>4, <2>5, AttemptAssumption
<1> QED BY <1>1, <1>2, <1>3 DEF SInv

-----------------------------------------------------------------------------
(* The ways a handler moves on.                                            *)

LEMMA LaunchPc ==
  ASSUME Good, NEW p \in Procs, proc[p].pc \notin {"idle", "closing"} \cup Teardown
  PROVE  /\ proc[p].job = "launch" /\ proc[p].attempt \in Attempts
         /\ Launches(p) /\ Closes(p) /\ Agrees(proc[p].attempt)
<1>1. Launches(p) /\ Closes(p) /\ proc[p].attempt \in Attempts /\ proc[p] \in Handler
  BY DEF Good, SInv, Typed, TypeOK, Working, At
<1>2. Agrees(proc[p].attempt)
  BY <1>1 DEF Good, SInv
<1>3. proc[p].job = "launch"
  BY <1>1 DEF Closes, Handler, Jobs, Teardown
<1> QED BY <1>1, <1>2, <1>3

LEMMA TeardownPc ==
  ASSUME Good, NEW p \in Procs, proc[p].pc \in {"closing"} \cup Teardown
  PROVE  /\ proc[p].job \in {"launch", "close", "retry"} /\ proc[p].attempt \in Attempts
         /\ Launches(p) /\ Closes(p) /\ Agrees(proc[p].attempt)
<1>1. Launches(p) /\ Closes(p) /\ proc[p].attempt \in Attempts /\ proc[p] \in Handler
  BY DEF Good, SInv, Typed, TypeOK, Working, At, Teardown
<1>2. Agrees(proc[p].attempt)
  BY <1>1 DEF Good, SInv
<1>3. proc[p].job # "none"
  BY <1>1 DEF Closes, Teardown
<1> QED BY <1>1, <1>2, <1>3 DEF Handler, Jobs

LEMMA LedgerStays ==
  ASSUME TypeOK, UNCHANGED ledger, NEW a
  PROVE  Appends(a) /\ Rows(a)' = Rows(a)
BY LedgerFacts DEF Appends, Rows

\* The handler is at x, with all it had.
Carries(p, x) ==
  /\ \A q \in Procs : q # p => proc'[q] = proc[q]
  /\ proc'[p].pc = x /\ proc'[p].job = proc[p].job /\ proc'[p].attempt = proc[p].attempt
  /\ proc'[p].outcome = proc[p].outcome /\ proc'[p].clones = proc[p].clones
  /\ proc'[p].todo = proc[p].todo /\ proc'[p].row = proc[p].row

LEMMA GotoCarries ==
  ASSUME TypeOK, NEW p \in Procs, NEW x, Goto(p, x)
  PROVE  Carries(p, x)
BY DEF TypeOK, Handler, Goto, Carries

LEMMA DoneEnds ==
  ASSUME TypeOK, NEW p \in Procs, Done(p)
  PROVE  /\ proc'[p] = Idle /\ \A q \in Procs : q # p => proc'[q] = proc[q]
         /\ Launches(p)' /\ Closes(p)'
<1>1. proc'[p] = Idle /\ \A q \in Procs : q # p => proc'[q] = proc[q]
  BY DEF TypeOK, Done
<1> QED BY <1>1 DEF Launches, Closes, Idle

\* A launch that fails goes over to its teardown.
LEMMA FailsKeeps ==
  ASSUME Good, NEW p \in Procs, NEW a \in Attempts, proc[p].attempt = a,
         proc[p].job = "launch", proc[p].pc # "admitted", LaunchFails(p),
         inst'[a].status = inst[a].status, inst'[a].challenge = inst[a].challenge,
         Rows(a) \subseteq Rows(a)'
  PROVE  /\ proc'[p].attempt = a /\ proc'[p].job = "launch"
         /\ \A q \in Procs : q # p => proc'[q] = proc[q]
         /\ Launches(p)' /\ Closes(p)'
<1>1. /\ \A q \in Procs : q # p => proc'[q] = proc[q]
      /\ proc'[p].pc = "lab" /\ proc'[p].job = "launch" /\ proc'[p].attempt = a
      /\ proc'[p].clones = proc[p].clones /\ proc'[p].todo = proc[p].clones
  BY DEF Good, Typed, TypeOK, Handler, LaunchFails
<1>2. Launches(p) /\ Closes(p)
  BY DEF Good, SInv
<1>3. Launches(p)'
  BY <1>1, <1>2 DEF Launches, Failing, Teardown, Between, Cloning, Finished
<1>4. Closes(p)'
  BY <1>1, <1>2 DEF Closes
<1> QED BY <1>1, <1>3, <1>4

-----------------------------------------------------------------------------
(* The steps of a launch.                                                  *)

LEMMA OpenKeeps ==
  ASSUME Good, NEW p \in Procs, Open(p)
  PROVE  SInv'
<1> PICK a : a = proc[p].attempt
  OBVIOUS
<1>1. /\ proc[p].pc = "admitted" /\ proc[p].job = "launch" /\ a \in Attempts
      /\ Launches(p) /\ Closes(p) /\ Agrees(a) /\ TypeOK
  BY LaunchPc DEF Open, At, Teardown, Good, Typed
<1>2. PICK c \in Challenges :
        /\ inst' = [inst EXCEPT ![a].status = "provisioning", ![a].challenge = c]
        /\ Goto(p, CASE KindOf[c] = "offline" -> "publish"
                     [] KindOf[c] = "vm"      -> "net"
                     [] OTHER                 -> "list")
  BY DEF Open
<1>3. UNCHANGED <<ledger, vnet, labUp>>
  BY DEF Open
<1>4. PICK x : x = CASE KindOf[c] = "offline" -> "publish"
                     [] KindOf[c] = "vm"      -> "net"
                     [] OTHER                 -> "list"
  OBVIOUS
<1>5. Carries(p, x)
  BY <1>1, <1>2, <1>4, GotoCarries
<1>6. /\ inst'[a].status = "provisioning" /\ inst'[a].challenge = c /\ inst'[a].lab = inst[a].lab
      /\ \A b \in Attempts : b # a => inst'[b] = inst[b]
  BY <1>1, <1>2 DEF TypeOK, Attempt
<1>7. Appends(a) /\ Rows(a) = {} /\ Rows(a)' = {} /\ proc'[p].clones = {}
  BY <1>1, <1>3, <1>5, LedgerStays DEF Launches, Agrees, Carries
<1>8. Frame(p, a) /\ Calm(p, a)
  BY <1>1, <1>3, <1>5, <1>6, <1>7 DEF Frame, Calm, Carries
<1>9. Closes(p)'
  <2>1. x \in {"publish", "net", "list"}
    BY <1>4
  <2> QED BY <1>1, <1>5, <1>7, <2>1 DEF Closes, Carries
<1>10. Agrees(a)'
  BY <1>1, <1>3, <1>6 DEF Agrees
<1>11. KindOf[c] \in Kinds /\ VmCount[c] \in Nat /\ (VmCount[c] = 0 <=> KindOf[c] = "offline")
  BY AttemptAssumption, CountAssumption
<1>12. Cardinality({}) = 0
  BY FS_EmptySet
<1>13. Launches(p)'
  <2>1. proc'[p].attempt = a /\ proc'[p].pc = x /\ Kind(a)' = KindOf[c]
    BY <1>5, <1>6 DEF Carries, Kind
  <2>2. CASE KindOf[c] = "offline"
    BY <1>4, <1>6, <1>7, <1>11, <1>12, <2>1, <2>2
    DEF Launches, Between, Cloning, Finished, Failing, Teardown
  <2>3. CASE KindOf[c] = "vm"
    BY <1>4, <1>6, <1>7, <1>11, <1>12, <2>1, <2>3
    DEF Launches, Between, Cloning, Finished, Failing, Teardown
  <2>4. CASE KindOf[c] \notin {"offline", "vm"}
    BY <1>4, <1>6, <1>7, <1>11, <1>12, <2>1, <2>4
    DEF Launches, Between, Cloning, Finished, Failing, Teardown
  <2> QED BY <2>2, <2>3, <2>4
<1> QED BY <1>1, <1>5, <1>8, <1>9, <1>10, <1>13, StepKeeps DEF Carries

\* A step of a launch that changes at most the VNet of its attempt, and
\* leads to x or into the teardown.
LEMMA LaunchMoves ==
  ASSUME Good, NEW p \in Procs, NEW a \in Attempts, proc[p].attempt = a,
         proc[p].pc \in Between \cup Cloning \cup Finished \cup {"labbad"},
         UNCHANGED <<inst, ledger, labUp>>, vnet' \in {vnet, vnet \cup {a}},
         NEW x, x # "idle", x # "labdone", Carries(p, x), Launches(p)'
  PROVE  SInv'
<1>1. /\ proc[p].job = "launch" /\ Closes(p) /\ Agrees(a) /\ TypeOK
  BY LaunchPc DEF Between, Cloning, Finished, Teardown, Good, Typed
<1>2. Appends(a) /\ Rows(a)' = Rows(a)
  BY <1>1, LedgerStays
<1>3. Frame(p, a) /\ Calm(p, a)
  BY <1>1, <1>2 DEF Frame, Calm, Carries
<1>4. Closes(p)'
  BY <1>1, <1>2 DEF Closes, Carries
<1>5. Agrees(a)'
  BY <1>1, <1>2 DEF Agrees, Kind
<1> QED BY <1>1, <1>3, <1>4, <1>5, StepKeeps DEF Carries

\* A launch fails without a change of any row.
LEMMA LaunchDrops ==
  ASSUME Good, NEW p \in Procs, NEW a \in Attempts, proc[p].attempt = a,
         proc[p].pc \in Between \cup Cloning \cup Finished \cup {"labbad"},
         UNCHANGED <<inst, ledger, labUp, vnet>>, LaunchFails(p)
  PROVE  SInv'
<1>1. /\ proc[p].job = "launch" /\ Agrees(a) /\ TypeOK
  BY LaunchPc DEF Between, Cloning, Finished, Teardown, Good, Typed
<1>2. Appends(a) /\ Rows(a)' = Rows(a)
  BY <1>1, LedgerStays
<1>3. /\ proc'[p].attempt = a /\ proc'[p].job = "launch"
      /\ \A q \in Procs : q # p => proc'[q] = proc[q]
      /\ Launches(p)' /\ Closes(p)'
  BY <1>1, <1>2, FailsKeeps DEF Between, Cloning, Finished
<1>4. Frame(p, a) /\ Calm(p, a)
  BY <1>1, <1>2, <1>3 DEF Frame, Calm
<1>5. Agrees(a)'
  BY <1>1, <1>2 DEF Agrees, Kind
<1> QED BY <1>1, <1>3, <1>4, <1>5, StepKeeps

LEMMA MakeNetKeeps ==
  ASSUME Good, NEW p \in Procs, MakeNet(p)
  PROVE  SInv'
<1> PICK a : a = proc[p].attempt
  OBVIOUS
<1>1. /\ proc[p].pc = "net" /\ proc[p].job = "launch" /\ a \in Attempts
      /\ Launches(p) /\ TypeOK
  BY LaunchPc DEF MakeNet, At, Teardown, Good, Typed
<1>2. UNCHANGED <<inst, ledger, labUp>>
  BY DEF MakeNet
<1>3. Rows(a)' = Rows(a)
  BY <1>1, <1>2, LedgerStays
<1>4. CASE vnet' = vnet \cup {a} /\ Goto(p, "named")
  <2>1. Carries(p, "named")
    BY <1>1, <1>4, GotoCarries
  <2>2. Launches(p)'
    BY <1>1, <1>2, <1>3, <1>4, <2>1
    DEF Launches, Carries, Kind, Between, Cloning, Finished, Failing, Teardown
  <2> QED BY <1>1, <1>2, <1>4, <2>1, <2>2, LaunchMoves DEF Between
<1>5. CASE vnet' \in {vnet, vnet \cup {a}} /\ Goto(p, "abandon")
  <2>1. Carries(p, "abandon")
    BY <1>1, <1>5, GotoCarries
  <2>2. Launches(p)'
    BY <1>1, <1>2, <1>3, <1>5, <2>1
    DEF Launches, Carries, Kind, Between, Cloning, Finished, Failing, Teardown
  <2> QED BY <1>1, <1>2, <1>5, <2>1, <2>2, LaunchMoves DEF Between
<1> QED BY <1>4, <1>5 DEF MakeNet

LEMMA NameNetKeeps ==
  ASSUME Good, NEW p \in Procs, NameNet(p)
  PROVE  SInv'
<1> PICK a : a = proc[p].attempt
  OBVIOUS
<1>1. /\ proc[p].pc = "named" /\ proc[p].job = "launch" /\ a \in Attempts
      /\ Launches(p) /\ Closes(p) /\ Agrees(a) /\ TypeOK
  BY LaunchPc DEF NameNet, At, Teardown, Good, Typed
<1>2. UNCHANGED <<ledger, vnet, labUp>> /\ Carries(p, "list")
  BY <1>1, GotoCarries DEF NameNet
<1>3. /\ inst'[a].status = inst[a].status /\ inst'[a].challenge = inst[a].challenge
      /\ inst'[a].lab = inst[a].lab
      /\ \A b \in Attempts : b # a => inst'[b] = inst[b]
  BY <1>1 DEF NameNet, TypeOK, Attempt
<1>4. Appends(a) /\ Rows(a)' = Rows(a)
  BY <1>1, <1>2, LedgerStays
<1>5. Frame(p, a) /\ Calm(p, a)
  BY <1>1, <1>2, <1>3, <1>4 DEF Frame, Calm, Carries
<1>6. Closes(p)'
  BY <1>1, <1>2, <1>3, <1>4 DEF Closes, Carries
<1>7. Agrees(a)'
  BY <1>1, <1>2, <1>3, <1>4 DEF Agrees, Kind
<1>8. Launches(p)'
  BY <1>1, <1>2, <1>3, <1>4
  DEF Launches, Carries, Kind, Between, Cloning, Finished, Failing, Teardown
<1> QED BY <1>1, <1>2, <1>5, <1>6, <1>7, <1>8, StepKeeps DEF Carries

LEMMA ReadUsedKeeps ==
  ASSUME Good, NEW p \in Procs, ReadUsed(p)
  PROVE  SInv'
<1> PICK a : a = proc[p].attempt
  OBVIOUS
<1>1. /\ proc[p].pc = "list" /\ proc[p].job = "launch" /\ a \in Attempts
      /\ Launches(p) /\ TypeOK
  BY LaunchPc DEF ReadUsed, At, Teardown, Good, Typed
<1>2. UNCHANGED <<inst, ledger, labUp, vnet>>
  BY DEF ReadUsed
<1>3. CASE LaunchFails(p)
  BY <1>1, <1>2, <1>3, LaunchDrops DEF Between
<1>4. ASSUME NEW U, proc' = [proc EXCEPT ![p].pc = "insert", ![p].used = U]
      PROVE  SInv'
  <2>1. Carries(p, "insert")
    BY <1>1, <1>4 DEF TypeOK, Handler, Carries
  <2>2. Rows(a)' = Rows(a)
    BY <1>1, <1>2, LedgerStays
  <2>3. Launches(p)'
    BY <1>1, <1>2, <2>1, <2>2
    DEF Launches, Carries, Kind, Between, Cloning, Finished, Failing, Teardown
  <2> QED BY <1>1, <1>2, <2>1, <2>3, LaunchMoves DEF Between
<1> QED BY <1>3, <1>4 DEF ReadUsed

\* A row of the attempt is inserted: it is the one in hand.
LEMMA ClaimKeepsAll ==
  ASSUME Good, NEW p \in Procs, Claim(p)
  PROVE  SInv'
<1> PICK a : a = proc[p].attempt
  OBVIOUS
<1>1. /\ proc[p].pc = "insert" /\ proc[p].job = "launch" /\ a \in Attempts
      /\ Launches(p) /\ Closes(p) /\ Agrees(a) /\ TypeOK
  BY LaunchPc DEF Claim, At, Teardown, Good, Typed
<1>2. UNCHANGED <<inst, labUp, vnet>>
  BY DEF Claim
<1>3. CASE LaunchFails(p) /\ UNCHANGED ledger
  BY <1>1, <1>2, <1>3, LaunchDrops DEF Between
<1>4. ASSUME NEW U, proc' = [proc EXCEPT ![p].used = U], UNCHANGED ledger
      PROVE  SInv'
  <2>1. Carries(p, "insert")
    BY <1>1, <1>4 DEF TypeOK, Handler, Carries
  <2>2. Rows(a)' = Rows(a)
    BY <1>1, <1>4, LedgerStays
  <2>3. Launches(p)'
    BY <1>1, <1>2, <1>4, <2>1, <2>2
    DEF Launches, Carries, Kind, Between, Cloning, Finished, Failing, Teardown
  <2> QED BY <1>1, <1>2, <1>4, <2>1, <2>3, LaunchMoves DEF Between
<1>5. ASSUME NEW v \in VmidRange \ proc[p].used, TookRow(p, v)
      PROVE  SInv'
  <2>1. Len(ledger) \in Nat /\ Rows(a) \subseteq 1 .. Len(ledger)
    BY <1>1, LedgerFacts DEF Rows
  <2>2. PICK row : row = [attempt |-> a, vmid |-> v, status |-> "reserving", live |-> TRUE]
    OBVIOUS
  <2>3. row \in Row /\ ledger' = Append(ledger, row) /\ row.attempt = a
    BY <1>1, <1>5, <2>2 DEF TookRow, Row
  <2>4. /\ Len(ledger') = Len(ledger) + 1
        /\ \A r \in 1 .. Len(ledger) : ledger'[r] = ledger[r]
        /\ ledger'[Len(ledger) + 1] = row
    BY <1>1, <2>3, AppendProperties DEF TypeOK
  <2>5. Appends(a) /\ Rows(a)' = Rows(a) \cup {Len(ledger) + 1}
    BY <2>1, <2>3, <2>4 DEF Appends, Rows
  <2>6. /\ \A q \in Procs : q # p => proc'[q] = proc[q]
        /\ proc'[p].pc = "clone" /\ proc'[p].job = "launch" /\ proc'[p].attempt = a
        /\ proc'[p].clones = proc[p].clones /\ proc'[p].todo = proc[p].todo
        /\ proc'[p].row = Len(ledger) + 1
    BY <1>1, <1>5 DEF TookRow, TypeOK, Handler
  <2>7. Frame(p, a) /\ Calm(p, a)
    BY <1>1, <1>2, <2>5, <2>6 DEF Frame, Calm
  <2>8. Closes(p)'
    BY <1>1, <2>5, <2>6 DEF Closes
  <2>9. Agrees(a)'
    BY <1>1, <1>2 DEF Launches, Agrees
  <2>10. proc[p].clones = Rows(a) /\ Len(ledger) + 1 \notin Rows(a)
    BY <1>1, <2>1 DEF Launches, Between
  <2>11. \A r \in proc[p].clones : ledger'[r].status \in Made
    BY <1>1, <2>1, <2>4, <2>10 DEF Launches, Between
  <2>12. Launches(p)'
    BY <1>1, <1>2, <2>5, <2>6, <2>10, <2>11
    DEF Launches, Kind, Between, Cloning, Finished, Failing, Teardown
  <2> QED BY <1>1, <2>6, <2>7, <2>8, <2>9, <2>12, StepKeeps
<1> QED BY <1>3, <1>4, <1>5 DEF Claim, TookRow

\* A step that leads from pc to pc within Cloning, nothing else changed.
LEMMA CloningMoves ==
  ASSUME Good, NEW p \in Procs, proc[p].pc \in Cloning, NEW x \in Cloning, Goto(p, x),
         UNCHANGED <<inst, ledger, labUp, vnet>>
  PROVE  SInv'
<1> PICK a : a = proc[p].attempt
  OBVIOUS
<1>1. /\ proc[p].job = "launch" /\ a \in Attempts /\ Launches(p) /\ TypeOK
  BY LaunchPc DEF Cloning, Teardown, Good, Typed
<1>2. Carries(p, x)
  BY <1>1, GotoCarries
<1>3. Rows(a)' = Rows(a)
  BY <1>1, LedgerStays
<1>4. Launches(p)'
  BY <1>1, <1>2, <1>3 DEF Launches, Carries, Kind, Between, Cloning, Finished, Failing, Teardown
<1> QED BY <1>1, <1>2, <1>4, LaunchMoves DEF Cloning

LEMMA CloneStepsKeep ==
  ASSUME Good, NEW p \in Procs, CloneVm(p) \/ Setup(p) \/ Undo(p)
  PROVE  SInv'
BY CloningMoves DEF CloneVm, Setup, Undo, At, Cloning

LEMMA BootedKeeps ==
  ASSUME Good, NEW p \in Procs, Booted(p)
  PROVE  SInv'
<1> PICK a : a = proc[p].attempt
  OBVIOUS
<1> PICK r : r = proc[p].row
  OBVIOUS
<1> PICK n : n = VmCount[inst[a].challenge]
  OBVIOUS
<1>1. /\ proc[p].pc = "started" /\ proc[p].job = "launch" /\ a \in Attempts
      /\ Launches(p) /\ Closes(p) /\ Agrees(a) /\ TypeOK
  BY LaunchPc DEF Booted, At, Teardown, Good, Typed
<1>2. UNCHANGED <<inst, labUp, vnet>> /\ ledger' = [ledger EXCEPT ![r].status = "running"]
  BY DEF Booted
<1>3. PICK x : /\ x = CASE Cardinality(proc[p].clones) + 1 < n                        -> "list"
                        [] ~(Cardinality(proc[p].clones) + 1 < n) /\ Kind(a) = "lab" -> "labreq"
                        [] ~(Cardinality(proc[p].clones) + 1 < n) /\ Kind(a) # "lab" -> "publish"
               /\ proc' = [proc EXCEPT ![p].pc = x, ![p].clones = @ \cup {r}, ![p].row = 0]
  BY DEF Booted
<1>4. /\ \A q \in Procs : q # p => proc'[q] = proc[q]
      /\ proc'[p].pc = x /\ proc'[p].job = "launch" /\ proc'[p].attempt = a
      /\ proc'[p].clones = proc[p].clones \cup {r} /\ proc'[p].todo = proc[p].todo
  BY <1>1, <1>3 DEF TypeOK, Handler
<1>5. Rows(a) = proc[p].clones \cup {r} /\ r \notin proc[p].clones /\ r \in 1 .. Len(ledger)
  <2>1. Rows(a) = proc[p].clones \cup {r} /\ r \notin proc[p].clones
    BY <1>1 DEF Launches, Cloning
  <2> QED BY <2>1 DEF Rows
<1>6. /\ Len(ledger') = Len(ledger) /\ Len(ledger) \in Nat
      /\ \A s \in 1 .. Len(ledger) : ledger'[s].attempt = ledger[s].attempt
      /\ ledger'[r].status = "running"
      /\ \A s \in 1 .. Len(ledger) : s # r => ledger'[s] = ledger[s]
  <2>1. ledger[r] \in Row /\ Len(ledger) \in Nat
    BY <1>1, <1>5, LedgerFacts
  <2>2. PICK row : row = [ledger[r] EXCEPT !.status = "running"]
    OBVIOUS
  <2>3. row \in Row /\ row.status = "running" /\ row.attempt = ledger[r].attempt
    BY <2>1, <2>2 DEF Row
  <2>4. ledger' = [ledger EXCEPT ![r] = row]
    BY <1>2, <2>2
  <2>5. /\ Len(ledger') = Len(ledger)
        /\ \A s \in 1 .. Len(ledger) : ledger'[s] = IF s = r THEN row ELSE ledger[s]
    BY <1>1, <2>3, <2>4, RowReplaced
  <2> QED BY <1>5, <2>1, <2>3, <2>5
<1>7. Appends(a) /\ Rows(a)' = Rows(a)
  <2>1. ledger[r].attempt = a
    BY <1>5 DEF Rows
  <2> QED BY <1>5, <1>6, <2>1 DEF Appends, Rows
<1>8. Frame(p, a) /\ Calm(p, a)
  BY <1>1, <1>2, <1>4, <1>7 DEF Frame, Calm
<1>9. x \in {"list", "labreq", "publish"}
  BY <1>3
<1>10. Closes(p)'
  BY <1>1, <1>4, <1>5, <1>7, <1>9 DEF Closes
<1>11. Agrees(a)'
  BY <1>1, <1>2 DEF Launches, Agrees
<1>12. \A s \in proc[p].clones \cup {r} : ledger'[s].status \in Made
  <2>1. \A s \in proc[p].clones : s \in 1 .. Len(ledger) /\ s # r /\ ledger[s].status \in Made
    BY <1>1, <1>5 DEF Launches, Cloning, Rows
  <2> QED BY <1>6, <2>1 DEF Made
<1>13. /\ Cardinality(proc[p].clones \cup {r}) = Cardinality(proc[p].clones) + 1
       /\ Cardinality(proc[p].clones) \in Nat
  <2>1. IsFiniteSet(proc[p].clones)
    <3>1. IsFiniteSet(1 .. Len(ledger))
      BY <1>6, FS_Interval
    <3>2. proc[p].clones \subseteq 1 .. Len(ledger)
      BY <1>5 DEF Rows
    <3> QED BY <3>1, <3>2, FS_Subset
  <2> QED BY <2>1, <1>5, FS_AddElement, FS_CardinalityType
<1>14. n \in Nat /\ Cardinality(proc[p].clones) < n
  BY <1>1, AttemptAssumption DEF Launches, Cloning
<1>15. /\ x = "list" => Cardinality(proc[p].clones) + 1 < n
       /\ x \in {"labreq", "publish"} => Cardinality(proc[p].clones) + 1 = n
       /\ x = "publish" => Kind(a) # "lab"
  <2>1. PICK m : m = Cardinality(proc[p].clones)
    OBVIOUS
  <2>2. m \in Nat /\ m < n /\ n \in Nat
    BY <1>13, <1>14, <2>1
  <2>3. PICK k : k = Kind(a)
    OBVIOUS
  <2>4. x = CASE m + 1 < n                 -> "list"
              [] ~(m + 1 < n) /\ k = "lab" -> "labreq"
              [] ~(m + 1 < n) /\ k # "lab" -> "publish"
    BY <1>3, <2>1, <2>3
  <2>5. /\ m + 1 < n => x = "list"
        /\ ~(m + 1 < n) /\ k = "lab" => x = "labreq"
        /\ ~(m + 1 < n) /\ k # "lab" => x = "publish"
    <3>1. CASE m + 1 < n
      BY <2>4, <3>1
    <3>2. CASE ~(m + 1 < n) /\ k = "lab"
      BY <2>4, <3>2
    <3>3. CASE ~(m + 1 < n) /\ k # "lab"
      BY <2>4, <3>3
    <3> QED BY <3>1, <3>2, <3>3
  <2>6. ~(m + 1 < n) => m + 1 = n
    BY <2>2
  <2> QED BY <2>1, <2>3, <2>5, <2>6
<1>16. Launches(p)'
  <2>1. inst'[a] = inst[a] /\ Kind(a)' = Kind(a) /\ vnet' = vnet
    BY <1>2 DEF Kind
  <2> QED BY <1>1, <1>4, <1>5, <1>7, <1>9, <1>12, <1>13, <1>15, <2>1
      DEF Launches, Between, Cloning, Finished, Failing, Teardown
<1> QED BY <1>1, <1>4, <1>8, <1>10, <1>11, <1>16, StepKeeps

LEMMA DiscardKeeps ==
  ASSUME Good, NEW p \in Procs, Discard(p)
  PROVE  SInv'
<1> PICK a : a = proc[p].attempt
  OBVIOUS
<1> PICK r : r = proc[p].row
  OBVIOUS
<1>1. /\ proc[p].pc = "discard" /\ proc[p].job = "launch" /\ a \in Attempts
      /\ Launches(p) /\ Agrees(a) /\ TypeOK
  BY LaunchPc DEF Discard, At, Teardown, Good, Typed
<1>2. UNCHANGED <<inst, labUp, vnet>> /\ LaunchFails(p)
      /\ ledger' = [ledger EXCEPT ![r].status = "error", ![r].live = FALSE]
  BY DEF Discard
<1>3. r \in 1 .. Len(ledger) /\ ledger[r].attempt = a
  <2>1. r \in Rows(a)
    BY <1>1 DEF Launches, Cloning
  <2> QED BY <2>1 DEF Rows
<1>4. /\ Len(ledger') = Len(ledger) /\ Len(ledger) \in Nat
      /\ \A s \in 1 .. Len(ledger) : ledger'[s].attempt = ledger[s].attempt
      /\ \A s \in 1 .. Len(ledger) : s # r => ledger'[s] = ledger[s]
  <2>1. ledger[r] \in Row /\ Len(ledger) \in Nat
    BY <1>1, <1>3, LedgerFacts
  <2>2. PICK row : row = [ledger[r] EXCEPT !.status = "error", !.live = FALSE]
    OBVIOUS
  <2>3. row \in Row /\ row.attempt = ledger[r].attempt
    BY <2>1, <2>2 DEF Row
  <2>4. ledger' = [ledger EXCEPT ![r] = row]
    BY <1>2, <2>2
  <2>5. /\ Len(ledger') = Len(ledger)
        /\ \A s \in 1 .. Len(ledger) : ledger'[s] = IF s = r THEN row ELSE ledger[s]
    BY <1>1, <2>3, <2>4, RowReplaced
  <2> QED BY <1>3, <2>1, <2>3, <2>5
<1>5. Appends(a) /\ Rows(a)' = Rows(a)
  BY <1>3, <1>4 DEF Appends, Rows
<1>6. /\ proc'[p].attempt = a /\ proc'[p].job = "launch"
      /\ \A q \in Procs : q # p => proc'[q] = proc[q]
      /\ Launches(p)' /\ Closes(p)'
  BY <1>1, <1>2, <1>5, FailsKeeps
<1>7. Frame(p, a) /\ Calm(p, a)
  BY <1>1, <1>2, <1>5, <1>6 DEF Frame, Calm
<1>8. Agrees(a)'
  BY <1>1, <1>2 DEF Launches, Agrees
<1> QED BY <1>1, <1>6, <1>7, <1>8, StepKeeps

LEMMA LabFrame ==
  ASSUME TypeOK, NEW a \in Attempts, NEW s, Lab(a, s)
  PROVE  /\ inst'[a].status = inst[a].status /\ inst'[a].challenge = inst[a].challenge
         /\ inst'[a].lab = s
         /\ \A b \in Attempts : b # a => inst'[b] = inst[b]
BY DEF TypeOK, Attempt, Lab

LEMMA LabRequestKeeps ==
  ASSUME Good, NEW p \in Procs, LabRequest(p)
  PROVE  SInv'
<1> PICK a : a = proc[p].attempt
  OBVIOUS
<1>1. /\ proc[p].pc = "labreq" /\ proc[p].job = "launch" /\ a \in Attempts
      /\ Launches(p) /\ Closes(p) /\ Agrees(a) /\ TypeOK
  BY LaunchPc DEF LabRequest, At, Teardown, Good, Typed
<1>2. UNCHANGED <<ledger, vnet, labUp>>
  BY DEF LabRequest
<1>3. CASE UNCHANGED inst /\ LaunchFails(p)
  BY <1>1, <1>2, <1>3, LaunchDrops DEF Finished
<1>4. CASE Lab(a, "requested") /\ Goto(p, "labstart")
  <2>1. Carries(p, "labstart")
    BY <1>1, <1>4, GotoCarries
  <2>2. /\ inst'[a].status = inst[a].status /\ inst'[a].challenge = inst[a].challenge
        /\ inst'[a].lab = "requested"
        /\ \A b \in Attempts : b # a => inst'[b] = inst[b]
    BY <1>1, <1>4, LabFrame
  <2>3. Appends(a) /\ Rows(a)' = Rows(a)
    BY <1>1, <1>2, LedgerStays
  <2>4. Frame(p, a) /\ Calm(p, a)
    BY <1>1, <1>2, <2>1, <2>2, <2>3 DEF Frame, Calm, Carries
  <2>5. Closes(p)'
    BY <1>1, <2>1, <2>3 DEF Closes, Carries
  <2>6. Agrees(a)'
    BY <1>1, <2>2 DEF Launches, Agrees
  <2>7. Launches(p)'
    BY <1>1, <1>2, <2>1, <2>2, <2>3
    DEF Launches, Carries, Kind, Between, Cloning, Finished, Failing, Teardown
  <2> QED BY <1>1, <2>1, <2>4, <2>5, <2>6, <2>7, StepKeeps DEF Carries
<1> QED BY <1>3, <1>4 DEF LabRequest

LEMMA LabStartKeeps ==
  ASSUME Good, NEW p \in Procs, LabStart(p)
  PROVE  SInv'
<1> PICK a : a = proc[p].attempt
  OBVIOUS
<1>1. /\ proc[p].pc = "labstart" /\ proc[p].job = "launch" /\ a \in Attempts
      /\ Launches(p) /\ Closes(p) /\ Agrees(a) /\ TypeOK
  BY LaunchPc DEF LabStart, At, Teardown, Good, Typed
<1>2. UNCHANGED <<inst, ledger, vnet>> /\ labUp' \in {labUp, labUp \cup {a}}
  BY DEF LabStart
<1>3. PICK x \in {"labok", "labbad"} : Goto(p, x)
  BY DEF LabStart
<1>4. Carries(p, x)
  BY <1>1, <1>3, GotoCarries
<1>5. Appends(a) /\ Rows(a)' = Rows(a)
  BY <1>1, <1>2, LedgerStays
<1>6. Frame(p, a) /\ Calm(p, a)
  BY <1>1, <1>2, <1>4, <1>5 DEF Frame, Calm, Carries
<1>7. Closes(p)'
  BY <1>1, <1>4, <1>5 DEF Closes, Carries
<1>8. Agrees(a)'
  BY <1>1, <1>2 DEF Launches, Agrees
<1>9. Launches(p)'
  BY <1>1, <1>2, <1>4, <1>5
  DEF Launches, Carries, Kind, Between, Cloning, Finished, Failing, Teardown
<1> QED BY <1>1, <1>4, <1>6, <1>7, <1>8, <1>9, StepKeeps DEF Carries

LEMMA LabOkKeeps ==
  ASSUME Good, NEW p \in Procs, LabOk(p)
  PROVE  SInv'
<1> PICK a : a = proc[p].attempt
  OBVIOUS
<1>1. /\ proc[p].pc = "labok" /\ proc[p].job = "launch" /\ a \in Attempts
      /\ Launches(p) /\ Closes(p) /\ Agrees(a) /\ TypeOK
  BY LaunchPc DEF LabOk, At, Teardown, Good, Typed
<1>2. UNCHANGED <<ledger, vnet, labUp>> /\ Lab(a, "active") /\ Carries(p, "publish")
  BY <1>1, GotoCarries DEF LabOk
<1>3. /\ inst'[a].status = inst[a].status /\ inst'[a].challenge = inst[a].challenge
      /\ inst'[a].lab = "active"
      /\ \A b \in Attempts : b # a => inst'[b] = inst[b]
  BY <1>1, <1>2, LabFrame
<1>4. Appends(a) /\ Rows(a)' = Rows(a)
  BY <1>1, <1>2, LedgerStays
<1>5. Frame(p, a) /\ Calm(p, a)
  BY <1>1, <1>2, <1>3, <1>4 DEF Frame, Calm, Carries
<1>6. Closes(p)'
  BY <1>1, <1>2, <1>4 DEF Closes, Carries
<1>7. Agrees(a)'
  BY <1>1, <1>3 DEF Launches, Agrees
<1>8. Launches(p)'
  <2>1. inst[a].status = "provisioning" /\ inst[a].challenge \in Challenges
    BY <1>1 DEF Launches
  <2> QED BY <1>1, <1>2, <1>3, <1>4, <2>1
      DEF Launches, Carries, Kind, Between, Cloning, Finished, Failing, Teardown
<1> QED BY <1>1, <1>2, <1>5, <1>6, <1>7, <1>8, StepKeeps DEF Carries

LEMMA LabBadKeeps ==
  ASSUME Good, NEW p \in Procs, LabBad(p)
  PROVE  SInv'
<1> PICK a : a = proc[p].attempt
  OBVIOUS
<1>1. /\ proc[p].pc = "labbad" /\ proc[p].job = "launch" /\ a \in Attempts
      /\ Launches(p) /\ Agrees(a) /\ TypeOK
  BY LaunchPc DEF LabBad, At, Teardown, Good, Typed
<1>2. UNCHANGED <<ledger, vnet, labUp>> /\ Lab(a, "cleanup_pending") /\ LaunchFails(p)
  BY <1>1 DEF LabBad
<1>3. /\ inst'[a].status = inst[a].status /\ inst'[a].challenge = inst[a].challenge
      /\ inst'[a].lab = "cleanup_pending"
      /\ \A b \in Attempts : b # a => inst'[b] = inst[b]
  BY <1>1, <1>2, LabFrame
<1>4. Appends(a) /\ Rows(a)' = Rows(a)
  BY <1>1, <1>2, LedgerStays
<1>5. /\ proc'[p].attempt = a /\ proc'[p].job = "launch"
      /\ \A q \in Procs : q # p => proc'[q] = proc[q]
      /\ Launches(p)' /\ Closes(p)'
  BY <1>1, <1>2, <1>3, <1>4, FailsKeeps
<1>6. Frame(p, a) /\ Calm(p, a)
  BY <1>1, <1>2, <1>3, <1>4, <1>5 DEF Frame, Calm
<1>7. Agrees(a)'
  BY <1>1, <1>3 DEF Launches, Agrees
<1> QED BY <1>1, <1>5, <1>6, <1>7, StepKeeps

LEMMA StatusFrame ==
  ASSUME TypeOK, NEW a \in Attempts, NEW s, Status(a, s)
  PROVE  /\ inst'[a].status = s /\ inst'[a].challenge = inst[a].challenge
         /\ inst'[a].lab = inst[a].lab
         /\ \A b \in Attempts : b # a => inst'[b] = inst[b]
BY DEF TypeOK, Attempt, Status

\* 'running' is committed when the launch has all there is to have.
LEMMA PublishKeeps ==
  ASSUME Good, NEW p \in Procs, Publish(p)
  PROVE  SInv'
<1> PICK a : a = proc[p].attempt
  OBVIOUS
<1>1. /\ proc[p].pc = "publish" /\ proc[p].job = "launch" /\ a \in Attempts
      /\ Launches(p) /\ Closes(p) /\ Agrees(a) /\ TypeOK
  BY LaunchPc DEF Publish, At, Teardown, Good, Typed
<1>2. UNCHANGED <<ledger, vnet, labUp>>
  BY DEF Publish
<1>3. CASE UNCHANGED inst /\ LaunchFails(p)
  BY <1>1, <1>2, <1>3, LaunchDrops DEF Finished
<1>4. CASE Status(a, "running") /\ Done(p)
  <2>1. /\ inst'[a].status = "running" /\ inst'[a].challenge = inst[a].challenge
        /\ inst'[a].lab = inst[a].lab
        /\ \A b \in Attempts : b # a => inst'[b] = inst[b]
    BY <1>1, <1>4, StatusFrame
  <2>2. /\ proc'[p] = Idle /\ \A q \in Procs : q # p => proc'[q] = proc[q]
        /\ Launches(p)' /\ Closes(p)'
    BY <1>1, <1>4, DoneEnds
  <2>3. Appends(a) /\ Rows(a)' = Rows(a)
    BY <1>1, <1>2, LedgerStays
  <2>4. Frame(p, a) /\ Calm(p, a)
    BY <1>1, <1>2, <2>1, <2>2, <2>3 DEF Frame, Calm
  <2>5. /\ Rows(a) = proc[p].clones
        /\ \A r \in proc[p].clones : ledger[r].status \in Made
        /\ Cardinality(proc[p].clones) = VmCount[inst[a].challenge]
        /\ Kind(a) = "vm"  => a \in vnet
        /\ Kind(a) = "lab" => inst[a].lab = "active"
    BY <1>1 DEF Launches, Finished
  <2>6. Kind(a)' = Kind(a)
    BY <2>1 DEF Kind
  <2>7. Agrees(a)'
    BY <1>1, <1>2, <2>1, <2>3, <2>5, <2>6 DEF Agrees
  <2> QED BY <1>1, <2>2, <2>4, <2>7, StepKeeps
<1> QED BY <1>3, <1>4 DEF Publish

LEMMA AbandonKeeps ==
  ASSUME Good, NEW p \in Procs, Abandon(p)
  PROVE  SInv'
<1> PICK a : a = proc[p].attempt
  OBVIOUS
<1>1. /\ proc[p].pc = "abandon" /\ proc[p].job = "launch" /\ a \in Attempts
      /\ Agrees(a) /\ TypeOK
  BY LaunchPc DEF Abandon, At, Teardown, Good, Typed
<1>2. UNCHANGED <<ledger, vnet, labUp>> /\ Status(a, "abandoned") /\ Done(p)
  BY DEF Abandon
<1>3. /\ inst'[a].status = "abandoned" /\ inst'[a].lab = inst[a].lab
      /\ \A b \in Attempts : b # a => inst'[b] = inst[b]
  BY <1>1, <1>2, StatusFrame
<1>4. /\ proc'[p] = Idle /\ \A q \in Procs : q # p => proc'[q] = proc[q]
      /\ Launches(p)' /\ Closes(p)'
  BY <1>1, <1>2, DoneEnds
<1>5. Appends(a)
  BY <1>1, <1>2, LedgerStays
<1>6. Frame(p, a) /\ Calm(p, a)
  BY <1>1, <1>2, <1>3, <1>4, <1>5 DEF Frame, Calm
<1>7. Agrees(a)'
  BY <1>1, <1>2, <1>3 DEF Agrees
<1> QED BY <1>1, <1>4, <1>6, <1>7, StepKeeps

-----------------------------------------------------------------------------
(* The steps of a teardown.                                                *)

\* The outcome is committed before anything is torn down.
LEMMA RecordKeeps ==
  ASSUME Good, NEW p \in Procs, Record(p)
  PROVE  SInv'
<1> PICK a : a = proc[p].attempt
  OBVIOUS
<1>1. /\ proc[p].pc = "closing" /\ a \in Attempts /\ Launches(p) /\ Closes(p)
      /\ Agrees(a) /\ TypeOK /\ proc[p].job \in {"launch", "close", "retry"}
  BY TeardownPc DEF Record, At, Good, Typed
<1>2. proc[p].job = "close" /\ proc[p].outcome \in Terminal
  BY <1>1 DEF Launches, Closes, Between, Cloning, Finished, Failing, Teardown
<1>3. UNCHANGED <<ledger, vnet, labUp>> /\ Status(a, proc[p].outcome)
  BY DEF Record
<1>4. /\ inst'[a].status = proc[p].outcome /\ inst'[a].lab = inst[a].lab
      /\ \A b \in Attempts : b # a => inst'[b] = inst[b]
  BY <1>1, <1>3, StatusFrame
<1>5. /\ \A q \in Procs : q # p => proc'[q] = proc[q]
      /\ proc'[p].pc = "lab" /\ proc'[p].job = "close" /\ proc'[p].attempt = a
      /\ proc'[p].clones = proc[p].clones /\ proc'[p].todo = RowsOf(a)
      /\ proc'[p].outcome = proc[p].outcome
  BY <1>1, <1>2 DEF Record, TypeOK, Handler
<1>6. Appends(a) /\ Rows(a)' = Rows(a)
  BY <1>1, <1>3, LedgerStays
<1>7. Frame(p, a) /\ Calm(p, a)
  BY <1>1, <1>2, <1>3, <1>4, <1>5, <1>6 DEF Frame, Calm, Terminal
<1>8. RowsOf(a) \subseteq Rows(a)
  BY DEF RowsOf, LiveRows, Rows
<1>9. Closes(p)'
  BY <1>1, <1>2, <1>4, <1>5, <1>6, <1>8 DEF Closes, Terminal, Teardown
<1>10. Launches(p)'
  BY <1>5 DEF Launches
<1>11. Agrees(a)'
  BY <1>1, <1>2, <1>3, <1>4 DEF Agrees, Terminal
<1> QED BY <1>1, <1>2, <1>5, <1>7, <1>9, <1>10, <1>11, StepKeeps

\* A step of a teardown that starts no Docker session, forgets none, and
\* leaves the status of its attempt.
LEMMA TeardownMoves ==
  ASSUME Good, NEW p \in Procs, NEW a \in Attempts, proc[p].attempt = a,
         proc[p].pc \in Teardown, Frame(p, a), Rows(a)' = Rows(a),
         inst'[a].status = inst[a].status, inst'[a].challenge = inst[a].challenge,
         a \in labUp' => a \in labUp
                         /\ inst'[a].lab \in {"requested", "active", "cleanup_pending"},
         \/ proc'[p] = Idle
         \/ /\ proc'[p].job = proc[p].job /\ proc'[p].attempt = a
            /\ proc'[p].outcome = proc[p].outcome
            /\ proc'[p].clones = proc[p].clones /\ proc'[p].todo \subseteq proc[p].todo
            /\ proc'[p].pc \in Teardown \/ (proc'[p].pc = "abandon" /\ proc[p].job = "launch")
            /\ proc[p].job = "retry" => proc'[p].pc \in {"lab", "labcall", "labdone"}
            /\ proc'[p].pc = "labdone" => a \notin labUp'
  PROVE  SInv'
<1>1. /\ proc[p].job \in {"launch", "close", "retry"} /\ Launches(p) /\ Closes(p) /\ Agrees(a)
  BY TeardownPc
<1>2. inst[a].status \in {"provisioning"} \cup Terminal
  BY <1>1 DEF Launches, Closes, Teardown
<1>3. Calm(p, a)
  BY DEF Calm
<1>4. Launches(p)'
  BY <1>1 DEF Launches, Between, Cloning, Finished, Failing, Teardown, Idle
<1>5. Closes(p)'
  <2>1. CASE proc'[p] = Idle
    BY <2>1 DEF Closes, Idle
  <2>2. CASE proc'[p] # Idle
    BY <1>1, <2>2 DEF Closes, Teardown
  <2> QED BY <2>1, <2>2
<1>6. Agrees(a)'
  BY <1>1, <1>2 DEF Agrees, Terminal
<1> QED BY <1>3, <1>4, <1>5, <1>6, StepKeeps

LEMMA AfterLabMoves ==
  ASSUME TypeOK, NEW p \in Procs, AfterLab(p)
  PROVE  /\ \A q \in Procs : q # p => proc'[q] = proc[q]
         /\ \/ proc'[p] = Idle
            \/ Carries(p, "destroy") /\ proc[p].job # "retry"
<1>1. CASE Done(p)
  BY <1>1, DoneEnds
<1>2. CASE Goto(p, "destroy") /\ proc[p].job # "retry"
  BY <1>2, GotoCarries DEF Carries
<1> QED BY <1>1, <1>2 DEF AfterLab

LEMMA LabStopKeeps ==
  ASSUME Good, NEW p \in Procs, LabStopBegin(p) \/ LabStopCall(p) \/ LabStopAck(p)
  PROVE  SInv'
<1> PICK a : a = proc[p].attempt
  OBVIOUS
<1>1. /\ proc[p].pc \in {"lab", "labcall", "labdone"} /\ a \in Attempts
      /\ Closes(p) /\ Agrees(a) /\ TypeOK
  BY TeardownPc DEF LabStopBegin, LabStopCall, LabStopAck, At, Teardown, Good, Typed
<1>2. UNCHANGED <<ledger, vnet>> /\ Appends(a) /\ Rows(a)' = Rows(a)
  <2>1. UNCHANGED <<ledger, vnet>>
    BY DEF LabStopBegin, LabStopCall, LabStopAck
  <2> QED BY <1>1, <2>1, LedgerStays
<1>3. UNCHANGED inst \/ \E s : Lab(a, s)
  BY DEF LabStopBegin, LabStopCall, LabStopAck
<1>4. /\ inst'[a].status = inst[a].status /\ inst'[a].challenge = inst[a].challenge
      /\ \A b \in Attempts : b # a => inst'[b] = inst[b]
  BY <1>1, <1>3, LabFrame
<1>5. ASSUME \A b \in Attempts : b # a => (b \in labUp' <=> b \in labUp),
             a \in labUp' => a \in labUp
                             /\ inst'[a].lab \in {"requested", "active", "cleanup_pending"},
             \/ AfterLab(p)
             \/ \E x \in {"labcall", "labdone"} : Goto(p, x) /\ (x = "labdone" => a \notin labUp')
      PROVE  SInv'
  <2>1. /\ \A q \in Procs : q # p => proc'[q] = proc[q]
        /\ \/ proc'[p] = Idle
           \/ Carries(p, "destroy") /\ proc[p].job # "retry"
           \/ Carries(p, "labcall")
           \/ Carries(p, "labdone") /\ a \notin labUp'
    <3>1. CASE AfterLab(p)
      BY <1>1, <3>1, AfterLabMoves
    <3>2. ASSUME NEW x \in {"labcall", "labdone"}, Goto(p, x), x = "labdone" => a \notin labUp'
          PROVE  Carries(p, x)
      BY <1>1, <3>2, GotoCarries
    <3> QED BY <1>5, <3>1, <3>2 DEF Carries
  <2>2. Frame(p, a)
    BY <1>2, <1>4, <1>5, <2>1 DEF Frame
  <2> QED BY <1>1, <1>2, <1>4, <1>5, <2>1, <2>2, TeardownMoves DEF Carries, Teardown
<1>6. CASE LabStopBegin(p)
  <2>1. CASE AfterLab(p) /\ UNCHANGED <<inst, labUp>>
    BY <1>1, <1>5, <2>1 DEF Agrees
  <2>2. CASE Lab(a, "cleanup_pending") /\ Goto(p, "labcall") /\ UNCHANGED labUp
    <3>1. inst'[a].lab = "cleanup_pending"
      BY <1>1, <2>2, LabFrame
    <3> QED BY <1>5, <2>2, <3>1
  <2> QED BY <1>6, <2>1, <2>2 DEF LabStopBegin
<1>7. CASE LabStopCall(p)
  <2>1. CASE labUp' = labUp \ {a} /\ Goto(p, "labdone")
    BY <1>5, <2>1
  <2>2. CASE labUp' \in {labUp, labUp \ {a}} /\ Lab(a, "cleanup_pending") /\ AfterLab(p)
    <3>1. inst'[a].lab = "cleanup_pending"
      BY <1>1, <2>2, LabFrame
    <3> QED BY <1>5, <2>2, <3>1
  <2> QED BY <1>7, <2>1, <2>2 DEF LabStopCall
<1>8. CASE LabStopAck(p)
  <2>1. AfterLab(p) /\ UNCHANGED labUp /\ a \notin labUp
    BY <1>1, <1>8 DEF LabStopAck, Closes, At
  <2> QED BY <1>5, <2>1
<1> QED BY <1>6, <1>7, <1>8

\* A set of rows that is not empty has an oldest one.
LEMMA Oldest ==
  ASSUME NEW n \in Nat, NEW T, T \subseteq 1 .. n, T # {}
  PROVE  \E x \in T : \A y \in T : x <= y
<1> DEFINE S == 1 .. n
           U == {1 .. x : x \in T}
           R == StrictSubsetOrdering(S)
<1>1. IsWellFoundedOn(R, SUBSET S)
  <2>1. IsFiniteSet(S)
    BY FS_Interval
  <2> HIDE DEF S
  <2>2. FiniteSubsetsOf(S) = SUBSET S
    BY <2>1, FS_FiniteSubsetsOfFinite
  <2> QED BY <2>2, FS_StrictSubsetOrderingWellFounded
<1>2. U \subseteq SUBSET S /\ U # {}
  <2>1. \A x \in T : 1 .. x \subseteq S
    OBVIOUS
  <2>2. U \subseteq SUBSET S
    BY <2>1
  <2>3. PICK x \in T : TRUE
    OBVIOUS
  <2>4. (1 .. x) \in U
    BY <2>3
  <2> QED BY <2>2, <2>4
<1>3. PICK u \in U : \A v \in U : ~(<<v, u>> \in R)
  <2> HIDE DEF R, U, S
  <2> QED BY <1>1, <1>2, WFMin
<1>4. PICK x \in T : u = 1 .. x
  OBVIOUS
<1>5. ASSUME NEW y \in T, y < x PROVE FALSE
  <2>1. (1 .. y) \in U /\ (1 .. y) \subseteq (1 .. x) /\ x \in 1 .. x /\ x \notin 1 .. y
    BY <1>5
  <2>2. <<1 .. y, u>> \in R
    BY <1>2, <1>4, <2>1 DEF StrictSubsetOrdering
  <2> QED BY <1>3, <2>1, <2>2
<1> QED BY <1>5

LEMMA DoomedIsOwn ==
  ASSUME Good, NEW p \in Procs, proc[p].todo # {}
  PROVE  /\ Doomed(p) \in proc[p].todo /\ Doomed(p) \in 1 .. Len(ledger)
         /\ ledger[Doomed(p)].attempt = proc[p].attempt
<1>1. Len(ledger) \in Nat /\ proc[p].todo \subseteq Rows(proc[p].attempt)
  BY LedgerFacts DEF Good, Typed, SInv, Closes
<1>2. proc[p].todo \subseteq 1 .. Len(ledger)
  BY <1>1 DEF Rows
<1>3. PICK T : T = proc[p].todo
  OBVIOUS
<1>4. PICK n : n = Len(ledger)
  OBVIOUS
<1>5. \E r \in T : \A s \in T : r <= s
  BY <1>1, <1>2, <1>3, <1>4, Oldest
<1>6. Doomed(p) \in T
  BY <1>3, <1>5 DEF Doomed
<1> QED BY <1>1, <1>2, <1>3, <1>6 DEF Rows

LEMMA DestroyKeeps ==
  ASSUME Good, NEW p \in Procs, Destroy(p)
  PROVE  SInv'
<1> PICK a : a = proc[p].attempt
  OBVIOUS
<1> PICK r : r = Doomed(p)
  OBVIOUS
<1>1. /\ proc[p].pc = "destroy" /\ a \in Attempts /\ Closes(p) /\ Agrees(a) /\ TypeOK
      /\ proc[p].job \in {"launch", "close", "retry"}
  BY TeardownPc DEF Destroy, At, Teardown, Good, Typed
<1>2. UNCHANGED <<inst, vnet, labUp>> /\ proc[p].job # "retry"
  BY <1>1 DEF Destroy, Closes
<1>3. r \in 1 .. Len(ledger) /\ ledger[r].attempt = a
  BY DoomedIsOwn DEF Destroy
<1>4. UNCHANGED ledger \/ ledger' = [ledger EXCEPT ![r].status = "error"]
  BY DEF Destroy
<1>5. Appends(a) /\ Rows(a)' = Rows(a)
  <2>1. CASE UNCHANGED ledger
    BY <1>1, <2>1, LedgerStays
  <2>2. CASE ledger' = [ledger EXCEPT ![r].status = "error"]
    <3>1. ledger[r] \in Row /\ Len(ledger) \in Nat
      BY <1>1, <1>3, LedgerFacts
    <3>2. PICK row : row = [ledger[r] EXCEPT !.status = "error"]
      OBVIOUS
    <3>3. row \in Row /\ row.attempt = ledger[r].attempt
      BY <3>1, <3>2 DEF Row
    <3>4. ledger' = [ledger EXCEPT ![r] = row]
      BY <2>2, <3>2
    <3>5. /\ Len(ledger') = Len(ledger)
          /\ \A s \in 1 .. Len(ledger) : ledger'[s] = IF s = r THEN row ELSE ledger[s]
      BY <1>1, <3>3, <3>4, RowReplaced
    <3> QED BY <1>3, <3>1, <3>3, <3>5 DEF Appends, Rows
  <2> QED BY <1>4, <2>1, <2>2
<1>6. /\ \A q \in Procs : q # p => proc'[q] = proc[q]
      /\ \/ proc'[p] = Idle
         \/ /\ proc'[p].job = proc[p].job /\ proc'[p].attempt = a
            /\ proc'[p].outcome = proc[p].outcome /\ proc'[p].clones = proc[p].clones
            /\ proc'[p].todo \subseteq proc[p].todo /\ proc'[p].pc \in {"destroy", "mark"}
  <2>1. \/ Goto(p, "mark") \/ Done(p)
        \/ proc' = [proc EXCEPT ![p].todo = @ \ {Doomed(p)}]
    BY DEF Destroy
  <2>2. CASE Goto(p, "mark")
    BY <1>1, <2>2, GotoCarries DEF Carries
  <2>3. CASE Done(p)
    BY <1>1, <2>3, DoneEnds
  <2>4. CASE proc' = [proc EXCEPT ![p].todo = @ \ {Doomed(p)}]
    BY <1>1, <2>4 DEF TypeOK, Handler
  <2> QED BY <2>1, <2>2, <2>3, <2>4
<1>7. Frame(p, a)
  BY <1>2, <1>5, <1>6 DEF Frame
<1> QED BY <1>1, <1>2, <1>5, <1>6, <1>7, TeardownMoves DEF Agrees, Teardown

LEMMA MarkKeeps ==
  ASSUME Good, NEW p \in Procs, Mark(p)
  PROVE  SInv'
<1> PICK a : a = proc[p].attempt
  OBVIOUS
<1>1. /\ proc[p].pc = "mark" /\ a \in Attempts /\ Closes(p) /\ Agrees(a) /\ TypeOK
      /\ proc[p].job \in {"launch", "close", "retry"}
  BY TeardownPc DEF Mark, At, Teardown, Good, Typed
<1>2. UNCHANGED <<inst, vnet, labUp>> /\ proc[p].job # "retry"
  BY <1>1 DEF Mark, Closes
<1>3. PICK R : ledger' = [r \in DOMAIN ledger |->
                  IF r \in R THEN [ledger[r] EXCEPT !.status = "destroyed", !.live = FALSE]
                             ELSE ledger[r]]
  BY DEF Mark
<1>4. LedgerStep(R) /\ Len(ledger) \in Nat /\ DOMAIN ledger = 1 .. Len(ledger)
  BY <1>1, <1>3, RowsDestroyed, LedgerFacts
<1>5. \A r \in 1 .. Len(ledger) : ledger'[r].status \in {ledger[r].status, "destroyed"}
  <2>1. \A r \in 1 .. Len(ledger) : ledger[r] \in Row
    BY <1>1, LedgerFacts
  <2> QED BY <1>3, <1>4, <2>1 DEF Row
<1>6. Appends(a) /\ Rows(a)' = Rows(a)
  BY <1>4, <1>5 DEF Appends, Rows, LedgerStep
<1>7. /\ \A q \in Procs : q # p => proc'[q] = proc[q]
      /\ proc'[p].job = proc[p].job /\ proc'[p].attempt = a
      /\ proc'[p].outcome = proc[p].outcome /\ proc'[p].clones = proc[p].clones
      /\ proc'[p].todo \subseteq proc[p].todo /\ proc'[p].pc \in {"dropnet", "destroy"}
  <2>1. PICK x \in {"dropnet", "destroy"} :
          proc' = [proc EXCEPT ![p].pc = x, ![p].todo = @ \ {Doomed(p)}]
    BY DEF Mark
  <2> QED BY <1>1, <2>1 DEF TypeOK, Handler
<1>8. Frame(p, a)
  BY <1>2, <1>6, <1>7 DEF Frame
<1> QED BY <1>1, <1>2, <1>6, <1>7, <1>8, TeardownMoves DEF Agrees, Teardown

LEMMA EndKeeps ==
  ASSUME Good, NEW p \in Procs, Emptied(p) \/ DropNet(p)
  PROVE  SInv'
<1> PICK a : a = proc[p].attempt
  OBVIOUS
<1>1. /\ proc[p].pc \in {"destroy", "dropnet"} /\ a \in Attempts /\ Closes(p) /\ Agrees(a)
      /\ TypeOK /\ proc[p].job \in {"launch", "close", "retry"}
  BY TeardownPc DEF Emptied, DropNet, At, Teardown, Good, Typed
<1>2. /\ UNCHANGED <<inst, ledger, labUp>> /\ proc[p].job # "retry"
      /\ vnet' \in {vnet, vnet \ {a}}
  BY <1>1 DEF Emptied, DropNet, Closes
<1>3. Appends(a) /\ Rows(a)' = Rows(a)
  BY <1>1, <1>2, LedgerStays
<1>4. \/ Done(p)
      \/ proc[p].job = "launch" /\ \E x \in {"dropnet", "abandon"} : Goto(p, x)
  BY <1>1, <1>2 DEF Emptied, DropNet
<1>5. /\ \A q \in Procs : q # p => proc'[q] = proc[q]
      /\ \/ proc'[p] = Idle
         \/ /\ proc[p].job = "launch"
            /\ \E x \in {"dropnet", "abandon"} : Carries(p, x)
  <2>1. CASE Done(p)
    BY <1>1, <2>1, DoneEnds
  <2>2. ASSUME NEW x \in {"dropnet", "abandon"}, Goto(p, x)
        PROVE  Carries(p, x)
    BY <1>1, <2>2, GotoCarries
  <2> QED BY <1>4, <2>1, <2>2 DEF Carries
<1>6. Frame(p, a)
  BY <1>2, <1>3, <1>5 DEF Frame
<1> QED BY <1>1, <1>2, <1>3, <1>5, <1>6, TeardownMoves DEF Agrees, Teardown, Carries

-----------------------------------------------------------------------------
(* Handlers that die or begin.                                             *)

LEMMA CrashKeeps ==
  ASSUME Good, NEW p \in Procs, Crash(p)
  PROVE  SInv'
<1> PICK a : a = proc[p].attempt
  OBVIOUS
<1>1. a \in Attempts /\ TypeOK /\ Agrees(a)
  BY DEF Crash, Good, Typed, Working, SInv
<1>2. UNCHANGED <<inst, ledger, vnet, labUp>> /\ Done(p)
  BY DEF Crash
<1>3. /\ proc'[p] = Idle /\ \A q \in Procs : q # p => proc'[q] = proc[q]
      /\ Launches(p)' /\ Closes(p)'
  BY <1>1, <1>2, DoneEnds
<1>4. Appends(a) /\ Rows(a)' = Rows(a)
  BY <1>1, <1>2, LedgerStays
<1>5. Frame(p, a) /\ Calm(p, a)
  BY <1>2, <1>3, <1>4 DEF Frame, Calm
<1>6. Agrees(a)'
  BY <1>1, <1>2, <1>4 DEF Agrees, Kind
<1> QED BY <1>1, <1>3, <1>5, <1>6, StepKeeps

LEMMA BeginKeeps ==
  ASSUME Good, NEW p \in Procs, NEW a \in Attempts, NEW x, NEW j, NEW o,
         Begin(p, x, j, a, o), UNCHANGED <<inst, ledger, vnet, labUp>>,
         \A q \in Procs : proc[q].job = "launch" => proc[q].attempt # a,
         \/ /\ j = "launch" /\ x = "admitted" /\ inst[a].status = "none"
            /\ \A q \in Procs : proc[q].attempt # a
         \/ j = "close" /\ x = "closing" /\ inst[a].status # "none" /\ o \in Terminal
         \/ j = "retry" /\ x = "lab" /\ inst[a].status \in Terminal
  PROVE  SInv'
<1>1. TypeOK /\ SInv
  BY DEF Good, Typed
<1>2. /\ \A q \in Procs : q # p => proc'[q] = proc[q]
      /\ proc'[p].pc = x /\ proc'[p].job = j /\ proc'[p].attempt = a /\ proc'[p].outcome = o
      /\ proc'[p].clones = {} /\ proc'[p].todo = {}
  BY <1>1 DEF TypeOK, Begin, Idle
<1>3. \A b : Rows(b)' = Rows(b)
  BY DEF Rows
<1>4. \A b \in Attempts : Agrees(b)'
  BY <1>1, <1>3 DEF SInv, Agrees, Kind
<1>5. ASSUME NEW q \in Procs, q # p
      PROVE  Launches(q)' /\ Closes(q)'
  <2>1. PICK b : b = proc[q].attempt
    OBVIOUS
  <2>2. Launches(q) /\ Closes(q) /\ proc'[q] = proc[q] /\ Rows(b)' = Rows(b)
    BY <1>1, <1>2, <1>3, <1>5 DEF SInv
  <2> QED BY <2>1, <2>2 DEF Launches, Closes, Kind
<1>6. Launches(p)'
  BY <1>2 DEF Launches, Between, Cloning, Finished, Failing, Teardown
<1>7. Closes(p)'
  BY <1>2 DEF Closes, Teardown
<1>8. Alone'
  BY <1>1, <1>2 DEF SInv, Alone
<1> QED BY <1>4, <1>5, <1>6, <1>7, <1>8 DEF SInv

LEMMA ArrivalKeeps ==
  ASSUME Good, NEW p \in Procs, NEW a \in Attempts, Arrival(p, a)
  PROVE  SInv'
<1>1. \A q \in Procs : Launches(q)
  BY DEF Good, SInv
<1>2. UNCHANGED <<inst, ledger, vnet, labUp>>
  BY DEF Arrival, Admit, LastFlag, StudentClose, StaffClose, RetryCleanup, Closing
<1>3. CASE Admit(p, a)
  BY <1>2, <1>3, BeginKeeps DEF Admit
<1>4. ASSUME NEW o \in Terminal, inst[a].status = "running", Closing(p, a, o)
      PROVE  SInv'
  <2>1. \A q \in Procs : proc[q].job = "launch" => proc[q].attempt # a
    BY <1>1, <1>4 DEF Launches
  <2> QED BY <1>2, <1>4, <2>1, BeginKeeps DEF Closing
<1>5. CASE RetryCleanup(p, a)
  <2>1. \A q \in Procs : proc[q].job = "launch" => proc[q].attempt # a
    BY <1>1, <1>5 DEF Launches, RetryCleanup, Terminal
  <2> QED BY <1>2, <1>5, <2>1, BeginKeeps DEF RetryCleanup
<1> QED BY <1>3, <1>4, <1>5 DEF Arrival, LastFlag, StudentClose, StaffClose, Terminal

\* The reaper keeps off a session still being launched.
LEMMA ReapKeeps ==
  ASSUME Good, ShortLaunch, NEW a \in Attempts, Reap(a)
  PROVE  SInv'
<1>1. Reaper \in Procs /\ \A q \in Procs : Launches(q)
  BY DEF Good, SInv, Procs
<1>2. \A q \in Procs : proc[q].job = "launch" => proc[q].attempt # a
  BY <1>1 DEF Launches, Launching, Reap, ShortLaunch
<1>3. inst[a].status # "none" /\ Closing(Reaper, a, "abandoned")
  BY DEF Reap
<1> QED BY <1>1, <1>2, <1>3, BeginKeeps DEF Closing, Terminal

-----------------------------------------------------------------------------
LEMMA StepsKeep ==
  ASSUME Good, NEW p \in Procs, Step(p)
  PROVE  SInv'
<1>1. CASE LaunchStep(p)
  BY <1>1, OpenKeeps, MakeNetKeeps, NameNetKeeps, ReadUsedKeeps, ClaimKeepsAll, CloneStepsKeep,
     BootedKeeps, DiscardKeeps, LabRequestKeeps, LabStartKeeps, LabOkKeeps, LabBadKeeps,
     PublishKeeps, AbandonKeeps
  DEF LaunchStep
<1>2. CASE TeardownStep(p)
  BY <1>2, RecordKeeps, LabStopKeeps, DestroyKeeps, MarkKeeps, EndKeeps DEF TeardownStep
<1> QED BY <1>1, <1>2 DEF Step

LEMMA NextKeeps ==
  ASSUME Good, ShortLaunch, [Next]_vars
  PROVE  SInv'
<1>1. CASE Next
  BY <1>1, StepsKeep, CrashKeeps, ArrivalKeeps, ReapKeeps DEF Next, Procs
<1>2. CASE UNCHANGED vars
  <2>1. UNCHANGED <<inst, ledger, vnet, labUp, proc>> /\ SInv
    BY <1>2 DEF vars, Good
  <2>2. \A a : Rows(a)' = Rows(a)
    BY <2>1 DEF Rows
  <2>3. \A a \in Attempts : Agrees(a)'
    BY <2>1, <2>2 DEF SInv, Agrees, Kind
  <2>4. ASSUME NEW p \in Procs PROVE Launches(p)' /\ Closes(p)'
    <3>1. PICK a : a = proc[p].attempt
      OBVIOUS
    <3>2. Launches(p) /\ Closes(p) /\ Rows(a)' = Rows(a)
      BY <2>1, <2>2 DEF SInv
    <3> QED BY <2>1, <3>1, <3>2 DEF Launches, Closes, Kind
  <2>5. Alone'
    BY <2>1 DEF SInv, Alone
  <2> QED BY <2>3, <2>4, <2>5 DEF SInv
<1> QED BY <1>1, <1>2

LEMMA InitSession == Init => SInv
<1> SUFFICES ASSUME Init PROVE SInv
  OBVIOUS
<1>1. \A a : Rows(a) = {}
  BY DEF Init, Rows
<1>2. \A p \in Procs : proc[p] = Idle
  BY DEF Init
<1>3. \A p \in Procs : Launches(p) /\ Closes(p)
  BY <1>1, <1>2 DEF Launches, Closes, Idle
<1>4. \A a \in Attempts : Agrees(a)
  BY <1>1 DEF Init, Agrees
<1>5. Alone
  BY <1>2 DEF Alone, Idle
<1> QED BY <1>3, <1>4, <1>5 DEF SInv

\* Launchers are alone, launches hold every row of their attempt, closers
\* record first: in every reachable state.
THEOREM SessionInvariant ==
  ASSUME ShortLaunch
  PROVE  Spec => []SInv
<1>1. IInv => Typed
  BY DEF IInv, Typed
<1>2. Typed /\ SInv /\ [Next]_vars => SInv'
  BY NextKeeps DEF Good
<1> QED BY InitSession, <1>1, <1>2, RangeInvariant, PTL DEF Spec

\* The outcome of a session is committed before its teardown begins.
THEOREM ResultFirst ==
  ASSUME ShortLaunch
  PROVE  Spec => []OutcomeBeforeTeardown
<1>1. SInv => OutcomeBeforeTeardown
  BY DEF SInv, Closes, OutcomeBeforeTeardown, At
<1> QED BY <1>1, SessionInvariant, PTL

\* A Docker session that is up is on record, whoever crashed or failed.
THEOREM LabsAccounted ==
  ASSUME ShortLaunch
  PROVE  Spec => []LabAccounted
<1>1. IInv /\ SInv => LabAccounted
  BY DEF IInv, TypeOK, SInv, Agrees, LabAccounted
<1> QED BY <1>1, RangeInvariant, SessionInvariant, PTL

\* 'running' is never committed for a session that lacks a machine, its
\* network or its Docker session.
THEOREM LaunchedWhole ==
  ASSUME ShortLaunch
  PROVE  Spec => []NeverHalfLaunched
<1>1. SInv => NeverHalfLaunched
  <2> SUFFICES ASSUME SInv, NEW a \in Attempts, inst[a].status = "running"
               PROVE  /\ Cardinality({r \in 1 .. Len(ledger) : ledger[r].attempt = a
                            /\ ledger[r].status \in {"running", "destroyed"}})
                           = VmCount[inst[a].challenge]
                      /\ Kind(a) = "vm"  => a \in vnet
                      /\ Kind(a) = "lab" => inst[a].lab = "active"
    BY DEF NeverHalfLaunched
  <2>1. Agrees(a)
    BY DEF SInv
  <2>2. {r \in 1 .. Len(ledger) : ledger[r].attempt = a
            /\ ledger[r].status \in {"running", "destroyed"}} = Rows(a)
    BY <2>1 DEF Agrees, Rows, Made
  <2> QED BY <2>1, <2>2 DEF Agrees
<1> QED BY <1>1, SessionInvariant, PTL
=============================================================================
