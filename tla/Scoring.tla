------------------------------ MODULE Scoring ------------------------------
(***************************************************************************)
(* Flags: grading a submission, the award ledger, the completed attempt.   *)
(*                                                                         *)
(* Every request is handled by a thread of a web worker. It reads without  *)
(* a lock and writes in short transactions, so requests interleave between *)
(* their reads and their commits; a handler may die between two of them.   *)
(*                                                                         *)
(*   solves  the user_solves rows, in the order of their commits           *)
(*   log     how many flag_submissions of each user are first correct ones *)
(*   hits    the throttle_events of each user and challenge in the window  *)
(*   status  challenge_instances.status, of the attempts at a challenge    *)
(*   req     the request handlers                                          *)
(*                                                                         *)
(* The attempts are running at the start: how they were launched, and what *)
(* a close does to machines and labs, is in SessionRange. The flags of a   *)
(* challenge and their points do not change: no operation changes them.    *)
(* A guess stands for its normalised hash; a wrong one, or none, is a flag *)
(* of another challenge. A close by staff or the reaper does no more here  *)
(* than one the student asked for.                                         *)
(***************************************************************************)
EXTENDS Naturals, Sequences, FiniteSets

CONSTANTS
  Users, Challenges, Flags, Instances,
  UserOf,       \* [Instances -> Users]
  ChallengeOf,  \* [Instances -> Challenges]
  FlagsOf,      \* [Challenges -> SUBSET Flags]
  Points,       \* [Flags -> Nat]
  Handlers,     \* requests that can be under way at once
  Limit,        \* throttle.LIMITS["flag_challenge"]: guesses in a window
  None

ASSUME ScoringAssumption ==
  /\ UserOf \in [Instances -> Users] /\ ChallengeOf \in [Instances -> Challenges]
  /\ FlagsOf \in [Challenges -> SUBSET Flags] /\ Points \in [Flags -> Nat]
  /\ None \notin Flags \cup Instances
  /\ Limit \in Nat \ {0}
ASSUME FiniteAssumption ==
  IsFiniteSet(Handlers) /\ \A c \in Challenges : IsFiniteSet(FlagsOf[c])

VARIABLES solves, log, hits, status, req
svars == <<solves, log, hits, status, req>>

Ready  == [pc |-> "idle", inst |-> None, guess |-> None, already |-> FALSE, outcome |-> "none"]

Init ==
  /\ solves = << >>
  /\ log    = [u \in Users |-> 0]
  /\ hits   = [u \in Users |-> [c \in Challenges |-> 0]]
  /\ status = [i \in Instances |-> "running"]
  /\ req    = [h \in Handlers |-> Ready]

\* The user and the challenge of the request h.
Who(h)   == UserOf[req[h].inst]
Which(h) == ChallengeOf[req[h].inst]

Solved(u, f)  == \E k \in 1 .. Len(solves) : solves[k].user = u /\ solves[k].flag = f
Found(u, c)   == {k \in 1 .. Len(solves) : solves[k].user = u /\ solves[k].flag \in FlagsOf[c]}
SlipNotAll(u, c) == FlagsOf[c] # {} /\ Found(u, c) # {}
SlipBeyond(u, c) == FlagsOf[c] # {} /\ Cardinality(Found(u, c)) > Cardinality(FlagsOf[c])
\* challenge_progress(): counts of rows, not a comparison of flags.
Complete(u, c) == FlagsOf[c] # {} /\ Cardinality(Found(u, c)) >= Cardinality(FlagsOf[c])

-----------------------------------------------------------------------------
(* POST /session/<id>/flag                                                 *)

Done(h)    == req' = [req EXCEPT ![h] = Ready]
Goto(h, l) == req' = [req EXCEPT ![h].pc = l]

SlipOneMore(n) == n <= Limit
Allowed(n)     == n < Limit

\* The attempt is running.
Arrive(h, i, g) ==
  /\ req[h] = Ready
  /\ status[i] = "running"
  /\ req' = [req EXCEPT ![h] = [Ready EXCEPT !.pc = "arrived", !.inst = i, !.guess = g]]
  /\ UNCHANGED <<solves, log, hits, status>>

\* throttle.check(): a request without room in the window changes nothing.
CheckLimit(h) ==
  /\ req[h].pc = "arrived"
  /\ IF Allowed(hits[Who(h)][Which(h)]) THEN Goto(h, "allowed") ELSE Done(h)
  /\ UNCHANGED <<solves, log, hits, status>>

\* throttle.record()
CountHit(h) ==
  /\ req[h].pc = "allowed"
  /\ hits' = [hits EXCEPT ![Who(h)][Which(h)] = @ + 1]
  /\ Goto(h, "grade")
  /\ UNCHANGED <<solves, log, status>>

\* The oldest guess leaves the sliding window.
WindowRolls(u, c) ==
  /\ hits[u][c] > 0
  /\ hits' = [hits EXCEPT ![u][c] = @ - 1]
  /\ UNCHANGED <<solves, log, status, req>>

SlipAnyChallenge(h) == TRUE
\* Only a flag of this challenge is matched.
Matches(h) == req[h].guess \in FlagsOf[Which(h)]

\* The matching flag, and whether this user has been paid for it.
Look(h) ==
  /\ req[h].pc = "grade"
  /\ req' = [req EXCEPT ![h].pc = "write",
                        ![h].already = Matches(h) /\ Solved(Who(h), req[h].guess)]
  /\ UNCHANGED <<solves, log, hits, status>>

SlipNoUnique(u, f) == TRUE
\* The UNIQUE(user_id, flag_id) constraint, at the commit.
UniqueAllows(u, f) == ~Solved(u, f)

SlipLogApart(h) == [log EXCEPT ![Who(h)] = @ + 1]
\* The log after a transaction that the constraint undoes.
LogUndone(h) == log

\* submit_flag() commits the log entry, with the award if there is one. Log
\* entries of misses and repeats are not kept here.
Grade(h) ==
  /\ req[h].pc = "write"
  /\ LET u == Who(h)  f == req[h].guess IN
     \/ /\ ~Matches(h) \/ req[h].already                   \* a miss, a repeat
        /\ Done(h) /\ UNCHANGED <<solves, log>>
     \/ /\ Matches(h) /\ ~req[h].already /\ UniqueAllows(u, f)
        /\ solves' = Append(solves, [user |-> u, flag |-> f, inst |-> req[h].inst,
                                     points |-> Points[f]])
        /\ log' = [log EXCEPT ![u] = @ + 1]
        /\ Goto(h, "check")
     \/ /\ Matches(h) /\ ~req[h].already /\ ~UniqueAllows(u, f)
        /\ log' = LogUndone(h)                             \* IntegrityError
        /\ Done(h) /\ UNCHANGED solves
  /\ UNCHANGED <<hits, status>>

\* After a hit, with the award committed: was it the last one?
Check(h) ==
  /\ req[h].pc = "check"
  /\ IF Complete(Who(h), Which(h))
     THEN req' = [req EXCEPT ![h].pc = "close", ![h].outcome = "complete"]
     ELSE Done(h)
  /\ UNCHANGED <<solves, log, hits, status>>

-----------------------------------------------------------------------------
(* The other ways an attempt is closed, and the write they share.          *)

\* POST /session/<id>/close, with the outcome the student asks for.
AskClose(h, i, wanted) ==
  /\ req[h] = Ready
  /\ status[i] = "running"
  /\ req' = [req EXCEPT ![h] = [Ready EXCEPT !.pc = "asked", !.inst = i, !.outcome = wanted]]
  /\ UNCHANGED <<solves, log, hits, status>>

\* "complete" is granted if all flags are found, or there are none.
Grant(h) ==
  /\ req[h].pc = "asked"
  /\ LET granted == req[h].outcome = "complete"
                      /\ (Complete(Who(h), Which(h)) \/ FlagsOf[Which(h)] = {}) IN
     req' = [req EXCEPT ![h].pc = "close",
                        ![h].outcome = IF granted THEN "complete" ELSE "abandoned"]
  /\ UNCHANGED <<solves, log, hits, status>>

\* _close() writes the outcome, whatever the row says by now.
Close(h) ==
  /\ req[h].pc = "close"
  /\ status' = [status EXCEPT ![req[h].inst] = req[h].outcome]
  /\ Done(h)
  /\ UNCHANGED <<solves, log, hits>>

\* The worker process is killed.
Die(h) ==
  /\ req[h].pc \notin {"idle", "dead"}
  /\ req' = [req EXCEPT ![h] = [Ready EXCEPT !.pc = "dead"]]
  /\ UNCHANGED <<solves, log, hits, status>>

-----------------------------------------------------------------------------
Step(h) == CheckLimit(h) \/ CountHit(h) \/ Look(h) \/ Grade(h) \/ Check(h) \/ Grant(h) \/ Close(h)

Next ==
  \/ \E h \in Handlers :
       \/ Step(h)
       \/ Die(h)
       \/ \E i \in Instances :
            \/ \E g \in Flags : Arrive(h, i, g)
            \/ \E wanted \in {"complete", "abandoned"} : AskClose(h, i, wanted)
  \/ \E u \in Users, c \in Challenges : WindowRolls(u, c)

Spec == Init /\ [][Next]_svars

-----------------------------------------------------------------------------
Solve   == [user : Users, flag : Flags, inst : Instances, points : Nat]
Request == [pc : {"idle", "arrived", "allowed", "grade", "write", "check", "asked", "close", "dead"},
            inst : Instances \cup {None}, guess : Flags \cup {None}, already : BOOLEAN,
            outcome : {"none", "complete", "abandoned"}]

\* Every variable keeps its type, and an award is for a flag of the challenge
\* that the attempt it names was at, by the user whose attempt it was.
TypeOK ==
  /\ solves \in Seq(Solve)
  /\ \A k \in 1 .. Len(solves) :
       LET s == solves[k] IN s.user = UserOf[s.inst] /\ s.flag \in FlagsOf[ChallengeOf[s.inst]]
  /\ log    \in [Users -> Nat]
  /\ hits   \in [Users -> [Challenges -> Nat]]
  /\ status \in [Instances -> {"running", "complete", "abandoned"}]
  /\ req    \in [Handlers -> Request]
  /\ \A h \in Handlers : req[h].pc \notin {"idle", "dead"} => req[h].inst \in Instances
  /\ \A h \in Handlers : req[h].pc = "close" => req[h].outcome # "none"

\* A flag pays a user once, even if two submissions of it arrive at the same
\* instant, from one attempt or from two.
PaidOnce ==
  \A j, k \in 1 .. Len(solves) :
    solves[j].user = solves[k].user /\ solves[j].flag = solves[k].flag => j = k

\* The log and the ledger agree, as they are written in one transaction: a
\* user has as many first correct submissions as awards.
LogMatchesLedger ==
  \A u \in Users :
    log[u] = Cardinality({k \in 1 .. Len(solves) : solves[k].user = u})

\* What concurrent requests can do to the sliding window: no more guesses
\* than the limit and one for each of the other handlers.
WindowBounded ==
  \A u \in Users, c \in Challenges : hits[u][c] < Limit + Cardinality(Handlers)

\* An attempt is recorded as complete only when its user has been paid for
\* each flag of the challenge, be it at the last flag or at a close.
CompleteIsEarned ==
  \A i \in Instances : status[i] = "complete" =>
    \A f \in FlagsOf[ChallengeOf[i]] : Solved(UserOf[i], f)

\* The last flag closes the attempt it was found in, or its handler is about
\* to when it is killed: of two requests with the last two flags, the one to
\* commit last counts both.
LastFlagCloses ==
  \A i \in Instances :
    /\ Len(solves) > 0 /\ solves[Len(solves)].inst = i
    /\ \A f \in FlagsOf[ChallengeOf[i]] : Solved(UserOf[i], f)
    => \/ status[i] # "running"
       \/ \E h \in Handlers : \/ req[h].pc = "dead"
                              \/ req[h].pc \in {"check", "close"} /\ req[h].inst = i
=============================================================================
