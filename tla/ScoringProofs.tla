--------------------------- MODULE ScoringProofs ---------------------------
(***************************************************************************)
(* Proofs about Scoring, for every number of students, attempts, flags and *)
(* handlers and every limit: a flag pays once, the log matches the ledger, *)
(* the window is exceeded by no more than the other handlers, counting     *)
(* rows is enough to know that a challenge is complete, and the last flag  *)
(* closes the attempt. And about Leaderboard, which reads the ledger: the  *)
(* boards and the dashboard agree, for every ledger and every board size.  *)
(***************************************************************************)
EXTENDS Leaderboard, FiniteSums, SequenceTheorems, TLAPS

-----------------------------------------------------------------------------
(* The inductive invariant.                                                *)

AtWork == {"arrived", "allowed", "grade", "write", "check", "asked", "close"}

ReqTyped ==
  /\ req \in [Handlers -> Request]
  /\ \A h \in Handlers : req[h].pc \in AtWork => req[h].inst \in Instances
  /\ \A h \in Handlers : req[h].pc = "close" => req[h].outcome # "none"

Covered(u, c) == \A f \in FlagsOf[c] : Solved(u, f)

\* Who is about to write "complete" has seen the challenge covered.
Earned ==
  \A h \in Handlers :
    req[h].pc = "close" /\ req[h].outcome = "complete" => Covered(Who(h), Which(h))

\* The requests that were let through and are not counted yet.
Pending(u, c) == {h \in Handlers : req[h].pc = "allowed" /\ Who(h) = u /\ Which(h) = c}
Counting ==
  \A u \in Users, c \in Challenges :
    hits[u][c] + Cardinality(Pending(u, c)) < Limit + Cardinality(Handlers)

RowsOf(u) == {k \in 1 .. Len(solves) : solves[k].user = u}

IInv == /\ TypeOK /\ PaidOnce /\ LogMatchesLedger /\ CompleteIsEarned /\ LastFlagCloses
        /\ Earned /\ Counting

-----------------------------------------------------------------------------
(* Handlers.                                                               *)

LEMMA PcKinds ==
  ASSUME TypeOK
  PROVE  ReqTyped /\ \A h \in Handlers : req[h].pc \in AtWork \cup {"idle", "dead"}
BY DEF TypeOK, ReqTyped, AtWork, Request

LEMMA ReadyType == Ready \in Request /\ [Ready EXCEPT !.pc = "dead"] \in Request
BY DEF Ready, Request

\* A handler that ends, or dies, leaves the others alone.
LEMMA DoneTyped ==
  ASSUME TypeOK, NEW h \in Handlers, NEW x \in {Ready, [Ready EXCEPT !.pc = "dead"]},
         req' = [req EXCEPT ![h] = x]
  PROVE  ReqTyped'
<1>1. req' \in [Handlers -> Request]
  BY ReadyType DEF TypeOK
<1>2. x.pc \notin AtWork
  BY DEF Ready, AtWork
<1>3. \A g \in Handlers : req'[g].pc \in AtWork => req'[g].inst \in Instances
  BY <1>2, PcKinds DEF TypeOK, ReqTyped
<1>4. \A g \in Handlers : req'[g].pc = "close" => req'[g].outcome # "none"
  BY <1>2 DEF TypeOK, AtWork
<1> QED BY <1>1, <1>3, <1>4 DEF ReqTyped

\* A handler that goes on, with its attempt.
LEMMA GoneOnTyped ==
  ASSUME TypeOK, NEW h \in Handlers, NEW x \in Request, x.inst \in Instances,
         x.pc = "close" => x.outcome # "none",
         req' = [req EXCEPT ![h] = x]
  PROVE  ReqTyped'
<1>1. req' \in [Handlers -> Request]
  BY DEF TypeOK
<1>2. \A g \in Handlers : req'[g].pc \in AtWork => req'[g].inst \in Instances
  BY PcKinds DEF TypeOK, ReqTyped
<1>3. \A g \in Handlers : req'[g].pc = "close" => req'[g].outcome # "none"
  BY DEF TypeOK
<1> QED BY <1>1, <1>2, <1>3 DEF ReqTyped

LEMMA WhoWhich ==
  ASSUME TypeOK, NEW h \in Handlers, req[h].pc \in AtWork
  PROVE  req[h].inst \in Instances /\ Who(h) \in Users /\ Which(h) \in Challenges
BY PcKinds, ScoringAssumption DEF ReqTyped, Who, Which

LEMMA GotoTyped ==
  ASSUME TypeOK, NEW h \in Handlers, req[h].pc \in AtWork, NEW l \in AtWork \ {"close"}, Goto(h, l)
  PROVE  ReqTyped'
<1> DEFINE x == [req[h] EXCEPT !.pc = l]
<1>1. req[h] \in Request /\ req[h].inst \in Instances
  BY WhoWhich DEF TypeOK
<1>2. x \in Request /\ x.inst \in Instances /\ x.pc # "close"
  BY <1>1 DEF Request, AtWork
<1>3. req' = [req EXCEPT ![h] = x]
  BY DEF Goto
<1> QED BY <1>2, <1>3, GoneOnTyped

-----------------------------------------------------------------------------
(* The award of a flag.                                                    *)

NewRow(h) == [user |-> Who(h), flag |-> req[h].guess, inst |-> req[h].inst,
              points |-> Points[req[h].guess]]
Awards(h) == req[h].pc = "write" /\ Matches(h) /\ UniqueAllows(Who(h), req[h].guess)
               /\ solves' = Append(solves, NewRow(h))

LEMMA NewRowType ==
  ASSUME TypeOK, NEW h \in Handlers, req[h].pc = "write", Matches(h)
  PROVE  /\ NewRow(h) \in Solve
         /\ NewRow(h).user = UserOf[NewRow(h).inst]
         /\ NewRow(h).flag \in FlagsOf[ChallengeOf[NewRow(h).inst]]
<1>1. req[h].inst \in Instances /\ Who(h) \in Users /\ Which(h) \in Challenges
  BY WhoWhich DEF AtWork
<1>2. req[h].guess \in Flags
  BY <1>1, ScoringAssumption DEF Matches
<1>3. Points[req[h].guess] \in Nat
  BY <1>2, ScoringAssumption
<1> QED BY <1>1, <1>2, <1>3 DEF NewRow, Solve, Matches, Who, Which

LEMMA Appended ==
  ASSUME TypeOK, NEW h \in Handlers, Awards(h)
  PROVE  /\ solves' \in Seq(Solve)
         /\ Len(solves) \in Nat /\ Len(solves') = Len(solves) + 1
         /\ \A k \in 1 .. Len(solves) : solves'[k] = solves[k]
         /\ solves'[Len(solves) + 1] = NewRow(h)
<1>1. solves \in Seq(Solve) /\ NewRow(h) \in Solve
  BY NewRowType DEF TypeOK, Awards
<1> QED BY <1>1 DEF Awards

\* What was solved stays solved.
LEMMA SolvedStays ==
  ASSUME TypeOK, NEW h \in Handlers, Awards(h) \/ solves' = solves,
         NEW u, NEW c, Covered(u, c)
  PROVE  Covered(u, c)'
<1>1. CASE solves' = solves
  BY <1>1 DEF Covered, Solved
<1>2. CASE Awards(h)
  <2> SUFFICES ASSUME NEW f \in FlagsOf[c]
               PROVE  Solved(u, f)'
    BY DEF Covered
  <2>1. PICK k \in 1 .. Len(solves) : solves[k].user = u /\ solves[k].flag = f
    BY DEF Covered, Solved
  <2>2. k \in 1 .. Len(solves') /\ solves'[k] = solves[k]
    BY <1>2, <2>1, Appended
  <2> QED BY <2>1, <2>2 DEF Solved
<1> QED BY <1>1, <1>2

-----------------------------------------------------------------------------
(* Counting awards decides whether all flags of a challenge are found: no  *)
(* two awards of a user are for one flag, so they are as many as the flags *)
(* only if they are for all of them.                                       *)

LEMMA CompleteCovers ==
  ASSUME TypeOK, PaidOnce, NEW u, NEW c \in Challenges, Complete(u, c)
  PROVE  Covered(u, c)
<1> DEFINE flagOf == [k \in Found(u, c) |-> solves[k].flag]
<1>1. IsFiniteSet(FlagsOf[c])
  BY FiniteAssumption
<1>2. flagOf \in Injection(Found(u, c), FlagsOf[c])
  <2>1. flagOf \in [Found(u, c) -> FlagsOf[c]]
    BY DEF Found
  <2>2. ASSUME NEW j \in Found(u, c), NEW k \in Found(u, c), flagOf[j] = flagOf[k]
        PROVE  j = k
    BY <2>2 DEF Found, PaidOnce
  <2> QED BY <2>1, <2>2 DEF Injection, IsInjective
<1>3. /\ IsFiniteSet(Found(u, c))
      /\ Cardinality(Found(u, c)) <= Cardinality(FlagsOf[c])
      /\ Cardinality(Found(u, c)) = Cardinality(FlagsOf[c])
           <=> flagOf \in Surjection(Found(u, c), FlagsOf[c])
  BY <1>1, <1>2, FS_Injection
<1>4. Cardinality(Found(u, c)) \in Nat /\ Cardinality(FlagsOf[c]) \in Nat
  BY <1>1, <1>3, FS_CardinalityType
<1>5. flagOf \in Surjection(Found(u, c), FlagsOf[c])
  BY <1>3, <1>4 DEF Complete
<1>6. ASSUME NEW f \in FlagsOf[c]
      PROVE  Solved(u, f)
  <2>1. PICK k \in Found(u, c) : flagOf[k] = f
    BY <1>5 DEF Surjection
  <2> QED BY <2>1 DEF Found, Solved
<1> QED BY <1>6 DEF Covered

\* And conversely: with an award for each flag, there are as many.
LEMMA CoveredCompletes ==
  ASSUME TypeOK, NEW u, NEW c \in Challenges, FlagsOf[c] # {}, Covered(u, c)
  PROVE  Complete(u, c)
<1>1. IsFiniteSet(FlagsOf[c]) /\ Len(solves) \in Nat
  BY FiniteAssumption DEF TypeOK
<1>2. IsFiniteSet(Found(u, c))
  <2>1. IsFiniteSet(1 .. Len(solves)) /\ Found(u, c) \in SUBSET (1 .. Len(solves))
    BY <1>1, FS_Interval DEF Found
  <2> QED BY <2>1, FS_Subset
<1> DEFINE row == [f \in FlagsOf[c] |-> CHOOSE k \in Found(u, c) : solves[k].flag = f]
<1>3. \A f \in FlagsOf[c] : row[f] \in Found(u, c) /\ solves[row[f]].flag = f
  <2> SUFFICES ASSUME NEW f \in FlagsOf[c]
               PROVE  \E k \in Found(u, c) : solves[k].flag = f
    OBVIOUS
  <2> QED BY DEF Covered, Solved, Found
<1>4. row \in Injection(FlagsOf[c], Found(u, c))
  BY <1>3 DEF Injection, IsInjective
<1>5. Cardinality(FlagsOf[c]) <= Cardinality(Found(u, c))
  BY <1>2, <1>4, FS_Injection
<1>6. Cardinality(Found(u, c)) \in Nat /\ Cardinality(FlagsOf[c]) \in Nat
  BY <1>1, <1>2, FS_CardinalityType
<1> QED BY <1>5, <1>6 DEF Complete

-----------------------------------------------------------------------------
(* Types.                                                                  *)

LEMMA InitInv == Init => IInv
<1> SUFFICES ASSUME Init
             PROVE  IInv
  OBVIOUS
<1>1. Len(solves) = 0 /\ 1 .. Len(solves) = {} /\ solves \in Seq(Solve)
  BY EmptySeq DEF Init
<1>2. \A h \in Handlers : req[h].pc = "idle"
  BY DEF Init, Ready
<1>3. TypeOK
  <2>1. req \in [Handlers -> Request]
    BY ReadyType DEF Init
  <2> QED BY <1>1, <1>2, <2>1 DEF TypeOK, Init
<1>4. PaidOnce
  BY <1>1 DEF PaidOnce
<1>5. LogMatchesLedger
  <2>1. \A u \in Users : {k \in 1 .. Len(solves) : solves[k].user = u} = {}
    BY <1>1
  <2> QED BY <2>1, FS_EmptySet DEF LogMatchesLedger, Init
<1>6. CompleteIsEarned /\ Earned
  BY <1>2 DEF CompleteIsEarned, Earned, Init
<1>7. Counting
  <2>1. \A u, c : Pending(u, c) = {}
    BY <1>2 DEF Pending
  <2>2. \A u \in Users, c \in Challenges : hits[u][c] = 0
    BY DEF Init
  <2>3. Cardinality(Handlers) \in Nat /\ Limit \in Nat \ {0}
    BY FiniteAssumption, ScoringAssumption, FS_CardinalityType
  <2> QED BY <2>1, <2>2, <2>3, FS_EmptySet DEF Counting
<1>8. LastFlagCloses
  BY <1>1 DEF LastFlagCloses
<1> QED BY <1>3, <1>4, <1>5, <1>6, <1>7, <1>8 DEF IInv

LEMMA ArriveTyped ==
  ASSUME TypeOK, NEW h \in Handlers, NEW i \in Instances, NEW g \in Flags, Arrive(h, i, g)
  PROVE  ReqTyped'
<1> DEFINE x == [Ready EXCEPT !.pc = "arrived", !.inst = i, !.guess = g]
<1>1. x \in Request /\ x.inst \in Instances /\ x.pc # "close"
  BY DEF Ready, Request
<1>2. req' = [req EXCEPT ![h] = x]
  BY DEF Arrive
<1> QED BY <1>1, <1>2, GoneOnTyped

LEMMA CheckLimitTyped ==
  ASSUME TypeOK, NEW h \in Handlers, CheckLimit(h)
  PROVE  ReqTyped'
<1>1. CASE Goto(h, "allowed")
  BY <1>1, GotoTyped DEF CheckLimit, AtWork
<1>2. CASE Done(h)
  BY <1>2, DoneTyped DEF Done
<1> QED BY <1>1, <1>2 DEF CheckLimit

LEMMA AskCloseTyped ==
  ASSUME TypeOK, NEW h \in Handlers, NEW i \in Instances,
         NEW wanted \in {"complete", "abandoned"}, AskClose(h, i, wanted)
  PROVE  ReqTyped'
<1> DEFINE x == [Ready EXCEPT !.pc = "asked", !.inst = i, !.outcome = wanted]
<1>1. x \in Request /\ x.inst \in Instances /\ x.pc # "close"
  BY DEF Ready, Request
<1>2. req' = [req EXCEPT ![h] = x]
  BY DEF AskClose
<1> QED BY <1>1, <1>2, GoneOnTyped

\* What a close that was asked for is granted.
Granted(h) == IF req[h].outcome = "complete"
                   /\ (Complete(Who(h), Which(h)) \/ FlagsOf[Which(h)] = {})
              THEN "complete" ELSE "abandoned"

LEMMA GrantTyped ==
  ASSUME TypeOK, NEW h \in Handlers, Grant(h)
  PROVE  ReqTyped'
<1> DEFINE x == [req[h] EXCEPT !.pc = "close", !.outcome = Granted(h)]
<1>1. req[h] \in Request /\ req[h].inst \in Instances
  BY WhoWhich DEF TypeOK, Grant, AtWork
<1>2. Granted(h) \in {"complete", "abandoned"}
  BY DEF Granted
<1>3. x \in Request /\ x.inst \in Instances /\ x.outcome # "none"
  BY <1>1, <1>2 DEF Request
<1>4. req' = [req EXCEPT ![h] = x]
  BY DEF Grant, Granted
<1> QED BY <1>3, <1>4, GoneOnTyped

LEMMA LookTyped ==
  ASSUME TypeOK, NEW h \in Handlers, Look(h)
  PROVE  ReqTyped'
<1> DEFINE x == [req[h] EXCEPT !.pc = "write",
                               !.already = Matches(h) /\ Solved(Who(h), req[h].guess)]
<1>1. req[h] \in Request /\ req[h].inst \in Instances
  BY WhoWhich DEF TypeOK, Look, AtWork
<1>2. (Matches(h) /\ Solved(Who(h), req[h].guess)) \in BOOLEAN
  OBVIOUS
<1>3. x \in Request /\ x.inst \in Instances /\ x.pc # "close"
  BY <1>1, <1>2 DEF Request
<1>4. req' = [req EXCEPT ![h] = x]
  BY DEF Look
<1> QED BY <1>3, <1>4, GoneOnTyped

LEMMA CheckTyped ==
  ASSUME TypeOK, NEW h \in Handlers, Check(h)
  PROVE  ReqTyped'
<1>1. CASE Complete(Who(h), Which(h))
  <2> DEFINE x == [req[h] EXCEPT !.pc = "close", !.outcome = "complete"]
  <2>1. req[h] \in Request /\ req[h].inst \in Instances
    BY WhoWhich DEF TypeOK, Check, AtWork
  <2>2. x \in Request /\ x.inst \in Instances /\ x.outcome # "none"
    BY <2>1 DEF Request
  <2>3. req' = [req EXCEPT ![h] = x]
    BY <1>1 DEF Check
  <2> QED BY <2>2, <2>3, GoneOnTyped
<1>2. CASE ~Complete(Who(h), Which(h))
  BY <1>2, DoneTyped DEF Check, Done
<1> QED BY <1>1, <1>2

LEMMA GradeCases ==
  ASSUME NEW h \in Handlers, Grade(h)
  PROVE  /\ UNCHANGED <<hits, status>>
         /\ \/ Done(h) /\ UNCHANGED <<solves, log>>
            \/ Awards(h) /\ log' = [log EXCEPT ![Who(h)] = @ + 1] /\ Goto(h, "check")
BY DEF Grade, Awards, NewRow, LogUndone

\* One step of the program, by what it writes.
Writes ==
  \/ UNCHANGED <<solves, log, hits, status>>
  \/ \E h \in Handlers : Awards(h) /\ log' = [log EXCEPT ![Who(h)] = @ + 1] /\ Goto(h, "check")
                         /\ UNCHANGED <<hits, status>>
  \/ \E h \in Handlers : CountHit(h)
  \/ \E h \in Handlers : Close(h)
  \/ \E u \in Users, c \in Challenges : WindowRolls(u, c)

LEMMA NextWrites == Next => Writes
<1> SUFFICES ASSUME Next
             PROVE  Writes
  OBVIOUS
<1>1. ASSUME NEW h \in Handlers,
             CheckLimit(h) \/ Look(h) \/ Check(h) \/ Grant(h) \/ Die(h)
      PROVE  Writes
  BY <1>1 DEF CheckLimit, Look, Check, Grant, Die, Writes
<1>2. ASSUME NEW h \in Handlers, Grade(h)
      PROVE  Writes
  BY <1>2, GradeCases DEF Writes
<1>3. ASSUME NEW h \in Handlers, CountHit(h) \/ Close(h)
      PROVE  Writes
  BY <1>3 DEF Writes
<1>4. ASSUME NEW h \in Handlers, NEW i \in Instances, NEW g \in Flags, Arrive(h, i, g)
      PROVE  Writes
  BY <1>4 DEF Arrive, Writes
<1>5. ASSUME NEW h \in Handlers, NEW i \in Instances, NEW w \in {"complete", "abandoned"},
             AskClose(h, i, w)
      PROVE  Writes
  BY <1>5 DEF AskClose, Writes
<1>6. ASSUME NEW u \in Users, NEW c \in Challenges, WindowRolls(u, c)
      PROVE  Writes
  BY <1>6 DEF Writes
<1> QED BY <1>1, <1>2, <1>3, <1>4, <1>5, <1>6 DEF Next, Step

LEMMA ReqStep ==
  ASSUME TypeOK, Next
  PROVE  ReqTyped'
<1>1. ASSUME NEW h \in Handlers, CountHit(h)
      PROVE  ReqTyped'
  BY <1>1, GotoTyped DEF CountHit, AtWork
<1>2. ASSUME NEW h \in Handlers, Look(h)
      PROVE  ReqTyped'
  BY <1>2, LookTyped
<1>3. ASSUME NEW h \in Handlers, Grade(h)
      PROVE  ReqTyped'
  <2>1. CASE Done(h)
    BY <2>1, DoneTyped DEF Done
  <2>2. CASE Awards(h) /\ Goto(h, "check")
    BY <2>2, GotoTyped DEF Awards, AtWork
  <2> QED BY <1>3, <2>1, <2>2, GradeCases
<1>4. ASSUME NEW h \in Handlers, Check(h)
      PROVE  ReqTyped'
  BY <1>4, CheckTyped
<1>5. ASSUME NEW h \in Handlers, Close(h)
      PROVE  ReqTyped'
  BY <1>5, DoneTyped DEF Close, Done
<1>6. ASSUME NEW h \in Handlers, Die(h)
      PROVE  ReqTyped'
  BY <1>6, DoneTyped DEF Die
<1>7. ASSUME NEW h \in Handlers, NEW i \in Instances, NEW g \in Flags, Arrive(h, i, g)
      PROVE  ReqTyped'
  BY <1>7, ArriveTyped
<1>8. ASSUME NEW h \in Handlers, NEW i \in Instances, NEW w \in {"complete", "abandoned"},
             AskClose(h, i, w)
      PROVE  ReqTyped'
  BY <1>8, AskCloseTyped
<1>9. ASSUME NEW u \in Users, NEW c \in Challenges, WindowRolls(u, c)
      PROVE  ReqTyped'
  <2>1. UNCHANGED req
    BY <1>9 DEF WindowRolls
  <2> QED BY <2>1, PcKinds DEF ReqTyped
<1>10. ASSUME NEW h \in Handlers, CheckLimit(h)
       PROVE  ReqTyped'
  BY <1>10, CheckLimitTyped
<1>11. ASSUME NEW h \in Handlers, Grant(h)
       PROVE  ReqTyped'
  BY <1>11, GrantTyped
<1> QED BY <1>1, <1>2, <1>3, <1>4, <1>5, <1>6, <1>7, <1>8, <1>9, <1>10, <1>11 DEF Next, Step

Rightful(s) == s.user = UserOf[s.inst] /\ s.flag \in FlagsOf[ChallengeOf[s.inst]]

LEMMA TypeStep ==
  ASSUME TypeOK, Next
  PROVE  TypeOK'
<1>1. ReqTyped'
  BY ReqStep
<1>2. solves' \in Seq(Solve) /\ \A k \in 1 .. Len(solves') : Rightful(solves'[k])
  <2>1. CASE solves' = solves
    BY <2>1 DEF TypeOK, Rightful
  <2>2. CASE \E h \in Handlers : Awards(h)
    <3>1. PICK h \in Handlers : Awards(h)
      BY <2>2
    <3>2. Rightful(NewRow(h))
      BY <3>1, NewRowType DEF Awards, Rightful
    <3>3. \A k \in 1 .. Len(solves) : Rightful(solves[k])
      BY DEF TypeOK, Rightful
    <3>4. /\ solves' \in Seq(Solve)
          /\ Len(solves) \in Nat /\ Len(solves') = Len(solves) + 1
          /\ \A k \in 1 .. Len(solves) : solves'[k] = solves[k]
          /\ solves'[Len(solves) + 1] = NewRow(h)
      BY <3>1, Appended
    <3>5. ASSUME NEW k \in 1 .. Len(solves')
          PROVE  Rightful(solves'[k])
      <4>1. CASE k \in 1 .. Len(solves)
        BY <4>1, <3>3, <3>4
      <4>2. CASE k = Len(solves) + 1
        BY <4>2, <3>2, <3>4
      <4> QED BY <3>4, <4>1, <4>2
    <3> QED BY <3>4, <3>5
  <2> QED BY <2>1, <2>2, NextWrites DEF Writes, CountHit, Close, WindowRolls
<1>3. log' \in [Users -> Nat]
  <2>1. CASE log' = log
    BY <2>1 DEF TypeOK
  <2>2. ASSUME NEW h \in Handlers, Awards(h), log' = [log EXCEPT ![Who(h)] = @ + 1]
        PROVE  log' \in [Users -> Nat]
    <3>1. Who(h) \in Users
      BY <2>2, WhoWhich DEF Awards, AtWork
    <3> QED BY <2>2, <3>1 DEF TypeOK
  <2> QED BY <2>1, <2>2, NextWrites DEF Writes, CountHit, Close, WindowRolls
<1>4. hits' \in [Users -> [Challenges -> Nat]]
  <2>1. CASE hits' = hits
    BY <2>1 DEF TypeOK
  <2>2. ASSUME NEW h \in Handlers, CountHit(h)
        PROVE  hits' \in [Users -> [Challenges -> Nat]]
    <3>1. Who(h) \in Users /\ Which(h) \in Challenges
      BY <2>2, WhoWhich DEF CountHit, AtWork
    <3> QED BY <2>2, <3>1 DEF CountHit, TypeOK
  <2>3. ASSUME NEW u \in Users, NEW c \in Challenges, WindowRolls(u, c)
        PROVE  hits' \in [Users -> [Challenges -> Nat]]
    <3>1. hits[u][c] \in Nat /\ hits[u][c] - 1 \in Nat
      BY <2>3 DEF WindowRolls, TypeOK
    <3> QED BY <2>3, <3>1 DEF WindowRolls, TypeOK
  <2> QED BY <2>1, <2>2, <2>3, NextWrites DEF Writes, Close
<1>5. status' \in [Instances -> {"running", "complete", "abandoned"}]
  <2>1. CASE status' = status
    BY <2>1 DEF TypeOK
  <2>2. ASSUME NEW h \in Handlers, Close(h)
        PROVE  status' \in [Instances -> {"running", "complete", "abandoned"}]
    <3>1. req[h].outcome \in {"complete", "abandoned"}
      BY <2>2 DEF TypeOK, Request, Close
    <3> QED BY <2>2, <3>1 DEF Close, TypeOK
  <2> QED BY <2>1, <2>2, NextWrites DEF Writes, CountHit, WindowRolls
<1>6. \A h \in Handlers : req'[h].pc \notin {"idle", "dead"} => req'[h].pc \in AtWork
  BY <1>1 DEF ReqTyped, AtWork, Request
<1> QED BY <1>1, <1>2, <1>3, <1>4, <1>5, <1>6 DEF TypeOK, ReqTyped, Rightful

-----------------------------------------------------------------------------
(* The ledger.                                                             *)

LEMMA RowsFinite ==
  ASSUME TypeOK, NEW u
  PROVE  /\ IsFiniteSet(RowsOf(u)) /\ Cardinality(RowsOf(u)) \in Nat
         /\ Len(solves) + 1 \notin RowsOf(u)
<1>1. Len(solves) \in Nat
  BY DEF TypeOK
<1>2. IsFiniteSet(1 .. Len(solves)) /\ RowsOf(u) \in SUBSET (1 .. Len(solves))
  BY <1>1, FS_Interval DEF RowsOf
<1>3. IsFiniteSet(RowsOf(u))
  BY <1>2, FS_Subset
<1> QED BY <1>1, <1>2, <1>3, FS_CardinalityType

\* An award is one more row of its user, and of no one else.
LEMMA RowsAppended ==
  ASSUME TypeOK, NEW h \in Handlers, Awards(h), NEW u
  PROVE  RowsOf(u)' = IF u = Who(h) THEN RowsOf(u) \cup {Len(solves) + 1} ELSE RowsOf(u)
<1>1. Len(solves) \in Nat /\ Len(solves') = Len(solves) + 1
  BY Appended
<1>2. \A k \in 1 .. Len(solves) : solves'[k] = solves[k]
  BY Appended
<1>3. solves'[Len(solves) + 1].user = Who(h)
  <2>1. solves'[Len(solves) + 1] = NewRow(h)
    BY Appended
  <2>2. NewRow(h).user = Who(h)
    BY DEF NewRow
  <2> QED BY <2>1, <2>2
<1>4. 1 .. Len(solves') = (1 .. Len(solves)) \cup {Len(solves) + 1}
  BY <1>1
<1> QED BY <1>2, <1>3, <1>4 DEF RowsOf

LEMMA PaidStep ==
  ASSUME TypeOK, PaidOnce, Next
  PROVE  PaidOnce'
<1>1. CASE solves' = solves
  BY <1>1 DEF PaidOnce
<1>2. ASSUME NEW h \in Handlers, Awards(h)
      PROVE  PaidOnce'
  <2> DEFINE n == Len(solves) + 1
  <2>1. Len(solves) \in Nat /\ Len(solves') = n
    BY <1>2, Appended
  <2>2. \A k \in 1 .. Len(solves) : solves'[k] = solves[k]
    BY <1>2, Appended
  <2>3. \A k \in 1 .. Len(solves) :
          ~(solves'[k].user = solves'[n].user /\ solves'[k].flag = solves'[n].flag)
    <3>1. solves'[n].user = Who(h) /\ solves'[n].flag = req[h].guess
      <4>1. solves'[n] = NewRow(h)
        BY <1>2, Appended
      <4>2. NewRow(h).user = Who(h) /\ NewRow(h).flag = req[h].guess
        BY DEF NewRow
      <4> QED BY <4>1, <4>2
    <3>2. ~Solved(Who(h), req[h].guess)
      BY <1>2 DEF Awards, UniqueAllows
    <3> QED BY <2>2, <3>1, <3>2 DEF Solved
  <2> SUFFICES ASSUME NEW j \in 1 .. Len(solves'), NEW k \in 1 .. Len(solves'),
                      solves'[j].user = solves'[k].user, solves'[j].flag = solves'[k].flag
               PROVE  j = k
    BY DEF PaidOnce
  <2>4. CASE j \in 1 .. Len(solves) /\ k \in 1 .. Len(solves)
    BY <2>2, <2>4 DEF PaidOnce
  <2>5. CASE j = n \/ k = n
    BY <2>1, <2>3, <2>5
  <2> QED BY <2>1, <2>4, <2>5
<1> QED BY <1>1, <1>2, NextWrites DEF Writes, CountHit, Close, WindowRolls

LEMMA LogStep ==
  ASSUME TypeOK, LogMatchesLedger, Next
  PROVE  LogMatchesLedger'
<1> SUFFICES ASSUME NEW u \in Users
             PROVE  log'[u] = Cardinality(RowsOf(u)')
  BY DEF LogMatchesLedger, RowsOf
<1>1. log[u] = Cardinality(RowsOf(u))
  BY DEF LogMatchesLedger, RowsOf
<1>2. CASE UNCHANGED <<solves, log>>
  <2>1. RowsOf(u)' = RowsOf(u)
    BY <1>2 DEF RowsOf
  <2> QED BY <1>1, <1>2, <2>1
<1>3. ASSUME NEW h \in Handlers, Awards(h), log' = [log EXCEPT ![Who(h)] = @ + 1]
      PROVE  log'[u] = Cardinality(RowsOf(u)')
  <2>1. log'[u] = IF u = Who(h) THEN log[u] + 1 ELSE log[u]
    BY <1>3 DEF TypeOK
  <2>2. CASE u = Who(h)
    <3>1. RowsOf(u)' = RowsOf(u) \cup {Len(solves) + 1}
      BY <1>3, <2>2, RowsAppended
    <3>2. IsFiniteSet(RowsOf(u)) /\ Len(solves) + 1 \notin RowsOf(u)
      BY RowsFinite
    <3>3. Cardinality(RowsOf(u) \cup {Len(solves) + 1}) = Cardinality(RowsOf(u)) + 1
      BY <3>2, FS_AddElement
    <3> QED BY <1>1, <2>1, <2>2, <3>1, <3>3
  <2>3. CASE u # Who(h)
    <3>1. RowsOf(u)' = RowsOf(u)
      BY <1>3, <2>3, RowsAppended
    <3> QED BY <1>1, <2>1, <2>3, <3>1
  <2> QED BY <2>2, <2>3
<1> QED BY <1>2, <1>3, NextWrites DEF Writes, CountHit, Close, WindowRolls

-----------------------------------------------------------------------------
(* The completed attempt.                                                  *)

LEMMA CoveredStays ==
  ASSUME TypeOK, Next, NEW u, NEW c, Covered(u, c)
  PROVE  Covered(u, c)'
<1>1. \/ solves' = solves
      \/ \E h \in Handlers : Awards(h)
  BY NextWrites DEF Writes, CountHit, Close, WindowRolls
<1>2. CASE solves' = solves
  BY <1>2 DEF Covered, Solved
<1>3. CASE \E h \in Handlers : Awards(h)
  BY <1>3, SolvedStays
<1> QED BY <1>1, <1>2, <1>3

\* Who comes to write "complete" in a step has seen the challenge covered.
NewlyEarned ==
  \A h \in Handlers :
    req'[h].pc = "close" /\ req'[h].outcome = "complete" =>
      \/ req'[h] = req[h]
      \/ Covered(UserOf[req'[h].inst], ChallengeOf[req'[h].inst])

LEMMA OnlyOne ==
  ASSUME TypeOK, NEW h \in Handlers, NEW x, req' = [req EXCEPT ![h] = x],
         x.pc = "close" /\ x.outcome = "complete" => Covered(UserOf[x.inst], ChallengeOf[x.inst])
  PROVE  NewlyEarned
<1> SUFFICES ASSUME NEW g \in Handlers,
                    req'[g].pc = "close", req'[g].outcome = "complete"
             PROVE  \/ req'[g] = req[g]
                    \/ Covered(UserOf[req'[g].inst], ChallengeOf[req'[g].inst])
  BY DEF NewlyEarned
<1>1. CASE g = h
  <2>1. req'[g] = x
    BY <1>1 DEF TypeOK
  <2> QED BY <2>1
<1>2. CASE g # h
  <2>1. req'[g] = req[g]
    BY <1>2 DEF TypeOK
  <2> QED BY <2>1
<1> QED BY <1>1, <1>2

LEMMA DoneEarned ==
  ASSUME TypeOK, NEW h \in Handlers, NEW x \in {Ready, [Ready EXCEPT !.pc = "dead"]},
         req' = [req EXCEPT ![h] = x]
  PROVE  NewlyEarned
<1>1. x.pc # "close"
  BY DEF Ready
<1> QED BY <1>1, OnlyOne

LEMMA GotoEarned ==
  ASSUME TypeOK, NEW h \in Handlers, NEW l, l # "close", Goto(h, l)
  PROVE  NewlyEarned
<1> DEFINE x == [req[h] EXCEPT !.pc = l]
<1>1. req[h] \in Request
  BY DEF TypeOK
<1>2. x.pc # "close"
  BY <1>1 DEF Request
<1>3. req' = [req EXCEPT ![h] = x]
  BY DEF Goto
<1> HIDE DEF x
<1> QED BY <1>2, <1>3, OnlyOne

LEMMA GrantEarned ==
  ASSUME TypeOK, PaidOnce, NEW h \in Handlers, Grant(h)
  PROVE  NewlyEarned
<1> DEFINE x == [req[h] EXCEPT !.pc = "close", !.outcome = Granted(h)]
<1>1. req' = [req EXCEPT ![h] = x]
  BY DEF Grant, Granted
<1>2. req[h] \in Request /\ Which(h) \in Challenges
  BY WhoWhich DEF TypeOK, Grant, AtWork
<1>3. x.inst = req[h].inst /\ x.outcome = Granted(h)
  BY <1>2 DEF Request
<1>4. Granted(h) = "complete" => Covered(Who(h), Which(h))
  <2>1. CASE Complete(Who(h), Which(h))
    BY <1>2, <2>1, CompleteCovers
  <2>2. CASE FlagsOf[Which(h)] = {}
    BY <2>2 DEF Covered
  <2> QED BY <2>1, <2>2 DEF Granted
<1> HIDE DEF x
<1>5. x.outcome = "complete" => Covered(UserOf[x.inst], ChallengeOf[x.inst])
  BY <1>3, <1>4 DEF Who, Which
<1> QED BY <1>1, <1>5, OnlyOne

LEMMA CheckEarned ==
  ASSUME TypeOK, PaidOnce, NEW h \in Handlers, Check(h)
  PROVE  NewlyEarned
<1>1. CASE Complete(Who(h), Which(h))
  <2> DEFINE x == [req[h] EXCEPT !.pc = "close", !.outcome = "complete"]
  <2>1. req[h] \in Request /\ Which(h) \in Challenges
    BY WhoWhich DEF TypeOK, Check, AtWork
  <2>2. x.inst = req[h].inst
    BY <2>1 DEF Request
  <2>3. Covered(Who(h), Which(h))
    BY <1>1, <2>1, CompleteCovers
  <2>4. req' = [req EXCEPT ![h] = x]
    BY <1>1 DEF Check
  <2> HIDE DEF x
  <2>5. Covered(UserOf[x.inst], ChallengeOf[x.inst])
    BY <2>2, <2>3 DEF Who, Which
  <2> QED BY <2>4, <2>5, OnlyOne
<1>2. CASE ~Complete(Who(h), Which(h))
  BY <1>2, DoneEarned DEF Check, Done
<1> QED BY <1>1, <1>2

LEMMA NewlyEarnedStep ==
  ASSUME TypeOK, PaidOnce, Next
  PROVE  NewlyEarned
<1>1. ASSUME NEW h \in Handlers, CountHit(h)
      PROVE  NewlyEarned
  BY <1>1, GotoEarned DEF CountHit
<1>2. ASSUME NEW h \in Handlers, Look(h)
      PROVE  NewlyEarned
  <2> DEFINE x == [req[h] EXCEPT !.pc = "write",
                                 !.already = Matches(h) /\ Solved(Who(h), req[h].guess)]
  <2>1. req[h] \in Request
    BY DEF TypeOK
  <2>2. x.pc # "close"
    BY <2>1 DEF Request
  <2>3. req' = [req EXCEPT ![h] = x]
    BY <1>2 DEF Look
  <2> HIDE DEF x
  <2> QED BY <2>2, <2>3, OnlyOne
<1>3. ASSUME NEW h \in Handlers, Grade(h)
      PROVE  NewlyEarned
  <2>1. CASE Done(h)
    BY <2>1, DoneEarned DEF Done
  <2>2. CASE Goto(h, "check")
    BY <2>2, GotoEarned
  <2> QED BY <1>3, <2>1, <2>2, GradeCases
<1>4. ASSUME NEW h \in Handlers, Check(h)
      PROVE  NewlyEarned
  BY <1>4, CheckEarned
<1>5. ASSUME NEW h \in Handlers, Close(h) \/ Die(h)
      PROVE  NewlyEarned
  BY <1>5, DoneEarned DEF Close, Done, Die
<1>6. ASSUME NEW h \in Handlers, NEW i \in Instances, NEW g \in Flags, Arrive(h, i, g)
      PROVE  NewlyEarned
  <2> DEFINE x == [Ready EXCEPT !.pc = "arrived", !.inst = i, !.guess = g]
  <2>1. x.pc # "close"
    BY DEF Ready
  <2>2. req' = [req EXCEPT ![h] = x]
    BY <1>6 DEF Arrive
  <2> HIDE DEF x
  <2> QED BY <2>1, <2>2, OnlyOne
<1>7. ASSUME NEW h \in Handlers, NEW i \in Instances, NEW w \in {"complete", "abandoned"},
             AskClose(h, i, w)
      PROVE  NewlyEarned
  <2> DEFINE x == [Ready EXCEPT !.pc = "asked", !.inst = i, !.outcome = w]
  <2>1. x.pc # "close"
    BY DEF Ready
  <2>2. req' = [req EXCEPT ![h] = x]
    BY <1>7 DEF AskClose
  <2> HIDE DEF x
  <2> QED BY <2>1, <2>2, OnlyOne
<1>8. ASSUME NEW u \in Users, NEW c \in Challenges, WindowRolls(u, c)
      PROVE  NewlyEarned
  BY <1>8 DEF WindowRolls, NewlyEarned
<1>9. ASSUME NEW h \in Handlers, CheckLimit(h)
      PROVE  NewlyEarned
  BY <1>9, GotoEarned, DoneEarned DEF CheckLimit, Done
<1>10. ASSUME NEW h \in Handlers, Grant(h)
       PROVE  NewlyEarned
  BY <1>10, GrantEarned
<1> QED BY <1>1, <1>2, <1>3, <1>4, <1>5, <1>6, <1>7, <1>8, <1>9, <1>10 DEF Next, Step

LEMMA EarnedStep ==
  ASSUME TypeOK, PaidOnce, Earned, Next
  PROVE  Earned'
<1>1. ASSUME NEW i \in Instances, Covered(UserOf[i], ChallengeOf[i]),
             NEW f \in FlagsOf[ChallengeOf[i]]
      PROVE  \E k \in 1 .. Len(solves') : solves'[k].user = UserOf[i] /\ solves'[k].flag = f
  <2>1. Covered(UserOf[i], ChallengeOf[i])'
    BY <1>1, CoveredStays
  <2> QED BY <2>1 DEF Covered, Solved
<1>2. ASSUME NEW h \in Handlers, req'[h].pc = "close", req'[h].outcome = "complete"
      PROVE  req'[h].inst \in Instances
             /\ Covered(UserOf[req'[h].inst], ChallengeOf[req'[h].inst])
  <2>0. ReqTyped'
    BY ReqStep
  <2>1. req'[h].inst \in Instances
    BY <1>2, <2>0 DEF ReqTyped, AtWork
  <2>2. CASE req'[h] = req[h]
    BY <1>2, <2>1, <2>2 DEF Earned, Who, Which
  <2> QED BY <1>2, <2>1, <2>2, NewlyEarnedStep DEF NewlyEarned
<1>3. ASSUME NEW h \in Handlers, req'[h].pc = "close", req'[h].outcome = "complete"
      PROVE  \A f \in FlagsOf[ChallengeOf[req'[h].inst]] : \E k \in 1 .. Len(solves') :
               solves'[k].user = UserOf[req'[h].inst] /\ solves'[k].flag = f
  BY <1>1, <1>2, <1>3
<1> QED BY <1>3 DEF Earned, Covered, Solved, Who, Which

LEMMA CompleteStep ==
  ASSUME TypeOK, CompleteIsEarned, Earned, Next
  PROVE  CompleteIsEarned'
<1> SUFFICES ASSUME NEW i \in Instances, status'[i] = "complete"
             PROVE  \A f \in FlagsOf[ChallengeOf[i]] : Solved(UserOf[i], f)'
  BY DEF CompleteIsEarned
<1>1. status[i] = "complete" \/ \E h \in Handlers : Close(h) /\ req[h].inst = i
                                     /\ req[h].outcome = "complete"
  <2>1. CASE status' = status
    BY <2>1
  <2>2. ASSUME NEW h \in Handlers, Close(h)
        PROVE  status[i] = "complete" \/ (req[h].inst = i /\ req[h].outcome = "complete")
    BY <2>2 DEF Close, TypeOK
  <2> QED BY <2>1, <2>2, NextWrites DEF Writes, CountHit, WindowRolls
<1>2. Covered(UserOf[i], ChallengeOf[i])
  BY <1>1 DEF CompleteIsEarned, Covered, Earned, Close, Who, Which
<1> QED BY <1>2, CoveredStays DEF Covered

-----------------------------------------------------------------------------
(* The window. A request is let through while there is room, and counted   *)
(* later: those that are let through and not counted are handlers.         *)

LEMMA PendingFinite ==
  ASSUME NEW u, NEW c
  PROVE  /\ IsFiniteSet(Pending(u, c))
         /\ Cardinality(Pending(u, c)) \in Nat /\ Cardinality(Handlers) \in Nat
<1>1. IsFiniteSet(Handlers) /\ Pending(u, c) \in SUBSET Handlers
  BY FiniteAssumption DEF Pending
<1> QED BY <1>1, FS_Subset, FS_CardinalityType

\* A step that lets nothing new through and counts nothing new.
LEMMA CountingKept ==
  ASSUME TypeOK, TypeOK', Counting,
         \A u \in Users, c \in Challenges : hits'[u][c] <= hits[u][c],
         \A h \in Handlers : req'[h].pc = "allowed" => req'[h] = req[h]
  PROVE  Counting'
<1> SUFFICES ASSUME NEW u \in Users, NEW c \in Challenges
             PROVE  hits'[u][c] + Cardinality(Pending(u, c)') < Limit + Cardinality(Handlers)
  BY DEF Counting
<1>1. Pending(u, c)' \in SUBSET Pending(u, c)
  BY DEF Pending, Who, Which
<1>2. /\ IsFiniteSet(Pending(u, c)')
      /\ Cardinality(Pending(u, c)') <= Cardinality(Pending(u, c))
  BY <1>1, PendingFinite, FS_Subset
<1>3. Cardinality(Pending(u, c)') \in Nat
  BY <1>2, FS_CardinalityType
<1>4. hits[u][c] \in Nat /\ hits'[u][c] \in Nat /\ hits'[u][c] <= hits[u][c]
  BY DEF TypeOK
<1>5. Limit \in Nat /\ Cardinality(Handlers) \in Nat /\ Cardinality(Pending(u, c)) \in Nat
  BY PendingFinite, ScoringAssumption
<1>6. hits[u][c] + Cardinality(Pending(u, c)) < Limit + Cardinality(Handlers)
  BY DEF Counting
<1> QED BY <1>2, <1>3, <1>4, <1>5, <1>6

\* A request is let through while the guesses in the window are below the
\* limit, so the handlers, this one among them, account for the others.
LEMMA AllowCounts ==
  ASSUME TypeOK, Counting, NEW h \in Handlers, CheckLimit(h), Goto(h, "allowed"),
         Allowed(hits[Who(h)][Which(h)])
  PROVE  Counting'
<1> SUFFICES ASSUME NEW u \in Users, NEW c \in Challenges
             PROVE  hits[u][c] + Cardinality(Pending(u, c)') < Limit + Cardinality(Handlers)
  BY DEF Counting, CheckLimit
<1>1. /\ Limit \in Nat /\ Cardinality(Handlers) \in Nat /\ Cardinality(Pending(u, c)) \in Nat
      /\ hits[u][c] \in Nat
  BY PendingFinite, ScoringAssumption DEF TypeOK
<1>2. CASE u = Who(h) /\ c = Which(h)
  <2>1. hits[u][c] < Limit
    BY <1>2 DEF Allowed
  <2>2. Pending(u, c)' \in SUBSET Handlers
    BY DEF Pending
  <2>3. IsFiniteSet(Pending(u, c)') /\ Cardinality(Pending(u, c)') <= Cardinality(Handlers)
    BY <2>2, FiniteAssumption, FS_Subset
  <2>4. Cardinality(Pending(u, c)') \in Nat
    BY <2>3, FS_CardinalityType
  <2> QED BY <1>1, <2>1, <2>3, <2>4
<1>3. CASE ~(u = Who(h) /\ c = Which(h))
  <2>1. Pending(u, c)' = Pending(u, c)
    <3>1. req'[h].inst = req[h].inst /\ req[h].pc = "arrived"
      BY DEF CheckLimit, Goto, TypeOK, Request
    <3>2. \A k \in Handlers \ {h} : req'[k] = req[k]
      BY DEF Goto, TypeOK
    <3>3. h \notin Pending(u, c)' /\ h \notin Pending(u, c)
      BY <1>3, <3>1 DEF Pending, Who, Which
    <3>4. \A k \in Handlers \ {h} : k \in Pending(u, c)' <=> k \in Pending(u, c)
      BY <3>2 DEF Pending, Who, Which
    <3> QED BY <3>3, <3>4 DEF Pending
  <2> QED BY <1>1, <2>1 DEF Counting
<1> QED BY <1>2, <1>3

\* To count a guess moves it from those let through into the window.
LEMMA CountHitCounts ==
  ASSUME TypeOK, Counting, NEW h \in Handlers, CountHit(h)
  PROVE  Counting'
<1> SUFFICES ASSUME NEW u \in Users, NEW c \in Challenges
             PROVE  hits'[u][c] + Cardinality(Pending(u, c)') < Limit + Cardinality(Handlers)
  BY DEF Counting
<1>1. /\ Limit \in Nat /\ Cardinality(Handlers) \in Nat /\ Cardinality(Pending(u, c)) \in Nat
      /\ hits[u][c] \in Nat /\ IsFiniteSet(Pending(u, c))
  BY PendingFinite, ScoringAssumption DEF TypeOK
<1>2. hits[u][c] + Cardinality(Pending(u, c)) < Limit + Cardinality(Handlers)
  BY DEF Counting
<1>3. Pending(u, c)' = Pending(u, c) \ {h}
  <2>1. req'[h].pc = "grade"
    BY DEF CountHit, Goto, TypeOK, Request
  <2>2. \A k \in Handlers \ {h} : req'[k] = req[k]
    BY DEF CountHit, Goto, TypeOK
  <2>3. h \notin Pending(u, c)'
    BY <2>1 DEF Pending
  <2>4. \A k \in Handlers \ {h} : k \in Pending(u, c)' <=> k \in Pending(u, c)
    BY <2>2 DEF Pending, Who, Which
  <2> QED BY <2>3, <2>4 DEF Pending
<1>4. Cardinality(Pending(u, c)') = IF h \in Pending(u, c) THEN Cardinality(Pending(u, c)) - 1
                                                            ELSE Cardinality(Pending(u, c))
  BY <1>1, <1>3, FS_RemoveElement
<1>5. CASE u = Who(h) /\ c = Which(h)
  <2>1. h \in Pending(u, c)
    BY <1>5 DEF CountHit, Pending
  <2>2. hits'[u][c] = hits[u][c] + 1
    BY <1>5 DEF CountHit, TypeOK
  <2> QED BY <1>1, <1>2, <1>4, <2>1, <2>2
<1>6. CASE ~(u = Who(h) /\ c = Which(h))
  <2>1. h \notin Pending(u, c)
    BY <1>6 DEF Pending
  <2>2. hits'[u][c] = hits[u][c]
    BY <1>6 DEF CountHit, TypeOK
  <2> QED BY <1>1, <1>2, <1>4, <2>1, <2>2
<1> QED BY <1>5, <1>6

LEMMA CountingStep ==
  ASSUME TypeOK, Counting, Next
  PROVE  Counting'
<1>1. TypeOK'
  BY TypeStep
<1>2. ASSUME NEW h \in Handlers, CountHit(h)
      PROVE  Counting'
  BY <1>2, CountHitCounts
<1>4. ASSUME NEW h \in Handlers, NEW x, x.pc # "allowed", req' = [req EXCEPT ![h] = x], hits' = hits
      PROVE  Counting'
  <2>1. \A g \in Handlers : req'[g].pc = "allowed" => req'[g] = req[g]
    BY <1>4 DEF TypeOK
  <2>2. \A u \in Users, c \in Challenges : hits'[u][c] <= hits[u][c]
    BY <1>4 DEF TypeOK
  <2> QED BY <1>1, <2>1, <2>2, CountingKept
<1>5. ASSUME NEW h \in Handlers, Done(h) \/ Die(h), hits' = hits
      PROVE  Counting'
  <2>1. Ready.pc # "allowed" /\ [Ready EXCEPT !.pc = "dead"].pc # "allowed"
    BY DEF Ready
  <2> QED BY <1>4, <1>5, <2>1 DEF Done, Die
<1>6. ASSUME NEW h \in Handlers, Look(h)
      PROVE  Counting'
  <2> DEFINE x == [req[h] EXCEPT !.pc = "write",
                                 !.already = Matches(h) /\ Solved(Who(h), req[h].guess)]
  <2>1. req[h] \in Request
    BY DEF TypeOK
  <2>2. x.pc # "allowed"
    BY <2>1 DEF Request
  <2>3. req' = [req EXCEPT ![h] = x] /\ hits' = hits
    BY <1>6 DEF Look
  <2> HIDE DEF x
  <2> QED BY <1>4, <2>2, <2>3
<1>7. ASSUME NEW h \in Handlers, Goto(h, "check"), hits' = hits
      PROVE  Counting'
  <2> DEFINE x == [req[h] EXCEPT !.pc = "check"]
  <2>1. req[h] \in Request
    BY DEF TypeOK
  <2>2. x.pc # "allowed"
    BY <2>1 DEF Request
  <2>3. req' = [req EXCEPT ![h] = x] /\ hits' = hits
    BY <1>7 DEF Goto
  <2> HIDE DEF x
  <2> QED BY <1>4, <2>2, <2>3
<1>8. ASSUME NEW h \in Handlers, Check(h)
      PROVE  Counting'
  <2> DEFINE x == [req[h] EXCEPT !.pc = "close", !.outcome = "complete"]
  <2>1. req[h] \in Request
    BY DEF TypeOK
  <2>2. x.pc # "allowed"
    BY <2>1 DEF Request
  <2>3. hits' = hits /\ (req' = [req EXCEPT ![h] = x] \/ Done(h))
    BY <1>8 DEF Check
  <2> HIDE DEF x
  <2> QED BY <1>4, <1>5, <2>2, <2>3
<1>9. ASSUME NEW h \in Handlers, NEW i \in Instances, NEW w \in {"complete", "abandoned"},
             AskClose(h, i, w)
      PROVE  Counting'
  <2> DEFINE x == [Ready EXCEPT !.pc = "asked", !.inst = i, !.outcome = w]
  <2>1. x.pc # "allowed"
    BY DEF Ready
  <2>2. req' = [req EXCEPT ![h] = x] /\ hits' = hits
    BY <1>9 DEF AskClose
  <2> HIDE DEF x
  <2> QED BY <1>4, <2>1, <2>2
<1>10. ASSUME NEW u \in Users, NEW c \in Challenges, WindowRolls(u, c)
       PROVE  Counting'
  <2>1. \A v \in Users, d \in Challenges : hits'[v][d] <= hits[v][d]
    BY <1>10 DEF WindowRolls, TypeOK
  <2>2. req' = req
    BY <1>10 DEF WindowRolls
  <2> QED BY <1>1, <2>1, <2>2, CountingKept
<1>3. ASSUME NEW h \in Handlers, NEW i \in Instances, NEW g \in Flags, Arrive(h, i, g)
      PROVE  Counting'
  <2> DEFINE x == [Ready EXCEPT !.pc = "arrived", !.inst = i, !.guess = g]
  <2>1. x.pc # "allowed"
    BY DEF Ready
  <2>2. req' = [req EXCEPT ![h] = x] /\ hits' = hits
    BY <1>3 DEF Arrive
  <2> HIDE DEF x
  <2> QED BY <1>4, <2>1, <2>2
<1>11. ASSUME NEW h \in Handlers, CheckLimit(h)
       PROVE  Counting'
  BY <1>5, <1>11, AllowCounts DEF CheckLimit
<1>12. ASSUME NEW h \in Handlers, Grant(h)
       PROVE  Counting'
  <2> DEFINE x == [req[h] EXCEPT !.pc = "close", !.outcome = Granted(h)]
  <2>1. req[h] \in Request
    BY DEF TypeOK
  <2>2. x.pc # "allowed"
    BY <2>1 DEF Request
  <2>3. req' = [req EXCEPT ![h] = x] /\ hits' = hits
    BY <1>12 DEF Grant, Granted
  <2> HIDE DEF x
  <2> QED BY <1>4, <2>2, <2>3
<1> QED BY <1>2, <1>3, <1>5, <1>6, <1>7, <1>8, <1>9, <1>10, <1>11, <1>12, GradeCases DEF Next, Step, Close, Die

-----------------------------------------------------------------------------
(* The last flag.                                                          *)

\* An attempt that is closed, or that a handler is about to close.
Attended(i) ==
  \/ status[i] # "running"
  \/ \E h \in Handlers : \/ req[h].pc = "dead"
                         \/ req[h].pc \in {"check", "close"} /\ req[h].inst = i

\* A step of a handler that was, and is, at none of these points of i.
LEMMA AttendedKept ==
  ASSUME TypeOK, NEW i \in Instances, Attended(i), status' = status,
         NEW h \in Handlers, NEW x, req' = [req EXCEPT ![h] = x],
         \/ req[h].pc \notin {"check", "close", "dead"}
         \/ x.pc = "dead" \/ (req[h].pc = "check" /\ x.pc = "close" /\ x.inst = req[h].inst)
  PROVE  Attended(i)'
<1>1. CASE status[i] # "running"
  BY <1>1 DEF Attended
<1>2. ASSUME NEW g \in Handlers,
             req[g].pc = "dead" \/ (req[g].pc \in {"check", "close"} /\ req[g].inst = i)
      PROVE  Attended(i)'
  <2>1. CASE g # h
    <3>1. req'[g] = req[g]
      BY <2>1 DEF TypeOK
    <3> QED BY <1>2, <3>1 DEF Attended
  <2>2. CASE g = h /\ req[h].pc # "dead"
    <3>1. req'[h] = x
      BY DEF TypeOK
    <3> QED BY <1>2, <2>2, <3>1 DEF Attended
  <2>3. CASE g = h /\ req[h].pc = "dead"
    <3>1. req'[h] = x
      BY DEF TypeOK
    <3>2. CASE x.pc = "dead"
      BY <3>1, <3>2 DEF Attended
    <3> QED BY <2>3, <3>1, <3>2 DEF Attended
  <2> QED BY <2>1, <2>2, <2>3
<1> QED BY <1>1, <1>2 DEF Attended

\* A step that awards nothing leaves a fully solved attempt attended.
LEMMA StillAttended ==
  ASSUME TypeOK, Next, solves' = solves, NEW i \in Instances, Attended(i),
         Complete(UserOf[i], ChallengeOf[i])
  PROVE  Attended(i)'
<1>1. ASSUME NEW h \in Handlers, NEW l, Goto(h, l), status' = status,
             req[h].pc \notin {"check", "close", "dead"}
      PROVE  Attended(i)'
  <2> DEFINE x == [req[h] EXCEPT !.pc = l]
  <2>1. req' = [req EXCEPT ![h] = x]
    BY <1>1 DEF Goto
  <2> HIDE DEF x
  <2> QED BY <1>1, <2>1, AttendedKept
<1>2. ASSUME NEW h \in Handlers, Done(h), status' = status,
             req[h].pc \notin {"check", "close", "dead"}
      PROVE  Attended(i)'
  BY <1>2, AttendedKept DEF Done
<1>3. ASSUME NEW h \in Handlers, CheckLimit(h) \/ CountHit(h)
      PROVE  Attended(i)'
  BY <1>1, <1>2, <1>3 DEF CheckLimit, CountHit
<1>4. ASSUME NEW h \in Handlers, Look(h)
      PROVE  Attended(i)'
  <2> DEFINE x == [req[h] EXCEPT !.pc = "write",
                                 !.already = Matches(h) /\ Solved(Who(h), req[h].guess)]
  <2>1. req' = [req EXCEPT ![h] = x] /\ status' = status /\ req[h].pc = "grade"
    BY <1>4 DEF Look
  <2> HIDE DEF x
  <2> QED BY <2>1, AttendedKept
<1>5. ASSUME NEW h \in Handlers, Grade(h)
      PROVE  Attended(i)'
  <2>1. (Done(h) \/ Goto(h, "check")) /\ status' = status /\ req[h].pc = "write"
    BY <1>5 DEF Grade
  <2> QED BY <1>1, <1>2, <2>1
<1>6. ASSUME NEW h \in Handlers, Check(h)
      PROVE  Attended(i)'
  <2>1. req[h].pc = "check" /\ status' = status /\ req[h] \in Request
    BY <1>6 DEF Check, TypeOK
  <2>2. CASE Complete(Who(h), Which(h))
    <3> DEFINE x == [req[h] EXCEPT !.pc = "close", !.outcome = "complete"]
    <3>1. req' = [req EXCEPT ![h] = x]
      BY <1>6, <2>2 DEF Check
    <3>2. x.pc = "close" /\ x.inst = req[h].inst
      BY <2>1 DEF Request
    <3> HIDE DEF x
    <3> QED BY <2>1, <3>1, <3>2, AttendedKept
  <2>3. CASE ~Complete(Who(h), Which(h))
    <3>1. req[h].inst # i
      BY <2>3 DEF Who, Which
    <3>2. \A g \in Handlers \ {h} : req'[g] = req[g]
      BY <1>6, <2>3 DEF Check, Done, TypeOK
    <3> QED BY <2>1, <3>1, <3>2 DEF Attended
  <2> QED BY <2>2, <2>3
<1>7. ASSUME NEW h \in Handlers, Grant(h)
      PROVE  Attended(i)'
  <2> DEFINE x == [req[h] EXCEPT !.pc = "close", !.outcome = Granted(h)]
  <2>1. req' = [req EXCEPT ![h] = x] /\ status' = status /\ req[h].pc = "asked"
    BY <1>7 DEF Grant, Granted
  <2> HIDE DEF x
  <2> QED BY <2>1, AttendedKept
<1>8. ASSUME NEW h \in Handlers, Close(h)
      PROVE  Attended(i)'
  <2>1. req[h].outcome \in {"complete", "abandoned"}
    BY <1>8 DEF Close, TypeOK, Request
  <2>2. CASE status'[i] # "running"
    BY <2>2 DEF Attended
  <2>3. CASE status'[i] = "running"
    <3>1. status[i] = "running" /\ req[h].inst # i
      BY <1>8, <2>1, <2>3 DEF Close, TypeOK
    <3>2. \A g \in Handlers \ {h} : req'[g] = req[g]
      BY <1>8 DEF Close, Done, TypeOK
    <3>3. req[h].pc = "close"
      BY <1>8 DEF Close
    <3> QED BY <3>1, <3>2, <3>3 DEF Attended
  <2> QED BY <2>2, <2>3
<1>9. ASSUME NEW h \in Handlers, Die(h)
      PROVE  Attended(i)'
  <2>1. [Ready EXCEPT !.pc = "dead"].pc = "dead"
    BY DEF Ready
  <2> QED BY <1>9, <2>1, AttendedKept DEF Die
<1>10. ASSUME NEW h \in Handlers, NEW x, req[h] = Ready, req' = [req EXCEPT ![h] = x],
              status' = status
       PROVE  Attended(i)'
  <2>1. req[h].pc = "idle"
    BY <1>10 DEF Ready
  <2> QED BY <1>10, <2>1, AttendedKept
<1>11. ASSUME NEW h \in Handlers, NEW j \in Instances, NEW g \in Flags, Arrive(h, j, g)
       PROVE  Attended(i)'
  BY <1>10, <1>11 DEF Arrive
<1>12. ASSUME NEW h \in Handlers, NEW j \in Instances, NEW w \in {"complete", "abandoned"},
              AskClose(h, j, w)
       PROVE  Attended(i)'
  BY <1>10, <1>12 DEF AskClose
<1>13. ASSUME NEW u \in Users, NEW c \in Challenges, WindowRolls(u, c)
       PROVE  Attended(i)'
  BY <1>13 DEF WindowRolls, Attended
<1> QED BY <1>3, <1>4, <1>5, <1>6, <1>7, <1>8, <1>9, <1>11, <1>12, <1>13 DEF Next, Step

LEMMA LastFlagStep ==
  ASSUME TypeOK, LastFlagCloses, Next
  PROVE  LastFlagCloses'
<1> SUFFICES ASSUME NEW i \in Instances,
                    Len(solves') > 0, solves'[Len(solves')].inst = i,
                    \A f \in FlagsOf[ChallengeOf[i]] : Solved(UserOf[i], f)'
             PROVE  Attended(i)'
  BY DEF LastFlagCloses, Attended
<1>1. CASE solves' = solves
  <2>1. Covered(UserOf[i], ChallengeOf[i])
    BY <1>1 DEF Covered, Solved
  <2>2. Len(solves) \in Nat /\ Len(solves) > 0 /\ solves[Len(solves)].inst = i
    BY <1>1 DEF TypeOK
  <2>3. FlagsOf[ChallengeOf[i]] # {}
    <3>1. Len(solves) \in 1 .. Len(solves)
      BY <2>2
    <3> QED BY <2>2, <3>1 DEF TypeOK
  <2>4. Complete(UserOf[i], ChallengeOf[i])
    BY <2>1, <2>3, CoveredCompletes, ScoringAssumption
  <2>5. Attended(i)
    BY <2>1, <2>2 DEF LastFlagCloses, Attended, Covered
  <2> QED BY <1>1, <2>4, <2>5, StillAttended
<1>2. ASSUME NEW h \in Handlers, Awards(h), Goto(h, "check")
      PROVE  Attended(i)'
  <2>1. Len(solves') = Len(solves) + 1 /\ solves'[Len(solves) + 1] = NewRow(h)
    BY <1>2, Appended
  <2>2. req[h].inst = i
    BY <2>1 DEF NewRow
  <2>3. req'[h].pc = "check" /\ req'[h].inst = i
    BY <1>2, <2>2 DEF Goto, TypeOK, Request
  <2> QED BY <2>3 DEF Attended
<1> QED BY <1>1, <1>2, NextWrites DEF Writes, CountHit, Close, WindowRolls

LEMMA Stutter == ASSUME IInv, UNCHANGED svars PROVE IInv'
<1>1. solves' = solves /\ log' = log /\ hits' = hits /\ status' = status /\ req' = req
  BY DEF svars
<1>2. TypeOK'
  BY <1>1 DEF IInv, TypeOK
<1>3. PaidOnce' /\ CompleteIsEarned' /\ LastFlagCloses'
  BY <1>1 DEF IInv, PaidOnce, CompleteIsEarned, LastFlagCloses, Solved
<1>4. LogMatchesLedger'
  BY <1>1 DEF IInv, LogMatchesLedger
<1>5. Earned'
  BY <1>1 DEF IInv, Earned, Covered, Solved, Who, Which
<1>6. Counting'
  BY <1>1 DEF IInv, Counting, Pending, Who, Which
<1> QED BY <1>2, <1>3, <1>4, <1>5, <1>6 DEF IInv

-----------------------------------------------------------------------------
(* Sorting by a strict total order.                                        *)

\* Ahead orders the rows of R.
Ordered(R) ==
  /\ IsFiniteSet(R)
  /\ \A r \in R : ~Ahead(r, r)
  /\ \A r, s, t \in R : Ahead(r, s) /\ Ahead(s, t) => Ahead(r, t)
  /\ \A r, s \in R : r = s \/ Ahead(r, s) \/ Ahead(s, r)

\* How many are ahead of r.
Before(R, r) == {s \in R : Ahead(s, r)}
Pos(R, r)    == Cardinality(Before(R, r))

LEMMA PosRange ==
  ASSUME NEW R, Ordered(R), NEW r \in R
  PROVE  /\ IsFiniteSet(Before(R, r)) /\ Pos(R, r) \in Nat /\ Cardinality(R) \in Nat
         /\ Pos(R, r) < Cardinality(R)
<1>1. IsFiniteSet(R) /\ Before(R, r) \subseteq R /\ r \notin Before(R, r)
  BY DEF Ordered, Before
<1> HIDE DEF Before
<1>2. IsFiniteSet(Before(R, r)) /\ Cardinality(R) \in Nat /\ Pos(R, r) \in Nat
  BY <1>1, FS_Subset, FS_CardinalityType DEF Pos
<1>3. Cardinality(Before(R, r)) < Cardinality(R)
  <2>1. Before(R, r) # R
    BY <1>1
  <2>2. Cardinality(Before(R, r)) <= Cardinality(R) /\ Cardinality(Before(R, r)) # Cardinality(R)
    BY <1>1, <2>1, FS_Subset
  <2>3. Cardinality(Before(R, r)) \in Nat
    BY <1>2 DEF Pos
  <2> QED BY <1>2, <2>2, <2>3
<1> QED BY <1>2, <1>3 DEF Pos

LEMMA PosAhead ==
  ASSUME NEW R, Ordered(R), NEW r \in R, NEW s \in R
  PROVE  Ahead(r, s) <=> Pos(R, r) < Pos(R, s)
<1>1. ASSUME NEW x \in R, NEW y \in R, Ahead(x, y) PROVE Pos(R, x) < Pos(R, y)
  <2>1. Before(R, x) \subseteq Before(R, y) /\ x \in Before(R, y) /\ x \notin Before(R, x)
    BY <1>1 DEF Ordered, Before
  <2>2. IsFiniteSet(Before(R, y))
    BY PosRange
  <2>3. Before(R, x) # Before(R, y)
    BY <2>1
  <2>4. /\ Cardinality(Before(R, x)) <= Cardinality(Before(R, y))
        /\ Cardinality(Before(R, x)) # Cardinality(Before(R, y))
    BY <2>1, <2>2, <2>3, FS_Subset
  <2>5. Pos(R, x) \in Nat /\ Pos(R, y) \in Nat
    BY PosRange
  <2> QED BY <2>4, <2>5 DEF Pos
<1>2. Pos(R, r) \in Nat /\ Pos(R, s) \in Nat
  BY PosRange
<1>3. r = s \/ Ahead(r, s) \/ Ahead(s, r)
  BY DEF Ordered
<1> QED BY <1>1, <1>2, <1>3

\* No two rows have the same number ahead of them.
LEMMA PosDiffers ==
  ASSUME NEW R, Ordered(R), NEW r \in R, NEW s \in R, Pos(R, r) = Pos(R, s)
  PROVE  r = s
<1>1. Pos(R, r) \in Nat /\ Pos(R, s) \in Nat
  BY PosRange
<1> QED BY <1>1, PosAhead DEF Ordered

\* Every position is somebody's.
LEMMA PosOnto ==
  ASSUME NEW R, Ordered(R), NEW k \in Nat, k < Cardinality(R)
  PROVE  \E r \in R : Pos(R, r) = k
<1> DEFINE n == Cardinality(R)
           T == 0 .. n - 1
           f == [r \in R |-> Pos(R, r)]
<1>1. IsFiniteSet(R) /\ n \in Nat
  BY FS_CardinalityType DEF Ordered
<1>2. IsFiniteSet(T) /\ Cardinality(T) = n
  <2>1. 0 \in Int /\ n - 1 \in Int
    BY <1>1
  <2>2. IsFiniteSet(T) /\ Cardinality(T) = IF 0 > n - 1 THEN 0 ELSE (n - 1) - 0 + 1
    BY <2>1, FS_Interval
  <2> QED BY <1>1, <2>2
<1>3. f \in [R -> T]
  <2>1. \A r \in R : Pos(R, r) \in T
    BY <1>1, PosRange
  <2> QED BY <2>1
<1>4. \A r, s \in R : f[r] = f[s] => r = s
  BY PosDiffers
<1>5. f \in Injection(R, T)
  <2> HIDE DEF T, f
  <2> QED BY <1>3, <1>4 DEF Injection, IsInjective
<1>6. f \in Surjection(R, T)
  <2> HIDE DEF f, T
  <2> QED BY <1>2, <1>5, FS_Injection DEF n
<1>7. k \in T
  BY <1>1
<1>8. \E r \in R : f[r] = k
  <2> HIDE DEF f, T
  <2> QED BY <1>6, <1>7 DEF Surjection
<1> QED BY <1>8

LEMMA MinIs ==
  ASSUME NEW m \in Nat, NEW n \in Nat
  PROVE  Min({m, n}) = IF m <= n THEN m ELSE n
<1>1. CASE m <= n
  <2>1. m \in {m, n} /\ \A y \in {m, n} : m <= y
    BY <1>1
  <2>2. \A x \in {m, n} : (\A y \in {m, n} : x <= y) => x = m
    BY <1>1
  <2> QED BY <1>1, <2>1, <2>2 DEF Min
<1>2. CASE ~(m <= n)
  <2>1. n \in {m, n} /\ \A y \in {m, n} : n <= y
    BY <1>2
  <2>2. \A x \in {m, n} : (\A y \in {m, n} : x <= y) => x = n
    BY <1>2
  <2> QED BY <1>2, <2>1, <2>2 DEF Min
<1> QED BY <1>1, <1>2

Places(R) == Min({Cardinality(R), BoardSize})

\* A board holds, at p, the row with p - 1 ahead of it.
LEMMA SortedIs ==
  ASSUME NEW R, Ordered(R)
  PROVE  /\ Places(R) \in Nat /\ DOMAIN Sorted(R) = 1 .. Places(R)
         /\ \A p \in 1 .. Places(R) : Sorted(R)[p] \in R /\ Pos(R, Sorted(R)[p]) = p - 1
         /\ \A r \in R : Pos(R, r) < Places(R) =>
              Pos(R, r) + 1 \in 1 .. Places(R) /\ Sorted(R)[Pos(R, r) + 1] = r
<1> DEFINE m == Places(R)
           b == Sorted(R)
<1>1. Cardinality(R) \in Nat /\ BoardSize \in Nat
  BY FS_CardinalityType, BoardAssumption DEF Ordered
<1>2. m \in Nat /\ m <= Cardinality(R)
  BY <1>1, MinIs DEF Places
<1>3. b = [p \in 1 .. m |-> CHOOSE r \in R : Pos(R, r) = p - 1]
  BY DEF Sorted, Places, Pos, Before
<1> HIDE DEF m, b
<1>4. DOMAIN b = 1 .. m /\ \A p \in 1 .. m : b[p] = CHOOSE r \in R : Pos(R, r) = p - 1
  BY <1>3
<1>5. ASSUME NEW p \in 1 .. m PROVE b[p] \in R /\ Pos(R, b[p]) = p - 1
  <2>1. p - 1 \in Nat /\ p - 1 < Cardinality(R)
    BY <1>1, <1>2
  <2>2. \E r \in R : Pos(R, r) = p - 1
    BY <2>1, PosOnto
  <2> QED BY <1>4, <2>2
<1>6. ASSUME NEW r \in R, Pos(R, r) < m
      PROVE  Pos(R, r) + 1 \in 1 .. m /\ b[Pos(R, r) + 1] = r
  <2>1. Pos(R, r) \in Nat
    BY PosRange
  <2>2. Pos(R, r) + 1 \in 1 .. m /\ (Pos(R, r) + 1) - 1 = Pos(R, r)
    BY <1>2, <1>6, <2>1
  <2>3. b[Pos(R, r) + 1] \in R /\ Pos(R, b[Pos(R, r) + 1]) = Pos(R, r)
    BY <1>5, <2>2
  <2> QED BY <2>2, <2>3, PosDiffers
<1> QED BY <1>2, <1>4, <1>5, <1>6 DEF m, b

-----------------------------------------------------------------------------
(* Ranks.                                                                  *)

Scored(R) == \A r \in R : r.score \in Nat

LEMMA AheadScores ==
  ASSUME NEW R, Scored(R), NEW r \in R, NEW s \in R
  PROVE  /\ Ahead(r, s) => r.score >= s.score
         /\ r.score > s.score => Ahead(r, s)
BY DEF Scored, Ahead

Better(R, r) == {s \in R : s.score > r.score}

\* The count of higher scores obeys the recursion of _ranked().
LEMMA BetterSteps ==
  ASSUME NEW R, Ordered(R), Scored(R), NEW p \in DOMAIN Sorted(R)
  PROVE  LET b == Sorted(R) IN
         1 + Cardinality(Better(R, b[p])) =
           IF p > 1 /\ b[p].score = b[p - 1].score THEN 1 + Cardinality(Better(R, b[p - 1])) ELSE p
<1> DEFINE b == Sorted(R)
           r == b[p]
<1>1. p \in 1 .. Places(R) /\ Places(R) \in Nat /\ r \in R /\ Pos(R, r) = p - 1
  BY SortedIs
<1>2. CASE p > 1 /\ b[p].score = b[p - 1].score
  <2>1. Better(R, b[p]) = Better(R, b[p - 1])
    BY <1>2 DEF Better
  <2> QED BY <1>2, <2>1
<1>3. CASE ~(p > 1 /\ b[p].score = b[p - 1].score)
  <2>1. Better(R, r) \subseteq Before(R, r)
    BY <1>1, AheadScores DEF Better, Before
  <2>2. Before(R, r) \subseteq Better(R, r)
    <3>1. CASE p = 1
      <4>1. Cardinality(Before(R, r)) = 0 /\ IsFiniteSet(Before(R, r))
        BY <1>1, <3>1, PosRange DEF Pos
      <4> QED BY <4>1, FS_EmptySet
    <3>2. CASE p # 1
      <4> DEFINE q == b[p - 1]
      <4>1. p - 1 \in 1 .. Places(R) /\ q \in R /\ Pos(R, q) = p - 2 /\ p > 1
        BY <1>1, <3>2, SortedIs
      <4>2. Ahead(q, r)
        BY <1>1, <4>1, PosAhead
      <4>3. q.score > r.score
        <5>1. q.score >= r.score /\ q.score # r.score
          BY <1>1, <1>3, <4>1, <4>2, AheadScores
        <5> QED BY <1>1, <4>1, <5>1 DEF Scored
      <4> HIDE DEF q, r, b
      <4>4. ASSUME NEW s \in R, Ahead(s, r) PROVE s.score > r.score
        <5>1. Pos(R, s) < p - 1 /\ Pos(R, s) \in Nat
          BY <1>1, <4>4, PosAhead, PosRange
        <5>2. ~(Pos(R, q) < Pos(R, s))
          BY <1>1, <4>1, <5>1
        <5>3. s = q \/ Ahead(s, q)
          BY <4>1, <5>2, PosAhead DEF Ordered
        <5>4. s.score >= q.score
          <6>1. q.score \in Nat
            BY <4>1 DEF Scored
          <6> QED BY <4>1, <5>3, <6>1, AheadScores
        <5>5. s.score \in Nat /\ q.score \in Nat /\ r.score \in Nat
          BY <1>1, <4>1 DEF Scored
        <5> QED BY <4>3, <5>4, <5>5
      <4> QED BY <4>4 DEF Before, Better
    <3> QED BY <3>1, <3>2
  <2>3. Better(R, r) = Before(R, r)
    BY <2>1, <2>2
  <2>4. 1 + Cardinality(Better(R, r)) = p
    BY <1>1, <2>3 DEF Pos
  <2> QED BY <1>3, <2>4
<1> QED BY <1>2, <1>3

\* _ranked() is that count.
LEMMA RankedIs ==
  ASSUME NEW R, Ordered(R), Scored(R), NEW p \in DOMAIN Sorted(R)
  PROVE  Ranked(Sorted(R))[p] = 1 + Cardinality(Better(R, Sorted(R)[p]))
<1> DEFINE b == Sorted(R)
           Eq(g) == g = [i \in DOMAIN b |-> IF i > 1 /\ b[i].score = b[i - 1].score THEN g[i - 1] ELSE i]
           G == [i \in DOMAIN b |-> 1 + Cardinality(Better(R, b[i]))]
<1>1. DOMAIN b = 1 .. Places(R) /\ Places(R) \in Nat
  BY SortedIs
<1>2. \A i \in DOMAIN b : i > 1 => i - 1 \in DOMAIN b
  BY <1>1
<1>3. \A i \in DOMAIN b : G[i] = IF i > 1 /\ b[i].score = b[i - 1].score THEN G[i - 1] ELSE i
  <2> TAKE i \in DOMAIN b
  <2>1. 1 + Cardinality(Better(R, b[i])) =
          IF i > 1 /\ b[i].score = b[i - 1].score THEN 1 + Cardinality(Better(R, b[i - 1])) ELSE i
    BY BetterSteps
  <2>2. G[i] = 1 + Cardinality(Better(R, b[i])) /\ (i > 1 => G[i - 1] = 1 + Cardinality(Better(R, b[i - 1])))
    BY <1>2
  <2> HIDE DEF G, b
  <2> QED BY <2>1, <2>2
<1>4. Eq(G)
  <2> DEFINE F == [i \in DOMAIN b |-> IF i > 1 /\ b[i].score = b[i - 1].score THEN G[i - 1] ELSE i]
  <2>1. \A i \in DOMAIN b : G[i] = F[i]
    BY <1>3
  <2>2. G = [i \in DOMAIN b |-> G[i]] /\ F = [i \in DOMAIN b |-> F[i]]
    OBVIOUS
  <2> HIDE DEF G, F, b
  <2>3. G = F
    BY <2>1, <2>2
  <2> QED BY <2>3 DEF F
<1>5. Ranked(b) = CHOOSE g : Eq(g)
  BY DEF Ranked
<1> DEFINE h == Ranked(b)
<1>6. Eq(h)
  <2> HIDE DEF Eq, G
  <2> QED BY <1>4, <1>5
<1>7. \A i \in DOMAIN b : h[i] = IF i > 1 /\ b[i].score = b[i - 1].score THEN h[i - 1] ELSE i
  <2> DEFINE F == [i \in DOMAIN b |-> IF i > 1 /\ b[i].score = b[i - 1].score THEN h[i - 1] ELSE i]
  <2>1. h = F
    BY <1>6
  <2>2. \A i \in DOMAIN b : F[i] = IF i > 1 /\ b[i].score = b[i - 1].score THEN h[i - 1] ELSE i
    OBVIOUS
  <2> HIDE DEF F, h, b
  <2> QED BY <2>1, <2>2
<1> HIDE DEF Eq
<1> DEFINE Q == {i \in 1 .. Places(R) : h[i] # G[i]}
<1>8. Q = {}
  <2>1. SUFFICES ASSUME Q # {} PROVE FALSE
    OBVIOUS
  <2>2. Q \subseteq Nat
    OBVIOUS
  <2> HIDE DEF G, h, b
  <2>3. PICK i \in Q : \A j \in Q : i <= j
    <3> HIDE DEF Q
    <3> QED BY <2>1, <2>2, SmallestNumber
  <2>4. i \in 1 .. Places(R) /\ h[i] # G[i] /\ i \in DOMAIN b
    BY <1>1
  <2>5. i > 1 /\ h[i - 1] # G[i - 1]
    BY <1>3, <1>7, <2>4
  <2>6. i - 1 \in Q
    BY <1>1, <2>4, <2>5
  <2> QED BY <2>3, <2>4, <2>6
<1>9. h[p] = G[p]
  BY <1>1, <1>8
<1> QED BY <1>9

-----------------------------------------------------------------------------
(* The rows of the ledger.                                                 *)

LEMMA MaxIs ==
  ASSUME NEW n \in Nat, NEW S, S \subseteq 1 .. n, S # {}
  PROVE  Max(S) \in S
<1> DEFINE Q == {m \in Nat : \A k \in S : k <= m}
<1>1. n \in Q
  OBVIOUS
<1>2. PICK m \in Q : \A j \in Q : m <= j
  <2>1. Q \subseteq Nat /\ Q # {}
    BY <1>1
  <2> HIDE DEF Q
  <2> QED BY <2>1, SmallestNumber
<1>3. m \in Nat /\ \A k \in S : k <= m
  OBVIOUS
<1>4. m \in S
  <2>1. SUFFICES ASSUME m \notin S PROVE FALSE
    OBVIOUS
  <2>2. PICK k \in S : TRUE
    OBVIOUS
  <2>3. m >= 1
    BY <1>3, <2>2
  <2>4. m - 1 \in Nat /\ \A j \in S : j <= m - 1
    BY <1>3, <2>1, <2>3
  <2>5. m <= m - 1
    BY <1>2, <2>4
  <2> QED BY <1>3, <2>5
<1>5. m \in S /\ \A y \in S : m >= y
  BY <1>3, <1>4
<1> HIDE DEF Q
<1> QED BY <1>5 DEF Max

LEMMA MineType ==
  ASSUME TypeOK, NEW u, NEW C
  PROVE  /\ SolvesOf(u, C) \subseteq 1 .. Len(solves) /\ IsFiniteSet(SolvesOf(u, C))
         /\ Len(solves) \in Nat
         /\ \A k \in SolvesOf(u, C) : solves[k].points \in Nat /\ solves[k].user = u
<1>1. solves \in Seq(Solve) /\ Len(solves) \in Nat
  BY DEF TypeOK
<1>2. \A k \in 1 .. Len(solves) : solves[k] \in Solve
  BY <1>1
<1>3. SolvesOf(u, C) \subseteq 1 .. Len(solves)
  BY DEF SolvesOf
<1>4. IsFiniteSet(1 .. Len(solves))
  BY <1>1, FS_Interval
<1>5. IsFiniteSet(SolvesOf(u, C))
  BY <1>3, <1>4, FS_Subset
<1>6. \A k \in SolvesOf(u, C) : solves[k].points \in Nat /\ solves[k].user = u
  BY <1>2, <1>3 DEF SolvesOf, Solve
<1> QED BY <1>1, <1>3, <1>5, <1>6

LEMMA ScoreType ==
  ASSUME NEW S, IsFiniteSet(S), \A k \in S : solves[k].points \in Nat
  PROVE  MapThenSumSet(Awarded, S) \in Nat
<1> DEFINE f == [k \in S |-> solves[k].points]
           Adds(g) == g = [T \in SUBSET S |-> IF T = {} THEN 0
                            ELSE LET x == CHOOSE x \in T : TRUE IN solves[x].points + g[T \ {x}]]
<1>1. \A T \in SUBSET S : T # {} => f[CHOOSE x \in T : TRUE] = solves[CHOOSE x \in T : TRUE].points
  OBVIOUS
<1>2. \A g : Adds(g) <=> Sums(g, f, S)
  <2> HIDE DEF f
  <2> QED BY <1>1 DEF Sums
<1>3. PICK g : Sums(g, f, S) /\ SumFunctionOnSet(f, S) = g[S]
  BY SumIsSum
<1>4. MapThenSumSet(Awarded, S) = (CHOOSE h : Adds(h))[S]
  BY DEF MapThenSumSet, MapThenFoldSet, Awarded
<1>5. Adds(CHOOSE h : Adds(h))
  <2> HIDE DEF Adds
  <2> QED BY <1>2, <1>3
<1>6. Sums(CHOOSE h : Adds(h), f, S)
  BY <1>2, <1>5
<1>7. \A k \in S : f[k] \in Nat
  OBVIOUS
<1> HIDE DEF Adds, f
<1>8. (CHOOSE h : Adds(h))[S] = g[S]
  BY <1>3, <1>6, SumsUnique
<1>9. SumFunctionOnSet(f, S) \in Nat
  BY <1>7, SumType
<1> QED BY <1>3, <1>4, <1>8, <1>9

\* What the order needs to know of a row.
LEMMA RowIs ==
  ASSUME TypeOK, NEW u \in Competitors, NEW C
  PROVE  LET r == Row(u, C) IN
         /\ r.user = u /\ r.score \in Nat /\ r.last \in Nat
         /\ r.last # 0 => solves[r.last].user = u
<1> DEFINE mine == SolvesOf(u, C)
<1>1. /\ mine \subseteq 1 .. Len(solves) /\ IsFiniteSet(mine) /\ Len(solves) \in Nat
      /\ \A k \in mine : solves[k].points \in Nat /\ solves[k].user = u
  BY MineType
<1>2. Row(u, C) = [user |-> u, score |-> MapThenSumSet(Awarded, mine),
                   last |-> IF mine = {} THEN 0 ELSE Max(mine)]
  BY DEF Row
<1> HIDE DEF mine
<1>3. MapThenSumSet(Awarded, mine) \in Nat
  BY <1>1, ScoreType
<1>4. mine # {} => Max(mine) \in mine
  BY <1>1, MaxIs
<1>5. \A k \in mine : k \in Nat
  BY <1>1
<1> DEFINE last == IF mine = {} THEN 0 ELSE Max(mine)
<1>6. last \in Nat /\ (last # 0 => solves[last].user = u)
  BY <1>1, <1>4, <1>5
<1>7. /\ Row(u, C).user = u /\ Row(u, C).score = MapThenSumSet(Awarded, mine)
      /\ Row(u, C).last = last
  BY <1>2
<1> HIDE DEF last
<1> QED BY <1>3, <1>6, <1>7

\* The sort key tells the rows of a board apart.
LEMMA RowsOrdered ==
  ASSUME TypeOK, NEW C
  PROVE  Ordered(Rows(C)) /\ Scored(Rows(C))
<1> DEFINE R == Rows(C)
           f == [u \in Competitors |-> Row(u, C)]
<1>1. IsFiniteSet(Competitors)
  <2>1. Competitors \subseteq Users
    BY DEF Competitors
  <2> QED BY <2>1, BoardAssumption, FS_Subset
<1>2. IsFiniteSet(R)
  <2>1. f \in [Competitors -> R]
    BY DEF Rows
  <2>2. \A r \in R : \E u \in Competitors : f[u] = r
    BY DEF Rows
  <2>3. f \in Surjection(Competitors, R)
    <3> HIDE DEF f, R
    <3> QED BY <2>1, <2>2 DEF Surjection
  <2> HIDE DEF f, R
  <2> QED BY <1>1, <2>3, FS_Surjection
<1>3. \A r \in R : /\ r.user \in Users /\ r = Row(r.user, C) /\ r.score \in Nat /\ r.last \in Nat
                   /\ r.last # 0 => solves[r.last].user = r.user
  <2> TAKE r \in R
  <2>1. PICK u \in Competitors : r = Row(u, C)
    BY DEF Rows
  <2>2. u \in Users
    BY DEF Competitors
  <2> QED BY <2>1, <2>2, RowIs
<1>4. \A r \in R : NameRank[r.user] \in Nat
  BY <1>3, BoardAssumption
<1> HIDE DEF R, f
<1>5. \A r \in R : ~Ahead(r, r)
  BY <1>3, <1>4 DEF Ahead
<1>6. ASSUME NEW r \in R, NEW s \in R, NEW t \in R, Ahead(r, s), Ahead(s, t) PROVE Ahead(r, t)
  BY <1>3, <1>4, <1>6 DEF Ahead
<1>7. ASSUME NEW r \in R, NEW s \in R, ~Ahead(r, s), ~Ahead(s, r) PROVE r = s
  <2>1. r.score = s.score
    BY <1>3, <1>7 DEF Ahead
  <2>2. r.last = s.last
    BY <1>3, <1>7, <2>1 DEF Ahead
  <2>3. r.user = s.user
    <3>1. CASE r.last # 0
      BY <1>3, <2>2, <3>1
    <3>2. CASE r.last = 0
      <4>1. NameRank[r.user] = NameRank[s.user]
        BY <1>4, <1>7, <2>1, <2>2, <3>2 DEF Ahead
      <4> QED BY <1>3, <4>1, BoardAssumption
    <3> QED BY <3>1, <3>2
  <2> QED BY <1>3, <2>3
<1>8. Scored(R)
  BY <1>3 DEF Scored
<1> QED BY <1>2, <1>5, <1>6, <1>7, <1>8 DEF Ordered, R

LEMMA PartOrdered ==
  ASSUME NEW R, Ordered(R), Scored(R), NEW T \in SUBSET R
  PROVE  Ordered(T) /\ Scored(T)
<1>1. IsFiniteSet(T)
  BY FS_Subset DEF Ordered
<1> QED BY <1>1 DEF Ordered, Scored

\* A board of all who have scored ranks as the dashboard does, and so does
\* a board of everyone.
LEMMA RanksOnBoard ==
  ASSUME NEW R, Ordered(R), Scored(R), NEW T \in SUBSET R,
         \A r \in R : \A t \in T : r.score > t.score => r \in T
  PROVE  RanksOn(Sorted(T), R)
<1>1. Ordered(T) /\ Scored(T)
  BY PartOrdered
<1>2. ASSUME NEW p \in DOMAIN Sorted(T)
      PROVE  Ranked(Sorted(T))[p] = StatsRank(Sorted(T)[p], R)
  <2> DEFINE r == Sorted(T)[p]
  <2>1. r \in T
    BY <1>1, SortedIs
  <2>2. Ranked(Sorted(T))[p] = 1 + Cardinality(Better(T, r))
    BY <1>1, RankedIs
  <2>3. Better(T, r) = {s \in R : s.score > r.score}
    BY <2>1 DEF Better
  <2> QED BY <2>2, <2>3 DEF StatsRank
<1> QED BY <1>2 DEF RanksOn

LEMMA CutOff ==
  ASSUME NEW R, Ordered(R), Scored(R), NEW r \in R, NEW p \in DOMAIN Sorted(R),
         r.score > Sorted(R)[p].score
  PROVE  \E q \in DOMAIN Sorted(R) : Sorted(R)[q] = r
<1> DEFINE s == Sorted(R)[p]
<1>1. p \in 1 .. Places(R) /\ Places(R) \in Nat /\ s \in R /\ Pos(R, s) = p - 1
  BY SortedIs
<1>2. Ahead(r, s)
  BY <1>1, AheadScores
<1>3. Pos(R, r) < p - 1 /\ Pos(R, r) \in Nat
  BY <1>1, <1>2, PosAhead, PosRange
<1>4. Pos(R, r) < Places(R)
  BY <1>1, <1>3
<1> QED BY <1>4, SortedIs

LEMMA BoardsAgree == TypeOK => RanksAgree
<1> SUFFICES ASSUME TypeOK PROVE RanksAgree
  OBVIOUS
<1> DEFINE R == Rows(Challenges)
<1>1. Ordered(R) /\ Scored(R)
  BY RowsOrdered
<1>2. RanksOn(Overall, R)
  BY <1>1, RanksOnBoard DEF Overall
<1>3. ASSUME NEW c \in Challenges
      PROVE  RanksOn(Category(CategoryOf[c]), Rows(InCategory(CategoryOf[c])))
  <2> DEFINE k == CategoryOf[c]
             S == Rows(InCategory(k))
             T == {r \in S : r.score > 0}
  <2>1. Ordered(S) /\ Scored(S)
    BY RowsOrdered
  <2>2. T \in SUBSET S
    OBVIOUS
  <2>3. \A r \in S : \A t \in T : r.score > t.score => r \in T
    <3>1. \A r \in S : r.score \in Nat
      BY <2>1 DEF Scored
    <3> HIDE DEF S
    <3> QED BY <3>1
  <2>4. Category(k) = Sorted(T)
    BY DEF Category
  <2> HIDE DEF S, T
  <2>5. RanksOn(Sorted(T), S)
    BY <2>1, <2>2, <2>3, RanksOnBoard
  <2> QED BY <2>4, <2>5 DEF S
<1>4. \A r \in R, p \in DOMAIN Overall :
        r.score > Overall[p].score => \E q \in DOMAIN Overall : Overall[q] = r
  BY <1>1, CutOff DEF Overall
<1> QED BY <1>2, <1>3, <1>4 DEF RanksAgree

-----------------------------------------------------------------------------
(* Theorems.                                                               *)

\* The invariant that the others are read from is kept by every step.
THEOREM ScoringInvariant == Spec => []IInv
<1>1. IInv /\ [Next]_svars => IInv'
  <2>1. ASSUME IInv, Next
        PROVE  IInv'
    BY <2>1, TypeStep, PaidStep, LogStep, CompleteStep, LastFlagStep, EarnedStep,
       CountingStep DEF IInv
  <2> QED BY <2>1, Stutter
<1> QED BY InitInv, <1>1, PTL DEF Spec

\* The rows of the ledger and the state of the requests keep their types:
\* an award is for a flag of the challenge that was played.
THEOREM ScoringTypes == Spec => []TypeOK
<1>1. IInv => TypeOK
  BY DEF IInv
<1> QED BY <1>1, ScoringInvariant, PTL

\* No interleaving of submissions pays a user twice for a flag: the read
\* before the award may be stale, the constraint at its commit is not.
THEOREM ScoringPaidOnce == Spec => []PaidOnce
<1>1. IInv => PaidOnce
  BY DEF IInv
<1> QED BY <1>1, ScoringInvariant, PTL

\* The log has as many first correct submissions of a user as the ledger
\* has awards, whichever submissions the constraint undid.
THEOREM ScoringLog == Spec => []LogMatchesLedger
<1>1. IInv => LogMatchesLedger
  BY DEF IInv
<1> QED BY <1>1, ScoringInvariant, PTL

\* To check the limit and count the guess in two transactions lets through
\* no more guesses than there are other handlers.
THEOREM ScoringWindow == Spec => []WindowBounded
<1>1. IInv => WindowBounded
  <2> SUFFICES ASSUME IInv, NEW u \in Users, NEW c \in Challenges
               PROVE  hits[u][c] < Limit + Cardinality(Handlers)
    BY DEF WindowBounded
  <2>1. /\ hits[u][c] \in Nat /\ Limit \in Nat /\ Cardinality(Handlers) \in Nat
        /\ Cardinality(Pending(u, c)) \in Nat
    BY PendingFinite, ScoringAssumption DEF IInv, TypeOK
  <2>2. hits[u][c] + Cardinality(Pending(u, c)) < Limit + Cardinality(Handlers)
    BY DEF IInv, Counting
  <2> QED BY <2>1, <2>2
<1> QED BY <1>1, ScoringInvariant, PTL

\* To count awards is enough: as no flag is paid twice, as many awards as
\* flags are awards for all of them, and a complete attempt has earned each.
THEOREM ScoringComplete == Spec => []CompleteIsEarned
<1>1. IInv => CompleteIsEarned
  BY DEF IInv
<1> QED BY <1>1, ScoringInvariant, PTL

\* Of two requests with the last two flags, in whatever order they read and
\* commit, one counts both and closes its attempt, if it is not killed.
THEOREM ScoringLastFlag == Spec => []LastFlagCloses
<1>1. IInv => LastFlagCloses
  BY DEF IInv
<1> QED BY <1>1, ScoringInvariant, PTL

\* _ranked(), which numbers a board from the scores of neighbours, and
\* user_stats(), which counts whoever scored more, give the same rank.
THEOREM BoardsRankAlike == Spec => []RanksAgree
BY ScoringTypes, BoardsAgree, PTL
=============================================================================
