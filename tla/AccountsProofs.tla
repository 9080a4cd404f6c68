--------------------------- MODULE AccountsProofs ---------------------------
(***************************************************************************)
(* Proofs about Accounts, for every number of accounts and browsers, every *)
(* limit and every scene, in three parts.                                  *)
(*                                                                         *)
(* Sessions: the types, and that whoever is signed in has a password. The  *)
(* invariant IInv adds that a request about to sign somebody in is for an  *)
(* account with a password. That is because a password, once set, is never *)
(* blank again: a helper that loaded the account before it had credentials *)
(* inserts a row of its own, and the INSERT fails.                         *)
(*                                                                         *)
(* Staff: what no step may do to the account of somebody else. Each        *)
(* property holds of a request as long as the accounts it looked at have   *)
(* not changed under it, and the invariant JInv says so: what the request  *)
(* found when it looked is still the case, or the account is in            *)
(* proc[b].under.                                                          *)
(*                                                                         *)
(* Guesses: how many wrong passwords an account takes. The count it keeps  *)
(* goes back when a failure writes one more than an older count it had     *)
(* loaded. The invariant GInv says how often: for each value l of the      *)
(* count, it looks at the browsers whose request holds no count below l.   *)
(* A failure that writes l adds its own browser to them, and the failures  *)
(* after it may start again from there, whatever was reached above l being *)
(* lost. Adding a browser at l so pays for itself and for all that was     *)
(* counted above l with one browser fewer: the numbers that do so are the  *)
(* binomials, Ways. An account that is locked takes one failure more from  *)
(* each request that had passed the lockout check, and those are Armed.    *)
(***************************************************************************)
EXTENDS Accounts, FiniteSums, SequenceTheorems, TLAPS

(***************************************************************************)
(* Sessions.                                                               *)
(***************************************************************************)

Kept(us, u) == us[u].pw \in Secrets

\* The helpers still to run sign in who has a password.
Enters(us, s) == \A i \in 1 .. Len(s) : s[i].do = "enter" => Kept(us, s[i].on)

\* Only a helper that writes credentials has loaded a row.
Loaded(r) == r.seen # None => Head(r.todo).do \in Writes

IInv == /\ TypeOK /\ SessionsHavePassword
        /\ \A b \in Browsers : Enters(user, proc[b].todo) /\ Loaded(proc[b])

-----------------------------------------------------------------------------
(* The helpers.                                                            *)

LEMMA RolesAre == Roles = {"student", "moderator", "admin"}
BY DEF Roles, Ranks

LEMMA SceneTypes == scene \in Scenes => scene.user \in [Users -> Row]
BY SceneAssumption

LEMMA CredentialsType ==
  ASSUME NEW row \in Row
  PROVE  Credentials(row) \in Row
BY DEF Credentials, Row

LEMMA FailedType ==
  ASSUME NEW row \in Row
  PROVE  Failed(row) \in Row
<1> DEFINE c == Credentials(row)
<1>1. c \in Row /\ c.fails \in 0 .. Limit /\ Limit \in Nat
  BY CredentialsType, BoundAssumption DEF Row
<1>2. (IF c.fails < Limit THEN c.fails + 1 ELSE c.fails) \in 0 .. Limit
  BY <1>1
<1>3. (IF row.fails + 1 >= Limit THEN "tries" ELSE c.lock) \in Live \cup {"none", "over"}
  BY <1>1 DEF Row, Live
<1> HIDE DEF c
<1>4. [c EXCEPT !.fails = IF @ < Limit THEN @ + 1 ELSE @,
                !.lock  = IF row.fails + 1 >= Limit THEN "tries" ELSE @] \in Row
  BY <1>1, <1>2, <1>3 DEF Row
<1> QED BY <1>4 DEF Failed, c

LEMMA WantedType ==
  ASSUME NEW row \in Row, NEW do \in Writes
  PROVE  Wanted(do, row) \in Row
<1>1. CASE do = "setown"
  BY <1>1 DEF Wanted, SetPassword, Row, Secrets
<1>2. CASE do = "settemp"
  BY <1>2 DEF Wanted, SetPassword, Temporary, Row, Secrets
<1>3. CASE do = "clear"
  <2>1. 0 \in 0 .. Limit
    BY BoundAssumption
  <2>2. [row EXCEPT !.fails = 0, !.lock = "none"] \in Row
    BY <2>1 DEF Row
  <2>3. Wanted(do, row) = Cleared(row)
    BY <1>3 DEF Wanted
  <2> QED BY <2>2, <2>3 DEF Cleared
<1>4. CASE do = "fail"
  BY <1>4, FailedType DEF Wanted
<1>5. CASE do = "lock"
  BY <1>5, CredentialsType DEF Wanted, Locked, Row, Live
<1> QED BY <1>1, <1>2, <1>3, <1>4, <1>5 DEF Writes

LEMMA SetType ==
  ASSUME NEW row \in Row, NEW do \in Settings
  PROVE  Set(do, row) \in Row /\ Set(do, row).pw = row.pw
<1>1. CASE do \in {"create", "approve", "reject"}
  <2>1. \A a \in {"none", "pending", "approved", "rejected"} :
          Decided(row, a) \in Row /\ Decided(row, a).pw = row.pw
    BY DEF Decided, Row
  <2>2. CASE do = "create"
    BY <2>1, <2>2, RolesAre DEF Set
  <2>3. CASE do = "approve"
    BY <2>1, <2>3, RolesAre DEF Set
  <2>4. CASE do = "reject"
    BY <2>1, <2>4, RolesAre DEF Set
  <2> QED BY <1>1, <2>2, <2>3, <2>4
<1>2. CASE do \in Roles
  <2>1. Ranked(row, do) \in Row /\ Ranked(row, do).pw = row.pw
    BY <1>2 DEF Ranked, Row
  <2>2. Set(do, row) = Ranked(row, do)
    BY <1>2, RolesAre DEF Set
  <2> QED BY <2>1, <2>2
<1> QED BY <1>1, <1>2 DEF Settings

LEMMA MergedType ==
  ASSUME NEW do \in Writes, NEW now \in Row, NEW seen \in Row
  PROVE  Merged(do, now, seen) \in Row
<1> DEFINE want == Wanted(do, seen)
           New(f) == IF f \in Renewed(do, seen) \/ want[f] # seen[f] THEN want[f] ELSE now[f]
<1>1. want \in Row
  BY WantedType
<1> HIDE DEF want
<1>2. New("pw") \in Secrets \cup {"blank", None} /\ New("must") \in BOOLEAN
  BY <1>1 DEF Row
<1>3. New("fails") \in 0 .. Limit /\ New("lock") \in Live \cup {"none", "over"}
  BY <1>1 DEF Row
<1> HIDE DEF New
<1>4. [now EXCEPT !.pw = New("pw"), !.must = New("must"),
                  !.fails = New("fails"), !.lock = New("lock")] \in Row
  BY <1>2, <1>3 DEF Row
<1> QED BY <1>4 DEF Merged, New, want

\* Whatever a helper that commits had loaded, a password stays one.
LEMMA MergedKeeps ==
  ASSUME NEW do \in Writes, NEW now \in Row, NEW seen \in Row, now.pw \in Secrets,
         ~Collides(do, now, seen)
  PROVE  Merged(do, now, seen).pw \in Secrets
<1> DEFINE want == Wanted(do, seen)
           pw == IF "pw" \in Renewed(do, seen) \/ want.pw # seen.pw THEN want.pw ELSE now.pw
<1>1. Merged(do, now, seen).pw = pw
  BY DEF Merged, Row
<1>2. CASE do \in {"setown", "settemp"}
  <2>1. want.pw \in Secrets
    BY <1>2 DEF Wanted, SetPassword, Temporary, Row, Secrets
  <2> QED BY <2>1, <1>1
<1>3. CASE do \in {"clear", "fail", "lock"}
  <2>1. "pw" \notin Renewed(do, seen)
    BY <1>3 DEF Renewed
  <2>2. want.pw # seen.pw => seen.pw = None /\ want.pw = "blank"
    BY <1>3 DEF Wanted, Cleared, Failed, Locked, Credentials, Row
  <2>3. "blank" # None /\ now.pw # None
    BY AccountAssumption DEF Secrets
  <2>4. want.pw = seen.pw
    BY <2>2, <2>3 DEF Collides
  <2> QED BY <2>1, <2>4, <1>1
<1> QED BY <1>2, <1>3 DEF Writes

-----------------------------------------------------------------------------
(* Requests.                                                               *)

LEMMA IdleType == Idle \in Request /\ Idle.todo = <<>> /\ Loaded(Idle)
<1>1. <<>> \in Seq(Task)
  OBVIOUS
<1> QED BY <1>1, RolesAre DEF Idle, Request, Loaded

\* No new password, no new session: the other requests stand as they were.
LEMMA OvertakeType ==
  ASSUME TypeOK, NEW x, NEW u \in Users
  PROVE  /\ Overtake(x, u) \in [Browsers -> Request]
         /\ \A c \in Browsers : /\ Overtake(x, u)[c].todo = proc[c].todo
                                /\ Overtake(x, u)[c].seen = proc[c].seen
                                /\ proc[c] = Idle => Overtake(x, u)[c] = Idle
<1>1. \A c \in Browsers : proc[c] \in Request
  BY DEF TypeOK
<1>2. \A c \in Browsers : [proc[c] EXCEPT !.under = @ \cup {u}] \in Request
  BY <1>1 DEF Request
<1>3. \A c \in Browsers : /\ [proc[c] EXCEPT !.under = @ \cup {u}].todo = proc[c].todo
                          /\ [proc[c] EXCEPT !.under = @ \cup {u}].seen = proc[c].seen
  BY <1>1 DEF Request
<1> QED BY <1>1, <1>2, <1>3 DEF Overtake

\* What the request of one browser does to the others.
Others(b) ==
  /\ proc' \in [Browsers -> Request]
  /\ \A c \in Browsers : c # b => /\ proc'[c].todo = proc[c].todo /\ proc'[c].seen = proc[c].seen
                                  /\ proc[c] = Idle => proc'[c] = Idle

LEMMA Alone ==
  ASSUME TypeOK, NEW b \in Browsers, NEW r \in Request, proc' = [proc EXCEPT ![b] = r]
  PROVE  Others(b) /\ proc'[b] = r
BY DEF TypeOK, Others

LEMMA Overtaking ==
  ASSUME TypeOK, NEW b \in Browsers, NEW u \in Users, NEW r \in Request, NEW same \in BOOLEAN,
         proc' = [(IF same THEN proc ELSE Overtake(b, u)) EXCEPT ![b] = r]
  PROVE  Others(b) /\ proc'[b] = r
<1> DEFINE was == IF same THEN proc ELSE Overtake(b, u)
<1>1. /\ was \in [Browsers -> Request]
      /\ \A c \in Browsers : was[c].todo = proc[c].todo /\ was[c].seen = proc[c].seen /\ (proc[c] = Idle => was[c] = Idle)
  BY OvertakeType DEF TypeOK
<1>2. proc' = [was EXCEPT ![b] = r]
  OBVIOUS
<1> HIDE DEF was
<1>3. proc' \in [Browsers -> Request] /\ proc'[b] = r
  BY <1>1, <1>2
<1>4. \A c \in Browsers : c # b => proc'[c] = was[c]
  BY <1>1, <1>2
<1> QED BY <1>1, <1>3, <1>4 DEF Others

\* A step of b, after which every password there was is still one.
LEMMA StepInv ==
  ASSUME IInv, NEW b \in Browsers, Others(b),
         proc'[b] = Idle \/ proc'[b].todo # <<>>,
         Enters(user', proc'[b].todo), Loaded(proc'[b]),
         user' \in [Users -> Row], wrong' \in [Users -> Nat], scene' = scene,
         cookie' \in [Browsers -> Users \cup {None}],
         \A u \in Users : Kept(user, u) => Kept(user', u),
         \A c \in Browsers : cookie'[c] # None => cookie'[c] = cookie[c] \/ Kept(user, cookie'[c])
  PROVE  IInv'
<1>1. TypeOK'
  BY DEF IInv, TypeOK, Others
<1>2. SessionsHavePassword'
  <2> SUFFICES ASSUME NEW c \in Browsers, cookie'[c] # None
               PROVE  user'[cookie'[c]].pw \in Secrets
    BY DEF SessionsHavePassword
  <2>1. cookie'[c] \in Users
    OBVIOUS
  <2>2. Kept(user, cookie'[c])
    BY DEF IInv, SessionsHavePassword, Kept
  <2> QED BY <2>1, <2>2 DEF Kept
<1>3. \A c \in Browsers : Enters(user', proc'[c].todo)
  <2> TAKE c \in Browsers
  <2>1. CASE c = b
    BY <2>1
  <2>2. CASE c # b
    <3> DEFINE s == proc[c].todo
    <3>1. proc'[c].todo = s
      BY <2>2 DEF Others
    <3>2. s \in Seq(Task) /\ Enters(user, s)
      BY DEF IInv, TypeOK, Request
    <3> HIDE DEF s
    <3>3. \A i \in 1 .. Len(s) : s[i] \in Task
      BY <3>2
    <3>4. \A i \in 1 .. Len(s) : s[i].on \in Users
      BY <3>3 DEF Task
    <3>5. Enters(user', s)
      BY <3>2, <3>4 DEF Enters
    <3> QED BY <3>1, <3>5
  <2> QED BY <2>1, <2>2
<1>4. \A c \in Browsers : Loaded(proc'[c])
  BY DEF IInv, Others, Loaded
<1> QED BY <1>1, <1>2, <1>3, <1>4 DEF IInv

-----------------------------------------------------------------------------
(* Lists of helpers.                                                       *)

LEMMA LapsedType ==
  ASSUME NEW u \in Users
  PROVE  /\ Lapsed(u) \in Seq(Task) /\ Enters(user', Lapsed(u))
         /\ user[u].lock = "over" => Lapsed(u) # <<>>
<1> DEFINE t == [do |-> "clear", on |-> u]
<1>1. t \in Task /\ t.do # "enter"
  BY DEF Task, Writes
<1>2. <<t>> \in Seq(Task) /\ Len(<<t>>) = 1 /\ <<t>>[1] = t /\ <<t>> # <<>>
  BY <1>1
<1>3. <<>> \in Seq(Task) /\ Len(<<>>) = 0
  OBVIOUS
<1> HIDE DEF t
<1>4. Enters(user', <<t>>) /\ Enters(user', <<>>)
  BY <1>1, <1>2, <1>3 DEF Enters
<1> QED BY <1>2, <1>3, <1>4 DEF Lapsed, t

\* One list after the other.
LEMMA EntersConcat ==
  ASSUME NEW s \in Seq(Task), NEW t \in Seq(Task), Enters(user', s), Enters(user', t)
  PROVE  /\ s \o t \in Seq(Task) /\ Enters(user', s \o t)
         /\ t # <<>> => s \o t # <<>>
<1>1. s \o t \in Seq(Task) /\ Len(s \o t) = Len(s) + Len(t)
  BY ConcatProperties
<1>2. \A i \in 1 .. Len(s) + Len(t) :
        (s \o t)[i] = IF i <= Len(s) THEN s[i] ELSE t[i - Len(s)]
  BY ConcatProperties
<1>3. Len(s) \in Nat /\ Len(t) \in Nat
  BY LenProperties
<1>4. ASSUME NEW i \in 1 .. Len(s \o t), (s \o t)[i].do = "enter"
      PROVE  Kept(user', (s \o t)[i].on)
  <2>1. CASE i <= Len(s)
    BY <1>1, <1>2, <1>3, <1>4, <2>1 DEF Enters
  <2>2. CASE ~(i <= Len(s))
    <3>1. i - Len(s) \in 1 .. Len(t) /\ (s \o t)[i] = t[i - Len(s)]
      BY <1>1, <1>2, <1>3, <2>2
    <3> QED BY <3>1, <1>4 DEF Enters
  <2> QED BY <2>1, <2>2
<1>5. t # <<>> => s \o t # <<>>
  BY <1>1, <1>3, EmptySeq
<1> QED BY <1>1, <1>4, <1>5 DEF Enters

\* A list of one helper, or of two, that signs nobody in.
LEMMA ShortList ==
  ASSUME NEW u \in Users, NEW d \in (Settings \cup Writes \cup {"check", "verify", "judge"}),
         NEW e \in (Settings \cup Writes \cup {"check", "verify", "judge"})
  PROVE  /\ <<[do |-> d, on |-> u]>> \in Seq(Task) /\ <<[do |-> d, on |-> u]>> # <<>>
         /\ <<[do |-> d, on |-> u], [do |-> e, on |-> u]>> \in Seq(Task)
         /\ <<[do |-> d, on |-> u], [do |-> e, on |-> u]>> # <<>>
         /\ Enters(user', <<[do |-> d, on |-> u]>>)
         /\ Enters(user', <<[do |-> d, on |-> u], [do |-> e, on |-> u]>>)
<1> DEFINE x == [do |-> d, on |-> u]
           y == [do |-> e, on |-> u]
<1>1. x \in Task /\ y \in Task
  BY DEF Task
<1>2. x.do # "enter" /\ y.do # "enter"
  BY RolesAre DEF Settings, Writes
<1> HIDE DEF x, y
<1>3. <<x>> \in Seq(Task) /\ Len(<<x>>) = 1 /\ <<x>>[1] = x /\ <<x>> # <<>>
  BY <1>1
<1>4. <<x, y>> \in Seq(Task) /\ Len(<<x, y>>) = 2 /\ <<x, y>>[1] = x /\ <<x, y>>[2] = y /\ <<x, y>> # <<>>
  BY <1>1
<1>5. Enters(user', <<x>>)
  BY <1>2, <1>3 DEF Enters
<1>6. Enters(user', <<x, y>>)
  BY <1>2, <1>4 DEF Enters
<1> QED BY <1>3, <1>4, <1>5, <1>6 DEF x, y

\* The rest of the list of a request under way.
LEMMA RestOf ==
  ASSUME TypeOK, NEW b \in Browsers, proc[b] # Idle, Enters(user', proc[b].todo)
  PROVE  /\ proc[b] \in Request /\ Now(b) \in Task /\ Now(b).on \in Users
         /\ Then(b) \in Seq(Task) /\ Enters(user', Then(b))
<1> DEFINE s == proc[b].todo
<1>1. proc[b] \in Request /\ s \in Seq(Task) /\ s # <<>>
  BY DEF TypeOK, Request
<1>2. Now(b) = Head(s) /\ Then(b) = Tail(s)
  BY DEF Now, Then
<1>3. Enters(user', s)
  OBVIOUS
<1> HIDE DEF s
<1>4. Head(s) \in Task /\ Tail(s) \in Seq(Task) /\ Len(Tail(s)) = Len(s) - 1
      /\ Len(s) \in Nat /\ \A i \in 1 .. Len(Tail(s)) : Tail(s)[i] = s[i + 1]
  BY <1>1, HeadTailProperties
<1>5. ASSUME NEW i \in 1 .. Len(Tail(s)), Tail(s)[i].do = "enter"
      PROVE  Kept(user', Tail(s)[i].on)
  <2>1. i + 1 \in 1 .. Len(s) /\ Tail(s)[i] = s[i + 1]
    BY <1>4
  <2> QED BY <2>1, <1>3, <1>5 DEF Enters
<1>6. Enters(user', Tail(s))
  BY <1>5 DEF Enters
<1>7. Head(s).on \in Users
  BY <1>4 DEF Task
<1> QED BY <1>1, <1>2, <1>4, <1>6, <1>7

\* The request of b carries on with a list of helpers, or ends.
LEMMA ContinueType ==
  ASSUME NEW b \in Browsers, proc[b] \in Request, NEW rest \in Seq(Task), Enters(user', rest)
  PROVE  /\ Continue(b, rest) \in Request
         /\ Continue(b, rest) = Idle \/ Continue(b, rest).todo # <<>>
      /\ Loaded(Continue(b, rest))
         /\ Enters(user', Continue(b, rest).todo) /\ Loaded(Continue(b, rest))
<1>1. CASE rest = <<>>
  BY <1>1, IdleType DEF Continue
<1>2. CASE rest # <<>>
  <2>1. [proc[b] EXCEPT !.todo = rest, !.seen = None] \in Request
    BY DEF Request
  <2>2. /\ [proc[b] EXCEPT !.todo = rest, !.seen = None].todo = rest
        /\ [proc[b] EXCEPT !.todo = rest, !.seen = None].seen = None
    BY DEF Request
  <2> QED BY <1>2, <2>1, <2>2 DEF Continue, Loaded
<1> QED BY <1>1, <1>2

-----------------------------------------------------------------------------
(* Steps.                                                                  *)

\* Nothing but requests changes.
LEMMA OnlyRequests ==
  ASSUME IInv, NEW b \in Browsers, NEW r \in Request, proc' = [proc EXCEPT ![b] = r],
         r = Idle \/ r.todo # <<>>, Enters(user', r.todo), Loaded(r),
         UNCHANGED <<user, cookie, wrong, scene>>
  PROVE  IInv'
<1>1. Others(b) /\ proc'[b] = r
  BY Alone DEF IInv
<1>2. /\ user' \in [Users -> Row] /\ wrong' \in [Users -> Nat]
      /\ cookie' \in [Browsers -> Users \cup {None}]
  BY DEF IInv, TypeOK
<1>3. \A u \in Users : Kept(user, u) => Kept(user', u)
  OBVIOUS
<1>4. \A c \in Browsers : cookie'[c] # None => cookie'[c] = cookie[c] \/ Kept(user, cookie'[c])
  OBVIOUS
<1> QED BY <1>1, <1>2, <1>3, <1>4, StepInv

LEMMA BeginInv ==
  ASSUME IInv, NEW b \in Browsers, NEW page \in Pages \cup {None}, NEW u \in Users,
         NEW todo \in Seq(Task), todo # <<>>, Enters(user', todo),
         page # None => cookie[b] # None, Begin(b, page, u, todo)
  PROVE  IInv'
<1> DEFINE rank == IF page = None THEN "student" ELSE user[cookie[b]].role
           r == [Idle EXCEPT !.page = page, !.on = u, !.todo = todo, !.rank = rank]
<1>1. rank \in Roles
  <2>1. CASE page = None
    BY <2>1, RolesAre
  <2>2. CASE page # None
    BY <2>2 DEF IInv, TypeOK, Row
  <2> QED BY <2>1, <2>2
<1>2. proc' = [proc EXCEPT ![b] = r] /\ UNCHANGED <<user, cookie, wrong, scene>>
  BY DEF Begin
<1> HIDE DEF rank
<1>3. r \in Request
  BY <1>1 DEF Idle, Request
<1>4. r.todo = todo /\ Loaded(r)
  BY DEF Idle, Loaded
<1> HIDE DEF r
<1> QED BY <1>2, <1>3, <1>4, OnlyRequests

LEMMA RegisterInv ==
  ASSUME IInv, NEW b \in Browsers, NEW u \in Users, Register(b, u)
  PROVE  IInv'
<1> DEFINE todo == <<[do |-> "create", on |-> u], [do |-> "setown", on |-> u]>>
<1>1. todo \in Seq(Task) /\ todo # <<>> /\ Enters(user', todo)
  BY ShortList DEF Settings, Writes
<1>2. Begin(b, None, u, todo)
  BY DEF Register
<1> HIDE DEF todo
<1> QED BY <1>1, <1>2, BeginInv

LEMMA SignInInv ==
  ASSUME IInv, NEW b \in Browsers, NEW u \in Users, SignIn(b, u)
  PROVE  IInv'
<1> DEFINE check == <<[do |-> "check", on |-> u]>>
           todo == Lapsed(u) \o check
<1>1. check \in Seq(Task) /\ check # <<>> /\ Enters(user', check)
  BY ShortList
<1>2. Begin(b, None, u, todo)
  BY DEF SignIn
<1> HIDE DEF check
<1>3. todo \in Seq(Task) /\ todo # <<>> /\ Enters(user', todo)
  BY <1>1, LapsedType, EntersConcat
<1> HIDE DEF todo
<1> QED BY <1>2, <1>3, BeginInv

LEMMA VisitInv ==
  ASSUME IInv, NEW b \in Browsers, Visit(b)
  PROVE  IInv'
<1> DEFINE u == cookie[b]
<1>1. u \in Users
  BY DEF IInv, TypeOK, Visit
<1>2. user[u].lock = "over" /\ Begin(b, None, u, Lapsed(u))
  BY DEF Visit
<1> HIDE DEF u
<1>3. Lapsed(u) \in Seq(Task) /\ Enters(user', Lapsed(u)) /\ Lapsed(u) # <<>>
  BY <1>1, <1>2, LapsedType
<1> QED BY <1>1, <1>2, <1>3, BeginInv

LEMMA ChangePasswordInv ==
  ASSUME IInv, NEW b \in Browsers, ChangePassword(b)
  PROVE  IInv'
<1> DEFINE u == cookie[b]
           acts == <<[do |-> "verify", on |-> u], [do |-> "setown", on |-> u]>>
           todo == Lapsed(u) \o acts
<1>1. u \in Users
  BY DEF IInv, TypeOK, ChangePassword
<1>2. Begin(b, None, u, todo)
  BY DEF ChangePassword
<1> HIDE DEF u
<1>3. acts \in Seq(Task) /\ acts # <<>> /\ Enters(user', acts)
  BY <1>1, ShortList DEF Writes
<1> HIDE DEF acts
<1>4. todo \in Seq(Task) /\ todo # <<>> /\ Enters(user', todo)
  BY <1>1, <1>3, LapsedType, EntersConcat
<1> HIDE DEF todo
<1> QED BY <1>1, <1>2, <1>4, BeginInv

\* The helpers of a page, as tasks.
LEMMA ConsoleType ==
  ASSUME NEW page \in Pages \ {"shell"}, NEW t \in Users
  PROVE  LET acts == Console(page)
             list == [i \in 1 .. Len(acts) |-> [do |-> acts[i], on |-> t]]
         IN  list \in Seq(Task) /\ Enters(user', list) /\ list # <<>>
<1> DEFINE acts == Console(page)
           list == [i \in 1 .. Len(acts) |-> [do |-> acts[i], on |-> t]]
<1>1. acts \in Seq(Settings \cup Writes) /\ Len(acts) \in Nat /\ Len(acts) # 0
  <2>1. CASE page = "unlock"
    BY <2>1 DEF Console, Writes
  <2>2. CASE page = "reset"
    BY <2>2 DEF Console, Writes
  <2>3. CASE page \notin {"unlock", "reset"}
    <3>1. page \in Settings \cup Writes
      BY <2>3 DEF Pages, Settings, Writes
    <3>2. acts = <<page>>
      BY <2>3 DEF Console
    <3> QED BY <3>1, <3>2
  <2> QED BY <2>1, <2>2, <2>3
<1> HIDE DEF acts
<1>2. \A i \in 1 .. Len(acts) : acts[i] \in Settings \cup Writes
  BY <1>1
<1>3. \A i \in 1 .. Len(acts) : list[i] \in Task /\ list[i].do # "enter"
  BY <1>2, RolesAre DEF Task, Settings, Writes
<1>4. list \in [1 .. Len(acts) -> Task]
  BY <1>3
<1> HIDE DEF list
<1>5. list \in Seq(Task) /\ Len(list) = Len(acts)
  BY <1>1, <1>4, IsASeq, LenProperties
<1>6. Enters(user', list)
  BY <1>3, <1>5 DEF Enters
<1>7. list # <<>>
  BY <1>1, <1>5
<1> QED BY <1>5, <1>6, <1>7 DEF acts, list

LEMMA StaffInv ==
  ASSUME IInv, NEW b \in Browsers, NEW page \in Pages \ {"shell"}, NEW t \in Users,
         Staff(b, page, t)
  PROVE  IInv'
<1> DEFINE u == cookie[b]
           judge == <<[do |-> "judge", on |-> t]>>
           acts == Console(page)
           list == [i \in 1 .. Len(acts) |-> [do |-> acts[i], on |-> t]]
           todo == Lapsed(u) \o judge \o list
<1>1. u \in Users /\ u # None
  BY DEF IInv, TypeOK, Staff
<1>2. Begin(b, page, t, todo)
  BY DEF Staff
<1> HIDE DEF u
<1>3. judge \in Seq(Task) /\ Enters(user', judge)
  BY ShortList
<1>4. list \in Seq(Task) /\ Enters(user', list) /\ list # <<>>
  BY ConsoleType
<1> HIDE DEF judge, list
<1>5. Lapsed(u) \o judge \in Seq(Task) /\ Enters(user', Lapsed(u) \o judge)
  BY <1>1, <1>3, LapsedType, EntersConcat
<1>6. todo \in Seq(Task) /\ todo # <<>> /\ Enters(user', todo)
  BY <1>4, <1>5, EntersConcat
<1> HIDE DEF todo
<1> QED BY <1>1, <1>2, <1>6, BeginInv DEF u

LEMMA SignOutInv ==
  ASSUME IInv, NEW b \in Browsers, SignOut(b)
  PROVE  IInv'
<1>1. UNCHANGED <<user, proc, wrong, scene>> /\ cookie' = [cookie EXCEPT ![b] = None]
  BY DEF SignOut
<1>2. TypeOK'
  BY <1>1 DEF IInv, TypeOK
<1>3. SessionsHavePassword'
  BY <1>1 DEF IInv, TypeOK, SessionsHavePassword
<1>4. \A c \in Browsers : Enters(user', proc'[c].todo) /\ Loaded(proc'[c])
  BY <1>1 DEF IInv
<1> QED BY <1>2, <1>3, <1>4 DEF IInv

LEMMA CheckInv ==
  ASSUME IInv, NEW b \in Browsers, Check(b)
  PROVE  IInv'
<1> DEFINE u == Now(b).on
<1>1. /\ proc[b] # Idle /\ Now(b).do \in {"check", "verify"}
      /\ UNCHANGED <<user, cookie, wrong, scene>>
  BY DEF Check
<1>2. Enters(user', proc[b].todo)
  BY <1>1 DEF IInv
<1>3. proc[b] \in Request /\ u \in Users /\ Then(b) \in Seq(Task) /\ Enters(user', Then(b))
  BY <1>1, <1>2, RestOf DEF IInv
<1>4. PICK right \in MayMatch(u) : proc' = [proc EXCEPT ![b] = Continue(b,
         CASE Now(b).do = "verify" -> IF right THEN Then(b) ELSE <<>>
           [] Now(b).do = "check"  ->
                IF right THEN <<[do |-> "clear", on |-> u], [do |-> "enter", on |-> u]>>
                         ELSE <<[do |-> "fail", on |-> u]>>)]
  BY DEF Check
<1>5. right => Kept(user', u)
  BY <1>1 DEF MayMatch, Kept
<1> DEFINE rest ==
         CASE Now(b).do = "verify" -> IF right THEN Then(b) ELSE <<>>
           [] Now(b).do = "check"  ->
                IF right THEN <<[do |-> "clear", on |-> u], [do |-> "enter", on |-> u]>>
                         ELSE <<[do |-> "fail", on |-> u]>>
<1> HIDE DEF u
<1>6. rest \in Seq(Task) /\ Enters(user', rest)
  <2>1. CASE Now(b).do = "verify" /\ right
    <3>1. rest = Then(b)
      BY <2>1
    <3> QED BY <3>1, <1>3
  <2>2. CASE Now(b).do = "verify" /\ ~right
    <3>1. rest = <<>>
      BY <2>2
    <3>2. <<>> \in Seq(Task) /\ Enters(user', <<>>)
      BY DEF Enters
    <3> QED BY <3>1, <3>2
  <2>3. CASE Now(b).do = "check" /\ right
    <3> DEFINE x == [do |-> "clear", on |-> u]
               y == [do |-> "enter", on |-> u]
    <3>1. x \in Task /\ y \in Task /\ x.do # "enter" /\ y.on = u
      BY <1>3 DEF Task, Writes
    <3>2. rest = <<x, y>>
      BY <2>3
    <3> HIDE DEF x, y
    <3>3. <<x, y>> \in Seq(Task) /\ Len(<<x, y>>) = 2 /\ <<x, y>>[1] = x /\ <<x, y>>[2] = y
      BY <3>1
    <3>4. Enters(user', <<x, y>>)
      BY <3>1, <3>3, <1>5, <2>3 DEF Enters
    <3> QED BY <3>2, <3>3, <3>4
  <2>4. CASE Now(b).do = "check" /\ ~right
    <3>1. rest = <<[do |-> "fail", on |-> u]>>
      BY <2>4
    <3> QED BY <3>1, <1>3, ShortList DEF Writes
  <2> QED BY <1>1, <2>1, <2>2, <2>3, <2>4
<1>7. proc' = [proc EXCEPT ![b] = Continue(b, rest)]
  BY <1>4 DEF u
<1> HIDE DEF rest
<1> DEFINE r == Continue(b, rest)
<1>8. r \in Request /\ Enters(user', r.todo) /\ Loaded(r) /\ (r = Idle \/ r.todo # <<>>)
  BY <1>3, <1>6, ContinueType
<1>9. proc' = [proc EXCEPT ![b] = r]
  BY <1>7
<1> HIDE DEF r
<1> QED BY <1>1, <1>8, <1>9, OnlyRequests

LEMMA EnterInv ==
  ASSUME IInv, NEW b \in Browsers, Enter(b)
  PROVE  IInv'
<1> DEFINE u == Now(b).on
           r == Continue(b, Then(b))
<1>1. /\ proc[b] # Idle /\ Now(b).do = "enter" /\ UNCHANGED <<user, wrong, scene>>
      /\ cookie' = [cookie EXCEPT ![b] = u] /\ proc' = [proc EXCEPT ![b] = r]
  BY DEF Enter
<1>2. Enters(user', proc[b].todo)
  BY <1>1 DEF IInv
<1>3. proc[b] \in Request /\ u \in Users /\ Then(b) \in Seq(Task) /\ Enters(user', Then(b))
  BY <1>1, <1>2, RestOf DEF IInv
<1>4. Kept(user, u)
  <2> DEFINE s == proc[b].todo
  <2>1. s \in Seq(Task) /\ s # <<>> /\ Enters(user, s)
    BY <1>1, <1>2 DEF IInv, TypeOK, Request
  <2>2. Now(b) = Head(s)
    BY DEF Now
  <2> HIDE DEF s
  <2>3. 1 \in 1 .. Len(s) /\ Now(b) = s[1]
    BY <2>1, <2>2, HeadTailProperties
  <2> QED BY <2>1, <2>3, <1>1 DEF Enters
<1>5. r \in Request /\ Enters(user', r.todo) /\ Loaded(r) /\ (r = Idle \/ r.todo # <<>>)
  BY <1>3, ContinueType
<1> HIDE DEF r, u
<1>6. Others(b) /\ proc'[b] = r
  BY <1>1, <1>5, Alone DEF IInv
<1>7. user' \in [Users -> Row] /\ wrong' \in [Users -> Nat] /\ scene' = scene
  BY <1>1 DEF IInv, TypeOK
<1>8. cookie' \in [Browsers -> Users \cup {None}]
  BY <1>1, <1>3 DEF IInv, TypeOK
<1>9. \A c \in Browsers : cookie'[c] # None => cookie'[c] = cookie[c] \/ Kept(user, cookie'[c])
  BY <1>1, <1>4 DEF IInv, TypeOK
<1>10. \A v \in Users : Kept(user, v) => Kept(user', v)
  BY <1>1
<1> QED BY <1>5, <1>6, <1>7, <1>8, <1>9, <1>10, StepInv

LEMMA JudgeInv ==
  ASSUME IInv, NEW b \in Browsers, Judge(b)
  PROVE  IInv'
<1> DEFINE rest == IF Permitted(b, proc[b].page, Now(b).on) THEN Then(b) ELSE <<>>
           r == Continue(b, rest)
<1>1. /\ proc[b] # Idle /\ UNCHANGED <<user, cookie, wrong, scene>>
      /\ proc' = [proc EXCEPT ![b] = r]
  BY DEF Judge
<1>2. Enters(user', proc[b].todo)
  BY <1>1 DEF IInv
<1>3. proc[b] \in Request /\ Then(b) \in Seq(Task) /\ Enters(user', Then(b))
  BY <1>1, <1>2, RestOf DEF IInv
<1>4. <<>> \in Seq(Task) /\ Enters(user', <<>>)
  BY DEF Enters
<1>5. rest \in Seq(Task) /\ Enters(user', rest)
  BY <1>3, <1>4
<1> HIDE DEF rest
<1>6. r \in Request /\ Enters(user', r.todo) /\ Loaded(r) /\ (r = Idle \/ r.todo # <<>>)
  BY <1>3, <1>5, ContinueType
<1> HIDE DEF r
<1> QED BY <1>1, <1>6, OnlyRequests

LEMMA CrashInv ==
  ASSUME IInv, NEW b \in Browsers, proc' = [proc EXCEPT ![b] = Idle],
         UNCHANGED <<user, cookie, wrong, scene>>
  PROVE  IInv'
<1>1. Enters(user', Idle.todo)
  BY IdleType DEF Enters
<1> QED BY <1>1, IdleType, OnlyRequests

LEMMA LoadInv ==
  ASSUME IInv, NEW b \in Browsers, Load(b)
  PROVE  IInv'
<1> DEFINE r == [proc[b] EXCEPT !.seen = user[Now(b).on]]
<1>1. /\ proc[b] # Idle /\ UNCHANGED <<user, cookie, wrong, scene>>
      /\ proc' = [proc EXCEPT ![b] = r] /\ Head(proc[b].todo).do \in Writes
  BY DEF Load, Now
<1>2. Enters(user', proc[b].todo)
  BY <1>1 DEF IInv
<1>3. proc[b] \in Request /\ Now(b).on \in Users
  BY <1>1, <1>2, RestOf DEF IInv
<1>4. r \in Request /\ r.todo = proc[b].todo
  BY <1>3 DEF IInv, TypeOK, Request
<1>5. proc[b].todo # <<>> /\ Loaded(r)
  BY <1>1, <1>4 DEF IInv, TypeOK, Loaded
<1> HIDE DEF r
<1> QED BY <1>1, <1>2, <1>4, <1>5, OnlyRequests

\* The row of one account changes, and its password stays one.
LEMMA RowStep ==
  ASSUME IInv, NEW b \in Browsers, proc[b] # Idle, NEW u \in Users, NEW row \in Row,
         NEW same \in BOOLEAN, user' = [user EXCEPT ![u] = row],
         Kept(user, u) => row.pw \in Secrets,
         proc' = [(IF same THEN proc ELSE Overtake(b, u)) EXCEPT ![b] = Continue(b, Then(b))],
         wrong' \in [Users -> Nat], UNCHANGED <<cookie, scene>>
  PROVE  IInv'
<1> DEFINE r == Continue(b, Then(b))
<1>1. \A v \in Users : Kept(user, v) => Kept(user', v)
  BY DEF IInv, TypeOK, Kept
<1>2. Enters(user', proc[b].todo)
  <2> DEFINE s == proc[b].todo
  <2>1. s \in Seq(Task) /\ Enters(user, s)
    BY DEF IInv, TypeOK, Request
  <2> HIDE DEF s
  <2>2. \A i \in 1 .. Len(s) : s[i] \in Task
    BY <2>1
  <2>3. \A i \in 1 .. Len(s) : s[i].on \in Users
    BY <2>2 DEF Task
  <2>4. Enters(user', s)
    BY <2>1, <2>3, <1>1 DEF Enters
  <2> QED BY <2>4 DEF s
<1>3. proc[b] \in Request /\ Then(b) \in Seq(Task) /\ Enters(user', Then(b))
  BY <1>2, RestOf DEF IInv
<1>4. r \in Request /\ Enters(user', r.todo) /\ Loaded(r) /\ (r = Idle \/ r.todo # <<>>)
  BY <1>3, ContinueType
<1>5. proc' = [(IF same THEN proc ELSE Overtake(b, u)) EXCEPT ![b] = r]
  OBVIOUS
<1> HIDE DEF r
<1>6. Others(b) /\ proc'[b] = r
  BY <1>4, <1>5, Overtaking DEF IInv
<1>7. user' \in [Users -> Row] /\ cookie' \in [Browsers -> Users \cup {None}]
  BY DEF IInv, TypeOK
<1>8. \A c \in Browsers : cookie'[c] # None => cookie'[c] = cookie[c] \/ Kept(user, cookie'[c])
  OBVIOUS
<1> QED BY <1>1, <1>4, <1>6, <1>7, <1>8, StepInv

LEMMA WriteInv ==
  ASSUME IInv, NEW b \in Browsers, Write(b)
  PROVE  IInv'
<1> DEFINE u == Now(b).on
           do == Now(b).do
           row == Set(do, user[u])
<1>1. proc[b] # Idle /\ do \in Settings /\ UNCHANGED <<cookie, wrong, scene>>
  BY DEF Write
<1>2. CASE do = "create" /\ Exists(u)
  <2>1. proc' = [proc EXCEPT ![b] = Idle] /\ UNCHANGED user
    BY <1>2 DEF Write
  <2> QED BY <2>1, <1>1, CrashInv
<1>3. CASE ~(do = "create" /\ Exists(u))
  <2> DEFINE same == row = user[u]
  <2>1. /\ user' = [user EXCEPT ![u] = row]
        /\ proc' = [(IF same THEN proc ELSE Overtake(b, u)) EXCEPT ![b] = Continue(b, Then(b))]
    BY <1>3 DEF Write
  <2>2. u \in Users
    <3>1. TypeOK /\ proc[b].todo \in Seq(Task) /\ proc[b].todo # <<>>
      BY <1>1 DEF IInv, TypeOK, Request
    <3>2. Now(b) \in Task
      BY <3>1, HeadTailProperties DEF Now
    <3> QED BY <3>2 DEF Task
  <2>3. row \in Row /\ row.pw = user[u].pw
    BY <1>1, <2>2, SetType DEF IInv, TypeOK
  <2>4. Kept(user, u) => row.pw \in Secrets
    BY <2>3 DEF Kept
  <2>5. wrong' \in [Users -> Nat] /\ same \in BOOLEAN
    BY <1>1 DEF IInv, TypeOK
  <2> HIDE DEF u, do, row, same
  <2> QED BY <1>1, <2>1, <2>2, <2>3, <2>4, <2>5, RowStep
<1> QED BY <1>2, <1>3

LEMMA CommitInv ==
  ASSUME IInv, NEW b \in Browsers, Commit(b)
  PROVE  IInv'
<1> DEFINE u == Now(b).on
           do == Now(b).do
           seen == proc[b].seen
           row == Merged(do, user[u], seen)
<1>1. proc[b] # Idle /\ seen # None /\ UNCHANGED <<cookie, scene>>
  BY DEF Commit
<1>2. CASE Collides(do, user[u], seen)
  <2>1. proc' = [proc EXCEPT ![b] = Idle] /\ UNCHANGED <<user, wrong>>
    BY <1>2 DEF Commit
  <2> QED BY <2>1, <1>1, CrashInv
<1>3. CASE ~Collides(do, user[u], seen)
  <2> DEFINE same == row = user[u]
  <2>1. /\ user' = [user EXCEPT ![u] = row]
        /\ proc' = [(IF same THEN proc ELSE Overtake(b, u)) EXCEPT ![b] = Continue(b, Then(b))]
        /\ wrong' = CASE do = "clear" -> [wrong EXCEPT ![u] = 0]
                      [] do = "fail"  -> [wrong EXCEPT ![u] = @ + 1]
                      [] OTHER        -> wrong
    BY <1>3 DEF Commit
  <2>2. u \in Users /\ do \in Writes
    <3>1. TypeOK /\ proc[b].todo \in Seq(Task) /\ proc[b].todo # <<>>
      BY <1>1 DEF IInv, TypeOK, Request
    <3>2. Now(b) \in Task
      BY <3>1, HeadTailProperties DEF Now
    <3>3. do \in Writes
      BY <1>1 DEF IInv, Loaded, Now
    <3> QED BY <3>2, <3>3 DEF Task
  <2>3. user[u] \in Row /\ seen \in Row
    BY <1>1, <2>2 DEF IInv, TypeOK, Request
  <2>4. row \in Row
    BY <2>2, <2>3, MergedType
  <2>5. Kept(user, u) => row.pw \in Secrets
    BY <1>3, <2>2, <2>3, MergedKeeps DEF Kept
  <2>6. wrong' \in [Users -> Nat]
    BY <2>1, <2>2 DEF IInv, TypeOK
  <2>7. same \in BOOLEAN
    OBVIOUS
  <2> HIDE DEF u, do, seen, row, same
  <2> QED BY <1>1, <2>1, <2>2, <2>4, <2>5, <2>6, <2>7, RowStep
<1> QED BY <1>2, <1>3

\* All requests go on as they were.
Unmoved ==
  /\ proc' \in [Browsers -> Request]
  /\ \A c \in Browsers : /\ proc'[c].todo = proc[c].todo /\ proc'[c].seen = proc[c].seen
                         /\ proc[c] = Idle => proc'[c] = Idle

\* What happens to an account outside the requests of browsers.
LEMMA OutsideInv ==
  ASSUME IInv, NEW u \in Users, NEW row \in Row, user' = [user EXCEPT ![u] = row],
         row.pw = user[u].pw, UNCHANGED <<cookie, wrong, scene>>, Unmoved
  PROVE  IInv'
<1>1. TypeOK'
  BY DEF IInv, TypeOK, Unmoved
<1>2. \A v \in Users : user'[v].pw = user[v].pw
  BY DEF IInv, TypeOK
<1>3. SessionsHavePassword'
  BY <1>2 DEF IInv, TypeOK, SessionsHavePassword
<1>4. \A c \in Browsers : Enters(user', proc'[c].todo)
  <2> TAKE c \in Browsers
  <2> DEFINE s == proc[c].todo
  <2>1. proc'[c].todo = s /\ s \in Seq(Task) /\ Enters(user, s)
    BY DEF IInv, TypeOK, Request, Unmoved
  <2> HIDE DEF s
  <2>2. \A i \in 1 .. Len(s) : s[i] \in Task
    BY <2>1
  <2>3. \A i \in 1 .. Len(s) : s[i].on \in Users
    BY <2>2 DEF Task
  <2>4. Enters(user', s)
    BY <2>1, <2>3, <1>2 DEF Enters, Kept
  <2> QED BY <2>1, <2>4
<1>5. \A c \in Browsers : Loaded(proc'[c])
  BY DEF IInv, Loaded, Unmoved
<1> QED BY <1>1, <1>3, <1>4, <1>5 DEF IInv

LEMMA ShellInv ==
  ASSUME IInv, NEW u \in Users, NEW role \in Roles, Shell(u, role)
  PROVE  IInv'
<1> DEFINE row == Ranked(Decided(user[u], "approved"), role)
<1>1. user' = [user EXCEPT ![u] = row] /\ UNCHANGED <<cookie, wrong, scene>>
  BY DEF Shell
<1>2. user[u] \in Row
  BY DEF IInv, TypeOK
<1>3. row \in Row /\ row.pw = user[u].pw
  BY <1>2 DEF Ranked, Decided, Row
<1> HIDE DEF row
<1>4. proc' = Overtake(None, u) /\ TypeOK
  BY DEF Shell, IInv
<1>5. Unmoved
  BY <1>4, OvertakeType DEF Unmoved
<1> QED BY <1>1, <1>3, <1>5, OutsideInv

LEMMA LapseInv ==
  ASSUME IInv, NEW u \in Users, Lapse(u)
  PROVE  IInv'
<1> DEFINE row == [user[u] EXCEPT !.lock = "over"]
<1>1. user' = [user EXCEPT ![u] = row] /\ UNCHANGED <<cookie, proc, wrong, scene>>
  BY DEF Lapse
<1>2. user[u] \in Row
  BY DEF IInv, TypeOK
<1>3. row \in Row /\ row.pw = user[u].pw
  BY <1>2 DEF Row
<1>4. Unmoved
  BY <1>1 DEF IInv, TypeOK, Unmoved
<1> HIDE DEF row
<1> QED BY <1>1, <1>3, <1>4, OutsideInv

-----------------------------------------------------------------------------
(* The invariant.                                                          *)

LEMMA StutterInv == IInv /\ UNCHANGED vars => IInv'
BY DEF IInv, TypeOK, SessionsHavePassword, vars

LEMMA NextInv == IInv /\ [Next]_vars => IInv'
<1> SUFFICES ASSUME IInv, [Next]_vars PROVE IInv'
  OBVIOUS
<1>1. ASSUME NEW b \in Browsers, Arrival(b) PROVE IInv'
  BY <1>1, RegisterInv, SignInInv, SignOutInv, VisitInv, ChangePasswordInv, StaffInv DEF Arrival
<1>2. ASSUME NEW b \in Browsers, Step(b) PROVE IInv'
  BY <1>2, WriteInv, LoadInv, CheckInv, EnterInv, JudgeInv, CommitInv DEF Step
<1>3. ASSUME NEW b \in Browsers, Crash(b) PROVE IInv'
  BY <1>3, CrashInv DEF Crash
<1>4. ASSUME NEW u \in Users, Lapse(u) \/ \E role \in Roles : Shell(u, role) PROVE IInv'
  BY <1>4, LapseInv, ShellInv
<1>5. CASE UNCHANGED vars
  BY <1>5, StutterInv
<1> QED BY <1>1, <1>2, <1>3, <1>4, <1>5 DEF Next

LEMMA InitInv == Init => IInv
<1> SUFFICES ASSUME Init PROVE IInv
  OBVIOUS
<1>1. user \in [Users -> Row]
  BY SceneTypes DEF Init
<1>2. \A b \in Browsers : cookie[b] = None /\ proc[b] = Idle
  BY DEF Init
<1>3. TypeOK
  BY <1>1, <1>2, IdleType DEF Init, TypeOK
<1>4. SessionsHavePassword
  BY <1>2 DEF SessionsHavePassword
<1>5. \A b \in Browsers : Enters(user, proc[b].todo) /\ Loaded(proc[b])
  BY <1>2, IdleType DEF Enters
<1> QED BY <1>3, <1>4, <1>5 DEF IInv

THEOREM Invariant == Spec => []IInv
BY InitInv, NextInv, PTL DEF Spec

\* Every variable keeps its type, and a request under way has work to do:
\* the helpers of security.py and identity.py, in any order they interleave.
THEOREM Typed == Spec => []TypeOK
<1>1. IInv => TypeOK
  BY DEF IInv
<1> QED BY <1>1, Invariant, PTL

\* Whoever is signed in has a password: register()'s second commit cannot
\* be undone by a helper that loaded the account before it.
THEOREM SignedInWithPassword == Spec => []SessionsHavePassword
<1>1. IInv => SessionsHavePassword
  BY DEF IInv
<1> QED BY <1>1, Invariant, PTL

(***************************************************************************)
(* Staff.                                                                  *)
(***************************************************************************)

-----------------------------------------------------------------------------
(* The invariant, of a request r of a browser signed in to u, and of the   *)
(* accounts us.                                                            *)

Changes == Settings \ {"create"}

\* A list of helpers is what one of the pages gives, or a part of it.
Order(page, on, s) ==
  \A i \in 1 .. Len(s) :
    /\ s[i].do \in {"create", "check", "verify", "enter", "fail", "setown"} => page = None
    /\ s[i].do = "settemp" => page = "reset" /\ s[i].on = on
    /\ s[i].do \in Changes => page = s[i].do /\ s[i].on = on
    /\ s[i].do = "judge" => s[i].on = on /\ \A j \in 1 .. i - 1 : s[j].do = "clear"
    /\ s[i].do \in {"fail", "lock"} \cup Changes => i = Len(s)

Judged(s) == \A i \in 1 .. Len(s) : s[i].do # "judge"

\* Nobody whose lockout is to be cleared or begun is locked out, unless
\* staff do it.
Open(us, under, s) ==
  \A i \in 1 .. Len(s) :
    s[i].do \in {"clear", "fail", "check"} /\ s[i].on \notin under => us[s[i].on].lock \notin Live
Sober(us, r) == r.page \notin {"unlock", "reset"} => Open(us, r.under, r.todo)

\* The helper that has loaded a row knows whether its password is temporary.
Steady(us, r) ==
  r.seen # None =>
    /\ r.todo # <<>>
    /\ Head(r.todo).on \notin r.under => us[Head(r.todo).on].must = r.seen.must

\* Whoever acts from the console has the power to, ...
Power(us, u, r) ==
  r.page # None =>
    /\ u \in Users /\ r.on \in Users
    /\ u \notin r.under => /\ us[u].role = r.rank /\ r.rank \in Holders(r.page)
                           /\ us[u].approval = "approved" /\ ~us[u].must

\* ... and, once judged, is above the other.
Higher(us, u, r) ==
  r.page \in {"unlock", "lock", "reset"} /\ u \notin r.under /\ r.on \notin r.under =>
    Outranks(r.rank, us[r.on].role)
Above(us, u, r) == Judged(r.todo) => Higher(us, u, r)

Apt(us, u, r) ==
  /\ Order(r.page, r.on, r.todo) /\ Sober(us, r) /\ Steady(us, r)
  /\ Power(us, u, r) /\ Above(us, u, r)

JInv == IInv /\ \A b \in Browsers : Apt(user, cookie[b], proc[b])

-----------------------------------------------------------------------------
(* Lists.                                                                  *)

LEMMA IdleApt ==
  ASSUME NEW us, NEW u
  PROVE  Apt(us, u, Idle)
<1>1. Idle.todo = <<>> /\ Len(Idle.todo) = 0 /\ Idle.page = None /\ Idle.seen = None
  BY DEF Idle
<1>2. None \notin Pages /\ None \notin {"unlock", "lock", "reset"} /\ None \notin Roles
  BY AccountAssumption DEF Pages
<1>3. Order(Idle.page, Idle.on, Idle.todo)
  BY <1>1 DEF Order
<1>4. Sober(us, Idle)
  BY <1>1 DEF Sober, Open
<1>5. Steady(us, Idle) /\ Power(us, u, Idle)
  BY <1>1 DEF Steady, Power
<1>6. Above(us, u, Idle)
  BY <1>1, <1>2 DEF Above, Higher
<1> QED BY <1>3, <1>4, <1>5, <1>6 DEF Apt

LEMMA TailIs ==
  ASSUME NEW s \in Seq(Task), s # <<>>
  PROVE  /\ Head(s) \in Task /\ Tail(s) \in Seq(Task) /\ Len(s) \in Nat /\ Len(s) >= 1
         /\ Len(Tail(s)) = Len(s) - 1 /\ Head(s) = s[1]
         /\ \A i \in 1 .. Len(Tail(s)) : i + 1 \in 1 .. Len(s) /\ Tail(s)[i] = s[i + 1]
<1>1. Len(s) \in Nat /\ Len(s) # 0
  BY EmptySeq, LenProperties
<1>2. /\ Head(s) \in Task /\ Tail(s) \in Seq(Task) /\ Len(Tail(s)) = Len(s) - 1 /\ Head(s) = s[1]
      /\ \A i \in 1 .. Len(Tail(s)) : Tail(s)[i] = s[i + 1]
  BY HeadTailProperties
<1> QED BY <1>1, <1>2

LEMMA TailOrder ==
  ASSUME NEW page, NEW on, NEW s \in Seq(Task), s # <<>>, Order(page, on, s)
  PROVE  /\ Order(page, on, Tail(s)) /\ (Head(s).do # "judge" => (Judged(Tail(s)) => Judged(s)))
         /\ Head(s).do # "clear" => Judged(Tail(s))
<1> DEFINE t == Tail(s)
<1>1. /\ t \in Seq(Task) /\ Len(s) \in Nat /\ Len(s) >= 1 /\ Len(t) = Len(s) - 1 /\ Head(s) = s[1]
      /\ \A i \in 1 .. Len(t) : i + 1 \in 1 .. Len(s) /\ t[i] = s[i + 1]
  BY TailIs
<1> HIDE DEF t
<1>2. Order(page, on, t)
  <2> SUFFICES ASSUME NEW i \in 1 .. Len(t)
               PROVE  /\ t[i].do \in {"create", "check", "verify", "enter", "fail", "setown"} => page = None
                      /\ t[i].do = "settemp" => page = "reset" /\ t[i].on = on
                      /\ t[i].do \in Changes => page = t[i].do /\ t[i].on = on
                      /\ t[i].do = "judge" => t[i].on = on /\ \A j \in 1 .. i - 1 : t[j].do = "clear"
                      /\ t[i].do \in {"fail", "lock"} \cup Changes => i = Len(t)
    BY DEF Order
  <2>1. i + 1 \in 1 .. Len(s) /\ t[i] = s[i + 1] /\ i \in Nat
    BY <1>1
  <2>2. /\ t[i].do \in {"create", "check", "verify", "enter", "fail", "setown"} => page = None
        /\ t[i].do = "settemp" => page = "reset" /\ t[i].on = on
        /\ t[i].do \in Changes => page = t[i].do /\ t[i].on = on
    BY <2>1 DEF Order
  <2>3. t[i].do \in {"fail", "lock"} \cup Changes => i = Len(t)
    BY <2>1, <1>1 DEF Order
  <2>4. t[i].do = "judge" => t[i].on = on /\ \A j \in 1 .. i : s[j].do = "clear"
    BY <2>1 DEF Order
  <2>5. \A j \in 1 .. i - 1 : j \in 1 .. Len(t) /\ j + 1 \in 1 .. i /\ t[j] = s[j + 1]
    BY <2>1, <1>1
  <2>6. t[i].do = "judge" => t[i].on = on /\ \A j \in 1 .. i - 1 : t[j].do = "clear"
    BY <2>4, <2>5
  <2> QED BY <2>2, <2>3, <2>6
<1>3. ASSUME Head(s).do # "judge", Judged(t), NEW i \in 1 .. Len(s)
      PROVE  s[i].do # "judge"
  <2>1. CASE i = 1
    BY <2>1, <1>1, <1>3
  <2>2. CASE i # 1
    <3>1. i - 1 \in 1 .. Len(t) /\ t[i - 1] = s[i]
      BY <2>2, <1>1
    <3> QED BY <3>1, <1>3 DEF Judged
  <2> QED BY <2>1, <2>2
<1>4. ASSUME Head(s).do # "clear", NEW i \in 1 .. Len(t), t[i].do = "judge"
      PROVE  FALSE
  <2>1. i + 1 \in 1 .. Len(s) /\ s[i + 1].do = "judge" /\ 1 \in 1 .. (i + 1) - 1
    BY <1>1, <1>4
  <2>2. s[1].do = "clear"
    BY <2>1 DEF Order
  <2> QED BY <2>2, <1>1, <1>4
<1>5. Head(s).do # "judge" => (Judged(t) => Judged(s))
  BY <1>3 DEF Judged
<1>6. Head(s).do # "clear" => Judged(t)
  BY <1>4 DEF Judged
<1> QED BY <1>2, <1>5, <1>6 DEF t

\* A helper before the others.
LEMMA ConsIs ==
  ASSUME NEW h \in Task, NEW t \in Seq(Task)
  PROVE  /\ <<h>> \o t \in Seq(Task) /\ Len(t) \in Nat /\ Len(<<h>> \o t) = Len(t) + 1
         /\ (<<h>> \o t)[1] = h
         /\ \A i \in 1 .. Len(t) + 1 : i # 1 => i - 1 \in 1 .. Len(t) /\ (<<h>> \o t)[i] = t[i - 1]
<1>1. <<h>> \in Seq(Task) /\ Len(<<h>>) = 1 /\ <<h>>[1] = h
  OBVIOUS
<1>2. Len(t) \in Nat
  BY LenProperties
<1>3. /\ <<h>> \o t \in Seq(Task) /\ Len(<<h>> \o t) = Len(<<h>>) + Len(t)
      /\ \A i \in 1 .. Len(<<h>>) + Len(t) :
           (<<h>> \o t)[i] = IF i <= Len(<<h>>) THEN <<h>>[i] ELSE t[i - Len(<<h>>)]
  BY <1>1, ConcatProperties
<1> QED BY <1>1, <1>2, <1>3

LEMMA ConsOrder ==
  ASSUME NEW page, NEW on, NEW h \in Task, NEW t \in Seq(Task), Order(page, on, t),
         h.do \in {"clear", "judge", "check", "verify", "create", "setown", "settemp"},
         h.do \in {"create", "check", "verify", "setown"} => page = None,
         h.do = "settemp" => page = "reset" /\ h.on = on,
         h.do = "judge" => h.on = on,
         h.do # "clear" => Judged(t)
  PROVE  Order(page, on, <<h>> \o t)
<1> DEFINE s == <<h>> \o t
<1>1. /\ s \in Seq(Task) /\ Len(t) \in Nat /\ Len(s) = Len(t) + 1 /\ s[1] = h
      /\ \A i \in 1 .. Len(t) + 1 : i # 1 => i - 1 \in 1 .. Len(t) /\ s[i] = t[i - 1]
  BY ConsIs
<1> HIDE DEF s
<1>2. h.do \notin Changes \/ h.do = "create"
  BY RolesAre DEF Changes, Settings
<1>3. h.do \notin Changes
  BY <1>2 DEF Changes
<1> SUFFICES ASSUME NEW i \in 1 .. Len(s)
             PROVE  /\ s[i].do \in {"create", "check", "verify", "enter", "fail", "setown"} => page = None
                    /\ s[i].do = "settemp" => page = "reset" /\ s[i].on = on
                    /\ s[i].do \in Changes => page = s[i].do /\ s[i].on = on
                    /\ s[i].do = "judge" => s[i].on = on /\ \A j \in 1 .. i - 1 : s[j].do = "clear"
                    /\ s[i].do \in {"fail", "lock"} \cup Changes => i = Len(s)
  BY DEF Order, s
<1>4. CASE i = 1
  BY <1>1, <1>3, <1>4
<1>5. CASE i # 1
  <2>1. i - 1 \in 1 .. Len(t) /\ s[i] = t[i - 1] /\ i \in Nat
    BY <1>1, <1>5
  <2>2. /\ s[i].do \in {"create", "check", "verify", "enter", "fail", "setown"} => page = None
        /\ s[i].do = "settemp" => page = "reset" /\ s[i].on = on
        /\ s[i].do \in Changes => page = s[i].do /\ s[i].on = on
    BY <2>1 DEF Order
  <2>3. s[i].do \in {"fail", "lock"} \cup Changes => i = Len(s)
    BY <2>1, <1>1 DEF Order
  <2>4. ASSUME s[i].do = "judge" PROVE s[i].on = on /\ \A j \in 1 .. i - 1 : s[j].do = "clear"
    <3>1. s[i].on = on /\ \A j \in 1 .. (i - 1) - 1 : t[j].do = "clear"
      BY <2>1, <2>4 DEF Order
    <3>2. h.do = "clear"
      BY <2>1, <2>4 DEF Judged
    <3>3. ASSUME NEW j \in 1 .. i - 1 PROVE s[j].do = "clear"
      <4>1. CASE j = 1
        BY <4>1, <3>2, <1>1
      <4>2. CASE j # 1
        <5>1. j - 1 \in 1 .. (i - 1) - 1 /\ s[j] = t[j - 1]
          BY <4>2, <2>1, <1>1
        <5> QED BY <5>1, <3>1
      <4> QED BY <4>1, <4>2
    <3> QED BY <3>1, <3>3
  <2> QED BY <2>2, <2>3, <2>4
<1> QED BY <1>4, <1>5

LEMMA ConsOpen ==
  ASSUME NEW us, NEW under, NEW h \in Task, NEW t \in Seq(Task), Open(us, under, t),
         h.do \in {"clear", "fail", "check"} /\ h.on \notin under => us[h.on].lock \notin Live
  PROVE  Open(us, under, <<h>> \o t)
<1> DEFINE s == <<h>> \o t
<1>1. /\ Len(t) \in Nat /\ Len(s) = Len(t) + 1 /\ s[1] = h
      /\ \A i \in 1 .. Len(t) + 1 : i # 1 => i - 1 \in 1 .. Len(t) /\ s[i] = t[i - 1]
  BY ConsIs
<1> HIDE DEF s
<1>2. ASSUME NEW i \in 1 .. Len(s), s[i].do \in {"clear", "fail", "check"}, s[i].on \notin under
      PROVE  us[s[i].on].lock \notin Live
  <2>1. CASE i = 1
    BY <2>1, <1>1, <1>2
  <2>2. CASE i # 1
    BY <2>2, <1>1, <1>2 DEF Open
  <2> QED BY <2>1, <2>2
<1> QED BY <1>2 DEF Open, s

LEMMA TailOpen ==
  ASSUME NEW us, NEW under, NEW s \in Seq(Task), s # <<>>, Open(us, under, s)
  PROVE  Open(us, under, Tail(s))
BY TailIs DEF Open

\* One helper alone.
LEMMA Single ==
  ASSUME NEW page, NEW on, NEW h \in Task,
         h.do \in {"create", "check", "verify", "enter", "fail", "setown"} => page = None,
         h.do = "settemp" => page = "reset" /\ h.on = on,
         h.do \in Changes => page = h.do /\ h.on = on,
         h.do = "judge" => h.on = on
  PROVE  /\ <<h>> \in Seq(Task) /\ <<h>> # <<>> /\ Order(page, on, <<h>>)
         /\ h.do # "judge" => Judged(<<h>>)
<1>1. <<h>> \in Seq(Task) /\ Len(<<h>>) = 1 /\ <<h>>[1] = h /\ <<h>> # <<>>
  OBVIOUS
<1>2. Order(page, on, <<h>>)
  BY <1>1 DEF Order
<1>3. h.do # "judge" => Judged(<<h>>)
  BY <1>1 DEF Judged
<1> QED BY <1>1, <1>2, <1>3

LEMMA NoHelpers ==
  ASSUME NEW us, NEW under, NEW page, NEW on
  PROVE  <<>> \in Seq(Task) /\ Order(page, on, <<>>) /\ Open(us, under, <<>>)
<1>1. Len(<<>>) = 0 /\ 1 .. 0 = {}
  OBVIOUS
<1> QED BY <1>1 DEF Order, Open

\* Two helpers of an account's own request.
LEMMA Pair ==
  ASSUME NEW u, NEW h \in Task, NEW e \in Task, h.do \in {"create", "verify"}, e.do = "setown"
  PROVE  /\ <<h, e>> \in Seq(Task) /\ Order(None, u, <<h, e>>) /\ Open(user, {}, <<h, e>>)
<1> DEFINE s == <<h, e>>
<1>1. s \in Seq(Task) /\ Len(s) = 2 /\ s[1] = h /\ s[2] = e /\ \A i \in 1 .. 2 : i = 1 \/ i = 2
  OBVIOUS
<1>2. "create" \notin Changes /\ "verify" \notin Changes /\ "setown" \notin Changes
  BY RolesAre DEF Changes, Settings
<1> HIDE DEF s
<1>3. Order(None, u, s)
  BY <1>1, <1>2 DEF Order
<1>4. Open(user, {}, s)
  BY <1>1 DEF Open
<1> QED BY <1>1, <1>3, <1>4 DEF s

LEMMA AfterLapsed ==
  ASSUME NEW u \in Users, NEW page, NEW on, NEW t \in Seq(Task), Order(page, on, t),
         page \notin {"unlock", "reset"} => Open(user, {}, t)
  PROVE  /\ Lapsed(u) \o t \in Seq(Task) /\ Order(page, on, Lapsed(u) \o t)
         /\ page \notin {"unlock", "reset"} => Open(user, {}, Lapsed(u) \o t)
         /\ Judged(Lapsed(u) \o t) => Judged(t)
<1> DEFINE h == [do |-> "clear", on |-> u]
<1>1. h \in Task /\ h.do = "clear" /\ h.on = u
  BY DEF Task, Writes
<1>2. CASE user[u].lock = "over"
  <2>1. Lapsed(u) = <<h>>
    BY <1>2 DEF Lapsed
  <2> HIDE DEF h
  <2>2. <<h>> \o t \in Seq(Task) /\ Order(page, on, <<h>> \o t)
    BY <1>1, ConsIs, ConsOrder
  <2>3. page \notin {"unlock", "reset"} => Open(user, {}, <<h>> \o t)
    BY <1>1, <1>2, ConsOpen DEF Live
  <2>4. Judged(<<h>> \o t) => Judged(t)
    <3> SUFFICES ASSUME Judged(<<h>> \o t), NEW i \in 1 .. Len(t) PROVE t[i].do # "judge"
      BY DEF Judged
    <3> DEFINE x == <<h>> \o t
    <3>1. /\ Len(t) \in Nat /\ Len(x) = Len(t) + 1
          /\ \A k \in 1 .. Len(t) + 1 : k # 1 => k - 1 \in 1 .. Len(t) /\ x[k] = t[k - 1]
      BY <1>1, ConsIs
    <3>2. \A k \in 1 .. Len(x) : x[k].do # "judge"
      BY DEF Judged
    <3> HIDE DEF x
    <3>3. i + 1 \in 1 .. Len(x) /\ x[i + 1] = t[i]
      BY <3>1
    <3> QED BY <3>2, <3>3
  <2> QED BY <2>1, <2>2, <2>3, <2>4
<1>3. CASE user[u].lock # "over"
  <2>1. Lapsed(u) \o t = t
    BY <1>3, ConcatEmptySeq DEF Lapsed
  <2> QED BY <2>1
<1> QED BY <1>2, <1>3

-----------------------------------------------------------------------------
(* What a step leaves of the other requests, and of one that goes on.      *)

\* Of request r and accounts us: r2 and vs, later.
Follows(us, vs, r, r2) ==
  /\ r2.page = r.page /\ r2.todo = r.todo /\ r2.on = r.on /\ r2.seen = r.seen /\ r2.rank = r.rank
  /\ r.under \subseteq r2.under
  /\ \A v \in Users \ r2.under : vs[v] = us[v] \/ vs[v] = [us[v] EXCEPT !.lock = "over"]

LEMMA FollowsApt ==
  ASSUME NEW us \in [Users -> Row], NEW vs \in [Users -> Row], NEW r \in Request,
         NEW r2 \in Request, NEW u, Follows(us, vs, r, r2), r # Idle => r.todo # <<>>,
         Apt(us, u, r)
  PROVE  Apt(vs, u, r2)
<1>1. /\ r2.page = r.page /\ r2.todo = r.todo /\ r2.on = r.on /\ r2.seen = r.seen
      /\ r2.rank = r.rank /\ r.under \subseteq r2.under
  BY DEF Follows
<1>2. ASSUME NEW v \in Users, v \notin r2.under
      PROVE  /\ vs[v].role = us[v].role /\ vs[v].approval = us[v].approval /\ vs[v].must = us[v].must
             /\ us[v].lock \notin Live => vs[v].lock \notin Live
  <2>1. us[v] \in Row
    OBVIOUS
  <2>2. CASE vs[v] = us[v]
    BY <2>2
  <2>3. CASE vs[v] = [us[v] EXCEPT !.lock = "over"]
    BY <2>1, <2>3 DEF Row, Live
  <2> QED BY <1>2, <2>2, <2>3 DEF Follows
<1>3. r.todo \in Seq(Task)
  BY DEF Request
<1>4. \A i \in 1 .. Len(r.todo) : r.todo[i] \in Task
  BY <1>3
<1>5. \A i \in 1 .. Len(r.todo) : r.todo[i].on \in Users
  BY <1>4 DEF Task
<1>6. Order(r2.page, r2.on, r2.todo)
  BY <1>1 DEF Apt
<1>7. Sober(vs, r2)
  BY <1>1, <1>2, <1>5 DEF Apt, Sober, Open
<1>8. Steady(vs, r2)
  <2> SUFFICES ASSUME r2.seen # None
               PROVE  r2.todo # <<>> /\ (Head(r2.todo).on \notin r2.under =>
                                           vs[Head(r2.todo).on].must = r2.seen.must)
    BY DEF Steady
  <2>1. r.todo # <<>> /\ (Head(r.todo).on \notin r.under => us[Head(r.todo).on].must = r.seen.must)
    BY <1>1 DEF Apt, Steady
  <2>2. Head(r.todo) \in Task
    BY <1>3, <2>1, TailIs
  <2>3. Head(r.todo).on \in Users
    BY <2>2 DEF Task
  <2> QED BY <1>1, <1>2, <2>1, <2>3
<1>9. Power(vs, u, r2)
  BY <1>1, <1>2 DEF Apt, Power
<1>10. Above(vs, u, r2)
  <2> SUFFICES ASSUME Judged(r.todo), r.page \in {"unlock", "lock", "reset"}, u \notin r2.under,
                      r.on \notin r2.under
               PROVE  Outranks(r.rank, vs[r.on].role)
    BY <1>1 DEF Above, Higher
  <2>1. r.on \in Users
    BY AccountAssumption DEF Apt, Power, Pages
  <2>2. Outranks(r.rank, us[r.on].role)
    BY <1>1 DEF Apt, Above, Higher
  <2> QED BY <2>1, <2>2, <1>2
<1> QED BY <1>6, <1>7, <1>8, <1>9, <1>10 DEF Apt

\* The request of b leaves that of c as it is, or takes a row from under it.
Beside(c) ==
  /\ cookie'[c] = cookie[c]
  /\ \/ proc'[c] = Idle
     \/ Follows(user, user', proc[c], proc'[c])

LEMMA BesideApt ==
  ASSUME JInv, IInv', NEW c \in Browsers, Beside(c)
  PROVE  Apt(user', cookie'[c], proc'[c])
<1>1. CASE proc'[c] = Idle
  BY <1>1, IdleApt
<1>2. CASE Follows(user, user', proc[c], proc'[c])
  <2>1. user \in [Users -> Row] /\ user' \in [Users -> Row]
    BY DEF JInv, IInv, TypeOK
  <2>2. proc[c] \in Request /\ proc'[c] \in Request /\ (proc[c] # Idle => proc[c].todo # <<>>)
    BY DEF JInv, IInv, TypeOK
  <2>3. Apt(user, cookie[c], proc[c]) /\ cookie'[c] = cookie[c]
    BY DEF JInv, Beside
  <2> QED BY <1>2, <2>1, <2>2, <2>3, FollowsApt
<1> QED BY <1>1, <1>2 DEF Beside

LEMMA JStep ==
  ASSUME JInv, IInv', NEW b \in Browsers, \A c \in Browsers : c # b => Beside(c),
         Apt(user', cookie'[b], proc'[b])
  PROVE  JInv'
BY BesideApt DEF JInv

\* Only the request of b changes, and perhaps who b is signed in to.
LEMMA OwnOnly ==
  ASSUME JInv, IInv', NEW b \in Browsers, NEW r \in Request, proc' = [proc EXCEPT ![b] = r],
         UNCHANGED user, \A c \in Browsers : c # b => cookie'[c] = cookie[c],
         Apt(user, cookie'[b], r)
  PROVE  JInv'
<1>1. proc \in [Browsers -> Request]
  BY DEF JInv, IInv, TypeOK
<1>2. \A c \in Browsers : c # b => proc'[c] = proc[c]
  BY <1>1
<1>3. \A c \in Browsers : c # b => Beside(c)
  BY <1>2 DEF Beside, Follows
<1>4. Apt(user', cookie'[b], proc'[b])
  BY <1>1
<1> QED BY <1>3, <1>4, JStep

\* The row of u changes, and the requests under way hear of it.
LEMMA RowChanges ==
  ASSUME JInv, NEW b, NEW u \in Users, NEW row, user' = [user EXCEPT ![u] = row],
         NEW c \in Browsers, c # b, cookie'[c] = cookie[c],
         proc'[c] = (IF row = user[u] THEN proc ELSE Overtake(b, u))[c]
  PROVE  Beside(c)
<1>1. user \in [Users -> Row] /\ proc[c] \in Request
  BY DEF JInv, IInv, TypeOK
<1>2. CASE row = user[u]
  BY <1>1, <1>2 DEF Beside, Follows
<1>3. CASE row # user[u] /\ proc[c] = Idle
  BY <1>3 DEF Beside, Overtake
<1>4. CASE row # user[u] /\ proc[c] # Idle
  <2> DEFINE r2 == [proc[c] EXCEPT !.under = @ \cup {u}]
  <2>1. proc'[c] = r2
    BY <1>4 DEF Overtake
  <2>2. /\ r2.page = proc[c].page /\ r2.todo = proc[c].todo /\ r2.on = proc[c].on
        /\ r2.seen = proc[c].seen /\ r2.rank = proc[c].rank
        /\ r2.under = proc[c].under \cup {u}
    BY <1>1 DEF Request
  <2> HIDE DEF r2
  <2>3. \A v \in Users \ r2.under : user'[v] = user[v]
    BY <1>1, <2>2
  <2> QED BY <2>1, <2>2, <2>3 DEF Beside, Follows
<1> QED BY <1>2, <1>3, <1>4

LEMMA ContinueApt ==
  ASSUME NEW us, NEW u, NEW b \in Browsers, proc[b] \in Request, NEW rest \in Seq(Task),
         Order(proc[b].page, proc[b].on, rest),
         proc[b].page \notin {"unlock", "reset"} => Open(us, proc[b].under, rest),
         Power(us, u, proc[b]),
         Judged(rest) => Higher(us, u, proc[b])
  PROVE  Apt(us, u, Continue(b, rest))
<1>1. CASE rest = <<>>
  BY <1>1, IdleApt DEF Continue
<1>2. CASE rest # <<>>
  <2> DEFINE r == [proc[b] EXCEPT !.todo = rest, !.seen = None]
  <2>1. Continue(b, rest) = r
    BY <1>2 DEF Continue
  <2>2. /\ r.todo = rest /\ r.seen = None /\ r.page = proc[b].page /\ r.on = proc[b].on
        /\ r.under = proc[b].under /\ r.rank = proc[b].rank
    BY DEF Request
  <2> HIDE DEF r
  <2>3. Order(r.page, r.on, r.todo) /\ Sober(us, r) /\ Steady(us, r)
    BY <2>2 DEF Sober, Steady
  <2>4. Power(us, u, r)
    BY <2>2 DEF Power
  <2>5. Above(us, u, r)
    BY <2>2 DEF Above, Higher
  <2> QED BY <2>1, <2>3, <2>4, <2>5 DEF Apt
<1> QED BY <1>1, <1>2

-----------------------------------------------------------------------------
(* Requests begin.                                                         *)

\* A page of the console is asked for by who may; any other page needs no
\* power.
LEMMA BeginApt ==
  ASSUME JInv, IInv', NEW b \in Browsers, NEW page, NEW u, NEW todo \in Seq(Task),
         Begin(b, page, u, todo), Order(page, u, todo),
         page \notin {"unlock", "reset"} => Open(user, {}, todo),
         page # None => /\ cookie[b] \in Users /\ u \in Users /\ ~Judged(todo)
                        /\ user[cookie[b]].role \in Holders(page)
                        /\ user[cookie[b]].approval = "approved" /\ ~user[cookie[b]].must
  PROVE  JInv'
<1> DEFINE rank == IF page = None THEN "student" ELSE user[cookie[b]].role
           r == [Idle EXCEPT !.page = page, !.on = u, !.todo = todo, !.rank = rank]
<1>1. proc' = [proc EXCEPT ![b] = r] /\ UNCHANGED <<user, cookie>>
  BY DEF Begin
<1>2. proc \in [Browsers -> Request] /\ proc' \in [Browsers -> Request]
  BY DEF JInv, IInv, TypeOK
<1>3. r \in Request
  BY <1>1, <1>2
<1>4. /\ r.page = page /\ r.on = u /\ r.todo = todo /\ r.rank = rank /\ r.seen = None
      /\ r.under = {}
  BY DEF Idle
<1> HIDE DEF r
<1>5. Order(r.page, r.on, r.todo) /\ Sober(user, r) /\ Steady(user, r)
  BY <1>4 DEF Sober, Steady
<1>6. Power(user, cookie[b], r)
  BY <1>4 DEF Power
<1>7. page = None => page \notin {"unlock", "lock", "reset"} /\ page \notin Roles
  BY AccountAssumption DEF Pages
<1>8. Above(user, cookie[b], r)
  BY <1>4, <1>7 DEF Above, Higher
<1>9. Apt(user, cookie[b], r)
  BY <1>5, <1>6, <1>8 DEF Apt
<1> QED BY <1>1, <1>3, <1>9, OwnOnly

LEMMA RegisterApt ==
  ASSUME JInv, IInv', NEW b \in Browsers, NEW u \in Users, Register(b, u)
  PROVE  JInv'
<1> DEFINE h == [do |-> "create", on |-> u]
           e == [do |-> "setown", on |-> u]
<1>1. h \in Task /\ h.do = "create" /\ e \in Task /\ e.do = "setown"
  BY DEF Task, Settings, Writes
<1>2. Begin(b, None, u, <<h, e>>)
  BY DEF Register
<1> HIDE DEF h, e
<1>3. <<h, e>> \in Seq(Task) /\ Order(None, u, <<h, e>>) /\ Open(user, {}, <<h, e>>)
  BY <1>1, Pair
<1> QED BY <1>2, <1>3, BeginApt

LEMMA SignInApt ==
  ASSUME JInv, IInv', NEW b \in Browsers, NEW u \in Users, SignIn(b, u)
  PROVE  JInv'
<1> DEFINE h == [do |-> "check", on |-> u]
           todo == Lapsed(u) \o <<h>>
<1>1. h \in Task /\ h.do = "check" /\ h.on = u
  BY DEF Task
<1>2. Begin(b, None, u, todo) /\ user[u].lock \notin Live
  BY DEF SignIn, LockedOut
<1> HIDE DEF h
<1>3. <<h>> \in Seq(Task) /\ Order(None, u, <<h>>)
  BY <1>1, RolesAre, Single DEF Changes, Settings
<1>4. Open(user, {}, <<h>>)
  <2>1. Len(<<h>>) = 1 /\ <<h>>[1] = h
    OBVIOUS
  <2> QED BY <2>1, <1>1, <1>2 DEF Open
<1>5. None \notin {"unlock", "reset"}
  BY AccountAssumption DEF Pages
<1>6. todo \in Seq(Task) /\ Order(None, u, todo) /\ Open(user, {}, todo)
  BY <1>3, <1>4, <1>5, AfterLapsed
<1> HIDE DEF todo
<1> QED BY <1>2, <1>6, BeginApt

LEMMA VisitApt ==
  ASSUME JInv, IInv', NEW b \in Browsers, Visit(b)
  PROVE  JInv'
<1> DEFINE u == cookie[b]
           h == [do |-> "clear", on |-> u]
<1>1. u \in Users
  BY DEF JInv, IInv, TypeOK, Visit
<1>2. h \in Task /\ h.do = "clear" /\ h.on = u
  BY <1>1 DEF Task, Writes
<1>3. user[u].lock = "over" /\ Begin(b, None, u, <<h>>)
  BY DEF Visit, Lapsed
<1> HIDE DEF u, h
<1>4. <<h>> \in Seq(Task) /\ Order(None, u, <<h>>)
  BY <1>2, RolesAre, Single DEF Changes, Settings
<1>5. Open(user, {}, <<h>>)
  <2>1. Len(<<h>>) = 1 /\ <<h>>[1] = h
    OBVIOUS
  <2> QED BY <2>1, <1>2, <1>3 DEF Open, Live
<1> QED BY <1>3, <1>4, <1>5, BeginApt

LEMMA ChangePasswordApt ==
  ASSUME JInv, IInv', NEW b \in Browsers, ChangePassword(b)
  PROVE  JInv'
<1> DEFINE u == cookie[b]
           h == [do |-> "verify", on |-> u]
           e == [do |-> "setown", on |-> u]
           todo == Lapsed(u) \o <<h, e>>
<1>1. u \in Users
  BY DEF JInv, IInv, TypeOK, ChangePassword
<1>2. h \in Task /\ h.do = "verify" /\ e \in Task /\ e.do = "setown"
  BY <1>1 DEF Task, Writes
<1>3. Begin(b, None, u, todo)
  BY DEF ChangePassword
<1> HIDE DEF u, h, e
<1>4. <<h, e>> \in Seq(Task) /\ Order(None, u, <<h, e>>) /\ Open(user, {}, <<h, e>>)
  BY <1>2, Pair
<1>5. None \notin {"unlock", "reset"}
  BY AccountAssumption DEF Pages
<1>6. todo \in Seq(Task) /\ Order(None, u, todo) /\ Open(user, {}, todo)
  BY <1>1, <1>4, <1>5, AfterLapsed
<1> HIDE DEF todo
<1> QED BY <1>3, <1>6, BeginApt

\* The helpers a page of the console runs.
LEMMA ConsoleOrder ==
  ASSUME NEW page \in Pages \ {"shell"}, NEW t \in Users
  PROVE  LET acts == Console(page)
             list == [i \in 1 .. Len(acts) |-> [do |-> acts[i], on |-> t]]
         IN  /\ list \in Seq(Task) /\ Order(page, t, list) /\ Judged(list)
             /\ page \notin {"unlock", "reset"} => Open(user, {}, list)
<1> DEFINE acts == Console(page)
           list == [i \in 1 .. Len(acts) |-> [do |-> acts[i], on |-> t]]
<1>1. list \in Seq(Task)
  BY ConsoleType
<1>2. CASE page = "unlock"
  <2>1. Len(acts) = 1 /\ acts[1] = "clear"
    BY <1>2 DEF Console
  <2>2. list = [i \in 1 .. 1 |-> [do |-> acts[i], on |-> t]]
    BY <2>1
  <2>3. Len(list) = 1 /\ list[1].do = "clear" /\ \A i \in 1 .. 1 : i = 1
    BY <2>1, <2>2
  <2> HIDE DEF list
  <2>4. Order(page, t, list)
    BY <2>3, RolesAre DEF Order, Changes, Settings
  <2>5. Judged(list)
    BY <2>3 DEF Judged
  <2> QED BY <1>1, <1>2, <2>4, <2>5 DEF list
<1>3. CASE page = "reset"
  <2>1. Len(acts) = 2 /\ acts[1] = "settemp" /\ acts[2] = "clear"
    BY <1>3 DEF Console
  <2>2. list = [i \in 1 .. 2 |-> [do |-> acts[i], on |-> t]]
    BY <2>1
  <2>3. /\ Len(list) = 2 /\ list[1].do = "settemp" /\ list[1].on = t /\ list[2].do = "clear"
        /\ \A i \in 1 .. 2 : i = 1 \/ i = 2
    BY <2>1, <2>2
  <2> HIDE DEF list
  <2>4. Order(page, t, list)
    BY <1>3, <2>3, RolesAre DEF Order, Changes, Settings
  <2>5. Judged(list)
    BY <2>3 DEF Judged
  <2> QED BY <1>1, <1>3, <2>4, <2>5 DEF list
<1>4. CASE page \notin {"unlock", "reset"}
  <2>1. Len(acts) = 1 /\ acts[1] = page
    BY <1>4 DEF Console
  <2>2. list = [i \in 1 .. 1 |-> [do |-> acts[i], on |-> t]]
    BY <2>1
  <2>3. Len(list) = 1 /\ list[1].do = page /\ list[1].on = t /\ \A i \in 1 .. 1 : i = 1
    BY <2>1, <2>2
  <2>4. page \in {"lock"} \cup {"approve", "reject"} \cup Roles
    BY <1>4 DEF Pages
  <2> HIDE DEF list
  <2>5. page \notin {"create", "check", "verify", "enter", "fail", "setown", "settemp", "judge", "clear"}
    BY <2>4, RolesAre
  <2>6. Order(page, t, list)
    BY <2>3, <2>5 DEF Order
  <2>7. Judged(list)
    BY <2>3, <2>5 DEF Judged
  <2>8. Open(user, {}, list)
    BY <2>3, <2>5 DEF Open
  <2> QED BY <1>1, <2>6, <2>7, <2>8 DEF list
<1> QED BY <1>2, <1>3, <1>4 DEF list, acts

LEMMA StaffApt ==
  ASSUME JInv, IInv', NEW b \in Browsers, NEW page \in Pages \ {"shell"}, NEW t \in Users,
         Staff(b, page, t)
  PROVE  JInv'
<1> DEFINE u == cookie[b]
           h == [do |-> "judge", on |-> t]
           acts == Console(page)
           list == [i \in 1 .. Len(acts) |-> [do |-> acts[i], on |-> t]]
           todo == Lapsed(u) \o (<<h>> \o list)
<1>1. u \in Users
  BY DEF JInv, IInv, TypeOK, Staff
<1>2. h \in Task /\ h.do = "judge" /\ h.on = t
  BY DEF Task
<1>3. /\ user[u].role \in Holders(page) /\ user[u].approval = "approved" /\ ~user[u].must
  BY DEF Staff, AtLarge, Admitted
<1>4. Begin(b, page, t, (Lapsed(u) \o <<h>>) \o list)
  BY DEF Staff
<1>5. /\ list \in Seq(Task) /\ Order(page, t, list) /\ Judged(list)
      /\ page \notin {"unlock", "reset"} => Open(user, {}, list)
  BY ConsoleOrder
<1>6. u = cookie[b]
  OBVIOUS
<1> HIDE DEF u, h, list
<1>7. Lapsed(u) \in Seq(Task) /\ <<h>> \in Seq(Task)
  BY <1>1, <1>2, LapsedType
<1>8. (Lapsed(u) \o <<h>>) \o list = todo
  BY <1>5, <1>7, ConcatAssociative
<1>9. <<h>> \o list \in Seq(Task) /\ Order(page, t, <<h>> \o list)
  BY <1>2, <1>5, ConsIs, ConsOrder
<1>10. page \notin {"unlock", "reset"} => Open(user, {}, <<h>> \o list)
  BY <1>2, <1>5, ConsOpen
<1>11. ~Judged(<<h>> \o list)
  <2> DEFINE x == <<h>> \o list
  <2>1. x[1] = h /\ Len(x) = Len(list) + 1 /\ Len(list) \in Nat
    BY <1>2, <1>5, ConsIs
  <2> HIDE DEF x
  <2>2. 1 \in 1 .. Len(x)
    BY <2>1
  <2>3. ~Judged(x)
    BY <2>1, <2>2, <1>2 DEF Judged
  <2> QED BY <2>3 DEF x
<1>12. /\ todo \in Seq(Task) /\ Order(page, t, todo) /\ ~Judged(todo)
       /\ page \notin {"unlock", "reset"} => Open(user, {}, todo)
  BY <1>1, <1>9, <1>10, <1>11, AfterLapsed
<1>13. Begin(b, page, t, todo)
  BY <1>4, <1>8
<1> HIDE DEF todo
<1> QED BY <1>1, <1>3, <1>6, <1>12, <1>13, BeginApt

LEMMA SignOutApt ==
  ASSUME JInv, IInv', NEW b \in Browsers, SignOut(b)
  PROVE  JInv'
<1>1. /\ proc[b] = Idle /\ UNCHANGED <<user, proc>>
      /\ \A c \in Browsers : c # b => cookie'[c] = cookie[c]
  BY DEF SignOut, JInv, IInv, TypeOK
<1>2. \A c \in Browsers : c # b => Beside(c)
  BY <1>1 DEF Beside, Follows
<1>3. Apt(user', cookie'[b], proc'[b])
  BY <1>1, IdleApt
<1> QED BY <1>2, <1>3, JStep

-----------------------------------------------------------------------------
(* Requests go on.                                                         *)

\* What is known of a request under way, and of the helper it is at.
LEMMA UnderWay ==
  ASSUME JInv, NEW b \in Browsers, proc[b] # Idle
  PROVE  LET r == proc[b]  s == proc[b].todo IN
         /\ TypeOK /\ r \in Request /\ s \in Seq(Task) /\ s # <<>>
         /\ Now(b) = Head(s) /\ Now(b) \in Task /\ Now(b).on \in Users
         /\ Then(b) = Tail(s) /\ Then(b) \in Seq(Task)
         /\ Apt(user, cookie[b], r) /\ Order(r.page, r.on, s) /\ Order(r.page, r.on, Then(b))
         /\ Now(b).do # "judge" => (Judged(Then(b)) => Judged(s))
         /\ Now(b).do # "clear" => Judged(Then(b))
<1> DEFINE r == proc[b]
           s == proc[b].todo
<1>1. TypeOK /\ r \in Request /\ s \in Seq(Task) /\ s # <<>> /\ Apt(user, cookie[b], r)
  BY DEF JInv, IInv, TypeOK, Request
<1>2. Now(b) = Head(s) /\ Then(b) = Tail(s)
  BY DEF Now, Then
<1>3. Order(r.page, r.on, s)
  BY <1>1 DEF Apt
<1> HIDE DEF s, r
<1>4. Head(s) \in Task /\ Tail(s) \in Seq(Task)
  BY <1>1, TailIs
<1>5. Head(s).on \in Users
  BY <1>4 DEF Task
<1>6. /\ Order(r.page, r.on, Tail(s)) /\ (Head(s).do # "judge" => (Judged(Tail(s)) => Judged(s)))
      /\ Head(s).do # "clear" => Judged(Tail(s))
  BY <1>1, <1>3, TailOrder
<1> QED BY <1>1, <1>2, <1>3, <1>4, <1>5, <1>6 DEF s, r

\* What the order of a list says of the helper at its head.
LEMMA AtHead ==
  ASSUME JInv, NEW b \in Browsers, proc[b] # Idle
  PROVE  LET r == proc[b] IN
         /\ Now(b).do \in {"create", "check", "verify", "enter", "fail", "setown"} => r.page = None
         /\ Now(b).do = "settemp" => r.page = "reset" /\ Now(b).on = r.on
         /\ Now(b).do \in Changes => r.page = Now(b).do /\ Now(b).on = r.on
         /\ Now(b).do = "judge" => Now(b).on = r.on
         /\ Now(b).do \in {"fail", "lock"} \cup Changes => Then(b) = <<>>
         /\ /\ r.page \notin {"unlock", "reset"}
            /\ Now(b).do \in {"clear", "fail", "check"} /\ Now(b).on \notin r.under
            => user[Now(b).on].lock \notin Live
<1> DEFINE r == proc[b]
           s == proc[b].todo
<1>1. /\ s \in Seq(Task) /\ s # <<>> /\ Now(b) = Head(s) /\ Then(b) = Tail(s)
      /\ Order(r.page, r.on, s) /\ Sober(user, r)
  BY UnderWay DEF Apt
<1>2. s = r.todo
  OBVIOUS
<1> HIDE DEF s, r
<1>3. Head(s) = s[1] /\ Len(s) \in Nat /\ Len(s) >= 1 /\ Tail(s) \in Seq(Task) /\ Len(Tail(s)) = Len(s) - 1
  BY <1>1, TailIs
<1>4. 1 \in 1 .. Len(s) /\ (Len(s) = 1 => Tail(s) = <<>>)
  BY <1>3, EmptySeq
<1>5. /\ s[1].do \in {"create", "check", "verify", "enter", "fail", "setown"} => r.page = None
      /\ s[1].do = "settemp" => r.page = "reset" /\ s[1].on = r.on
      /\ s[1].do \in Changes => r.page = s[1].do /\ s[1].on = r.on
      /\ s[1].do = "judge" => s[1].on = r.on
      /\ s[1].do \in {"fail", "lock"} \cup Changes => 1 = Len(s)
  BY <1>1, <1>4 DEF Order
<1>6. /\ r.page \notin {"unlock", "reset"}
      /\ s[1].do \in {"clear", "fail", "check"} /\ s[1].on \notin r.under
      => user[s[1].on].lock \notin Live
  BY <1>1, <1>2, <1>4 DEF Sober, Open
<1> QED BY <1>1, <1>3, <1>4, <1>5, <1>6 DEF r

LEMMA EndsApt ==
  ASSUME JInv, IInv', NEW b \in Browsers, proc' = [proc EXCEPT ![b] = Idle],
         UNCHANGED <<user, cookie>>
  PROVE  JInv'
BY IdleType, IdleApt, OwnOnly

LEMMA NoPage == None \notin {"unlock", "lock", "reset"} /\ None \notin Roles /\ None \notin Pages
BY AccountAssumption DEF Pages

\* A request of an account's own goes on: it needs no power.
LEMMA OwnGoesOn ==
  ASSUME JInv, IInv', NEW b \in Browsers, proc[b] # Idle, proc[b].page = None,
         NEW rest \in Seq(Task), Order(None, proc[b].on, rest), Open(user, proc[b].under, rest),
         proc' = [proc EXCEPT ![b] = Continue(b, rest)], UNCHANGED user,
         \A c \in Browsers : c # b => cookie'[c] = cookie[c]
  PROVE  JInv'
<1> DEFINE u == cookie'[b]
           r == Continue(b, rest)
<1>1. proc[b] \in Request
  BY UnderWay
<1>2. Power(user, u, proc[b]) /\ Higher(user, u, proc[b])
  BY NoPage DEF Power, Higher
<1>3. Apt(user, u, r)
  BY <1>1, <1>2, ContinueApt
<1>4. proc' \in [Browsers -> Request] /\ proc \in [Browsers -> Request]
  BY DEF JInv, IInv, TypeOK
<1>5. proc' = [proc EXCEPT ![b] = r]
  OBVIOUS
<1> HIDE DEF r
<1>6. r \in Request
  BY <1>4, <1>5
<1> QED BY <1>3, <1>5, <1>6, OwnOnly

LEMMA CheckApt ==
  ASSUME JInv, IInv', NEW b \in Browsers, Check(b)
  PROVE  JInv'
<1> DEFINE u == Now(b).on
           r == proc[b]
<1>1. r # Idle /\ Now(b).do \in {"check", "verify"} /\ UNCHANGED <<user, cookie>>
  BY DEF Check
<1>2. /\ r.page = None /\ u \in Users /\ Then(b) \in Seq(Task) /\ Order(None, r.on, Then(b))
      /\ Now(b).do = "check" /\ u \notin r.under => user[u].lock \notin Live
  BY <1>1, UnderWay, AtHead, NoPage
<1>3. Open(user, r.under, Then(b))
  <2>1. /\ r.todo \in Seq(Task) /\ r.todo # <<>> /\ Then(b) = Tail(r.todo)
        /\ Open(user, r.under, r.todo)
    BY <1>1, <1>2, UnderWay, NoPage DEF Apt, Sober
  <2> QED BY <2>1, TailOpen
<1>4. PICK right \in MayMatch(u) : proc' = [proc EXCEPT ![b] = Continue(b,
         CASE Now(b).do = "verify" -> IF right THEN Then(b) ELSE <<>>
           [] Now(b).do = "check"  ->
                IF right THEN <<[do |-> "clear", on |-> u], [do |-> "enter", on |-> u]>>
                         ELSE <<[do |-> "fail", on |-> u]>>)]
  BY DEF Check
<1> DEFINE rest ==
         CASE Now(b).do = "verify" -> IF right THEN Then(b) ELSE <<>>
           [] Now(b).do = "check"  ->
                IF right THEN <<[do |-> "clear", on |-> u], [do |-> "enter", on |-> u]>>
                         ELSE <<[do |-> "fail", on |-> u]>>
<1>5. proc' = [proc EXCEPT ![b] = Continue(b, rest)]
  BY <1>4
<1>6. rest \in Seq(Task) /\ Order(None, r.on, rest) /\ Open(user, r.under, rest)
  <2>1. CASE Now(b).do = "verify" /\ right
    <3>1. rest = Then(b)
      BY <2>1
    <3> QED BY <3>1, <1>2, <1>3
  <2>2. CASE Now(b).do = "verify" /\ ~right
    <3>1. rest = <<>>
      BY <2>2
    <3> QED BY <3>1, NoHelpers
  <2>3. CASE Now(b).do = "check" /\ right
    <3> DEFINE x == [do |-> "clear", on |-> u]
               y == [do |-> "enter", on |-> u]
    <3>1. /\ x \in Task /\ y \in Task /\ x.do = "clear" /\ y.do = "enter" /\ x.on = u
          /\ "clear" \notin Changes /\ "enter" \notin Changes
      BY <1>2, RolesAre DEF Task, Writes, Changes, Settings
    <3>2. rest = <<x, y>>
      BY <2>3
    <3>3. u \notin r.under => user[u].lock \notin Live
      BY <1>2, <2>3
    <3> HIDE DEF x, y, r, u
    <3> DEFINE s == <<x, y>>
    <3>4. s \in Seq(Task) /\ Len(s) = 2 /\ s[1] = x /\ s[2] = y /\ \A i \in 1 .. 2 : i = 1 \/ i = 2
      BY <3>1
    <3> HIDE DEF s
    <3>5. Order(None, r.on, s)
      BY <3>1, <3>4 DEF Order
    <3>6. Open(user, r.under, s)
      BY <3>1, <3>3, <3>4 DEF Open
    <3> QED BY <3>2, <3>4, <3>5, <3>6 DEF s
  <2>4. CASE Now(b).do = "check" /\ ~right
    <3> DEFINE x == [do |-> "fail", on |-> u]
    <3>1. x \in Task /\ x.do = "fail" /\ x.on = u /\ "fail" \notin Changes
      BY <1>2, RolesAre DEF Task, Writes, Changes, Settings
    <3>2. rest = <<x>>
      BY <2>4
    <3>3. u \notin r.under => user[u].lock \notin Live
      BY <1>2, <2>4
    <3> HIDE DEF x, r, u
    <3>4. <<x>> \in Seq(Task) /\ Order(None, r.on, <<x>>)
      BY <3>1, Single
    <3>5. Len(<<x>>) = 1 /\ <<x>>[1] = x
      OBVIOUS
    <3>6. Open(user, r.under, <<x>>)
      BY <3>1, <3>3, <3>5 DEF Open
    <3> QED BY <3>2, <3>4, <3>6
  <2> QED BY <1>1, <2>1, <2>2, <2>3, <2>4
<1> HIDE DEF rest
<1> QED BY <1>1, <1>2, <1>5, <1>6, OwnGoesOn

LEMMA EnterApt ==
  ASSUME JInv, IInv', NEW b \in Browsers, Enter(b)
  PROVE  JInv'
<1> DEFINE r == proc[b]
<1>1. /\ r # Idle /\ Now(b).do = "enter" /\ UNCHANGED user
      /\ proc' = [proc EXCEPT ![b] = Continue(b, Then(b))]
      /\ cookie' = [cookie EXCEPT ![b] = Now(b).on]
  BY DEF Enter
<1>2. r.page = None /\ Then(b) \in Seq(Task) /\ Order(None, r.on, Then(b))
  BY <1>1, UnderWay, AtHead
<1>3. Open(user, r.under, Then(b))
  <2>1. /\ r.todo \in Seq(Task) /\ r.todo # <<>> /\ Then(b) = Tail(r.todo)
        /\ Open(user, r.under, r.todo)
    BY <1>1, <1>2, UnderWay, NoPage DEF Apt, Sober
  <2> QED BY <2>1, TailOpen
<1>4. \A c \in Browsers : c # b => cookie'[c] = cookie[c]
  BY <1>1 DEF JInv, IInv, TypeOK
<1> QED BY <1>1, <1>2, <1>3, <1>4, OwnGoesOn

LEMMA JudgeApt ==
  ASSUME JInv, IInv', NEW b \in Browsers, Judge(b)
  PROVE  JInv'
<1> DEFINE r == proc[b]
           t == Now(b).on
           rest == IF Permitted(b, r.page, t) THEN Then(b) ELSE <<>>
           r2 == Continue(b, rest)
<1>1. /\ r # Idle /\ Now(b).do = "judge" /\ UNCHANGED <<user, cookie>>
      /\ proc' = [proc EXCEPT ![b] = r2]
  BY DEF Judge
<1>2. CASE ~Permitted(b, r.page, t)
  <2>1. proc' = [proc EXCEPT ![b] = Idle]
    BY <1>1, <1>2 DEF Continue
  <2> QED BY <1>1, <2>1, EndsApt
<1>3. CASE Permitted(b, r.page, t)
  <2>1. /\ r \in Request /\ Then(b) \in Seq(Task) /\ Order(r.page, r.on, Then(b))
        /\ t = r.on /\ Apt(user, cookie[b], r)
    BY <1>1, UnderWay, AtHead
  <2>2. r.page \notin {"unlock", "reset"} => Open(user, r.under, Then(b))
    <3>1. /\ r.todo \in Seq(Task) /\ r.todo # <<>> /\ Then(b) = Tail(r.todo)
          /\ r.page \notin {"unlock", "reset"} => Open(user, r.under, r.todo)
      BY <1>1, UnderWay DEF Apt, Sober
    <3> QED BY <3>1, TailOpen
  <2>3. Higher(user, cookie[b], r)
    BY <1>3, <2>1 DEF Permitted, Higher
  <2>4. Power(user, cookie[b], r)
    BY <2>1 DEF Apt
  <2>5. Apt(user, cookie[b], Continue(b, Then(b)))
    BY <2>1, <2>2, <2>3, <2>4, ContinueApt
  <2>6. r2 = Continue(b, Then(b))
    BY <1>3
  <2>7. Apt(user, cookie'[b], r2)
    BY <2>5, <2>6, <1>1
  <2> HIDE DEF r2
  <2>8. r2 \in Request
    BY <1>1 DEF JInv, IInv, TypeOK
  <2> QED BY <1>1, <2>7, <2>8, OwnOnly
<1> QED BY <1>2, <1>3

LEMMA LoadApt ==
  ASSUME JInv, IInv', NEW b \in Browsers, Load(b)
  PROVE  JInv'
<1> DEFINE r == proc[b]
           r2 == [proc[b] EXCEPT !.seen = user[Now(b).on]]
<1>1. r # Idle /\ UNCHANGED <<user, cookie>> /\ proc' = [proc EXCEPT ![b] = r2]
  BY DEF Load
<1>2. /\ TypeOK /\ r \in Request /\ r.todo # <<>> /\ Now(b) = Head(r.todo) /\ Apt(user, cookie[b], r)
  BY <1>1, UnderWay
<1>3. /\ r2.page = r.page /\ r2.on = r.on /\ r2.todo = r.todo /\ r2.rank = r.rank
      /\ r2.under = r.under /\ r2.seen = user[Now(b).on]
  BY <1>2 DEF Request
<1> HIDE DEF r2
<1>4. r2 \in Request
  BY <1>1, <1>2 DEF JInv, IInv, TypeOK
<1>5. Order(r2.page, r2.on, r2.todo) /\ Sober(user, r2)
  BY <1>2, <1>3 DEF Apt, Sober
<1>6. Steady(user, r2)
  BY <1>2, <1>3 DEF Steady
<1>7. Power(user, cookie[b], r2)
  BY <1>2, <1>3 DEF Apt, Power
<1>8. Above(user, cookie[b], r2)
  BY <1>2, <1>3 DEF Apt, Above, Higher
<1>9. Apt(user, cookie'[b], r2)
  BY <1>1, <1>5, <1>6, <1>7, <1>8 DEF Apt
<1> QED BY <1>1, <1>4, <1>9, OwnOnly

-----------------------------------------------------------------------------
(* Requests write.                                                         *)

LEMMA SetKeeps ==
  ASSUME NEW row \in Row, NEW do \in Settings
  PROVE  LET new == Set(do, row) IN new.lock = row.lock /\ new.must = row.must /\ new.pw = row.pw
<1>1. CASE do = "create"
  BY <1>1, RolesAre DEF Set, Decided, Row
<1>2. CASE do = "approve"
  BY <1>2, RolesAre DEF Set, Decided, Row
<1>3. CASE do = "reject"
  BY <1>3, RolesAre DEF Set, Decided, Row
<1>4. CASE do \in Roles
  <2>1. Set(do, row) = Ranked(row, do)
    BY <1>4, RolesAre DEF Set
  <2> QED BY <2>1 DEF Ranked, Row
<1> QED BY <1>1, <1>2, <1>3, <1>4 DEF Settings

LEMMA MergedIs ==
  ASSUME NEW do \in Writes, NEW now \in Row, NEW seen \in Row
  PROVE  LET new  == Merged(do, now, seen)
             want == Wanted(do, seen)
         IN  /\ new.role = now.role /\ new.approval = now.approval
             /\ new.must = IF want.must # seen.must THEN want.must ELSE now.must
             /\ new.lock = IF "lock" \in Renewed(do, seen) \/ want.lock # seen.lock
                           THEN want.lock ELSE now.lock
             /\ new.pw = IF "pw" \in Renewed(do, seen) \/ want.pw # seen.pw THEN want.pw ELSE now.pw
<1> DEFINE want == Wanted(do, seen)
           New(f) == IF f \in Renewed(do, seen) \/ want[f] # seen[f] THEN want[f] ELSE now[f]
           new == [now EXCEPT !.pw = New("pw"), !.must = New("must"),
                              !.fails = New("fails"), !.lock = New("lock")]
<1>1. Merged(do, now, seen) = new
  BY DEF Merged
<1>2. want \in Row
  BY WantedType
<1>3. "must" \notin Renewed(do, seen)
  BY DEF Renewed, Writes
<1> HIDE DEF want
<1>4. New("must") = IF want.must # seen.must THEN want.must ELSE now.must
  BY <1>2, <1>3 DEF Row
<1>5. New("lock") = IF "lock" \in Renewed(do, seen) \/ want.lock # seen.lock THEN want.lock ELSE now.lock
  BY <1>2 DEF Row
<1>6. New("pw") = IF "pw" \in Renewed(do, seen) \/ want.pw # seen.pw THEN want.pw ELSE now.pw
  BY <1>2 DEF Row
<1> HIDE DEF New
<1>7. /\ new.role = now.role /\ new.approval = now.approval /\ new.must = New("must")
      /\ new.lock = New("lock") /\ new.pw = New("pw")
  BY DEF Row
<1> HIDE DEF new
<1> QED BY <1>1, <1>4, <1>5, <1>6, <1>7 DEF want

\* What each helper that writes credentials makes of the columns.
LEMMA MergedKeepsLock ==
  ASSUME NEW do \in Writes, NEW now \in Row, NEW seen \in Row
  PROVE  LET new == Merged(do, now, seen) IN
         /\ do \in {"setown", "settemp"} => new.lock = now.lock
         /\ do = "clear" => new.lock \in {"none", now.lock}
         /\ do = "fail"  => new.lock \in {"tries", now.lock}
         /\ do = "lock"  => new.lock = "staff"
         /\ do \in {"clear", "fail", "lock"} => new.must = now.must
<1> DEFINE want == Wanted(do, seen)
           new == Merged(do, now, seen)
<1>1. CASE do = "setown"
  <2>1. want.lock = seen.lock /\ "lock" \notin Renewed(do, seen)
    BY <1>1 DEF Wanted, SetPassword, Renewed, Row
  <2> QED BY <1>1, <2>1, MergedIs
<1>2. CASE do = "settemp"
  <2>1. want.lock = seen.lock /\ "lock" \notin Renewed(do, seen)
    BY <1>2 DEF Wanted, Temporary, SetPassword, Renewed, Row
  <2> QED BY <1>2, <2>1, MergedIs
<1>3. CASE do = "clear"
  <2>1. want.lock \in {"none", seen.lock} /\ want.must = seen.must /\ "lock" \notin Renewed(do, seen)
    BY <1>3 DEF Wanted, Cleared, Renewed, Row
  <2> QED BY <1>3, <2>1, MergedIs
<1>4. CASE do = "fail"
  <2> DEFINE c == Credentials(seen)
  <2>1. c \in Row /\ c.lock = seen.lock /\ c.must = seen.must
    BY CredentialsType DEF Credentials, Row
  <2>2. want = [c EXCEPT !.fails = IF @ < Limit THEN @ + 1 ELSE @,
                         !.lock  = IF seen.fails + 1 >= Limit THEN "tries" ELSE @]
    BY <1>4 DEF Wanted, Failed
  <2> HIDE DEF c
  <2>3. want.must = seen.must /\ want.lock = IF seen.fails + 1 >= Limit THEN "tries" ELSE seen.lock
    BY <2>1, <2>2 DEF Row
  <2>4. "lock" \in Renewed(do, seen) => seen.fails + 1 >= Limit
    BY <1>4 DEF Renewed
  <2> HIDE DEF want
  <2>5. /\ new.must = IF want.must # seen.must THEN want.must ELSE now.must
        /\ new.lock = IF "lock" \in Renewed(do, seen) \/ want.lock # seen.lock
                      THEN want.lock ELSE now.lock
    BY MergedIs DEF want
  <2> QED BY <1>4, <2>3, <2>4, <2>5
<1>5. CASE do = "lock"
  <2>1. want.lock = "staff" /\ want.must = seen.must /\ "lock" \in Renewed(do, seen)
    BY <1>5 DEF Wanted, Locked, Credentials, Renewed, Row
  <2> QED BY <1>5, <2>1, MergedIs
<1> QED BY <1>1, <1>2, <1>3, <1>4, <1>5 DEF Writes

\* The row of u changes by a helper of b, whose request goes on with rest.
LEMMA WriterGoesOn ==
  ASSUME JInv, IInv', NEW b \in Browsers, NEW u \in Users, NEW row \in Row,
         NEW rest \in Seq(Task), proc[b] # Idle,
         user' = [user EXCEPT ![u] = row], UNCHANGED cookie,
         proc' = [(IF row = user[u] THEN proc ELSE Overtake(b, u)) EXCEPT ![b] = Continue(b, rest)],
         Apt(user', cookie[b], Continue(b, rest))
  PROVE  JInv'
<1> DEFINE was == IF row = user[u] THEN proc ELSE Overtake(b, u)
           r2 == Continue(b, rest)
<1>1. was \in [Browsers -> Request]
  BY OvertakeType DEF JInv, IInv, TypeOK
<1>2. proc' = [was EXCEPT ![b] = r2]
  OBVIOUS
<1>3. Apt(user', cookie'[b], r2)
  OBVIOUS
<1>4. was = IF row = user[u] THEN proc ELSE Overtake(b, u)
  OBVIOUS
<1> HIDE DEF was, r2
<1>5. proc'[b] = r2 /\ \A c \in Browsers : c # b => proc'[c] = was[c]
  BY <1>1, <1>2
<1>6. ASSUME NEW c \in Browsers, c # b PROVE Beside(c)
  <2>1. proc'[c] = (IF row = user[u] THEN proc ELSE Overtake(b, u))[c] /\ cookie'[c] = cookie[c]
    BY <1>4, <1>5, <1>6
  <2> QED BY <2>1, <1>6, RowChanges
<1>7. Apt(user', cookie'[b], proc'[b])
  BY <1>3, <1>5
<1> QED BY <1>6, <1>7, JStep

LEMMA WriteApt ==
  ASSUME JInv, IInv', NEW b \in Browsers, Write(b)
  PROVE  JInv'
<1> DEFINE u == Now(b).on
           do == Now(b).do
           row == Set(do, user[u])
           r == proc[b]
<1>1. r # Idle /\ do \in Settings /\ UNCHANGED cookie
  BY DEF Write
<1>2. CASE do = "create" /\ Exists(u)
  <2>1. proc' = [proc EXCEPT ![b] = Idle] /\ UNCHANGED user
    BY <1>2 DEF Write
  <2> QED BY <2>1, <1>1, EndsApt
<1>3. CASE ~(do = "create" /\ Exists(u))
  <2>1. /\ user' = [user EXCEPT ![u] = row]
        /\ proc' = [(IF row = user[u] THEN proc ELSE Overtake(b, u)) EXCEPT ![b] = Continue(b, Then(b))]
    BY <1>3 DEF Write
  <2>2. /\ TypeOK /\ u \in Users /\ r \in Request /\ Then(b) \in Seq(Task)
        /\ Order(r.page, r.on, Then(b)) /\ Apt(user, cookie[b], r)
    BY <1>1, UnderWay
  <2>3. row \in Row /\ row.lock = user[u].lock
    BY <1>1, <2>2, SetType, SetKeeps DEF TypeOK
  <2>4. CASE do \in Changes
    <3>1. Then(b) = <<>>
      BY <1>1, <2>4, AtHead
    <3>2. Continue(b, Then(b)) = Idle
      BY <3>1 DEF Continue
    <3>3. Apt(user', cookie[b], Continue(b, Then(b)))
      BY <3>2, IdleApt
    <3> HIDE DEF u, do, row
    <3> QED BY <1>1, <2>1, <2>2, <2>3, <3>3, WriterGoesOn
  <2>5. CASE do = "create"
    <3>1. r.page = None
      BY <1>1, <2>5, AtHead
    <3>2. Open(user, r.under, Then(b))
      <4>1. /\ r.todo \in Seq(Task) /\ r.todo # <<>> /\ Then(b) = Tail(r.todo)
            /\ Open(user, r.under, r.todo)
        BY <1>1, <3>1, UnderWay, NoPage DEF Apt, Sober
      <4> QED BY <4>1, TailOpen
    <3>3. \A v \in Users : user'[v].lock = user[v].lock
      BY <2>1, <2>2, <2>3 DEF TypeOK
    <3>4. Open(user', r.under, Then(b))
      <4>1. \A i \in 1 .. Len(Then(b)) : Then(b)[i] \in Task
        BY <2>2
      <4>2. \A i \in 1 .. Len(Then(b)) : Then(b)[i].on \in Users
        BY <4>1 DEF Task
      <4> QED BY <3>2, <3>3, <4>2 DEF Open
    <3>5. Power(user', cookie[b], r) /\ Higher(user', cookie[b], r)
      BY <3>1, NoPage DEF Power, Higher
    <3>6. Apt(user', cookie[b], Continue(b, Then(b)))
      BY <2>2, <3>4, <3>5, ContinueApt
    <3> HIDE DEF u, do, row
    <3> QED BY <1>1, <2>1, <2>2, <2>3, <3>6, WriterGoesOn
  <2> QED BY <1>1, <2>4, <2>5 DEF Changes
<1> QED BY <1>2, <1>3

LEMMA CommitApt ==
  ASSUME JInv, IInv', NEW b \in Browsers, Commit(b)
  PROVE  JInv'
<1> DEFINE u == Now(b).on
           do == Now(b).do
           r == proc[b]
           row == Merged(do, user[u], r.seen)
           ck == cookie[b]
<1>1. r # Idle /\ r.seen # None /\ UNCHANGED cookie
  BY DEF Commit
<1>2. CASE Collides(do, user[u], r.seen)
  <2>1. proc' = [proc EXCEPT ![b] = Idle] /\ UNCHANGED user
    BY <1>2 DEF Commit
  <2> QED BY <2>1, <1>1, EndsApt
<1>3. CASE ~Collides(do, user[u], r.seen)
  <2>1. /\ user' = [user EXCEPT ![u] = row]
        /\ proc' = [(IF row = user[u] THEN proc ELSE Overtake(b, u)) EXCEPT ![b] = Continue(b, Then(b))]
    BY <1>3 DEF Commit
  <2>2. /\ TypeOK /\ u \in Users /\ r \in Request /\ r.todo \in Seq(Task) /\ r.todo # <<>>
        /\ Then(b) \in Seq(Task) /\ Then(b) = Tail(r.todo) /\ Now(b) = Head(r.todo)
        /\ Order(r.page, r.on, Then(b)) /\ Apt(user, ck, r)
        /\ do # "judge" => (Judged(Then(b)) => Judged(r.todo))
        /\ do # "clear" => Judged(Then(b))
    BY <1>1, UnderWay
  <2>3. do \in Writes
    BY <1>1, <2>2 DEF JInv, IInv, Loaded
  <2>4. user[u] \in Row /\ r.seen \in Row
    BY <1>1, <2>2 DEF TypeOK, Request
  <2>5. row \in Row
    BY <2>3, <2>4, MergedType
  <2>6. /\ row.role = user[u].role /\ row.approval = user[u].approval
    BY <2>3, <2>4, MergedIs
  <2>7. /\ do \in {"setown", "settemp"} => row.lock = user[u].lock
        /\ do = "clear" => row.lock \in {"none", user[u].lock}
        /\ do \in {"clear", "fail", "lock"} => row.must = user[u].must
    BY <2>3, <2>4, MergedKeepsLock
  <2>8. /\ \A v \in Users : user'[v].role = user[v].role /\ user'[v].approval = user[v].approval
        /\ \A v \in Users : v # u => user'[v] = user[v]
        /\ user'[u] = row
    BY <2>1, <2>2, <2>6 DEF TypeOK
  <2>9. /\ do = "settemp" => r.page = "reset" /\ u = r.on
        /\ do \in {"setown", "fail"} => r.page = None
        /\ do \in {"fail", "lock"} => Then(b) = <<>>
    BY <1>1, AtHead
  <2>10. Apt(user', ck, Continue(b, Then(b)))
    <3>1. CASE do \in {"fail", "lock"}
      <4>1. Continue(b, Then(b)) = Idle
        BY <2>9, <3>1 DEF Continue
      <4> QED BY <4>1, IdleApt
    <3>2. CASE do \in {"setown", "settemp", "clear"}
      <4> HIDE DEF u, do, r, row, ck
      <4>1. Judged(Then(b)) => Judged(r.todo)
        BY <3>2, <2>2
      <4>2. r.page \notin {"unlock", "reset"} => Open(user', r.under, Then(b))
        <5> SUFFICES ASSUME r.page \notin {"unlock", "reset"} PROVE Open(user', r.under, Then(b))
          OBVIOUS
        <5>1. Open(user, r.under, Then(b))
          BY <2>2, TailOpen DEF Apt, Sober
        <5>2. \A i \in 1 .. Len(Then(b)) : Then(b)[i] \in Task
          BY <2>2
        <5>3. \A i \in 1 .. Len(Then(b)) : Then(b)[i].on \in Users
          BY <5>2 DEF Task
        <5>4. \A v \in Users : user[v].lock \notin Live => user'[v].lock \notin Live
          BY <2>7, <2>8, <3>2 DEF Live
        <5> QED BY <5>1, <5>3, <5>4 DEF Open
      <4>3. Power(user', ck, r)
        <5> SUFFICES ASSUME r.page # None, ck \notin r.under
                     PROVE  ~user'[ck].must
          BY <2>2, <2>8 DEF Apt, Power
        <5>1. ck \in Users /\ r.on \in Users /\ ~user[ck].must /\ user[ck].role = r.rank
          BY <2>2 DEF Apt, Power
        <5>2. CASE ck # u
          BY <5>1, <5>2, <2>8
        <5>3. CASE ck = u /\ do = "clear"
          BY <5>1, <5>3, <2>7, <2>8
        <5>4. CASE ck = u /\ do = "settemp"
          <6>1. Judged(r.todo)
            BY <5>4, <2>2, <4>1
          <6>2. Outranks(r.rank, user[r.on].role)
            BY <5>4, <6>1, <2>2, <2>9 DEF Apt, Above, Higher
          <6>3. Outranks(r.rank, r.rank)
            BY <6>2, <5>1, <5>4, <2>9
          <6>4. r.rank \in Roles
            BY <2>2 DEF Request
          <6> QED BY <6>3, <6>4, RolesAre DEF Outranks, Ranks
        <5> QED BY <3>2, <5>2, <5>3, <5>4, <2>9
      <4>4. Judged(Then(b)) => Higher(user', ck, r)
        <5> SUFFICES ASSUME Judged(r.todo), r.page \in {"unlock", "lock", "reset"},
                            ck \notin r.under, r.on \notin r.under
                     PROVE  Outranks(r.rank, user'[r.on].role)
          BY <4>1 DEF Higher
        <5>1. r.on \in Users
          BY <2>2, NoPage DEF Apt, Power
        <5>2. Outranks(r.rank, user[r.on].role)
          BY <2>2 DEF Apt, Above, Higher
        <5> QED BY <5>1, <5>2, <2>8
      <4> QED BY <2>2, <4>2, <4>3, <4>4, ContinueApt DEF r
    <3> QED BY <2>3, <3>1, <3>2 DEF Writes
  <2> HIDE DEF u, do, row
  <2> QED BY <1>1, <2>1, <2>2, <2>5, <2>10, WriterGoesOn
<1> QED BY <1>2, <1>3

\* What happens to an account outside the requests of browsers.
LEMMA ShellApt ==
  ASSUME JInv, IInv', NEW u \in Users, NEW role \in Roles, Shell(u, role)
  PROVE  JInv'
<1> DEFINE row == Ranked(Decided(user[u], "approved"), role)
<1>1. user' = [user EXCEPT ![u] = row] /\ user' # user /\ UNCHANGED cookie /\ proc' = Overtake(None, u)
  BY DEF Shell
<1> HIDE DEF row
<1>2. user \in [Users -> Row]
  BY DEF JInv, IInv, TypeOK
<1>3. row # user[u]
  BY <1>1, <1>2
<1>4. ASSUME NEW c \in Browsers PROVE Beside(c)
  <2>1. c # None
    BY AccountAssumption
  <2>2. proc'[c] = (IF row = user[u] THEN proc ELSE Overtake(None, u))[c] /\ cookie'[c] = cookie[c]
    BY <1>1, <1>3
  <2> QED BY <2>1, <2>2, <1>1, RowChanges
<1> QED BY <1>4, BesideApt DEF JInv

LEMMA LapseApt ==
  ASSUME JInv, IInv', NEW u \in Users, Lapse(u)
  PROVE  JInv'
<1>1. /\ user' = [user EXCEPT ![u].lock = "over"] /\ UNCHANGED <<cookie, proc>>
      /\ user \in [Users -> Row]
  BY DEF Lapse, JInv, IInv, TypeOK
<1>2. \A v \in Users : user'[v] = user[v] \/ user'[v] = [user[v] EXCEPT !.lock = "over"]
  BY <1>1
<1>3. \A c \in Browsers : Beside(c)
  BY <1>1, <1>2 DEF Beside, Follows
<1> QED BY <1>3, BesideApt DEF JInv

-----------------------------------------------------------------------------
(* The invariant.                                                          *)

LEMMA JInit == Init => JInv
<1> SUFFICES ASSUME Init PROVE JInv
  OBVIOUS
<1>1. \A b \in Browsers : proc[b] = Idle
  BY DEF Init
<1> QED BY <1>1, InitInv, IdleApt DEF JInv

LEMMA JNext == JInv /\ [Next]_vars => JInv'
<1> SUFFICES ASSUME JInv, [Next]_vars PROVE JInv'
  OBVIOUS
<1>1. IInv'
  BY NextInv DEF JInv
<1>2. ASSUME NEW b \in Browsers, Arrival(b) PROVE JInv'
  BY <1>1, <1>2, RegisterApt, SignInApt, SignOutApt, VisitApt, ChangePasswordApt, StaffApt DEF Arrival
<1>3. ASSUME NEW b \in Browsers, Step(b) PROVE JInv'
  BY <1>1, <1>3, WriteApt, LoadApt, CheckApt, EnterApt, JudgeApt, CommitApt DEF Step
<1>4. ASSUME NEW b \in Browsers, Crash(b) PROVE JInv'
  BY <1>1, <1>4, EndsApt DEF Crash
<1>5. ASSUME NEW u \in Users, Lapse(u) \/ \E role \in Roles : Shell(u, role) PROVE JInv'
  BY <1>1, <1>5, LapseApt, ShellApt
<1>6. CASE UNCHANGED vars
  BY <1>1, <1>6 DEF JInv, vars
<1> QED BY <1>2, <1>3, <1>4, <1>5, <1>6 DEF Next

LEMMA JAlways == Spec => []JInv
BY JInit, JNext, PTL DEF Spec

-----------------------------------------------------------------------------
(* What a step does to the accounts.                                       *)

\* A step that changes an account is a helper of one browser, which moves
\* alone, or nobody moves.
LEMMA ShorterMoves ==
  ASSUME JInv, IInv', NEW b \in Browsers, NEW u \in Users, proc[b] # Idle, NEW same \in BOOLEAN,
         proc' = [(IF same THEN proc ELSE Overtake(b, u)) EXCEPT ![b] = Continue(b, Then(b))]
  PROVE  Moves(b) /\ \A c \in Browsers : c # b => ~Moves(c)
<1> DEFINE was == IF same THEN proc ELSE Overtake(b, u)
           s == proc[b].todo
           r == Continue(b, Then(b))
<1>1. /\ was \in [Browsers -> Request]
      /\ \A c \in Browsers : was[c].todo = proc[c].todo
  BY OvertakeType DEF JInv, IInv, TypeOK
<1>2. proc' = [was EXCEPT ![b] = r]
  OBVIOUS
<1> HIDE DEF was
<1>3. proc'[b] = r /\ \A c \in Browsers : c # b => proc'[c] = was[c]
  BY <1>1, <1>2
<1>4. /\ proc[b] \in Request /\ s \in Seq(Task) /\ s # <<>> /\ Then(b) = Tail(s)
  BY UnderWay
<1>5. r.todo = <<>> \/ r.todo = Tail(s)
  <2>1. CASE Then(b) = <<>>
    BY <2>1 DEF Continue, Idle
  <2>2. CASE Then(b) # <<>>
    <3>1. [proc[b] EXCEPT !.todo = Then(b), !.seen = None].todo = Then(b)
      BY <1>4 DEF Request
    <3> QED BY <2>2, <3>1, <1>4 DEF Continue
  <2> QED BY <2>1, <2>2
<1> HIDE DEF s, r
<1>6. Tail(s) # s
  BY <1>4, TailIs
<1>7. r.todo # s
  BY <1>4, <1>5, <1>6
<1>8. Moves(b)
  BY <1>3, <1>7 DEF Moves, s
<1>9. \A c \in Browsers : c # b => ~Moves(c)
  BY <1>1, <1>3 DEF Moves
<1> QED BY <1>8, <1>9

\* The steps that change an account.
Wrote(b, u) ==
  /\ proc[b] # Idle /\ u = Now(b).on /\ Now(b).do \in Settings
  /\ Now(b).do = "create" => ~Exists(u)
  /\ user' = [user EXCEPT ![u] = Set(Now(b).do, user[u])]
Committed(b, u) ==
  /\ proc[b] # Idle /\ proc[b].seen # None /\ u = Now(b).on /\ Now(b).do \in Writes
  /\ user' = [user EXCEPT ![u] = Merged(Now(b).do, user[u], proc[b].seen)]
Alters(b, u) ==
  /\ Wrote(b, u) \/ Committed(b, u)
  /\ Moves(b) /\ \A c \in Browsers : c # b => ~Moves(c)

LEMMA StepAlters ==
  ASSUME JInv, IInv', [Next]_vars
  PROVE  \/ UNCHANGED user
         \/ \E b \in Browsers, u \in Users : Alters(b, u)
         \/ \E u \in Users : Lapse(u) \/ \E role \in Roles : Shell(u, role)
<1>1. ASSUME NEW b \in Browsers, Arrival(b) PROVE UNCHANGED user
  BY <1>1 DEF Arrival, Register, SignIn, SignOut, Visit, ChangePassword, Staff, Begin
<1>2. ASSUME NEW b \in Browsers, Load(b) \/ Check(b) \/ Enter(b) \/ Judge(b) PROVE UNCHANGED user
  BY <1>2 DEF Load, Check, Enter, Judge
<1>3. ASSUME NEW b \in Browsers, Write(b), user' # user PROVE Alters(b, Now(b).on) /\ Now(b).on \in Users
  <2> DEFINE u == Now(b).on
             row == Set(Now(b).do, user[u])
             same == row = user[u]
  <2>1. /\ proc[b] # Idle /\ Now(b).do \in Settings /\ ~(Now(b).do = "create" /\ Exists(u))
        /\ user' = [user EXCEPT ![u] = row]
        /\ proc' = [(IF same THEN proc ELSE Overtake(b, u)) EXCEPT ![b] = Continue(b, Then(b))]
    BY <1>3 DEF Write
  <2>2. u \in Users /\ same \in BOOLEAN
    BY <2>1, UnderWay
  <2>3. Wrote(b, u)
    BY <2>1 DEF Wrote
  <2> HIDE DEF u, row, same
  <2>4. Moves(b) /\ \A c \in Browsers : c # b => ~Moves(c)
    BY <2>1, <2>2, ShorterMoves
  <2> QED BY <2>2, <2>3, <2>4 DEF Alters, u
<1>4. ASSUME NEW b \in Browsers, Commit(b), user' # user PROVE Alters(b, Now(b).on) /\ Now(b).on \in Users
  <2> DEFINE u == Now(b).on
             row == Merged(Now(b).do, user[u], proc[b].seen)
             same == row = user[u]
  <2>1. /\ proc[b] # Idle /\ proc[b].seen # None
        /\ user' = [user EXCEPT ![u] = row]
        /\ proc' = [(IF same THEN proc ELSE Overtake(b, u)) EXCEPT ![b] = Continue(b, Then(b))]
    BY <1>4 DEF Commit
  <2>2. u \in Users /\ same \in BOOLEAN /\ Now(b) = Head(proc[b].todo)
    BY <2>1, UnderWay
  <2>3. Now(b).do \in Writes
    BY <2>1, <2>2 DEF JInv, IInv, Loaded
  <2>4. Committed(b, u)
    BY <2>1, <2>3 DEF Committed
  <2> HIDE DEF u, row, same
  <2>5. Moves(b) /\ \A c \in Browsers : c # b => ~Moves(c)
    BY <2>1, <2>2, ShorterMoves
  <2> QED BY <2>2, <2>4, <2>5 DEF Alters, u
<1>5. ASSUME NEW b \in Browsers, Crash(b) PROVE UNCHANGED user
  BY <1>5 DEF Crash
<1>6. CASE UNCHANGED vars
  BY <1>6 DEF vars
<1> QED BY <1>1, <1>2, <1>3, <1>4, <1>5, <1>6 DEF Next, Step

\* What a lapse and the shell leave of an account.
LEMMA OutsideKeeps ==
  ASSUME JInv, NEW v \in Users, NEW u \in Users, Lapse(v) \/ \E role \in Roles : Shell(v, role)
  PROVE  /\ user'[u].pw = user[u].pw /\ user'[u].must = user[u].must
         /\ user'[u].lock = user[u].lock \/ user'[u].lock = "over"
<1>1. user \in [Users -> Row]
  BY DEF JInv, IInv, TypeOK
<1>2. CASE Lapse(v)
  <2>1. user' = [user EXCEPT ![v].lock = "over"]
    BY <1>2 DEF Lapse
  <2> QED BY <1>1, <2>1 DEF Row
<1>3. ASSUME NEW role \in Roles, Shell(v, role)
      PROVE  user'[u].pw = user[u].pw /\ user'[u].must = user[u].must /\ user'[u].lock = user[u].lock
  <2> DEFINE row == Ranked(Decided(user[v], "approved"), role)
  <2>1. user' = [user EXCEPT ![v] = row]
    BY <1>3 DEF Shell
  <2>2. row.pw = user[v].pw /\ row.must = user[v].must /\ row.lock = user[v].lock
    BY <1>1 DEF Ranked, Decided, Row
  <2> HIDE DEF row
  <2> QED BY <1>1, <2>1, <2>2
<1> QED BY <1>2, <1>3

\* ... and a helper, of the accounts it does not write.
LEMMA WroteKeeps ==
  ASSUME JInv, NEW b \in Browsers, NEW v \in Users, NEW u \in Users, Wrote(b, v)
  PROVE  /\ user'[u].pw = user[u].pw /\ user'[u].must = user[u].must /\ user'[u].lock = user[u].lock
         /\ u # v => user'[u] = user[u]
<1> DEFINE row == Set(Now(b).do, user[v])
<1>1. user \in [Users -> Row] /\ Now(b).do \in Settings /\ user' = [user EXCEPT ![v] = row]
  BY DEF JInv, IInv, TypeOK, Wrote
<1>2. row.pw = user[v].pw /\ row.must = user[v].must /\ row.lock = user[v].lock
  BY <1>1, SetKeeps
<1> HIDE DEF row
<1> QED BY <1>1, <1>2

LEMMA CommittedIs ==
  ASSUME JInv, NEW b \in Browsers, NEW v \in Users, Committed(b, v)
  PROVE  /\ proc[b] # Idle /\ Now(b).on = v /\ Now(b).do \in Writes
         /\ user \in [Users -> Row] /\ user[v] \in Row /\ proc[b].seen \in Row
         /\ user'[v] = Merged(Now(b).do, user[v], proc[b].seen)
         /\ \A u \in Users : u # v => user'[u] = user[u]
<1>1. TypeOK /\ proc[b] \in Request
  BY UnderWay DEF Committed
<1> QED BY <1>1 DEF Committed, TypeOK, Request

\* Staff lock, and nobody's sign-in lifts the lock.
LEMMA LockStep ==
  ASSUME JInv, IInv', [Next]_vars, NEW u \in Users, user[u].lock = "staff",
         user'[u].lock \notin {"staff", "over"}
  PROVE  \E b \in Browsers : Moves(b) /\ (proc[b].page \in {"unlock", "reset"} \/ u \in proc[b].under)
<1>1. PICK b \in Browsers, v \in Users : Alters(b, v)
  <2>1. ~ UNCHANGED user
    OBVIOUS
  <2>2. ~ \E v \in Users : Lapse(v) \/ \E role \in Roles : Shell(v, role)
    BY OutsideKeeps
  <2> QED BY <2>1, <2>2, StepAlters
<1>2. Committed(b, v)
  BY <1>1, WroteKeeps DEF Alters
<1>3. /\ proc[b] # Idle /\ Now(b).on = v /\ Now(b).do \in Writes /\ user[v] \in Row
      /\ proc[b].seen \in Row /\ user'[v] = Merged(Now(b).do, user[v], proc[b].seen)
      /\ \A w \in Users : w # v => user'[w] = user[w]
  BY <1>2, CommittedIs
<1>4. u = v
  BY <1>3
<1> DEFINE new == Merged(Now(b).do, user[v], proc[b].seen)
<1>5. /\ Now(b).do \in {"setown", "settemp"} => new.lock = user[v].lock
      /\ Now(b).do = "lock" => new.lock = "staff"
  BY <1>3, MergedKeepsLock
<1>6. Now(b).do \in {"clear", "fail"}
  BY <1>3, <1>4, <1>5 DEF Writes
<1>7. proc[b].page \in {"unlock", "reset"} \/ u \in proc[b].under
  BY <1>3, <1>4, <1>6, AtHead DEF Live
<1>8. Moves(b)
  BY <1>1 DEF Alters
<1> QED BY <1>7, <1>8

\* Staff issue a password, and nobody makes it one for good.
LEMMA TempStep ==
  ASSUME JInv, IInv', [Next]_vars, NEW u \in Users, user'[u].pw = "temp", ~user'[u].must,
         ~(user[u].pw = "temp" /\ ~user[u].must)
  PROVE  \E b \in Browsers : Moves(b) /\ u \in proc[b].under
<1>1. PICK b \in Browsers, v \in Users : Alters(b, v)
  <2>1. ~ UNCHANGED user
    OBVIOUS
  <2>2. ~ \E v \in Users : Lapse(v) \/ \E role \in Roles : Shell(v, role)
    BY OutsideKeeps
  <2> QED BY <2>1, <2>2, StepAlters
<1>2. Committed(b, v)
  BY <1>1, WroteKeeps DEF Alters
<1>3. /\ proc[b] # Idle /\ Now(b).on = v /\ Now(b).do \in Writes /\ user[v] \in Row
      /\ proc[b].seen \in Row /\ user'[v] = Merged(Now(b).do, user[v], proc[b].seen)
      /\ \A w \in Users : w # v => user'[w] = user[w]
  BY <1>2, CommittedIs
<1>4. u = v
  BY <1>3
<1> DEFINE do == Now(b).do
           seen == proc[b].seen
           new == Merged(do, user[v], seen)
           want == Wanted(do, seen)
<1>5. /\ new.must = IF want.must # seen.must THEN want.must ELSE user[v].must
      /\ new.pw = IF "pw" \in Renewed(do, seen) \/ want.pw # seen.pw THEN want.pw ELSE user[v].pw
      /\ do \in {"clear", "fail", "lock"} => new.must = user[v].must
  BY <1>3, MergedIs, MergedKeepsLock
<1>6. new.pw = "temp" /\ ~new.must
  BY <1>3, <1>4
<1>7. CASE do = "setown"
  <2>1. want.pw = "own" /\ "pw" \in Renewed(do, seen)
    BY <1>3, <1>7 DEF Wanted, SetPassword, Renewed, Row
  <2> HIDE DEF want, new
  <2>2. new.pw = "own"
    BY <1>5, <2>1
  <2> QED BY <1>6, <2>2
<1>8. CASE do \in {"clear", "fail", "lock"}
  <2>1. "pw" \notin Renewed(do, seen)
    BY <1>8 DEF Renewed
  <2>2. want.pw # seen.pw => want.pw = "blank"
    BY <1>3, <1>8 DEF Wanted, Cleared, Failed, Locked, Credentials, Row
  <2> HIDE DEF want, new
  <2>3. user[v].pw = "temp"
    BY <1>5, <1>6, <2>1, <2>2
  <2>4. new.must = user[v].must
    BY <1>5, <1>8
  <2> QED BY <1>4, <1>6, <2>3, <2>4
<1>9. CASE do = "settemp"
  <2>1. want.must = TRUE
    BY <1>3, <1>9 DEF Wanted, Temporary, SetPassword, Row
  <2> HIDE DEF want, new
  <2>2. want.must = seen.must
    BY <1>5, <1>6, <2>1
  <2>3. new.must = user[v].must
    BY <1>5, <2>2
  <2>4. seen # None
    BY <1>2 DEF Committed
  <2>5. Steady(user, proc[b]) /\ Now(b) = Head(proc[b].todo)
    BY <1>3, UnderWay DEF Apt
  <2>6. v \notin proc[b].under => user[v].must = seen.must
    BY <2>4, <2>5, <1>3 DEF Steady
  <2>7. v \in proc[b].under
    BY <1>6, <2>1, <2>2, <2>3, <2>6
  <2>8. Moves(b)
    BY <1>1 DEF Alters
  <2> QED BY <1>4, <2>7, <2>8
<1> QED BY <1>3, <1>7, <1>8, <1>9 DEF Writes

\* Who acts from the console may.
LEMMA PowerStep ==
  ASSUME JInv, NEW b \in Browsers, Acts(b), {cookie[b], proc[b].on} \cap proc[b].under = {}
  PROVE  /\ user[cookie[b]].role \in Holders(proc[b].page)
         /\ user[cookie[b]].approval = "approved" /\ ~user[cookie[b]].must
         /\ proc[b].page \in {"unlock", "lock", "reset"} =>
              Outranks(user[cookie[b]].role, user[proc[b].on].role)
<1>1. proc[b].page # None /\ Judged(proc[b].todo) /\ Apt(user, cookie[b], proc[b])
  BY DEF Acts, Judged, JInv
<1>2. cookie[b] \notin proc[b].under /\ proc[b].on \notin proc[b].under
  OBVIOUS
<1>3. /\ user[cookie[b]].role = proc[b].rank /\ proc[b].rank \in Holders(proc[b].page)
      /\ user[cookie[b]].approval = "approved" /\ ~user[cookie[b]].must
  BY <1>1, <1>2 DEF Apt, Power
<1>4. proc[b].page \in {"unlock", "lock", "reset"} => Outranks(proc[b].rank, user[proc[b].on].role)
  BY <1>1, <1>2 DEF Apt, Above, Higher
<1> QED BY <1>3, <1>4

-----------------------------------------------------------------------------
(* The theorems.                                                           *)

\* lock() by staff stands until its time is over or staff lift it, but for a
\* request under way while the account's row was changed, as by the lock.
THEOREM StaffLocksHold == Spec => StaffLockHolds
<1>1. JInv /\ JInv' /\ [Next]_vars =>
        [\A u \in Users : user[u].lock = "staff" /\ user'[u].lock \notin {"staff", "over"} =>
           \E b \in Browsers : Moves(b) /\ (proc[b].page \in {"unlock", "reset"} \/ u \in proc[b].under)]_vars
  BY LockStep DEF JInv
<1> QED BY <1>1, JAlways, PTL DEF Spec, StaffLockHolds

\* issue_temporary_password() leaves a password to be changed first, unless
\* the account's row was changed while the request was under way.
THEOREM TempsAreForced == Spec => TempIsForced
<1>1. JInv /\ JInv' /\ [Next]_vars =>
        [\A u \in Users : (user'[u].pw = "temp" /\ ~user'[u].must) /\ user'[u] # user[u] =>
           \/ user[u].pw = "temp" /\ ~user[u].must
           \/ \E b \in Browsers : Moves(b) /\ u \in proc[b].under]_vars
  BY TempStep DEF JInv
<1> QED BY <1>1, JAlways, PTL DEF Spec, TempIsForced

\* _may_act_on() and require() hold when the account changes, and not only
\* when they were evaluated, if neither row was changed in between.
THEOREM PowersAreCurrent == Spec => PowerIsCurrent
<1>1. JInv /\ [Next]_vars =>
        [\A b \in Browsers :
           Acts(b) /\ {cookie[b], proc[b].on} \cap proc[b].under = {} =>
           /\ user[cookie[b]].role \in Holders(proc[b].page) /\ user[cookie[b]].approval = "approved"
           /\ ~user[cookie[b]].must
           /\ proc[b].page \in {"unlock", "lock", "reset"} =>
                Outranks(user[cookie[b]].role, user[proc[b].on].role)]_vars
  BY PowerStep
<1> QED BY <1>1, JAlways, PTL DEF Spec, PowerIsCurrent

(***************************************************************************)
(* Guesses.                                                                *)
(***************************************************************************)

-----------------------------------------------------------------------------
(* The recursive function Ways.                                            *)

N == Cardinality(Browsers)

LEMMA NType == N \in Nat /\ N >= 1
<1>1. N \in Nat /\ N # 0
  BY BoundAssumption, FS_CardinalityType, FS_EmptySet DEF N
<1> QED BY <1>1

\* The equation of Ways, and what it says up to m.
Nothing == [n \in Nat |-> IF n = 0 THEN 0 ELSE 1]
Totals(f) == [n \in Nat |-> SumFunctionOnSet(f, 1 .. n)]
Tower(g, m) == /\ DOMAIN g = 0 .. m /\ g[0] = Nothing
               /\ \A k \in 1 .. m : g[k] = Totals(g[k - 1])

LEMMA TowersAgree ==
  ASSUME NEW k \in Nat, NEW m \in Nat, NEW g, NEW h, Tower(g, k), Tower(h, m),
         NEW n \in Nat, n <= k, n <= m
  PROVE  g[n] = h[n]
<1> DEFINE Q == {i \in Nat : i <= k /\ i <= m /\ g[i] # h[i]}
<1>1. SUFFICES ASSUME Q # {} PROVE FALSE
  OBVIOUS
<1>2. PICK i \in Q : \A j \in Q : i <= j
  <2>1. Q \subseteq Nat
    OBVIOUS
  <2> HIDE DEF Q
  <2> QED BY <1>1, <2>1, SmallestNumber
<1>3. i # 0
  BY DEF Tower
<1>4. i \in 1 .. k /\ i \in 1 .. m /\ i - 1 \in Nat
  BY <1>3
<1>5. g[i - 1] = h[i - 1]
  BY <1>2, <1>4
<1> QED BY <1>4, <1>5 DEF Tower

LEMMA TowersExist ==
  ASSUME NEW m \in Nat
  PROVE  \E g : Tower(g, m)
<1> DEFINE Q == {n \in Nat : ~ \E g : Tower(g, n)}
<1>1. SUFFICES ASSUME Q # {} PROVE FALSE
  OBVIOUS
<1>2. PICK n \in Q : \A j \in Q : n <= j
  <2>1. Q \subseteq Nat
    OBVIOUS
  <2> HIDE DEF Q
  <2> QED BY <1>1, <2>1, SmallestNumber
<1>3. n \in Nat /\ ~ \E g : Tower(g, n)
  OBVIOUS
<1>4. n # 0
  <2>1. Tower([i \in 0 .. 0 |-> Nothing], 0)
    BY DEF Tower
  <2> QED BY <2>1, <1>3
<1>5. n - 1 \in Nat /\ n - 1 \notin Q
  BY <1>2, <1>3, <1>4
<1>6. PICK g : Tower(g, n - 1)
  BY <1>5
<1> DEFINE h == [i \in 0 .. n |-> IF i = n THEN Totals(g[n - 1]) ELSE g[i]]
<1>7. Tower(h, n)
  <2>1. DOMAIN h = 0 .. n /\ h[0] = Nothing
    BY <1>3, <1>4, <1>6 DEF Tower
  <2>2. ASSUME NEW i \in 1 .. n PROVE h[i] = Totals(h[i - 1])
    <3>1. i - 1 \in 0 .. n /\ i - 1 # n /\ i \in 0 .. n
      BY <1>3
    <3>2. h[i - 1] = g[i - 1]
      BY <3>1
    <3>3. CASE i = n
      BY <3>1, <3>2, <3>3
    <3>4. CASE i # n
      <4>1. i \in 1 .. n - 1
        BY <1>3, <3>4
      <4>2. g[i] = Totals(g[i - 1])
        BY <4>1, <1>6 DEF Tower
      <4> QED BY <3>1, <3>2, <3>4, <4>2
    <3> QED BY <3>3, <3>4
  <2> HIDE DEF h
  <2> QED BY <2>1, <2>2 DEF Tower
<1> QED BY <1>3, <1>7

LEMMA WaysIs == Ways = [m \in Nat |-> IF m = 0 THEN Nothing ELSE Totals(Ways[m - 1])]
<1> DEFINE Fine(g) == g = [m \in Nat |-> IF m = 0 THEN Nothing ELSE Totals(g[m - 1])]
           at(m) == CHOOSE g : Tower(g, m)
           G == [m \in Nat |-> at(m)[m]]
<1>1. \A m \in Nat : Tower(at(m), m)
  BY TowersExist
<1>2. ASSUME NEW n \in Nat
      PROVE  G[n] = IF n = 0 THEN Nothing ELSE Totals(G[n - 1])
  <2>1. G[n] = at(n)[n] /\ Tower(at(n), n)
    BY <1>1
  <2>2. CASE n = 0
    BY <2>1, <2>2 DEF Tower
  <2>3. CASE n # 0
    <3>1. n - 1 \in Nat /\ n - 1 <= n /\ n \in 1 .. n /\ n - 1 <= n - 1
      BY <2>3
    <3>2. G[n - 1] = at(n - 1)[n - 1] /\ Tower(at(n - 1), n - 1)
      BY <1>1, <3>1
    <3> HIDE DEF at, G
    <3>3. at(n - 1)[n - 1] = at(n)[n - 1]
      BY <2>1, <3>1, <3>2, TowersAgree
    <3> QED BY <2>1, <2>3, <3>1, <3>2, <3>3 DEF Tower
  <2> QED BY <2>2, <2>3
<1> HIDE DEF at
<1>3. Fine(G)
  <2> DEFINE F == [m \in Nat |-> IF m = 0 THEN Nothing ELSE Totals(G[m - 1])]
  <2>1. \A n \in Nat : G[n] = F[n]
    BY <1>2
  <2>2. G = [n \in Nat |-> G[n]] /\ F = [n \in Nat |-> F[n]]
    OBVIOUS
  <2> HIDE DEF G, F
  <2>3. G = F
    BY <2>1, <2>2
  <2> QED BY <2>3 DEF F
<1>4. Ways = CHOOSE g : Fine(g)
  BY DEF Ways, Nothing, Totals
<1> HIDE DEF Fine
<1>5. Fine(Ways)
  BY <1>3, <1>4
<1> QED BY <1>5 DEF Fine

LEMMA WaysStep ==
  /\ \A n \in Nat : Ways[0][n] = IF n = 0 THEN 0 ELSE 1
  /\ \A m \in Nat \ {0}, n \in Nat : Ways[m][n] = SumFunctionOnSet(Ways[m - 1], 1 .. n)
<1> DEFINE G == [m \in Nat |-> IF m = 0 THEN Nothing ELSE Totals(Ways[m - 1])]
<1>1. Ways = G
  BY WaysIs
<1>2. G[0] = Nothing /\ \A m \in Nat \ {0} : G[m] = Totals(Ways[m - 1])
  OBVIOUS
<1> HIDE DEF G
<1>3. Ways[0] = Nothing /\ \A m \in Nat \ {0} : Ways[m] = Totals(Ways[m - 1])
  BY <1>1, <1>2
<1> QED BY <1>3 DEF Nothing, Totals

LEMMA Interval ==
  ASSUME NEW n \in Nat
  PROVE  IsFiniteSet(1 .. n) /\ 1 .. n \subseteq Nat
BY FS_Interval

LEMMA WaysType == \A m, n \in Nat : Ways[m][n] \in Nat
<1> DEFINE Q == {m \in Nat : \E n \in Nat : Ways[m][n] \notin Nat}
<1>1. SUFFICES ASSUME Q # {} PROVE FALSE
  OBVIOUS
<1>2. PICK m \in Q : \A j \in Q : m <= j
  <2>1. Q \subseteq Nat
    OBVIOUS
  <2> HIDE DEF Q
  <2> QED BY <1>1, <2>1, SmallestNumber
<1>3. m \in Nat \ {0} /\ m - 1 \in Nat
  BY WaysStep
<1>4. \A n \in Nat : Ways[m - 1][n] \in Nat
  BY <1>2, <1>3
<1>5. ASSUME NEW n \in Nat PROVE Ways[m][n] \in Nat
  <2> DEFINE f == Ways[m - 1]
  <2>1. Ways[m][n] = SumFunctionOnSet(f, 1 .. n)
    BY <1>3, WaysStep
  <2>2. \A x \in 1 .. n : f[x] \in Nat
    BY <1>4, Interval
  <2> HIDE DEF f
  <2> QED BY <2>1, <2>2, Interval, SumType
<1> QED BY <1>5

\* A multiset either has the last kind of thing in it or not.
LEMMA WaysSplit ==
  ASSUME NEW m \in Nat \ {0}, NEW n \in Nat
  PROVE  Ways[m][n + 1] = Ways[m][n] + Ways[m - 1][n + 1]
<1> DEFINE f == Ways[m - 1]
<1>1. /\ m - 1 \in Nat /\ Ways[m][n + 1] = SumFunctionOnSet(f, 1 .. n + 1)
      /\ Ways[m][n] = SumFunctionOnSet(f, 1 .. n)
  BY WaysStep
<1>2. \A x \in Nat : f[x] \in Nat
  BY <1>1, WaysType
<1>3. 1 .. n + 1 = (1 .. n) \cup {n + 1} /\ n + 1 \notin 1 .. n
  OBVIOUS
<1> HIDE DEF f
<1>4. \A x \in (1 .. n) \cup {n + 1} : f[x] \in Nat
  BY <1>2
<1>5. SumFunctionOnSet(f, (1 .. n) \cup {n + 1}) = SumFunctionOnSet(f, 1 .. n) + f[n + 1]
  BY <1>3, <1>4, Interval, SumAdd
<1> QED BY <1>1, <1>3, <1>5 DEF f

LEMMA WaysGrows ==
  ASSUME NEW m \in Nat, NEW k \in Nat
  PROVE  \A n \in Nat : k <= n => Ways[m][k] <= Ways[m][n]
<1> DEFINE Q == {n \in Nat : k <= n /\ ~(Ways[m][k] <= Ways[m][n])}
<1>1. SUFFICES ASSUME Q # {} PROVE FALSE
  OBVIOUS
<1>2. PICK n \in Q : \A j \in Q : n <= j
  <2>1. Q \subseteq Nat
    OBVIOUS
  <2> HIDE DEF Q
  <2> QED BY <1>1, <2>1, SmallestNumber
<1>3. n \in Nat /\ k <= n /\ ~(Ways[m][k] <= Ways[m][n]) /\ Ways[m][k] \in Nat
  BY WaysType
<1>4. n # k /\ n - 1 \in Nat /\ k <= n - 1 /\ Ways[m][n - 1] \in Nat
  <2>1. n # k
    BY <1>3
  <2>2. n - 1 \in Nat /\ k <= n - 1
    BY <1>3, <2>1
  <2> QED BY <2>1, <2>2, WaysType
<1>5. Ways[m][k] <= Ways[m][n - 1]
  BY <1>2, <1>4
<1>6. Ways[m][n - 1] <= Ways[m][n]
  <2>1. CASE m = 0
    BY <1>3, <1>4, <2>1, WaysStep
  <2>2. CASE m # 0
    <3> DEFINE i == n - 1
    <3>1. i \in Nat /\ i + 1 = n
      BY <1>3, <1>4
    <3> HIDE DEF i
    <3>2. Ways[m][i + 1] = Ways[m][i] + Ways[m - 1][i + 1]
      BY <2>2, <3>1, WaysSplit
    <3>3. Ways[m][i] \in Nat /\ Ways[m - 1][i + 1] \in Nat
      BY <2>2, <3>1, WaysType
    <3>4. Ways[m][i] <= Ways[m][i + 1]
      BY <3>2, <3>3
    <3> QED BY <3>1, <3>4 DEF i
  <2> QED BY <2>1, <2>2
<1>7. Ways[m][n] \in Nat
  BY <1>3, WaysType
<1> QED BY <1>3, <1>4, <1>5, <1>6, <1>7

\* The number of multisets of m things of n + 1 kinds, by how many of the
\* things are of the first n.
Column(n) == [j \in Nat |-> Ways[j][n]]

LEMMA WaysSum ==
  ASSUME NEW n \in Nat
  PROVE  \A k \in Nat : Ways[k][n + 1] = 1 + SumFunctionOnSet(Column(n), 1 .. k)
<1> DEFINE f == Column(n)
           Q == {k \in Nat : Ways[k][n + 1] # 1 + SumFunctionOnSet(f, 1 .. k)}
<1>1. SUFFICES ASSUME Q # {} PROVE FALSE
  OBVIOUS
<1>2. PICK k \in Q : \A j \in Q : k <= j
  <2>1. Q \subseteq Nat
    OBVIOUS
  <2> HIDE DEF Q
  <2> QED BY <1>1, <2>1, SmallestNumber
<1>3. \A j \in Nat : f[j] = Ways[j][n] /\ f[j] \in Nat
  BY WaysType DEF Column
<1> HIDE DEF f
<1>4. k \in Nat /\ Ways[k][n + 1] # 1 + SumFunctionOnSet(f, 1 .. k)
  OBVIOUS
<1>5. k # 0
  <2>1. Ways[0][n + 1] = 1
    BY WaysStep
  <2>2. SumFunctionOnSet(f, 1 .. 0) = 0
    <3>1. 1 .. 0 = {}
      OBVIOUS
    <3> QED BY <3>1, SumEmpty
  <2> QED BY <1>4, <2>1, <2>2
<1> DEFINE i == k - 1
<1>6. i \in Nat /\ k = i + 1 /\ i \notin Q /\ k \in Nat \ {0}
  BY <1>2, <1>4, <1>5
<1> HIDE DEF i
<1>7. Ways[i][n + 1] = 1 + SumFunctionOnSet(f, 1 .. i)
  BY <1>6
<1> HIDE DEF Q
<1>8. SumFunctionOnSet(f, 1 .. k) = SumFunctionOnSet(f, 1 .. i) + f[k]
  <2>1. 1 .. k = (1 .. i) \cup {k} /\ k \notin 1 .. i
    BY <1>6
  <2>2. \A x \in (1 .. i) \cup {k} : f[x] \in Nat
    BY <1>3, <1>6
  <2>3. SumFunctionOnSet(f, (1 .. i) \cup {k}) = SumFunctionOnSet(f, 1 .. i) + f[k]
    BY <1>6, <2>1, <2>2, Interval, SumAdd
  <2> QED BY <2>1, <2>3
<1>9. Ways[k][n + 1] = Ways[k][n] + Ways[i][n + 1]
  <2>1. k - 1 = i
    BY <1>6
  <2> QED BY <1>6, <2>1, WaysSplit
<1>10. f[k] = Ways[k][n] /\ f[k] \in Nat /\ SumFunctionOnSet(f, 1 .. i) \in Nat
  BY <1>3, <1>6, Interval, SumType
<1> QED BY <1>4, <1>7, <1>8, <1>9, <1>10

-----------------------------------------------------------------------------
(* How many wrong passwords may have been counted.                         *)

\* The list counts a wrong password of u, or may come to, with no lockout
\* cleared first.
Arms(s, u) ==
  \E i \in 1 .. Len(s) : /\ s[i].do \in {"check", "fail"} /\ s[i].on = u
                         /\ \A j \in 1 .. i - 1 : s[j] # [do |-> "clear", on |-> u]
Armed(p, u) == {b \in Browsers : Arms(p[b].todo, u)}

\* The request has loaded the count it will add to.
Taken(r, u) == r.todo # <<>> /\ Head(r.todo) = [do |-> "fail", on |-> u] /\ r.seen # None

\* The browsers that no longer hold a count of u below l, ...
Past(p, u, l) == {b \in Browsers : Taken(p[b], u) => p[b].seen.fails >= l}

\* ... which matter once the count itself is there.
Reached(row, p, u, l) == IF row.fails < l THEN 0 ELSE Cardinality(Past(p, u, l))

\* The wrong passwords it can have taken to bring the browsers past each count.
Used(row, p, u) == [m \in 1 .. Limit - 1 |-> Ways[m][Reached(row, p, u, Limit - m)]]

Top == Ways[Limit - 1][N + 1]

\* The requests p have the account u, its row being row, with w counted.
Bounded(row, p, w, u) ==
  IF row.lock = "none" THEN w <= SumFunctionOnSet(Used(row, p, u), 1 .. Limit - 1)
                       ELSE w + Cardinality(Armed(p, u)) < N + Top

Fits(u) == Bounded(user[u], proc, wrong[u], u)

GInv == JInv /\ \A u \in Users : Fits(u)

LEMMA LevelsAre ==
  /\ Limit - 1 \in Nat /\ IsFiniteSet(1 .. Limit - 1)
  /\ \A m \in 1 .. Limit - 1 : m \in Nat \ {0} /\ Limit - m \in Nat \ {0}
BY BoundAssumption, Interval

LEMMA SomeBrowsers ==
  ASSUME NEW S, S \subseteq Browsers
  PROVE  IsFiniteSet(S) /\ Cardinality(S) \in Nat /\ Cardinality(S) <= N
BY BoundAssumption, FS_Subset, FS_CardinalityType DEF N

LEMMA PastType ==
  ASSUME NEW p, NEW u, NEW l
  PROVE  IsFiniteSet(Past(p, u, l)) /\ Cardinality(Past(p, u, l)) \in Nat /\ Cardinality(Past(p, u, l)) <= N
<1>1. Past(p, u, l) \subseteq Browsers
  BY DEF Past
<1> QED BY <1>1, SomeBrowsers

LEMMA ReachedType ==
  ASSUME NEW row, NEW p, NEW u, NEW l
  PROVE  Reached(row, p, u, l) \in Nat /\ Reached(row, p, u, l) <= N
BY PastType, NType DEF Reached

LEMMA UsedType ==
  ASSUME NEW row, NEW p, NEW u
  PROVE  \A m \in 1 .. Limit - 1 : /\ Used(row, p, u)[m] \in Nat
                                   /\ Used(row, p, u)[m] = Ways[m][Reached(row, p, u, Limit - m)]
<1> TAKE m \in 1 .. Limit - 1
<1>1. Used(row, p, u)[m] = Ways[m][Reached(row, p, u, Limit - m)]
  BY DEF Used
<1>2. Reached(row, p, u, Limit - m) \in Nat /\ m \in Nat
  BY ReachedType, LevelsAre
<1> QED BY <1>1, <1>2, WaysType

LEMMA UsedSum ==
  ASSUME NEW row, NEW p, NEW u
  PROVE  /\ SumFunctionOnSet(Used(row, p, u), 1 .. Limit - 1) \in Nat /\ Top \in Nat
         /\ SumFunctionOnSet(Used(row, p, u), 1 .. Limit - 1) < Top
<1> DEFINE F == Used(row, p, u)
           C == Column(N)
<1>1. \A m \in 1 .. Limit - 1 : F[m] \in Nat /\ C[m] \in Nat /\ F[m] <= C[m]
  <2> TAKE m \in 1 .. Limit - 1
  <2>1. m \in Nat /\ F[m] \in Nat /\ F[m] = Ways[m][Reached(row, p, u, Limit - m)]
    BY UsedType, LevelsAre
  <2>2. Reached(row, p, u, Limit - m) \in Nat /\ Reached(row, p, u, Limit - m) <= N /\ N \in Nat
    BY ReachedType, NType
  <2>3. Ways[m][Reached(row, p, u, Limit - m)] <= Ways[m][N] /\ Ways[m][N] \in Nat
    BY <2>1, <2>2, WaysGrows, WaysType
  <2> QED BY <2>1, <2>3 DEF Column
<1> HIDE DEF F, C
<1>2. SumFunctionOnSet(F, 1 .. Limit - 1) <= SumFunctionOnSet(C, 1 .. Limit - 1)
  BY <1>1, LevelsAre, SumMonotonic
<1>3. SumFunctionOnSet(F, 1 .. Limit - 1) \in Nat /\ SumFunctionOnSet(C, 1 .. Limit - 1) \in Nat
  BY <1>1, LevelsAre, SumType
<1>4. Top = 1 + SumFunctionOnSet(C, 1 .. Limit - 1)
  BY LevelsAre, NType, WaysSum DEF Top, C
<1> QED BY <1>2, <1>3, <1>4 DEF F

LEMMA ArmedType ==
  ASSUME NEW p, NEW u
  PROVE  /\ IsFiniteSet(Armed(p, u)) /\ Armed(p, u) \subseteq Browsers
         /\ Cardinality(Armed(p, u)) \in Nat /\ Cardinality(Armed(p, u)) <= N
<1>1. Armed(p, u) \subseteq Browsers
  BY DEF Armed
<1> QED BY <1>1, SomeBrowsers

\* Armed lists.
LEMMA ArmsTail ==
  ASSUME NEW s \in Seq(Task), s # <<>>, NEW u, Head(s) # [do |-> "clear", on |-> u], Arms(Tail(s), u)
  PROVE  Arms(s, u)
<1> DEFINE t == Tail(s)
<1>1. /\ Len(s) \in Nat /\ Len(s) >= 1 /\ Len(t) = Len(s) - 1 /\ Head(s) = s[1]
      /\ \A i \in 1 .. Len(t) : i + 1 \in 1 .. Len(s) /\ t[i] = s[i + 1]
  BY TailIs
<1>2. Arms(t, u)
  OBVIOUS
<1> HIDE DEF t
<1>3. PICK i \in 1 .. Len(t) : /\ t[i].do \in {"check", "fail"} /\ t[i].on = u
                               /\ \A j \in 1 .. i - 1 : t[j] # [do |-> "clear", on |-> u]
  BY <1>2 DEF Arms
<1>4. i + 1 \in 1 .. Len(s) /\ s[i + 1] = t[i]
  BY <1>1
<1>5. ASSUME NEW j \in 1 .. (i + 1) - 1 PROVE s[j] # [do |-> "clear", on |-> u]
  <2>1. CASE j = 1
    BY <2>1, <1>1
  <2>2. CASE j # 1
    <3>1. j - 1 \in 1 .. i - 1 /\ j - 1 \in 1 .. Len(t) /\ (j - 1) + 1 = j
      BY <1>1, <2>2
    <3>2. t[j - 1] = s[j]
      BY <1>1, <3>1
    <3> QED BY <1>3, <3>1, <3>2
  <2> QED BY <2>1, <2>2
<1> QED BY <1>3, <1>4, <1>5 DEF Arms

LEMMA ArmsHead ==
  ASSUME NEW s \in Seq(Task), s # <<>>, NEW u, Head(s).do \in {"check", "fail"}, Head(s).on = u
  PROVE  Arms(s, u)
<1>1. 1 \in 1 .. Len(s) /\ Head(s) = s[1] /\ 1 .. 1 - 1 = {}
  BY TailIs
<1> QED BY <1>1 DEF Arms

-----------------------------------------------------------------------------
(* Steps that count no wrong password.                                     *)

\* With r2 for r, the account u being row, a browser holds no older count of
\* it than it did, and counts no more passwords.
Mild(row, r, r2, u) ==
  /\ Arms(r2.todo, u) => row.lock = "none" \/ Arms(r.todo, u)
  /\ Taken(r2, u) => \/ Taken(r, u) /\ r2.seen.fails = r.seen.fails
                     \/ r2.seen.fails = row.fails
Milder(c, u) == Mild(user[u], proc[c], proc'[c], u)

LEMMA QuietBounded ==
  ASSUME NEW row \in Row, NEW row2 \in Row, NEW p, NEW p2, NEW w \in Nat, NEW u,
         row2.lock = "none" => row.lock = "none" /\ row2.fails = row.fails,
         \A c \in Browsers : Mild(row, p[c], p2[c], u),
         Bounded(row, p, w, u)
  PROVE  Bounded(row2, p2, w, u)
<1> DEFINE F == Used(row, p, u)
           G == Used(row2, p2, u)
<1>1. /\ SumFunctionOnSet(F, 1 .. Limit - 1) \in Nat /\ Top \in Nat
      /\ SumFunctionOnSet(F, 1 .. Limit - 1) < Top
  BY UsedSum
<1>2. CASE row2.lock = "none"
  <2>1. w <= SumFunctionOnSet(F, 1 .. Limit - 1)
    BY <1>2 DEF Bounded
  <2>2. ASSUME NEW m \in 1 .. Limit - 1
        PROVE  F[m] \in Nat /\ G[m] \in Nat /\ F[m] <= G[m]
    <3> DEFINE l == Limit - m
    <3>1. m \in Nat /\ l \in Nat /\ row.fails \in Nat /\ row2.fails = row.fails
      BY <1>2, LevelsAre, BoundAssumption DEF Row
    <3>2. /\ F[m] \in Nat /\ F[m] = Ways[m][Reached(row, p, u, l)]
          /\ G[m] \in Nat /\ G[m] = Ways[m][Reached(row2, p2, u, l)]
      BY UsedType
    <3>3. Reached(row, p, u, l) \in Nat /\ Reached(row2, p2, u, l) \in Nat
      BY ReachedType
    <3> HIDE DEF F, G, l
    <3>4. Reached(row, p, u, l) <= Reached(row2, p2, u, l)
      <4>1. CASE row.fails < l
        BY <3>1, <3>3, <4>1 DEF Reached
      <4>2. CASE ~(row.fails < l)
        <5>1. Past(p, u, l) \subseteq Past(p2, u, l)
          BY <3>1, <4>2 DEF Past, Mild
        <5>2. Cardinality(Past(p, u, l)) <= Cardinality(Past(p2, u, l))
          BY <5>1, PastType, FS_Subset
        <5> QED BY <3>1, <4>2, <5>2 DEF Reached
      <4> QED BY <4>1, <4>2
    <3> QED BY <3>1, <3>2, <3>3, <3>4, WaysGrows
  <2> HIDE DEF F, G
  <2>3. SumFunctionOnSet(F, 1 .. Limit - 1) <= SumFunctionOnSet(G, 1 .. Limit - 1)
    BY <2>2, LevelsAre, SumMonotonic
  <2>4. SumFunctionOnSet(G, 1 .. Limit - 1) \in Nat
    BY <2>2, LevelsAre, SumType
  <2>5. w <= SumFunctionOnSet(G, 1 .. Limit - 1)
    BY <1>1, <2>1, <2>3, <2>4
  <2> QED BY <1>2, <2>5 DEF Bounded, G
<1>3. CASE row2.lock # "none" /\ row.lock = "none"
  <2>1. w <= SumFunctionOnSet(F, 1 .. Limit - 1)
    BY <1>3 DEF Bounded
  <2> HIDE DEF F
  <2>2. w + Cardinality(Armed(p2, u)) < N + Top
    BY <1>1, <2>1, ArmedType, NType
  <2> QED BY <1>3, <2>2 DEF Bounded
<1>4. CASE row2.lock # "none" /\ row.lock # "none"
  <2>1. w + Cardinality(Armed(p, u)) < N + Top
    BY <1>4 DEF Bounded
  <2>2. Armed(p2, u) \subseteq Armed(p, u)
    BY <1>4 DEF Armed, Mild
  <2>3. Cardinality(Armed(p2, u)) <= Cardinality(Armed(p, u))
    BY <2>2, ArmedType, FS_Subset
  <2>4. w + Cardinality(Armed(p2, u)) < N + Top
    BY <1>1, <2>1, <2>3, ArmedType, NType
  <2> QED BY <1>4, <2>4 DEF Bounded
<1> QED BY <1>2, <1>3, <1>4

LEMMA QuietFits ==
  ASSUME TypeOK, TypeOK', NEW u \in Users, Fits(u), wrong'[u] = wrong[u],
         user'[u].lock = "none" => user[u].lock = "none" /\ user'[u].fails = user[u].fails,
         \A c \in Browsers : Milder(c, u)
  PROVE  Fits(u)'
<1> DEFINE row == user[u]
           row2 == user'[u]
           w == wrong[u]
           p == proc
           p2 == proc'
<1>1. row \in Row /\ row2 \in Row /\ w \in Nat
  BY DEF TypeOK
<1>2. \A c \in Browsers : Mild(row, p[c], p2[c], u)
  BY DEF Milder
<1>3. Bounded(row, p, w, u)
  BY DEF Fits
<1>4. row2.lock = "none" => row.lock = "none" /\ row2.fails = row.fails
  OBVIOUS
<1> HIDE DEF row, row2, w, p, p2
<1>5. Bounded(row2, p2, w, u)
  BY <1>1, <1>2, <1>3, <1>4, QuietBounded
<1> QED BY <1>5 DEF Fits, row2, p2, w

\* The requests of the others stand as they were.
LEMMA OthersMilder ==
  ASSUME NEW b, Others(b), NEW c \in Browsers, c # b, NEW u
  PROVE  Milder(c, u)
BY DEF Others, Milder, Mild, Taken

\* A step of b that leaves the accounts alone.
LEMMA OnlyRequestsFit ==
  ASSUME GInv, JInv', NEW b \in Browsers, UNCHANGED <<user, wrong>>,
         NEW r \in Request, proc' = [proc EXCEPT ![b] = r], \A u \in Users : Milder(b, u)
  PROVE  GInv'
<1>1. TypeOK /\ TypeOK'
  BY DEF GInv, JInv, IInv
<1>2. Others(b)
  BY <1>1, Alone
<1>3. ASSUME NEW u \in Users PROVE Fits(u)'
  <2>1. Fits(u) /\ wrong'[u] = wrong[u] /\ user'[u] = user[u]
    BY DEF GInv
  <2>2. \A c \in Browsers : Milder(c, u)
    BY <1>2, OthersMilder
  <2> QED BY <1>1, <2>1, <2>2, QuietFits
<1> QED BY <1>3 DEF GInv

\* A request that ends, or goes on with a list that counts nothing new.
LEMMA GoesOnFit ==
  ASSUME GInv, JInv', NEW b \in Browsers, UNCHANGED <<user, wrong>>, NEW rest,
         proc' = [proc EXCEPT ![b] = Continue(b, rest)],
         \A u \in Users : Arms(rest, u) => user[u].lock = "none" \/ Arms(proc[b].todo, u)
  PROVE  GInv'
<1> DEFINE r == Continue(b, rest)
<1>1. TypeOK /\ TypeOK' /\ proc[b] \in Request
  BY DEF GInv, JInv, IInv, TypeOK
<1>2. r = Idle \/ (r.todo = rest /\ r.seen = None)
  BY <1>1 DEF Continue, Request
<1>3. ~Taken(r, b) /\ \A u \in Users : ~Taken(r, u)
  BY <1>2, IdleType DEF Taken
<1>4. \A u \in Users : Arms(r.todo, u) => user[u].lock = "none" \/ Arms(proc[b].todo, u)
  BY <1>2, IdleType DEF Arms
<1>5. proc'[b] = r /\ proc' = [proc EXCEPT ![b] = r] /\ r \in Request
  BY <1>1 DEF TypeOK
<1> HIDE DEF r
<1>6. \A u \in Users : Milder(b, u)
  BY <1>3, <1>4, <1>5 DEF Milder, Mild
<1> QED BY <1>5, <1>6, OnlyRequestsFit

\* A request that begins without a password to check.
LEMMA BeginFit ==
  ASSUME GInv, JInv', NEW b \in Browsers, NEW page \in Pages \cup {None}, NEW on \in Users, NEW todo,
         Begin(b, page, on, todo), \A u \in Users : Arms(todo, u) => user[u].lock = "none"
  PROVE  GInv'
<1> DEFINE r == [Idle EXCEPT !.page = page, !.on = on, !.todo = todo,
                             !.rank = IF page = None THEN "student" ELSE user[cookie[b]].role]
<1>1. proc' = [proc EXCEPT ![b] = r] /\ UNCHANGED <<user, wrong>>
  BY DEF Begin
<1>2. r.todo = todo /\ r.seen = None
  BY DEF Idle
<1>3. proc'[b] = r /\ proc' \in [Browsers -> Request]
  BY <1>1 DEF GInv, JInv, IInv, TypeOK
<1> HIDE DEF r
<1>4. \A u \in Users : Milder(b, u)
  BY <1>2, <1>3 DEF Milder, Mild, Taken
<1>5. r \in Request
  BY <1>3
<1> QED BY <1>1, <1>4, <1>5, OnlyRequestsFit

LEMMA ConcatIs ==
  ASSUME NEW s \in Seq(Task), NEW t \in Seq(Task)
  PROVE  /\ s \o t \in Seq(Task)
         /\ \A i \in 1 .. Len(s \o t) :
              \/ i \in 1 .. Len(s) /\ (s \o t)[i] = s[i]
              \/ i - Len(s) \in 1 .. Len(t) /\ (s \o t)[i] = t[i - Len(s)]
         /\ \A i \in 1 .. Len(s) : (s \o t)[i] = s[i] /\ i \in 1 .. Len(s \o t)
<1>1. s \o t \in Seq(Task) /\ Len(s \o t) = Len(s) + Len(t) /\ Len(s) \in Nat /\ Len(t) \in Nat
  BY ConcatProperties, LenProperties
<1>2. \A i \in 1 .. Len(s) + Len(t) :
        (s \o t)[i] = IF i <= Len(s) THEN s[i] ELSE t[i - Len(s)]
  BY ConcatProperties
<1> QED BY <1>1, <1>2

\* Lists that check and count no password.
Calm(s) == \A i \in 1 .. Len(s) : s[i].do \notin {"check", "fail"}

LEMMA CalmLapsed ==
  ASSUME NEW u \in Users
  PROVE  Lapsed(u) \in Seq(Task) /\ Calm(Lapsed(u))
<1>1. Lapsed(u) \in Seq(Task)
  BY LapsedType
<1>2. \A i \in 1 .. Len(Lapsed(u)) : Lapsed(u)[i] = [do |-> "clear", on |-> u]
  BY DEF Lapsed
<1> QED BY <1>1, <1>2 DEF Calm

LEMMA CalmConcat ==
  ASSUME NEW s \in Seq(Task), NEW t \in Seq(Task), Calm(s), Calm(t)
  PROVE  s \o t \in Seq(Task) /\ Calm(s \o t)
<1>1. s \o t \in Seq(Task)
  BY ConcatIs
<1>2. ASSUME NEW i \in 1 .. Len(s \o t) PROVE (s \o t)[i].do \notin {"check", "fail"}
  <2>1. CASE i \in 1 .. Len(s) /\ (s \o t)[i] = s[i]
    BY <2>1 DEF Calm
  <2>2. CASE i - Len(s) \in 1 .. Len(t) /\ (s \o t)[i] = t[i - Len(s)]
    BY <2>2 DEF Calm
  <2> QED BY <2>1, <2>2, ConcatIs
<1> QED BY <1>1, <1>2 DEF Calm

LEMMA CalmShort ==
  ASSUME NEW u \in Users, NEW d \in (Settings \cup Writes \cup {"verify", "judge"}) \ {"fail"},
         NEW e \in (Settings \cup Writes \cup {"verify", "judge"}) \ {"fail"}
  PROVE  /\ <<[do |-> d, on |-> u]>> \in Seq(Task) /\ Calm(<<[do |-> d, on |-> u]>>)
         /\ <<[do |-> d, on |-> u], [do |-> e, on |-> u]>> \in Seq(Task)
         /\ Calm(<<[do |-> d, on |-> u], [do |-> e, on |-> u]>>)
<1> DEFINE x == [do |-> d, on |-> u]
           y == [do |-> e, on |-> u]
<1>1. x \in Task /\ y \in Task
  BY DEF Task
<1>2. x.do \notin {"check", "fail"} /\ y.do \notin {"check", "fail"}
  BY RolesAre DEF Settings, Writes
<1> HIDE DEF x, y
<1>3. <<x>> \in Seq(Task) /\ Len(<<x>>) = 1 /\ <<x>>[1] = x
  BY <1>1
<1>4. <<x, y>> \in Seq(Task) /\ Len(<<x, y>>) = 2 /\ <<x, y>>[1] = x /\ <<x, y>>[2] = y
  BY <1>1
<1>5. Calm(<<x>>) /\ Calm(<<x, y>>)
  BY <1>2, <1>3, <1>4 DEF Calm
<1> QED BY <1>3, <1>4, <1>5 DEF x, y

LEMMA CalmArms ==
  ASSUME NEW s, Calm(s)
  PROVE  \A u : ~Arms(s, u)
BY DEF Calm, Arms

LEMMA RegisterFit ==
  ASSUME GInv, JInv', NEW b \in Browsers, NEW u \in Users, Register(b, u)
  PROVE  GInv'
<1> DEFINE todo == <<[do |-> "create", on |-> u], [do |-> "setown", on |-> u]>>
<1>1. Calm(todo)
  BY CalmShort DEF Settings, Writes
<1>2. Begin(b, None, u, todo)
  BY DEF Register
<1> HIDE DEF todo
<1> QED BY <1>1, <1>2, CalmArms, BeginFit

LEMMA SignInFit ==
  ASSUME GInv, JInv', NEW b \in Browsers, NEW u \in Users, SignIn(b, u)
  PROVE  GInv'
<1> DEFINE check == [do |-> "check", on |-> u]
           todo == Lapsed(u) \o <<check>>
<1>1. user[u] \in Row /\ user[u].lock \notin Live
  BY DEF GInv, JInv, IInv, TypeOK, SignIn, LockedOut
<1>2. Begin(b, None, u, todo)
  BY DEF SignIn
<1>3. check \in Task /\ check.on = u
  BY DEF Task
<1> HIDE DEF check
<1>4. ASSUME NEW v \in Users, Arms(todo, v) PROVE user[v].lock = "none"
  <2> DEFINE clear == [do |-> "clear", on |-> u]
  <2>1. CASE user[u].lock = "over"
    <3>1. Lapsed(u) = <<clear>>
      BY <2>1 DEF Lapsed
    <3>2. clear \in Task /\ clear.do = "clear"
      BY DEF Task, Writes
    <3>3. todo = <<clear>> \o <<check>>
      BY <3>1
    <3>4. PICK i \in 1 .. Len(todo) :
            /\ todo[i].do \in {"check", "fail"} /\ todo[i].on = v
            /\ \A j \in 1 .. i - 1 : todo[j] # [do |-> "clear", on |-> v]
      BY <1>4 DEF Arms
    <3>5. clear = [do |-> "clear", on |-> u]
      OBVIOUS
    <3> HIDE DEF clear, todo
    <3>6. Len(todo) = 2 /\ todo[1] = clear /\ todo[2] = check
      BY <1>3, <3>2, <3>3
    <3>7. i = 2
      BY <3>2, <3>4, <3>6
    <3>8. v = u /\ todo[1] # [do |-> "clear", on |-> v]
      BY <1>3, <3>4, <3>6, <3>7
    <3> QED BY <3>5, <3>6, <3>8
  <2>2. CASE user[u].lock # "over"
    <3>1. user[u].lock = "none"
      BY <1>1, <2>2 DEF Row, Live
    <3>2. todo = <<check>>
      <4>1. Lapsed(u) = <<>>
        BY <2>2 DEF Lapsed
      <4> QED BY <1>3, <4>1
    <3>3. PICK i \in 1 .. Len(todo) : todo[i].on = v
      BY <1>4 DEF Arms
    <3>4. Len(todo) = 1 /\ todo[1] = check
      BY <3>2
    <3> HIDE DEF todo
    <3>5. v = u
      BY <1>3, <3>3, <3>4
    <3> QED BY <3>1, <3>5
  <2> QED BY <2>1, <2>2
<1> HIDE DEF todo
<1> QED BY <1>2, <1>4, BeginFit

LEMMA VisitFit ==
  ASSUME GInv, JInv', NEW b \in Browsers, Visit(b)
  PROVE  GInv'
<1> DEFINE u == cookie[b]
<1>1. u \in Users
  BY DEF GInv, JInv, IInv, TypeOK, Visit
<1>2. Begin(b, None, u, Lapsed(u))
  BY DEF Visit
<1> HIDE DEF u
<1> QED BY <1>1, <1>2, CalmLapsed, CalmArms, BeginFit

LEMMA ChangePasswordFit ==
  ASSUME GInv, JInv', NEW b \in Browsers, ChangePassword(b)
  PROVE  GInv'
<1> DEFINE u == cookie[b]
           acts == <<[do |-> "verify", on |-> u], [do |-> "setown", on |-> u]>>
           todo == Lapsed(u) \o acts
<1>1. u \in Users
  BY DEF GInv, JInv, IInv, TypeOK, ChangePassword
<1>2. Begin(b, None, u, todo)
  BY DEF ChangePassword
<1> HIDE DEF u
<1>3. acts \in Seq(Task) /\ Calm(acts)
  BY <1>1, CalmShort DEF Writes
<1> HIDE DEF acts
<1>4. Calm(todo)
  BY <1>1, <1>3, CalmLapsed, CalmConcat
<1> HIDE DEF todo
<1> QED BY <1>1, <1>2, <1>4, CalmArms, BeginFit

LEMMA ConsoleCalm ==
  ASSUME NEW page \in Pages \ {"shell"}, NEW t \in Users
  PROVE  LET acts == Console(page)
             list == [i \in 1 .. Len(acts) |-> [do |-> acts[i], on |-> t]]
         IN  list \in Seq(Task) /\ Calm(list)
<1> DEFINE acts == Console(page)
           list == [i \in 1 .. Len(acts) |-> [do |-> acts[i], on |-> t]]
<1>1. list \in Seq(Task)
  BY ConsoleType
<1>2. \A i \in 1 .. Len(acts) : acts[i] \notin {"check", "fail"}
  <2>1. CASE page = "unlock"
    BY <2>1 DEF Console
  <2>2. CASE page = "reset"
    BY <2>2 DEF Console
  <2>3. CASE page \notin {"unlock", "reset"}
    <3>1. page \notin {"check", "fail"}
      BY RolesAre DEF Pages
    <3>2. acts = <<page>>
      BY <2>3 DEF Console
    <3> QED BY <3>1, <3>2
  <2> QED BY <2>1, <2>2, <2>3
<1>3. \A i \in 1 .. Len(acts) : list[i].do \notin {"check", "fail"}
  BY <1>2
<1>4. Len(list) = Len(acts)
  <2>1. Len(acts) \in Nat
    BY DEF Console
  <2>2. DOMAIN list = 1 .. Len(acts)
    OBVIOUS
  <2> HIDE DEF list
  <2> QED BY <1>1, <2>1, <2>2, LenProperties
<1> QED BY <1>1, <1>3, <1>4 DEF Calm

LEMMA StaffFit ==
  ASSUME GInv, JInv', NEW b \in Browsers, NEW page \in Pages \ {"shell"}, NEW t \in Users,
         Staff(b, page, t)
  PROVE  GInv'
<1> DEFINE u == cookie[b]
           judge == <<[do |-> "judge", on |-> t]>>
           acts == Console(page)
           list == [i \in 1 .. Len(acts) |-> [do |-> acts[i], on |-> t]]
           todo == Lapsed(u) \o judge \o list
<1>1. u \in Users
  BY DEF GInv, JInv, IInv, TypeOK, Staff
<1>2. Begin(b, page, t, todo)
  BY DEF Staff
<1> HIDE DEF u
<1>3. judge \in Seq(Task) /\ Calm(judge)
  <2>1. "judge" \in (Settings \cup Writes \cup {"verify", "judge"}) \ {"fail"}
    OBVIOUS
  <2> QED BY <2>1, CalmShort
<1>4. list \in Seq(Task) /\ Calm(list)
  BY ConsoleCalm
<1> HIDE DEF judge, list
<1>5. Lapsed(u) \o judge \in Seq(Task) /\ Calm(Lapsed(u) \o judge)
  BY <1>1, <1>3, CalmLapsed, CalmConcat
<1>6. Calm(todo)
  BY <1>4, <1>5, CalmConcat
<1> HIDE DEF todo
<1> QED BY <1>2, <1>6, CalmArms, BeginFit

-----------------------------------------------------------------------------
(* Requests go on.                                                         *)

LEMMA ArmsNone == \A u : ~Arms(<<>>, u)
BY DEF Arms

LEMMA SignOutFit ==
  ASSUME GInv, JInv', NEW b \in Browsers, SignOut(b)
  PROVE  GInv'
<1>1. UNCHANGED <<user, proc, wrong>>
  BY DEF SignOut
<1>2. \A u \in Users : Fits(u)' <=> Fits(u)
  BY <1>1 DEF Fits
<1> QED BY <1>2 DEF GInv

LEMMA CrashFit ==
  ASSUME GInv, JInv', NEW b \in Browsers, UNCHANGED <<user, wrong>>,
         proc' = [proc EXCEPT ![b] = Idle]
  PROVE  GInv'
<1>1. proc' = [proc EXCEPT ![b] = Continue(b, <<>>)]
  BY DEF Continue
<1> QED BY <1>1, ArmsNone, GoesOnFit

\* The rest of a list that clears no lockout first.
LEMMA RestCalm ==
  ASSUME JInv, NEW b \in Browsers, proc[b] # Idle, NEW u \in Users,
         Now(b).do # "clear" \/ Now(b).on # u, Arms(Then(b), u)
  PROVE  Arms(proc[b].todo, u)
<1> DEFINE s == proc[b].todo
<1>1. s \in Seq(Task) /\ s # <<>> /\ Now(b) = Head(s) /\ Then(b) = Tail(s)
  BY UnderWay
<1> HIDE DEF s
<1>2. Head(s) # [do |-> "clear", on |-> u] /\ Arms(Tail(s), u)
  BY <1>1
<1>3. Arms(s, u)
  BY <1>1, <1>2, ArmsTail
<1> QED BY <1>3 DEF s

LEMMA CheckFit ==
  ASSUME GInv, JInv', NEW b \in Browsers, Check(b)
  PROVE  GInv'
<1> DEFINE u == Now(b).on
           s == proc[b].todo
<1>1. proc[b] # Idle /\ Now(b).do \in {"check", "verify"} /\ UNCHANGED <<user, wrong>>
  BY DEF Check
<1>2. JInv /\ u \in Users /\ s \in Seq(Task) /\ s # <<>> /\ Now(b) = Head(s)
  BY <1>1, UnderWay DEF GInv
<1>3. PICK right \in MayMatch(u) : proc' = [proc EXCEPT ![b] = Continue(b,
         CASE Now(b).do = "verify" -> IF right THEN Then(b) ELSE <<>>
           [] Now(b).do = "check"  ->
                IF right THEN <<[do |-> "clear", on |-> u], [do |-> "enter", on |-> u]>>
                         ELSE <<[do |-> "fail", on |-> u]>>)]
  BY DEF Check
<1> DEFINE rest ==
         CASE Now(b).do = "verify" -> IF right THEN Then(b) ELSE <<>>
           [] Now(b).do = "check"  ->
                IF right THEN <<[do |-> "clear", on |-> u], [do |-> "enter", on |-> u]>>
                         ELSE <<[do |-> "fail", on |-> u]>>
<1>4. proc' = [proc EXCEPT ![b] = Continue(b, rest)]
  BY <1>3
<1>5. ASSUME NEW v \in Users, Arms(rest, v) PROVE Arms(s, v)
  <2>1. CASE Now(b).do = "verify" /\ right
    <3>1. rest = Then(b)
      BY <2>1
    <3> HIDE DEF rest
    <3> QED BY <1>1, <1>2, <1>5, <2>1, <3>1, RestCalm
  <2>2. CASE Now(b).do = "verify" /\ ~right
    <3>1. rest = <<>>
      BY <2>2
    <3> HIDE DEF rest
    <3> QED BY <1>5, <3>1, ArmsNone
  <2>3. CASE Now(b).do = "check" /\ right
    <3> DEFINE x == [do |-> "clear", on |-> u]
               y == [do |-> "enter", on |-> u]
    <3>1. rest = <<x, y>> /\ x.do = "clear" /\ y.do = "enter"
      BY <2>3
    <3> HIDE DEF rest, x, y
    <3>2. Len(<<x, y>>) = 2 /\ <<x, y>>[1] = x /\ <<x, y>>[2] = y
      OBVIOUS
    <3>3. Calm(rest)
      BY <3>1, <3>2 DEF Calm
    <3> QED BY <1>5, <3>3, CalmArms
  <2>4. CASE Now(b).do = "check" /\ ~right
    <3> DEFINE x == [do |-> "fail", on |-> u]
    <3>1. rest = <<x>> /\ x.on = u
      BY <2>4
    <3> HIDE DEF rest, x
    <3>2. Len(<<x>>) = 1 /\ <<x>>[1] = x
      OBVIOUS
    <3>3. v = u
      BY <1>5, <3>1, <3>2 DEF Arms
    <3>4. Head(s).do = "check" /\ Head(s).on = v
      BY <1>2, <2>4, <3>3
    <3> HIDE DEF s
    <3> QED BY <1>2, <3>4, ArmsHead
  <2> QED BY <1>1, <2>1, <2>2, <2>3, <2>4
<1> HIDE DEF rest
<1> QED BY <1>1, <1>4, <1>5, GoesOnFit

LEMMA EnterFit ==
  ASSUME GInv, JInv', NEW b \in Browsers, Enter(b)
  PROVE  GInv'
<1>1. /\ proc[b] # Idle /\ Now(b).do = "enter" /\ UNCHANGED <<user, wrong>>
      /\ proc' = [proc EXCEPT ![b] = Continue(b, Then(b))]
  BY DEF Enter
<1>2. \A u \in Users : Arms(Then(b), u) => Arms(proc[b].todo, u)
  BY <1>1, RestCalm DEF GInv
<1> QED BY <1>1, <1>2, GoesOnFit

LEMMA JudgeFit ==
  ASSUME GInv, JInv', NEW b \in Browsers, Judge(b)
  PROVE  GInv'
<1> DEFINE rest == IF Permitted(b, proc[b].page, Now(b).on) THEN Then(b) ELSE <<>>
<1>1. /\ proc[b] # Idle /\ Now(b).do = "judge" /\ UNCHANGED <<user, wrong>>
      /\ proc' = [proc EXCEPT ![b] = Continue(b, rest)]
  BY DEF Judge
<1>2. \A u \in Users : Arms(Then(b), u) => Arms(proc[b].todo, u)
  BY <1>1, RestCalm DEF GInv
<1>3. \A u \in Users : Arms(rest, u) => Arms(proc[b].todo, u)
  BY <1>2, ArmsNone
<1> HIDE DEF rest
<1> QED BY <1>1, <1>3, GoesOnFit

LEMMA LoadFit ==
  ASSUME GInv, JInv', NEW b \in Browsers, Load(b)
  PROVE  GInv'
<1> DEFINE r == [proc[b] EXCEPT !.seen = user[Now(b).on]]
<1>1. proc[b] # Idle /\ UNCHANGED <<user, wrong>> /\ proc' = [proc EXCEPT ![b] = r]
  BY DEF Load
<1>2. proc[b] \in Request /\ proc' \in [Browsers -> Request] /\ Now(b) = Head(proc[b].todo)
  BY <1>1 DEF GInv, JInv, IInv, TypeOK, Now
<1>3. r.todo = proc[b].todo /\ r.seen = user[Now(b).on]
  BY <1>2 DEF Request
<1>4. proc'[b] = r /\ r \in Request
  BY <1>1, <1>2 DEF GInv, JInv, IInv, TypeOK
<1> HIDE DEF r
<1>5. ASSUME NEW u \in Users PROVE Milder(b, u)
  <2>1. Taken(r, u) => Now(b).on = u
    BY <1>2, <1>3 DEF Taken
  <2> QED BY <1>3, <1>4, <2>1 DEF Milder, Mild
<1> QED BY <1>1, <1>4, <1>5, OnlyRequestsFit

-----------------------------------------------------------------------------
(* Requests write, and what happens outside them.                          *)

LEMMA UnmovedFit ==
  ASSUME GInv, JInv', Unmoved, wrong' = wrong,
         \A u \in Users : user'[u].lock = "none" =>
                            user[u].lock = "none" /\ user'[u].fails = user[u].fails
  PROVE  GInv'
<1>1. TypeOK /\ TypeOK'
  BY DEF GInv, JInv, IInv
<1>2. ASSUME NEW u \in Users PROVE Fits(u)'
  <2>1. \A c \in Browsers : Milder(c, u)
    BY DEF Unmoved, Milder, Mild, Taken
  <2> QED BY <1>1, <2>1, QuietFits DEF GInv
<1> QED BY <1>2 DEF GInv

LEMMA ShellFit ==
  ASSUME GInv, JInv', NEW u \in Users, NEW role \in Roles, Shell(u, role)
  PROVE  GInv'
<1>1. user' = [user EXCEPT ![u] = Ranked(Decided(@, "approved"), role)] /\ wrong' = wrong
      /\ proc' = Overtake(None, u) /\ TypeOK
  BY DEF Shell, GInv, JInv, IInv
<1>2. Unmoved
  BY <1>1, OvertakeType DEF Unmoved
<1>3. ASSUME NEW v \in Users PROVE user'[v].lock = user[v].lock /\ user'[v].fails = user[v].fails
  <2>1. user[v] \in Row /\ user \in [Users -> Row]
    BY <1>1 DEF TypeOK
  <2> QED BY <1>1, <2>1 DEF Ranked, Decided, Row
<1> QED BY <1>1, <1>2, <1>3, UnmovedFit

LEMMA LapseFit ==
  ASSUME GInv, JInv', NEW u \in Users, Lapse(u)
  PROVE  GInv'
<1>1. user' = [user EXCEPT ![u].lock = "over"] /\ UNCHANGED <<proc, wrong>> /\ TypeOK
  BY DEF Lapse, GInv, JInv, IInv
<1>2. Unmoved
  BY <1>1 DEF Unmoved, TypeOK
<1>3. ASSUME NEW v \in Users, user'[v].lock = "none"
      PROVE  user[v].lock = "none" /\ user'[v].fails = user[v].fails
  <2>1. user[v] \in Row /\ user \in [Users -> Row]
    BY <1>1 DEF TypeOK
  <2> QED BY <1>1, <1>3, <2>1 DEF Row
<1> QED BY <1>1, <1>2, <1>3, UnmovedFit

\* The request of b writes a row, and goes on with what is left of its list.
Written(b, u, row) ==
  /\ proc[b] # Idle /\ u \in Users /\ row \in Row /\ user' = [user EXCEPT ![u] = row]
  /\ proc' = [(IF row = user[u] THEN proc ELSE Overtake(b, u)) EXCEPT ![b] = Continue(b, Then(b))]

LEMMA WrittenIs ==
  ASSUME JInv, NEW b \in Browsers, NEW u \in Users, NEW row \in Row, Written(b, u, row)
  PROVE  /\ Others(b) /\ proc'[b] = Continue(b, Then(b))
         /\ \A v : ~Taken(proc'[b], v)
         /\ \A v : Arms(proc'[b].todo, v) => Arms(Then(b), v)
         /\ user'[u] = row /\ \A v \in Users \ {u} : user'[v] = user[v]
<1> DEFINE r == Continue(b, Then(b))
           same == row = user[u]
<1>1. TypeOK /\ proc[b] \in Request /\ Then(b) \in Seq(Task) /\ proc[b] # Idle
  BY UnderWay DEF Written
<1>2. r \in Request
  <2>1. [proc[b] EXCEPT !.todo = Then(b), !.seen = None] \in Request
    BY <1>1 DEF Request
  <2> QED BY <2>1, IdleType DEF Continue
<1>3. (r = Idle) \/ (r.todo = Then(b) /\ r.seen = None)
  BY <1>1 DEF Continue, Request
<1>4. \A v : ~Taken(r, v) /\ (Arms(r.todo, v) => Arms(Then(b), v))
  BY <1>3, IdleType, ArmsNone DEF Taken
<1>5. proc' = [(IF same THEN proc ELSE Overtake(b, u)) EXCEPT ![b] = r] /\ same \in BOOLEAN
  BY DEF Written
<1>6. user'[u] = row /\ \A v \in Users \ {u} : user'[v] = user[v]
  BY <1>1 DEF Written, TypeOK
<1> HIDE DEF r, same
<1>7. Others(b) /\ proc'[b] = r
  BY <1>1, <1>2, <1>5, Overtaking
<1> QED BY <1>4, <1>6, <1>7 DEF r

\* Of the account written, if no password was counted, and of all the others.
LEMMA WrittenFits ==
  ASSUME GInv, JInv', NEW b \in Browsers, NEW u \in Users, NEW row \in Row, Written(b, u, row),
         NEW v \in Users, wrong'[v] = wrong[v],
         v = u => /\ Now(b).do # "clear"
                  /\ row.lock = "none" => user[u].lock = "none" /\ row.fails = user[u].fails,
         v # u => Now(b).on = u
  PROVE  Fits(v)'
<1>1. TypeOK /\ TypeOK' /\ JInv /\ proc[b] # Idle
  BY DEF GInv, JInv, IInv, Written
<1>2. /\ Others(b) /\ ~Taken(proc'[b], v) /\ (Arms(proc'[b].todo, v) => Arms(Then(b), v))
      /\ user'[u] = row /\ \A w \in Users \ {u} : user'[w] = user[w]
  BY <1>1, WrittenIs
<1>3. Arms(Then(b), v) => Arms(proc[b].todo, v)
  BY <1>1, RestCalm
<1>4. Milder(b, v)
  BY <1>2, <1>3 DEF Milder, Mild
<1>5. \A c \in Browsers : Milder(c, v)
  BY <1>2, <1>4, OthersMilder
<1>6. user'[v].lock = "none" => user[v].lock = "none" /\ user'[v].fails = user[v].fails
  BY <1>2
<1> QED BY <1>1, <1>5, <1>6, QuietFits DEF GInv

LEMMA SetKeepsFails ==
  ASSUME NEW row \in Row, NEW do \in Settings
  PROVE  Set(do, row).fails = row.fails
<1>1. CASE do = "create"
  BY <1>1, RolesAre DEF Set, Decided, Row
<1>2. CASE do = "approve"
  BY <1>2, RolesAre DEF Set, Decided, Row
<1>3. CASE do = "reject"
  BY <1>3, RolesAre DEF Set, Decided, Row
<1>4. CASE do \in Roles
  <2>1. Set(do, row) = Ranked(row, do)
    BY <1>4, RolesAre DEF Set
  <2> QED BY <2>1 DEF Ranked, Row
<1> QED BY <1>1, <1>2, <1>3, <1>4 DEF Settings

LEMMA WriteFit ==
  ASSUME GInv, JInv', NEW b \in Browsers, Write(b)
  PROVE  GInv'
<1>1. proc[b] # Idle /\ Now(b).do \in Settings /\ wrong' = wrong /\ JInv
  BY DEF Write, GInv
<1>2. Now(b).on \in Users /\ TypeOK
  BY <1>1, UnderWay
<1>3. PICK u \in Users, do \in Settings : u = Now(b).on /\ do = Now(b).do
  BY <1>1, <1>2
<1>4. CASE do = "create" /\ Exists(u)
  <2>1. proc' = [proc EXCEPT ![b] = Idle] /\ UNCHANGED user
    BY <1>3, <1>4 DEF Write
  <2> QED BY <1>1, <2>1, CrashFit
<1>5. CASE ~(do = "create" /\ Exists(u))
  <2>1. user[u] \in Row
    BY <1>2 DEF TypeOK
  <2>2. PICK row \in Row : /\ row = Set(do, user[u])
                           /\ row.lock = user[u].lock /\ row.fails = user[u].fails
    BY <2>1, SetType, SetKeeps, SetKeepsFails
  <2>3. Written(b, u, row)
    BY <1>1, <1>3, <1>5, <2>2 DEF Write, Written
  <2>4. Now(b).do # "clear"
    BY <1>1, RolesAre DEF Settings
  <2>5. \A v \in Users : Fits(v)'
    BY <1>1, <1>3, <2>2, <2>3, <2>4, WrittenFits
  <2> QED BY <2>5 DEF GInv
<1> QED BY <1>4, <1>5

-----------------------------------------------------------------------------
(* A commit.                                                               *)

LEMMA MergedFails ==
  ASSUME NEW do \in Writes, NEW now \in Row, NEW seen \in Row
  PROVE  LET new == Merged(do, now, seen) IN
         /\ do \in {"setown", "settemp"} => new.fails = now.fails
         /\ do = "fail" =>
              /\ new.fails = IF seen.fails < Limit THEN seen.fails + 1
                             ELSE IF seen.fails # Failed(seen).fails THEN Failed(seen).fails
                             ELSE new.fails
              /\ seen.fails + 1 >= Limit => new.lock = "tries"
              /\ new.lock \in {"tries", now.lock}
<1> DEFINE want == Wanted(do, seen)
           New(f) == IF f \in Renewed(do, seen) \/ want[f] # seen[f] THEN want[f] ELSE now[f]
           new == [now EXCEPT !.pw = New("pw"), !.must = New("must"),
                              !.fails = New("fails"), !.lock = New("lock")]
<1>1. Merged(do, now, seen) = new
  BY DEF Merged
<1>2. want \in Row
  BY WantedType
<1>3. CASE do \in {"setown", "settemp"}
  <2>1. want.fails = seen.fails /\ "fails" \notin Renewed(do, seen)
    BY <1>3 DEF Wanted, SetPassword, Temporary, Renewed, Row
  <2> HIDE DEF want
  <2>2. New("fails") = now.fails
    BY <1>2, <2>1 DEF Row
  <2> HIDE DEF New
  <2>3. new.fails = New("fails")
    BY DEF Row
  <2> HIDE DEF new
  <2> QED BY <1>1, <1>3, <2>2, <2>3
<1>4. CASE do = "fail"
  <2> DEFINE c == Credentials(seen)
  <2>1. c \in Row /\ c.lock = seen.lock /\ c.fails = seen.fails
    BY CredentialsType DEF Credentials, Row
  <2>2. want = [c EXCEPT !.fails = IF @ < Limit THEN @ + 1 ELSE @,
                         !.lock  = IF seen.fails + 1 >= Limit THEN "tries" ELSE @]
    BY <1>4 DEF Wanted, Failed
  <2> HIDE DEF c
  <2>3. /\ want.fails = IF seen.fails < Limit THEN seen.fails + 1 ELSE seen.fails
        /\ seen.fails + 1 >= Limit => want.lock = "tries"
    BY <2>1, <2>2 DEF Row
  <2>4. "fails" \in Renewed(do, seen) /\ (seen.fails + 1 >= Limit => "lock" \in Renewed(do, seen))
    BY <1>4 DEF Renewed
  <2>5. want = Failed(seen)
    BY <1>4 DEF Wanted
  <2> HIDE DEF want
  <2>6. New("fails") = want.fails /\ (seen.fails + 1 >= Limit => New("lock") = "tries")
    BY <1>2, <2>3, <2>4 DEF Row
  <2> HIDE DEF New
  <2>7. new.fails = New("fails") /\ new.lock = New("lock")
    BY DEF Row
  <2> HIDE DEF new
  <2>8. Merged(do, now, seen).lock \in {"tries", now.lock}
    BY <1>4, MergedKeepsLock
  <2> QED BY <1>1, <1>4, <2>3, <2>5, <2>6, <2>7, <2>8
<1> QED BY <1>3, <1>4

\* A wrong password is counted by b, which had loaded the count s.
LEMMA FailBounded ==
  ASSUME NEW row \in Row, NEW row2 \in Row, NEW p, NEW p2, NEW w \in Nat, NEW u,
         NEW b \in Browsers, NEW s \in Nat, Taken(p[b], u), p[b].seen.fails = s, Arms(p[b].todo, u),
         \A c \in Browsers : Taken(p[c], u) => p[c].seen.fails \in Nat,
         s + 1 >= Limit => row2.lock = "tries",
         row2.lock \in {"tries", row.lock},
         s < Limit => row2.fails = s + 1,
         ~Taken(p2[b], u), ~Arms(p2[b].todo, u),
         \A c \in Browsers \ {b} : p2[c].todo = p[c].todo /\ p2[c].seen = p[c].seen,
         Bounded(row, p, w, u)
  PROVE  Bounded(row2, p2, w + 1, u)
<1> DEFINE F == Used(row, p, u)
           G == Used(row2, p2, u)
<1>1. /\ SumFunctionOnSet(F, 1 .. Limit - 1) \in Nat /\ Top \in Nat
      /\ SumFunctionOnSet(F, 1 .. Limit - 1) < Top
  BY UsedSum
<1>2. ASSUME NEW c \in Browsers \ {b}
      PROVE  /\ Taken(p2[c], u) => Taken(p[c], u)
             /\ Arms(p2[c].todo, u) => Arms(p[c].todo, u)
  <2>1. p2[c].todo = p[c].todo /\ p2[c].seen = p[c].seen
    OBVIOUS
  <2>2. Taken(p2[c], u) => Taken(p[c], u)
    BY <2>1 DEF Taken
  <2>3. Arms(p2[c].todo, u) => Arms(p[c].todo, u)
    BY <2>1, Zenon
  <2> QED BY <2>2, <2>3
<1>3. CASE row2.lock # "none"
  <2>1. b \notin Armed(p2, u) /\ Armed(p2, u) \subseteq Browsers \ {b}
    BY DEF Armed
  <2>2. CASE row.lock = "none"
    <3>1. w <= SumFunctionOnSet(F, 1 .. Limit - 1)
      BY <2>2 DEF Bounded
    <3>2. Cardinality(Armed(p2, u)) <= N - 1
      <4>1. IsFiniteSet(Browsers \ {b}) /\ Cardinality(Browsers \ {b}) = N - 1
        BY BoundAssumption, FS_RemoveElement DEF N
      <4> QED BY <2>1, <4>1, FS_Subset
    <3> HIDE DEF F
    <3>3. w + 1 + Cardinality(Armed(p2, u)) < N + Top
      BY <1>1, <3>1, <3>2, ArmedType, NType
    <3> QED BY <1>3, <3>3 DEF Bounded
  <2>3. CASE row.lock # "none"
    <3>1. w + Cardinality(Armed(p, u)) < N + Top
      BY <2>3 DEF Bounded
    <3>2. b \in Armed(p, u)
      BY DEF Armed
    <3>3. Armed(p2, u) \subseteq Armed(p, u) \ {b}
      BY <1>2, <2>1 DEF Armed
    <3>4. IsFiniteSet(Armed(p, u) \ {b}) /\ Cardinality(Armed(p, u) \ {b}) = Cardinality(Armed(p, u)) - 1
      BY <3>2, ArmedType, FS_RemoveElement
    <3>5. Cardinality(Armed(p2, u)) <= Cardinality(Armed(p, u)) - 1
      BY <3>3, <3>4, FS_Subset
    <3>6. w + 1 + Cardinality(Armed(p2, u)) < N + Top
      BY <1>1, <3>1, <3>5, ArmedType, NType
    <3> QED BY <1>3, <3>6 DEF Bounded
  <2> QED BY <2>2, <2>3
<1>4. CASE row2.lock = "none"
  <2>1. s + 1 < Limit /\ row.lock = "none" /\ row2.fails = s + 1
    BY <1>4, BoundAssumption
  <2>2. w <= SumFunctionOnSet(F, 1 .. Limit - 1)
    BY <2>1 DEF Bounded
  <2> DEFINE k == Limit - (s + 1)
             low == 1 .. k
             high == k + 1 .. Limit - 1
             n == Cardinality(Past(p, u, s + 1))
             C == Column(n)
  <2>3. /\ k \in Nat \ {0} /\ k \in 1 .. Limit - 1 /\ Limit - k = s + 1 /\ k \in low
        /\ 1 .. Limit - 1 = low \cup high /\ low \cap high = {}
        /\ \A m \in low : m \in Nat /\ Limit - m >= s + 1
        /\ \A m \in high : m \in Nat /\ Limit - m <= s
    BY <2>1, BoundAssumption
  <2>4. n \in Nat /\ \A m \in 1 .. Limit - 1 : Limit - m \in Nat /\ F[m] \in Nat /\ G[m] \in Nat
    BY PastType, UsedType, LevelsAre
  <2>5. IsFiniteSet(low) /\ IsFiniteSet(high)
    BY <2>3, LevelsAre, FS_Subset
  <2> HIDE DEF k, low, high
  <2>6. \A c \in Browsers : Taken(p2[c], u) => Taken(p[c], u) /\ p2[c].seen.fails = p[c].seen.fails
    <3> TAKE c \in Browsers
    <3> HAVE Taken(p2[c], u)
    <3>1. c \in Browsers \ {b}
      OBVIOUS
    <3>2. Taken(p[c], u)
      BY <1>2, <3>1
    <3>3. p2[c].seen = p[c].seen
      BY <3>1
    <3> QED BY <3>2, <3>3
  \* Above the count that was loaded, what had been reached is lost, ...
  <2>7. ASSUME NEW m \in low PROVE F[m] <= C[m] /\ C[m] \in Nat
    <3>1. m \in 1 .. Limit - 1 /\ m \in Nat /\ Limit - m \in Nat /\ Limit - m >= s + 1
      BY <2>3, <2>4
    <3>2. F[m] = Ways[m][Reached(row, p, u, Limit - m)]
      BY <3>1, UsedType
    <3>3. C[m] = Ways[m][n]
      BY <3>1 DEF Column
    <3>4. Reached(row, p, u, Limit - m) \in Nat /\ Reached(row, p, u, Limit - m) <= n
      <4>1. \A c \in Past(p, u, Limit - m) : Taken(p[c], u) => p[c].seen.fails >= s + 1
        <5> TAKE c \in Past(p, u, Limit - m)
        <5> HAVE Taken(p[c], u)
        <5>1. p[c].seen.fails >= Limit - m
          BY DEF Past
        <5>2. p[c].seen.fails \in Nat
          BY DEF Past
        <5> QED BY <3>1, <5>1, <5>2
      <4>2. Past(p, u, Limit - m) \subseteq Past(p, u, s + 1)
        BY <4>1 DEF Past
      <4>3. Cardinality(Past(p, u, Limit - m)) <= n
        BY <4>2, PastType, FS_Subset
      <4> QED BY <2>4, <4>3, ReachedType DEF Reached
    <3> QED BY <2>4, <3>1, <3>2, <3>3, <3>4, WaysGrows, WaysType
  \* ... and below it, nothing is.
  <2>8. ASSUME NEW m \in high PROVE F[m] <= G[m]
    <3> DEFINE l == Limit - m
    <3>1. m \in 1 .. Limit - 1 /\ m \in Nat /\ l \in Nat /\ l <= s
      BY <2>3, <2>4
    <3>2. F[m] = Ways[m][Reached(row, p, u, l)] /\ G[m] = Ways[m][Reached(row2, p2, u, l)]
      BY <3>1, UsedType
    <3> HIDE DEF l
    <3>3. Past(p, u, l) \subseteq Past(p2, u, l)
      BY <2>6 DEF Past
    <3>4. Cardinality(Past(p, u, l)) <= Cardinality(Past(p2, u, l))
      BY <3>3, PastType, FS_Subset
    <3>5. Reached(row2, p2, u, l) = Cardinality(Past(p2, u, l))
      BY <2>1, <3>1 DEF Reached
    <3>6. Reached(row, p, u, l) <= Reached(row2, p2, u, l)
      BY <3>4, <3>5, PastType DEF Reached
    <3>7. Reached(row, p, u, l) \in Nat /\ Reached(row2, p2, u, l) \in Nat
      BY ReachedType
    <3> QED BY <3>1, <3>2, <3>6, <3>7, WaysGrows
  \* The request that fails is past it now, and makes up for the loss.
  <2>9. G[k] >= Ways[k][n + 1] /\ Ways[k][n + 1] \in Nat
    <3>1. G[k] = Ways[k][Reached(row2, p2, u, s + 1)]
      BY <2>3, UsedType
    <3>2. Past(p, u, s + 1) \cup {b} \subseteq Past(p2, u, s + 1)
      BY <2>6 DEF Past
    <3>3. b \notin Past(p, u, s + 1)
      BY DEF Past
    <3>4. IsFiniteSet(Past(p, u, s + 1) \cup {b}) /\ Cardinality(Past(p, u, s + 1) \cup {b}) = n + 1
      BY <3>3, PastType, FS_AddElement
    <3>5. n + 1 <= Cardinality(Past(p2, u, s + 1))
      BY <3>2, <3>4, PastType, FS_Subset
    <3>6. Reached(row2, p2, u, s + 1) = Cardinality(Past(p2, u, s + 1))
      BY <2>1 DEF Reached
    <3>7. Reached(row2, p2, u, s + 1) \in Nat /\ n + 1 \in Nat
      BY <2>4, ReachedType
    <3>8. n + 1 <= Reached(row2, p2, u, s + 1)
      BY <3>5, <3>6
    <3> HIDE DEF n
    <3> QED BY <2>3, <2>4, <3>1, <3>7, <3>8, WaysGrows, WaysType
  <2> HIDE DEF F, G, n
  <2>10. Ways[k][n + 1] = 1 + SumFunctionOnSet(C, low)
    BY <2>3, <2>4, WaysSum DEF low
  <2> HIDE DEF C
  <2>11. SumFunctionOnSet(F, low) <= SumFunctionOnSet(C, low)
    BY <2>3, <2>4, <2>5, <2>7, SumMonotonic
  <2>12. SumFunctionOnSet(F, high) <= SumFunctionOnSet(G, high)
    BY <2>3, <2>4, <2>5, <2>8, SumMonotonic
  <2>13. SumFunctionOnSet(G, low) = G[k] + SumFunctionOnSet(G, low \ {k})
    BY <2>3, <2>4, <2>5, SumRemove
  <2>14. /\ SumFunctionOnSet(F, 1 .. Limit - 1) = SumFunctionOnSet(F, low) + SumFunctionOnSet(F, high)
         /\ SumFunctionOnSet(G, 1 .. Limit - 1) = SumFunctionOnSet(G, low) + SumFunctionOnSet(G, high)
    <3> DEFINE S == low \cup high
    <3>1. \A m \in S : F[m] \in Nat /\ G[m] \in Nat
      BY <2>3, <2>4
    <3>2. SumFunctionOnSet(F, S) = SumFunctionOnSet(F, low) + SumFunctionOnSet(F, high)
      BY <2>3, <2>5, <3>1, SumUnion
    <3>3. SumFunctionOnSet(G, S) = SumFunctionOnSet(G, low) + SumFunctionOnSet(G, high)
      BY <2>3, <2>5, <3>1, SumUnion
    <3> QED BY <2>3, <3>2, <3>3
  <2>15. /\ SumFunctionOnSet(F, low) \in Nat /\ SumFunctionOnSet(F, high) \in Nat
         /\ SumFunctionOnSet(G, high) \in Nat /\ SumFunctionOnSet(C, low) \in Nat
         /\ SumFunctionOnSet(G, low \ {k}) \in Nat /\ G[k] \in Nat
    <3>1. IsFiniteSet(low \ {k}) /\ \A m \in low \ {k} : G[m] \in Nat
      BY <2>3, <2>4, <2>5, FS_Subset
    <3>2. SumFunctionOnSet(G, low \ {k}) \in Nat
      BY <3>1, SumType
    <3>3. SumFunctionOnSet(F, low) \in Nat /\ SumFunctionOnSet(F, high) \in Nat
      BY <2>3, <2>4, <2>5, SumType
    <3>4. SumFunctionOnSet(G, high) \in Nat /\ SumFunctionOnSet(C, low) \in Nat
      BY <2>3, <2>4, <2>5, <2>7, SumType
    <3> QED BY <2>3, <2>4, <3>2, <3>3, <3>4
  <2>16. w + 1 <= SumFunctionOnSet(G, 1 .. Limit - 1)
    BY <2>2, <2>9, <2>10, <2>11, <2>12, <2>13, <2>14, <2>15
  <2> QED BY <1>4, <2>16 DEF Bounded, G
<1> QED BY <1>3, <1>4

LEMMA FailFits ==
  ASSUME TypeOK, TypeOK', NEW b \in Browsers, NEW u \in Users, Others(b), proc'[b] = Idle,
         Taken(proc[b], u), proc[b].todo \in Seq(Task),
         user'[u] = Merged("fail", user[u], proc[b].seen), Fits(u), wrong'[u] = wrong[u] + 1
  PROVE  Fits(u)'
<1> DEFINE row == user[u]
           row2 == user'[u]
           w == wrong[u]
           p == proc
           p2 == proc'
           seen == p[b].seen
           s == seen.fails
<1>1. row \in Row /\ row2 \in Row /\ seen \in Row /\ w \in Nat /\ s \in Nat
  BY BoundAssumption DEF TypeOK, Taken, Request, Row
<1>2. /\ s + 1 >= Limit => row2.lock = "tries"
      /\ row2.lock \in {"tries", row.lock}
      /\ s < Limit => row2.fails = s + 1
  BY <1>1, MergedFails DEF Writes
<1>3. ~Taken(p2[b], u) /\ ~Arms(p2[b].todo, u)
  BY IdleType, ArmsNone DEF Taken
<1>4. \A c \in Browsers \ {b} : p2[c].todo = p[c].todo /\ p2[c].seen = p[c].seen
  BY DEF Others
<1>5. Bounded(row, p, w, u) /\ Taken(p[b], u) /\ p[b].seen.fails = s
  BY DEF Fits
<1>6. Arms(p[b].todo, u)
  BY ArmsHead DEF Taken
<1>7. \A c \in Browsers : Taken(p[c], u) => p[c].seen.fails \in Nat
  BY BoundAssumption DEF TypeOK, Taken, Request, Row
<1> HIDE DEF row, row2, w, p, p2, seen, s
<1>8. Bounded(row2, p2, w + 1, u)
  BY <1>1, <1>2, <1>3, <1>4, <1>5, <1>6, <1>7, FailBounded
<1> QED BY <1>8 DEF Fits, row2, p2, w

\* The lockout cleared, the count starts again.
LEMMA NoneBounded ==
  ASSUME NEW row, NEW p, NEW u
  PROVE  Bounded(row, p, 0, u)
BY UsedSum, ArmedType, NType DEF Bounded

LEMMA ClearFits ==
  ASSUME TypeOK', NEW u \in Users, wrong'[u] = 0
  PROVE  Fits(u)'
BY NoneBounded DEF Fits

LEMMA CommitWrites ==
  ASSUME GInv, JInv', NEW b \in Browsers, NEW u \in Users, NEW do \in Writes, NEW seen \in Row,
         NEW row \in Row, row = Merged(do, user[u], seen), seen = proc[b].seen, seen # None,
         proc[b].todo # <<>>, Now(b).do = do, Now(b).on = u, Written(b, u, row),
         wrong' = CASE do = "clear" -> [wrong EXCEPT ![u] = 0]
                    [] do = "fail"  -> [wrong EXCEPT ![u] = @ + 1]
                    [] OTHER        -> wrong
  PROVE  GInv'
<1>1. /\ TypeOK /\ TypeOK' /\ JInv /\ proc[b] # Idle /\ proc[b].todo \in Seq(Task)
      /\ Now(b) = Head(proc[b].todo) /\ Now(b) \in Task /\ user[u] \in Row /\ Fits(u)
  BY UnderWay DEF GInv, JInv, IInv, TypeOK, Written
<1>2. \A v \in Users \ {u} : wrong'[v] = wrong[v]
  BY <1>1 DEF TypeOK
<1>3. ASSUME NEW v \in Users, v # u PROVE Fits(v)'
  BY <1>2, <1>3, WrittenFits
<1>4. SUFFICES Fits(u)'
  BY <1>3 DEF GInv
<1>5. CASE do = "clear"
  <2>1. wrong'[u] = 0
    BY <1>1, <1>5 DEF TypeOK
  <2> QED BY <1>1, <2>1, ClearFits
<1>6. CASE do = "fail"
  <2>1. wrong'[u] = wrong[u] + 1
    BY <1>1, <1>6 DEF TypeOK
  <2>2. Then(b) = <<>>
    BY <1>1, <1>6, AtHead
  <2>3. Others(b) /\ proc'[b] = Continue(b, Then(b)) /\ user'[u] = row
    BY <1>1, WrittenIs
  <2>4. proc'[b] = Idle
    BY <2>2, <2>3 DEF Continue
  <2>5. Taken(proc[b], u)
    <3>1. Now(b) = [do |-> "fail", on |-> u]
      BY <1>1, <1>6 DEF Task
    <3> QED BY <1>1, <3>1 DEF Taken
  <2>6. user'[u] = Merged("fail", user[u], proc[b].seen)
    BY <1>6, <2>3
  <2> QED BY <1>1, <2>1, <2>3, <2>4, <2>5, <2>6, FailFits
<1>7. CASE do \notin {"clear", "fail"}
  <2>1. wrong' = wrong
    BY <1>7
  <2>2. row.lock = "none" => user[u].lock = "none" /\ row.fails = user[u].fails
    BY <1>1, <1>7, MergedKeepsLock, MergedFails DEF Writes
  <2> QED BY <1>7, <2>1, <2>2, WrittenFits
<1> QED BY <1>5, <1>6, <1>7

LEMMA CommitFit ==
  ASSUME GInv, JInv', NEW b \in Browsers, Commit(b)
  PROVE  GInv'
<1>1. proc[b] # Idle /\ proc[b].seen # None /\ JInv
  BY DEF Commit, GInv
<1>2. TypeOK /\ Now(b).on \in Users /\ proc[b].todo # <<>> /\ proc[b] \in Request
  BY <1>1, UnderWay
<1>3. Now(b).do \in Writes
  BY <1>1 DEF JInv, IInv, Loaded, Now
<1>4. PICK u \in Users, do \in Writes, seen \in Row :
        u = Now(b).on /\ do = Now(b).do /\ seen = proc[b].seen
  BY <1>1, <1>2, <1>3 DEF Request
<1>5. CASE Collides(do, user[u], seen)
  <2>1. proc' = [proc EXCEPT ![b] = Idle] /\ UNCHANGED <<user, wrong>>
    BY <1>4, <1>5 DEF Commit
  <2> QED BY <2>1, CrashFit
<1>6. CASE ~Collides(do, user[u], seen)
  <2>1. user[u] \in Row
    BY <1>2 DEF TypeOK
  <2>2. PICK row \in Row : row = Merged(do, user[u], seen)
    BY <2>1, MergedType
  <2>3. Written(b, u, row)
    BY <1>1, <1>4, <1>6, <2>2 DEF Commit, Written
  <2>4. wrong' = CASE do = "clear" -> [wrong EXCEPT ![u] = 0]
                   [] do = "fail"  -> [wrong EXCEPT ![u] = @ + 1]
                   [] OTHER        -> wrong
    BY <1>4, <1>6 DEF Commit
  <2> QED BY <1>1, <1>2, <1>4, <2>2, <2>3, <2>4, CommitWrites
<1> QED BY <1>5, <1>6

-----------------------------------------------------------------------------
(* The invariant.                                                          *)

LEMMA GInit == Init => GInv
<1> SUFFICES ASSUME Init PROVE GInv
  OBVIOUS
<1>1. JInv
  BY JInit
<1>2. \A u \in Users : Fits(u)
  BY NoneBounded DEF Init, Fits
<1> QED BY <1>1, <1>2 DEF GInv

LEMMA GNext == GInv /\ [Next]_vars => GInv'
<1> SUFFICES ASSUME GInv, [Next]_vars PROVE GInv'
  OBVIOUS
<1>1. JInv'
  BY JNext DEF GInv
<1>2. ASSUME NEW b \in Browsers, Arrival(b) PROVE GInv'
  BY <1>1, <1>2, RegisterFit, SignInFit, SignOutFit, VisitFit, ChangePasswordFit, StaffFit DEF Arrival
<1>3. ASSUME NEW b \in Browsers, Step(b) PROVE GInv'
  BY <1>1, <1>3, WriteFit, LoadFit, CheckFit, EnterFit, JudgeFit, CommitFit DEF Step
<1>4. ASSUME NEW b \in Browsers, Crash(b) PROVE GInv'
  BY <1>1, <1>4, CrashFit DEF Crash
<1>5. ASSUME NEW u \in Users, Lapse(u) \/ \E role \in Roles : Shell(u, role) PROVE GInv'
  BY <1>1, <1>5, LapseFit, ShellFit
<1>6. CASE UNCHANGED vars
  <2>1. \A u \in Users : Fits(u)' <=> Fits(u)
    BY <1>6 DEF vars, Fits
  <2> QED BY <1>1, <2>1 DEF GInv
<1> QED BY <1>2, <1>3, <1>4, <1>5, <1>6 DEF Next

LEMMA FitsBound == GInv => GuessesBounded
<1> SUFFICES ASSUME GInv, NEW u \in Users PROVE wrong[u] < N + Top
  BY DEF GuessesBounded, N, Top
<1>1. wrong[u] \in Nat /\ Bounded(user[u], proc, wrong[u], u)
  BY DEF GInv, JInv, IInv, TypeOK, Fits
<1>2. CASE user[u].lock = "none"
  <2>1. wrong[u] <= SumFunctionOnSet(Used(user[u], proc, u), 1 .. Limit - 1)
    BY <1>1, <1>2 DEF Bounded
  <2> QED BY <1>1, <2>1, UsedSum, NType
<1>3. CASE user[u].lock # "none"
  <2>1. wrong[u] + Cardinality(Armed(proc, u)) < N + Top
    BY <1>1, <1>3 DEF Bounded
  <2> QED BY <1>1, <2>1, ArmedType, UsedSum, NType
<1> QED BY <1>2, <1>3

\* The wrong passwords an account takes between two clear_lockout()s are
\* bounded, however the increments of register_failure() are lost.
THEOREM GuessesAreBounded == Spec => []GuessesBounded
BY GInit, GNext, FitsBound, PTL DEF Spec
=============================================================================
