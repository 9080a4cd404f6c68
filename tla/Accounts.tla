------------------------------ MODULE Accounts ------------------------------
(***************************************************************************)
(* Accounts: registration, sign-in and lockout, passwords, and what staff  *)
(* may do to the account of somebody else.                                 *)
(*                                                                         *)
(* A request works through helpers, and a helper that writes loads a row   *)
(* from SQLite, computes, and commits: no transaction spans two helpers,   *)
(* and between a helper's load and its commit another request may commit.  *)
(* The ORM then writes the columns whose value the helper changed, and     *)
(* only those. So a request is a list of helpers still to run, and each    *)
(* one that writes credentials is two steps, Load and Commit. A helper     *)
(* that sets one column to a fixed value is the single step Write: it has  *)
(* its effect at the commit, or, the column already being so, at the load. *)
(*                                                                         *)
(*   user    the users rows with their user_credentials                    *)
(*   cookie  the account each browser is signed in to                      *)
(*   proc    the request each browser has under way                        *)
(*   wrong   wrong passwords refused since the account's last              *)
(*           clear_lockout()                                               *)
(*   scene   a bound, chosen once: the accounts at first, the pages of the *)
(*           console that staff use, and whose password anyone gets wrong  *)
(*                                                                         *)
(* A browser signs out before it signs in again, and has one request under *)
(* way at a time: two of them may hold the same account. A request that a  *)
(* rate limit refuses ends before it changes anything and is left out.     *)
(***************************************************************************)
EXTENDS Naturals, FiniteSets, Sequences, Functions

CONSTANTS
  Users,      \* usernames, as far as somebody ever registers one
  Scenes,     \* [user, pages, guessed]: what one behaviour is about
  Browsers,   \* each with at most one request under way
  Limit,      \* MAX_LOGIN_ATTEMPTS
  None        \* no account; no credentials row

Ranks     == [student |-> 0, moderator |-> 1, admin |-> 2]
Roles     == DOMAIN Ranks
Secrets   == {"own", "temp"}     \* chosen by its owner; issued by staff
Live      == {"tries", "staff"}  \* why an account is locked, until later
Pages     == {"unlock", "lock", "reset", "approve", "reject", "shell"} \cup Roles
Row == [approval : {"none", "pending", "approved", "rejected"}, role : Roles,
        pw : Secrets \cup {"blank", None}, must : BOOLEAN, fails : 0 .. Limit,
        lock : Live \cup {"none", "over"}]

ASSUME AccountAssumption == None \notin Users \cup Browsers \cup Pages \cup Secrets \cup {"blank"}
ASSUME SceneAssumption   == Scenes \subseteq
  [user : [Users -> Row], pages : SUBSET Pages, guessed : SUBSET Users]
ASSUME BoundAssumption   == Limit \in Nat \ {0} /\ IsFiniteSet(Browsers) /\ Browsers # {}

VARIABLES user, cookie, proc, wrong, scene
vars == <<user, cookie, proc, wrong, scene>>

Unused == [approval |-> "none", role |-> "student", pw |-> None, must |-> FALSE, fails |-> 0,
           lock |-> "none"]
Idle == [page |-> None, todo |-> <<>>, on |-> None, seen |-> None, rank |-> "student",
         under |-> {}]

Init ==
  /\ scene \in Scenes
  /\ user = scene.user
  /\ cookie = [b \in Browsers |-> None]
  /\ proc   = [b \in Browsers |-> Idle]
  /\ wrong  = [u \in Users |-> 0]

Exists(u) == user[u].approval # "none"
Admins    == {u \in Users : Exists(u) /\ user[u].role = "admin"}

-----------------------------------------------------------------------------
(* The helpers: what each one makes of the row it loaded.                  *)

Credentials(row) == IF row.pw = None THEN [row EXCEPT !.pw = "blank"] ELSE row

SlipOffByOne(row) ==
  [Credentials(row) EXCEPT !.fails = IF @ < Limit THEN @ + 1 ELSE @,
                           !.lock  = IF row.fails + 1 > Limit THEN "tries" ELSE @]

\* register_failure(). A count beyond Limit does what Limit does, and is
\* kept as Limit.
Failed(row) ==
  [Credentials(row) EXCEPT !.fails = IF @ < Limit THEN @ + 1 ELSE @,
                           !.lock  = IF row.fails + 1 >= Limit THEN "tries" ELSE @]

\* clear_lockout()
Cleared(row) == IF row.pw = None THEN row ELSE [row EXCEPT !.fails = 0, !.lock = "none"]

\* set_password()
SetPassword(row, secret, must) == [row EXCEPT !.pw = secret, !.must = must]

SlipNotForced(row) == SetPassword(row, "temp", FALSE)
\* issue_temporary_password(), but for the lockout it also lifts.
Temporary(row)     == SetPassword(row, "temp", TRUE)

\* lock()
Locked(row) == [Credentials(row) EXCEPT !.lock = "staff"]

\* approve(), reject() and set_role()
Decided(row, approval) == [row EXCEPT !.approval = approval]
Ranked(row, role)      == [row EXCEPT !.role = role]

Wanted(do, row) ==
  CASE do = "setown"  -> SetPassword(row, "own", FALSE)
    [] do = "settemp" -> Temporary(row)
    [] do = "clear"   -> Cleared(row)
    [] do = "fail"    -> Failed(row)
    [] do = "lock"    -> Locked(row)

Set(do, row) ==
  CASE do = "create"  -> Decided(row, "pending")
    [] do = "approve" -> Decided(row, "approved")
    [] do = "reject"  -> Decided(row, "rejected")
    [] do \in Roles   -> Ranked(row, do)

\* A salted hash, a time to come and a count that went up differ from whatever
\* was stored before.
Renewed(do, row) ==
  CASE do \in {"setown", "settemp"} -> {"pw"}
    [] do = "lock"                  -> {"lock"}
    [] do = "fail"                  -> {"fails"} \cup IF row.fails + 1 >= Limit THEN {"lock"} ELSE {}
    [] OTHER                        -> {}

\* The row after the commit: the columns the helper changed, over whatever
\* the others hold by now.
Merged(do, now, seen) ==
  LET want   == Wanted(do, seen)
      New(f) == IF f \in Renewed(do, seen) \/ want[f] # seen[f] THEN want[f] ELSE now[f]
  IN  [now EXCEPT !.pw = New("pw"), !.must = New("must"), !.fails = New("fails"), !.lock = New("lock")]

\* INSERT of credentials that are there by now.
Collides(do, now, seen) == seen.pw = None /\ now.pw # None /\ Wanted(do, seen).pw # None

-----------------------------------------------------------------------------
(* Requests begin: the hooks and the reads before the first helper.        *)

Begin(b, page, u, todo) ==
  /\ proc[b] = Idle
  /\ proc' = [proc EXCEPT ![b] = [Idle EXCEPT
       !.page = page, !.on = u, !.todo = todo,
       !.rank = IF page = None THEN "student" ELSE user[cookie[b]].role]]
  /\ UNCHANGED <<user, cookie, wrong, scene>>

\* A lock whose time is over is cleared by whoever looks at it, first.
Lapsed(u) == IF user[u].lock = "over" THEN <<[do |-> "clear", on |-> u]>> ELSE <<>>

Register(b, u) ==
  /\ cookie[b] = None /\ ~Exists(u)
  /\ Begin(b, None, u, <<[do |-> "create", on |-> u], [do |-> "setown", on |-> u]>>)

SlipBlankMatches(u) ==
  {right \in BOOLEAN : IF right THEN user[u].pw # None ELSE u \in scene.guessed}

\* password_matches(): whoever signs in may know the password or not.
MayMatch(u) == {right \in BOOLEAN : IF right THEN user[u].pw \in Secrets ELSE u \in scene.guessed}

SlipNoLockout(u) == FALSE
LockedOut(u)     == user[u].lock \in Live

\* login() up to the password check.
SignIn(b, u) ==
  /\ cookie[b] = None
  /\ Exists(u) /\ ~LockedOut(u) /\ MayMatch(u) # {}
  /\ Begin(b, None, u, Lapsed(u) \o <<[do |-> "check", on |-> u]>>)

\* load_logged_in_user(): a session left idle, or whose account is locked
\* by now, ends with its next request; logout() ends it on purpose.
SignOut(b) ==
  /\ proc[b] = Idle /\ cookie[b] # None
  /\ cookie' = [cookie EXCEPT ![b] = None]
  /\ UNCHANGED <<user, proc, wrong, scene>>

\* Any page: the session stands, and the lock that is over is cleared.
Visit(b) ==
  LET u == cookie[b] IN
  /\ u # None /\ user[u].lock = "over"
  /\ Begin(b, None, u, Lapsed(u))

\* The hooks let a signed-in account through to change_password() and, with
\* no temporary password to change first, to everything else.
Admitted(u) == ~LockedOut(u) /\ user[u].approval = "approved"
AtLarge(u)     == Admitted(u) /\ ~user[u].must

ChangePassword(b) ==
  LET u == cookie[b] IN
  /\ u # None /\ Admitted(u)
  /\ Begin(b, None, u,
           Lapsed(u) \o <<[do |-> "verify", on |-> u], [do |-> "setown", on |-> u]>>)

\* The helpers of each page of the console, and who may ask for it.
Console(page) ==
  CASE page = "unlock" -> <<"clear">>
    [] page = "reset"  -> <<"settemp", "clear">>
    [] OTHER           -> <<page>>
Holders(page) == IF page \in {"unlock", "lock", "reset"} THEN {"moderator", "admin"} ELSE {"admin"}

Staff(b, page, t) ==
  LET u == cookie[b]  acts == Console(page) IN
  /\ u # None /\ AtLarge(u) /\ page \in scene.pages /\ user[u].role \in Holders(page)
  /\ Begin(b, page, t,
           Lapsed(u) \o <<[do |-> "judge", on |-> t]>>
             \o [i \in 1 .. Len(acts) |-> [do |-> acts[i], on |-> t]])

-----------------------------------------------------------------------------
(* Requests go on.                                                         *)

Now(b)  == Head(proc[b].todo)
Then(b) == Tail(proc[b].todo)

SlipNoEnd(b, rest) == [proc[b] EXCEPT !.todo = rest, !.seen = None]

\* The request carries on with the helpers rest, or ends.
Continue(b, rest) == IF rest = <<>> THEN Idle ELSE [proc[b] EXCEPT !.todo = rest, !.seen = None]

\* login(): what the password check leads to. change_password(): no change
\* without the current password.
Check(b) ==
  /\ proc[b] # Idle /\ Now(b).do \in {"check", "verify"}
  /\ LET u == Now(b).on IN \E right \in MayMatch(u) :
       proc' = [proc EXCEPT ![b] = Continue(b,
         CASE Now(b).do = "verify" -> IF right THEN Then(b) ELSE <<>>
           [] Now(b).do = "check"  ->
                IF right THEN <<[do |-> "clear", on |-> u], [do |-> "enter", on |-> u]>>
                         ELSE <<[do |-> "fail", on |-> u]>>)]
  /\ UNCHANGED <<user, cookie, wrong, scene>>

\* The response that carries the new session.
Enter(b) ==
  /\ proc[b] # Idle /\ Now(b).do = "enter"
  /\ cookie' = [cookie EXCEPT ![b] = Now(b).on]
  /\ proc'   = [proc EXCEPT ![b] = Continue(b, Then(b))]
  /\ UNCHANGED <<user, wrong, scene>>

\* outranks(): equals do not.
Outranks(role, other) == Ranks[role] > Ranks[other]

\* Permitted: staff may act on their equals.
SlipPeers(b, page, t) == Exists(t) /\ Ranks[proc[b].rank] >= Ranks[user[t].role]

\* _target(), _may_act_on() and the conditions of the views themselves; the
\* actor's rank is the one the request began with.
Permitted(b, page, t) ==
  /\ Exists(t)
  /\ page \in {"unlock", "lock", "reset"} => Outranks(proc[b].rank, user[t].role)
  /\ page = "approve" => user[t].approval # "approved"
  /\ page = "reject"  => user[t].role = "student"
  /\ page \in Roles \ {"admin"} /\ user[t].role = "admin" => Admins \ {t} # {}

Judge(b) ==
  /\ proc[b] # Idle /\ Now(b).do = "judge"
  /\ proc' = [proc EXCEPT ![b] =
       Continue(b, IF Permitted(b, proc[b].page, Now(b).on) THEN Then(b) ELSE <<>>)]
  /\ UNCHANGED <<user, cookie, wrong, scene>>

\* Requests under way learn that the row of u is not what it was, whichever
\* column of it changed: a record for the properties, which no action reads.
Overtake(b, u) ==
  [c \in Browsers |-> IF c = b \/ proc[c] = Idle THEN proc[c]
                      ELSE [proc[c] EXCEPT !.under = @ \cup {u}]]

Settings == {"create", "approve", "reject"} \cup Roles
Write(b) ==
  LET u == Now(b).on  do == Now(b).do  row == Set(do, user[u]) IN
  /\ proc[b] # Idle /\ do \in Settings
  /\ IF do = "create" /\ Exists(u)   \* the username is taken by now
     THEN /\ proc' = [proc EXCEPT ![b] = Idle]
          /\ UNCHANGED user
     ELSE /\ user' = [user EXCEPT ![u] = row]
          /\ proc' = [(IF row = user[u] THEN proc ELSE Overtake(b, u))
                        EXCEPT ![b] = Continue(b, Then(b))]
  /\ UNCHANGED <<cookie, wrong, scene>>

Writes == {"setown", "settemp", "clear", "fail", "lock"}

\* A helper that writes credentials: it loads the row, then commits, or its
\* INSERT fails and the request with it.
Load(b) ==
  /\ proc[b] # Idle /\ proc[b].seen = None /\ Now(b).do \in Writes
  /\ proc' = [proc EXCEPT ![b].seen = user[Now(b).on]]
  /\ UNCHANGED <<user, cookie, wrong, scene>>

Commit(b) ==
  LET u == Now(b).on  do == Now(b).do  row == Merged(do, user[u], proc[b].seen) IN
  /\ proc[b] # Idle /\ proc[b].seen # None
  /\ IF Collides(do, user[u], proc[b].seen)
     THEN /\ proc' = [proc EXCEPT ![b] = Idle]
          /\ UNCHANGED <<user, wrong>>
     ELSE /\ user'  = [user EXCEPT ![u] = row]
          /\ proc'  = [(IF row = user[u] THEN proc ELSE Overtake(b, u))
                         EXCEPT ![b] = Continue(b, Then(b))]
          /\ wrong' = CASE do = "clear" -> [wrong EXCEPT ![u] = 0]
                        [] do = "fail"  -> [wrong EXCEPT ![u] = @ + 1]
                        [] OTHER        -> wrong
  /\ UNCHANGED <<cookie, scene>>

\* The set-role command: whoever has a shell on the server may do this.
Shell(u, role) ==
  /\ "shell" \in scene.pages
  /\ Exists(u)
  /\ user' = [user EXCEPT ![u] = Ranked(Decided(@, "approved"), role)]
  /\ user' # user
  /\ proc' = Overtake(None, u)
  /\ UNCHANGED <<cookie, wrong, scene>>

\* The worker process dies with the request.
Crash(b) ==
  /\ proc[b] # Idle
  /\ proc' = [proc EXCEPT ![b] = Idle]
  /\ UNCHANGED <<user, cookie, wrong, scene>>

\* locked_until passes.
Lapse(u) ==
  /\ user[u].lock \in Live
  /\ user' = [user EXCEPT ![u].lock = "over"]
  /\ UNCHANGED <<cookie, proc, wrong, scene>>

-----------------------------------------------------------------------------
Arrival(b) ==
  \/ \E u \in Users : Register(b, u) \/ SignIn(b, u)
  \/ SignOut(b) \/ Visit(b) \/ ChangePassword(b)
  \/ \E page \in Pages \ {"shell"}, t \in Users : Staff(b, page, t)

Step(b) == Write(b) \/ Load(b) \/ Check(b) \/ Enter(b) \/ Judge(b) \/ Commit(b)

Next ==
  \/ \E b \in Browsers : Arrival(b) \/ Step(b) \/ Crash(b)
  \/ \E u \in Users : Lapse(u) \/ \E role \in Roles : Shell(u, role)

Spec == Init /\ [][Next]_vars

-----------------------------------------------------------------------------
Task    == [do : Settings \cup Writes \cup {"check", "verify", "enter", "judge"}, on : Users]
Request == [page : Pages \cup {None}, todo : Seq(Task), on : Users \cup {None},
            seen : Row \cup {None}, rank : Roles, under : SUBSET Users]

\* Every variable keeps its type, and a request under way has work to do.
TypeOK ==
  /\ user   \in [Users -> Row]
  /\ cookie \in [Browsers -> Users \cup {None}]
  /\ proc   \in [Browsers -> Request]
  /\ wrong  \in [Users -> Nat]
  /\ scene  \in Scenes
  /\ \A b \in Browsers : proc[b] # Idle => proc[b].todo # <<>>

\* A registration cut short between its two commits leaves an account that
\* nobody is ever signed in to, until staff give it a password.
SessionsHavePassword ==
  \A b \in Browsers : cookie[b] # None => user[cookie[b]].pw \in Secrets

\* Ways[m][n] is the number of multisets of m things of n kinds: if the last
\* kind in one is the k-th, the other m - 1 things are of the first k kinds.
Ways[m \in Nat] ==
  IF m = 0 THEN [n \in Nat |-> IF n = 0 THEN 0 ELSE 1]
           ELSE [n \in Nat |-> SumFunctionOnSet(Ways[m - 1], 1 .. n)]

\* Failures counted at the same time lose increments, and the count may even
\* go back. Still the wrong passwords an account takes before its lockout is
\* cleared are bounded, by the limit and the requests that run at once: fewer
\* than N + C(N + Limit - 1, N), for N browsers.
GuessesBounded ==
  \A u \in Users : wrong[u] < Cardinality(Browsers) + Ways[Limit - 1][Cardinality(Browsers) + 1]

\* The step is a helper of this request that ends.
Moves(b) == proc[b] # Idle /\ proc'[b].todo # proc[b].todo
\* ... and acts on an account from the console.
Acts(b)  == Moves(b) /\ proc[b].page # None /\ \A i \in 1 .. Len(proc[b].todo) : proc[b].todo[i].do # "judge"

\* A lock that staff placed stands until its time is over or staff lift it:
\* another request ends it only if the account's row, as by that lock, was
\* changed after the request had begun.
StaffLockHolds ==
  [][\A u \in Users : user[u].lock = "staff" /\ user'[u].lock \notin {"staff", "over"} =>
       \E b \in Browsers : Moves(b) /\ (proc[b].page \in {"unlock", "reset"} \/ u \in proc[b].under)]_vars

\* A password staff know is good for changing it and nothing else, unless the
\* account's row was changed while the request that wrote it was under way.
TempIsForced ==
  [][\A u \in Users : (user'[u].pw = "temp" /\ ~user'[u].must) /\ user'[u] # user[u] =>
       \/ user[u].pw = "temp" /\ ~user[u].must
       \/ \E b \in Browsers : Moves(b) /\ u \in proc[b].under]_vars

\* Whoever acts on an account from the console still holds the power to when
\* the change is made, unless one of the two rows was changed, in whatever
\* column, after the request had begun.
PowerIsCurrent ==
  [][\A b \in Browsers :
       Acts(b) /\ {cookie[b], proc[b].on} \cap proc[b].under = {} =>
       /\ user[cookie[b]].role \in Holders(proc[b].page) /\ user[cookie[b]].approval = "approved"
       /\ ~user[cookie[b]].must
       /\ proc[b].page \in {"unlock", "lock", "reset"} =>
            Outranks(user[cookie[b]].role, user[proc[b].on].role)]_vars

-----------------------------------------------------------------------------
(* What the documentation says and the code does not do.                   *)

\* roles.py: "the last admin cannot be demoted at all"; set_role(): demoting
\* one "must leave at least one behind". No request takes the last away.
LastAdminStays ==
  [][(\E b \in Browsers : Moves(b)) /\ Admins # {} => Admins' # {}]_vars
=============================================================================
