# The Pond in TLA+

The Pond is a web platform on which students launch challenges (virtual
machines cloned on a Proxmox cluster, Docker exercises on a separate server,
or neither), capture flags, and close their sessions; staff upload new
challenges, which are validated, reviewed and published by background workers.
Several gunicorn workers share one SQLite database; commands run by hand or by
a timer (reaper, ingestion workers) share it with them. This directory holds a
formal specification of the parts in which that concurrency, and the failures
of the systems outside, decide whether the platform is correct.

## Inventory

| component | code | state it keeps | operations | hard part |
|---|---|---|---|---|
| session lifecycle | `pond-sec/app/themes.py`, `admin.py`, `db/runtime_models.py` | `challenge_instances` (status, network, docker status) | launch, flag, close, staff close, reap, cleanup retry | a request commits many times and calls Proxmox and Docker in between; five closers; crashes |
| VMID ledger | `provisioner.py`, `db/runtime_models.py` | `vm_instances`, partial unique index | `claim_vmid`, `clone_and_start`, `stop_and_destroy` | check-then-act, numbers reused, protected numbers |
| hypervisor access | `provisioner.py`, `pond-sec/app/proxmox.py` | machines and VNets on the cluster | clone, start, stop, delete, create/delete VNet | calls that fail after taking effect, foreign machines |
| Docker adapter | `pond-sec/app/container_lab.py` | session on the Docker server | start, stop | uncertain answers, intent recorded before the call |
| intake | `challenge_ingestion/intake.py`, `storage.py` | `challenge_submissions`, `submission_files`, blobs | create, update, upload, remove, submit, revise | directory and database have no transaction in common; quotas checked before the bytes arrive |
| validation worker | `challenge_ingestion/worker.py`, `validation.py` | `submission_jobs` (validate), audit, outbox | claim, renew, finish | leases, stale workers, retries, changed rows |
| review | `challenge_ingestion/review.py` | submission status, approval, audit | decide | stale verdicts |
| publication worker | `challenge_ingestion/publication.py`, `db/register_template.py` | `submission_jobs` (publish) with its journal, catalogue | enqueue, claim, journal, checkpoint, commit, fail, return; register a template by hand | minutes of external work under a lease, resources that outlive a crash, a catalogue that changes meanwhile |
| notifications | `challenge_ingestion/notifications.py` | `notification_outbox` | deliver, read | unique keys, batch delivery |
| scoring | `pond-sec/app/scoring.py` | `flag_submissions`, `user_solves` | submit_flag, progress, leaderboards | concurrent awards, stale reads, completion by counting |
| rate limits | `throttle.py` | `throttle_events` | check, record, clear, prune | check and count are two transactions |
| sign-in | `auth.py`, `security.py` | `users`, `user_credentials` (password, failure count, lock), the signed-in account of a browser | register, sign in, change password, the hooks before each request | every helper loads a row and commits it later, column by column; no transaction spans two helpers |
| accounts and roles | `admin.py`, `roles.py` | users, roles, approval | approve, reject, lock, unlock, reset password, set role | powers checked before the write they justify; the last administrator |

How they interact: `launch()` and `_close()` call the provisioner, which writes
the ledger and talks to Proxmox, and the Docker adapter, which writes the same
instance row; flag submission closes a session through `_close()`; intake
queues validation jobs; the validation worker writes the verdict that review
needs; review writes the approval that publication needs; publication writes
the catalogue (`challenges`, `vm_templates`) that `launch()` reads, and to which staff
add templates with the `register_template` command. The role an
administrator gives an account decides who may review and publish.

What makes each correct: a session ends and its result survives; a VMID belongs
to one session; nothing up on the Docker server is forgotten; a verdict is
about the frozen content and is given once; only what was approved goes live;
what an import may have made is never forgotten; a flag pays once and an attempt
is complete only when every flag was paid; a row of an upload has its bytes; a
lock or a temporary password that staff gave stays in force. The hazards are listed in
`PROJECT.json` at the lines where they bite, each with the properties about it.
Most of these hold, and would fail if the code got the case wrong. Five say what the
documentation promises and the code does not keep: those are runs that find a
violation. In four cases the property excuses what the code gets wrong, and
only bounds it, by showing that nothing else goes wrong that way:
a sign-in that overlaps a staff lock (`StaffLockHolds`), a password issued while
its owner changes it (`TempIsForced`), a power lost in the middle of a request
(`PowerIsCurrent`), a process interrupted just after its commit (`RowsHaveBlobs`).
A hazard that no property is about has a note.

## Modules

| module | models | composed of |
|---|---|---|
| `SessionRange` | sessions, ledger, hypervisor, Docker adapter | instantiates `VmidLedger` |
| `VmidLedger` | abstract: who holds each number | |
| `Validation` | intake, validation worker, review | instantiates `SubmissionLifecycle` |
| `Publication` | publication worker and its administrator actions | extends `Validation`, as the class extends `ValidationWorker` |
| `SubmissionLifecycle` | abstract: the stages of a submission | |
| `Quarantine` | intake in detail: drafts, uploads, the private directory, quotas | |
| `Accounts` | registration, sign-in, lockout, passwords, the administrators' console | |
| `Scoring` | flag submission with its rate limit, award ledger, completion | |
| `Leaderboard` | the boards and ranks computed from the ledger | extends `Scoring` |
| `SessionRangeProofs`, `SessionProofs` | theorems about `SessionRange` | the second extends the first |
| `ValidationProofs`, `PublicationProofs` | theorems about the pipeline | the second extends the first and `Publication` |
| `QuarantineProofs` | theorems about `Quarantine` | |
| `AccountsProofs` | theorems about `Accounts` | |
| `ScoringProofs` | theorems about `Scoring` and `Leaderboard` | |
| `FiniteSums` | lemmas about sums over finite sets, least numbers and smallest sets | cited by the last three |
| `MCSessionRange`, `MCValidation`, `MCPublication`, `MCQuarantine`, `MCAccounts`, `MCScoring` | constants, initial states and symmetries for the model checker | |

### SessionRange

`inst`, `ledger`, `vm`, `vnet`, `labUp` are the database tables and the outside
world; `proc` is where each request handler, and the reaper, stands between two
of its commits or calls, and what it holds in local variables. An action is
what a handler does between two such points, in the order of the code:

* launch: `Admit` (read `_active_instance`), `Open` (insert), `MakeNet`,
  `NameNet`, then for each machine `ReadUsed`, `Claim` (`claim_vmid`),
  `CloneVm`, `Setup`, `Booted`, or `Undo`, `Discard`; `LabRequest`, `LabStart`,
  `LabOk`/`LabBad` (`container_lab.start`); `Publish`. Every failure goes
  through `LaunchFails` to the teardown below and ends in `Abandon`.
* close: `LastFlag`, `StudentClose`, `StaffClose`, `Reap` read a status and
  start `_close()`; `Record` commits the outcome; `LabStopBegin`,
  `LabStopCall`, `LabStopAck` are `container_lab.stop`; `Destroy`, `Mark`,
  `DropNet` are `stop_and_destroy`, one machine after another. `RetryCleanup`
  is a second close, or the cleanup command.
* `Crash`: a process dies between two steps.

Calls to Proxmox and Docker may succeed, fail, or fail after taking effect; and as
nobody awaits the deletion of a machine, one whose stop timed out may run on after a
teardown that raised nothing (a deletion that comes about later is left out: it
happens at once or never). `reap_sessions()` reads its list once and goes through it; the
model reads a status (`Reap`) and acts on it later (`Record`), for one session at a time. So
the reaper, too, may overwrite an outcome written in between, but a behaviour
in which it does so to many sessions at once, from one old list, is not
distinguished from one in which it has a list for each. An
action of the reaper on a session still 'provisioning' is allowed when its
launcher is gone or, with `SlowLaunch`, may be slower than the 15 minutes of
grace. `session_range` lets it be slower, and so do the theorems of
`SessionRangeProofs`; `session_ends` and `SessionProofs` take the launch to be
quicker, which is what the 15 minutes are for. With a slower one a session can
be closed under its launcher, which then writes 'running' over the outcome: none
of the properties they state holds then.

### Validation

`sub`, `vjob`, `attest`, `review`, `notices`, `trusted` are rows of the
database; `vwork` the worker processes. Every write of this part is one
`BEGIN IMMEDIATE` transaction, so every action is one transaction. `Claim` is
the whole loop of `claim()`, settling exhausted jobs on its way; `Inspect` is
the snapshot and `validate_submission()` on it, with a report that is clean
only for an unchanged good content; `HeartbeatFails`, `Expire` and `Crash` are
what can happen meanwhile; `Finish` is `finish()` with `_result()`; `Decide` is
`decide()` for both decisions. Abstractions: a content stands for the manifest
with the file inventory; a digest is the content it was computed from (SHA-256
taken as injective); a token is the number of the attempt it was drawn for; a
lease is live or expired; retry delays are left out, a waiting job may be
picked up at any time. Uploads, quotas and the limit of 20 drafts are in
`Quarantine`; here a draft has one content.
`Tamper` is external: rows of a frozen submission changed behind the
application, which the digest checks are there for.

### Publication

`pjob` with its journal, `catalogue`, `live` and the workers `pwork` are added.
`Enqueue` and `ReturnForCorrection` are the administrator's; `PClaim` is
`claim()` with the sweep of expired imports; `ReadApproval`, `Journal`,
`Checkpoint`, `AdapterReturns`, `Commit`, `Stop` are the steps of `run_once()`
between two transactions. `Register` is the `register_template` command: the guide
(`docs/CONTAINER_LAB_SETUP.md`, step 3) runs it against the live database, so it may put one of
the `Registrable` VMIDs into the catalogue at any moment, one that a journal has planned
included. A row of `catalogue` says who put it there. The command does not look
at journals; that a plan so overtaken is never published rests on the look
at the catalogue in the last transaction (`ResourcesReady`).
`Journal` reads, plans and writes in one step, and leaves out the refusal of
a stored journal that does not fit the manifest (`publication.py:214`): only the worker
that owns the job writes it, and it writes what it planned for that manifest. The adapter is code of the deployment: it may plan
any VMIDs, checkpoint anything in any order, and report success or failure
whatever it checkpointed. Of a resource's state the model keeps whether it is
'ready'. A notice whose unique key is taken undoes its transaction: that is
`CanFail` and `Fresh`.

### Quarantine

`sub` and `rows` are `challenge_submissions` and `submission_files`; `disk` and
`names` are the private directory: the bytes behind a key, and which of its two
names (the temporary one and the final one) exist. `req` is what a process does
under the lock. The lock is an open descriptor, so it has no variable: it is
free when no request is under way (`Unlocked`). `Upload` and `Revise` are the
checks before the first byte; `Stream`, `Link`, `Unlink` are `storage.save()` up to
its three effects on the directory; `Record` is the transaction, `Finish` the
return. `Remove` deletes the row and leaves the file to `Undo`, which is also what
the exception handlers do, one name at a time. `Fail` is any exception before
the commit; `Interrupt` is `SystemExit` in the instant after it, when the same
handlers unlink files that rows refer to by now (`struck` remembers which);
`Crash` ends the process and keeps the names (`left`). `SystemExit` at the two places where
a file is made and no handler knows of it yet (`intake.py:146`, `211`) leaves a
file behind as a death at that point does, and is not told apart from it. `Decide` stands for the
validation worker and the administrators, who move a submission on without
the lock. Keys are random and never drawn twice, so a key that nothing refers
to stands for a new one. Manifests are the sets of image paths they ask for;
sizes are small numbers; syntax of manifests and file names is left out.

### Accounts

A request is a list of helpers still to run (`proc[b].todo`): for instance a
sign-in is `check`, and then `clear` and `enter`, or `fail`. A helper that writes
credentials is two steps: `Load` reads the row, `Commit` writes the columns
whose value it changed over whatever the others hold by now (`Merged`, `Renewed`),
because that is what the ORM does; if it loaded an account without credentials
and somebody else inserted them meanwhile, its `INSERT` fails (`Collides`). A
helper that sets one column to a fixed value is the single step `Write`. `Begin`
holds the hooks before a request, `Judge` the checks of the console
(`require()`, `_may_act_on()`, the count of administrators), which are over before the
write begins. `Lapse` is a lock whose time passes, `Shell` the `set-role` command,
`Crash` a process that dies between two steps.

`under` names the accounts whose row, in whatever column, changed while a request was
under way; no action
reads it. It makes the promise of the code precise: the console keeps every rule
as long as the accounts it looked at stay as they were. `scene` bounds a
behaviour to some pages of the console and to the accounts whose password
somebody gets wrong. A count of failures is kept at `Limit` when it is beyond.
The rate limit in front of the sign-in page only turns requests away and is left
out; hashing and the rules for good passwords are outside.

### Scoring and Leaderboard

`solves` is `user_solves` in commit order, `log` counts each user's first
correct `flag_submissions`, `hits` the guesses in the sliding window, `status`
the attempts, `req` the request handlers. `flag()` is `Arrive` (status read),
`CheckLimit` (`throttle.check`), `CountHit` (`throttle.record`), `Look` (the two
reads of `submit_flag`), `Grade` (its one commit, which the unique constraint may
undo, and then the exception ends the request), `Check` (`challenge_progress`)
and `Close` (the write in `_close()`); `close()` is `AskClose`, `Grant`,
`Close`. `Die` kills a handler at any point. Log entries of misses and repeats
are not kept, because nothing modelled reads them; flags are constants, because no
operation changes them, and two flags of one challenge have different hashes.
`Leaderboard` gives the sort key, the cut-off and `_ranked()`, and the count of
`user_stats()` as a second definition of a rank. `solved_at` is the place in
the ledger; it orders equal scores and no rank depends on it.

## Runs

| run | instance | what it shows |
|---|---|---|
| `session_ends` | one attempt at a lab, a two-machine or an offline challenge; two handlers, reaper; one crash; a foreign machine in the range | `TypeOK`, `LabAccounted`, `OutcomeBeforeTeardown`, `NeverHalfLaunched`, `EverySessionEnds` |
| `session_range` | two students, one machine each, two handlers, two numbers, one protected, so that both students are after the other; a reaper that may strike in the middle of a launch | `LedgerUnique`, `LedgerRefines` |
| `validation` | two submissions (one may be the other's correction), two workers, two attempts, one change of rows, one good and one faulty content | `VTypeOK`, `JobsMatch`, `OneVerdict`, `ApprovalOnRecord`, `LifecycleRefines`, `JudgedAsFrozen`, `ValidationEnds` |
| `publication` | an approved submission (of two machines, or of none) beside a rejected one, or two submissions of one machine whose first import failed; two workers, two administrators who may lose their role, two VMIDs, one of which staff may register at any moment, one change of rows | `TypeOK`, `ImportHasJob`, `VmidExclusive`, `StagesKept`, `JournalKept`, `PublishedAsApproved`, `PublicationEnds` |
| `quarantine` | a moderator and an administrator, two submissions of one or two images, four keys, two processes; quotas of two files and of three in all, one draft each; one file left by a crash or struck by an interruption | `TypeOK`, `RowsHaveBlobs`, `FrozenInventory`, `QuotasKept`, `NoStrays` |
| `accounts` | two accounts, two browsers, a limit of two failures, five scenes: a registration decided on, an unused name with staff locking and resetting it, a member locked and unlocked, a moderator, a second administrator | `TypeOK`, `SessionsHavePassword`, `GuessesBounded`, `StaffLockHolds`, `TempIsForced`, `PowerIsCurrent` |
| `scoring` | two students with an attempt each at a challenge of two flags, a guess that is wrong, two handlers, a limit of one guess, two users without points, boards of three | `TypeOK`, `PaidOnce`, `LogMatchesLedger`, `WindowBounded`, `CompleteIsEarned`, `LastFlagCloses`, `RanksAgree` |

`validation` runs `MCSpec`, which writes the second submission once the first
is submitted and changes only rows of the first: the submissions are
interchangeable, so nothing is lost but the mirror images. `publication`
starts from `MCInit`: two decided submissions, each as `validation` leaves it, or
each with one import that failed before there was a plan. Two plans of one machine then
compete for two VMIDs, one of which staff may register before, between or after
the plans: that is the least in which each of the three can be in the way of the others.
`accounts`, `quarantine` and `session_range` use symmetry (of browsers, of keys and
processes, of students with their attempts and of handlers); none of them checks
liveness.

Bounds: `MaxCrashes` (processes that die in `SessionRange`; one is enough to
leave every half-done step behind, and the theorems have no such bound),
`MaxAttempts = 2` (a first attempt, a retry and exhaustion), `MaxEdits = 1`,
`MaxLeft = 1`, two actors of each kind that race, and ranges of VMIDs larger
than what the actors can hold (`session_ends`), or too small (`session_range`), so
that success, collisions and exhaustion all happen. In `quarantine` four keys let two submissions hold two files each,
which the quotas then forbid. In `accounts` a limit of two is the least at which
an increment can be lost.
In `scoring` a limit of one makes two handlers exceed it, two flags make two
last ones, one more user than places makes the cut-off matter, and three ranked
users are what it takes to tell 1, 1, 3 from 1, 1, 2; the theorems have no bound.
The system may come to rest (all attempts closed, all submissions decided), so
deadlock is not checked.

Five more runs state what the documentation says and the code does not do; the
model checker finds each violated (`PROJECT.json`, findings):

| run | property | what happens |
|---|---|---|
| `one_active` | `OneActivePerUser` | two launches of one student both pass the check |
| `result_kept` | `ResultKept` | a completed attempt is overwritten as abandoned |
| `vnet_outlives` | `VnetOutlivesVms` | the VNet goes while a machine of the session runs |
| `teardown_stays` | `TeardownStaysInSession` | a stale VMID: another student's machine is destroyed |
| `last_admin` | `LastAdminStays` | two administrators demoted at once, each counted by the other's request: none remains |

## Fairness

* `SessionRange`: a handler that was started goes on unless it dies (each call
  has a timeout and each failure a branch), and the reaper's timer keeps
  firing, so a session that stays eligible is reaped. Nothing is assumed of
  students: no request need ever be made.
* `Validation`, `Publication`: a started worker goes on unless it dies; a lease
  nobody renews runs out; the worker command is run again and again. The last
  is an assumption about the deployment: `runtime.process_once()` handles one
  job, and the documentation leaves it to the operator to install a timer. A
  crash needs no bound: every attempt counts, and attempts are limited.

* `Scoring`, `Accounts`, `Quarantine`: none. What a request owes is stated as
  what it is about to do (`LastFlagCloses`), so that no progress of the handlers
  is assumed; and a client that uploads slowly may hold the directory's lock for
  as long as it likes, so nothing is promised to those who wait.

## What is proved

### Sessions

`SessionRangeProofs` proves, for every set of students, attempts, handlers and
challenges, any VMID range and any set of protected numbers, from the named
assumptions of `SessionRange` only:

* `RangeTypeOK`: the type invariant;
* `RangeLedgerUnique`: two live ledger rows never have the same VMID;
* `RangeImplementsLedger`: the detailed specification implements `VmidLedger`.

The inductive invariant is `IInv`, the conjunction of `TypeOK`, of `Working` (a
handler at work is at work on an attempt), `Hinted` (a claimer about to insert
has the protected numbers among those it takes for used), `Spared` (no row has
a protected number) and `LedgerUnique`. `LedgerUnique` alone says nothing of
protected numbers, which refinement needs: a number is kept from being reserved
by what a handler read one step earlier, hence `Hinted`, then `Spared`. That
the insert is refused by the index, and not that the list was fresh, is what
`LedgerUnique` rests on. The proof has one lemma per action; each action either
leaves the ledger alone, appends a row the index allows, changes a row's
status, or retires rows, and the lemmas `RowReplaced` and `LedgerStep...` say
what these do to `LedgerUnique` and to `Holder`.

`SessionProofs` proves `ResultFirst` (`OutcomeBeforeTeardown`), `LabsAccounted`
(`LabAccounted`) and `LaunchedWhole` (`NeverHalfLaunched`) for every deployment in
which no launch outlasts the grace period (`ShortLaunch`). Its invariant `SInv`
relates each handler to what it works on:

* `Alone`: a launcher has its attempt to itself. The attempt is in 'provisioning'
  until it publishes, students and staff only close what is running, and the
  reaper waits for the grace period: this is where `ShortLaunch` is needed;
* `Launches`: being alone, a launcher holds every ledger row of its attempt, each
  with a machine that was made, and in the end as many as the challenge has
  templates. That `Publish` comes last is not enough: it must also be that nobody
  took a row away meanwhile;
* `Closes`: a closer past `Record` finds a final status, and its rows are rows of
  its own attempt. Several closers of one attempt are allowed throughout;
* `Agrees`: a running attempt has its rows, network and Docker session, and what
  is up on the Docker server has a row that says so.

`CountAssumption` (an offline challenge, and no other, has no templates) is what
`launch()` refuses to go on without (`themes.py:387`).

### Validation and publication

`ValidationProofs` proves every invariant and action property of `Validation`, and that it
implements `SubmissionLifecycle`, for any number of submissions, workers,
administrators and attempts. The invariant `VInv` follows one submission at a
time (`At`): its job is active just when it is 'validating'; the author was told
the verdict on record and no other; an approval has its evidence; nobody was
told of a decision not taken; what is past the draft is frozen; what is past
validation is good. About a worker it needs one fact (`Reported`): a clean report
is of the frozen digest, and that content is good. Leases and tokens need none:
`Finish` compares the token with the row in the same transaction, so a stale
worker changes nothing, and the proof shows that this check is all there is
between a lost lease and a second verdict.

`PublicationProofs` extends it to the whole pipeline. A step of `Validation` is a step
of `Publication` that leaves the publish jobs alone, so its lemmas carry over, and
`IInv` adds for each submission (`PAt`): 'importing' just when a publish job is
active; a journal names all roles of the frozen content, or nothing; its VMIDs
are no other journal's; its templates are in the catalogue just when it is published,
and no template shares its VMID with another; and for
each worker (`Doing`) that from the reading of the approval on it works on the
frozen content with a complete journal. `JournalKept` and `PublishedAsApproved`
follow step by step, `StagesKept` by refinement as above. That the rows may be
changed behind the application (`Tamper`) makes `PublishedAsApproved` depend on the
digest being compared again inside the last transaction; that staff register templates
meanwhile makes `VmidsAreExclusive` depend on the catalogue being looked at again there.
An unpublished plan may well have a VMID of the catalogue by then, so nothing is
claimed of one. In the `publication` run every content is good: that what goes live is good is
shown by the theorem, and the content checks are exercised in `validation`.

### Quarantine

`QuarantineProofs` proves `TypeOK`, `RowsHaveBlobs`, `FrozenInventory` and `NoStrays`, for any
number of submissions, accounts, processes and keys, and all quotas. The
invariant follows one key through the request that makes it (`Good`): which
names it has at each step of `save()` (`Halfway`), that the files already saved are
whole and have different keys (`Whole`), that no row knows of a key before the
commit, every row does after it, and what is undone is no row's unless the
request was interrupted (`Apart`). `KeysApart`, the unique constraint on keys, is
what keeps the removal of one row from taking the bytes of another.

`WithinQuotas` proves `QuotasKept`, for all quotas and sizes. A quota is checked before
the first byte and the row comes minutes later, so the invariant says of the request
in between what it was promised (`Granted`): the rows there are, with the bytes it has
still to save or has in hand (`Pending`), fit the quota it was checked against, and a
revision has a draft free. Nothing else adds rows or drafts meanwhile, as `Unlocked`
keeps every other request out; the workers, who do not take the lock, change no row
and no owner. `Placed` (a row belongs to a submission that exists) is needed because a
submission that comes to be adds the rows that name it to what its owner stores.

### Accounts

`AccountsProofs` proves `TypeOK` and `SessionsHavePassword`. A registration makes the
account and its password in two commits, so an account may have none for a
while, or for ever. The invariant says that a request about to sign somebody in
is for an account with a password, and rests on this: a password once set is never
blank again, since a helper that loaded the account without credentials inserts
a row, and a second `INSERT` fails.

Its second part proves the three action properties. The invariant `Apt` says of a request
what its checks established when it looked, each 'or the account is in `under`':
the order of its helpers (`Order`), no lock to be cleared behind the back of
staff (`Sober`), a loaded row that knows whether the password is temporary
(`Steady`), and the powers of the actor (`Power`, `Above`). The exceptions
are real, and the proof shows that they need a change of that row under the request:

* a sign-in that began before a staff lock fell clears it (`security.py`,
  `clear_lockout()` from `auth.login()`);
* a temporary password issued while its owner changes the password may end up
  without the obligation to change it (`security.py`, `set_password()`);
* an administrator demoted while a request of theirs is under way still has it
  carried out.

Its third part proves `GuessesBounded`. Two sign-ins that fail at once read the same
count, and both write one more than it, so one failure is lost; a slow one may even
write an old count over a much later one, and the account starts again from there.
How often can that be? `GuessesBounded` says: an account takes fewer than
N + C(N + `Limit` - 1, N) wrong passwords between two `clear_lockout()`s, where N
requests run at once; one request at a time gets `Limit`, as it should be, two with a
limit of three get seven at the most. With one fewer the model checker finds a counterexample
at that limit, so the bound is exact there. (N ^ `Limit`, which suggests itself, is false
for a single browser.)

The invariant `GInv` looks, for each value l of the count, at the browsers that hold no
loaded count below l (`Past`): once a failure has written l, only the others can bring it
back below. A failure that had loaded l - 1 moves its own browser past l,
and may undo what was reached above l. Its worth is therefore one more than
all that n browsers can do above l, n being those already past it, and this
recurrence (`WaysSum`) is Pascal's: `Ways[m][n]` is the number of multisets of m things
of n kinds, and `Used` adds them up. An account already locked takes one failure more
from each request that was past the lockout check when the lock fell (`Armed`).

### Scoring

`ScoringProofs` proves every property of `Scoring`, for all users, attempts,
challenges, flags, points, handlers and limits, from `ScoringAssumption` and
`FiniteAssumption` (finitely many handlers, and flags in a challenge):
`ScoringTypes`, `ScoringPaidOnce`, `ScoringLog`, `ScoringWindow`,
`ScoringComplete`, `ScoringLastFlag`. The inductive invariant adds two parts
to them. `Earned`: a handler about to write 'complete' has seen every flag
paid; awards are never taken back, so this still holds when it writes.
`Counting`: the guesses in the window and the handlers that were let through but
not counted yet are together fewer than the limit and the number of handlers.
`WindowBounded` alone is not inductive, since it says nothing of those handlers.
`challenge_progress()` counts rows and does not compare flags: `CompleteCovers`
shows that this is enough, because awards map to flags one to one (`PaidOnce`)
and an injection between finite sets of equal size is onto; `CoveredCompletes`
is the converse, which `LastFlagCloses` needs. The proofs show what the unique
constraint is for: `PaidOnce` rests on it alone, and completion on `PaidOnce`.

`BoardsRankAlike` proves `RanksAgree`, for any number of users, challenges, points and
places, from the named assumptions of `Scoring` and `Leaderboard`. It needs no
invariant but types: the boards agree about every ledger. The key of a board orders
its rows strictly and totally (`Ordered`), so the place of a row is the number of rows
ahead of it (`Pos`, `SortedIs`); `_ranked()` looks at the neighbour above only, and
`BetterSteps` shows that the number of rows with a higher score goes by the same
recurrence, ties and cut-off included; hence the two are equal (`RankedIs`). That a row
left out beats nobody on the board follows from the order being that of the scores.

### Sums and recursion

What recursive functions compute (`SumFunctionOnSet` behind `MapThenSumSet`, `Ways`,
`_ranked()`'s `Ranked`) is proved without an induction rule, which would take the
property as an operator. The lemma `SmallestNumber` (`SmallestSubset` for sets) takes
a least counterexample out of the set of all of them, and the defining equation leads from
it to a smaller one. That the equation holds at all is proved first: partial
solutions exist and agree (`SumsExist`, `SumsUnique`; `TowersExist`, `TowersAgree`).

### Only model-checked

* What holds under fairness only: `EverySessionEnds`, `ValidationEnds`,
  `PublicationEnds`. Their proofs would need `ENABLED`, which the prover does not handle.

Every other property of the passing runs is a theorem. Two theorems say less than the
runs could: those of `SessionProofs` assume `ShortLaunch`, as `session_ends` does, and the
findings are single counterexamples, which need no proof.

## Documentation and code

Five disagreements are runs of their own (above). Others were met and are only
noted here:

* `roles.py:33` says that an administrator cannot demote themselves; `admin.py:336`
  refuses it only to the last one. `Permitted` follows the code.
* `themes.py:699` says that an unreachable Proxmox leaves the row flagged 'error' for staff.
  `_close()` catches `ProxmoxError` only; another exception of the client, such as a refused
  connection, ends the request with the attempt closed, this row and the later ones as
  they were (third alternative of `Destroy`).
* The exceptions under *Accounts* contradict what the console tells staff:
  that an account is locked, and that a temporary password must be changed.
* `auth.py:175` looks a username up without regard to case before it inserts; the
  unique constraint compares case, so two registrations at once can make two
  names that differ in case only. In `Accounts` a username is one value.

## Not modelled

* Content checks of an upload and the package requirements: pure functions that
  decide which contents are good.
* Delivery and read marks of notices: delivery is one transaction that turns a
  batch of rows from 'pending' to 'sent'; no state modelled depends on either.
* `category_challenge_matrix()`, the `flags_played` columns and the other displays,
  such as the orphan list of `admin.py`: they read and change nothing.
* Disk injection, firewall rules, network cards, console relay: text and calls
  whose outcome is one bit here.
* HTTP layer, forms, CSRF, rendering, configuration and the audit log; migrations
  and seeding, which an operator runs with the application stopped; playbooks and
  generators; the vendored browser client.

See the components in `PROJECT.json`.

## Plan

1. Done: `SessionRange` with its ledger, `Validation`, `Publication`, `Quarantine`,
   `Accounts`, `Scoring` with `Leaderboard`; the two refinements; every safety and
   action property of the runs proved.
2. Left, in this order: `Quarantine` as the detailed form of the intake of `Validation`, shown
   by a refinement in which `Content` is the frozen digest; the sign-in buckets of
   the rate limit, with the counts of `Scoring`; delivery of notices in batches.
