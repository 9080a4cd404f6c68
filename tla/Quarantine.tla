----------------------------- MODULE Quarantine -----------------------------
(***************************************************************************)
(* Challenge intake: drafts, the files uploaded to them, and the private   *)
(* directory those files are kept in.                                      *)
(*                                                                         *)
(* The database and the directory have no transaction in common. A file is *)
(* streamed to a temporary name, linked to its key, unlinked from the      *)
(* temporary name, and only then does a row refer to it; what fails on the *)
(* way is undone name by name. All this happens under a lock on the        *)
(* directory, which is the request's open descriptor: it is free again     *)
(* when the request ends or its process dies.                              *)
(*                                                                         *)
(*   sub    the submissions                                                *)
(*   rows   the submission_files                                           *)
(*   disk   the bytes behind each storage key                              *)
(*   names  the names they have in the directory                           *)
(*   req    what each process does under the lock, one request at a time   *)
(*   left   keys in hand when a process died                               *)
(*   struck keys of requests interrupted after their commit                *)
(*                                                                         *)
(* A key is 128 random bits and never generated twice; one that nothing    *)
(* refers to any more stands for a new one. An operation that is a single  *)
(* transaction is one step, and is refused while the lock is held.         *)
(***************************************************************************)
EXTENDS Naturals, FiniteSets, FiniteSetsExt

CONSTANTS
  Ids,         \* submission ids
  Paths,       \* image paths
  Manifests,   \* the image paths each manifest asks for
  Keys,        \* storage keys
  Processes,   \* web server processes
  Staff,       \* accounts that may upload
  Sysadmins,   \* those of them that may work on anybody's submission
  Sizes,       \* sizes of an uploaded file
  SubmissionBytes, UserBytes, TotalBytes,   \* quotas
  MaxDrafts,   \* drafts an account may have
  MaxLeft,     \* bound: files in hand when processes died or were stopped
  None

ASSUME QuarantineAssumption ==
  /\ Sysadmins \subseteq Staff
  /\ Manifests \subseteq SUBSET Paths
  /\ IsFiniteSet(Keys) /\ IsFiniteSet(Paths) /\ IsFiniteSet(Ids)
  /\ None \notin Keys \cup Ids \cup Staff
  /\ Sizes \subseteq Nat \ {0}
ASSUME QuotaAssumption == {SubmissionBytes, UserBytes, TotalBytes, MaxDrafts} \subseteq Nat

VARIABLES sub, rows, disk, names, req, left, struck
vars == <<sub, rows, disk, names, req, left, struck>>

Statuses == {"none", "draft", "validating", "correctable", "settled"}
File == [path : Paths, key : Keys, size : Sizes]
Row  == [sub : Ids, path : Paths, key : Keys, size : Sizes]
\* A file still to be saved, streamed by the client or copied from a key.
Todo == [path : Paths, size : Sizes, from : Keys \cup {None}]

Absent == [status |-> "none", owner |-> None, wants |-> {}, digest |-> None]
Idle   == [pc |-> "idle", op |-> "none", by |-> None, sub |-> None, todo |-> {}, key |-> None,
           file |-> None, made |-> {}]

Init ==
  /\ sub    = [i \in Ids |-> Absent]
  /\ rows   = {}
  /\ disk   = [k \in Keys |-> 0]
  /\ names  = [k \in Keys |-> {}]
  /\ req    = [p \in Processes |-> Idle]
  /\ left   = {}
  /\ struck = {}

Files(i) == {r \in rows : r.sub = i}
Bytes(S) == MapThenSumSet(LAMBDA r : r.size, S)
KeysOf(S) == {f.key : f \in S}

SlipUnlocked == TRUE
Unlocked     == \A p \in Processes : req[p] = Idle

Owned(u, i) == sub[i].status # "none" /\ (sub[i].owner = u \/ u \in Sysadmins)
Draft(i)    == sub[i].status = "draft"
Drafts(u)   == {i \in Ids : sub[i].owner = u /\ Draft(i)}

Capacity(u) == Cardinality(Drafts(u)) < MaxDrafts

SlipQuota(u, i, more) == Bytes(rows) + more <= TotalBytes

\* _quota() for a file of submission i, or, i being None, of a new one.
Quota(u, i, more) ==
  /\ Bytes(rows) + more <= TotalBytes
  /\ Bytes({r \in rows : sub[r.sub].owner = u}) + more <= UserBytes
  /\ (IF i = None THEN 0 ELSE Bytes(Files(i))) + more <= SubmissionBytes

-----------------------------------------------------------------------------
(* Operations that are one transaction.                                    *)

Drafted(u, wants) == [status |-> "draft", owner |-> u, wants |-> wants, digest |-> None]

Create(u, i, wants) ==
  /\ Unlocked
  /\ sub[i] = Absent /\ Capacity(u)
  /\ sub' = [sub EXCEPT ![i] = Drafted(u, wants)]
  /\ UNCHANGED <<rows, disk, names, req, left, struck>>

SlipEditable(i) == sub[i].status \in {"draft", "correctable"}
Editable(i)     == Draft(i)

\* update_manifest(): files that the new manifest does not ask for stay.
UpdateManifest(u, i, wants) ==
  /\ Unlocked
  /\ Owned(u, i) /\ Editable(i)
  /\ sub' = [sub EXCEPT ![i].wants = wants]
  /\ UNCHANGED <<rows, disk, names, req, left, struck>>

\* content_digest(): the manifest and the rows, keys included.
Content(i) == [wants |-> sub[i].wants, files |-> Files(i)]

\* A repeated submit() finds the job and changes nothing.
Submit(u, i) ==
  /\ Unlocked
  /\ Owned(u, i) /\ Draft(i)
  /\ sub' = [sub EXCEPT ![i].status = "validating", ![i].digest = Content(i)]
  /\ UNCHANGED <<rows, disk, names, req, left, struck>>

\* Workers and administrators decide, and may yet change their minds: the
\* lock is not theirs to take.
Decide(i, status) ==
  /\ \/ sub[i].status = "validating" /\ status \in {"correctable", "settled"}
     \/ sub[i].status = "settled"    /\ status = "correctable"
  /\ sub' = [sub EXCEPT ![i].status = status]
  /\ UNCHANGED <<rows, disk, names, req, left, struck>>

-----------------------------------------------------------------------------
(* Operations that work on the directory as well.                          *)

Begin(p, r) == Unlocked /\ req' = [req EXCEPT ![p] = r]

\* upload(), as far as the first byte.
Upload(p, u, i, path, size) ==
  /\ Owned(u, i) /\ Draft(i) /\ path \in sub[i].wants
  /\ \A r \in Files(i) : r.path # path
  /\ Quota(sub[i].owner, i, size)
  /\ Begin(p, [Idle EXCEPT !.pc = "save", !.op = "upload", !.by = u, !.sub = i,
                           !.todo = {[path |-> path, size |-> size, from |-> None]}])
  /\ UNCHANGED <<sub, rows, disk, names, left, struck>>

\* revise(), up to the first copy.
Revise(p, u, i) ==
  /\ Owned(u, i) /\ sub[i].status = "correctable"
  /\ Capacity(u) /\ Quota(u, None, Bytes(Files(i)))
  /\ Begin(p, [Idle EXCEPT !.pc = IF Files(i) = {} THEN "record" ELSE "save",
                           !.op = "revise", !.by = u, !.sub = i,
                           !.todo = {[path |-> r.path, size |-> r.size, from |-> r.key] : r \in Files(i)}])
  /\ UNCHANGED <<sub, rows, disk, names, left, struck>>

MayRemove(u, r) == Owned(u, r.sub) /\ Draft(r.sub)

\* remove_file(): the row goes first.
Remove(p, u, r) ==
  /\ MayRemove(u, r)
  /\ rows' = rows \ {r}
  /\ Begin(p, [Idle EXCEPT !.pc = "undo", !.op = "remove", !.by = u, !.sub = r.sub,
                           !.made = {[path |-> r.path, key |-> r.key, size |-> r.size]}])
  /\ UNCHANGED <<sub, disk, names, left, struck>>

\* Nothing refers to the key.
Fresh(k) ==
  /\ names[k] = {}
  /\ k \notin KeysOf(rows) \cup struck
  /\ \A p \in Processes : k # req[p].key /\ k \notin KeysOf(req[p].made)

\* open(): a regular file with no second name.
Readable(k) == names[k] = {"blob"}

Step(p, pc) == req[p].pc = pc

\* storage.save(): all the bytes, under a temporary name.
Stream(p, f, k) ==
  /\ Step(p, "save")
  /\ f \in req[p].todo /\ Fresh(k)
  /\ f.from # None => Readable(f.from)
  /\ names' = [names EXCEPT ![k] = {"part"}]
  /\ disk'  = [disk EXCEPT ![k] = f.size]
  /\ req'   = [req EXCEPT ![p].pc = "link", ![p].key = k, ![p].file = f, ![p].todo = @ \ {f}]
  /\ UNCHANGED <<sub, rows, left, struck>>

Link(p) ==
  /\ Step(p, "link")
  /\ names' = [names EXCEPT ![req[p].key] = @ \cup {"blob"}]
  /\ req'   = [req EXCEPT ![p].pc = "unlink"]
  /\ UNCHANGED <<sub, rows, disk, left, struck>>

SlipKeepPart(k) == names
Unpart(k)       == [names EXCEPT ![k] = @ \ {"part"}]

Saved(p) == [path |-> req[p].file.path, key |-> req[p].key, size |-> req[p].file.size]

Unlink(p) ==
  /\ Step(p, "unlink")
  /\ names' = Unpart(req[p].key)
  /\ req'   = [req EXCEPT ![p].pc = IF req[p].todo = {} THEN "record" ELSE "save",
                          ![p].made = @ \cup {Saved(p)}, ![p].key = None, ![p].file = None]
  /\ UNCHANGED <<sub, rows, disk, left, struck>>

RowsFor(i, made) == {[sub |-> i, path |-> f.path, key |-> f.key, size |-> f.size] : f \in made}

\* A submission has one file at a path, and no storage key twice.
UniqueAllows(i, made) ==
  \A r \in rows, f \in made : r.key # f.key /\ ~(r.sub = i /\ r.path = f.path)

\* The transaction that makes the files part of a draft.
Record(p) ==
  /\ Step(p, "record")
  /\ \/ /\ req[p].op = "upload"
        /\ Draft(req[p].sub) /\ UniqueAllows(req[p].sub, req[p].made)
        /\ rows' = rows \cup RowsFor(req[p].sub, req[p].made)
        /\ UNCHANGED sub
     \/ /\ req[p].op = "revise"
        /\ \E i \in Ids :
             /\ sub[i] = Absent
             /\ sub'  = [sub EXCEPT ![i] = Drafted(req[p].by, sub[req[p].sub].wants)]
             /\ rows' = rows \cup RowsFor(i, req[p].made)
  /\ req' = [req EXCEPT ![p].pc = "done"]
  /\ UNCHANGED <<disk, names, left, struck>>

Finish(p) ==
  /\ Step(p, "done")
  /\ req' = [req EXCEPT ![p] = Idle]
  /\ UNCHANGED <<sub, rows, disk, names, left, struck>>

\* Keys the request has made names for, and no one else knows of.
Hand(p) == KeysOf(req[p].made) \cup ({req[p].key} \ {None})

Undoing(p) == [req EXCEPT ![p].pc = "undo"]

\* The client goes away, the disk is full, the account has lost its role by
\* now, the database is busy: the handlers undo what the request has made.
Fail(p) ==
  /\ req[p].pc \in {"save", "link", "unlink", "record"}
  /\ req' = Undoing(p)
  /\ UNCHANGED <<sub, rows, disk, names, left, struck>>

\* SystemExit, when the server stops its worker, in the instant between the
\* commit and the end of the try statement: the same handlers run.
Interrupt(p) ==
  /\ Step(p, "done")
  /\ req'    = Undoing(p)
  /\ struck' = struck \cup Hand(p)
  /\ Cardinality(left \cup struck') <= MaxLeft
  /\ UNCHANGED <<sub, rows, disk, names, left>>

SlipUndoKey(p) == {req[p].key} \ {None}
\* What the handlers, or remove_file(), have still to unlink.
ToUndo(p)      == Hand(p)

\* One name is unlinked: the temporary one of a file after the other.
Undo(p) ==
  /\ Step(p, "undo")
  /\ \/ \E k \in ToUndo(p) :
          LET name == IF "blob" \in names[k] THEN "blob" ELSE "part"
              rest == names[k] \ {name}
          IN
          /\ names' = [names EXCEPT ![k] = rest]
          /\ disk'  = [disk EXCEPT ![k] = IF rest = {} THEN 0 ELSE @]
          /\ req'   = IF rest # {} THEN req
                      ELSE [req EXCEPT ![p].key = IF @ = k THEN None ELSE @,
                                       ![p].made = {f \in @ : f.key # k}]
     \/ /\ ToUndo(p) = {}
        /\ req' = [req EXCEPT ![p] = Idle]
        /\ UNCHANGED <<names, disk>>
  /\ UNCHANGED <<sub, rows, left, struck>>

\* The process dies; the lock goes with it, the names stay.
Crash(p) ==
  /\ req[p] # Idle
  /\ left' = left \cup {k \in Hand(p) : names[k] # {}}
  /\ Cardinality(left' \cup struck) <= MaxLeft
  /\ req'  = [req EXCEPT ![p] = Idle]
  /\ UNCHANGED <<sub, rows, disk, names, struck>>

-----------------------------------------------------------------------------
Request(p, u) ==
  \/ \E i \in Ids : Revise(p, u, i)
  \/ \E i \in Ids, path \in Paths, size \in Sizes : Upload(p, u, i, path, size)
  \/ \E r \in rows : Remove(p, u, r)

Transaction(u) ==
  \E i \in Ids :
    \/ \E wants \in Manifests : Create(u, i, wants) \/ UpdateManifest(u, i, wants)
    \/ Submit(u, i)

Proceed(p) ==
  \/ \E k \in Keys : \E f \in req[p].todo : Stream(p, f, k)
  \/ Link(p) \/ Unlink(p) \/ Record(p) \/ Finish(p) \/ Undo(p)

Next ==
  \/ \E u \in Staff : Transaction(u) \/ \E p \in Processes : Request(p, u)
  \/ \E i \in Ids, status \in Statuses : Decide(i, status)
  \/ \E p \in Processes : Proceed(p) \/ Fail(p) \/ Interrupt(p) \/ Crash(p)

Spec == Init /\ [][Next]_vars

-----------------------------------------------------------------------------
Submission == [status : Statuses, owner : Staff \cup {None}, wants : SUBSET Paths,
               digest : [wants : SUBSET Paths, files : SUBSET Row] \cup {None}]
Job == [pc : {"idle", "save", "link", "unlink", "record", "done", "undo"},
        op : {"none", "upload", "revise", "remove"}, by : Staff \cup {None}, sub : Ids \cup {None},
        todo : SUBSET Todo, key : Keys \cup {None}, file : Todo \cup {None}, made : SUBSET File]

\* Every variable keeps its type; one request at most is under way.
TypeOK ==
  /\ sub    \in [Ids -> Submission]
  /\ rows   \subseteq Row
  /\ disk   \in [Keys -> Sizes \cup {0}]
  /\ names  \in [Keys -> SUBSET {"part", "blob"}]
  /\ req    \in [Processes -> Job]
  /\ left   \subseteq Keys
  /\ struck \subseteq Keys
  /\ \A p, q \in Processes : req[p] # Idle /\ req[q] # Idle => p = q

\* Whatever fails or dies when, a row of the database has its bytes in the
\* directory, whole, and under one name, without which nobody could read
\* them: but for a request interrupted in the instant after its commit.
RowsHaveBlobs ==
  \A r \in rows : r.key \in struck \/ (Readable(r.key) /\ disk[r.key] = r.size)

\* What was submitted is what is there: manifest and files stand, whatever
\* is uploaded, removed, revised or undone anywhere.
FrozenInventory ==
  \A i \in Ids : sub[i].status \notin {"none", "draft"} => sub[i].digest = Content(i)

\* The rows keep to the quotas and the accounts to their drafts, though
\* quotas are only checked before the bytes arrive.
QuotasKept ==
  /\ Bytes(rows) <= TotalBytes
  /\ \A u \in Staff : Bytes({r \in rows : sub[r.sub].owner = u}) <= UserBytes
  /\ \A i \in Ids : Bytes(Files(i)) <= SubmissionBytes
  /\ \A u \in Staff : Cardinality(Drafts(u)) <= MaxDrafts

\* A file that no row refers to is one the request under way is at, or was
\* left by a process that died: nothing else is lost on the disk.
NoStrays ==
  \A k \in Keys : names[k] # {} =>
    k \in KeysOf(rows) \cup left \cup UNION {Hand(p) : p \in Processes}
=============================================================================
