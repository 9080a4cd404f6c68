-------------------------- MODULE QuarantineProofs --------------------------
(***************************************************************************)
(* Proofs about Quarantine, for every number of submissions, accounts,     *)
(* processes and keys, and all quotas: the types, that a row has its bytes *)
(* under one name, that what was submitted stands, that nothing but a      *)
(* dying process leaves a file behind, and that the rows keep to the       *)
(* quotas.                                                                 *)
(*                                                                         *)
(* The invariant follows one storage key through the request that makes    *)
(* it: which names it has at each point, that no row knows of it before    *)
(* the commit, and that the handlers after it touch no row's file. The     *)
(* second one follows the bytes a request was granted.                     *)
(***************************************************************************)
EXTENDS Quarantine, FiniteSums, TLAPS

Saving == {"save", "link", "unlink", "record"}

\* Before the commit the files in hand are nobody's; when it is over they
\* are rows; what is undone is no row's, or was struck.
Apart(p) ==
  /\ req[p].pc \in Saving => Hand(p) \cap KeysOf(rows) = {}
  /\ req[p].pc = "done"   => Hand(p) \subseteq KeysOf(rows)
  /\ req[p].pc = "undo"   => Hand(p) \cap KeysOf(rows) \subseteq struck

\* The file being saved has the names its point in save() gives it.
Halfway(p) ==
  /\ req[p].pc \in {"idle", "save", "record", "done"} => req[p].key = None
  /\ req[p].pc \in {"link", "unlink"} =>
       /\ req[p].key \in Keys /\ req[p].file \in Todo
       /\ req[p].key \notin KeysOf(req[p].made)
       /\ disk[req[p].key] = req[p].file.size
  /\ req[p].pc = "link"   => names[req[p].key] = {"part"}
  /\ req[p].pc = "unlink" => names[req[p].key] = {"part", "blob"}

\* The files already saved are whole, and no two have a key in common.
Whole(p) ==
  /\ req[p].pc \in Saving \cup {"done"} =>
       \A f \in req[p].made : Readable(f.key) /\ disk[f.key] = f.size
  /\ \A f, g \in req[p].made : f.key = g.key => f = g
  /\ IF req[p].pc = "idle" THEN req[p] = Idle ELSE req[p].sub \in Ids

Good(p) == Apart(p) /\ Halfway(p) /\ Whole(p)

KeysApart == \A r, s \in rows : r.key = s.key => r = s

IInv == /\ TypeOK /\ KeysApart /\ RowsHaveBlobs /\ FrozenInventory /\ NoStrays
        /\ \A p \in Processes : Good(p)

-----------------------------------------------------------------------------
(* Submissions.                                                            *)

LEMMA IdleType == Idle \in Job
BY DEF Idle, Job

LEMMA AbsentType == Absent \in Submission
BY DEF Absent, Submission, Statuses

Inventory == [wants : SUBSET Paths, files : SUBSET Row]

LEMMA SubType ==
  ASSUME TypeOK, NEW i \in Ids
  PROVE  sub[i] \in Submission /\ sub[i].wants \in SUBSET Paths /\ Content(i) \in Inventory
<1>1. sub[i] \in Submission
  BY DEF TypeOK
<1>2. sub[i].wants \in SUBSET Paths
  BY <1>1 DEF Submission
<1>3. Files(i) \in SUBSET Row
  BY DEF TypeOK, Files
<1> QED BY <1>1, <1>2, <1>3 DEF Content, Inventory

LEMMA DraftedType ==
  ASSUME NEW u \in Staff \cup {None}, NEW w \in SUBSET Paths
  PROVE  Drafted(u, w) \in Submission
BY DEF Drafted, Submission, Statuses

\* A step on one submission, whose inventory then stands if it is submitted.
LEMMA SubOnly ==
  ASSUME IInv, NEW i \in Ids, NEW s \in Submission, sub' = [sub EXCEPT ![i] = s],
         UNCHANGED <<rows, disk, names, req, left, struck>>,
         s.status \notin {"none", "draft"} => s.digest = [wants |-> s.wants, files |-> Files(i)]
  PROVE  IInv'
<1>1. TypeOK'
  BY DEF IInv, TypeOK
<1>2. KeysApart' /\ RowsHaveBlobs'
  BY DEF IInv, KeysApart, RowsHaveBlobs, Readable
<1>3. NoStrays'
  BY DEF IInv, NoStrays, Hand, KeysOf
<1>4. \A p \in Processes : Good(p)'
  <2> TAKE p \in Processes
  <2>1. Apart(p)'
    BY DEF IInv, Good, Apart, Hand, KeysOf
  <2>2. Halfway(p)'
    BY DEF IInv, Good, Halfway, KeysOf
  <2>3. Whole(p)'
    BY DEF IInv, Good, Whole, Readable
  <2> QED BY <2>1, <2>2, <2>3 DEF Good
<1>5. FrozenInventory'
  <2> SUFFICES ASSUME NEW j \in Ids, sub'[j].status \notin {"none", "draft"}
               PROVE  sub'[j].digest = Content(j)'
    BY DEF FrozenInventory
  <2>1. Files(j)' = Files(j)
    BY DEF Files
  <2>2. CASE j = i
    BY <2>1, <2>2 DEF IInv, TypeOK, Content
  <2>3. CASE j # i
    <3>1. sub'[j] = sub[j]
      BY <2>3 DEF IInv, TypeOK
    <3> QED BY <3>1, <2>1 DEF IInv, FrozenInventory, Content
  <2> QED BY <2>2, <2>3
<1> QED BY <1>1, <1>2, <1>3, <1>4, <1>5 DEF IInv

LEMMA CreateInv ==
  ASSUME IInv, NEW u \in Staff, NEW i \in Ids, NEW w \in Manifests, Create(u, i, w)
  PROVE  IInv'
<1>1. Drafted(u, w) \in Submission
  BY DraftedType, QuarantineAssumption
<1> QED BY <1>1, SubOnly DEF Create, Drafted

LEMMA UpdateManifestInv ==
  ASSUME IInv, NEW u \in Staff, NEW i \in Ids, NEW w \in Manifests, UpdateManifest(u, i, w)
  PROVE  IInv'
<1> DEFINE s == [sub[i] EXCEPT !.wants = w]
<1>1. sub[i] \in Submission /\ sub[i].status = "draft"
  BY SubType DEF IInv, UpdateManifest, Editable, Draft
<1>2. s \in Submission
  BY <1>1, QuarantineAssumption DEF Submission
<1>3. s.status = "draft"
  BY <1>1 DEF Submission
<1>4. sub' = [sub EXCEPT ![i] = s]
  BY DEF UpdateManifest
<1>5. UNCHANGED <<rows, disk, names, req, left, struck>>
  BY DEF UpdateManifest
<1> HIDE DEF s
<1> QED BY <1>2, <1>3, <1>4, <1>5, SubOnly

LEMMA SubmitInv ==
  ASSUME IInv, NEW u \in Staff, NEW i \in Ids, Submit(u, i)
  PROVE  IInv'
<1> DEFINE s == [sub[i] EXCEPT !.status = "validating", !.digest = Content(i)]
<1>1. sub[i] \in Submission /\ Content(i) \in Inventory
  BY SubType DEF IInv
<1>2. s \in Submission
  BY <1>1 DEF Submission, Inventory, Statuses
<1>3. s.digest = [wants |-> s.wants, files |-> Files(i)]
  BY <1>1 DEF Submission, Content
<1>4. sub' = [sub EXCEPT ![i] = s]
  BY DEF Submit
<1>5. UNCHANGED <<rows, disk, names, req, left, struck>>
  BY DEF Submit
<1> HIDE DEF s
<1> QED BY <1>2, <1>3, <1>4, <1>5, SubOnly

LEMMA DecideInv ==
  ASSUME IInv, NEW i \in Ids, NEW st \in Statuses, Decide(i, st)
  PROVE  IInv'
<1> DEFINE s == [sub[i] EXCEPT !.status = st]
<1>1. sub[i] \in Submission /\ sub[i].status \notin {"none", "draft"}
  BY SubType DEF IInv, Decide
<1>2. s \in Submission
  BY <1>1 DEF Submission
<1>3. s.digest = [wants |-> s.wants, files |-> Files(i)]
  BY <1>1 DEF Submission, IInv, FrozenInventory, Content
<1>4. sub' = [sub EXCEPT ![i] = s]
  BY DEF Decide
<1>5. UNCHANGED <<rows, disk, names, req, left, struck>>
  BY DEF Decide
<1> HIDE DEF s
<1> QED BY <1>2, <1>3, <1>4, <1>5, SubOnly

-----------------------------------------------------------------------------
(* The request under way.                                                  *)

\* There is one request, p's, before and after a step of p.
LEMMA OneRequest ==
  ASSUME TypeOK, NEW p \in Processes, NEW r \in Job, req' = [req EXCEPT ![p] = r],
         Unlocked \/ req[p] # Idle
  PROVE  /\ req' \in [Processes -> Job] /\ req'[p] = r
         /\ \A q \in Processes : q # p => req[q] = Idle /\ req'[q] = Idle
         /\ \A q, s \in Processes : req'[q] # Idle /\ req'[s] # Idle => q = s
<1>1. req' \in [Processes -> Job] /\ req'[p] = r
  BY DEF TypeOK
<1>2. \A q \in Processes : q # p => req[q] = Idle
  BY DEF TypeOK, Unlocked
<1>3. \A q \in Processes : q # p => req'[q] = req[q]
  BY DEF TypeOK
<1> QED BY <1>1, <1>2, <1>3

LEMMA IdleIsGood ==
  ASSUME NEW p \in Processes, req'[p] = Idle
  PROVE  Good(p)' /\ Hand(p)' = {}
<1>1. Hand(p)' = {}
  BY DEF Hand, KeysOf, Idle
<1>2. Apart(p)'
  BY DEF Apart, Idle, Saving
<1>3. Halfway(p)'
  BY DEF Halfway, Idle
<1>4. Whole(p)'
  BY DEF Whole, Idle, Saving
<1> QED BY <1>1, <1>2, <1>3, <1>4 DEF Good

LEMMA IdleHand ==
  ASSUME NEW p \in Processes, req[p] = Idle
  PROVE  Hand(p) = {}
BY DEF Hand, KeysOf, Idle

\* A file that no row refers to is in the hands of p, or was left.
Mine(p) == \A k \in Keys : names[k] # {} => k \in KeysOf(rows) \cup left \cup Hand(p)

LEMMA ToMine ==
  ASSUME NoStrays, NEW p \in Processes, \A q \in Processes : q # p => req[q] = Idle
  PROVE  Mine(p)
<1> SUFFICES ASSUME NEW k \in Keys, names[k] # {}, k \notin KeysOf(rows) \cup left
             PROVE  k \in Hand(p)
  BY DEF Mine
<1>1. PICK q \in Processes : k \in Hand(q)
  BY DEF NoStrays
<1> QED BY <1>1, IdleHand

LEMMA FromMine ==
  ASSUME NEW p \in Processes, Mine(p)'
  PROVE  NoStrays'
BY DEF Mine, NoStrays

\* What is left to show of a step of p.
LEMMA StepOf ==
  ASSUME IInv, NEW p \in Processes, NEW r \in Job, req' = [req EXCEPT ![p] = r],
         Unlocked \/ req[p] # Idle,
         sub' \in [Ids -> Submission], rows' \subseteq Row, disk' \in [Keys -> Sizes \cup {0}],
         names' \in [Keys -> SUBSET {"part", "blob"}], left' \subseteq Keys, struck' \subseteq Keys,
         KeysApart', RowsHaveBlobs', FrozenInventory', Mine(p)', Good(p)'
  PROVE  IInv'
<1>1. TypeOK'
  BY OneRequest DEF IInv, TypeOK
<1>2. NoStrays'
  BY FromMine
<1>3. \A q \in Processes : Good(q)'
  <2> TAKE q \in Processes
  <2>1. CASE q = p
    BY <2>1
  <2>2. CASE q # p
    BY <2>2, OneRequest, IdleIsGood DEF IInv
  <2> QED BY <2>1, <2>2
<1> QED BY <1>1, <1>2, <1>3 DEF IInv

\* A step on the directory alone leaves the inventories.
LEMMA Inventories ==
  ASSUME IInv, UNCHANGED <<sub, rows>>
  PROVE  /\ sub' \in [Ids -> Submission] /\ rows' \subseteq Row
         /\ KeysApart' /\ FrozenInventory'
<1>1. sub' \in [Ids -> Submission] /\ rows' \subseteq Row
  BY DEF IInv, TypeOK
<1>2. KeysApart'
  BY DEF IInv, KeysApart
<1>3. FrozenInventory'
  BY DEF IInv, FrozenInventory, Content, Files
<1> QED BY <1>1, <1>2, <1>3

-----------------------------------------------------------------------------
(* Requests begin.                                                         *)

LEMMA BeginInv ==
  ASSUME IInv, NEW p \in Processes, NEW r \in Job, Begin(p, r),
         r.pc \in {"save", "record"}, r.made = {}, r.key = None, r.sub \in Ids,
         UNCHANGED <<sub, rows, disk, names, left, struck>>
  PROVE  IInv'
<1>1. req' = [req EXCEPT ![p] = r] /\ Unlocked
  BY DEF Begin
<1>2. TypeOK /\ req'[p] = r /\ \A q \in Processes : req[q] = Idle
  BY <1>1, OneRequest DEF IInv, Unlocked
<1>3. Hand(p)' = {}
  BY <1>2 DEF Hand, KeysOf
<1>4. Apart(p)'
  BY <1>2, <1>3 DEF Apart, Saving
<1>5. Halfway(p)'
  BY <1>2 DEF Halfway
<1>6. Whole(p)'
  BY <1>2 DEF Whole
<1>7. Mine(p)'
  <2>1. Mine(p) /\ Hand(p) = {}
    BY <1>2, ToMine, IdleHand DEF IInv
  <2> QED BY <2>1 DEF Mine, KeysOf
<1>8. RowsHaveBlobs'
  BY DEF IInv, RowsHaveBlobs, Readable
<1>9. disk' \in [Keys -> Sizes \cup {0}] /\ names' \in [Keys -> SUBSET {"part", "blob"}]
  BY <1>2 DEF TypeOK
<1>10. left' \subseteq Keys /\ struck' \subseteq Keys
  BY <1>2 DEF TypeOK
<1>11. Good(p)'
  BY <1>4, <1>5, <1>6 DEF Good
<1> QED BY <1>1, <1>7, <1>8, <1>9, <1>10, <1>11, Inventories, StepOf

LEMMA UploadInv ==
  ASSUME IInv, NEW p \in Processes, NEW u \in Staff, NEW i \in Ids, NEW path \in Paths,
         NEW size \in Sizes, Upload(p, u, i, path, size)
  PROVE  IInv'
<1> DEFINE f == [path |-> path, size |-> size, from |-> None]
           r == [Idle EXCEPT !.pc = "save", !.op = "upload", !.by = u, !.sub = i, !.todo = {f}]
<1>1. f \in Todo
  BY DEF Todo
<1>2. r \in Job /\ r.pc = "save" /\ r.made = {} /\ r.key = None /\ r.sub \in Ids
  BY <1>1 DEF Idle, Job
<1>3. Begin(p, r) /\ UNCHANGED <<sub, rows, disk, names, left, struck>>
  BY DEF Upload
<1> HIDE DEF r
<1> QED BY <1>2, <1>3, BeginInv

LEMMA ReviseInv ==
  ASSUME IInv, NEW p \in Processes, NEW u \in Staff, NEW i \in Ids, Revise(p, u, i)
  PROVE  IInv'
<1> DEFINE pc == IF Files(i) = {} THEN "record" ELSE "save"
           T == {[path |-> x.path, size |-> x.size, from |-> x.key] : x \in Files(i)}
           r == [Idle EXCEPT !.pc = pc, !.op = "revise", !.by = u, !.sub = i, !.todo = T]
<1>1. T \subseteq Todo
  BY DEF IInv, TypeOK, Files, Row, Todo
<1>2. pc \in {"record", "save"}
  OBVIOUS
<1>3. Begin(p, r) /\ UNCHANGED <<sub, rows, disk, names, left, struck>>
  BY DEF Revise
<1> HIDE DEF T, pc
<1>4. r \in Job /\ r.pc \in {"save", "record"} /\ r.made = {} /\ r.key = None /\ r.sub \in Ids
  BY <1>1, <1>2 DEF Idle, Job
<1> HIDE DEF r
<1> QED BY <1>3, <1>4, BeginInv

LEMMA RemoveInv ==
  ASSUME IInv, NEW p \in Processes, NEW u \in Staff, NEW x \in rows, Remove(p, u, x)
  PROVE  IInv'
<1> DEFINE f == [path |-> x.path, key |-> x.key, size |-> x.size]
           r == [Idle EXCEPT !.pc = "undo", !.op = "remove", !.by = u, !.sub = x.sub, !.made = {f}]
<1>1. TypeOK /\ x \in Row /\ x.sub \in Ids /\ x.key \in Keys
  BY DEF IInv, TypeOK, Row
<1>2. f \in File
  BY <1>1 DEF Row, File
<1>3. r \in Job /\ r.pc = "undo" /\ r.made = {f} /\ r.key = None /\ r.sub \in Ids
  BY <1>1, <1>2 DEF Idle, Job
<1>4. req' = [req EXCEPT ![p] = r] /\ Unlocked
  BY DEF Remove, Begin
<1>5. rows' = rows \ {x} /\ sub[x.sub].status = "draft"
  BY DEF Remove, MayRemove, Draft
<1>6. UNCHANGED <<sub, disk, names, left, struck>>
  BY DEF Remove
<1> HIDE DEF r
<1>7. req'[p] = r /\ \A q \in Processes : req[q] = Idle
  BY <1>1, <1>3, <1>4, OneRequest DEF Unlocked
<1>8. Hand(p)' = {x.key}
  BY <1>7, <1>3 DEF Hand, KeysOf
<1>9. KeysApart' /\ x.key \notin KeysOf(rows')
  BY <1>5 DEF IInv, KeysApart, KeysOf
<1>10. Good(p)'
  <2>1. Apart(p)'
    BY <1>3, <1>7, <1>8, <1>9 DEF Apart, Saving, KeysOf
  <2>2. Halfway(p)'
    BY <1>3, <1>7 DEF Halfway
  <2>3. Whole(p)'
    BY <1>3, <1>7 DEF Whole, Saving
  <2> QED BY <2>1, <2>2, <2>3 DEF Good
<1>11. Mine(p)'
  <2>1. Mine(p) /\ Hand(p) = {}
    BY <1>7, ToMine, IdleHand DEF IInv
  <2>2. KeysOf(rows) \subseteq KeysOf(rows)' \cup {x.key}
    BY <1>5 DEF KeysOf
  <2> QED BY <2>1, <2>2, <1>6, <1>8 DEF Mine
<1>12. RowsHaveBlobs'
  BY <1>5, <1>6 DEF IInv, RowsHaveBlobs, Readable
<1>13. FrozenInventory'
  <2> SUFFICES ASSUME NEW j \in Ids, sub[j].status \notin {"none", "draft"}
               PROVE  sub[j].digest = Content(j)'
    BY <1>6 DEF FrozenInventory
  <2>1. Files(j)' = Files(j)
    BY <1>5 DEF Files
  <2> QED BY <2>1, <1>6 DEF IInv, FrozenInventory, Content
<1>14. sub' \in [Ids -> Submission] /\ rows' \subseteq Row
  BY <1>1, <1>5, <1>6 DEF TypeOK
<1>15. disk' \in [Keys -> Sizes \cup {0}] /\ names' \in [Keys -> SUBSET {"part", "blob"}]
  BY <1>1, <1>6 DEF TypeOK
<1>16. left' \subseteq Keys /\ struck' \subseteq Keys
  BY <1>1, <1>6 DEF TypeOK
<1> QED BY <1>3, <1>4, <1>9, <1>10, <1>11, <1>12, <1>13, <1>14, <1>15, <1>16, StepOf

-----------------------------------------------------------------------------
(* Requests go on.                                                         *)

\* The request of p is under way, at its program counter.
LEMMA AtWork ==
  ASSUME IInv, NEW p \in Processes, req[p].pc # "idle"
  PROVE  /\ TypeOK /\ req[p] \in Job /\ req[p] # Idle
         /\ Apart(p) /\ Halfway(p) /\ Whole(p) /\ Mine(p) /\ req[p].sub \in Ids
         /\ \A q \in Processes : q # p => req[q] = Idle
<1>1. req[p] # Idle
  BY DEF Idle
<1>2. TypeOK /\ req[p] \in Job /\ Apart(p) /\ Halfway(p) /\ Whole(p)
  BY DEF IInv, TypeOK, Good
<1>3. \A q \in Processes : q # p => req[q] = Idle
  BY <1>1, <1>2 DEF TypeOK
<1>4. Mine(p)
  BY <1>3, ToMine DEF IInv
<1>5. req[p].sub \in Ids
  BY <1>2 DEF Whole
<1> QED BY <1>1, <1>2, <1>3, <1>4, <1>5

LEMMA StreamInv ==
  ASSUME IInv, NEW p \in Processes, NEW k \in Keys, NEW f \in req[p].todo, Stream(p, f, k)
  PROVE  IInv'
<1> DEFINE r == [req[p] EXCEPT !.pc = "link", !.key = k, !.file = f, !.todo = @ \ {f}]
<1>1. req[p].pc = "save" /\ Fresh(k)
  BY DEF Stream, Step
<1>2. /\ TypeOK /\ req[p] \in Job /\ req[p] # Idle /\ Apart(p) /\ Halfway(p) /\ Whole(p)
      /\ Mine(p) /\ req[p].sub \in Ids
  BY <1>1, AtWork
<1>3. f \in Todo /\ f.size \in Sizes
  BY <1>2 DEF Job, Todo
<1>4. r \in Job
  BY <1>2, <1>3 DEF Job
<1>5. /\ r.pc = "link" /\ r.key = k /\ r.file = f
      /\ r.made = req[p].made /\ r.sub = req[p].sub
  BY <1>2 DEF Job
<1>6. req' = [req EXCEPT ![p] = r]
  BY DEF Stream
<1>7. /\ names' = [names EXCEPT ![k] = {"part"}]
      /\ disk' = [disk EXCEPT ![k] = f.size]
      /\ UNCHANGED <<sub, rows, left, struck>>
  BY DEF Stream
<1> HIDE DEF r
<1>8. req'[p] = r
  BY <1>2, <1>4, <1>6, OneRequest
<1>9. k \notin KeysOf(rows) /\ k \notin KeysOf(req[p].made)
  BY <1>1 DEF Fresh
<1>10. Hand(p) = KeysOf(req[p].made) /\ Hand(p)' = KeysOf(req[p].made) \cup {k}
  <2>1. req[p].key = None
    BY <1>1, <1>2 DEF Halfway
  <2>2. k # None
    BY QuarantineAssumption
  <2> QED BY <2>1, <2>2, <1>5, <1>8 DEF Hand, KeysOf
<1>11. Apart(p)'
  BY <1>1, <1>2, <1>5, <1>7, <1>8, <1>9, <1>10 DEF Apart, Saving, KeysOf
<1>12. /\ names'[k] = {"part"} /\ disk'[k] = f.size
       /\ \A l \in Keys : l # k => names'[l] = names[l] /\ disk'[l] = disk[l]
  BY <1>2, <1>7 DEF TypeOK
<1>13. Halfway(p)'
  BY <1>3, <1>5, <1>8, <1>9, <1>12 DEF Halfway, KeysOf
<1>14. Whole(p)'
  <2>1. \A g \in req[p].made : g.key \in Keys /\ g.key # k
    BY <1>2, <1>9 DEF Job, File, KeysOf
  <2>2. \A g \in req[p].made : Readable(g.key) /\ disk[g.key] = g.size
    BY <1>1, <1>2 DEF Whole, Saving
  <2>3. \A g \in req[p].made : names'[g.key] = {"blob"} /\ disk'[g.key] = g.size
    BY <2>1, <2>2, <1>12 DEF Readable
  <2>4. \A g, h \in req[p].made : g.key = h.key => g = h
    BY <1>2 DEF Whole
  <2> QED BY <2>3, <2>4, <1>2, <1>5, <1>8 DEF Whole, Readable
<1>15. Mine(p)'
  BY <1>2, <1>7, <1>10, <1>12 DEF Mine, KeysOf
<1>16. RowsHaveBlobs'
  <2>1. \A x \in rows : x.key \in Keys /\ x.key # k
    BY <1>2, <1>9 DEF TypeOK, Row, KeysOf
  <2> QED BY <2>1, <1>7, <1>12 DEF IInv, RowsHaveBlobs, Readable
<1>17. disk' \in [Keys -> Sizes \cup {0}] /\ names' \in [Keys -> SUBSET {"part", "blob"}]
  BY <1>2, <1>3, <1>7 DEF TypeOK
<1>18. left' \subseteq Keys /\ struck' \subseteq Keys
  BY <1>2, <1>7 DEF TypeOK
<1>19. Good(p)'
  BY <1>11, <1>13, <1>14 DEF Good
<1> QED BY <1>2, <1>4, <1>6, <1>7, <1>15, <1>16, <1>17, <1>18, <1>19, Inventories, StepOf

LEMMA LinkInv ==
  ASSUME IInv, NEW p \in Processes, Link(p)
  PROVE  IInv'
<1> DEFINE r == [req[p] EXCEPT !.pc = "unlink"]
           k == req[p].key
<1>1. req[p].pc = "link"
  BY DEF Link, Step
<1>2. /\ TypeOK /\ req[p] \in Job /\ req[p] # Idle /\ Apart(p) /\ Halfway(p) /\ Whole(p)
      /\ Mine(p) /\ req[p].sub \in Ids
  BY <1>1, AtWork
<1>3. r \in Job
  BY <1>2 DEF Job
<1>4. /\ r.pc = "unlink" /\ r.key = k /\ r.file = req[p].file
      /\ r.made = req[p].made /\ r.sub = req[p].sub
  BY <1>2 DEF Job
<1>5. req' = [req EXCEPT ![p] = r]
  BY DEF Link
<1>6. names' = [names EXCEPT ![k] = @ \cup {"blob"}] /\ UNCHANGED <<sub, rows, disk, left, struck>>
  BY DEF Link
<1> HIDE DEF r
<1>7. req'[p] = r
  BY <1>2, <1>3, <1>5, OneRequest
<1>8. /\ k \in Keys /\ req[p].file \in Todo /\ k \notin KeysOf(req[p].made)
      /\ disk[k] = req[p].file.size /\ names[k] = {"part"}
  BY <1>1, <1>2 DEF Halfway
<1>9. Hand(p)' = Hand(p) /\ k \in Hand(p)
  BY <1>4, <1>7, <1>8, QuarantineAssumption DEF Hand, KeysOf
<1>10. Hand(p) \cap KeysOf(rows) = {}
  BY <1>1, <1>2 DEF Apart, Saving
<1>11. Apart(p)'
  BY <1>4, <1>6, <1>7, <1>9, <1>10 DEF Apart, KeysOf
<1>12. names'[k] = {"part", "blob"} /\ \A l \in Keys : l # k => names'[l] = names[l]
  BY <1>2, <1>6, <1>8 DEF TypeOK
<1>13. Halfway(p)'
  BY <1>4, <1>6, <1>7, <1>8, <1>12 DEF Halfway, KeysOf
<1>14. Whole(p)'
  <2>1. \A g \in req[p].made : g.key \in Keys /\ g.key # k
    BY <1>2, <1>8 DEF Job, File, KeysOf
  <2>2. \A g \in req[p].made : Readable(g.key) /\ disk[g.key] = g.size
    BY <1>1, <1>2 DEF Whole, Saving
  <2>3. \A g \in req[p].made : names'[g.key] = {"blob"} /\ disk'[g.key] = g.size
    BY <2>1, <2>2, <1>6, <1>12 DEF Readable
  <2>4. \A g, h \in req[p].made : g.key = h.key => g = h
    BY <1>2 DEF Whole
  <2> QED BY <2>3, <2>4, <1>2, <1>4, <1>7 DEF Whole, Readable
<1>15. Mine(p)'
  BY <1>2, <1>6, <1>9, <1>12 DEF Mine, KeysOf
<1>16. RowsHaveBlobs'
  <2>1. \A x \in rows : x.key \in Keys /\ x.key # k
    BY <1>2, <1>9, <1>10 DEF TypeOK, Row, KeysOf
  <2> QED BY <2>1, <1>6, <1>12 DEF IInv, RowsHaveBlobs, Readable
<1>17. disk' \in [Keys -> Sizes \cup {0}] /\ names' \in [Keys -> SUBSET {"part", "blob"}]
  BY <1>2, <1>6 DEF TypeOK
<1>18. left' \subseteq Keys /\ struck' \subseteq Keys
  BY <1>2, <1>6 DEF TypeOK
<1>19. Good(p)'
  BY <1>11, <1>13, <1>14 DEF Good
<1> QED BY <1>2, <1>3, <1>5, <1>6, <1>15, <1>16, <1>17, <1>18, <1>19, Inventories, StepOf

LEMMA UnlinkInv ==
  ASSUME IInv, NEW p \in Processes, Unlink(p)
  PROVE  IInv'
<1> DEFINE pc == IF req[p].todo = {} THEN "record" ELSE "save"
           made == req[p].made \cup {Saved(p)}
           r == [req[p] EXCEPT !.pc = pc, !.made = made, !.key = None, !.file = None]
           k == req[p].key
<1>1. req[p].pc = "unlink"
  BY DEF Unlink, Step
<1>2. /\ TypeOK /\ req[p] \in Job /\ req[p] # Idle /\ Apart(p) /\ Halfway(p) /\ Whole(p)
      /\ Mine(p) /\ req[p].sub \in Ids
  BY <1>1, AtWork
<1>3. /\ k \in Keys /\ req[p].file \in Todo /\ k \notin KeysOf(req[p].made)
      /\ disk[k] = req[p].file.size /\ names[k] = {"part", "blob"}
  BY <1>1, <1>2 DEF Halfway
<1>4. Saved(p) \in File /\ Saved(p).key = k /\ Saved(p).size = disk[k]
  BY <1>3 DEF Saved, Todo, File
<1>5. req' = [req EXCEPT ![p] = r] /\ pc \in {"record", "save"}
  BY DEF Unlink
<1>6. names' = [names EXCEPT ![k] = @ \ {"part"}] /\ UNCHANGED <<sub, rows, disk, left, struck>>
  BY DEF Unlink, Unpart
<1> HIDE DEF pc
<1>7. r \in Job /\ r.pc = pc /\ r.made = made /\ r.key = None /\ r.sub = req[p].sub
  BY <1>2, <1>4, <1>5 DEF Job
<1> HIDE DEF r
<1>8. req'[p] = r
  BY <1>2, <1>5, <1>7, OneRequest
<1>9. Hand(p) = KeysOf(req[p].made) \cup {k} /\ Hand(p)' = Hand(p)
  BY <1>3, <1>4, <1>7, <1>8, QuarantineAssumption DEF Hand, KeysOf
<1>10. Hand(p) \cap KeysOf(rows) = {}
  BY <1>1, <1>2 DEF Apart, Saving
<1>11. Apart(p)'
  BY <1>5, <1>6, <1>7, <1>8, <1>9, <1>10 DEF Apart, KeysOf
<1>12. names'[k] = {"blob"} /\ \A l \in Keys : l # k => names'[l] = names[l]
  BY <1>2, <1>3, <1>6 DEF TypeOK
<1>13. Halfway(p)'
  BY <1>5, <1>7, <1>8 DEF Halfway
<1>14. Whole(p)'
  <2>1. \A g \in req[p].made : g.key \in Keys /\ g.key # k
    BY <1>2, <1>3 DEF Job, File, KeysOf
  <2>2. \A g \in req[p].made : Readable(g.key) /\ disk[g.key] = g.size
    BY <1>1, <1>2 DEF Whole, Saving
  <2>3. \A g \in made : names'[g.key] = {"blob"} /\ disk'[g.key] = g.size
    BY <2>1, <2>2, <1>4, <1>6, <1>12 DEF Readable
  <2>4. \A g, h \in req[p].made : g.key = h.key => g = h
    BY <1>2 DEF Whole
  <2>5. \A g, h \in made : g.key = h.key => g = h
    BY <2>1, <2>4, <1>4
  <2> QED BY <2>3, <2>5, <1>2, <1>5, <1>7, <1>8 DEF Whole, Readable
<1>15. Mine(p)'
  BY <1>2, <1>6, <1>9, <1>12 DEF Mine, KeysOf
<1>16. RowsHaveBlobs'
  <2>1. \A x \in rows : x.key \in Keys /\ x.key # k
    BY <1>2, <1>9, <1>10 DEF TypeOK, Row, KeysOf
  <2> QED BY <2>1, <1>6, <1>12 DEF IInv, RowsHaveBlobs, Readable
<1>17. disk' \in [Keys -> Sizes \cup {0}] /\ names' \in [Keys -> SUBSET {"part", "blob"}]
  BY <1>2, <1>6 DEF TypeOK
<1>18. left' \subseteq Keys /\ struck' \subseteq Keys
  BY <1>2, <1>6 DEF TypeOK
<1>19. Good(p)'
  BY <1>11, <1>13, <1>14 DEF Good
<1> QED BY <1>2, <1>5, <1>6, <1>7, <1>15, <1>16, <1>17, <1>18, <1>19, Inventories, StepOf

\* The files in hand become rows of i: in the database of their own.
LEMMA RecordedRows ==
  ASSUME IInv, NEW p \in Processes, req[p].pc = "record", NEW i \in Ids,
         rows' = rows \cup RowsFor(i, req[p].made), UNCHANGED <<disk, names, struck>>
  PROVE  /\ rows' \subseteq Row /\ KeysOf(rows)' = KeysOf(rows) \cup Hand(p)
         /\ KeysApart' /\ RowsHaveBlobs'
         /\ \A j \in Ids : j # i => Files(j)' = Files(j)
<1> DEFINE RowOf(f) == [sub |-> i, path |-> f.path, key |-> f.key, size |-> f.size]
           new == RowsFor(i, req[p].made)
<1>1. TypeOK /\ req[p] \in Job /\ Apart(p) /\ Halfway(p) /\ Whole(p)
  BY AtWork
<1>2. \A x \in new : \E f \in req[p].made :
        x = [sub |-> i, path |-> f.path, key |-> f.key, size |-> f.size]
  BY DEF RowsFor
<1>3. new \subseteq Row /\ KeysOf(new) = KeysOf(req[p].made)
  <2>1. \A f \in req[p].made : f.path \in Paths /\ f.key \in Keys /\ f.size \in Sizes
    BY <1>1 DEF Job, File
  <2>2. new \subseteq Row
    BY <2>1, <1>2 DEF Row
  <2>3. KeysOf(new) \subseteq KeysOf(req[p].made)
    BY <1>2 DEF KeysOf
  <2>4. ASSUME NEW f \in req[p].made PROVE f.key \in KeysOf(new)
    <3>1. RowOf(f) \in new
      BY DEF RowsFor
    <3>2. RowOf(f).key = f.key
      OBVIOUS
    <3> QED BY <3>1, <3>2 DEF KeysOf
  <2>5. KeysOf(req[p].made) \subseteq KeysOf(new)
    BY <2>4 DEF KeysOf
  <2> QED BY <2>2, <2>3, <2>5
<1>4. Hand(p) = KeysOf(req[p].made) /\ Hand(p) \cap KeysOf(rows) = {}
  BY <1>1 DEF Hand, Apart, Halfway, Saving
<1>5. KeysOf(rows)' = KeysOf(rows) \cup Hand(p)
  BY <1>3, <1>4 DEF KeysOf
<1>6. \A x, y \in new : x.key = y.key => x = y
  BY <1>1, <1>2 DEF Whole
<1>7. \A x \in rows, y \in new : x.key # y.key
  BY <1>3, <1>4 DEF KeysOf
<1>8. KeysApart'
  BY <1>6, <1>7 DEF IInv, KeysApart
<1>9. \A x \in new : Readable(x.key) /\ disk[x.key] = x.size
  BY <1>1, <1>2 DEF Whole, Saving
<1>10. RowsHaveBlobs'
  BY <1>9 DEF IInv, RowsHaveBlobs, Readable
<1>11. \A j \in Ids : j # i => Files(j)' = Files(j)
  BY <1>2 DEF Files
<1> QED BY <1>1, <1>3, <1>5, <1>8, <1>10, <1>11 DEF TypeOK

LEMMA RecordInv ==
  ASSUME IInv, NEW p \in Processes, Record(p)
  PROVE  IInv'
<1> DEFINE r == [req[p] EXCEPT !.pc = "done"]
<1>1. req[p].pc = "record"
  BY DEF Record, Step
<1>2. /\ TypeOK /\ req[p] \in Job /\ req[p] # Idle /\ Apart(p) /\ Halfway(p) /\ Whole(p)
      /\ Mine(p) /\ req[p].sub \in Ids
  BY <1>1, AtWork
<1>3. /\ r \in Job /\ r.pc = "done" /\ r.key = req[p].key
      /\ r.made = req[p].made /\ r.sub = req[p].sub
  BY <1>2 DEF Job
<1>4. req' = [req EXCEPT ![p] = r] /\ UNCHANGED <<disk, names, left, struck>>
  BY DEF Record
<1> HIDE DEF r
<1>5. req'[p] = r
  BY <1>2, <1>3, <1>4, OneRequest
<1>6. PICK i \in Ids :
        /\ rows' = rows \cup RowsFor(i, req[p].made)
        /\ sub[i].status \in {"none", "draft"}
        /\ \/ sub' = sub
           \/ sub' = [sub EXCEPT ![i] = Drafted(req[p].by, sub[req[p].sub].wants)]
  BY <1>2 DEF Record, Draft, Absent
<1>7. /\ rows' \subseteq Row /\ KeysOf(rows)' = KeysOf(rows) \cup Hand(p)
      /\ KeysApart' /\ RowsHaveBlobs'
      /\ \A j \in Ids : j # i => Files(j)' = Files(j)
  BY <1>1, <1>4, <1>6, RecordedRows
<1>8. Hand(p)' = Hand(p)
  BY <1>3, <1>5 DEF Hand, KeysOf
<1>9. Good(p)'
  <2>1. Apart(p)'
    BY <1>3, <1>5, <1>7, <1>8 DEF Apart, Saving
  <2>2. Halfway(p)'
    BY <1>1, <1>2, <1>3, <1>5 DEF Halfway
  <2>3. Whole(p)'
    BY <1>1, <1>2, <1>3, <1>4, <1>5 DEF Whole, Saving, Readable
  <2> QED BY <2>1, <2>2, <2>3 DEF Good
<1>10. Mine(p)'
  BY <1>2, <1>4, <1>7, <1>8 DEF Mine
<1>11. Drafted(req[p].by, sub[req[p].sub].wants) \in Submission
  BY <1>2, SubType, DraftedType DEF Job
<1>12. sub' \in [Ids -> Submission]
  BY <1>2, <1>6, <1>11 DEF TypeOK
<1>13. FrozenInventory'
  <2> SUFFICES ASSUME NEW j \in Ids, sub'[j].status \notin {"none", "draft"}
               PROVE  sub'[j].digest = Content(j)'
    BY DEF FrozenInventory
  <2>1. j # i /\ sub'[j] = sub[j]
    BY <1>2, <1>6 DEF TypeOK, Drafted
  <2> QED BY <2>1, <1>7 DEF IInv, FrozenInventory, Content
<1>14. disk' \in [Keys -> Sizes \cup {0}] /\ names' \in [Keys -> SUBSET {"part", "blob"}]
  BY <1>2, <1>4 DEF TypeOK
<1>15. left' \subseteq Keys /\ struck' \subseteq Keys
  BY <1>2, <1>4 DEF TypeOK
<1> QED BY <1>2, <1>3, <1>4, <1>7, <1>9, <1>10, <1>12, <1>13, <1>14, <1>15, StepOf

-----------------------------------------------------------------------------
(* Requests end, fail, or die.                                             *)

\* The directory and the database are left alone.
LEMMA Untouched ==
  ASSUME IInv, UNCHANGED <<sub, rows, disk, names>>, struck \subseteq struck'
  PROVE  /\ sub' \in [Ids -> Submission] /\ rows' \subseteq Row
         /\ disk' \in [Keys -> Sizes \cup {0}] /\ names' \in [Keys -> SUBSET {"part", "blob"}]
         /\ KeysApart' /\ RowsHaveBlobs' /\ FrozenInventory'
<1>1. RowsHaveBlobs'
  BY DEF IInv, RowsHaveBlobs, Readable
<1>2. disk' \in [Keys -> Sizes \cup {0}] /\ names' \in [Keys -> SUBSET {"part", "blob"}]
  BY DEF IInv, TypeOK
<1> QED BY <1>1, <1>2, Inventories

\* The request is over, and has left nothing that is not on record.
LEMMA OverInv ==
  ASSUME IInv, NEW p \in Processes, req[p].pc # "idle", req' = [req EXCEPT ![p] = Idle],
         UNCHANGED <<sub, rows, disk, names, struck>>, left \subseteq left', left' \subseteq Keys,
         \A k \in Hand(p) : names[k] # {} => k \in KeysOf(rows) \cup left'
  PROVE  IInv'
<1>1. TypeOK /\ Mine(p) /\ req[p] # Idle
  BY AtWork
<1>2. req'[p] = Idle
  BY <1>1, IdleType, OneRequest
<1>3. Good(p)' /\ Hand(p)' = {}
  BY <1>2, IdleIsGood
<1>4. Mine(p)'
  BY <1>1, <1>3 DEF Mine, KeysOf
<1>5. struck' \subseteq Keys
  BY <1>1 DEF TypeOK
<1> QED BY <1>1, <1>3, <1>4, <1>5, IdleType, Untouched, StepOf

LEMMA FinishInv ==
  ASSUME IInv, NEW p \in Processes, Finish(p)
  PROVE  IInv'
<1>1. req[p].pc = "done"
  BY DEF Finish, Step
<1>2. TypeOK /\ Apart(p)
  BY <1>1, AtWork
<1>3. Hand(p) \subseteq KeysOf(rows)
  BY <1>1, <1>2 DEF Apart
<1> QED BY <1>1, <1>2, <1>3, OverInv DEF Finish, TypeOK

LEMMA CrashInv ==
  ASSUME IInv, NEW p \in Processes, Crash(p)
  PROVE  IInv'
<1>1. req[p].pc # "idle"
  BY DEF Crash, IInv, Good, Whole
<1>2. TypeOK /\ req[p] \in Job
  BY <1>1, AtWork
<1>3. Hand(p) \subseteq Keys
  BY <1>2 DEF Hand, KeysOf, Job, File
<1>4. left' = left \cup {k \in Hand(p) : names[k] # {}}
  BY DEF Crash
<1>5. left' \subseteq Keys
  BY <1>2, <1>3, <1>4 DEF TypeOK
<1> QED BY <1>1, <1>4, <1>5, OverInv DEF Crash

\* The handlers take over what p has in hand.
LEMMA UndoingInv ==
  ASSUME IInv, NEW p \in Processes, req[p].pc \in Saving \cup {"done"}, req' = Undoing(p),
         UNCHANGED <<sub, rows, disk, names, left>>, struck \subseteq struck', struck' \subseteq Keys,
         Hand(p) \cap KeysOf(rows) \subseteq struck'
  PROVE  IInv'
<1> DEFINE r == [req[p] EXCEPT !.pc = "undo"]
<1>1. /\ TypeOK /\ req[p] \in Job /\ req[p] # Idle /\ Whole(p) /\ Mine(p) /\ req[p].sub \in Ids
  BY AtWork DEF Saving
<1>2. /\ r \in Job /\ r.pc = "undo" /\ r.key = req[p].key
      /\ r.made = req[p].made /\ r.sub = req[p].sub
  BY <1>1 DEF Job
<1>3. req' = [req EXCEPT ![p] = r]
  BY DEF Undoing
<1> HIDE DEF r
<1>4. req'[p] = r
  BY <1>1, <1>2, <1>3, OneRequest
<1>5. Hand(p)' = Hand(p)
  BY <1>2, <1>4 DEF Hand, KeysOf
<1>6. Good(p)'
  <2>1. Apart(p)'
    BY <1>2, <1>4, <1>5 DEF Apart, Saving, KeysOf
  <2>2. Halfway(p)'
    BY <1>2, <1>4 DEF Halfway
  <2>3. Whole(p)'
    BY <1>1, <1>2, <1>4 DEF Whole, Saving
  <2> QED BY <2>1, <2>2, <2>3 DEF Good
<1>7. Mine(p)'
  BY <1>1, <1>5 DEF Mine, KeysOf
<1>8. left' \subseteq Keys
  BY <1>1 DEF TypeOK
<1> QED BY <1>1, <1>2, <1>3, <1>6, <1>7, <1>8, Untouched, StepOf

LEMMA FailInv ==
  ASSUME IInv, NEW p \in Processes, Fail(p)
  PROVE  IInv'
<1>1. req[p].pc \in Saving
  BY DEF Fail, Saving
<1>2. TypeOK /\ Apart(p)
  BY <1>1, AtWork DEF Saving
<1>3. Hand(p) \cap KeysOf(rows) = {}
  BY <1>1, <1>2 DEF Apart
<1> QED BY <1>1, <1>2, <1>3, UndoingInv DEF Fail, TypeOK

LEMMA InterruptInv ==
  ASSUME IInv, NEW p \in Processes, Interrupt(p)
  PROVE  IInv'
<1>1. req[p].pc = "done"
  BY DEF Interrupt, Step
<1>2. TypeOK /\ req[p] \in Job
  BY <1>1, AtWork
<1>3. Hand(p) \subseteq Keys
  BY <1>2 DEF Hand, KeysOf, Job, File
<1>4. struck' = struck \cup Hand(p) /\ struck' \subseteq Keys
  BY <1>2, <1>3 DEF Interrupt, TypeOK
<1> QED BY <1>1, <1>4, UndoingInv DEF Interrupt

Unlinks(p, k, name) ==
  LET rest == names[k] \ {name} IN
  /\ names' = [names EXCEPT ![k] = rest]
  /\ disk'  = [disk EXCEPT ![k] = IF rest = {} THEN 0 ELSE @]
  /\ req'   = IF rest # {} THEN req
              ELSE [req EXCEPT ![p].key = IF @ = k THEN None ELSE @,
                               ![p].made = {f \in @ : f.key # k}]

\* One name is unlinked, of a file in hand.
LEMMA UndoOneInv ==
  ASSUME IInv, NEW p \in Processes, req[p].pc = "undo", NEW k \in Hand(p), NEW name,
         Unlinks(p, k, name),
         UNCHANGED <<sub, rows, left, struck>>
  PROVE  IInv'
<1> DEFINE rest == names[k] \ {name}
           key == IF req[p].key = k THEN None ELSE req[p].key
           made == {f \in req[p].made : f.key # k}
           r == IF rest # {} THEN req[p] ELSE [req[p] EXCEPT !.key = key, !.made = made]
<1>1. /\ TypeOK /\ req[p] \in Job /\ req[p] # Idle /\ Apart(p) /\ Whole(p) /\ Mine(p)
      /\ req[p].sub \in Ids
  BY AtWork
<1>2. k \in Keys
  BY <1>1 DEF Hand, KeysOf, Job, File
<1>3. req' = [req EXCEPT ![p] = r]
  BY <1>1 DEF TypeOK, Unlinks
<1>4. /\ r \in Job /\ r.pc = "undo" /\ r.sub = req[p].sub /\ r.made \subseteq req[p].made
      /\ rest # {} => r = req[p]
      /\ rest = {} => r.key = key /\ r.made = made
  <2>1. CASE rest # {}
    BY <2>1, <1>1
  <2>2. CASE rest = {}
    BY <2>2, <1>1 DEF Job
  <2> QED BY <2>1, <2>2
<1> HIDE DEF r
<1>5. req'[p] = r
  BY <1>1, <1>3, <1>4, OneRequest
<1>6. Hand(p)' \subseteq Hand(p) /\ Hand(p) \subseteq Hand(p)' \cup {k} /\ (rest # {} => Hand(p)' = Hand(p))
  BY <1>4, <1>5 DEF Hand, KeysOf
<1>7. Good(p)'
  <2>1. Apart(p)'
    BY <1>1, <1>4, <1>5, <1>6 DEF Apart, Saving, KeysOf
  <2>2. Halfway(p)'
    BY <1>4, <1>5 DEF Halfway
  <2>3. Whole(p)'
    BY <1>1, <1>4, <1>5 DEF Whole, Saving
  <2> QED BY <2>1, <2>2, <2>3 DEF Good
<1>8. /\ names'[k] = rest
      /\ \A l \in Keys : l # k => names'[l] = names[l] /\ disk'[l] = disk[l]
  BY <1>1, <1>2 DEF TypeOK, Unlinks
<1>9. Mine(p)'
  BY <1>1, <1>2, <1>6, <1>8 DEF Mine, KeysOf
<1>10. RowsHaveBlobs'
  <2>1. k \in KeysOf(rows) => k \in struck
    BY <1>1 DEF Apart
  <2>2. \A x \in rows : x.key \in Keys /\ (x.key # k \/ x.key \in struck)
    BY <2>1, <1>1 DEF TypeOK, Row, KeysOf
  <2> QED BY <2>2, <1>8 DEF IInv, RowsHaveBlobs, Readable
<1>11. names' \in [Keys -> SUBSET {"part", "blob"}]
  BY <1>1 DEF TypeOK, Unlinks
<1>12. disk' \in [Keys -> Sizes \cup {0}]
  BY <1>1 DEF TypeOK, Unlinks
<1>13. left' \subseteq Keys /\ struck' \subseteq Keys
  BY <1>1 DEF TypeOK
<1> QED BY <1>1, <1>3, <1>4, <1>7, <1>9, <1>10, <1>11, <1>12, <1>13, Inventories, StepOf

LEMMA UndoInv ==
  ASSUME IInv, NEW p \in Processes, Undo(p)
  PROVE  IInv'
<1>1. req[p].pc = "undo" /\ UNCHANGED <<sub, rows, left, struck>>
  BY DEF Undo, Step
<1>2. CASE Hand(p) = {} /\ req' = [req EXCEPT ![p] = Idle] /\ UNCHANGED <<names, disk>>
  <2>1. left' \subseteq Keys
    BY <1>1 DEF IInv, TypeOK
  <2> QED BY <2>1, <1>1, <1>2, OverInv
<1>3. ASSUME NEW k \in Hand(p), NEW name, Unlinks(p, k, name)
      PROVE  IInv'
  BY <1>1, <1>3, UndoOneInv
<1> QED BY <1>2, <1>3 DEF Undo, ToUndo, Unlinks

-----------------------------------------------------------------------------
(* The invariant.                                                          *)

LEMMA InitInv == Init => IInv
<1> SUFFICES ASSUME Init PROVE IInv
  OBVIOUS
<1>1. \A p \in Processes : req[p] = Idle
  BY DEF Init
<1>2. TypeOK
  BY <1>1, IdleType, AbsentType DEF Init, TypeOK
<1>3. \A p \in Processes : Good(p)
  <2> TAKE p \in Processes
  <2>1. Apart(p)
    BY <1>1 DEF Apart, Idle, Saving
  <2>2. Halfway(p)
    BY <1>1 DEF Halfway, Idle
  <2>3. Whole(p)
    BY <1>1 DEF Whole, Idle, Saving
  <2> QED BY <2>1, <2>2, <2>3 DEF Good
<1>4. KeysApart /\ RowsHaveBlobs /\ NoStrays
  BY DEF Init, KeysApart, RowsHaveBlobs, NoStrays
<1>5. FrozenInventory
  BY DEF Init, FrozenInventory, Absent
<1> QED BY <1>2, <1>3, <1>4, <1>5 DEF IInv

LEMMA StutterInv == IInv /\ UNCHANGED vars => IInv'
<1> SUFFICES ASSUME IInv, UNCHANGED vars PROVE IInv'
  OBVIOUS
<1>1. TypeOK' /\ KeysApart'
  BY DEF IInv, vars, TypeOK, KeysApart
<1>2. RowsHaveBlobs' /\ FrozenInventory'
  BY DEF IInv, vars, RowsHaveBlobs, FrozenInventory, Readable, Content, Files
<1>3. NoStrays'
  BY DEF IInv, vars, NoStrays, Hand, KeysOf
<1>4. \A p \in Processes : Good(p)'
  <2> TAKE p \in Processes
  <2>1. Apart(p)'
    BY DEF IInv, vars, Good, Apart, Hand, KeysOf
  <2>2. Halfway(p)'
    BY DEF IInv, vars, Good, Halfway, KeysOf
  <2>3. Whole(p)'
    BY DEF IInv, vars, Good, Whole, Readable
  <2> QED BY <2>1, <2>2, <2>3 DEF Good
<1> QED BY <1>1, <1>2, <1>3, <1>4 DEF IInv

LEMMA NextInv == IInv /\ [Next]_vars => IInv'
<1> SUFFICES ASSUME IInv, [Next]_vars PROVE IInv'
  OBVIOUS
<1>1. ASSUME NEW u \in Staff, Transaction(u) PROVE IInv'
  BY <1>1, CreateInv, UpdateManifestInv, SubmitInv DEF Transaction
<1>2. ASSUME NEW u \in Staff, NEW p \in Processes, Request(p, u) PROVE IInv'
  BY <1>2, UploadInv, ReviseInv, RemoveInv DEF Request
<1>3. ASSUME NEW i \in Ids, NEW st \in Statuses, Decide(i, st) PROVE IInv'
  BY <1>3, DecideInv
<1>4. ASSUME NEW p \in Processes, Proceed(p) PROVE IInv'
  BY <1>4, StreamInv, LinkInv, UnlinkInv, RecordInv, FinishInv, UndoInv DEF Proceed
<1>5. ASSUME NEW p \in Processes, Fail(p) \/ Interrupt(p) \/ Crash(p) PROVE IInv'
  BY <1>5, FailInv, InterruptInv, CrashInv
<1>6. CASE UNCHANGED vars
  BY <1>6, StutterInv
<1> QED BY <1>1, <1>2, <1>3, <1>4, <1>5, <1>6 DEF Next

\* The invariant holds in every state the intake can reach: intake.py and
\* storage.py, whatever fails or dies between two of their steps.
THEOREM Invariant == Spec => []IInv
BY InitInv, NextInv, PTL DEF Spec

\* Every variable keeps its type, and there is one request under the lock.
THEOREM Typed == Spec => []TypeOK
<1>1. IInv => TypeOK
  BY DEF IInv
<1> QED BY <1>1, Invariant, PTL

\* A row has its bytes in the directory, under one name: save() links before
\* the commit, remove_file() unlinks after it, and the handlers in between
\* undo nothing that a row refers to.
THEOREM RowsReadable == Spec => []RowsHaveBlobs
<1>1. IInv => RowsHaveBlobs
  BY DEF IInv
<1> QED BY <1>1, Invariant, PTL

\* What was submitted stands: no operation of intake.py changes manifest or
\* files of a submission that is no draft.
THEOREM InventoryStands == Spec => []FrozenInventory
<1>1. IInv => FrozenInventory
  BY DEF IInv
<1> QED BY <1>1, Invariant, PTL

\* Only a process that dies leaves a file in the directory that no row
\* refers to and no request will remove.
THEOREM NothingLost == Spec => []NoStrays
<1>1. IInv => NoStrays
  BY DEF IInv
<1> QED BY <1>1, Invariant, PTL

-----------------------------------------------------------------------------
(* Quotas. What a request was granted before the first byte arrived covers *)
(* what it has in hand, and nobody else is granted anything meanwhile.     *)

\* The bytes the request of p will add, wherever it has got to.
Pending(p) == Bytes(req[p].todo) + Bytes(req[p].made)
                + (IF req[p].pc \in {"link", "unlink"} THEN req[p].file.size ELSE 0)

\* They fit the quotas, and will as long as nobody else adds any.
Granted(p) ==
  req[p].pc \in Saving =>
    /\ req[p].by \in Staff /\ IsFiniteSet(req[p].todo)
    /\ req[p].pc = "record" => req[p].todo = {}
    /\ req[p].op = "upload" => /\ sub[req[p].sub].status # "none"
                               /\ Quota(sub[req[p].sub].owner, req[p].sub, Pending(p))
    /\ req[p].op = "revise" => Quota(req[p].by, None, Pending(p)) /\ Capacity(req[p].by)

\* A submission that is not there has no files.
Placed == \A r \in rows : sub[r.sub].status # "none"

Kept == QuotasKept /\ Placed /\ \A p \in Processes : Granted(p)

-----------------------------------------------------------------------------
(* Bytes() adds sizes.                                                     *)

LEMMA BytesIsSum ==
  ASSUME NEW S, IsFiniteSet(S)
  PROVE  Bytes(S) = SumFunctionOnSet([r \in S |-> r.size], S)
<1> DEFINE f == [r \in S |-> r.size]
           Adds(g) == g = [T \in SUBSET S |-> IF T = {} THEN 0
                            ELSE LET x == CHOOSE x \in T : TRUE IN x.size + g[T \ {x}]]
<1>1. \A T \in SUBSET S : T # {} => f[CHOOSE x \in T : TRUE] = (CHOOSE x \in T : TRUE).size
  OBVIOUS
<1>2. \A g : Adds(g) <=> Sums(g, f, S)
  <2> HIDE DEF f
  <2> QED BY <1>1 DEF Sums
<1>3. PICK g : Sums(g, f, S) /\ SumFunctionOnSet(f, S) = g[S]
  BY SumIsSum
<1>4. Bytes(S) = (CHOOSE h : Adds(h))[S]
  BY DEF Bytes, MapThenSumSet, MapThenFoldSet
<1>5. Adds(CHOOSE h : Adds(h))
  <2> HIDE DEF Adds
  <2> QED BY <1>2, <1>3
<1>6. Sums(CHOOSE h : Adds(h), f, S)
  BY <1>2, <1>5
<1> HIDE DEF Adds, f
<1>7. (CHOOSE h : Adds(h))[S] = g[S]
  BY <1>3, <1>6, SumsUnique
<1> QED BY <1>3, <1>4, <1>7 DEF f
Sized(S) == \A x \in S : x.size \in Nat

LEMMA BytesOver ==
  ASSUME NEW R, NEW S \in SUBSET R, IsFiniteSet(S), Sized(S)
  PROVE  /\ Bytes(S) = SumFunctionOnSet([x \in R |-> x.size], S)
         /\ \A x \in S : [y \in R |-> y.size][x] \in Nat
<1>1. \A x \in S : [y \in S |-> y.size][x] \in Nat /\ [y \in R |-> y.size][x] = [y \in S |-> y.size][x]
  BY DEF Sized
<1>2. SumFunctionOnSet([y \in S |-> y.size], S) = SumFunctionOnSet([y \in R |-> y.size], S)
  BY <1>1, SumSame
<1> QED BY <1>1, <1>2, BytesIsSum

LEMMA BytesType ==
  ASSUME NEW S, IsFiniteSet(S), Sized(S)
  PROVE  Bytes(S) \in Nat
BY BytesOver, SumType

LEMMA BytesEmpty == Bytes({}) = 0
BY BytesIsSum, SumEmpty, FS_EmptySet

LEMMA BytesUnion ==
  ASSUME NEW S, NEW T, IsFiniteSet(S), IsFiniteSet(T), S \cap T = {}, Sized(S), Sized(T)
  PROVE  Bytes(S \cup T) = Bytes(S) + Bytes(T)
<1> SUFFICES ASSUME NEW R, R = S \cup T PROVE Bytes(R) = Bytes(S) + Bytes(T)
  OBVIOUS
<1> DEFINE f == [x \in R |-> x.size]
<1>1. IsFiniteSet(R) /\ Sized(R) /\ S \in SUBSET R /\ T \in SUBSET R /\ R \in SUBSET R
  BY FS_Union DEF Sized
<1>2. \A x \in S \cup T : f[x] \in Nat
  BY <1>1 DEF Sized
<1>3. /\ Bytes(R) = SumFunctionOnSet(f, R)
      /\ Bytes(S) = SumFunctionOnSet(f, S) /\ Bytes(T) = SumFunctionOnSet(f, T)
  BY <1>1, BytesOver
<1>4. SumFunctionOnSet(f, S \cup T) = SumFunctionOnSet(f, S) + SumFunctionOnSet(f, T)
  <2> HIDE DEF f
  <2> QED BY <1>2, SumUnion
<1> QED BY <1>3, <1>4

LEMMA BytesOne ==
  ASSUME NEW e, e.size \in Nat
  PROVE  Bytes({e}) = e.size
<1> DEFINE f == [x \in {e} |-> x.size]
<1>1. IsFiniteSet({e}) /\ f[e] = e.size
  BY FS_Singleton
<1>2. Bytes({e}) = SumFunctionOnSet(f, {e})
  BY <1>1, BytesIsSum
<1>3. \A x \in {} \cup {e} : f[x] \in Nat
  BY <1>1
<1>4. {} \cup {e} = {e}
  OBVIOUS
<1> HIDE DEF f
<1>5. SumFunctionOnSet(f, {} \cup {e}) = SumFunctionOnSet(f, {}) + f[e]
  BY <1>3, SumAdd, FS_EmptySet
<1> QED BY <1>1, <1>2, <1>4, <1>5, SumEmpty

LEMMA BytesAdd ==
  ASSUME NEW S, IsFiniteSet(S), NEW e, e \notin S, Sized(S), e.size \in Nat
  PROVE  Bytes(S \cup {e}) = Bytes(S) + e.size
<1>1. IsFiniteSet({e}) /\ S \cap {e} = {} /\ Sized({e})
  BY FS_Singleton DEF Sized
<1>2. Bytes(S \cup {e}) = Bytes(S) + Bytes({e})
  BY <1>1, BytesUnion
<1> QED BY <1>2, BytesOne

LEMMA BytesPart ==
  ASSUME NEW S, IsFiniteSet(S), Sized(S), NEW T \in SUBSET S
  PROVE  Bytes(T) <= Bytes(S)
<1> DEFINE f == [x \in S |-> x.size]
<1>1. IsFiniteSet(T) /\ Sized(T) /\ S \in SUBSET S
  BY FS_Subset DEF Sized
<1>2. \A x \in S : f[x] \in Nat
  BY DEF Sized
<1>3. Bytes(S) = SumFunctionOnSet(f, S) /\ Bytes(T) = SumFunctionOnSet(f, T)
  BY <1>1, BytesOver
<1> HIDE DEF f
<1> QED BY <1>2, <1>3, SumPart

LEMMA BytesRenamed ==
  ASSUME NEW S, IsFiniteSet(S), Sized(S), NEW m,
         \A x \in S : m[x].size = x.size, \A x, y \in S : m[x] = m[y] => x = y
  PROVE  LET T == {m[x] : x \in S} IN IsFiniteSet(T) /\ Sized(T) /\ Bytes(T) = Bytes(S)
<1> DEFINE T == {m[x] : x \in S}
           f == [x \in S |-> x.size]
           g == [x \in T |-> x.size]
<1>1. \A x \in S : f[x] \in Nat /\ g[m[x]] = f[x]
  BY DEF Sized
<1>2. Sized(T)
  BY DEF Sized
<1>3. IsFiniteSet(T) /\ SumFunctionOnSet(g, T) = SumFunctionOnSet(f, S)
  <2> HIDE DEF f, g
  <2> QED BY <1>1, SumImage
<1> HIDE DEF T
<1> QED BY <1>2, <1>3, BytesIsSum DEF T

-----------------------------------------------------------------------------
(* What the sums are of.                                                   *)

LEMMA RowsSized ==
  ASSUME IInv
  PROVE  IsFiniteSet(rows) /\ Sized(rows)
<1>1. IsFiniteSet(rows)
  <2> DEFINE m == [r \in rows |-> r.key]
  <2>1. m \in Injection(rows, Keys)
    BY DEF IInv, TypeOK, Row, KeysApart, Injection, IsInjective
  <2> HIDE DEF m
  <2> QED BY <2>1, FS_Injection, QuarantineAssumption
<1>2. Sized(rows)
  BY QuarantineAssumption DEF IInv, TypeOK, Row, Sized
<1> QED BY <1>1, <1>2

LEMMA RowsPart ==
  ASSUME IInv, NEW S \in SUBSET rows
  PROVE  IsFiniteSet(S) /\ Sized(S) /\ Bytes(S) \in Nat
<1>1. IsFiniteSet(S) /\ Sized(S)
  BY RowsSized, FS_Subset DEF Sized
<1> QED BY <1>1, BytesType

LEMMA InHandSized ==
  ASSUME IInv, NEW p \in Processes
  PROVE  IsFiniteSet(req[p].made) /\ Sized(req[p].made) /\ Sized(req[p].todo)
<1>1. req[p] \in Job /\ Whole(p)
  BY DEF IInv, TypeOK, Good
<1>2. IsFiniteSet(req[p].made)
  <2> DEFINE m == [f \in req[p].made |-> f.key]
  <2>1. m \in Injection(req[p].made, Keys)
    BY <1>1 DEF Job, File, Whole, Injection, IsInjective
  <2> HIDE DEF m
  <2> QED BY <2>1, FS_Injection, QuarantineAssumption
<1>3. Sized(req[p].made) /\ Sized(req[p].todo)
  BY <1>1, QuarantineAssumption DEF Job, File, Todo, Sized
<1> QED BY <1>2, <1>3

LEMMA DraftsCount ==
  ASSUME NEW u
  PROVE  IsFiniteSet(Drafts(u)) /\ Cardinality(Drafts(u)) \in Nat
<1>1. Drafts(u) \subseteq Ids
  BY DEF Drafts
<1>2. IsFiniteSet(Drafts(u))
  BY <1>1, FS_Subset, QuarantineAssumption
<1> QED BY <1>2, FS_CardinalityType

\* A submission that is there stays, with its owner.
OwnersStay ==
  \A i \in Ids : sub[i].status # "none" => sub'[i].owner = sub[i].owner /\ sub'[i].status # "none"

-----------------------------------------------------------------------------
(* Steps that add no row and no draft.                                     *)

\* Quota() after the step.
QuotaThen(u, i, more) ==
  /\ Bytes(rows') + more <= TotalBytes
  /\ Bytes({r \in rows' : sub'[r.sub].owner = u}) + more <= UserBytes
  /\ (IF i = None THEN 0 ELSE Bytes({r \in rows' : r.sub = i})) + more <= SubmissionBytes

LEMMA NoGrowth ==
  ASSUME IInv, Kept, rows' \subseteq rows, OwnersStay,
         \A i \in Ids : sub'[i].status = "draft" => sub[i].status = "draft"
  PROVE  /\ QuotasKept' /\ Placed'
         /\ \A u : \A m \in Nat, i \in Ids \cup {None} : Quota(u, i, m) => QuotaThen(u, i, m)
         /\ \A u : Capacity(u) => Capacity(u)'
<1> DEFINE Of(u) == {r \in rows : sub[r.sub].owner = u}
           OfThen(u) == {r \in rows' : sub'[r.sub].owner = u}
<1>1. Placed' /\ \A r \in rows : r.sub \in Ids
  BY DEF Kept, Placed, OwnersStay, IInv, TypeOK, Row
<1>2. \A S \in SUBSET rows : \A T \in SUBSET S : Bytes(T) <= Bytes(S) /\ Bytes(S) \in Nat /\ Bytes(T) \in Nat
  BY RowsPart, BytesPart
<1>3. Bytes(rows') <= Bytes(rows) /\ Bytes(rows) \in Nat /\ Bytes(rows') \in Nat
  BY <1>2
<1>4. \A u : Bytes(OfThen(u)) <= Bytes(Of(u)) /\ Bytes(Of(u)) \in Nat /\ Bytes(OfThen(u)) \in Nat
  <2> TAKE u
  <2>1. OfThen(u) \in SUBSET Of(u) /\ Of(u) \in SUBSET rows
    BY <1>1 DEF Kept, Placed, OwnersStay
  <2> HIDE DEF OfThen, Of
  <2> QED BY <2>1, <1>2
<1>5. \A i : Bytes(Files(i)') <= Bytes(Files(i)) /\ Bytes(Files(i)) \in Nat /\ Bytes(Files(i)') \in Nat
  <2> TAKE i
  <2>1. Files(i)' \in SUBSET Files(i) /\ Files(i) \in SUBSET rows
    BY DEF Files
  <2> QED BY <2>1, <1>2
<1>6. \A u : Cardinality(Drafts(u)') <= Cardinality(Drafts(u)) /\ Cardinality(Drafts(u)) \in Nat
              /\ Cardinality(Drafts(u)') \in Nat
  <2> TAKE u
  <2>1. Drafts(u)' \subseteq Drafts(u)
    BY DEF Drafts, Draft, OwnersStay
  <2> HIDE DEF OfThen, Of
  <2> QED BY <2>1, DraftsCount, FS_Subset, FS_CardinalityType
<1> HIDE DEF Of, OfThen
<1>7. QuotasKept'
  <2>1. /\ Bytes(rows) <= TotalBytes /\ \A u \in Staff : Bytes(Of(u)) <= UserBytes
        /\ \A i \in Ids : Bytes(Files(i)) <= SubmissionBytes
        /\ \A u \in Staff : Cardinality(Drafts(u)) <= MaxDrafts
    BY DEF Kept, QuotasKept, Of
  <2>2. Bytes(rows') <= TotalBytes
    BY <2>1, <1>3, QuotaAssumption
  <2>3. \A u \in Staff : Bytes(OfThen(u)) <= UserBytes
    BY <2>1, <1>4, QuotaAssumption
  <2>4. \A i \in Ids : Bytes(Files(i)') <= SubmissionBytes
    BY <2>1, <1>5, QuotaAssumption
  <2>5. \A u \in Staff : Cardinality(Drafts(u)') <= MaxDrafts
    BY <2>1, <1>6, QuotaAssumption
  <2> QED BY <2>2, <2>3, <2>4, <2>5 DEF QuotasKept, OfThen
<1>8. ASSUME NEW u, NEW m \in Nat, NEW i \in Ids \cup {None}, Quota(u, i, m)
      PROVE  QuotaThen(u, i, m)
  <2>1. /\ Bytes(rows) + m <= TotalBytes /\ Bytes(Of(u)) + m <= UserBytes
        /\ (IF i = None THEN 0 ELSE Bytes(Files(i))) + m <= SubmissionBytes
    BY <1>8 DEF Quota, Of
  <2>2. /\ Bytes(rows') + m <= TotalBytes /\ Bytes(OfThen(u)) + m <= UserBytes
    BY <2>1, <1>3, <1>4, QuotaAssumption
  <2>3. (IF i = None THEN 0 ELSE Bytes(Files(i)')) + m <= SubmissionBytes
    BY <2>1, <1>5, QuotaAssumption
  <2> QED BY <2>2, <2>3 DEF QuotaThen, OfThen, Files
<1>9. ASSUME NEW u, Capacity(u) PROVE Capacity(u)'
  BY <1>9, <1>6, QuotaAssumption DEF Capacity
<1> QED BY <1>1, <1>7, <1>8, <1>9

LEMMA PendingType ==
  ASSUME IInv, NEW p \in Processes, Granted(p), req[p].pc \in Saving
  PROVE  Pending(p) \in Nat
<1>1. Bytes(req[p].todo) \in Nat /\ Bytes(req[p].made) \in Nat
  BY InHandSized, BytesType DEF Granted
<1>2. req[p].pc \in {"link", "unlink"} => req[p].file.size \in Nat
  BY QuarantineAssumption DEF IInv, Good, Halfway, Todo
<1> QED BY <1>1, <1>2 DEF Pending

\* A request goes on, and has as much in hand as before.
LEMMA GrantStays ==
  ASSUME IInv, Kept, rows' = rows, OwnersStay,
         \A i \in Ids : sub'[i].status = "draft" => sub[i].status = "draft",
         NEW p \in Processes, req[p].pc \in Saving, Pending(p)' = Pending(p),
         req'[p].op = req[p].op, req'[p].by = req[p].by, req'[p].sub = req[p].sub,
         IsFiniteSet(req'[p].todo),
         req'[p].pc = "record" => req'[p].todo = {}
  PROVE  Granted(p)'
<1>1. Granted(p) /\ req[p].sub \in Ids /\ Pending(p) \in Nat
  BY PendingType DEF Kept, IInv, Good, Whole, Saving
<1>2. /\ \A u : \A m \in Nat, i \in Ids \cup {None} : Quota(u, i, m) => QuotaThen(u, i, m)
      /\ \A u : Capacity(u) => Capacity(u)'
  BY NoGrowth
<1>4. req[p].op = "upload" =>
        /\ sub'[req[p].sub].status # "none"
        /\ Quota(sub[req[p].sub].owner, req[p].sub, Pending(p))'
  <2> SUFFICES ASSUME req[p].op = "upload"
               PROVE  /\ sub'[req[p].sub].status # "none"
                      /\ Quota(sub[req[p].sub].owner, req[p].sub, Pending(p))'
    OBVIOUS
  <2>1. sub[req[p].sub].status # "none" /\ Quota(sub[req[p].sub].owner, req[p].sub, Pending(p))
    BY <1>1 DEF Granted
  <2>2. sub'[req[p].sub].status # "none" /\ sub'[req[p].sub].owner = sub[req[p].sub].owner
    BY <1>1, <2>1 DEF OwnersStay
  <2>3. QuotaThen(sub[req[p].sub].owner, req[p].sub, Pending(p))
    BY <1>1, <1>2, <2>1
  <2>4. QuotaThen(sub'[req'[p].sub].owner, req'[p].sub, Pending(p)')
    BY <2>2, <2>3
  <2> QED BY <2>2, <2>4 DEF Quota, QuotaThen, Files
<1>5. req[p].op = "revise" => Quota(req[p].by, None, Pending(p))' /\ Capacity(req[p].by)'
  <2> SUFFICES ASSUME req[p].op = "revise"
               PROVE  Quota(req[p].by, None, Pending(p))' /\ Capacity(req[p].by)'
    OBVIOUS
  <2>1. Quota(req[p].by, None, Pending(p)) /\ Capacity(req[p].by)
    BY <1>1 DEF Granted
  <2>2. Quota(req[p].by, None, Pending(p))'
    <3>1. QuotaThen(req'[p].by, None, Pending(p)')
      BY <1>1, <1>2, <2>1
    <3> QED BY <3>1 DEF Quota, QuotaThen, Files
  <2>3. Capacity(req[p].by)'
    BY <1>2, <2>1 DEF Capacity
  <2> QED BY <2>2, <2>3
<1> QED BY <1>1, <1>4, <1>5 DEF Granted

\* No request of the step has a grant to keep.
LEMMA NoGrants ==
  ASSUME IInv, Kept, rows' \subseteq rows, OwnersStay,
         \A i \in Ids : sub'[i].status = "draft" => sub[i].status = "draft",
         \A q \in Processes : req'[q].pc \notin Saving \/ Granted(q)'
  PROVE  Kept'
<1>1. \A q \in Processes : Granted(q)'
  BY DEF Granted
<1> QED BY <1>1, NoGrowth DEF Kept

\* A decision about a submission, whoever has what in hand.
LEMMA SubKept ==
  ASSUME IInv, Kept, NEW i \in Ids, NEW s, sub' = [sub EXCEPT ![i] = s], UNCHANGED <<rows, req>>,
         sub[i].status # "none", s.status # "none", s.owner = sub[i].owner,
         s.status = "draft" => sub[i].status = "draft"
  PROVE  Kept'
<1>1. OwnersStay /\ \A j \in Ids : sub'[j].status = "draft" => sub[j].status = "draft"
  BY DEF IInv, TypeOK, OwnersStay
<1>2. ASSUME NEW q \in Processes, req[q].pc \in Saving PROVE Granted(q)'
  <2>1. Granted(q)
    BY DEF Kept
  <2>2. Pending(q)' = Pending(q)
    BY DEF Pending
  <2> QED BY <1>1, <1>2, <2>1, <2>2, GrantStays DEF Granted
<1> QED BY <1>1, <1>2, NoGrants

LEMMA UpdateManifestKept ==
  ASSUME IInv, Kept, NEW u \in Staff, NEW i \in Ids, NEW w \in Manifests, UpdateManifest(u, i, w)
  PROVE  Kept'
<1> DEFINE s == [sub[i] EXCEPT !.wants = w]
<1>1. sub[i] \in Submission /\ sub[i].status = "draft"
  BY SubType DEF IInv, UpdateManifest, Editable, Draft
<1>2. s.status = "draft" /\ s.owner = sub[i].owner
  BY <1>1 DEF Submission
<1>3. sub' = [sub EXCEPT ![i] = s] /\ UNCHANGED <<rows, req>>
  BY DEF UpdateManifest
<1> HIDE DEF s
<1> QED BY <1>1, <1>2, <1>3, SubKept

LEMMA SubmitKept ==
  ASSUME IInv, Kept, NEW u \in Staff, NEW i \in Ids, Submit(u, i)
  PROVE  Kept'
<1> DEFINE s == [sub[i] EXCEPT !.status = "validating", !.digest = Content(i)]
<1>1. sub[i] \in Submission /\ sub[i].status = "draft"
  BY SubType DEF IInv, Submit, Draft
<1>2. s.status = "validating" /\ s.owner = sub[i].owner
  BY <1>1 DEF Submission
<1>3. sub' = [sub EXCEPT ![i] = s] /\ UNCHANGED <<rows, req>>
  BY DEF Submit
<1> HIDE DEF s
<1> QED BY <1>1, <1>2, <1>3, SubKept

LEMMA DecideKept ==
  ASSUME IInv, Kept, NEW i \in Ids, NEW st \in Statuses, Decide(i, st)
  PROVE  Kept'
<1> DEFINE s == [sub[i] EXCEPT !.status = st]
<1>1. sub[i] \in Submission /\ sub[i].status # "none" /\ st \in {"correctable", "settled"}
  BY SubType DEF IInv, Decide
<1>2. s.status = st /\ s.owner = sub[i].owner
  BY <1>1 DEF Submission
<1>3. sub' = [sub EXCEPT ![i] = s] /\ UNCHANGED <<rows, req>>
  BY DEF Decide
<1> HIDE DEF s
<1> QED BY <1>1, <1>2, <1>3, SubKept

\* A step of the only request, which changes no submission.
LEMMA OnlyRequest ==
  ASSUME IInv, Kept, NEW p \in Processes, NEW r \in Job, req' = [req EXCEPT ![p] = r],
         Unlocked \/ req[p] # Idle, UNCHANGED sub, rows' \subseteq rows,
         r.pc \notin Saving \/ Granted(p)'
  PROVE  Kept'
<1>1. req'[p] = r /\ \A q \in Processes : q # p => req'[q] = Idle
  BY OneRequest DEF IInv
<1>2. OwnersStay
  BY DEF OwnersStay
<1>3. \A q \in Processes : req'[q].pc \notin Saving \/ Granted(q)'
  <2>1. Idle.pc \notin Saving
    BY DEF Idle, Saving
  <2> QED BY <1>1, <2>1
<1> QED BY <1>2, <1>3, NoGrants

\* A step of save() only moves bytes about.
LEMMA OnwardKept ==
  ASSUME IInv, Kept, NEW p \in Processes, req[p].pc \in Saving,
         NEW r \in Job, req' = [req EXCEPT ![p] = r], UNCHANGED <<sub, rows>>,
         r.op = req[p].op, r.by = req[p].by, r.sub = req[p].sub, IsFiniteSet(r.todo),
         r.pc = "record" => r.todo = {},
         Bytes(r.todo) + Bytes(r.made) + (IF r.pc \in {"link", "unlink"} THEN r.file.size ELSE 0) = Pending(p)
  PROVE  Kept'
<1>1. req[p] # Idle
  BY DEF Idle, Saving
<1>2. req'[p] = r
  BY <1>1, OneRequest DEF IInv
<1>3. Pending(p)' = Pending(p)
  BY <1>2 DEF Pending
<1>4. OwnersStay /\ \A i \in Ids : sub'[i].status = "draft" => sub[i].status = "draft"
  BY DEF OwnersStay
<1>5. Granted(p)'
  BY <1>2, <1>3, <1>4, GrantStays
<1> QED BY <1>1, <1>5, OnlyRequest

LEMMA StreamKept ==
  ASSUME IInv, Kept, NEW p \in Processes, NEW k \in Keys, NEW f \in req[p].todo, Stream(p, f, k)
  PROVE  Kept'
<1> DEFINE rest == req[p].todo \ {f}
           r == [req[p] EXCEPT !.pc = "link", !.key = k, !.file = f, !.todo = rest]
<1>1. req[p].pc = "save" /\ req[p].pc \in Saving
  BY DEF Stream, Step, Saving
<1>2. req[p] \in Job /\ IsFiniteSet(req[p].todo) /\ Sized(req[p].todo) /\ Sized(req[p].made)
      /\ IsFiniteSet(req[p].made)
  BY <1>1, AtWork, InHandSized DEF Kept, Granted
<1>3. f \in Todo
  BY <1>2 DEF Job
<1>4. r \in Job
  BY <1>2, <1>3 DEF Job
<1>5. /\ r.pc = "link" /\ r.file = f /\ r.todo = rest /\ r.made = req[p].made
      /\ r.op = req[p].op /\ r.by = req[p].by /\ r.sub = req[p].sub
  BY <1>2 DEF Job
<1>6. req' = [req EXCEPT ![p] = r] /\ UNCHANGED <<sub, rows>>
  BY DEF Stream
<1>7. IsFiniteSet(rest) /\ Sized(rest) /\ f \notin rest /\ f.size \in Nat /\ req[p].todo = rest \cup {f}
  BY <1>2, FS_RemoveElement DEF Sized
<1> HIDE DEF r, rest
<1>8. Bytes(req[p].todo) = Bytes(rest) + f.size
  BY <1>7, BytesAdd
<1>9. Bytes(rest) \in Nat /\ Bytes(req[p].made) \in Nat
  BY <1>2, <1>7, BytesType
<1>10. Pending(p) = Bytes(rest) + Bytes(req[p].made) + f.size
  BY <1>1, <1>7, <1>8, <1>9 DEF Pending
<1> QED BY <1>1, <1>4, <1>5, <1>6, <1>7, <1>10, OnwardKept

LEMMA LinkKept ==
  ASSUME IInv, Kept, NEW p \in Processes, Link(p)
  PROVE  Kept'
<1> DEFINE r == [req[p] EXCEPT !.pc = "unlink"]
<1>1. req[p].pc = "link" /\ req[p].pc \in Saving
  BY DEF Link, Step, Saving
<1>2. req[p] \in Job /\ IsFiniteSet(req[p].todo)
  BY <1>1, AtWork DEF Kept, Granted
<1>3. r \in Job
  BY <1>2 DEF Job
<1>4. /\ r.pc = "unlink" /\ r.file = req[p].file /\ r.todo = req[p].todo /\ r.made = req[p].made
      /\ r.op = req[p].op /\ r.by = req[p].by /\ r.sub = req[p].sub
  BY <1>2 DEF Job
<1>5. req' = [req EXCEPT ![p] = r] /\ UNCHANGED <<sub, rows>>
  BY DEF Link
<1> HIDE DEF r
<1>6. Pending(p) = Bytes(req[p].todo) + Bytes(req[p].made) + req[p].file.size
  BY <1>1 DEF Pending
<1> QED BY <1>1, <1>2, <1>3, <1>4, <1>5, <1>6, OnwardKept

LEMMA UnlinkKept ==
  ASSUME IInv, Kept, NEW p \in Processes, Unlink(p)
  PROVE  Kept'
<1> DEFINE pc == IF req[p].todo = {} THEN "record" ELSE "save"
           made == req[p].made \cup {Saved(p)}
           r == [req[p] EXCEPT !.pc = pc, !.made = made, !.key = None, !.file = None]
<1>1. req[p].pc = "unlink" /\ req[p].pc \in Saving
  BY DEF Unlink, Step, Saving
<1>2. /\ req[p] \in Job /\ IsFiniteSet(req[p].todo) /\ Sized(req[p].todo) /\ Sized(req[p].made)
      /\ IsFiniteSet(req[p].made) /\ Halfway(p)
  BY <1>1, AtWork, InHandSized DEF Kept, Granted
<1>3. /\ Saved(p) \in File /\ Saved(p) \notin req[p].made
      /\ Saved(p).size = req[p].file.size /\ Saved(p).size \in Nat
  <2>1. req[p].key \in Keys /\ req[p].file \in Todo /\ req[p].key \notin KeysOf(req[p].made)
    BY <1>1, <1>2 DEF Halfway
  <2>2. Saved(p) \in File /\ Saved(p).key = req[p].key /\ Saved(p).size = req[p].file.size
    BY <2>1 DEF Saved, Todo, File
  <2> QED BY <2>1, <2>2, QuarantineAssumption DEF KeysOf, File
<1>4. req' = [req EXCEPT ![p] = r] /\ UNCHANGED <<sub, rows>>
      /\ pc \in {"record", "save"} /\ (pc = "record" => req[p].todo = {})
  BY DEF Unlink
<1> HIDE DEF pc
<1>5. /\ r \in Job /\ r.pc = pc /\ r.todo = req[p].todo /\ r.made = made
      /\ r.op = req[p].op /\ r.by = req[p].by /\ r.sub = req[p].sub
  BY <1>2, <1>3, <1>4 DEF Job
<1> HIDE DEF r
<1>6. Bytes(made) = Bytes(req[p].made) + req[p].file.size
  BY <1>2, <1>3, BytesAdd
<1>7. Bytes(req[p].todo) \in Nat /\ Bytes(req[p].made) \in Nat /\ req[p].file.size \in Nat
  BY <1>2, <1>3, BytesType
<1> HIDE DEF made
<1>8. Pending(p) = Bytes(req[p].todo) + Bytes(made)
  BY <1>1, <1>6, <1>7 DEF Pending
<1>9. Bytes(r.todo) + Bytes(r.made) + (IF r.pc \in {"link", "unlink"} THEN r.file.size ELSE 0) = Pending(p)
  <2>1. Bytes(made) \in Nat
    BY <1>6, <1>7
  <2> QED BY <2>1, <1>4, <1>5, <1>7, <1>8
<1> QED BY <1>1, <1>2, <1>4, <1>5, <1>9, OnwardKept

-----------------------------------------------------------------------------
(* Requests that end, or take something away.                              *)

LEMMA OverKept ==
  ASSUME IInv, Kept, NEW p \in Processes, Finish(p) \/ Crash(p)
  PROVE  Kept'
<1>1. req[p] # Idle /\ req' = [req EXCEPT ![p] = Idle] /\ UNCHANGED <<sub, rows>>
  BY DEF Finish, Crash, Step, Idle
<1>2. Idle.pc \notin Saving
  BY DEF Idle, Saving
<1> QED BY <1>1, <1>2, IdleType, OnlyRequest

LEMMA UndoingKept ==
  ASSUME IInv, Kept, NEW p \in Processes, Fail(p) \/ Interrupt(p)
  PROVE  Kept'
<1> DEFINE r == [req[p] EXCEPT !.pc = "undo"]
<1>1. req[p].pc \in Saving \cup {"done"} /\ req' = [req EXCEPT ![p] = r] /\ UNCHANGED <<sub, rows>>
  BY DEF Fail, Interrupt, Step, Saving, Undoing
<1>2. req[p] \in Job /\ req[p] # Idle
  BY <1>1, AtWork DEF Saving
<1>3. r \in Job /\ r.pc = "undo" /\ "undo" \notin Saving
  BY <1>2 DEF Job, Saving
<1> QED BY <1>1, <1>2, <1>3, OnlyRequest

LEMMA UndoKept ==
  ASSUME IInv, Kept, NEW p \in Processes, Undo(p)
  PROVE  Kept'
<1>1. req[p].pc = "undo" /\ UNCHANGED <<sub, rows>>
  BY DEF Undo, Step
<1>2. req[p] \in Job /\ req[p] # Idle /\ TypeOK
  BY <1>1, AtWork
<1>3. PICK r \in Job : req' = [req EXCEPT ![p] = r] /\ r.pc \notin Saving
  <2>1. CASE req' = req
    BY <2>1, <1>1, <1>2 DEF TypeOK, Saving
  <2>2. CASE req' = [req EXCEPT ![p] = Idle]
    BY <2>2, IdleType DEF Idle, Saving
  <2>3. ASSUME NEW k \in Hand(p), NEW name, Unlinks(p, k, name)
        PROVE  \E r \in Job : req' = [req EXCEPT ![p] = r] /\ r.pc \notin Saving
    <3> DEFINE key == IF req[p].key = k THEN None ELSE req[p].key
               made == {f \in req[p].made : f.key # k}
               r == [req[p] EXCEPT !.key = key, !.made = made]
    <3>1. req' = req \/ req' = [req EXCEPT ![p] = r]
      BY <2>3, <1>2 DEF TypeOK, Unlinks
    <3>2. key \in Keys \cup {None} /\ made \subseteq File
      BY <1>2 DEF Job
    <3> HIDE DEF key, made
    <3>3. r \in Job /\ r.pc \notin Saving
      BY <3>2, <1>1, <1>2 DEF Job, Saving
    <3> HIDE DEF r
    <3> QED BY <2>1, <3>1, <3>3
  <2> QED BY <2>2, <2>3 DEF Undo, ToUndo, Unlinks
<1> QED BY <1>1, <1>2, <1>3, OnlyRequest

LEMMA RemoveKept ==
  ASSUME IInv, Kept, NEW p \in Processes, NEW u \in Staff, NEW x \in rows, Remove(p, u, x)
  PROVE  Kept'
<1> DEFINE f == [path |-> x.path, key |-> x.key, size |-> x.size]
           r == [Idle EXCEPT !.pc = "undo", !.op = "remove", !.by = u, !.sub = x.sub, !.made = {f}]
<1>1. x \in Row
  BY DEF IInv, TypeOK
<1>2. r \in Job /\ r.pc = "undo" /\ "undo" \notin Saving
  <2>1. f \in File /\ x.sub \in Ids
    BY <1>1 DEF Row, File
  <2> HIDE DEF f
  <2> QED BY <2>1 DEF Idle, Job, Saving
<1>3. req' = [req EXCEPT ![p] = r] /\ Unlocked /\ UNCHANGED sub /\ rows' \subseteq rows
  BY DEF Remove, Begin
<1> HIDE DEF r
<1> QED BY <1>2, <1>3, OnlyRequest

-----------------------------------------------------------------------------
(* Requests are granted.                                                   *)

LEMMA UploadKept ==
  ASSUME IInv, Kept, NEW p \in Processes, NEW u \in Staff, NEW i \in Ids, NEW path \in Paths,
         NEW size \in Sizes, Upload(p, u, i, path, size)
  PROVE  Kept'
<1> DEFINE f == [path |-> path, size |-> size, from |-> None]
           r == [Idle EXCEPT !.pc = "save", !.op = "upload", !.by = u, !.sub = i, !.todo = {f}]
<1>1. f \in Todo /\ f.size = size /\ size \in Nat
  BY QuarantineAssumption DEF Todo
<1>2. req' = [req EXCEPT ![p] = r] /\ Unlocked /\ UNCHANGED <<sub, rows>>
  BY DEF Upload, Begin
<1>3. sub[i].status # "none" /\ Quota(sub[i].owner, i, size)
  BY DEF Upload, Owned
<1> HIDE DEF f
<1>4. /\ r \in Job /\ r.pc = "save" /\ r.op = "upload" /\ r.by = u /\ r.sub = i
      /\ r.todo = {f} /\ r.made = {}
  BY <1>1 DEF Idle, Job
<1> HIDE DEF r
<1>5. req'[p] = r
  BY <1>2, <1>4, OneRequest DEF IInv
<1>6. Pending(p)' = size
  <2>1. Bytes({f}) = size /\ Bytes({}) = 0
    BY <1>1, BytesOne, BytesEmpty
  <2>2. Bytes(r.todo) = size /\ Bytes(r.made) = 0 /\ r.pc \notin {"link", "unlink"}
    BY <2>1, <1>4
  <2> QED BY <2>2, <1>1, <1>5 DEF Pending
<1>7. IsFiniteSet({f})
  BY FS_Singleton
<1>8. Quota(sub'[i].owner, i, Pending(p)')
  BY <1>2, <1>3, <1>6
<1>9. Quota(sub[req[p].sub].owner, req[p].sub, Pending(p))'
  BY <1>2, <1>4, <1>5, <1>8 DEF Quota, Files
<1>10. Granted(p)'
  BY <1>2, <1>3, <1>4, <1>5, <1>7, <1>9 DEF Granted
<1> QED BY <1>2, <1>4, <1>10, OnlyRequest

LEMMA ReviseKept ==
  ASSUME IInv, Kept, NEW p \in Processes, NEW u \in Staff, NEW i \in Ids, Revise(p, u, i)
  PROVE  Kept'
<1> DEFINE pc == IF Files(i) = {} THEN "record" ELSE "save"
           m == [x \in Files(i) |-> [path |-> x.path, size |-> x.size, from |-> x.key]]
           T == {[path |-> x.path, size |-> x.size, from |-> x.key] : x \in Files(i)}
           r == [Idle EXCEPT !.pc = pc, !.op = "revise", !.by = u, !.sub = i, !.todo = T]
<1>1. Files(i) \in SUBSET rows /\ IsFiniteSet(Files(i)) /\ Sized(Files(i))
  BY RowsPart DEF Files
<1>2. T \subseteq Todo
  BY DEF IInv, TypeOK, Files, Row, Todo
<1>3. T = {m[x] : x \in Files(i)}
  OBVIOUS
<1>4. /\ \A x \in Files(i) : m[x].size = x.size
      /\ \A x, y \in Files(i) : m[x] = m[y] => x = y
  BY <1>1 DEF IInv, KeysApart
<1>5. req' = [req EXCEPT ![p] = r] /\ Unlocked /\ UNCHANGED <<sub, rows>>
      /\ pc \in {"record", "save"} /\ (pc = "record" => T = {})
  BY DEF Revise, Begin
<1>6. Capacity(u) /\ Quota(u, None, Bytes(Files(i)))
  BY DEF Revise
<1> HIDE DEF m, pc, T
<1>7. IsFiniteSet(T) /\ Bytes(T) = Bytes(Files(i)) /\ Bytes(T) \in Nat
  BY <1>1, <1>3, <1>4, BytesRenamed, BytesType
<1>8. /\ r \in Job /\ r.pc = pc /\ r.op = "revise" /\ r.by = u /\ r.sub = i
      /\ r.todo = T /\ r.made = {}
  BY <1>2, <1>5 DEF Idle, Job
<1> HIDE DEF r
<1>9. req'[p] = r
  BY <1>5, <1>8, OneRequest DEF IInv
<1>10. Pending(p)' = Bytes(Files(i))
  BY <1>5, <1>7, <1>8, <1>9, BytesEmpty DEF Pending
<1>11. Quota(req[p].by, None, Pending(p))'
  <2>1. Quota(req'[p].by, None, Pending(p)')
    BY <1>6, <1>8, <1>9, <1>10
  <2> QED BY <2>1, <1>5 DEF Quota
<1>12. Capacity(req[p].by)'
  BY <1>5, <1>6, <1>8, <1>9 DEF Capacity, Drafts, Draft
<1>13. Granted(p)'
  BY <1>5, <1>7, <1>8, <1>9, <1>11, <1>12 DEF Granted
<1> QED BY <1>5, <1>8, <1>13, OnlyRequest

-----------------------------------------------------------------------------
(* Steps that add a draft, or rows.                                        *)

LEMMA NewDraft ==
  ASSUME IInv, Kept, NEW i \in Ids, NEW u, NEW w, sub[i] = Absent, Capacity(u),
         sub' = [sub EXCEPT ![i] = Drafted(u, w)]
  PROVE  /\ OwnersStay /\ sub'[i].status = "draft" /\ sub'[i].owner = u
         /\ \A v \in Staff : Cardinality(Drafts(v)') <= MaxDrafts
<1>1. sub' \in [Ids -> {sub[j] : j \in Ids} \cup {Drafted(u, w)}]
      /\ sub'[i] = Drafted(u, w) /\ \A j \in Ids : j # i => sub'[j] = sub[j]
  BY DEF IInv, TypeOK
<1>2. sub'[i].status = "draft" /\ sub'[i].owner = u
  BY <1>1 DEF Drafted
<1>3. OwnersStay
  BY <1>1 DEF OwnersStay, Absent
<1>4. ASSUME NEW v \in Staff PROVE Cardinality(Drafts(v)') <= MaxDrafts
  <2>1. IsFiniteSet(Drafts(v)) /\ Cardinality(Drafts(v)) \in Nat /\ Cardinality(Drafts(v)) <= MaxDrafts
    BY DraftsCount DEF Kept, QuotasKept
  <2>2. CASE v # u
    <3>1. Drafts(v)' \subseteq Drafts(v)
      BY <1>1, <1>2, <2>2 DEF Drafts, Draft
    <3> QED BY <3>1, <2>1, FS_Subset, FS_CardinalityType, QuotaAssumption
  <2>3. CASE v = u
    <3> DEFINE D == Drafts(u) \cup {i}
    <3>1. Drafts(v)' \subseteq D
      BY <1>1, <2>3 DEF Drafts, Draft
    <3>2. IsFiniteSet(D) /\ Cardinality(D) \in Nat /\ Cardinality(D) <= Cardinality(Drafts(u)) + 1
      <4>1. IsFiniteSet(Drafts(u)) /\ Cardinality(Drafts(u)) \in Nat
        BY DraftsCount
      <4>2. IsFiniteSet(D) /\ (Cardinality(D) = Cardinality(Drafts(u)) \/ Cardinality(D) = Cardinality(Drafts(u)) + 1)
        BY <4>1, FS_AddElement
      <4> HIDE DEF D
      <4> QED BY <4>1, <4>2
    <3>3. Cardinality(Drafts(u)) < MaxDrafts
      BY DEF Capacity
    <3> HIDE DEF D
    <3>4. Cardinality(Drafts(v)') <= Cardinality(D) /\ Cardinality(Drafts(v)') \in Nat
      BY <3>1, <3>2, FS_Subset, FS_CardinalityType
    <3> QED BY <2>1, <2>3, <3>2, <3>3, <3>4, QuotaAssumption
  <2> QED BY <2>2, <2>3
<1> QED BY <1>2, <1>3, <1>4

LEMMA CreateKept ==
  ASSUME IInv, Kept, NEW u \in Staff, NEW i \in Ids, NEW w \in Manifests, Create(u, i, w)
  PROVE  Kept'
<1>1. /\ Unlocked /\ sub[i] = Absent /\ Capacity(u) /\ UNCHANGED <<rows, req>>
      /\ sub' = [sub EXCEPT ![i] = Drafted(u, w)]
  BY DEF Create
<1>2. OwnersStay /\ \A v \in Staff : Cardinality(Drafts(v)') <= MaxDrafts
  BY <1>1, NewDraft
<1>3. \A r \in rows : sub'[r.sub].owner = sub[r.sub].owner /\ sub'[r.sub].status # "none"
  BY <1>2 DEF Kept, Placed, OwnersStay, IInv, TypeOK, Row
<1>4. \A v : {r \in rows' : sub'[r.sub].owner = v} = {r \in rows : sub[r.sub].owner = v}
  BY <1>1, <1>3
<1>5. QuotasKept'
  <2>1. \A v \in Staff : Bytes({r \in rows' : sub'[r.sub].owner = v}) <= UserBytes
    BY <1>4 DEF Kept, QuotasKept
  <2>2. Bytes(rows') <= TotalBytes /\ \A j \in Ids : Bytes(Files(j)') <= SubmissionBytes
    BY <1>1 DEF Kept, QuotasKept, Files
  <2> QED BY <1>2, <2>1, <2>2 DEF QuotasKept
<1>6. Placed'
  BY <1>1, <1>3 DEF Placed
<1>7. \A q \in Processes : Granted(q)'
  BY <1>1 DEF Unlocked, Granted, Idle, Saving
<1> QED BY <1>5, <1>6, <1>7 DEF Kept

\* Rows of one submission are added, for which there is room.
LEMMA RoomForRows ==
  ASSUME IInv, Kept, NEW i \in Ids, NEW new, IsFiniteSet(new), Sized(new), rows \cap new = {},
         \A r \in new : r.sub = i, rows' = rows \cup new, OwnersStay, sub'[i].status # "none",
         Bytes(rows) + Bytes(new) <= TotalBytes,
         Bytes({r \in rows : sub[r.sub].owner = sub'[i].owner}) + Bytes(new) <= UserBytes,
         Bytes(Files(i)) + Bytes(new) <= SubmissionBytes
  PROVE  /\ Placed' /\ Bytes(rows') <= TotalBytes
         /\ \A u \in Staff : Bytes({r \in rows' : sub'[r.sub].owner = u}) <= UserBytes
         /\ \A j \in Ids : Bytes(Files(j)') <= SubmissionBytes
<1>1. \A r \in rows : r.sub \in Ids /\ sub'[r.sub].owner = sub[r.sub].owner /\ sub'[r.sub].status # "none"
  BY DEF Kept, Placed, OwnersStay, IInv, TypeOK, Row
<1>2. Placed'
  BY <1>1 DEF Placed
<1>3. \A S \in SUBSET rows : Bytes(S \cup new) = Bytes(S) + Bytes(new)
  <2> TAKE S \in SUBSET rows
  <2>1. IsFiniteSet(S) /\ Sized(S) /\ S \cap new = {}
    BY RowsPart
  <2> QED BY <2>1, BytesUnion
<1>4. Bytes(rows') <= TotalBytes
  <2>1. rows \in SUBSET rows
    OBVIOUS
  <2> QED BY <1>3, <2>1
<1>5. ASSUME NEW u \in Staff PROVE Bytes({r \in rows' : sub'[r.sub].owner = u}) <= UserBytes
  <2> DEFINE Of == {r \in rows : sub[r.sub].owner = u}
             OfThen == {r \in rows' : sub'[r.sub].owner = u}
  <2>1. Of \in SUBSET rows /\ Bytes(Of) <= UserBytes
    BY DEF Kept, QuotasKept
  <2>2. CASE u = sub'[i].owner
    <3>1. OfThen = Of \cup new
      BY <1>1, <2>2
    <3>2. Bytes(Of) + Bytes(new) <= UserBytes
      BY <2>2
    <3> HIDE DEF Of
    <3> QED BY <3>1, <3>2, <2>1, <1>3
  <2>3. CASE u # sub'[i].owner
    <3>1. OfThen = Of
      BY <1>1, <2>3
    <3> QED BY <3>1, <2>1
  <2> QED BY <2>2, <2>3
<1>6. ASSUME NEW j \in Ids PROVE Bytes(Files(j)') <= SubmissionBytes
  <2>1. Files(j) \in SUBSET rows /\ Bytes(Files(j)) <= SubmissionBytes
    BY DEF Kept, QuotasKept, Files
  <2>2. CASE j = i
    <3>1. Files(j)' = Files(j) \cup new
      BY <2>2 DEF Files
    <3> QED BY <3>1, <2>1, <2>2, <1>3
  <2>3. CASE j # i
    <3>1. Files(j)' = Files(j)
      BY <2>3 DEF Files
    <3> QED BY <3>1, <2>1
  <2> QED BY <2>2, <2>3
<1> QED BY <1>2, <1>4, <1>5, <1>6

LEMMA NewRows ==
  ASSUME IInv, Kept, NEW p \in Processes, req[p].pc = "record", NEW i
  PROVE  LET new == RowsFor(i, req[p].made) IN
           /\ IsFiniteSet(new) /\ Sized(new) /\ Bytes(new) = Pending(p) /\ rows \cap new = {}
           /\ \A r \in new : r.sub = i
<1> DEFINE new == RowsFor(i, req[p].made)
           m == [f \in req[p].made |-> [sub |-> i, path |-> f.path, key |-> f.key, size |-> f.size]]
<1>1. IsFiniteSet(req[p].made) /\ Sized(req[p].made) /\ Granted(p)
  BY InHandSized DEF Kept
<1>2. Whole(p) /\ Apart(p)
  BY DEF IInv, Good
<1>3. new = {m[f] : f \in req[p].made}
  BY DEF RowsFor
<1>4. \A f \in req[p].made : m[f].size = f.size /\ m[f].key = f.key /\ m[f].sub = i
  OBVIOUS
<1> HIDE DEF m, new
<1>5. \A f, g \in req[p].made : m[f] = m[g] => f = g
  BY <1>2, <1>4 DEF Whole
<1>6. IsFiniteSet(new) /\ Sized(new) /\ Bytes(new) = Bytes(req[p].made)
  BY <1>1, <1>3, <1>4, <1>5, BytesRenamed
<1>7. Bytes(req[p].made) = Pending(p)
  <2>1. req[p].todo = {} /\ Bytes(req[p].made) \in Nat
    BY <1>1, BytesType DEF Granted, Saving
  <2> QED BY <2>1, BytesEmpty DEF Pending
<1>8. rows \cap new = {}
  <2>1. KeysOf(req[p].made) \cap KeysOf(rows) = {}
    BY <1>2 DEF Apart, Saving, Hand
  <2> QED BY <2>1, <1>3, <1>4 DEF KeysOf
<1>9. \A r \in new : r.sub = i
  BY <1>3, <1>4
<1> QED BY <1>6, <1>7, <1>8, <1>9 DEF new

LEMMA RecordKept ==
  ASSUME IInv, Kept, NEW p \in Processes, Record(p)
  PROVE  Kept'
<1> DEFINE r == [req[p] EXCEPT !.pc = "done"]
           new(i) == RowsFor(i, req[p].made)
<1>1. req[p].pc = "record" /\ req[p].pc \in Saving
  BY DEF Record, Step, Saving
<1>2. TypeOK /\ req[p] \in Job /\ req[p] # Idle /\ Granted(p) /\ req[p].sub \in Ids
  BY <1>1, AtWork DEF Kept
<1>3. r \in Job /\ r.pc = "done"
  BY <1>2 DEF Job
<1>4. req' = [req EXCEPT ![p] = r]
  BY DEF Record
<1> HIDE DEF r
<1>5. \A q \in Processes : Granted(q)'
  <2>1. req'[p] = r /\ \A q \in Processes : q # p => req'[q] = Idle
    BY <1>2, <1>3, <1>4, OneRequest
  <2>2. Idle.pc = "idle"
    BY DEF Idle
  <2>3. \A q \in Processes : req'[q].pc \in {"idle", "done"}
    BY <2>1, <2>2, <1>3
  <2> QED BY <2>3 DEF Granted, Saving
<1>6. CASE req[p].op = "upload" /\ Draft(req[p].sub) /\ rows' = rows \cup new(req[p].sub) /\ UNCHANGED sub
  <2> DEFINE i == req[p].sub
  <2>1. sub[i].status # "none" /\ Quota(sub[i].owner, i, Pending(p))
    BY <1>1, <1>2, <1>6 DEF Granted
  <2>2. /\ IsFiniteSet(new(i)) /\ Sized(new(i)) /\ Bytes(new(i)) = Pending(p) /\ rows \cap new(i) = {}
        /\ \A x \in new(i) : x.sub = i
    BY <1>1, NewRows
  <2>3. i \in Ids /\ i # None /\ rows' = rows \cup new(i) /\ OwnersStay /\ sub' = sub
    BY <1>2, <1>6, QuarantineAssumption DEF OwnersStay
  <2> HIDE DEF new, i
  <2>4. /\ Bytes(rows) + Bytes(new(i)) <= TotalBytes
        /\ Bytes({x \in rows : sub[x.sub].owner = sub[i].owner}) + Bytes(new(i)) <= UserBytes
        /\ Bytes(Files(i)) + Bytes(new(i)) <= SubmissionBytes
    BY <2>1, <2>2, <2>3 DEF Quota
  <2>5. /\ Placed' /\ Bytes(rows') <= TotalBytes
        /\ \A u \in Staff : Bytes({x \in rows' : sub'[x.sub].owner = u}) <= UserBytes
        /\ \A j \in Ids : Bytes(Files(j)') <= SubmissionBytes
    BY <2>1, <2>2, <2>3, <2>4, RoomForRows
  <2>6. \A u \in Staff : Cardinality(Drafts(u)') <= MaxDrafts
    BY <2>3 DEF Kept, QuotasKept, Drafts, Draft
  <2> QED BY <1>5, <2>5, <2>6 DEF Kept, QuotasKept
<1>7. ASSUME req[p].op = "revise", NEW i \in Ids, sub[i] = Absent, rows' = rows \cup new(i),
             sub' = [sub EXCEPT ![i] = Drafted(req[p].by, sub[req[p].sub].wants)]
      PROVE  Kept'
  <2>1. Capacity(req[p].by) /\ Quota(req[p].by, None, Pending(p))
    BY <1>1, <1>2, <1>7 DEF Granted
  <2>2. /\ IsFiniteSet(new(i)) /\ Sized(new(i)) /\ Bytes(new(i)) = Pending(p) /\ rows \cap new(i) = {}
        /\ \A x \in new(i) : x.sub = i
    BY <1>1, NewRows
  <2>3. /\ OwnersStay /\ sub'[i].status = "draft" /\ sub'[i].owner = req[p].by
        /\ \A v \in Staff : Cardinality(Drafts(v)') <= MaxDrafts
    BY <1>7, <2>1, NewDraft
  <2>4. Bytes(Files(i)) = 0
    <3>1. Files(i) = {}
      BY <1>7 DEF Kept, Placed, Files, Absent
    <3> QED BY <3>1, BytesEmpty
  <2> HIDE DEF new
  <2>5. /\ Bytes(rows) + Bytes(new(i)) <= TotalBytes
        /\ Bytes({x \in rows : sub[x.sub].owner = req[p].by}) + Bytes(new(i)) <= UserBytes
        /\ Bytes(Files(i)) + Bytes(new(i)) <= SubmissionBytes
    BY <2>1, <2>2, <2>4 DEF Quota
  <2>6. Bytes({x \in rows : sub[x.sub].owner = sub'[i].owner}) + Bytes(new(i)) <= UserBytes
    BY <2>3, <2>5
  <2>7. /\ Placed' /\ Bytes(rows') <= TotalBytes
        /\ \A u \in Staff : Bytes({x \in rows' : sub'[x.sub].owner = u}) <= UserBytes
        /\ \A j \in Ids : Bytes(Files(j)') <= SubmissionBytes
    BY <1>7, <2>2, <2>3, <2>5, <2>6, RoomForRows
  <2> QED BY <1>5, <2>3, <2>7 DEF Kept, QuotasKept
<1> QED BY <1>6, <1>7 DEF Record

-----------------------------------------------------------------------------
LEMMA InitKept == Init => Kept
<1> SUFFICES ASSUME Init PROVE Kept
  OBVIOUS
<1>1. \A u : Drafts(u) = {}
  BY DEF Init, Drafts, Draft, Absent
<1>2. rows = {} /\ \A u : {r \in rows : sub[r.sub].owner = u} = {} /\ \A i \in Ids : Files(i) = {}
  BY DEF Init, Files
<1>3. QuotasKept
  BY <1>1, <1>2, BytesEmpty, FS_EmptySet, QuotaAssumption DEF QuotasKept
<1>4. Placed /\ \A p \in Processes : Granted(p)
  BY DEF Init, Placed, Granted, Idle, Saving
<1> QED BY <1>3, <1>4 DEF Kept

LEMMA StutterKept == IInv /\ Kept /\ UNCHANGED vars => Kept'
<1> SUFFICES ASSUME IInv, Kept, UNCHANGED vars PROVE Kept'
  OBVIOUS
<1>1. UNCHANGED <<sub, rows, req>> /\ OwnersStay
  BY DEF vars, OwnersStay
<1>2. \A q \in Processes : Granted(q)' <=> Granted(q)
  BY <1>1 DEF Granted, Pending, Quota, Files, Capacity, Drafts, Draft
<1>3. \A q \in Processes : req'[q].pc \notin Saving \/ Granted(q)'
  BY <1>2 DEF Kept
<1> QED BY <1>1, <1>3, NoGrants

LEMMA NextKept == IInv /\ Kept /\ [Next]_vars => Kept'
<1> SUFFICES ASSUME IInv, Kept, [Next]_vars PROVE Kept'
  OBVIOUS
<1>1. ASSUME NEW u \in Staff, Transaction(u) PROVE Kept'
  BY <1>1, CreateKept, UpdateManifestKept, SubmitKept DEF Transaction
<1>2. ASSUME NEW u \in Staff, NEW p \in Processes, Request(p, u) PROVE Kept'
  BY <1>2, UploadKept, ReviseKept, RemoveKept DEF Request
<1>3. ASSUME NEW i \in Ids, NEW st \in Statuses, Decide(i, st) PROVE Kept'
  BY <1>3, DecideKept
<1>4. ASSUME NEW p \in Processes, Proceed(p) PROVE Kept'
  BY <1>4, StreamKept, LinkKept, UnlinkKept, RecordKept, OverKept, UndoKept DEF Proceed
<1>5. ASSUME NEW p \in Processes, Fail(p) \/ Interrupt(p) \/ Crash(p) PROVE Kept'
  BY <1>5, UndoingKept, OverKept
<1>6. CASE UNCHANGED vars
  BY <1>6, StutterKept
<1> QED BY <1>1, <1>2, <1>3, <1>4, <1>5, <1>6 DEF Next

\* No submission, no account and the directory as a whole never hold more
\* bytes than their quotas, nor an account more drafts than it may: _quota()
\* and the count of drafts are taken before the first byte, and the rows
\* written after the last, by a request that may have been undone, has
\* failed or has seen the submission decided about meanwhile.
THEOREM WithinQuotas == Spec => []QuotasKept
<1>1. IInv /\ Kept /\ [Next]_vars => (IInv /\ Kept)'
  BY NextInv, NextKept
<1>2. Kept => QuotasKept
  BY DEF Kept
<1> QED BY <1>1, <1>2, InitInv, InitKept, PTL DEF Spec
=============================================================================
