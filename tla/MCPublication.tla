--------------------------- MODULE MCPublication ---------------------------
(* Challenges of two machines, of one and of none. A behaviour begins with *)
(* two submissions whose first import failed before there was a plan, or   *)
(* with one that was just approved beside one that was rejected.           *)
EXTENDS Publication, TLC

CONSTANTS pair, machine, docker, root

MCRolesOf == pair :> {"target", "relay"} @@ machine :> {"target"} @@ docker :> {}

\* All of content c, and decided on as status says: rejected, approved, or
\* approved and imported once, in vain.
DecidedInit(c, status, spent) ==
  LET judged(t) == IF status[t] = "rejected" THEN "reject" ELSE "approve" IN
  /\ sub     = [t \in Submissions |->
                  [status |-> status[t], content |-> c, digest |-> c,
                   passed |-> TRUE, approver |-> IF judged(t) = "approve" THEN root ELSE None]]
  /\ vjob    = [t \in Submissions |-> [NoJob EXCEPT !.status = "succeeded", !.attempts = 1]]
  /\ attest  = [t \in Submissions |-> [status |-> "ready_for_review", digest |-> c]]
  /\ review  = [t \in Submissions |-> [decision |-> judged(t), digest |-> c, by |-> root]]
  /\ notices = UNION {{Notice(t, "verdict", 0, "ready_for_review"),
                       Notice(t, judged(t), 0, IF judged(t) = "approve" THEN "approved" ELSE "rejected")}
                        : t \in Submissions}
               \cup {Notice(t, "failed", 1, "import_failed") : t \in {u \in Submissions : status[u] = "import_failed"}}
  /\ trusted = {root}
  /\ vwork   = [w \in Workers |-> Off]
  /\ edits   = spent
  /\ pjob      = [t \in Submissions |-> IF status[t] # "import_failed" THEN NoPublish
                   ELSE [NoPublish EXCEPT !.status = "failed", !.attempts = 1]]
  /\ catalogue = {}
  /\ live      = [t \in Submissions |-> None]
  /\ pwork     = [w \in Publishers |-> Resting]

First == CHOOSE s \in Submissions : TRUE

MCInit ==
  \/ DecidedInit(machine, [s \in Submissions |-> "import_failed"], MaxEdits)
  \/ \E c \in {pair, docker} :
       DecidedInit(c, [s \in Submissions |-> IF s = First THEN "approved" ELSE "rejected"], 0)

MCSpec == MCInit /\ [][Next]_vars /\ Fairness
=============================================================================
