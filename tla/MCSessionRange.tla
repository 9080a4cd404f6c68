-------------------------- MODULE MCSessionRange --------------------------
(* Small deployments for SessionRange: which student each attempt is of,   *)
(* and the challenges: a Docker-backed one, one of two machines and one of *)
(* one on a network of their own, a lone workstation, one without machine. *)
EXTENDS SessionRange, TLC

CONSTANTS u1, u2, a1, a2, dockerLab, twoVms, oneVm, desktop, brief

OneStudent  == [a \in Attempts |-> u1]
TwoStudents == a1 :> u1 @@ a2 :> u2
MCKindOf    == [c \in Challenges |-> (dockerLab :> "lab" @@ twoVms :> "vm" @@ oneVm :> "vm"
                                        @@ desktop :> "workstation" @@ brief :> "offline")[c]]
MCVmCount   == [c \in Challenges |-> (dockerLab :> 1 @@ twoVms :> 2 @@ oneVm :> 1
                                        @@ desktop :> 1 @@ brief :> 0)[c]]

\* Handlers are alike, and so are the two students with their attempts.
Swap     == u1 :> u2 @@ u2 :> u1 @@ a1 :> a2 @@ a2 :> a1
Symmetry == Permutations(Requests) \cup {Swap}
             \cup {Swap @@ f : f \in Permutations(Requests)}
=============================================================================
