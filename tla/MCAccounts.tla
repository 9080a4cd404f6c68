----------------------------- MODULE MCAccounts -----------------------------
(* Two accounts and two browsers, in the scenes where requests meet: a     *)
(* registration decided on, an account locked and unlocked, a password     *)
(* issued, and administrators who change each other's roles.               *)
EXTENDS Accounts, TLC

CONSTANTS ann, root

Member(role) == [Unused EXCEPT !.approval = "approved", !.role = role, !.pw = "own"]
Scene(member, ps, gs) ==
  [user |-> (ann :> member) @@ (root :> Member("admin")), pages |-> ps, guessed |-> gs]

MCScenes ==
  { Scene(Unused, {"approve", "reject", "reset"}, {}),
    Scene(Unused, {"lock", "reset"}, {ann}),
    Scene(Member("student"), {"lock", "unlock"}, {ann}),
    Scene(Member("moderator"), {"reset", "lock", "student"}, {}),
    Scene(Member("admin"), Roles \cup {"shell"}, {}) }

\* Two administrators, and nobody with a shell.
MCTwoAdmins == { Scene(Member("admin"), Roles, {}) }

Symmetry == Permutations(Browsers)
=============================================================================
