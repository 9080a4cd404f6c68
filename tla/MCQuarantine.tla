---------------------------- MODULE MCQuarantine ----------------------------
(* A moderator and an administrator, two submissions of one or two images.  *)
EXTENDS Quarantine, TLC

Symmetry == Permutations(Keys) \cup Permutations(Processes)
=============================================================================
