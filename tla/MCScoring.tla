----------------------------- MODULE MCScoring -----------------------------
(* The attempts of two students at a challenge of two flags, and two users *)
(* who only watch. The flag of the quiz is no flag of the lab.             *)
EXTENDS Leaderboard, TLC

CONSTANTS ann, bob, cem, dan, lab, quiz, f1, f2, f3, i1, i2

MCUserOf      == i1 :> ann @@ i2 :> bob
MCChallengeOf == i1 :> lab @@ i2 :> lab
MCFlagsOf     == lab :> {f1, f2} @@ quiz :> {f3}
MCPoints      == f1 :> 1 @@ f2 :> 1 @@ f3 :> 1
MCCategoryOf  == lab :> "web" @@ quiz :> "web"
MCNameRank    == ann :> 1 @@ bob :> 2 @@ cem :> 3 @@ dan :> 4
=============================================================================
