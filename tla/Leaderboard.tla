---------------------------- MODULE Leaderboard ----------------------------
(***************************************************************************)
(* The boards, computed from the award ledger at every read.               *)
(*                                                                         *)
(* A board sorts its users and lets _ranked() number them from the scores  *)
(* of neighbours; the dashboard counts the users with a higher score. Each *)
(* read is taken as one: the queries of a page see the same rows.          *)
(***************************************************************************)
EXTENDS Scoring, FiniteSetsExt

CONSTANTS
  Sysadmins,   \* users on no board
  CategoryOf,  \* [Challenges -> Categories]
  NameRank,    \* [Users -> Nat]: the order of the usernames
  BoardSize    \* the limit of a board

ASSUME BoardAssumption ==
  /\ IsFiniteSet(Users) /\ Sysadmins \subseteq Users /\ NameRank \in [Users -> Nat]
  /\ \A u, v \in Users : NameRank[u] = NameRank[v] => u = v
  /\ BoardSize \in Nat /\ \A c \in Challenges : c \in DOMAIN CategoryOf

Competitors   == Users \ Sysadmins
FlagsIn(C)    == UNION {FlagsOf[c] : c \in C}
InCategory(k) == {c \in Challenges : CategoryOf[c] = k}

SolvesOf(u, C) == {k \in 1 .. Len(solves) : solves[k].user = u /\ solves[k].flag \in FlagsIn(C)}
Awarded(k)     == solves[k].points

\* The row of a user: last is 0 for one who has solved nothing.
Row(u, C) ==
  LET mine == SolvesOf(u, C) IN
  [user |-> u, score |-> MapThenSumSet(Awarded, mine), last |-> IF mine = {} THEN 0 ELSE Max(mine)]
Rows(C)   == {Row(u, C) : u \in Competitors}

\* The sort key (-score, last_solved is None, last_solved, username).
Ahead(r, s) ==
  \/ r.score > s.score
  \/ r.score = s.score /\ r.last # 0 /\ (s.last = 0 \/ r.last < s.last)
  \/ r.score = s.score /\ r.last = 0 /\ s.last = 0 /\ NameRank[r.user] < NameRank[s.user]

\* rows.sort(key=...)[:limit]
Sorted(rows) ==
  [p \in 1 .. Min({Cardinality(rows), BoardSize}) |->
     CHOOSE r \in rows : Cardinality({s \in rows : Ahead(s, r)}) = p - 1]

SlipDense(board) ==
  LET rank[p \in DOMAIN board] ==
        IF p = 1 THEN 1
        ELSE IF board[p].score = board[p - 1].score THEN rank[p - 1] ELSE rank[p - 1] + 1
  IN rank

\* _ranked(): equal scores share a rank, and the next rank skips.
Ranked(board) ==
  LET rank[p \in DOMAIN board] ==
        IF p > 1 /\ board[p].score = board[p - 1].score THEN rank[p - 1] ELSE p
  IN rank

\* overall_leaderboard() lists everyone, category_leaderboard() who scored.
Overall     == Sorted(Rows(Challenges))
Category(k) == Sorted({r \in Rows(InCategory(k)) : r.score > 0})

\* user_stats(): how many have a higher score.
StatsRank(r, rows) == 1 + Cardinality({s \in rows : s.score > r.score})

RanksOn(board, rows) == \A p \in DOMAIN board : Ranked(board)[p] = StatsRank(board[p], rows)

\* Whatever was awarded in whatever order, a board and the dashboard give a
\* user the same rank, on the overall board and on every category's, and
\* whoever a full board leaves out does not beat anyone on it.
RanksAgree ==
  LET rows == Rows(Challenges)  board == Overall IN
  /\ RanksOn(board, rows)
  /\ \A c \in Challenges : RanksOn(Category(CategoryOf[c]), Rows(InCategory(CategoryOf[c])))
  /\ \A r \in rows, p \in DOMAIN board :
       r.score > board[p].score => \E q \in DOMAIN board : board[q] = r
=============================================================================
