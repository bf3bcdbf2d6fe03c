--------------------------- MODULE PageRankCompare ---------------------------
(***************************************************************************)
(* The three PageRank shapes run side by side on the same graph, one       *)
(* iteration of each per step: the index-based shape through what it       *)
(* implements (PageRankSpec, checked in PageRankIndex), PageRankJoin and   *)
(* PageRankJoinSelf.  Every rank of the index shape and of PageRankJoin    *)
(* has denominator RankDen(N, iter) and every rank of PageRankJoinSelf     *)
(* RankDen(1, iter) = RankDen(N, iter) / N, so equal numerators mean that  *)
(* the self-join rank is N times the other.                                *)
(***************************************************************************)
EXTENDS Naturals, FiniteSets, Bags, Functions

CONSTANTS N, MaxDeg, Iterations

VARIABLES
  links,   \* the graph all shapes read
  iter,    \* the common iteration count
  index,   \* ranks of PageRank (index-based)
  join,    \* ranks of PageRankJoin
  self     \* ranks of PageRankJoinSelf

vars == <<links, iter, index, join, self>>

Index == INSTANCE PageRankSpec WITH rank <- index
Join == INSTANCE PageRankJoin WITH ranks <- join, SelfJoin <- FALSE
Self == INSTANCE PageRankJoin WITH ranks <- self, SelfJoin <- TRUE

Init == Index!Init /\ Join!Init /\ Self!Init

Next == Index!Step /\ Join!Iterate /\ Self!Iterate

Spec == Init /\ [][Next]_vars

-----------------------------------------------------------------------------
TypeOK == Join!TypeOK /\ Self!TypeOK /\ index \in [Join!Pages -> Nat]

(***************************************************************************)
(* The join shape never ranks a page higher than the index shape: its      *)
(* InnerJoin can only lose the contributions of pages missing from ranks,  *)
(* never add any.                                                          *)
(***************************************************************************)
JoinNeverExceedsIndex == \A p \in DOMAIN join : join[p] <= index[p]

JoinAgreesWithIndex == \A p \in DOMAIN join : join[p] = index[p]

=============================================================================
