--------------------------- MODULE PageRankCommon ---------------------------
(***************************************************************************)
(* Data shared by every PageRank shape of examples/page_rank/page_rank.hpp. *)
(*                                                                         *)
(* Rank is a double in the code.  Here a rank is an exact rational kept as *)
(* a numerator over a denominator that depends only on the iteration:      *)
(* every rank of iteration t has denominator RankDen(base, t), where base  *)
(* is num_pages for the shapes that start at 1.0 / num_pages and 1 for the *)
(* shape that starts at 1.0.  Dividing a rank by an out-degree k <= MaxDeg *)
(* multiplies the denominator by DegLcm, and the dampening step by DampDen,*)
(* so all arithmetic of the recurrence stays exact and within TLC's        *)
(* integers.  Floating-point rounding is not modelled.                     *)
(***************************************************************************)
EXTENDS Naturals, FiniteSets, Bags

CONSTANTS
  N,        \* num_pages: PageIds are 0 .. N-1
  MaxDeg    \* largest out-degree of a page in the checked graphs

ASSUME N \in Nat \ {0}
ASSUME MaxDeg \in 1 .. 3

Pages == 0 .. N - 1

(* dampening = 0.85, written DampNum / DampDen. *)
DampNum == 17
DampDen == 20

(***************************************************************************)
(* OutgoingLinks is a std::vector<PageId>.  No step of the computation     *)
(* depends on the order of the targets; it does depend on how often a      *)
(* target occurs, since FlatMap emits one record per entry.  So a page's   *)
(* out-links are a bag of targets with at most MaxDeg entries.             *)
(***************************************************************************)
OutgoingLinks ==
  { b \in UNION { [T -> 1 .. MaxDeg] : T \in SUBSET Pages } :
      BagCardinality(b) <= MaxDeg }

(* Every adjacency structure the input can produce: one OutgoingLinks per page. *)
Graphs == [Pages -> OutgoingLinks]

(* p.first.size(): the number of out-links of page p. *)
OutDegree(links, p) == BagCardinality(links[p])

(* Least common multiple of 1 .. MaxDeg. *)
DegLcm ==
  CHOOSE m \in 1 .. 6 :
    /\ \A k \in 1 .. MaxDeg : m % k = 0
    /\ \A m2 \in 1 .. m - 1 : \E k \in 1 .. MaxDeg : m2 % k # 0

(* Denominator of every rank after t iterations. *)
RankDen(base, t) == base * (DampDen * DegLcm) ^ t

(***************************************************************************)
(* rank_contrib = p.second / p.first.size(): the numerator, over           *)
(* RankDen(base, t) * DegLcm, of the contribution of a page whose rank     *)
(* numerator is r and whose out-degree is k > 0.                           *)
(***************************************************************************)
ContribNum(r, k) == r * (DegLcm \div k)

(***************************************************************************)
(* dampening * sum + (1 - dampening) / divisor: the numerator, over        *)
(* RankDen(base, t + 1), of the new rank of a page whose summed            *)
(* contributions have numerator sum over RankDen(base, t) * DegLcm.        *)
(* divisor is num_pages_d in PageRank and PageRankJoin and 1 in            *)
(* PageRankJoinSelf.                                                       *)
(***************************************************************************)
DampenNum(sum, base, t, divisor) ==
  DampNum * sum + ((DampDen - DampNum) * RankDen(base, t) * DegLcm) \div divisor

(* Copies of the link q -> p in the out-links of q. *)
Copies(links, q, p) == IF p \in DOMAIN links[q] THEN links[q][p] ELSE 0

(* Pages with no out-link (dangling pages). *)
Dangling(links) == { p \in Pages : OutDegree(links, p) = 0 }

=============================================================================
