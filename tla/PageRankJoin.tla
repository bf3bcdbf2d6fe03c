---------------------------- MODULE PageRankJoin ----------------------------
(***************************************************************************)
(* The join-based shapes of page_rank.hpp, keyed by PageId instead of by   *)
(* position:                                                               *)
(*   SelfJoin = FALSE: PageRankJoin(links, num_pages, iterations), fed by  *)
(*     RunPageRankJoinGenerated with one (index, OutgoingLinks) pair per   *)
(*     page from Generate;                                                 *)
(*   SelfJoin = TRUE: PageRankJoinSelf(links, iterations), fed by          *)
(*     RunJoinPageRankEdgePerLine with the pairs GroupByKey builds from    *)
(*     the edge list, one per page that is the source of an edge.          *)
(* ranks is a DIA<RankedPage>: a partial function from PageId to rank      *)
(* numerator.  An iteration is the whole loop body up to ranks.Execute():  *)
(* InnerJoin, FlatMap, ReducePair, Map, Collapse.                          *)
(***************************************************************************)
EXTENDS Naturals, FiniteSets, Bags, Functions

CONSTANTS N, MaxDeg, Iterations, SelfJoin

ASSUME Iterations \in Nat /\ SelfJoin \in BOOLEAN

VARIABLES
  links,   \* out-links of every page; the DIA holds LinkedPages of them
  ranks,   \* DIA<RankedPage>: numerators over RankDen(RankBase, iter)
  iter     \* loop counter

vars == <<links, ranks, iter>>

INSTANCE PageRankCommon

(* Keys of the links DIA built by Generate: (index, outgoing) for every *)
(* index < num_pages.                                                    *)
LinkedPagesGenerated == Pages

(* Keys of the links DIA built by GroupByKey on p.src: the sources of an *)
(* edge.                                                                 *)
LinkedPagesGrouped == { p \in Pages : OutDegree(links, p) > 0 }

(* main() pairs the self join with the edge list and the join with the *)
(* generated graph.                                                    *)
LinkedPages == IF SelfJoin THEN LinkedPagesGrouped ELSE LinkedPagesGenerated

(* Initial ranks are 1.0 (self join) or 1.0 / num_pages (join). *)
RankBase == IF SelfJoin THEN 1 ELSE N

(* Mutation of InitRanksSelf: a default-constructed Rank() instead of Rank(1.0). *)
InitRanksSelfZero == [p \in LinkedPages |-> 0]

(* links.Map(lp -> (lp.first, Rank(1.0))). *)
InitRanksSelf == [p \in LinkedPages |-> 1]

(* Generate of (idx, 1.0 / num_pages_d) for idx < num_pages, collapsed. *)
InitRanksJoin == [p \in Pages |-> 1]

InitRanks == IF SelfJoin THEN InitRanksSelf ELSE InitRanksJoin

(* InnerJoin on lp.first = rp.first: both sides hold at most one record *)
(* per key, so the pages with a record on both sides.                   *)
Joined == LinkedPages \cap DOMAIN ranks

(* Keys of the FlatMap output: targets of an out-link of a joined page. *)
Targets == { t \in Pages : \E q \in Joined : t \in DOMAIN links[q] }

(* ReducePair with p1 + p2: the summed contributions reaching t. *)
Reduced(t) ==
  SumFunction([q \in Joined \ Dangling(links) |->
                 Copies(links, q, t) * ContribNum(ranks[q], OutDegree(links, q))])

(* PageRankJoinSelf adds (1 - dampening) undivided. *)
DivisorSelf == 1

(* Mutation of DivisorJoin: (1 - dampening) undivided as in PageRankJoinSelf. *)
DivisorJoinUndivided == 1

(* PageRankJoin adds (1 - dampening) / num_pages_d. *)
DivisorJoin == N

Divisor == IF SelfJoin THEN DivisorSelf ELSE DivisorJoin

(* The pairs ReducePair emits, dampened by the Map. *)
NextRanks == [t \in Targets |-> DampenNum(Reduced(t), RankBase, iter, Divisor)]

(* One loop body, up to ranks.Execute(). *)
Iterate ==
  /\ iter < Iterations
  /\ ranks' = NextRanks
  /\ iter' = iter + 1
  /\ UNCHANGED links

Init ==
  /\ links \in Graphs
  /\ ranks = InitRanks
  /\ iter = 0

Next == Iterate

Spec == Init /\ [][Next]_vars /\ WF_vars(Next)

-----------------------------------------------------------------------------
(* Every rank in the DIA is a positive rank of a page of the universe. *)
TypeOK ==
  /\ links \in Graphs
  /\ DOMAIN ranks \subseteq Pages
  /\ \A p \in DOMAIN ranks : ranks[p] \in Nat \ {0}
  /\ iter \in 0 .. Iterations

=============================================================================
