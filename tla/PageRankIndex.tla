---------------------------- MODULE PageRankIndex ---------------------------
(***************************************************************************)
(* PageRank(links, num_pages, iterations) of page_rank.hpp: the            *)
(* index-based shape.  links holds the OutgoingLinks of page i at index i  *)
(* (GroupToIndex or Generate, cached); ranks holds the rank of page i at   *)
(* index i.  Each iteration zips links with ranks, flat-maps every page to *)
(* one contribution record per out-link, reduces the records to the index  *)
(* of their target and dampens the sums.                                   *)
(*                                                                         *)
(* The ReduceToIndex shuffle delivers contribution records to the worker   *)
(* owning the target index in no fixed order: the reduce step takes one    *)
(* record at a time, any record first.                                     *)
(***************************************************************************)
EXTENDS Naturals, FiniteSets, Bags, BagsExt, Functions

CONSTANTS N, MaxDeg, Iterations

ASSUME Iterations \in Nat

VARIABLES
  links,     \* the cached DIA<OutgoingLinks>: one bag of targets per page
  ranks,     \* DIA<Rank>: numerators over RankDen(N, iter)
  iter,      \* loop counter of the for loop
  stage,     \* "zip": before Zip/FlatMap of this iteration; "reduce": shuffling
  contribs,  \* bag of contribution records <<tgt, numerator>> not yet reduced
  sums       \* ReduceToIndex table: summed contributions per index

vars == <<links, ranks, iter, stage, contribs, sums>>

INSTANCE PageRankCommon

NoSums == [p \in Pages |-> 0]

(* Generate(ctx, num_pages, 1.0 / num_pages).Collapse(): 1 over RankDen(N, 0). *)
InitRanks == [p \in Pages |-> 1]

(* Mutation of LoopContinues: an off-by-one, one round too many. *)
LoopRunsOnceMore == iter <= Iterations

(* The loop condition iter < iterations. *)
LoopContinues == iter < Iterations

(* Mutation of EmitContribs: one record per distinct target, as if the *)
(* out-links were a set.                                               *)
EmitContribsOnce(p) ==
  IF OutDegree(links, p) = 0 THEN EmptyBag
  ELSE [c \in { <<t, ContribNum(ranks[p], OutDegree(links, p))>> :
                t \in DOMAIN links[p] } |-> 1]

(***************************************************************************)
(* The FlatMap lambda applied to the zipped pair (links[p], ranks[p]):     *)
(* nothing for a page without out-links, otherwise one record              *)
(* <<tgt, rank / size>> per entry of the out-links.                        *)
(***************************************************************************)
EmitContribs(p) ==
  IF OutDegree(links, p) = 0 THEN EmptyBag
  ELSE LET v == ContribNum(ranks[p], OutDegree(links, p))
       IN  [c \in { <<t, v>> : t \in DOMAIN links[p] } |-> links[p][c[1]]]

(* All records of contribs: the FlatMap output over all zipped pairs. *)
AllContribs == FoldFunction(LAMBDA a, b : a (+) b, EmptyBag,
                            [p \in Pages |-> EmitContribs(p)])

(* Zip of links with ranks and the FlatMap to contribution records. *)
ZipFlatMap ==
  /\ stage = "zip"
  /\ LoopContinues
  /\ contribs' = AllContribs
  /\ sums' = NoSums
  /\ stage' = "reduce"
  /\ UNCHANGED <<links, ranks, iter>>

(* ReduceToIndex: one record arrives at index p.page and is added to the *)
(* partial sum there (p1.rank + p2.rank).                                *)
ReduceToIndex ==
  /\ stage = "reduce"
  /\ \E c \in BagToSet(contribs) :
       /\ sums' = [sums EXCEPT ![c[1]] = @ + c[2]]
       /\ contribs' = BagRemove(contribs, c)
  /\ UNCHANGED <<links, ranks, iter, stage>>

(* Mutation of Dampen: the base term (1 - dampening) not divided by *)
(* num_pages_d, as PageRankJoinSelf writes it.                     *)
DampenUndivided == [p \in Pages |-> DampenNum(sums[p], N, iter, 1)]

(* dampening * p.rank + (1 - dampening) / num_pages_d, for every index; *)
(* an index no record reached keeps the sum 0.                          *)
Dampen == [p \in Pages |-> DampenNum(sums[p], N, iter, N)]

(* Map with the dampening and Collapse, once every record is reduced; *)
(* ends the iteration.                                                *)
MapCollapse ==
  /\ stage = "reduce"
  /\ contribs = EmptyBag
  /\ ranks' = Dampen
  /\ iter' = iter + 1
  /\ sums' = NoSums
  /\ stage' = "zip"
  /\ UNCHANGED <<links, contribs>>

Init ==
  /\ links \in Graphs
  /\ ranks = InitRanks
  /\ iter = 0
  /\ stage = "zip"
  /\ contribs = EmptyBag
  /\ sums = NoSums

Next == ZipFlatMap \/ ReduceToIndex \/ MapCollapse

(* The loop, the stages and the shuffle all run to completion: no stage *)
(* waits on anything outside the computation.                           *)
Spec == Init /\ [][Next]_vars /\ WF_vars(Next)

-----------------------------------------------------------------------------
(* Properties *)

TypeOK ==
  /\ links \in Graphs
  /\ ranks \in [Pages -> Nat]
  /\ iter \in 0 .. Iterations
  /\ stage \in {"zip", "reduce"}
  /\ sums \in [Pages -> Nat]
  /\ IsABag(contribs)

(***************************************************************************)
(* Rank mass (spec.md section 8): between iterations the ranks sum to 1    *)
(* when no page is dangling, and never to more than 1: the FlatMap drops   *)
(* the mass of a dangling page and the dampening term (1-d)/num_pages      *)
(* adds back exactly 1-d over all pages.                                   *)
(***************************************************************************)
RankMass ==
  stage = "zip" =>
    /\ SumFunction(ranks) <= RankDen(N, iter)
    /\ Dangling(links) = {} => SumFunction(ranks) = RankDen(N, iter)

(***************************************************************************)
(* The Zip / FlatMap / shuffled ReduceToIndex / Map pipeline implements    *)
(* the PageRank recurrence: seen at iteration boundaries, the ranks are    *)
(* those of PageRankSpec, whatever order the shuffle delivers records in.  *)
(***************************************************************************)
Abstract == INSTANCE PageRankSpec WITH rank <- ranks

ImplementsPageRankSpec == Abstract!Spec

=============================================================================
