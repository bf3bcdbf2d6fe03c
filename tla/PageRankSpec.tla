---------------------------- MODULE PageRankSpec ----------------------------
(***************************************************************************)
(* What PageRank promises (spec.md section 4.4): starting from 1/N for     *)
(* every page, each of exactly Iterations rounds replaces the whole rank   *)
(* vector by                                                               *)
(*   rank'[p] = d * SUM over in-links q -> p of rank[q] / outdeg(q)        *)
(*              + (1 - d) / N                                              *)
(* where a link that occurs twice counts twice and a dangling page         *)
(* contributes nothing.  The rank vector changes in one step per round; how *)
(* the dataflow engine computes it is left to the implementation.          *)
(***************************************************************************)
EXTENDS Naturals, FiniteSets, Bags, Functions

CONSTANTS N, MaxDeg, Iterations

ASSUME Iterations \in Nat

VARIABLES links, rank, iter

vars == <<links, rank, iter>>

INSTANCE PageRankCommon

(* Numerator of the summed contributions reaching p in a graph l of the *)
(* pages 0 .. n-1 (pull formulation).                                    *)
InRank(n, l, r, p) ==
  SumFunction([q \in { q \in 0 .. n - 1 : OutDegree(l, q) > 0 } |->
                 Copies(l, q, p) * ContribNum(r[q], OutDegree(l, q))])

(* One round of the recurrence applied to the rank vector of round t. *)
Round(n, l, r, t) == [p \in 0 .. n - 1 |-> DampenNum(InRank(n, l, r, p), n, t, n)]

(* The rank vector after t rounds, over RankDen(n, t). *)
RECURSIVE RanksAfter(_, _, _)
RanksAfter(n, l, t) ==
  IF t = 0 THEN [p \in 0 .. n - 1 |-> 1]
  ELSE Round(n, l, RanksAfter(n, l, t - 1), t - 1)

Init ==
  /\ links \in Graphs
  /\ rank = [p \in Pages |-> 1]
  /\ iter = 0

Step ==
  /\ iter < Iterations
  /\ rank' = Round(N, links, rank, iter)
  /\ iter' = iter + 1
  /\ UNCHANGED links

Spec == Init /\ [][Step]_vars /\ WF_vars(Step)

=============================================================================
