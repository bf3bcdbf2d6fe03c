----------------------------- MODULE PageRankRun -----------------------------
(***************************************************************************)
(* The drivers of the index-based shape in page_rank_run.cpp:              *)
(*   mode "edge": RunPageRankEdgePerLine reads "src tgt" lines, parses     *)
(*     them, sets num_pages to the largest id + 1, groups the edges to     *)
(*     index src, runs PageRank and writes one "page: rank" line per page  *)
(*     through ZipWithIndex;                                               *)
(*   mode "gen": RunPageRankGenerated takes num_pages from the input path, *)
(*     generates the graph (any graph of N pages here), runs PageRank and  *)
(*     writes the lines through its own ZipWithIndex lambda;               *)
(*   mode "join_edge": RunJoinPageRankEdgePerLine parses the same lines,   *)
(*     groups them by src with GroupByKey, runs PageRankJoinSelf and       *)
(*     writes one line per RankedPage;                                     *)
(*   mode "join_gen": RunPageRankJoinGenerated generates (index, links)    *)
(*     for N pages, runs PageRankJoin and writes one line per RankedPage.  *)
(* PageRank itself is the recurrence of PageRankSpec, which PageRankIndex  *)
(* shows the dataflow pipeline implements; the join shapes are the         *)
(* iterations of PageRankJoin.  PageIds are size_t: Width bits *)
(* wide, so that ULongMax + 1 wraps to 0 as in the code.                   *)
(***************************************************************************)
EXTENDS Naturals, Sequences, SequencesExt, FiniteSets, Bags, Functions

CONSTANTS N, MaxDeg, Iterations, Width, MaxLines, Modes

ASSUME Width \in 1 .. 4 /\ MaxLines \in 1 .. MaxDeg
ASSUME Modes \subseteq {"edge", "gen", "join_edge", "join_gen"} /\ Modes # {}

VARIABLES
  mode,        \* which Run function main() dispatched to
  outputPath,  \* output_path.size() != 0
  phase,       \* where the Run function is
  lines,       \* the input lines (edge mode)
  edges,       \* the parsed PagePageLinks
  numPages,    \* num_pages
  links,       \* OutgoingLinks per index 0 .. num_pages-1
  ranks,       \* result of the PageRank shape: numerators over RankDenOf
  output       \* the written lines, in index order

vars == <<mode, outputPath, phase, lines, edges, numPages, links, ranks, output>>

PR == INSTANCE PageRankSpec WITH rank <- ranks, iter <- Iterations

ULongMax == 2 ^ Width - 1

(* One iteration of the join shapes on a graph of the ids 0 .. n-1. *)
JoinRun(n, sj, l, r, k) ==
  INSTANCE PageRankJoin
    WITH N <- n, SelfJoin <- sj, Iterations <- Iterations,
         links <- l, ranks <- r, iter <- k

(* The ranks PageRankJoin (sj = FALSE) or PageRankJoinSelf (sj = TRUE)   *)
(* returns after t iterations.                                           *)
JoinRanksAfter(n, sj, l, t) ==
  LET after[k \in 0 .. t] ==
        IF k = 0 THEN JoinRun(n, sj, l, << >>, 0)!InitRanks
        ELSE JoinRun(n, sj, l, after[k - 1], k - 1)!NextRanks
  IN  after[t]

(* A number field of a line: optional '-' and decimal digits. *)
Token == [neg : BOOLEAN, digits : 0 .. ULongMax]

(* An input line: src field, the character after it, tgt field. *)
Line == [src : Token, sep : {" ", "\t"}, tgt : Token]

Inputs == UNION { [1 .. k -> Line] : k \in 1 .. MaxLines }

(* std::strtoul: a leading '-' negates the value modulo 2^Width. *)
StrToUL(tok) == IF tok.neg THEN (ULongMax + 1 - tok.digits) % (ULongMax + 1)
                ELSE tok.digits

(* PageRankLineParser: die_unless the src field is followed by ' '. *)
ParseOK(l) == l.sep = " "

Parse(l) == [src |-> StrToUL(l.src), tgt |-> StrToUL(l.tgt)]

(* Map(max(src, tgt)).Max() + 1, in size_t arithmetic. *)
NumPagesOf(es) ==
  LET ids == { es[i].src : i \in DOMAIN es } \cup { es[i].tgt : i \in DOMAIN es }
      top == CHOOSE m \in ids : \A x \in ids : x <= m
  IN  (top + 1) % (ULongMax + 1)

(* The group function: all.clear(), then push_back(r.Next().tgt) for   *)
(* every record of key p; the tgts of the edges from p, in a bag.        *)
GroupFn(es, p) ==
  LET from == { i \in DOMAIN es : es[i].src = p } IN
  [t \in { es[i].tgt : i \in from } |->
     Cardinality({ i \in from : es[i].tgt = t })]

(* GroupToIndex / GroupByKey on p.src: the group function's result for  *)
(* every key with records; slots 0 .. n-1 no record reaches get an      *)
(* empty vector.                                                        *)
GroupLinks(es, n) == [p \in 0 .. n - 1 |-> GroupFn(es, p)]

(* size_t of a non-negative double: truncation. *)
Trunc(r) == r[1] \div r[2]

(* Mutation of ZipLambdaEdge: parameters in the order (PageId, Rank). *)
ZipLambdaEdgeSwapped(r, i) == [page |-> Trunc(r), rank |-> <<i, 1>>]

(* [](const Rank& r, const PageId& p) -> "%zu: %g" of (p, r). *)
ZipLambdaEdge(r, i) == [page |-> i, rank |-> r]

(* [](const PageId& p, const Rank& r) -> to_string(p) + ": " + to_string(r), *)
(* called by ZipWithIndex with (rank, index): p is the truncated rank and  *)
(* r the index.                                                            *)
ZipLambdaGenerated(r, i) == [page |-> Trunc(r), rank |-> <<i, 1>>]

(* Mutation of JoinLambda: the fields of the RankedPage printed in       *)
(* swapped order.                                                        *)
JoinLambdaSwapped(p, r) == [page |-> Trunc(r), rank |-> <<p, 1>>]

(* [](const RankedPage& rp) -> "%zu: %g" of (rp.first, rp.second). *)
JoinLambda(p, r) == [page |-> p, rank |-> r]

(* Denominator of every rank the shape of the mode returns. *)
RankDenOf ==
  CASE mode \in {"edge", "gen"} -> PR!RankDen(numPages, Iterations)
    [] mode = "join_edge"        -> PR!RankDen(1, Iterations)
    [] mode = "join_gen"         -> PR!RankDen(N, Iterations)

(* ranks.Map(lambda).WriteLines(output_path): one line per RankedPage;   *)
(* the order across workers is unspecified, here by PageId.              *)
JoinLines ==
  LET ps == SetToSortSeq(DOMAIN ranks, <) IN
  [k \in 1 .. Len(ps) |-> JoinLambda(ps[k], <<ranks[ps[k]], RankDenOf>>)]

(* ranks.ZipWithIndex(lambda).WriteLines(output_path). *)
ZipWithIndex ==
  LET den == PR!RankDen(numPages, Iterations) IN
  [k \in 1 .. numPages |->
     IF mode = "edge" THEN ZipLambdaEdge(<<ranks[k - 1], den>>, k - 1)
     ELSE ZipLambdaGenerated(<<ranks[k - 1], den>>, k - 1)]

-----------------------------------------------------------------------------
(* ReadLines(...).Map(PageRankLineParser()) and the Max() that forces it. *)
ComputeNumPages ==
  /\ phase = "start"
  /\ mode = "edge"
  /\ IF \A i \in DOMAIN lines : ParseOK(lines[i])
       THEN /\ edges' = [i \in DOMAIN lines |-> Parse(lines[i])]
            /\ numPages' = NumPagesOf(edges')
            /\ phase' = "group"
       ELSE /\ phase' = "died"
            /\ UNCHANGED <<edges, numPages>>
  /\ UNCHANGED <<mode, outputPath, lines, links, ranks, output>>

(* GroupToIndex(p.src, ..., num_pages).Cache(): a src outside the index *)
(* range is a fatal key-range error.                                    *)
GroupToIndex ==
  /\ phase = "group"
  /\ IF \A i \in DOMAIN edges : edges[i].src < numPages
       THEN /\ links' = GroupLinks(edges, numPages)
            /\ phase' = "rank"
       ELSE /\ phase' = "key_range"
            /\ UNCHANGED links
  /\ UNCHANGED <<mode, outputPath, lines, edges, numPages, ranks, output>>

(* ReadLines(...).Map(PageRankLineParser()).GroupByKey(p.src, ...)       *)
(* .Cache(): the out-links of every id that is the src of an edge, read  *)
(* here as a graph over all 2^Width ids; a malformed line is fatal.      *)
GroupByKey ==
  /\ phase = "start"
  /\ mode = "join_edge"
  /\ IF \A i \in DOMAIN lines : ParseOK(lines[i])
       THEN /\ edges' = [i \in DOMAIN lines |-> Parse(lines[i])]
            /\ links' = GroupLinks(edges', ULongMax + 1)
            /\ phase' = "rank"
       ELSE /\ phase' = "died"
            /\ UNCHANGED <<edges, links>>
  /\ UNCHANGED <<mode, outputPath, lines, numPages, ranks, output>>

(* PageRank(links, num_pages, iterations), PageRankJoinSelf(links,       *)
(* iterations) or PageRankJoin(links, num_pages, iterations).            *)
RunPageRank ==
  /\ phase = "rank"
  /\ ranks' = CASE mode \in {"edge", "gen"} -> PR!RanksAfter(numPages, links, Iterations)
                [] mode = "join_edge" -> JoinRanksAfter(ULongMax + 1, TRUE, links, Iterations)
                [] mode = "join_gen"  -> JoinRanksAfter(N, FALSE, links, Iterations)
  /\ phase' = "write"
  /\ UNCHANGED <<mode, outputPath, lines, edges, numPages, links, output>>

(* The lines for a non-empty output_path; otherwise ranks.Execute(). *)
WriteOutput ==
  /\ phase = "write"
  /\ output' = IF ~outputPath THEN << >>
               ELSE IF mode \in {"edge", "gen"} THEN ZipWithIndex ELSE JoinLines
  /\ phase' = "done"
  /\ UNCHANGED <<mode, outputPath, lines, edges, numPages, links, ranks>>

(* main() dispatches on the flags; the generated graph (Generate of     *)
(* ZipfGraphGen, cached) and num_pages from the input path are the      *)
(* starting state of the generated mode.                                *)
Init ==
  /\ mode \in Modes
  /\ outputPath \in BOOLEAN
  /\ edges = << >>
  /\ ranks = << >>
  /\ output = << >>
  /\ \/ /\ mode \in {"edge", "join_edge"}
        /\ phase = "start"
        /\ lines \in Inputs
        /\ numPages = 0
        /\ links = << >>
     \/ /\ mode \in {"gen", "join_gen"}
        /\ phase = "rank"
        /\ lines = << >>
        /\ numPages = N
        /\ links \in PR!Graphs

Next == ComputeNumPages \/ GroupToIndex \/ GroupByKey \/ RunPageRank \/ WriteOutput

Spec == Init /\ [][Next]_vars

-----------------------------------------------------------------------------
(***************************************************************************)
(* Every line written is "page: rank" for its own page: it names a page    *)
(* the shape ranked and carries the rank the shape computed for it, and    *)
(* the index drivers' ZipWithIndex writes page k-1 on line k.              *)
(***************************************************************************)
OutputIsPageRank ==
  \A k \in DOMAIN output :
    /\ output[k].page \in DOMAIN ranks
    /\ output[k].rank[1] * RankDenOf = ranks[output[k].page] * output[k].rank[2]
    /\ mode \in {"edge", "gen"} => output[k].page = k - 1

(* The pages of a run: [0, num_pages), or the ids the edges name. *)
InputPages ==
  IF mode = "join_edge"
  THEN { edges[i].src : i \in DOMAIN edges } \cup { edges[i].tgt : i \in DOMAIN edges }
  ELSE 0 .. numPages - 1

(***************************************************************************)
(* Spec.md 6: the output has one line per page, once the Run function has  *)
(* written it.                                                             *)
(***************************************************************************)
OnePerPage ==
  phase = "done" /\ outputPath =>
    /\ Len(output) = Cardinality(InputPages)
    /\ { output[k].page : k \in DOMAIN output } = InputPages

(***************************************************************************)
(* Key range (spec.md sections 3 and 7): once num_pages is computed, every *)
(* PageId of an edge lies in [0, num_pages).                               *)
(***************************************************************************)
KeyRange ==
  phase \in {"group", "rank", "write", "done", "key_range"} /\ mode = "edge" =>
    \A i \in DOMAIN edges : edges[i].src < numPages /\ edges[i].tgt < numPages

=============================================================================
