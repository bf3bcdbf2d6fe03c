---------------------------- MODULE PageRankDriver ----------------------------
(***************************************************************************)
(* The four Run functions of page_rank_run.cpp as every worker executes    *)
(* them, over the lazy DIA graph of the execution driver.                  *)
(*                                                                         *)
(* Each Run function is a program: the sequence of DIA calls it makes,     *)
(* with the PageRank loop of page_rank.hpp unrolled for the given number   *)
(* of iterations.  A call that creates a DIA node, Keep(), KeepForever(),  *)
(* SizeFuture() and rank-0 logging are local steps of one worker.  Max(),  *)
(* Sum(), Execute(), WriteLines() and reading a future are collective: all *)
(* workers take them together, as one barrier.                             *)
(*                                                                         *)
(* Map, FlatMap and Collapse only stack functions onto the node they read  *)
(* (they forward data and hold none), so a DIA is named by the node below  *)
(* them.  Every other operation is a node, named <<label, iteration>>.     *)
(*                                                                         *)
(* The engine rules, from spec.md sections 3 and 5 (the engine is not part *)
(* of this repository): running an action executes the nodes it needs that *)
(* are still new; an executed node that one of them reads pushes its data  *)
(* once per action (to every reader at once), and so does every newly     *)
(* executed node except the action's own target.  With enable_consume(), a *)
(* push uses up one count: a node starts at 1, Keep() adds 1, KeepForever  *)
(* makes it permanent.  A node whose count reaches 0 is disposed, and a    *)
(* push from a disposed node is the fatal UseAfterConsume error.  A        *)
(* Generate whose generator holds a random engine produces a new draw of   *)
(* its records at every push.                                              *)
(***************************************************************************)
EXTENDS Naturals, Sequences, SequencesExt, FiniteSets, TLC

CONSTANTS
  Workers,    \* the workers; worker 0 is ctx.my_rank() == 0
  MaxIter,    \* largest `iterations` checked
  Drivers     \* which of the four Run functions main() may dispatch to

ASSUME 0 \in Workers /\ MaxIter \in Nat
ASSUME Drivers \subseteq {"edge", "gen", "join_edge", "join_gen"} /\ Drivers # {}

VARIABLES
  driver,      \* the Run function main() dispatched to
  iterations,  \* the --iterations flag
  outputPath,  \* output_path.size() != 0
  pc,          \* per worker: index of its next DIA call in the program
  dag,         \* per worker: the DIA nodes it created so far, by name
  status       \* "ok", or "consumed" after a UseAfterConsume abort

vars == <<driver, iterations, outputPath, pc, dag, status>>

-----------------------------------------------------------------------------
(* DIA calls.  args are node names; who is "rank0" for code under         *)
(* `if (ctx.my_rank() == 0)`.                                              *)
Call(op, name, kind, args, who) ==
  [op |-> op, name |-> name, kind |-> kind, args |-> args, who |-> who]
NewNode(name, kind, parents) == Call("node", name, kind, parents, "all")
Keep(n) == Call("keep", n, "", << >>, "all")
KeepForever(n) == Call("forever", n, "", << >>, "all")
Action(name, n) == Call("action", name, "action", <<n>>, "all")
Execute(n) == Call("execute", n, "", << >>, "all")
Log == Call("log", <<"log", 0>>, "", << >>, "rank0")

Collective == {"action", "execute", "get"}

(***************************************************************************)
(* PageRank(links, num_pages, iterations): Generate + Collapse of the      *)
(* initial ranks, then per iteration a Zip of links and ranks and the      *)
(* ReduceToIndex that the FlatMap feeds and the Map + Collapse forward.    *)
(***************************************************************************)
IndexRanks(k) == IF k = 0 THEN <<"ranks0", 0>> ELSE <<"reduce", k - 1>>

IndexShape(links, n) ==
  <<NewNode(<<"ranks0", 0>>, "gen", << >>)>> \o
  FlattenSeq([k \in 1 .. n |->
    << NewNode(<<"zip", k - 1>>, "dop", <<links, IndexRanks(k - 1)>>),
       NewNode(<<"reduce", k - 1>>, "dop", <<<<"zip", k - 1>>>>) >>])

(***************************************************************************)
(* PageRankJoinSelf(links, iterations): the initial ranks are a Map of     *)
(* links; per iteration InnerJoin, FlatMap + ReducePair + Map + Collapse,  *)
(* ranks.Execute() and the rank-0 "step" line.                             *)
(***************************************************************************)
SelfRanks(links, k) == IF k = 0 THEN links ELSE <<"reduce", k - 1>>

JoinSelfShape(links, n) ==
  FlattenSeq([k \in 1 .. n |->
    << NewNode(<<"join", k - 1>>, "dop", <<links, SelfRanks(links, k - 1)>>),
       NewNode(<<"reduce", k - 1>>, "dop", <<<<"join", k - 1>>>>),
       Execute(<<"reduce", k - 1>>),
       Log >>])

(***************************************************************************)
(* PageRankJoin(links, num_pages, iterations): Generate + Collapse of the  *)
(* initial ranks; per iteration InnerJoin, ReducePair, ranks.Execute().    *)
(***************************************************************************)
JoinShape(links, n) ==
  <<NewNode(<<"ranks0", 0>>, "gen", << >>)>> \o
  FlattenSeq([k \in 1 .. n |->
    << NewNode(<<"join", k - 1>>, "dop", <<links, IndexRanks(k - 1)>>),
       NewNode(<<"reduce", k - 1>>, "dop", <<<<"join", k - 1>>>>),
       Execute(<<"reduce", k - 1>>) >>])

(* The ranks DIA the shapes return. *)
FinalRanks(d, n) ==
  IF d = "join_edge" THEN SelfRanks(<<"links", 0>>, n) ELSE IndexRanks(n)

(* RunPageRankEdgePerLine: ReadLines(...).Map(PageRankLineParser()). *)
EdgeInput == <<NewNode(<<"input", 0>>, "read", << >>)>>

(* input.Keep().Map(max).Max() + 1. *)
EdgeNumPages == <<Keep(<<"input", 0>>), Action(<<"max", 0>>, <<"input", 0>>)>>

(* input.Keep().SizeFuture(). *)
EdgeSizeFuture ==
  <<Keep(<<"input", 0>>), Call("future", <<"size", 0>>, "action", <<<<"input", 0>>>>, "all")>>

(* input.GroupToIndex(...).Cache(). *)
EdgeLinks ==
  << NewNode(<<"group", 0>>, "dop", <<<<"input", 0>>>>),
     NewNode(<<"links", 0>>, "cache", <<<<"group", 0>>>>) >>

(* Mutation of FutureRead: the future read moved into the rank-0 block. *)
FutureReadRank0(f) == Call("get", f, "", << >>, "rank0")

(* "SizeFuture must be read by all workers": number_edges_future(). *)
FutureRead(f) == Call("get", f, "", << >>, "all")

(* ZipWithIndex(...).WriteLines(output_path), or ranks.Execute(). *)
IndexOutput(r, path) ==
  IF path THEN << NewNode(<<"zipidx", 0>>, "dop", <<r>>),
                  Action(<<"write", 0>>, <<"zipidx", 0>>) >>
  ELSE <<Execute(r)>>

(* ranks.Map(...).WriteLines(output_path), or ranks.Execute(). *)
JoinOutput(r, path) ==
  IF path THEN <<Action(<<"write", 0>>, r)>> ELSE <<Execute(r)>>

(* Mutation of GenLinks: the Generate not cached. *)
GenLinksUncached == <<NewNode(<<"links", 0>>, "rgen", << >>)>>

(* RunPageRankGenerated: Generate(ZipfGraphGen with a random engine).Cache(). *)
GenLinks ==
  << NewNode(<<"draw", 0>>, "rgen", << >>),
     NewNode(<<"links", 0>>, "cache", <<<<"draw", 0>>>>) >>

(* links.Keep().Map(size).Sum(). *)
GenEdgeCount == <<Keep(<<"links", 0>>), Action(<<"sum", 0>>, <<"links", 0>>)>>

(* RunJoinPageRankEdgePerLine: ReadLines + parser, GroupByKey, Cache,     *)
(* KeepForever.                                                            *)
GroupedJoinLinks ==
  << NewNode(<<"input", 0>>, "read", << >>),
     NewNode(<<"group", 0>>, "dop", <<<<"input", 0>>>>),
     NewNode(<<"links", 0>>, "cache", <<<<"group", 0>>>>),
     KeepForever(<<"links", 0>>) >>

(* Mutation of GeneratedJoinLinks: KeepForever() left out. *)
GeneratedJoinLinksNotKept ==
  << NewNode(<<"draw", 0>>, "rgen", << >>),
     NewNode(<<"links", 0>>, "cache", <<<<"draw", 0>>>>) >>

(* RunPageRankJoinGenerated: Generate of (index, links), Cache,           *)
(* KeepForever.                                                            *)
GeneratedJoinLinks ==
  << NewNode(<<"draw", 0>>, "rgen", << >>),
     NewNode(<<"links", 0>>, "cache", <<<<"draw", 0>>>>),
     KeepForever(<<"links", 0>>) >>

(* The DIA calls of the Run function d for n iterations. *)
Program(d, n, path) ==
  LET L == <<"links", 0>> IN
  CASE d = "edge" ->
         EdgeInput \o EdgeNumPages \o EdgeSizeFuture \o EdgeLinks \o
         IndexShape(L, n) \o IndexOutput(IndexRanks(n), path) \o
         <<FutureRead(<<"size", 0>>), Log>>
    [] d = "gen" ->
         GenLinks \o GenEdgeCount \o IndexShape(L, n) \o
         IndexOutput(IndexRanks(n), path) \o <<Log>>
    [] d = "join_edge" ->
         GroupedJoinLinks \o JoinSelfShape(L, n) \o
         JoinOutput(FinalRanks(d, n), path) \o <<Log>>
    [] d = "join_gen" ->
         GeneratedJoinLinks \o JoinShape(L, n) \o
         JoinOutput(FinalRanks(d, n), path) \o <<Log>>

(* Every program main() can run, computed once. *)
Programs == [d \in Drivers, n \in 0 .. MaxIter, path \in BOOLEAN |-> Program(d, n, path)]

Prog == Programs[driver, iterations, outputPath]

-----------------------------------------------------------------------------
(* A node as DIANode creates it: consume count 1, state "new". *)
Created(c) == [kind |-> c.kind, parents |-> c.args, count |-> 1,
               forever |-> FALSE, state |-> "new", pushes |-> 0]

(* The new nodes an action on t executes: t and the new nodes it reads,   *)
(* transitively (StageBuilder's search stops at executed nodes).           *)
RECURSIVE Needed(_, _)
Needed(d, S) ==
  LET more == { p \in UNION { Range(d[n].parents) : n \in S } :
                  d[p].state = "new" }
  IN  IF more \subseteq S THEN S ELSE Needed(d, S \cup more)

Stages(d, t) == IF d[t].state = "new" THEN Needed(d, {t}) ELSE {}

(* The already executed nodes those stages read. *)
Frontier(d, t) ==
  { p \in UNION { Range(d[n].parents) : n \in Stages(d, t) } :
      d[p].state # "new" }

(* The nodes that push their data during the action on t. *)
Pushers(d, t) == Frontier(d, t) \cup (Stages(d, t) \ {t})

(* One push: uses up one count unless kept forever. *)
Pushed(nd) ==
  LET left == IF nd.forever THEN nd.count ELSE nd.count - 1 IN
  [nd EXCEPT !.count = left, !.pushes = @ + 1,
             !.state = IF left = 0 THEN "disposed" ELSE "executed"]

(* A push from a disposed node: "already consumed. Add .Keep()". *)
UseAfterConsume(d, t) == \E p \in Frontier(d, t) : d[p].state = "disposed"

(* RunScope of t: every stage executed, every pusher pushed once. *)
RunScope(d, t) ==
  [n \in DOMAIN d |->
     IF n \in Pushers(d, t) THEN Pushed(d[n])
     ELSE IF n = t /\ d[n].state = "new" THEN [d[n] EXCEPT !.state = "executed"]
     ELSE d[n]]

(* Mutation of LocalEffect: Keep() decrements the consume count. *)
LocalEffectKeepDecrements(d, c) ==
  CASE c.op \in {"node", "future"} -> d @@ (c.name :> Created(c))
    [] c.op = "keep"    -> [d EXCEPT ![c.name].count = @ - 1]
    [] c.op = "forever" -> [d EXCEPT ![c.name].forever = TRUE]
    [] OTHER            -> d

(* The node map after worker-local call c. *)
LocalEffect(d, c) ==
  CASE c.op \in {"node", "future"} -> d @@ (c.name :> Created(c))
    [] c.op = "keep"    -> [d EXCEPT ![c.name].count = @ + 1]
    [] c.op = "forever" -> [d EXCEPT ![c.name].forever = TRUE]
    [] OTHER            -> d

(* The node map holding the target of collective call c: Max(), Sum()    *)
(* and WriteLines() create their action node as they run.                  *)
WithTarget(d, c) ==
  IF c.op = "action" THEN d @@ (c.name :> Created(c)) ELSE d

Done(w) == pc[w] > Len(Prog)

-----------------------------------------------------------------------------
(* Worker w makes its next local call, or skips a call of the rank-0      *)
(* block when it is not worker 0.                                          *)
LocalStep(w) ==
  /\ status = "ok"
  /\ ~Done(w)
  /\ LET c == Prog[pc[w]] IN
       \/ /\ c.who = "rank0" /\ w # 0
          /\ UNCHANGED dag
       \/ /\ c.who = "all" \/ w = 0
          /\ c.op \notin Collective
          /\ dag' = [dag EXCEPT ![w] = LocalEffect(@, c)]
  /\ pc' = [pc EXCEPT ![w] = @ + 1]
  /\ UNCHANGED <<driver, iterations, outputPath, status>>

(* A collective call completes once every worker has reached it: each     *)
(* worker runs the action on its partition, or all abort on a push from a *)
(* consumed DIA.                                                           *)
CollectiveStep ==
  /\ status = "ok"
  /\ \E k \in 1 .. Len(Prog) :
       /\ \A w \in Workers : pc[w] = k
       /\ Prog[k].op \in Collective
       /\ LET c == Prog[k]
              d(w) == WithTarget(dag[w], c)
          IN  IF \E w \in Workers : UseAfterConsume(d(w), c.name)
              THEN /\ status' = "consumed"
                   /\ UNCHANGED <<pc, dag>>
              ELSE /\ dag' = [w \in Workers |-> RunScope(d(w), c.name)]
                   /\ pc' = [w \in Workers |-> k + 1]
                   /\ UNCHANGED status
  /\ UNCHANGED <<driver, iterations, outputPath>>

(* The program has returned on every worker, or the process aborted. *)
Finished ==
  /\ (\A w \in Workers : Done(w)) \/ status # "ok"
  /\ UNCHANGED vars

(* main(): the flags pick the Run function, the iterations and the output. *)
Init ==
  /\ driver \in Drivers
  /\ iterations \in 0 .. MaxIter
  /\ outputPath \in BOOLEAN
  /\ pc = [w \in Workers |-> 1]
  /\ dag = [w \in Workers |-> << >>]
  /\ status = "ok"

Next == (\E w \in Workers : LocalStep(w)) \/ CollectiveStep \/ Finished

(* Workers are threads or processes that keep running, and a barrier      *)
(* every worker has reached completes.                                     *)
Spec == Init /\ [][Next]_vars
          /\ \A w \in Workers : WF_vars(LocalStep(w))
          /\ WF_vars(CollectiveStep)

-----------------------------------------------------------------------------
TypeOK ==
  /\ pc \in [Workers -> 1 .. Len(Prog) + 1]
  /\ status \in {"ok", "consumed"}
  /\ \A w \in Workers : \A n \in DOMAIN dag[w] :
       /\ dag[w][n].state \in {"new", "executed", "disposed"}
       /\ dag[w][n].count \in Nat

(***************************************************************************)
(* No DIA is read after it is consumed: for every Run function, iteration  *)
(* count and output choice, no action needs a push from a node whose       *)
(* consume count was used up (the Keep()s at lines 68 and 72, the Cache()  *)
(* at 88 and 212 and the KeepForever() at 155 and 267 are enough).          *)
(***************************************************************************)
NoUseAfterConsume == status = "ok"

(***************************************************************************)
(* The randomly generated graph is drawn once: the edge count Sum() and    *)
(* every PageRank iteration read the same links, because the Generate      *)
(* pushes into the Cache only once.                                        *)
(***************************************************************************)
LinksDrawnOnce ==
  \A w \in Workers : \A n \in DOMAIN dag[w] :
    dag[w][n].kind = "rgen" => dag[w][n].pushes <= 1

(***************************************************************************)
(* Every worker returns from the Run function: no worker waits at a        *)
(* collective (the SizeFuture read of line 111 included) that another      *)
(* worker skips.                                                           *)
(***************************************************************************)
AllWorkersFinish == <>(\A w \in Workers : Done(w))

====
