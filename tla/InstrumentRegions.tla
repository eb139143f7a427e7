------------------------- MODULE InstrumentRegions -------------------------
(***************************************************************************)
(* The passes of an instrumenting compilation on one function:             *)
(* JitScopDetection, then PapiCScopProfiling (lib/Transform/               *)
(* InstrumentRegions.cpp), which puts calls of libpprof on the edges into  *)
(* and out of regions. Afterwards the function runs.                       *)
(***************************************************************************)
EXTENDS JitScopDetection

CONSTANTS
  Functions, \* functions a compiler may meet, each with preds, regions and expanded
  Reasons,   \* what Polly's reject log may hold of a region, sequences of reasons
  MaxOpen    \* bound: how many scops a walk may have open

(* A function has a first block, its predecessors and regions are among    *)
(* its blocks, the expanded regions among its regions.                     *)
ASSUME FunctionsAssumption ==
  \A f \in Functions :
    /\ f.preds \in Seq(Seq(Blocks(f))) /\ 1 \in Blocks(f)
    /\ f.regions \in Seq([entry : Blocks(f), exit : Blocks(f)])
    /\ f.expanded \subseteq Regions(f)

(* Blocks that are not reached have been removed before Polly runs.        *)
ASSUME ReachableBlocks == \A f \in Functions : ReachedFrom(f, 1, {}) = Blocks(f)

VARIABLES
  enabled,  \* whether JitScopDetection is enabled
  pc,       \* the pass that is next
  fn,       \* the function, as it was before the pass
  valid,    \* ScopDetection's valid regions
  rejected, \* its reject log: pairs of region and log, in the order of the regions' addresses
  jit, all, \* JitableScops and AccumulatedScops
  todo,     \* the regions that are still to be processed
  graph,    \* preds, calls and home: the blocks and use lists as they are, the
            \*   calls each begins with, where the code of each block of fn is
  at, open  \* the block that runs, the scops that have been entered
vars == <<enabled, pc, fn, valid, rejected, jit, all, todo, graph, at, open>>

Rejects == {rejected[i].region : i \in DOMAIN rejected}

-----------------------------------------------------------------------------
(* Polly visits the regions that RegionInfo has found from the outermost   *)
(* inwards and does not look into those that are valid: these are          *)
(* disjoint. Some of them it expands by what comes after them, the next    *)
(* region or a block, and keeps the expanded region in the place of all    *)
(* valid ones within it.                                                   *)
Disjoint(f, r, q) == f.blocks[r] \cap f.blocks[q] = {}
Canonical(f) == Regions(f) \ f.expanded
MayBeValid(f) ==
  {S \in SUBSET Canonical(f) :
     /\ \A r, q \in S : r # q => Disjoint(f, r, q)
     /\ \A e \in f.expanded : \E r \in S : r.entry = e.entry /\ f.blocks[r] \subseteq f.blocks[e]}
Expanded(f, S) ==
  {r \in S \cup f.expanded : \A e \in f.expanded \ {r} : ~(f.blocks[r] \subseteq f.blocks[e])}
Visited(f, S) ==
  Canonical(f) \ UNION {{q \in Regions(f) : f.blocks[q] \subseteq f.blocks[r]} : r \in S}

(* The order of a use list depends on how the function came about.         *)
UseOrders(f) ==
  FoldLeft(LAMBDA orders, ps : {Append(o, s) : o \in orders, s \in SetToSeqs(ToSet(ps))},
           {<<>>}, f.preds)

Init ==
  /\ enabled \in BOOLEAN
  /\ pc = "detect"
  /\ \E f \in {Analysed(f) : f \in Functions} : \E p \in UseOrders(f) : fn = [f EXCEPT !.preds = p]
  /\ \E S \in MayBeValid(fn) :
       /\ valid \in SetToSeqs(Expanded(fn, S))
       /\ \E order \in SetToSeqs(Visited(fn, S)) :
            rejected \in {[i \in DOMAIN order |-> [region |-> order[i], log |-> l[i]]] :
                            l \in [DOMAIN order -> Reasons]}
  /\ jit = {} /\ all = {} /\ todo = <<>>
  /\ graph = [preds |-> fn.preds, calls |-> [b \in Blocks(fn) |-> <<>>],
              home |-> [b \in Blocks(fn) |-> b]]
  /\ at = 1 /\ open = <<>>

-----------------------------------------------------------------------------
(* JitScopDetection::runOnFunction                                         *)

(* The elements of a sequence that are in S.                               *)
Among(s, S) == FoldLeft(LAMBDA found, e : IF e \in S THEN Append(found, e) ELSE found, <<>>, s)

RejectedRegions == [i \in DOMAIN rejected |-> rejected[i].region]
JitableScops ==
  Among(RejectedRegions,
        {e.region : e \in {l \in ToSet(rejected) : Jitable(fn, l.region, l.log)}})

KeepAll(losers) == JitableScops          \* mutant: regions that were rejected are still there
JitScops(losers) == Among(JitableScops, Regions(fn) \ losers)

Skip ==
  /\ pc = "detect" /\ ~enabled
  /\ todo' = valid
  /\ pc' = "instrument"
  /\ UNCHANGED <<enabled, fn, valid, rejected, jit, all, graph, at, open>>

Detect ==
  /\ pc = "detect" /\ enabled
  /\ LET losers == Rejected(fn, JitableScops \o valid)
     IN  /\ jit' = ToSet(JitableScops) \ losers
         /\ all' = (ToSet(JitableScops) \cup ToSet(valid)) \ losers
         (* Instrumented are all that Polly found, then what is left of    *)
         (* the others.                                                    *)
         /\ todo' = valid \o JitScops(losers)
  /\ pc' = "instrument"
  /\ UNCHANGED <<enabled, fn, valid, rejected, graph, at, open>>

-----------------------------------------------------------------------------
(* LLVM's SplitEdge. The new block is the last one of the graph.           *)
Succs(g, b) == {c \in DOMAIN g.preds : b \in ToSet(g.preds[c])}
Critical(g, p, b) == Cardinality(Succs(g, p)) > 1 /\ Len(g.preds[b]) > 1
NewBlock(g) == Len(g.preds) + 1

(* The terminator of b, and with it the edges out of b, go to the new      *)
(* block.                                                                  *)
SplitBlock(g, b) ==
  Append([c \in DOMAIN g.preds |-> ReplaceAll(g.preds[c], b, NewBlock(g))], <<b>>)

(* A critical edge gets a block of its own, whose branch is first in the   *)
(* use list,                                                               *)
SplitCritical(g, p, b) ==
  [g EXCEPT !.preds = Append([@ EXCEPT ![b] = <<NewBlock(g)>> \o Among(g.preds[b], DOMAIN g.preds \ {p})], <<p>>),
            !.calls = Append(@, <<>>)]

(* a block with one predecessor is split above its code,                   *)
SplitTop(g, b) ==
  [preds |-> SplitBlock(g, b),
   calls |-> Append([g.calls EXCEPT ![b] = <<>>], g.calls[b]),
   home |-> [c \in DOMAIN g.home |-> IF g.home[c] = b THEN NewBlock(g) ELSE g.home[c]]]

(* any other predecessor below its code.                                   *)
SplitBottom(g, p) == [g EXCEPT !.preds = SplitBlock(g, p), !.calls = Append(@, <<>>)]

SplitEdge(g, p, b) ==
  IF Critical(g, p, b) THEN SplitCritical(g, p, b)
  ELSE IF Len(g.preds[b]) = 1 THEN SplitTop(g, b) ELSE SplitBottom(g, p)

-----------------------------------------------------------------------------
(* processRegion walks the use list of the block. Splitting a critical     *)
(* edge takes the use it stands at to the list of the new block, where     *)
(* there is no other.                                                      *)
SplitEdges(g, b, ps) ==
  LET first == SelectInSeq(ps, LAMBDA p : Critical(g, p, b))
      walked == IF first = 0 THEN ps ELSE SubSeq(ps, 1, first)
  IN  FoldLeft(LAMBDA h, p : SplitEdge(h, p, b), g, walked)

EveryPred(r, bs) == bs                   \* mutant: predecessors in the region are not told apart
Outside(r, bs) == bs \ fn.blocks[r]

Call(r, event) == [region |-> r, event |-> event]
Instrumented(r) ==
  LET g == graph
      e == SplitEdges(g, r.entry, Among(g.preds[r.entry], Outside(r, DOMAIN g.preds)))
      x == SplitEdges(e, r.exit, Among(e.preds[r.exit], fn.blocks[r]))
      isEntry(b) == b > Len(g.preds) /\ b <= Len(e.preds)
      isExit(b) == b > Len(e.preds)
  IN  [x EXCEPT !.calls = [b \in DOMAIN @ |->
         CASE isEntry(b) -> @[b] \o <<Call(r, "enter")>>
           [] isExit(b) -> <<Call(r, "exit")>> \o @[b]
           [] OTHER -> @[b]]]

ProcessRegion ==
  /\ pc = "instrument" /\ todo # <<>>
  /\ graph' = Instrumented(Head(todo))
  /\ todo' = Tail(todo)
  /\ UNCHANGED <<enabled, pc, fn, valid, rejected, jit, all, at, open>>

-----------------------------------------------------------------------------
(* The function runs. Control goes from block to block; of the calls, a    *)
(* walk keeps which scops are open.                                        *)
RemoveLast(s, r) ==
  LET i == SelectLastInSeq(s, LAMBDA e : e = r) IN IF i = 0 THEN s ELSE RemoveAt(s, i)
Execute(calls, s) ==
  FoldLeft(LAMBDA o, c : IF c.event = "enter" THEN Append(o, c.region) ELSE RemoveLast(o, c.region),
           s, calls)

Run ==
  /\ pc = "instrument" /\ todo = <<>>
  /\ pc' = "run"
  /\ open' = Execute(graph.calls[at], open)
  /\ UNCHANGED <<enabled, fn, valid, rejected, jit, all, todo, graph, at>>

Branch ==
  /\ pc = "run"
  /\ \E b \in Succs(graph, at) :
       /\ at' = b
       /\ open' = Execute(graph.calls[b], open)
  /\ Len(open') <= MaxOpen
  /\ UNCHANGED <<enabled, pc, fn, valid, rejected, jit, all, todo, graph>>

Next == Skip \/ Detect \/ ProcessRegion \/ Run \/ Branch
Spec == Init /\ [][Next]_vars
=============================================================================
