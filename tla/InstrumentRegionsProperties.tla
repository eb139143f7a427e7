-------------------- MODULE InstrumentRegionsProperties --------------------
(***************************************************************************)
(* What detection, filter and instrumentation promise.                     *)
(***************************************************************************)
EXTENDS InstrumentRegions

Candidates == ToSet(JitableScops) \cup ToSet(valid)
Targets == ToSet(valid) \cup jit

(* The types of the variables. The use lists describe a graph whose every  *)
(* block can be reached from the first, and no code has been lost.         *)
TypeOK ==
  /\ enabled \in BOOLEAN
  /\ pc \in {"detect", "instrument", "run"}
  /\ valid \in Seq(Regions(fn)) /\ Rejects \subseteq Regions(fn)
  /\ jit \subseteq Regions(fn) /\ all \subseteq Regions(fn) /\ todo \in Seq(Regions(fn))
  /\ graph.preds \in Seq(Seq(DOMAIN graph.preds))
  /\ graph.calls \in [DOMAIN graph.preds -> Seq([region : Targets, event : {"enter", "exit"}])]
  /\ graph.home \in [Blocks(fn) -> DOMAIN graph.preds] /\ IsInjective(graph.home)
  /\ ReachedFrom(graph, 1, {}) = DOMAIN graph.preds
  /\ at \in DOMAIN graph.preds /\ open \in Seq(Targets)

-----------------------------------------------------------------------------
(* The filter of JitScopDetection.                                         *)
Filtered == enabled /\ pc = "instrument" /\ todo # <<>>

(* What is left does not depend on the addresses of the regions, which     *)
(* order the reject log, nor on the order of Polly's regions.              *)
Predictable ==
  Filtered => \A s \in SetToSeqs(Candidates) : all = Candidates \ Rejected(fn, s)

(* Of two regions one gives way to the other, unless neither has a block   *)
(* of its own, that is in no region within it; and each candidate that is  *)
(* not left has given way to one with at least as many.                    *)
OwnBlocks(r) == Cardinality(Elements(fn, r))
LargestKept ==
  Filtered =>
    /\ \A r, q \in all : r # q => OwnBlocks(r) = 0 /\ OwnBlocks(q) = 0
    /\ \A r \in Candidates : \E q \in all : OwnBlocks(q) >= OwnBlocks(r)

(* "LHS & RHS don't share any blocks, reject.": only regions that share    *)
(* blocks with another one are rejected.                                   *)
RejectedShareBlocks ==
  Filtered => \A r \in Candidates \ all :
    \E q \in Candidates \ {r} : ~Disjoint(fn, r, q)

-----------------------------------------------------------------------------
(* The instrumentation.                                                    *)

(* The function runs code of one of its own blocks.                        *)
InCode == pc = "run" /\ at \in ToSet(graph.home)
Block == CHOOSE b \in Blocks(fn) : graph.home[b] = at

(* The pass finds the edges of a region when no edge it splits before      *)
(* another is critical, when the top of the entry is not split off a block *)
(* that leaves the region, and when no other region has an end next to it. *)
Entering(r) == SelectSeq(fn.preds[r.entry], LAMBDA p : p \notin fn.blocks[r])
Leaving(r) == SelectSeq(fn.preds[r.exit], LAMBDA p : p \in fn.blocks[r])
AtMostLast(ps, b) == \A i \in 1..(Len(ps) - 1) : ~Critical(fn, ps[i], b)
Ends(r) == {r.entry, r.exit}
NextTo(r) == Ends(r) \cup UNION {ToSet(fn.preds[b]) : b \in Ends(r)}
Apart(r, q) == Ends(r) \cap NextTo(q) = {} /\ Ends(q) \cap NextTo(r) = {}
Manageable(r) ==
  /\ AtMostLast(Entering(r), r.entry) /\ AtMostLast(Leaving(r), r.exit)
  /\ Len(fn.preds[r.entry]) = 1 => r.entry \notin ToSet(Leaving(r))
  /\ \A q \in Targets \ {r} : Apart(r, q)

(* On every walk, the manageable scops that are open are those that        *)
(* contain the block that runs, each once, the outer before the inner.     *)
StackMatchesNesting ==
  InCode =>
    LET within == {r \in Targets : Manageable(r) /\ Block \in fn.blocks[r]}
    IN  SelectSeq(open, Manageable)
          = SetToSortSeq(within, LAMBDA r, q : fn.blocks[q] \subseteq fn.blocks[r] /\ q # r)

(* "We inject calls to our libpprof at all entries & exits of Scop/JitScop *)
(* in this function."                                                      *)
AllEntriesAndExits ==
  InCode => ToSet(open) = {r \in Targets : Block \in fn.blocks[r]}
=============================================================================
