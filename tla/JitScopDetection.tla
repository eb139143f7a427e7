-------------------------- MODULE JitScopDetection --------------------------
(***************************************************************************)
(* Which regions of a function are left to the run time:                   *)
(* lib/Analysis/JitScopDetection.cpp and ScopDetectionCheckers.cpp. A      *)
(* function f has blocks 1, 2, ... and begins with block 1; f.preds[b] are *)
(* the predecessors of b in the order of b's use list, f.regions the       *)
(* regions of its region tree, in the order of their names, f.expanded     *)
(* those that RegionInfo has not found but Polly's ScopDetection added.    *)
(***************************************************************************)
EXTENDS Naturals, FiniteSets, SequencesExt, TLC

Blocks(f) == DOMAIN f.preds
Regions(f) == ToSet(f.regions)

(* The blocks on paths from a that avoid the blocks bs.                    *)
ReachedFrom(f, a, bs) ==
  LET reached[n \in 0..Len(f.preds)] ==
        IF n = 0 THEN {a} \ bs
        ELSE LET before == reached[n - 1]
             IN  before \cup {b \in Blocks(f) \ bs : ToSet(f.preds[b]) \cap before # {}}
  IN  reached[Len(f.preds)]

Dominates(f, a, b) == b \notin ReachedFrom(f, 1, {a})
InLoop(f, b) == \E p \in ToSet(f.preds[b]) : p \in ReachedFrom(f, b, {})

(* Region::contains, for the dominator tree of the function as it was when *)
(* the analyses ran.                                                       *)
RegionContains(f, r, b) ==
  /\ Dominates(f, r.entry, b)
  /\ ~(Dominates(f, r.exit, b) /\ Dominates(f, r.entry, r.exit))
Analysed(f) ==
  [preds |-> f.preds, regions |-> f.regions, expanded |-> f.expanded,
   blocks |-> [r \in Regions(f) |-> {b \in Blocks(f) : RegionContains(f, r, b)}]]

-----------------------------------------------------------------------------
(* The checkers. Of a reason for a rejection, exprs says of each of its    *)
(* expressions whether it is one that parameters make affine.              *)
IsValid(reason) ==
  \/ reason.kind = "alias"
  \/ reason.kind \in {"access", "branch", "bound"} /\ FALSE \notin ToSet(reason.exprs)

(* A region is accepted when it has a loop and each reason for its         *)
(* rejection can be dealt with at run time.                                *)
Jitable(f, r, log) ==
  /\ \E b \in f.blocks[r] : InLoop(f, b)
  /\ log # <<>>
  /\ \A i \in DOMAIN log : IsValid(log[i])

-----------------------------------------------------------------------------
(* The filter. The elements of a region are its subregions and the blocks  *)
(* that are in none of them.                                               *)
Elements(f, r) ==
  LET nested == {q \in Regions(f) \ {r} : f.blocks[q] \subseteq f.blocks[r]}
  IN  f.blocks[r] \ UNION {f.blocks[q] : q \in nested}

SharesBlocks(f, cur, r) == \E b \in Elements(f, cur) : b \in f.blocks[cur]
More(f, lhs, rhs) ==                     \* mutant: the comparison is the other way around
  Cardinality(Elements(f, rhs)) < Cardinality(Elements(f, lhs))
Fewer(f, lhs, rhs) == Cardinality(Elements(f, lhs)) < Cardinality(Elements(f, rhs))

(* The inner loop: lhs rejects the regions it meets until it meets a       *)
(* larger one, which rejects it.                                           *)
Against(f, lhs, sorted, rejected) ==
  LET met == {i \in DOMAIN sorted : sorted[i] \notin rejected \cup {lhs} /\ SharesBlocks(f, lhs, sorted[i])}
      larger == {i \in met : Fewer(f, lhs, sorted[i])}
      before == {i \in met : \A j \in larger : i < j}
  IN  rejected \cup {sorted[i] : i \in before} \cup (IF larger = {} THEN {} ELSE {lhs})

Position(f, r) == SelectInSeq(f.regions, LAMBDA q : q = r)
Unsorted(f, scops) == scops              \* mutant: the order of the addresses is kept
Sorted(f, scops) ==
  LET n == DOMAIN scops
      order == CHOOSE p \in Bijection(n, n) :
                 \A i, j \in n : i < j => Position(f, scops[p[i]]) <= Position(f, scops[p[j]])
  IN  [i \in n |-> scops[order[i]]]
Rejected(f, scops) ==
  LET sorted == Sorted(f, scops)
  IN  FoldLeft(LAMBDA rejected, lhs :
                 IF lhs \in rejected THEN rejected ELSE Against(f, lhs, sorted, rejected),
               {}, sorted)
=============================================================================
