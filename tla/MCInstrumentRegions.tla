------------------------ MODULE MCInstrumentRegions ------------------------
(* Functions with two to six regions: those that LLVM finds, and some that *)
(* Polly has made of them.                                                 *)
EXTENDS InstrumentRegionsProperties

Region(e, x) == [entry |-> e, exit |-> x]

(* Two loops, each with a preheader.                                       *)
TwoLoops ==
  [preds |-> <<<<>>, <<1, 2>>, <<2>>, <<3>>, <<4, 5>>, <<5>>, <<6>>>>,
   regions |-> <<Region(2, 3), Region(5, 6)>>, expanded |-> {}]

(* A loop with a guard, as loop rotation leaves it.                        *)
GuardedLoop ==
  [preds |-> <<<<>>, <<1>>, <<2, 3>>, <<3>>, <<2, 4>>>>,
   regions |-> <<Region(2, 5), Region(3, 4)>>, expanded |-> {}]

(* The same, the loop being expanded by the block after it.                *)
ExpandedLoop ==
  [GuardedLoop EXCEPT !.regions = Append(@, Region(3, 5)), !.expanded = {Region(3, 5)}]

(* Twice two loops one after the other, the first expanded by the second:  *)
(* regions without a block of their own.                                   *)
FourLoops ==
  [preds |-> <<<<>>, <<1, 2>>, <<2, 3>>, <<3>>, <<4, 5>>, <<5, 6>>, <<6>>>>,
   regions |-> <<Region(2, 3), Region(2, 4), Region(3, 4), Region(5, 6), Region(5, 7), Region(6, 7)>>,
   expanded |-> {Region(2, 4), Region(5, 7)}]

(* A loop next to the guard of another one.                                *)
LoopAndGuard ==
  [preds |-> <<<<>>, <<1, 2>>, <<2>>, <<3, 4>>, <<4>>, <<3, 5>>>>,
   regions |-> <<Region(2, 3), Region(3, 6), Region(4, 5)>>, expanded |-> {}]

(* A loop in a loop, with and without blocks between their ends.           *)
NestedLoops ==
  [preds |-> <<<<>>, <<1, 6>>, <<2>>, <<3, 4>>, <<4>>, <<5>>, <<6>>>>,
   regions |-> <<Region(2, 7), Region(4, 5)>>, expanded |-> {}]
TightNest ==
  [preds |-> <<<<>>, <<1, 4>>, <<2, 3>>, <<3>>, <<4>>>>,
   regions |-> <<Region(2, 5), Region(3, 4)>>, expanded |-> {}]

(* A region that is entered on two edges and left on two: a branch into    *)
(* two loops behind a join.                                                *)
TwoWays ==
  [preds |-> <<<<>>, <<1>>, <<1>>, <<2, 3>>, <<4, 5>>, <<4, 6>>, <<5>>, <<6>>, <<7, 8>>>>,
   regions |-> <<Region(4, 9), Region(5, 7), Region(6, 8)>>, expanded |-> {}]

AllFunctions ==
  {TwoLoops, GuardedLoop, ExpandedLoop, FourLoops, LoopAndGuard, NestedLoops, TightNest, TwoWays}
Guarded == {GuardedLoop}
Plain == {TwoLoops}

Reason(kind, exprs) == [kind |-> kind, exprs |-> exprs]
Logs ==
  {<<>>, <<Reason("branch", <<TRUE, FALSE>>)>>, <<Reason("alias", <<>>), Reason("access", <<TRUE>>)>>}
=============================================================================
