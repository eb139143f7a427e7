----------------------------- MODULE MCTracing -----------------------------
(***************************************************************************)
(* Instances of Tracing for TLC. One variant is sequential and returns     *)
(* from two blocks, the other one has two parallel loops and works between *)
(* them. Their ids agree in the bits that are kept.                        *)
(***************************************************************************)
EXTENDS TracingProperties

Loop == <<Block(<<>>, {2}), Block(<<Plain("next", None)>>, {3, 4}),
          Block(<<Plain("work", None)>>, {2}), Block(<<>>, {})>>
Chunk == <<Block(<<Plain("next", None)>>, {2, 3}), Block(<<Plain("work", None)>>, {}),
           Block(<<>>, {})>>
ParallelLoop(f) == <<Plain("fork", f), Plain("call", f), Plain("join", "workers")>>
ModelModules ==
  [sequential |->
     [F |-> <<Block(<<Plain("work", None)>>, {2, 3}), Block(<<Plain("work", None)>>, {}),
              Block(<<>>, {})>>],
   parallel |->
     [F |-> <<Block(ParallelLoop("S1") \o <<Plain("work", None)>>, {2, 3}),
              Block(ParallelLoop("S2"), {}), Block(<<>>, {})>>,
      S1 |-> Loop, S2 |-> Chunk]]
ModelAddress == [sequential |-> [F |-> 17], parallel |-> [F |-> 18, S1 |-> 19, S2 |-> 20]]
ModelWorkers == [a \in Apps |-> IF a = "main" THEN {"worker"} ELSE {}]
ModelProgram ==
  [a \in Apps |-> IF a = "main" THEN << {"sequential"}, {"parallel"} >>
                  ELSE << {"sequential"} >>]
=============================================================================
