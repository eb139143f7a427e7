------------------------ MODULE MCModuleExtraction ------------------------
(***************************************************************************)
(* Instances of ModuleExtraction for TLC: two units, two arguments, two    *)
(* global variables, one of which is named like an argument may be, and    *)
(* one like a name that LLVM makes.                                        *)
(***************************************************************************)
EXTENDS ModuleExtractionProperties, TLC

ModelSuffixed == [n \in {"g", "g1", "n", "g2"} |-> IF n = "g" THEN {"g1", "g2"} ELSE {"g2"}]

I(op, path, root) == [op |-> op, path |-> path, root |-> root]
S(base, args, types, names, b) ==
  [base |-> base, args |-> args, body |-> b,
   type |-> [a \in {"a", "b"} |-> IF a = "a" THEN types[1] ELSE types[2]],
   name |-> [a \in {"a", "b"} |-> IF a = "a" THEN names[1] ELSE names[2]]]

(* Uses of an argument and of globals, plain and in constant expressions.  *)
Access(g) == {I("access", p, g) : p \in {<<>>, <<"gep">>, <<"cast">>, <<"gep", "cast">>}}
Other == {I("other", p, "g") : p \in {<<>>, <<"gep">>, <<"cast">>, <<"gep", "cast">>}}
First == {I("access", <<>>, "a")} \cup Access("g") \cup Access("g1") \cup Other
Second == {I("access", <<>>, "a"), I("other", <<>>, "g")}
            \cup {I("access", p, "g") : p \in {<<>>, <<"gep">>}}
Bodies == {<<i>> : i \in First} \cup (First \X Second)

(* A unit with many regions of up to two instructions, and one with few.   *)
Rich ==
  {S("f", <<"a", "b">>, a[1], a[2], b) : b \in Bodies,
     a \in {<< <<"pointer", "integer">>, <<Unnamed, Unnamed>> >>,
            << <<"pointer", "integer">>, <<"g", "n">> >>,
            << <<"float", "pointer">>, <<"n", Unnamed>> >>}}
Few ==
  {S(f, <<"a">>, <<"pointer", "integer">>, <<"n", Unnamed>>,
     <<I("access", <<"gep">>, "g")>>) : f \in {"f", "h"}}

(* The second unit's suffixes begin where the first one's do, or later, so *)
(* that what it calls its fallback is what the first one calls its stub.   *)
ModelCounters == [u \in Units |-> IF u = "m1" THEN {0} ELSE {0, 1}]

ModelSources == [u \in Units |-> IF u = "m1" THEN Rich ELSE Few]
=============================================================================
