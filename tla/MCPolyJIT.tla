----------------------------- MODULE MCPolyJIT -----------------------------
(***************************************************************************)
(* Instances of PolyJIT for TLC: two prototypes, two values.               *)
(***************************************************************************)
EXTENDS PolyJITProperties, TLC

CONSTANTS p1, p2, v1, v2

(* The program calls one function with two values and another with one.    *)
ModelWorkload == {<<p1, v1>>, <<p1, v2>>, <<p2, v1>>}
OneValueWorkload == {<<p1, v1>>, <<p2, v1>>}

(* Hashes that tell values apart, names that tell prototypes apart.        *)
ModelHash == (v1 :> 1) @@ (v2 :> 2)
ConstantHash == v1 :> 1
DistinctNames == (p1 :> 1) @@ (p2 :> 2)

(* Threads are interchangeable.                                            *)
CallerSymmetry == Permutations(Callers)
=============================================================================
