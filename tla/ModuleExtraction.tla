-------------------------- MODULE ModuleExtraction --------------------------
(***************************************************************************)
(* The compile-time side of PolyJIT, lib/Extract/ModuleExtraction.cpp, and *)
(* what the emitted code does. In every translation unit the pass moves a  *)
(* region into a function F of its own, stores F as a prototype, keeps a   *)
(* copy of F as fallback and replaces F by a stub that fills the params    *)
(* array and calls pjit_main. The units are linked, and the program calls  *)
(* what used to be its regions.                                            *)
(*                                                                         *)
(* An instruction is kept for the pointer it uses. "access" stands for a   *)
(* load, store or getelementptr, the only ones getPointerOperand knows;    *)
(* "other" for a cast, a call or a phi. Its pointer is an argument, a      *)
(* global variable, possibly inside constant expressions (path, outermost  *)
(* first), or the result of the instruction before it (Local).             *)
(***************************************************************************)
EXTENDS Naturals, Sequences, FiniteSets, SequencesExt

CONSTANTS
  Units,     \* translation units
  Args,      \* what the arguments of the extracted functions stand for
  Globals,   \* global variables, each with its name
  Names,     \* names of arguments and globals
  Suffixed,  \* the names LLVM makes of a name that is taken
  Sources,   \* the regions each unit may hold
  Counters,  \* where each unit's counter of suffixes may stand
  MaxFunctions, \* bound: functions of a unit with regions to extract
  Recompile, \* FALSE for -polli-disable-recompile
  CollectRegressionTests \* -polli-collect-modules

Local   == "local"
None    == "none"
Unnamed == ""
Types   == {"pointer", "integer", "float"}
Ops     == {"access", "other"}
Exprs   == {"gep", "cast"}

Instrs == [op : Ops, path : Seq(Exprs), root : Args \cup Globals \cup {Local}]

(* A region: the base name of its function, its arguments with their types *)
(* and names in the order CodeExtractor found them, and its instructions.  *)
IsSource(s) ==
  /\ s.base # None
  /\ s.args \in Seq(Args) /\ IsInjective(s.args)
  /\ s.type \in [Args -> Types]
  /\ s.name \in [Args -> Names \cup {Unnamed}]
  /\ \A a, b \in ToSet(s.args) : s.name[a] = s.name[b] => a = b \/ s.name[a] = Unnamed
  /\ s.body \in Seq(Instrs)
  /\ \A i \in DOMAIN s.body :
       /\ s.body[i].root \in ToSet(s.args) \cup Globals
       /\ s.body[i].root \in Args => s.body[i].path = <<>>

ASSUME Assumptions ==
  /\ IsFiniteSet(Units) /\ IsFiniteSet(Globals)
  /\ Globals \subseteq Names
  /\ Local \notin Args \cup Globals
  /\ Args \cap Globals = {}
  /\ Suffixed \in [Names -> SUBSET Names]
  /\ \A u \in Units : \A s \in Sources[u] : IsSource(s)
  /\ Counters \in [Units -> SUBSET Nat]
  /\ MaxFunctions \in Nat \ {0, 1}
  /\ Recompile \in BOOLEAN
  /\ CollectRegressionTests \in BOOLEAN

VARIABLES
  source,     \* the region each unit holds
  pass,       \* where runOnFunction is
  at,         \* the function the pass manager has reached
  functions,  \* the functions of the unit, in the module's order
  scop,       \* F's place among them
  lastUnique, \* the counter LLVM takes suffixes from
  body,       \* the instructions of F
  proto,      \* the prototype function
  slots,      \* what the stub stores into the params array
  inserted,   \* the rows of the unit's open transaction
  regressions, \* the table of regression tests, its rows as committed
  order,      \* the order in which the linker sees the units
  ran         \* what the last call of a region came to

unitVars == <<pass, at, functions, scop, lastUnique, body, proto, slots>>
testVars == <<inserted, regressions>>
vars == <<source, unitVars, testVars, order, ran>>

NoName  == <<None, 0>>
NoProto == [args |-> <<>>, names |-> <<>>, body |-> <<>>]
NoRun   == [by |-> None, unit |-> None, how |-> None, args |-> <<>>]

(* candidate and globals are the attributes polyjit-jit-candidate and      *)
(* polyjit-global-count; callee is the function the code now calls.        *)
Fn(role, name, candidate, callee) ==
  [role |-> role, name |-> name, candidate |-> candidate, callee |-> callee,
   globals |-> 0]

Init ==
  /\ source \in {s \in [Units -> UNION {Sources[u] : u \in Units}] :
                   \A u \in Units : s[u] \in Sources[u]}
  /\ pass = [u \in Units |-> "visit"]
  /\ at = [u \in Units |-> 1]
  /\ functions = [u \in Units |-> <<Fn("original", NoName, FALSE, NoName)>>]
  /\ scop = [u \in Units |-> 0]
  /\ lastUnique \in {l \in [Units -> UNION {Counters[u] : u \in Units}] :
                       \A u \in Units : l[u] \in Counters[u]}
  /\ body = [u \in Units |-> <<>>]
  /\ proto = [u \in Units |-> NoProto]
  /\ slots = [u \in Units |-> <<>>]
  /\ inserted = [u \in Units |-> <<>>]
  /\ regressions = <<>>
  /\ order = <<>>
  /\ ran = NoRun

Visited(u) == functions[u][at[u]]
F(u) == functions[u][scop[u]]
Done(u) == pass[u] = "visit" /\ at[u] > Len(functions[u])

(* Every unit is a compiler run of its own. They meet in the table of      *)
(* regression tests, elsewhere their order does not matter.                *)
Compiling(u, step) ==
  /\ pass[u] = step
  /\ at[u] <= Len(functions[u])
  /\ \A v \in Units \ {u} :
       \/ Done(v) \/ pass[v] \in {"insert", "commit"}
       \/ at[v] = 1 /\ pass[v] = "visit"

(* A symbol that is taken gets a suffix from the unit's counter.           *)
Taken(u) == {functions[u][i].name : i \in DOMAIN functions[u]}
Unique(u, name) == IF name \in Taken(u) THEN <<name[1], lastUnique[u] + 1>> ELSE name
Count(u, name) ==
  lastUnique' = [lastUnique EXCEPT ![u] = IF name \in Taken(u) THEN @ + 1 ELSE @]

-----------------------------------------------------------------------------
(* The pass.                                                               *)

(* ScopMapper maps no region of a candidate or of a function that is not   *)
(* to be optimized, which only the stub is.                                *)
NotCandidate(f) == ~f.candidate        \* mutant: inverted
IsCandidate(f) == f.candidate
Mapped(f) == ~IsCandidate(f) /\ f.role # "stub"

(* runOnFunction leaves candidates and functions without mapped regions    *)
(* alone. Beyond the bound on functions no region is eligible.             *)
Skip(u) ==
  /\ Compiling(u, "visit")
  /\ \/ IsCandidate(Visited(u)) \/ ~Mapped(Visited(u))
     \/ Len(functions[u]) >= MaxFunctions
  /\ at' = [at EXCEPT ![u] = @ + 1]
  /\ UNCHANGED <<source, pass, functions, scop, lastUnique, body, proto, slots, testVars, order, ran>>

(* The region becomes a function of its own, a call of it stays behind.    *)
ExtractedF(name) == Fn("scop", name, TRUE, NoName)
Extract(u) ==
  /\ Compiling(u, "visit")
  /\ Mapped(Visited(u))
  /\ Len(functions[u]) < MaxFunctions
  /\ LET base == <<source[u].base, 0>>
         name == Unique(u, base)
     IN  /\ functions' = [functions EXCEPT
                            ![u] = Append([@ EXCEPT ![at[u]].callee = name],
                                          ExtractedF(name))]
         /\ Count(u, base)
  /\ scop' = [scop EXCEPT ![u] = Len(functions[u]) + 1]
  /\ body' = [body EXCEPT ![u] = source[u].body]
  /\ pass' = [pass EXCEPT ![u] = "prototype"]
  /\ UNCHANGED <<source, at, proto, slots, testVars, order, ran>>

(* constantExprToInstruction takes the outermost constant expression off a *)
(* pointer operand. What it inserts comes before the instruction that the  *)
(* scan has reached, and is not scanned.                                   *)
NotLowered(i) == <<i>>                 \* mutant: constant expressions stay
Lowered(i) ==
  IF i.op = "access" /\ i.path # <<>>
  THEN << [op   |-> IF Head(i.path) = "gep" THEN "access" ELSE "other",
           path |-> Tail(i.path), root |-> i.root],
          [op |-> "access", path |-> <<>>, root |-> Local] >>
  ELSE <<i>>
Lower(b) == FlattenSeq([i \in DOMAIN b |-> Lowered(b[i])])

(* selectGV follows the pointer operands of getelementptr expressions and  *)
(* nothing else. GlobalList keeps the order of first insertion.            *)
Selects(i) == i.op = "access" /\ i.root \in Globals /\ ToSet(i.path) \subseteq {"gep"}
Selected(b) == {i \in DOMAIN b : Selects(b[i])}
\* mutant: a list instead of a set
EveryUse(b) == {[k \in 1..Cardinality(Selected(b)) |-> b[SetToSortSeq(Selected(b), <)[k]].root]}
GlobalsUsed(b) ==
  {l \in SeqOf(Globals, Cardinality(Globals)) :
     /\ IsInjective(l)
     /\ ToSet(l) = {b[i].root : i \in Selected(b)}
     /\ \A j, k \in DOMAIN l : j < k =>
          \E i \in Selected(b) :
            b[i].root = l[j] /\ \A m \in Selected(b) : m < i => b[m].root # l[k]}

(* AddGlobalsPolicy names the new arguments after the globals. A name that *)
(* an argument has already gets a suffix.                                  *)
ProtoNames(s, globals) ==
  LET n == Len(s.args) IN
  {names \in [1..(n + Len(globals)) -> Names \cup {Unnamed}] :
     /\ \A i \in 1..n : names[i] = s.name[s.args[i]]
     /\ \A j \in DOMAIN globals :
          LET used == {names[i] : i \in 1..(n + j - 1)}
          IN  IF globals[j] \in used THEN names[n + j] \in Suffixed[globals[j]] \ used
                                    ELSE names[n + j] = globals[j]}

MakePrototype(u) ==
  /\ Compiling(u, "prototype")
  /\ body' = [body EXCEPT ![u] = Lower(body[u])]
  /\ \E globals \in GlobalsUsed(body'[u]) :
       /\ \E names \in ProtoNames(source[u], globals) :
            proto' = [proto EXCEPT ![u] = [args  |-> source[u].args \o globals,
                                           names |-> names, body |-> body'[u]]]
       /\ functions' = [functions EXCEPT ![u][scop[u]].globals = Len(globals)]
  /\ pass' = [pass EXCEPT ![u] = IF CollectRegressionTests THEN "insert" ELSE "fallback"]
  /\ UNCHANGED <<source, at, scop, lastUnique, slots, testVars, order, ran>>

(* collectRegressionTest inserts the prototype under the function's name,  *)
(* if no committed row has the name, in a transaction of its own. What is  *)
(* no column is how many rows the statement saw.                           *)
Row(u, rows) == [name |-> F(u).name, module |-> proto[u], saw |-> Len(rows)]
WhereExists(u, rows) == \E i \in DOMAIN rows : rows[i].name = F(u).name  \* mutant: inverted
NoCondition(u, rows) == TRUE             \* mutant: the name is not looked up
WhereNotExists(u, rows) == ~ \E i \in DOMAIN rows : rows[i].name = F(u).name
InsertTest(u) ==
  /\ Compiling(u, "insert")
  /\ inserted' = [inserted EXCEPT
                    ![u] = IF WhereNotExists(u, regressions) THEN <<Row(u, regressions)>> ELSE <<>>]
  /\ pass' = [pass EXCEPT ![u] = "commit"]
  /\ UNCHANGED <<source, at, functions, scop, lastUnique, body, proto, slots,
                 regressions, order, ran>>

Committed(u) == regressions \o inserted[u]
Commit(u) ==
  /\ Compiling(u, "commit")
  /\ regressions' = Committed(u)
  /\ inserted' = [inserted EXCEPT ![u] = <<>>]
  /\ pass' = [pass EXCEPT ![u] = "fallback"]
  /\ UNCHANGED <<source, at, functions, scop, lastUnique, body, proto, slots, order, ran>>

(* A clone in the same module has F's attributes, and F's name up to a     *)
(* suffix.                                                                 *)
Clone(u, role, callee) ==
  [F(u) EXCEPT !.role = role, !.name = Unique(u, @), !.callee = callee]

MakeFallback(u) ==
  /\ Compiling(u, "fallback")
  /\ functions' = [functions EXCEPT ![u] = Append(@, Clone(u, "fallback", NoName))]
  /\ Count(u, F(u).name)
  /\ pass' = [pass EXCEPT ![u] = "instrument"]
  /\ UNCHANGED <<source, at, scop, body, proto, slots, testVars, order, ran>>

(* InstrumentEndpoint: pointers are stored as they are, other arguments as *)
(* the address of a copy. The globals are looked up under the names of the *)
(* prototype's arguments; a name that is not found leaves its slot as the  *)
(* stack has it.                                                           *)
ArgSlot(u, k) ==
  LET a == source[u].args[k]
  IN  [kind |-> IF source[u].type[a] = "pointer" THEN "address" ELSE "copy", of |-> a]
\* mutant: the iterator over the prototype's arguments is one behind
BehindSlot(u, k) ==
  IF proto[u].names[k - 1] \in Globals
  THEN [kind |-> "address", of |-> proto[u].names[k - 1]]
  ELSE [kind |-> "undefined", of |-> None]
GlobalSlot(u, k) ==
  IF proto[u].names[k] \in Globals
  THEN [kind |-> "address", of |-> proto[u].names[k]]
  ELSE [kind |-> "undefined", of |-> None]
Slots(u) ==
  LET n == Len(source[u].args)
      argc == n + F(u).globals
  IN  [k \in 1..argc |-> IF k <= n THEN ArgSlot(u, k) ELSE GlobalSlot(u, k)]

(* The function a stub calls when the JIT is not ready.                    *)
\* mutant: the fallback is F itself
FallbackIsF(u) == F(u).name
FallbackOf(u) == functions[u][Len(functions[u])].name

(* The stub replaces F, also where F is called.                            *)
Instrument(u) ==
  /\ Compiling(u, "instrument")
  /\ LET old == F(u).name
         stub == Clone(u, "stub", FallbackOf(u))
         all == Append(functions[u], stub)
     IN  /\ functions' = [functions EXCEPT ![u] =
              [i \in DOMAIN all |->
                 [all[i] EXCEPT !.callee = IF @ = old THEN stub.name ELSE @]]]
         /\ Count(u, old)
  /\ slots' = [slots EXCEPT ![u] = Slots(u)]
  /\ pass' = [pass EXCEPT ![u] = "visit"]
  /\ at' = [at EXCEPT ![u] = @ + 1]
  /\ UNCHANGED <<source, scop, body, proto, testVars, order, ran>>

-----------------------------------------------------------------------------
(* The program. Extracted functions, fallbacks and stubs have weak linkage:*)
(* of several definitions the linker takes the first.                      *)

Link ==
  /\ order = <<>>
  /\ \A u \in Units : Done(u)
  /\ order' \in {o \in [1..Cardinality(Units) -> Units] : IsInjective(o)}
  /\ UNCHANGED <<source, unitVars, testVars, ran>>

Definition(name) ==
  order[CHOOSE i \in DOMAIN order :
          /\ name \in Taken(order[i])
          /\ \A j \in 1..(i - 1) : name \notin Taken(order[j])]
Function(u, name) ==
  functions[u][CHOOSE i \in DOMAIN functions[u] : functions[u][i].name = name]

(* A variant takes its arguments from the slots: pointers as they are,     *)
(* integers as the constants it was specialized for. Everything else is    *)
(* loaded from the slot itself, which holds an address.                    *)
Unpacked(u, k) ==
  LET a == proto[u].args[k]
      slot == slots[u][k]
  IN  CASE a \in Globals \/ source[u].type[a] = "pointer" -> slot.of
        [] a \in Args /\ source[u].type[a] = "integer" /\ Recompile -> slot.of
        [] OTHER -> None

(* Everything a prototype's body refers to is in the prototype: LLVM can   *)
(* map a global to an argument unless it is part of a constant expression. *)
Maps(u, i) == i.root # Local => i.root \in ToSet(proto[u].args) /\ i.path = <<>>
Closed(u) == \A k \in DOMAIN proto[u].body : Maps(u, proto[u].body[k])

(* What a call of a region in unit u reaches, by way of the linker: a stub,*)
(* and as long as it has no variant what it calls in its turn. Where units *)
(* share names, its fallback's name may lead to the stub of another unit.  *)
Reached(name) ==
  LET v == Definition(name) IN [unit |-> v, fn |-> Function(v, name)]
Hops(u) ==
  LET all == Cardinality(UNION {Taken(v) : v \in Units})
      next(reached) == IF reached.fn.role = "stub" THEN Reached(reached.fn.callee) ELSE reached
      hop[n \in 0..all] == IF n = 0 THEN Reached(functions[u][1].callee) ELSE next(hop[n - 1])
  IN  {hop[n] : n \in 0..all}

(* Before anything else is decided, the runtime reads eight bytes through  *)
(* each slot. That goes well for copies and globals. A pointer that the    *)
(* program passes may be null where the region has no iterations.          *)
MayFault(slot) == slot.kind = "undefined" \/ (slot.kind = "address" /\ slot.of \in Args)
CallFaults(u) ==
  /\ order # <<>>
  /\ \E stub \in {hop \in Hops(u) : hop.fn.role = "stub"} :
       /\ \E k \in DOMAIN slots[stub.unit] : MayFault(slots[stub.unit][k])
       /\ ran' = [by |-> u, unit |-> stub.unit, how |-> "fault", args |-> source[u].args]
  /\ UNCHANGED <<source, unitVars, testVars, order>>

CallVariant(u) ==
  /\ order # <<>>
  /\ \E stub \in {hop \in Hops(u) : hop.fn.role = "stub"} :
       LET v == stub.unit
       IN  ran' = [by |-> u, unit |-> v, how |-> IF Closed(v) THEN "variant" ELSE "unreadable",
                   args |-> [k \in DOMAIN proto[v].args |-> Unpacked(v, k)]]
  /\ UNCHANGED <<source, unitVars, testVars, order>>

(* Without a variant stubs hand their arguments on. Stubs that lead only   *)
(* to each other never get to a body.                                      *)
CallFallback(u) ==
  /\ order # <<>>
  /\ LET bodies == {hop \in Hops(u) : hop.fn.role # "stub"}
         hop == CHOOSE h \in IF bodies = {} THEN Hops(u) ELSE bodies : TRUE
     IN  ran' = [by |-> u, unit |-> hop.unit,
                 how |-> IF bodies = {} THEN "endless" ELSE "fallback",
                 args |-> source[u].args]
  /\ UNCHANGED <<source, unitVars, testVars, order>>

PassStep(u) ==
  \/ Skip(u) \/ Extract(u) \/ MakePrototype(u) \/ InsertTest(u) \/ Commit(u)
  \/ MakeFallback(u) \/ Instrument(u)
Next == Link \/ \E u \in Units : PassStep(u) \/ CallFaults(u) \/ CallVariant(u) \/ CallFallback(u)
Spec == Init /\ [][Next]_vars

(* The compiler runs its passes.                                           *)
FairSpec == Spec /\ \A u \in Units : WF_vars(PassStep(u))
=============================================================================
