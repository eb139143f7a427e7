--------------------- MODULE ModuleExtractionProperties ---------------------
(***************************************************************************)
(* What the extraction of regions promises, and where it keeps its word.   *)
(***************************************************************************)
EXTENDS ModuleExtraction

FnNames == ({None} \cup {source[u].base : u \in Units}) \X Nat
FnType == [role : {"original", "scop", "fallback", "stub"},
           name : FnNames,
           candidate : BOOLEAN,
           callee : FnNames,
           globals : Nat]
SlotType == [kind : {"address", "copy"}, of : Args \cup Globals]
              \cup [kind : {"undefined"}, of : {None}]
RowType == [name : FnNames, module : {proto[v] : v \in Units}, saw : Nat]

(* The types of the variables. A slot is undefined or stands for what the  *)
(* unit knows.                                                             *)
TypeOK ==
  /\ \A u \in Units : source[u] \in Sources[u]
  /\ pass \in [Units -> {"visit", "prototype", "insert", "commit", "fallback", "instrument"}]
  /\ at \in [Units -> Nat \ {0}]
  /\ scop \in [Units -> Nat]
  /\ lastUnique \in [Units -> Nat]
  /\ \A u \in Units :
       /\ functions[u] \in Seq(FnType)
       /\ body[u] \in Seq(Instrs)
       /\ proto[u].args \in Seq(Args \cup Globals) /\ IsInjective(proto[u].args)
       /\ proto[u].names \in [DOMAIN proto[u].args -> Names \cup {Unnamed}]
       /\ proto[u].body \in Seq(Instrs)
       /\ slots[u] \in Seq(SlotType)
       /\ inserted[u] \in Seq(RowType)
  /\ regressions \in Seq(RowType)
  /\ order = <<>> \/ order \in [1..Cardinality(Units) -> Units]
  /\ ran.how \in {None, "variant", "unreadable", "fallback", "endless", "fault"}

-----------------------------------------------------------------------------
(* What a region must look like for the pass to handle it.                 *)

(* No argument has the name of a global that the region uses.              *)
Uses(u, g) == {i \in DOMAIN source[u].body : source[u].body[i].root = g}
NamesApart(u) ==
  \A a \in ToSet(source[u].args) : \A g \in Globals :
    Uses(u, g) # {} => source[u].name[a] # g

(* Every global is used by a load, store or getelementptr at least once,   *)
(* and never deeper than in one constant getelementptr.                    *)
PlainUses(u) ==
  \A g \in Globals : Uses(u, g) # {} =>
    /\ \A i \in Uses(u, g) : Len(source[u].body[i].path) <= 1
    /\ \A i \in Uses(u, g) : source[u].body[i].op = "other" => source[u].body[i].path = <<>>
    /\ \E i \in Uses(u, g) :
         source[u].body[i].op = "access" /\ source[u].body[i].path \in {<<>>, <<"gep">>}

(* No other unit has extracted a function of the same name.                *)
NameAlone(u) == \A v \in Units \ {u} : source[v].base # source[u].base

-----------------------------------------------------------------------------
(* The params array has a slot for each argument of the prototype, in the  *)
(* prototype's order, and each holds what the argument stands for: the     *)
(* numbering of AddGlobalsPolicy and the lookup by name of                 *)
(* InstrumentEndpoint agree, unless an argument has a global's name.       *)
SlotsMatchPrototype ==
  \A u \in Units : Done(u) =>
    /\ DOMAIN slots[u] = DOMAIN proto[u].args
    /\ NamesApart(u) => \A k \in DOMAIN slots[u] : slots[u][k].of = proto[u].args[k]

(* A prototype stands on its own: its body refers to its arguments, also   *)
(* where the region used globals inside constant expressions.              *)
PrototypeClosed ==
  \A u \in Units : Done(u) /\ PlainUses(u) => Closed(u)

(* A region that is called after linking is the region that was called     *)
(* before: the same code with the same arguments, by a variant as well as  *)
(* by the fallback, and it gets to run at all. Known exceptions: floating- *)
(* point arguments, of which a variant gets the slot's address instead, as *)
(* of integers where variants are not specialized; pointers of the         *)
(* program's own, through which the runtime reads, also where the region   *)
(* would not have.                                                         *)
RunsAsBefore ==
  LET u == ran.by IN
  u # None /\ NameAlone(u) /\ NamesApart(u) /\ PlainUses(u) =>
    /\ ran.unit = u
    /\ ran.how \in {"variant", "fallback", "fault"}
    /\ ran.how = "fault" => \E a \in ToSet(ran.args) : source[u].type[a] = "pointer"
    /\ ran.how = "variant" =>
         \A k \in DOMAIN proto[u].args :
           LET a == proto[u].args[k]
           IN  (a \in Args => \/ source[u].type[a] = "pointer"
                              \/ source[u].type[a] = "integer" /\ Recompile) => ran.args[k] = a

(* However many units have extracted a function of one name, in whichever  *)
(* order they are linked and whichever suffixes they have given, so that   *)
(* one's fallback has the name of another one's stub: a call gets to a     *)
(* body, and to one that was made of a function of this name.              *)
CallsArrive ==
  ran.by # None =>
    /\ ran.how # "endless"
    /\ source[ran.unit].base = source[ran.by].base

(* The name of an extracted function leads to a regression test, whoever   *)
(* compiled first: a compiler that finds the name taken leaves the row of  *)
(* another compiler alone, and what is in the table is, under each name,   *)
(* the prototype that a function of this name was compiled to.             *)
TestsCollected ==
  /\ CollectRegressionTests =>
       \A u \in Units : Done(u) =>
         \E i \in DOMAIN regressions : regressions[i].name = F(u).name
  /\ \A i \in DOMAIN regressions :
       \E u \in Units : scop[u] # 0 /\ regressions[i].name = F(u).name
                                  /\ regressions[i].module = proto[u]

(* The statement checks for the name to "avoid duplicated SCoPs for the    *)
(* same project". No constraint of the table does: a name is there twice   *)
(* only if the second compiler looked before the first one had committed.  *)
DuplicatesOverlap ==
  \A i, j \in DOMAIN regressions :
    i < j /\ regressions[i].name = regressions[j].name => regressions[j].saw < i

(* The pass manager walks a list that the pass itself makes longer, and    *)
(* still comes to an end, with each region replaced once.                  *)
PassEnds == \A u \in Units :
  <>[](Done(u) /\ Cardinality({i \in DOMAIN functions[u] : functions[u][i].role = "stub"}) = 1)

=============================================================================
