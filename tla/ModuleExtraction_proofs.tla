---------------------- MODULE ModuleExtraction_proofs ----------------------
(***************************************************************************)
(* What extraction promises, proved for any number of units, of functions  *)
(* of one name, and for every region. The pass is deterministic but for    *)
(* the names of arguments: what it has made of a unit is known from where  *)
(* it stands, and the linker sees units that have come to their end.       *)
(***************************************************************************)
EXTENDS ModuleExtractionProperties, DataLemmas

-----------------------------------------------------------------------------
(* What the pass has made of a unit.                                       *)

Base(u) == <<source[u].base, 0>>
Suffix(u, k) == <<source[u].base, k>>
Entry(role, name, candidate, callee, globals) ==
  [role |-> role, name |-> name, candidate |-> candidate, callee |-> callee, globals |-> globals]
Original(callee) == Entry("original", NoName, FALSE, callee, 0)
Part(role, name, callee, globals) == Entry(role, name, TRUE, callee, globals)

(* The globals gs have become arguments of the prototype.                  *)
Made(u, gs) ==
  /\ gs \in GlobalsUsed(Lower(source[u].body))
  /\ proto[u].args = source[u].args \o gs
  /\ proto[u].names \in ProtoNames(source[u], gs)
  /\ proto[u].body = Lower(source[u].body)
  /\ body[u] = Lower(source[u].body)

Fresh(u) ==
  /\ pass[u] = "visit" /\ at[u] = 1 /\ scop[u] = 0
  /\ functions[u] = <<Original(NoName)>>
  /\ body[u] = <<>> /\ proto[u] = NoProto /\ slots[u] = <<>>
Extracted(u) ==
  /\ pass[u] = "prototype" /\ at[u] = 1 /\ scop[u] = 2
  /\ functions[u] = <<Original(Base(u)), Part("scop", Base(u), NoName, 0)>>
  /\ body[u] = source[u].body /\ proto[u] = NoProto /\ slots[u] = <<>>
Prototyped(u, n) ==
  /\ pass[u] \in {"insert", "commit", "fallback"} /\ at[u] = 1 /\ scop[u] = 2
  /\ functions[u] = <<Original(Base(u)), Part("scop", Base(u), NoName, n)>>
  /\ slots[u] = <<>>
Backed(u, n) ==
  /\ pass[u] = "instrument" /\ at[u] = 1 /\ scop[u] = 2 /\ lastUnique[u] >= 1
  /\ functions[u] = <<Original(Base(u)), Part("scop", Base(u), NoName, n),
                      Part("fallback", Suffix(u, lastUnique[u]), NoName, n)>>
  /\ slots[u] = <<>>
Stubbed(u, n) ==
  /\ pass[u] = "visit" /\ at[u] \in 2..5 /\ scop[u] = 2 /\ lastUnique[u] >= 2
  /\ functions[u] = <<Original(Suffix(u, lastUnique[u])), Part("scop", Base(u), NoName, n),
                      Part("fallback", Suffix(u, lastUnique[u] - 1), NoName, n),
                      Part("stub", Suffix(u, lastUnique[u]), Suffix(u, lastUnique[u] - 1), n)>>
  /\ slots[u] = Slots(u)

Early(u) == Fresh(u) \/ Extracted(u)
Stage(u, gs) == Prototyped(u, Len(gs)) \/ Backed(u, Len(gs)) \/ Stubbed(u, Len(gs))
Staged(u) ==
  /\ source[u] \in Sources[u] /\ lastUnique[u] \in Nat
  /\ \/ Early(u)
     \/ \E gs \in GlobalsUsed(Lower(source[u].body)) : Made(u, gs) /\ Stage(u, gs)

(* Every variable of the pass has a value for each unit.                   *)
Domains ==
  /\ DOMAIN pass = Units /\ DOMAIN at = Units /\ DOMAIN functions = Units
  /\ DOMAIN scop = Units /\ DOMAIN lastUnique = Units /\ DOMAIN body = Units
  /\ DOMAIN proto = Units /\ DOMAIN slots = Units /\ DOMAIN inserted = Units
Stages == Domains /\ \A u \in Units : Staged(u)

-----------------------------------------------------------------------------
(* A step of one unit is none of the others.                               *)
Same(v) ==
  /\ source'[v] = source[v] /\ pass'[v] = pass[v] /\ at'[v] = at[v]
  /\ functions'[v] = functions[v] /\ scop'[v] = scop[v] /\ lastUnique'[v] = lastUnique[v]
  /\ body'[v] = body[v] /\ proto'[v] = proto[v] /\ slots'[v] = slots[v]

(* A step of the pass in one unit leaves the other units alone.            *)
LEMMA Others ==
  ASSUME Domains, NEW u \in Units, PassStep(u)
  PROVE  source' = source /\ Domains' /\ \A v \in Units \ {u} : Same(v)
<1> USE DEF Domains, Same, testVars
<1>1. CASE Skip(u)
  BY <1>1 DEF Skip
<1>2. CASE Extract(u)
  BY <1>2 DEF Extract, Count
<1>3. CASE MakePrototype(u)
  <2>1. PICK globals : functions' = [functions EXCEPT ![u][scop[u]].globals = Len(globals)]
    BY <1>3 DEF MakePrototype
  <2>2. PICK new : proto' = [proto EXCEPT ![u] = new]
    BY <1>3 DEF MakePrototype
  <2>3. QED
    BY <1>3, <2>1, <2>2 DEF MakePrototype
<1>4. CASE InsertTest(u)
  BY <1>4 DEF InsertTest
<1>5. CASE Commit(u)
  BY <1>5 DEF Commit
<1>6. CASE MakeFallback(u)
  BY <1>6 DEF MakeFallback, Count
<1>7. CASE Instrument(u)
  BY <1>7 DEF Instrument, Count
<1>8. QED
  BY <1>1, <1>2, <1>3, <1>4, <1>5, <1>6, <1>7 DEF PassStep

(* What a unit has reached it keeps while it is left alone.                *)
LEMMA SameStaged ==
  ASSUME NEW v, Same(v), Staged(v)
  PROVE  Staged(v)'
<1>1. Slots(v)' = Slots(v)
  BY DEF Same, Slots, F, ArgSlot, GlobalSlot
<1>2. ASSUME NEW gs, Made(v, gs) PROVE Made(v, gs)'
  BY <1>2 DEF Same, Made
<1>3. ASSUME NEW gs, Stage(v, gs) PROVE Stage(v, gs)'
  BY <1>1, <1>3 DEF Same, Stage, Prototyped, Backed, Stubbed, Base, Suffix
<1>4. Early(v) => Early(v)'
  BY DEF Same, Early, Fresh, Extracted, Base
<1>5. QED
  BY <1>2, <1>3, <1>4 DEF Same, Staged

-----------------------------------------------------------------------------
(* Functions that differ in a field.                                       *)
WithGlobals(f, n) == [f EXCEPT !.globals = n]
WithCallee(f, callee) == [f EXCEPT !.callee = callee]
Cloned(f, role, name, callee) == [f EXCEPT !.role = role, !.name = name, !.callee = callee]

(* Changes of a function's record, field by field.                         *)
LEMMA ChangedFields ==
  ASSUME NEW role, NEW name, NEW c, NEW callee, NEW n, NEW x, NEW y, NEW z
  PROVE  /\ WithGlobals(Entry(role, name, c, callee, n), x) = Entry(role, name, c, callee, x)
         /\ WithCallee(Entry(role, name, c, callee, n), x) = Entry(role, name, c, x, n)
         /\ Cloned(Entry(role, name, c, callee, n), x, y, z) = Entry(x, y, c, z, n)
<1>1. [Entry(role, name, c, callee, n) EXCEPT !.globals = x] = Entry(role, name, c, callee, x)
  BY DEF Entry
<1>2. [Entry(role, name, c, callee, n) EXCEPT !.callee = x] = Entry(role, name, c, x, n)
  BY DEF Entry
<1>3. [Entry(role, name, c, callee, n) EXCEPT !.role = x] = Entry(x, name, c, callee, n)
  BY DEF Entry
<1>4. [Entry(x, name, c, callee, n) EXCEPT !.name = y] = Entry(x, y, c, callee, n)
  BY DEF Entry
<1>5. [Entry(x, y, c, callee, n) EXCEPT !.callee = z] = Entry(x, y, c, z, n)
  BY DEF Entry
<1>6. PICK r : r = Entry(role, name, c, callee, n)
  OBVIOUS
<1>7. [r EXCEPT !.role = x, !.name = y, !.callee = z]
        = [[[r EXCEPT !.role = x] EXCEPT !.name = y] EXCEPT !.callee = z]
  OBVIOUS
<1>8. QED
  BY <1>1, <1>2, <1>3, <1>4, <1>5, <1>6, <1>7 DEF WithGlobals, WithCallee, Cloned

(* Changes of the functions that the pass makes.                           *)
LEMMA Changed ==
  ASSUME NEW role, NEW name, NEW callee, NEW n, NEW x, NEW y, NEW z
  PROVE  /\ WithCallee(Original(callee), x) = Original(x)
         /\ WithGlobals(Part(role, name, callee, n), x) = Part(role, name, callee, x)
         /\ WithCallee(Part(role, name, callee, n), x) = Part(role, name, x, n)
         /\ Cloned(Part(role, name, callee, n), x, y, z) = Part(x, y, z, n)
<1>1. PICK yes, no : yes = TRUE /\ no = FALSE
  OBVIOUS
<1>2. WithCallee(Entry("original", NoName, no, callee, 0), x) = Entry("original", NoName, no, x, 0)
  BY ChangedFields
<1>3. /\ WithGlobals(Entry(role, name, yes, callee, n), x) = Entry(role, name, yes, callee, x)
      /\ WithCallee(Entry(role, name, yes, callee, n), x) = Entry(role, name, yes, x, n)
      /\ Cloned(Entry(role, name, yes, callee, n), x, y, z) = Entry(x, y, yes, z, n)
  BY ChangedFields
<1>4. QED
  BY <1>1, <1>2, <1>3, Zenon DEF Original, Part

-----------------------------------------------------------------------------
(* What the pass manager can find where, stage by stage.                   *)
LEMMA Positions ==
  ASSUME NEW u \in Units, Staged(u)
  PROVE  /\ pass[u] = "prototype" => Extracted(u)
         /\ Fresh(u) => Len(functions[u]) = 1 /\ functions[u][1] = Original(NoName)
         /\ Fresh(u) \/ Extracted(u)
              \/ \E gs \in GlobalsUsed(Lower(source[u].body)) :
                   Made(u, gs) /\ Stage(u, gs)
         /\ pass[u] = "visit" => Fresh(u)
              \/ \E gs \in GlobalsUsed(Lower(source[u].body)) : Made(u, gs) /\ Stubbed(u, Len(gs))
         /\ pass[u] \in {"insert", "commit", "fallback"} =>
              \E gs \in GlobalsUsed(Lower(source[u].body)) : Made(u, gs) /\ Prototyped(u, Len(gs))
         /\ pass[u] = "instrument" =>
              \E gs \in GlobalsUsed(Lower(source[u].body)) : Made(u, gs) /\ Backed(u, Len(gs))
<1>1. /\ ~ (\E n : Prototyped(u, n) /\ pass[u] \notin {"insert", "commit", "fallback"})
      /\ ~ (\E n : Backed(u, n) /\ pass[u] # "instrument")
      /\ ~ (\E n : Stubbed(u, n) /\ pass[u] # "visit")
      /\ Fresh(u) => pass[u] = "visit" /\ functions[u] = <<Original(NoName)>>
      /\ Extracted(u) => pass[u] = "prototype"
  BY DEF Prototyped, Backed, Stubbed, Fresh, Extracted
<1>2. Fresh(u) => Len(functions[u]) = 1 /\ functions[u][1] = Original(NoName)
  BY <1>1
<1>3. Fresh(u) \/ Extracted(u)
        \/ \E gs \in GlobalsUsed(Lower(source[u].body)) : Made(u, gs) /\ Stage(u, gs)
  BY Zenon DEF Staged, Early
<1>4. QED
  BY <1>1, <1>2, <1>3 DEF Stage

(* Skip is for what the pass has made.                                     *)
LEMMA SkipStaged ==
  ASSUME Domains, NEW u \in Units, Staged(u), Skip(u)
  PROVE  Staged(u)'
<1>1. pass[u] = "visit" /\ at[u] <= Len(functions[u]) /\ at'[u] = at[u] + 1
  BY DEF Skip, Compiling, Domains
<1>2. /\ source'[u] = source[u] /\ pass'[u] = pass[u] /\ functions'[u] = functions[u]
      /\ scop'[u] = scop[u] /\ lastUnique'[u] = lastUnique[u] /\ body'[u] = body[u]
      /\ proto'[u] = proto[u] /\ slots'[u] = slots[u]
  BY DEF Skip
<1>3. ~Fresh(u)
  <2>1. SUFFICES ASSUME Fresh(u) PROVE FALSE
    OBVIOUS
  <2>2. Visited(u) = Original(NoName) /\ Len(functions[u]) = 1
    BY <2>1 DEF Fresh, Visited
  <2>3. Mapped(Visited(u)) /\ ~IsCandidate(Visited(u))
    BY <2>2 DEF Mapped, IsCandidate, Original, Entry
  <2>4. 1 < MaxFunctions /\ MaxFunctions \in Nat
    BY Assumptions
  <2>5. QED
    BY <2>2, <2>3, <2>4 DEF Skip
<1>4. PICK gs \in GlobalsUsed(Lower(source[u].body)) : Made(u, gs) /\ Stubbed(u, Len(gs))
  BY <1>1, <1>3, Positions
<1>5. Len(functions[u]) = 4 /\ at[u] \in 2..5
  BY <1>4 DEF Stubbed
<1>6. at'[u] \in 2..5
  BY <1>1, <1>5
<1>7. Slots(u)' = Slots(u)
  BY <1>2 DEF Slots, F, ArgSlot, GlobalSlot
<1>8. Stubbed(u, Len(gs))'
  BY <1>2, <1>4, <1>6, <1>7 DEF Stubbed, Suffix, Base
<1>9. Made(u, gs)'
  BY <1>2, <1>4 DEF Made
<1>10. QED
  BY <1>2, <1>8, <1>9 DEF Staged, Stage

(* Every function that the pass has made is a candidate, so that a unit's  *)
(* region is extracted once.                                               *)
LEMMA ExtractFresh ==
  ASSUME NEW u \in Units, Staged(u), Extract(u)
  PROVE  Fresh(u)
<1>1. pass[u] = "visit" /\ at[u] <= Len(functions[u]) /\ Mapped(Visited(u))
  BY DEF Extract, Compiling
<1>2. Fresh(u)
  <2>1. SUFFICES ASSUME NEW n, Stubbed(u, n) PROVE FALSE
    BY <1>1, Positions
  <2>2. Len(functions[u]) = 4 /\ at[u] \in {2, 3, 4}
    BY <1>1, <2>1 DEF Stubbed
  <2>3. \E role, name, callee : functions[u][at[u]] = Part(role, name, callee, n)
    BY <2>1, <2>2 DEF Stubbed
  <2>4. functions[u][at[u]].candidate
    BY <2>3 DEF Part, Entry
  <2>5. QED
    BY <1>1, <2>4 DEF Mapped, IsCandidate, Visited
<1>3. QED
  BY <1>2

(* After Extract a unit has its function and the part.                     *)
LEMMA ExtractStaged ==
  ASSUME Domains, NEW u \in Units, Staged(u), Extract(u)
  PROVE  Extracted(u)' /\ Staged(u)'
<1>2. Fresh(u)
  BY ExtractFresh
<1>3. functions[u] = <<Original(NoName)>> /\ at[u] = 1
  BY <1>2 DEF Fresh
<1>4. Taken(u) = {NoName}
  BY <1>3 DEF Taken, Original, Entry
<1>5. Base(u) \notin Taken(u)
  BY <1>4, Assumptions DEF Base, NoName, IsSource, Staged
<1>6. Unique(u, Base(u)) = Base(u)
  BY <1>5 DEF Unique
<1>7. functions'[u] = Append([functions[u] EXCEPT ![1].callee = Base(u)], ExtractedF(Base(u)))
  BY <1>3, <1>6 DEF Extract, Base, Domains
<1>8. [functions[u] EXCEPT ![1].callee = Base(u)] = <<Original(Base(u))>>
  <2>1. [functions[u][1] EXCEPT !.callee = Base(u)] = Original(Base(u))
    <3>1. functions[u][1] = Original(NoName)
      BY <1>3
    <3>2. WithCallee(functions[u][1], Base(u)) = Original(Base(u))
      BY <3>1, Changed
    <3>3. QED
      BY <3>2, Zenon DEF WithCallee
  <2>2. [functions[u] EXCEPT ![1] = Original(Base(u))] = <<Original(Base(u))>>
    BY <1>3, ReplaceOne
  <2>3. QED
    BY <2>1, <2>2
<1>9. ExtractedF(Base(u)) = Part("scop", Base(u), NoName, 0)
  BY DEF ExtractedF, Fn, Part, Entry
<1>10. functions'[u] = <<Original(Base(u)), Part("scop", Base(u), NoName, 0)>>
  BY <1>7, <1>8, <1>9, AppendToOne
<1>11. lastUnique'[u] = lastUnique[u] /\ source' = source
  BY <1>5 DEF Extract, Count, Base, Domains
<1>12. /\ pass'[u] = "prototype" /\ at'[u] = 1 /\ body'[u] = source[u].body
       /\ proto'[u] = NoProto /\ slots'[u] = <<>>
  BY <1>2 DEF Extract, Domains, Fresh
<1>13. scop'[u] = 2
  <2>1. scop'[u] = Len(functions[u]) + 1
    BY DEF Extract, Domains
  <2>2. QED
    BY <1>3, <2>1
<1>14. Extracted(u)'
  BY <1>10, <1>11, <1>12, <1>13 DEF Extracted, Base
<1>15. QED
  BY <1>11, <1>14 DEF Staged, Early

(* After MakePrototype a unit has its prototype, too.                      *)
LEMMA PrototypeStaged ==
  ASSUME Domains, NEW u \in Units, Staged(u), MakePrototype(u)
  PROVE  /\ Staged(u)'
         /\ Extracted(u) /\ pass'[u] = IF CollectRegressionTests THEN "insert" ELSE "fallback"
<1>1. Extracted(u)
  BY Positions DEF MakePrototype, Compiling
<1> DEFINE lowered == Lower(source[u].body)
<1>2. body'[u] = lowered /\ source' = source
  BY <1>1 DEF MakePrototype, Domains, Extracted
<1>3. PICK gs \in GlobalsUsed(lowered) :
        /\ \E names \in ProtoNames(source[u], gs) :
             proto' = [proto EXCEPT ![u] = [args  |-> source[u].args \o gs,
                                            names |-> names, body |-> body'[u]]]
        /\ functions' = [functions EXCEPT ![u][scop[u]].globals = Len(gs)]
  BY <1>2 DEF MakePrototype
<1>4. /\ proto'[u].args = source[u].args \o gs /\ proto'[u].names \in ProtoNames(source[u], gs)
      /\ proto'[u].body = lowered
  BY <1>2, <1>3 DEF Domains
<1>5. Made(u, gs)'
  BY <1>2, <1>3, <1>4 DEF Made
<1>6. scop[u] = 2 /\ functions[u] = <<Original(Base(u)), Part("scop", Base(u), NoName, 0)>>
  BY <1>1 DEF Extracted
<1>7. functions'[u] = [functions[u] EXCEPT ![2].globals = Len(gs)]
  BY <1>3, <1>6 DEF Domains
<1>8. functions'[u] = <<Original(Base(u)), Part("scop", Base(u), NoName, Len(gs))>>
  <2> DEFINE part == Part("scop", Base(u), NoName, Len(gs))
  <2>1. [functions[u][2] EXCEPT !.globals = Len(gs)] = part
    <3>1. functions[u][2] = Part("scop", Base(u), NoName, 0)
      BY <1>6
    <3>2. PICK none, n : none = 0 /\ n = Len(gs)
      OBVIOUS
    <3>3. PICK role, name, callee : role = "scop" /\ name = Base(u) /\ callee = NoName
      OBVIOUS
    <3>4. WithGlobals(Part(role, name, callee, none), n) = Part(role, name, callee, n)
      BY Changed
    <3>5. WithGlobals(functions[u][2], Len(gs)) = part
      BY <3>1, <3>2, <3>3, <3>4, Zenon
    <3>6. QED
      BY <3>5, Zenon DEF WithGlobals
  <2> HIDE DEF part
  <2>2. [functions[u] EXCEPT ![2] = part] = <<Original(Base(u)), part>>
    BY <1>6, ReplaceTwo
  <2>3. QED
    BY <1>7, <2>1, <2>2 DEF part
<1>9. /\ pass'[u] = IF CollectRegressionTests THEN "insert" ELSE "fallback"
      /\ at'[u] = 1 /\ scop'[u] = 2 /\ slots'[u] = <<>> /\ lastUnique' = lastUnique
  BY <1>1 DEF MakePrototype, Domains, Extracted
<1>10. Prototyped(u, Len(gs))'
  BY <1>2, <1>8, <1>9 DEF Prototyped, Base
<1>11. QED
  BY <1>1, <1>2, <1>3, <1>5, <1>9, <1>10 DEF Staged, Stage
(* The tests of a unit are stored while its functions stay as they are.    *)
LEMMA TestStaged ==
  ASSUME Domains, NEW u \in Units, Staged(u), InsertTest(u) \/ Commit(u)
  PROVE  /\ Staged(u)' /\ pass[u] \in {"insert", "commit"}
         /\ pass'[u] \in {"commit", "fallback"} /\ proto' = proto
<1>1. /\ pass[u] \in {"insert", "commit"} /\ pass'[u] \in {"commit", "fallback"}
      /\ source' = source /\ at' = at /\ functions' = functions /\ scop' = scop
      /\ lastUnique' = lastUnique /\ body' = body /\ proto' = proto /\ slots' = slots
  BY DEF InsertTest, Commit, Compiling, Domains
<1>2. PICK gs \in GlobalsUsed(Lower(source[u].body)) : Made(u, gs) /\ Prototyped(u, Len(gs))
  BY <1>1, Positions
<1>3. Made(u, gs)'
  BY <1>1, <1>2 DEF Made
<1>4. Prototyped(u, Len(gs))'
  BY <1>1, <1>2 DEF Prototyped, Base
<1>5. QED
  BY <1>1, <1>2, <1>3, <1>4 DEF Staged, Stage

(* F, where there is one, has the name of the region, which is taken.      *)
LEMMA FIs ==
  ASSUME NEW u \in Units, NEW n, scop[u] = 2,
         functions[u][2] = Part("scop", Base(u), NoName, n)
  PROVE  /\ F(u) = Part("scop", Base(u), NoName, n) /\ F(u).name = Base(u) /\ F(u).globals = n
         /\ 2 \in DOMAIN functions[u] => F(u).name \in Taken(u)
<1>1. F(u) = functions[u][2]
  BY DEF F
<1>2. F(u).name = Base(u) /\ F(u).globals = n
  BY <1>1 DEF Part, Entry
<1>3. QED
  BY <1>1, <1>2, Zenon DEF Taken

(* A clone is F under another name.                                        *)
LEMMA CloneIs ==
  ASSUME NEW u \in Units, NEW n, NEW role, NEW callee, lastUnique[u] \in Nat,
         F(u) = Part("scop", Base(u), NoName, n), F(u).name = Base(u), F(u).name \in Taken(u)
  PROVE  Clone(u, role, callee) = Part(role, Suffix(u, lastUnique[u] + 1), callee, n)
<1>1. PICK name : name = Suffix(u, lastUnique[u] + 1)
  OBVIOUS
<1>2. Unique(u, F(u).name) = name
  BY <1>1 DEF Unique, Suffix, Base
<1>3. Clone(u, role, callee) = Cloned(F(u), role, Unique(u, F(u).name), callee)
  BY Zenon DEF Clone, Cloned
<1>4. PICK r, old, none : r = "scop" /\ old = Base(u) /\ none = NoName
  OBVIOUS
<1>5. Cloned(Part(r, old, none, n), role, name, callee) = Part(role, name, callee, n)
  BY Changed
<1>6. QED
  BY <1>1, <1>2, <1>3, <1>4, <1>5, Zenon

(* After MakeFallback a unit has its fallback, too.                        *)
LEMMA FallbackStaged ==
  ASSUME Domains, NEW u \in Units, Staged(u), MakeFallback(u)
  PROVE  /\ Staged(u)' /\ pass[u] = "fallback" /\ pass'[u] = "instrument" /\ proto' = proto
<1>1. /\ pass[u] = "fallback" /\ pass'[u] = "instrument" /\ source' = source /\ at' = at
      /\ scop' = scop /\ body' = body /\ proto' = proto /\ slots' = slots
  BY DEF MakeFallback, Compiling, Domains
<1>2. PICK gs \in GlobalsUsed(Lower(source[u].body)) : Made(u, gs) /\ Prototyped(u, Len(gs))
  BY <1>1, Positions
<1>3. PICK n : n = Len(gs)
  OBVIOUS
<1>4. /\ scop[u] = 2 /\ lastUnique[u] \in Nat
      /\ functions[u] = <<Original(Base(u)), Part("scop", Base(u), NoName, n)>>
  BY <1>2, <1>3 DEF Prototyped, Staged
<1>5. /\ Len(functions[u]) = 2 /\ functions[u][2] = Part("scop", Base(u), NoName, n)
      /\ 2 \in DOMAIN functions[u]
  BY <1>4
<1>6. F(u) = Part("scop", Base(u), NoName, n) /\ F(u).name = Base(u) /\ F(u).name \in Taken(u)
  BY <1>4, <1>5, FIs, Zenon
<1>7. Clone(u, "fallback", NoName) = Part("fallback", Suffix(u, lastUnique[u] + 1), NoName, n)
  BY <1>4, <1>6, CloneIs
<1>8. functions'[u] = Append(functions[u], Clone(u, "fallback", NoName))
  BY DEF MakeFallback, Domains
<1>9. functions'[u] = <<Original(Base(u)), Part("scop", Base(u), NoName, n),
                        Part("fallback", Suffix(u, lastUnique[u] + 1), NoName, n)>>
  BY <1>4, <1>7, <1>8, AppendToTwo
<1>10. lastUnique'[u] = lastUnique[u] + 1
  BY <1>6 DEF MakeFallback, Count, Domains
<1>11. Backed(u, Len(gs))'
  BY <1>1, <1>2, <1>3, <1>4, <1>9, <1>10 DEF Backed, Prototyped, Base, Suffix
<1>12. Made(u, gs)'
  BY <1>1, <1>2 DEF Made
<1>13. lastUnique'[u] \in Nat
  BY <1>4, <1>10
<1>14. QED
  BY <1>1, <1>2, <1>11, <1>12, <1>13 DEF Staged, Stage
(* A function after calls of one name have become calls of another.        *)
Redirected(f, old, new) == [f EXCEPT !.callee = IF @ = old THEN new ELSE @]

(* Redirecting a call changes the callee if it is the old one.             *)
LEMMA RedirectedIs ==
  ASSUME NEW callee, NEW old, NEW new, NEW f, f.callee = callee
  PROVE  Redirected(f, old, new) = WithCallee(f, IF callee = old THEN new ELSE callee)
<1>1. [f EXCEPT !.callee = IF @ = old THEN new ELSE @]
        = [f EXCEPT !.callee = IF f.callee = old THEN new ELSE f.callee]
  OBVIOUS
<1>2. QED
  BY <1>1, Zenon DEF Redirected, WithCallee

(* Redirecting the calls of a part.                                        *)
LEMMA RedirectedPart ==
  ASSUME NEW role, NEW name, NEW callee, NEW n, NEW old, NEW new
  PROVE  Redirected(Part(role, name, callee, n), old, new)
           = Part(role, name, IF callee = old THEN new ELSE callee, n)
<1>1. PICK to : to = IF callee = old THEN new ELSE callee
  OBVIOUS
<1>2. WithCallee(Part(role, name, callee, n), to) = Part(role, name, to, n)
  BY Changed
<1>3. Part(role, name, callee, n).callee = callee
  BY DEF Part, Entry
<1>4. PICK f : f = Part(role, name, callee, n)
  OBVIOUS
<1>5. Redirected(f, old, new) = WithCallee(f, to)
  BY <1>1, <1>3, <1>4, RedirectedIs
<1>6. QED
  BY <1>1, <1>2, <1>4, <1>5, Zenon

(* Redirecting the calls of the original function.                         *)
LEMMA RedirectedOriginal ==
  ASSUME NEW old, NEW new
  PROVE  Redirected(Original(old), old, new) = Original(new)
<1>1. PICK f : f = Original(old)
  OBVIOUS
<1>2. f.callee = old
  BY <1>1 DEF Original, Entry
<1>3. Redirected(f, old, new) = WithCallee(f, new)
  BY <1>2, RedirectedIs
<1>4. WithCallee(Original(old), new) = Original(new)
  BY Changed
<1>5. QED
  BY <1>1, <1>3, <1>4, Zenon

(* Stubbing redirects the call in the original function and no other.      *)
LEMMA StubAll ==
  ASSUME NEW b, NEW n, NEW back, NEW stub, NEW all, NEW new, b # NoName, back # b,
         all = <<Original(b), Part("scop", b, NoName, n), Part("fallback", back, NoName, n),
                 Part("stub", stub, back, n)>>,
         new = [i \in DOMAIN all |-> Redirected(all[i], b, stub)]
  PROVE  new = <<Original(stub), Part("scop", b, NoName, n), Part("fallback", back, NoName, n),
                 Part("stub", stub, back, n)>>
<1>1. PICK f1, f2, f3, f4 :
        /\ f1 = Original(b) /\ f2 = Part("scop", b, NoName, n)
        /\ f3 = Part("fallback", back, NoName, n) /\ f4 = Part("stub", stub, back, n)
  OBVIOUS
<1>2. DOMAIN all = 1..4 /\ all[1] = f1 /\ all[2] = f2 /\ all[3] = f3 /\ all[4] = f4
  BY <1>1
<1>3. Redirected(f1, b, stub) = Original(stub)
  BY <1>1, RedirectedOriginal
<1>4. Redirected(f2, b, stub) = f2
  <2>1. PICK r, none : r = "scop" /\ none = NoName
    OBVIOUS
  <2>2. Redirected(Part(r, b, none, n), b, stub) = Part(r, b, IF none = b THEN stub ELSE none, n)
    BY RedirectedPart
  <2>3. QED
    BY <1>1, <2>1, <2>2
<1>5. Redirected(f3, b, stub) = f3
  <2>1. PICK r, none : r = "fallback" /\ none = NoName
    OBVIOUS
  <2>2. Redirected(Part(r, back, none, n), b, stub)
          = Part(r, back, IF none = b THEN stub ELSE none, n)
    BY RedirectedPart
  <2>3. QED
    BY <1>1, <2>1, <2>2
<1>6. Redirected(f4, b, stub) = f4
  <2>1. PICK r : r = "stub"
    OBVIOUS
  <2>2. Redirected(Part(r, stub, back, n), b, stub)
          = Part(r, stub, IF back = b THEN stub ELSE back, n)
    BY RedirectedPart
  <2>3. QED
    BY <1>1, <2>1, <2>2
<1>7. PICK g1 : g1 = Original(stub)
  OBVIOUS
<1>8. /\ new = [i \in 1..4 |-> new[i]]
      /\ new[1] = g1 /\ new[2] = f2 /\ new[3] = f3 /\ new[4] = f4
  BY <1>2, <1>3, <1>4, <1>5, <1>6, <1>7
<1>9. <<g1, f2, f3, f4>>
        = [i \in 1..4 |-> IF i = 1 THEN g1 ELSE IF i = 2 THEN f2 ELSE IF i = 3 THEN f3 ELSE f4]
  OBVIOUS
<1>10. new = <<g1, f2, f3, f4>>
  BY <1>8, <1>9
<1>11. QED
  BY <1>1, <1>7, <1>10

(* After Instrument the call goes to the stub.                             *)
LEMMA InstrumentStaged ==
  ASSUME Domains, NEW u \in Units, Staged(u), Instrument(u)
  PROVE  /\ Staged(u)' /\ pass[u] = "instrument" /\ pass'[u] = "visit" /\ at'[u] = 2
         /\ proto' = proto
<1>1. /\ pass[u] = "instrument" /\ pass'[u] = "visit" /\ source' = source
      /\ at'[u] = at[u] + 1 /\ scop' = scop /\ body' = body /\ proto' = proto
      /\ slots'[u] = Slots(u)
  BY DEF Instrument, Compiling, Domains
<1>2. PICK gs \in GlobalsUsed(Lower(source[u].body)) : Made(u, gs) /\ Backed(u, Len(gs))
  BY <1>1, Positions
<1>3. PICK n, l : n = Len(gs) /\ l = lastUnique[u]
  OBVIOUS
<1>4. /\ scop[u] = 2 /\ at[u] = 1 /\ l \in Nat /\ l >= 1
      /\ functions[u] = <<Original(Base(u)), Part("scop", Base(u), NoName, n),
                          Part("fallback", Suffix(u, l), NoName, n)>>
  BY <1>2, <1>3 DEF Backed, Staged
<1>5. /\ Len(functions[u]) = 3 /\ functions[u][2] = Part("scop", Base(u), NoName, n)
      /\ functions[u][3] = Part("fallback", Suffix(u, l), NoName, n)
      /\ 2 \in DOMAIN functions[u]
  BY <1>4
<1>6. F(u) = Part("scop", Base(u), NoName, n) /\ F(u).name = Base(u) /\ F(u).name \in Taken(u)
  BY <1>4, <1>5, FIs, Zenon
<1>7. FallbackOf(u) = Suffix(u, l)
  <2>1. FallbackOf(u) = functions[u][3].name
    BY <1>5 DEF FallbackOf
  <2>2. PICK r, name, none : r = "fallback" /\ name = Suffix(u, l) /\ none = NoName
    OBVIOUS
  <2>3. Part(r, name, none, n).name = name
    BY DEF Part, Entry
  <2>4. QED
    BY <1>5, <2>1, <2>2, <2>3, Zenon
<1>8. PICK stub : stub = Suffix(u, l + 1)
  OBVIOUS
<1>9. Clone(u, "stub", FallbackOf(u)) = Part("stub", stub, Suffix(u, l), n)
  BY <1>3, <1>4, <1>6, <1>7, <1>8, CloneIs
<1>10. Clone(u, "stub", FallbackOf(u)).name = stub
  BY <1>9 DEF Part, Entry
<1> DEFINE all == Append(functions[u], Clone(u, "stub", FallbackOf(u)))
<1>11. functions'[u] = [i \in DOMAIN all |-> Redirected(all[i], F(u).name,
                                                Clone(u, "stub", FallbackOf(u)).name)]
  BY Zenon DEF Instrument, Domains, Redirected
<1>12. all = <<Original(Base(u)), Part("scop", Base(u), NoName, n),
               Part("fallback", Suffix(u, l), NoName, n), Part("stub", stub, Suffix(u, l), n)>>
  BY <1>4, <1>9, AppendToThree
<1>13. Base(u) # NoName /\ Suffix(u, l) # Base(u)
  BY <1>4, Assumptions DEF Base, Suffix, NoName, IsSource, Staged
<1>14. functions'[u] = [i \in DOMAIN all |-> Redirected(all[i], Base(u), stub)]
  BY <1>6, <1>10, <1>11
<1> HIDE DEF all
<1>15. functions'[u] = <<Original(stub), Part("scop", Base(u), NoName, n),
               Part("fallback", Suffix(u, l), NoName, n), Part("stub", stub, Suffix(u, l), n)>>
  <2>1. PICK b, back, new : b = Base(u) /\ back = Suffix(u, l) /\ new = functions'[u]
    OBVIOUS
  <2>2. new = <<Original(stub), Part("scop", b, NoName, n), Part("fallback", back, NoName, n),
                Part("stub", stub, back, n)>>
    BY <1>12, <1>13, <1>14, <2>1, StubAll
  <2>3. QED
    BY <2>1, <2>2, Zenon
<1>16. lastUnique'[u] = l + 1
  BY <1>3, <1>6 DEF Instrument, Count, Domains
<1>17. Slots(u)' = Slots(u)
  <2>1. functions'[u][2] = Part("scop", Base(u), NoName, n)
    BY <1>15
  <2>2. F(u)' = F(u)
    BY <1>1, <1>4, <1>6, <2>1 DEF F
  <2>3. QED
    BY <1>1, <2>2 DEF Slots, ArgSlot, GlobalSlot
<1>18. at'[u] = 2 /\ (l + 1) - 1 = l
  BY <1>1, <1>4
<1>19. Stubbed(u, Len(gs))'
  BY <1>1, <1>3, <1>4, <1>8, <1>15, <1>16, <1>17, <1>18 DEF Stubbed, Base, Suffix
<1>20. Made(u, gs)'
  BY <1>1, <1>2 DEF Made
<1>21. lastUnique'[u] \in Nat
  BY <1>4, <1>16
<1>22. QED
  BY <1>1, <1>2, <1>18, <1>19, <1>20, <1>21 DEF Staged, Stage

-----------------------------------------------------------------------------
(* What has been made of a unit is known at every step.                    *)
LEMMA StagesInit == Init => Stages
<1>1. SUFFICES ASSUME Init PROVE Stages
  OBVIOUS
<1>2. Domains
  <2>1. DOMAIN lastUnique = Units
    BY <1>1 DEF Init
  <2>2. QED
    BY <1>1, <2>1 DEF Init, Domains
<1>3. ASSUME NEW u \in Units PROVE Staged(u)
  <2>1. source[u] \in Sources[u] /\ lastUnique[u] \in Counters[u]
    BY <1>1 DEF Init
  <2>2. lastUnique[u] \in Nat
    BY <2>1, Assumptions
  <2>3. Original(NoName) = Fn("original", NoName, FALSE, NoName)
    BY DEF Original, Entry, Fn
  <2>4. Fresh(u)
    BY <1>1, <2>3 DEF Init, Fresh
  <2>5. QED
    BY <2>1, <2>2, <2>4 DEF Staged, Early
<1>4. QED
  BY <1>2, <1>3 DEF Stages

(* After linking the units stay as they are.                               *)
CallStep(u) == CallFaults(u) \/ CallVariant(u) \/ CallFallback(u)

(* Every step of the pass leads from one stage to the next.                *)
LEMMA PassStaged ==
  ASSUME Domains, NEW u \in Units, Staged(u), PassStep(u)
  PROVE  Staged(u)'
  BY SkipStaged, ExtractStaged, PrototypeStaged, TestStaged, FallbackStaged, InstrumentStaged
     DEF PassStep

(* Linking and calling leave the pass alone.                               *)
LEMMA CallsKeep ==
  ASSUME Link \/ \E u \in Units : CallStep(u)
  PROVE  UNCHANGED <<source, unitVars, testVars>>
<1>1. CASE Link
  BY <1>1 DEF Link
<1>2. ASSUME NEW u \in Units, CallStep(u)
      PROVE  UNCHANGED <<source, unitVars, testVars>> /\ order' = order
  BY <1>2 DEF CallStep, CallFaults, CallVariant, CallFallback
<1>3. QED
  BY <1>1, <1>2

(* Every step keeps every unit at the stage it tells.                      *)
LEMMA StagesStep ==
  ASSUME Stages, [Next]_vars
  PROVE  Stages'
<1>1. ASSUME UNCHANGED <<source, unitVars, testVars>> PROVE Stages'
  <2>1. \A v \in Units : Same(v)
    BY <1>1 DEF Same, unitVars
  <2>2. Domains'
    BY <1>1 DEF Stages, Domains, unitVars, testVars
  <2>3. QED
    BY <2>1, <2>2, SameStaged DEF Stages
<1>2. ASSUME NEW u \in Units, PassStep(u) PROVE Stages'
  <2>1. Domains /\ Staged(u)
    BY DEF Stages
  <2>2. Staged(u)'
    BY <1>2, <2>1, PassStaged
  <2>3. Domains' /\ \A v \in Units \ {u} : Same(v)
    BY <1>2, <2>1, Others
  <2>4. \A v \in Units \ {u} : Staged(v)'
    BY <2>3, SameStaged DEF Stages
  <2>5. QED
    BY <2>2, <2>3, <2>4 DEF Stages
<1>3. CASE UNCHANGED vars
  BY <1>1, <1>3 DEF vars
<1>4. QED
  BY <1>1, <1>2, <1>3, CallsKeep DEF Next, CallStep

-----------------------------------------------------------------------------
(* The table of regression tests.                                          *)

Past(u) == scop[u] = 2 /\ pass[u] # "prototype"
IsRow(row, u) == row = [name |-> Base(u), module |-> proto[u], saw |-> row.saw]
HasTest(u) == \E i \in DOMAIN regressions : regressions[i].name = Base(u)

(* An open transaction has at most the row of its unit, and the row knows  *)
(* how much of the table had been there: none of that has its name.        *)
Unseen(row) ==
  /\ row.saw \in Nat /\ row.saw <= Len(regressions)
  /\ \A i \in 1..row.saw : regressions[i].name # row.name
Opened(u) ==
  inserted[u] # <<>> =>
    pass[u] = "commit" /\ \E row : inserted[u] = <<row>> /\ IsRow(row, u) /\ Unseen(row)
Collected(u) ==
  /\ pass[u] = "commit" => HasTest(u) \/ inserted[u] # <<>>
  /\ Past(u) /\ pass[u] \notin {"insert", "commit"} => HasTest(u)

TestInv ==
  /\ \E T : regressions \in Seq(T)
  /\ \A i \in DOMAIN regressions :
       /\ regressions[i].saw \in Nat
       /\ \E u \in Units : Past(u) /\ IsRow(regressions[i], u)
  /\ DuplicatesOverlap
  /\ \A u \in Units : Opened(u) /\ (CollectRegressionTests => Collected(u))

(* No test has been stored in the beginning.                               *)
LEMMA TestInit == Init => TestInv
<1>1. SUFFICES ASSUME Init PROVE TestInv
  OBVIOUS
<1>2. regressions \in Seq({}) /\ DOMAIN regressions = {}
  BY <1>1 DEF Init
<1>3. \A u \in Units : inserted[u] = <<>> /\ pass[u] = "visit" /\ scop[u] = 0
  BY <1>1 DEF Init
<1>4. QED
  BY <1>2, <1>3 DEF TestInv, DuplicatesOverlap, Opened, Collected, Past

(* What a prototype was made of stays as it is.                            *)
LEMMA PastStays ==
  ASSUME Stages, [Next]_vars, NEW v \in Units, Past(v)
  PROVE  Past(v)' /\ proto'[v] = proto[v] /\ Base(v)' = Base(v)
<1>1. CASE UNCHANGED <<source, unitVars, testVars>>
  BY <1>1 DEF Past, Base, unitVars
<1>2. ASSUME NEW u \in Units, PassStep(u) PROVE Past(v)' /\ proto'[v] = proto[v] /\ source' = source
  <2>1. Domains /\ Staged(u)
    BY DEF Stages
  <2>2. source' = source /\ (v # u => Same(v))
    BY <1>2, <2>1, Others
  <2>3. CASE v # u
    BY <2>2, <2>3 DEF Same, Past
  <2>4. CASE v = u
    <3>1. ~Extracted(u) /\ ~Fresh(u)
      BY <2>4 DEF Past, Extracted, Fresh
    <3>2. scop'[u] = 2 /\ proto'[u] = proto[u] /\ pass'[u] # "prototype"
      <4>1. CASE Skip(u)
        BY <2>1, <2>4, <4>1 DEF Skip, Past
      <4>2. CASE Extract(u)
        BY <2>1, <3>1, <4>2, ExtractFresh
      <4>3. CASE MakePrototype(u)
        BY <2>1, <3>1, <4>3, PrototypeStaged
      <4>4. CASE InsertTest(u) \/ Commit(u)
        BY <2>1, <2>4, <4>4, TestStaged DEF InsertTest, Commit, Past
      <4>5. CASE MakeFallback(u)
        BY <2>1, <2>4, <4>5, FallbackStaged DEF MakeFallback, Past
      <4>6. CASE Instrument(u)
        BY <2>1, <2>4, <4>6, InstrumentStaged DEF Instrument, Past
      <4>7. QED
        BY <1>2, <4>1, <4>2, <4>3, <4>4, <4>5, <4>6 DEF PassStep
    <3>3. QED
      BY <2>2, <2>4, <3>2 DEF Past
  <2>5. QED
    BY <2>3, <2>4
<1>3. CASE UNCHANGED vars
  BY <1>1, <1>3 DEF vars
<1>4. QED
  BY <1>1, <1>2, <1>3, CallsKeep DEF Next, CallStep, Base
(* Rows are only added.                                                    *)
Grows ==
  /\ Len(regressions) \in Nat /\ DOMAIN regressions = 1..Len(regressions)
  /\ Len(regressions') \in Nat /\ DOMAIN regressions' = 1..Len(regressions')
  /\ Len(regressions) <= Len(regressions')
  /\ \A i \in DOMAIN regressions : regressions'[i] = regressions[i]

(* A unit that is left alone stays as the tests know it.                   *)
LEMMA OthersOpened ==
  ASSUME NEW v \in Units, Same(v), Grows, inserted'[v] = inserted[v],
         Opened(v), CollectRegressionTests => Collected(v)
  PROVE  Opened(v)' /\ (CollectRegressionTests => Collected(v)')
<1>1. Base(v)' = Base(v) /\ proto'[v] = proto[v] /\ pass'[v] = pass[v] /\ (Past(v)' <=> Past(v))
  BY DEF Same, Base, Past
<1>2. ASSUME NEW row, Unseen(row) PROVE Unseen(row)'
  BY <1>2 DEF Grows, Unseen
<1>3. ASSUME NEW row, IsRow(row, v) PROVE IsRow(row, v)'
  BY <1>1, <1>3 DEF IsRow
<1>4. Opened(v)'
  BY <1>1, <1>2, <1>3 DEF Opened
<1>5. HasTest(v) => HasTest(v)'
  BY <1>1 DEF HasTest, Grows
<1>6. QED
  BY <1>1, <1>4, <1>5 DEF Collected

(* Rows of the test store stay those of units past the prototype.          *)
LEMMA RowsStay ==
  ASSUME Stages, TestInv, [Next]_vars, NEW i \in DOMAIN regressions, NEW row, row = regressions[i]
  PROVE  \E u \in Units : Past(u)' /\ IsRow(row, u)'
<1>1. PICK u \in Units : Past(u) /\ IsRow(row, u)
  BY DEF TestInv
<1>2. Past(u)' /\ proto'[u] = proto[u] /\ Base(u)' = Base(u)
  BY <1>1, PastStays
<1>3. IsRow(row, u)'
  BY <1>1, <1>2 DEF IsRow
<1>4. QED
  BY <1>2, <1>3

(* Steps that leave the table alone.                                       *)
LEMMA UnchangedRows ==
  ASSUME Stages, TestInv, [Next]_vars, regressions' = regressions
  PROVE  /\ \E T : regressions' \in Seq(T)
         /\ \A i \in DOMAIN regressions' :
              /\ regressions'[i].saw \in Nat
              /\ \E u \in Units : Past(u)' /\ IsRow(regressions[i], u)'
         /\ DuplicatesOverlap' /\ Grows
<1>1. \E T : regressions' \in Seq(T)
  BY DEF TestInv
<1>2. ASSUME NEW i \in DOMAIN regressions'
      PROVE  /\ regressions'[i].saw \in Nat
             /\ \E u \in Units : Past(u)' /\ IsRow(regressions[i], u)'
  <2>1. PICK row : row = regressions[i]
    OBVIOUS
  <2>2. row = regressions'[i]
    BY <2>1
  <2>3. PICK u \in Units : Past(u)' /\ IsRow(row, u)'
    BY <2>1, RowsStay
  <2>4. IsRow(regressions[i], u)'
    BY <2>2, <2>3 DEF IsRow
  <2>5. QED
    BY <2>3, <2>4 DEF TestInv
<1>3. DuplicatesOverlap'
  BY DEF TestInv, DuplicatesOverlap
<1>4. Grows
  <2>1. Len(regressions) \in Nat /\ DOMAIN regressions = 1..Len(regressions)
    BY DEF TestInv
  <2>2. QED
    BY <2>1 DEF Grows
<1>5. QED
  BY <1>1, <1>2, <1>3, <1>4

(* What each step of the pass does about the unit's own test.              *)
LEMMA OwnTest ==
  ASSUME Stages, TestInv, NEW u \in Units, PassStep(u), regressions' = regressions
  PROVE  Opened(u)' /\ (CollectRegressionTests => Collected(u)')
<1>1. Domains /\ Staged(u) /\ Opened(u) /\ (CollectRegressionTests => Collected(u))
  BY DEF Stages, TestInv
<1>2. CASE inserted' = inserted /\ pass'[u] = pass[u] /\ proto' = proto /\ source' = source
             /\ scop'[u] = scop[u]
  BY <1>1, <1>2 DEF Opened, Collected, IsRow, Unseen, HasTest, Past, Base
<1>3. CASE Skip(u)
  BY <1>2, <1>3 DEF Skip, testVars
<1>4. CASE Extract(u)
  <2>1. Fresh(u) /\ Extracted(u)'
    BY <1>1, <1>4, ExtractFresh, ExtractStaged
  <2>2. inserted[u] = <<>> /\ inserted' = inserted
    BY <1>1, <1>4, <2>1 DEF Extract, testVars, Opened, Fresh
  <2>3. QED
    BY <2>1, <2>2 DEF Opened, Collected, Extracted, Past
<1>5. CASE MakePrototype(u)
  <2>1. /\ Extracted(u) /\ inserted' = inserted
        /\ pass'[u] = IF CollectRegressionTests THEN "insert" ELSE "fallback"
    BY <1>1, <1>5, PrototypeStaged DEF MakePrototype, testVars
  <2>2. inserted[u] = <<>>
    BY <1>1, <2>1 DEF Opened, Extracted
  <2>3. QED
    BY <2>1, <2>2 DEF Opened, Collected, Past
<1>6. CASE InsertTest(u)
  <2>1. PICK gs \in GlobalsUsed(Lower(source[u].body)) : Prototyped(u, Len(gs))
    BY <1>1, <1>6, Positions DEF InsertTest, Compiling
  <2>2. F(u).name = Base(u)
    <3>1. scop[u] = 2 /\ functions[u][2] = Part("scop", Base(u), NoName, Len(gs))
      BY <2>1 DEF Prototyped
    <3>2. QED
      BY <3>1 DEF F, Part, Entry
  <2>3. /\ proto' = proto /\ source' = source /\ pass'[u] = "commit"
        /\ inserted'[u] = IF WhereNotExists(u, regressions) THEN <<Row(u, regressions)>> ELSE <<>>
    BY <1>1, <1>6 DEF InsertTest, Domains
  <2>4. PICK row : row = Row(u, regressions)
    OBVIOUS
  <2>5. row = [name |-> Base(u), module |-> proto[u], saw |-> Len(regressions)]
    BY <2>2, <2>4 DEF Row
  <2>6. IsRow(row, u)'
    BY <2>3, <2>5 DEF IsRow, Base
  <2>7. Len(regressions) \in Nat /\ DOMAIN regressions = 1..Len(regressions)
    BY DEF TestInv
  <2>8. CASE WhereNotExists(u, regressions)
    <3>1. \A i \in DOMAIN regressions : regressions[i].name # Base(u)
      BY <2>2, <2>8 DEF WhereNotExists
    <3>2. Unseen(row)'
      BY <2>5, <2>7, <3>1 DEF Unseen
    <3>3. inserted'[u] = <<row>> /\ <<row>> # <<>>
      BY <2>3, <2>4, <2>8
    <3>4. QED
      BY <2>3, <2>6, <3>2, <3>3 DEF Opened, Collected
  <2>9. CASE ~WhereNotExists(u, regressions)
    <3>1. \E i \in DOMAIN regressions : regressions[i].name = Base(u)
      BY <2>2, <2>9 DEF WhereNotExists
    <3>2. HasTest(u)'
      BY <2>3, <3>1 DEF HasTest, Base
    <3>3. inserted'[u] = <<>>
      BY <2>3, <2>9
    <3>4. QED
      BY <2>3, <3>2, <3>3 DEF Opened, Collected
  <2>10. QED
    BY <2>8, <2>9
<1>7. CASE Commit(u)
  <2>1. regressions' = regressions \o inserted[u] /\ inserted'[u] = <<>> /\ pass'[u] = "fallback"
        /\ source' = source
    BY <1>1, <1>7 DEF Commit, Committed, Domains
  <2>2. pass[u] = "commit"
    BY <1>7 DEF Commit, Compiling
  <2>3. CASE inserted[u] = <<>>
    BY <1>1, <2>1, <2>2, <2>3 DEF Opened, Collected, HasTest, Base
  <2>4. CASE inserted[u] # <<>>
    <3>1. PICK row : inserted[u] = <<row>>
      BY <1>1, <2>4 DEF Opened
    <3>2. PICK T : regressions \in Seq(T)
      BY DEF TestInv
    <3>3. Len(regressions \o <<row>>) = Len(regressions) + 1 /\ Len(regressions) \in Nat
      BY <3>2
    <3>4. FALSE
      BY <2>1, <3>1, <3>3
    <3>5. QED
      BY <3>4
  <2>5. QED
    BY <2>3, <2>4
<1>8. CASE MakeFallback(u) \/ Instrument(u)
  <2>1. /\ pass[u] \in {"fallback", "instrument"} /\ pass'[u] \in {"instrument", "visit"}
        /\ inserted' = inserted /\ source' = source /\ scop' = scop
    BY <1>1, <1>8, FallbackStaged, InstrumentStaged
       DEF MakeFallback, Instrument, testVars
  <2>2. PICK gs \in GlobalsUsed(Lower(source[u].body)) :
          Prototyped(u, Len(gs)) \/ Backed(u, Len(gs))
    BY <1>1, <2>1, Positions
  <2>3. Past(u)
    BY <2>2 DEF Past, Prototyped, Backed
  <2>4. inserted[u] = <<>>
    BY <1>1, <2>1 DEF Opened
  <2>5. CollectRegressionTests => HasTest(u)'
    BY <1>1, <2>1, <2>3 DEF Collected, HasTest, Base
  <2>6. QED
    BY <2>1, <2>4, <2>5 DEF Opened, Collected
<1>9. QED
  BY <1>3, <1>4, <1>5, <1>6, <1>7, <1>8 DEF PassStep
(* A commit adds the row of its unit, if there is one: its name is not in  *)
(* the part of the table that the statement saw.                           *)
LEMMA AddedRow ==
  ASSUME Stages, TestInv, [Next]_vars, NEW u \in Units, Commit(u),
         NEW row, inserted[u] = <<row>>, IsRow(row, u), Unseen(row)
  PROVE  /\ \E T : regressions' \in Seq(T)
         /\ \A i \in DOMAIN regressions' :
              /\ regressions'[i].saw \in Nat
              /\ \E v \in Units : Past(v)' /\ IsRow(regressions[i], v)'
         /\ DuplicatesOverlap' /\ Grows /\ HasTest(u)'
<1>1. Domains /\ Staged(u)
  BY DEF Stages
<1>2. /\ regressions' = regressions \o <<row>> /\ source' = source /\ proto' = proto
      /\ scop' = scop /\ pass[u] = "commit" /\ pass'[u] = "fallback"
  BY <1>1 DEF Commit, Committed, Compiling, Domains
<1>3. PICK T : regressions \in Seq(T)
  BY DEF TestInv
<1>4. PICK U : U = T \cup {row}
  OBVIOUS
<1>5. PICK n : n = Len(regressions)
  OBVIOUS
<1>6. regressions \in Seq(U) /\ <<row>> \in Seq(U) /\ n \in Nat /\ DOMAIN regressions = 1..n
  <2>1. \A i \in DOMAIN regressions : regressions[i] \in U
    BY <1>3, <1>4, ElementOfSeq
  <2>2. QED
    BY <1>3, <1>4, <1>5, <2>1
<1>7. /\ regressions' \in Seq(U) /\ Len(regressions') = n + 1 /\ DOMAIN regressions' = 1..(n + 1)
      /\ \A i \in 1..n : regressions'[i] = regressions[i]
      /\ regressions'[n + 1] = row
  BY <1>2, <1>5, <1>6
<1>8. Past(u)' /\ IsRow(row, u)'
  <2>1. PICK gs \in GlobalsUsed(Lower(source[u].body)) : Prototyped(u, Len(gs))
    BY <1>1, <1>2, Positions
  <2>2. QED
    BY <1>2, <2>1 DEF Past, Prototyped, IsRow, Base
<1>9. ASSUME NEW i \in DOMAIN regressions'
      PROVE  /\ regressions'[i].saw \in Nat
             /\ \E v \in Units : Past(v)' /\ IsRow(regressions[i], v)'
  <2>1. CASE i = n + 1
    <3>1. regressions'[i] = row
      BY <1>7, <2>1
    <3>2. IsRow(regressions[i], u)'
      BY <1>8, <3>1 DEF IsRow
    <3>3. QED
      BY <1>8, <3>1, <3>2 DEF Unseen
  <2>2. CASE i # n + 1
    <3>1. i \in DOMAIN regressions /\ regressions'[i] = regressions[i]
      BY <1>6, <1>7, <2>2
    <3>2. PICK other : other = regressions[i]
      OBVIOUS
    <3>3. PICK v \in Units : Past(v)' /\ IsRow(other, v)'
      BY <3>1, <3>2, RowsStay
    <3>4. IsRow(regressions[i], v)'
      BY <3>1, <3>2, <3>3 DEF IsRow
    <3>5. QED
      BY <3>1, <3>3, <3>4 DEF TestInv
  <2>3. QED
    BY <2>1, <2>2
<1>10. ASSUME NEW i \in DOMAIN regressions', NEW j \in DOMAIN regressions', i < j,
              regressions'[i].name = regressions'[j].name
       PROVE  regressions'[j].saw < i
  <2>1. i \in 1..n /\ regressions'[i] = regressions[i]
    BY <1>6, <1>7, <1>10
  <2>2. CASE j = n + 1
    <3>1. regressions'[j] = row /\ regressions[i].name = row.name
      BY <1>7, <1>10, <2>1, <2>2
    <3>2. i \notin 1..row.saw /\ row.saw \in Nat
      BY <3>1 DEF Unseen
    <3>3. QED
      BY <1>6, <2>1, <3>1, <3>2
  <2>3. CASE j # n + 1
    <3>1. j \in 1..n /\ regressions'[j] = regressions[j]
      BY <1>6, <1>7, <2>3
    <3>2. QED
      BY <1>6, <1>10, <2>1, <3>1 DEF TestInv, DuplicatesOverlap
  <2>4. QED
    BY <2>2, <2>3
<1>11. Grows
  BY <1>5, <1>6, <1>7 DEF Grows
<1>12. HasTest(u)'
  <2>1. n + 1 \in DOMAIN regressions' /\ regressions'[n + 1].name = Base(u)'
    BY <1>6, <1>7, <1>8 DEF IsRow
  <2>2. QED
    BY <2>1 DEF HasTest
<1>13. QED
  BY <1>7, <1>9, <1>10, <1>11, <1>12 DEF DuplicatesOverlap

(* Every step keeps the invariant of the tests.                            *)
LEMMA TestStep ==
  ASSUME Stages, TestInv, [Next]_vars
  PROVE  TestInv'
<1>1. ASSUME UNCHANGED <<source, unitVars, testVars>> PROVE TestInv'
  <2>1. regressions' = regressions /\ inserted' = inserted /\ \A v \in Units : Same(v)
    BY <1>1 DEF unitVars, testVars, Same
  <2>2. Grows
    BY <2>1, UnchangedRows
  <2>3. \A v \in Units : Opened(v)' /\ (CollectRegressionTests => Collected(v)')
    BY <2>1, <2>2, OthersOpened DEF TestInv
  <2>4. QED
    BY <2>1, <2>3, UnchangedRows DEF TestInv
<1>2. ASSUME NEW u \in Units, PassStep(u) PROVE TestInv'
  <2>1. Domains /\ Staged(u) /\ Opened(u) /\ (CollectRegressionTests => Collected(u))
    BY DEF Stages, TestInv
  <2>2. \A v \in Units \ {u} : Same(v) /\ inserted'[v] = inserted[v]
    <3>1. \A v \in Units \ {u} : Same(v)
      BY <1>2, <2>1, Others
    <3>2. \A v \in Units \ {u} : inserted'[v] = inserted[v]
      BY <1>2, <2>1 DEF PassStep, Skip, Extract, MakePrototype, InsertTest, Commit,
                        MakeFallback, Instrument, testVars, Domains
    <3>3. QED
      BY <3>1, <3>2
  <2>3. CASE regressions' = regressions
    <3>1. Grows
      BY <2>3, UnchangedRows
    <3>2. \A v \in Units \ {u} : Opened(v)' /\ (CollectRegressionTests => Collected(v)')
      BY <2>2, <3>1, OthersOpened DEF TestInv
    <3>3. Opened(u)' /\ (CollectRegressionTests => Collected(u)')
      BY <1>2, <2>3, OwnTest
    <3>4. QED
      BY <2>3, <3>2, <3>3, UnchangedRows DEF TestInv
  <2>4. CASE regressions' # regressions
    <3>1. Commit(u)
      BY <1>2, <2>4 DEF PassStep, Skip, Extract, MakePrototype, InsertTest, MakeFallback,
                        Instrument, testVars
    <3>2. regressions' = regressions \o inserted[u] /\ inserted'[u] = <<>> /\ pass'[u] = "fallback"
      BY <2>1, <3>1 DEF Commit, Committed, Domains
    <3>3. inserted[u] # <<>>
      BY <2>4, <3>2 DEF TestInv
    <3>4. PICK row : inserted[u] = <<row>> /\ IsRow(row, u) /\ Unseen(row)
      BY <2>1, <3>3 DEF Opened
    <3>5. /\ \E T : regressions' \in Seq(T)
          /\ \A i \in DOMAIN regressions' :
               /\ regressions'[i].saw \in Nat
               /\ \E v \in Units : Past(v)' /\ IsRow(regressions[i], v)'
          /\ DuplicatesOverlap' /\ Grows /\ HasTest(u)'
      BY <3>1, <3>4, AddedRow
    <3>6. \A v \in Units \ {u} : Opened(v)' /\ (CollectRegressionTests => Collected(v)')
      BY <2>2, <3>5, OthersOpened DEF TestInv
    <3>7. Opened(u)' /\ Collected(u)'
      BY <3>2, <3>5 DEF Opened, Collected
    <3>8. QED
      BY <3>5, <3>6, <3>7 DEF TestInv
  <2>5. QED
    BY <2>3, <2>4
<1>3. CASE UNCHANGED vars
  BY <1>1, <1>3 DEF vars
<1>4. QED
  BY <1>1, <1>2, <1>3, CallsKeep DEF Next, CallStep
(* What Done says of a unit, and what its function is called.              *)
LEMMA DoneStubbed ==
  ASSUME NEW u \in Units, Staged(u), Done(u)
  PROVE  \E gs \in GlobalsUsed(Lower(source[u].body)) : Made(u, gs) /\ Stubbed(u, Len(gs))
<1>1. pass[u] = "visit" /\ at[u] > Len(functions[u])
  BY DEF Done
<1>2. ~Fresh(u)
  <2>1. SUFFICES ASSUME Fresh(u) PROVE FALSE
    OBVIOUS
  <2>2. Len(functions[u]) = 1 /\ at[u] = 1
    BY <2>1, Positions DEF Fresh
  <2>3. QED
    BY <1>1, <2>2
<1>3. QED
  BY <1>1, <1>2, Positions

(* Past the prototype the function has the name of its source.             *)
LEMMA PastName ==
  ASSUME NEW u \in Units, Staged(u), Past(u)
  PROVE  F(u).name = Base(u)
<1>1. PICK n : functions[u][2] = Part("scop", Base(u), NoName, n)
  <2>1. ~Fresh(u) /\ ~Extracted(u)
    BY DEF Past, Fresh, Extracted
  <2>2. PICK gs \in GlobalsUsed(Lower(source[u].body)) : Stage(u, gs)
    BY <2>1, Positions
  <2>3. CASE Prototyped(u, Len(gs))
    BY <2>3 DEF Prototyped
  <2>4. CASE Backed(u, Len(gs))
    BY <2>4 DEF Backed
  <2>5. CASE Stubbed(u, Len(gs))
    BY <2>5 DEF Stubbed
  <2>6. QED
    BY <2>2, <2>3, <2>4, <2>5 DEF Stage
<1>2. QED
  BY <1>1 DEF Past, F, Part, Entry

ExtractionInv == Stages /\ TestInv

(* At every step it is known what the pass has made of each unit, which    *)
(* rows are in the table, and what an open transaction had seen of it.     *)
THEOREM ExtractionInvariant == Spec => []ExtractionInv
<1>1. Init => ExtractionInv
  BY StagesInit, TestInit DEF ExtractionInv
<1>2. ExtractionInv /\ [Next]_vars => ExtractionInv'
  BY StagesStep, TestStep DEF ExtractionInv
<1>3. QED
  BY <1>1, <1>2, PTL DEF Spec

(* TestsCollected: whoever compiled first, the name of each extracted      *)
(* function leads to a test, and every row is the prototype that a         *)
(* function of this name was compiled to.                                  *)
THEOREM TestsAreCollected == Spec => []TestsCollected
<1>1. ASSUME ExtractionInv PROVE TestsCollected
  <2>1. ASSUME CollectRegressionTests, NEW u \in Units, Done(u)
        PROVE  \E i \in DOMAIN regressions : regressions[i].name = F(u).name
    <3>1. Staged(u) /\ Collected(u)
      BY <1>1, <2>1 DEF ExtractionInv, Stages, TestInv
    <3>2. PICK gs \in GlobalsUsed(Lower(source[u].body)) : Stubbed(u, Len(gs))
      BY <2>1, <3>1, DoneStubbed
    <3>3. Past(u) /\ pass[u] = "visit"
      BY <3>2 DEF Past, Stubbed
    <3>4. HasTest(u)
      BY <3>1, <3>3 DEF Collected
    <3>5. F(u).name = Base(u)
      BY <3>1, <3>3, PastName
    <3>6. QED
      BY <3>4, <3>5 DEF HasTest
  <2>2. ASSUME NEW i \in DOMAIN regressions
        PROVE  \E u \in Units : scop[u] # 0 /\ regressions[i].name = F(u).name
                                            /\ regressions[i].module = proto[u]
    <3>1. PICK u \in Units : Past(u) /\ IsRow(regressions[i], u)
      BY <1>1, <2>2 DEF ExtractionInv, TestInv
    <3>2. F(u).name = Base(u)
      BY <1>1, <3>1, PastName DEF ExtractionInv, Stages
    <3>3. QED
      BY <3>1, <3>2 DEF Past, IsRow
  <2>3. QED
    BY <2>1, <2>2 DEF TestsCollected
<1>2. QED
  BY <1>1, ExtractionInvariant, PTL

(* DuplicatesOverlap: two rows have one name only if the second compiler   *)
(* had looked before the first one committed.                              *)
THEOREM DuplicatesDoOverlap == Spec => []DuplicatesOverlap
<1>1. ExtractionInv => DuplicatesOverlap
  BY DEF ExtractionInv, TestInv
<1>2. QED
  BY <1>1, ExtractionInvariant, PTL

-----------------------------------------------------------------------------
(* What becomes of the instructions.                                       *)

TakenOff(i) == [op   |-> IF Head(i.path) = "gep" THEN "access" ELSE "other",
                path |-> Tail(i.path), root |-> i.root]
OfResult == [op |-> "access", path |-> <<>>, root |-> Local]
Constant(i) == i.op = "access" /\ i.path # <<>>

(* What one instruction becomes when constant expressions are taken out of *)
(* it.                                                                     *)
LEMMA LoweredIs ==
  ASSUME NEW i \in Instrs
  PROVE  /\ Lowered(i) \in Seq(Instrs)
         /\ Constant(i) => ToSet(Lowered(i)) = {TakenOff(i), OfResult}
         /\ ~Constant(i) => ToSet(Lowered(i)) = {i}
<1>1. CASE Constant(i)
  <2>1. Lowered(i) = <<TakenOff(i), OfResult>>
    BY <1>1 DEF Lowered, Constant, TakenOff, OfResult
  <2>2. <<>> \in Seq(Exprs) /\ i.path \in Seq(Exprs) /\ i.root \in Args \cup Globals \cup {Local}
    BY DEF Instrs
  <2>3. Tail(i.path) \in Seq(Exprs)
    BY <1>1, <2>2 DEF Constant
  <2>4. TakenOff(i) \in Instrs /\ OfResult \in Instrs
    BY <2>2, <2>3 DEF Instrs, Ops, TakenOff, OfResult
  <2>5. PICK first, second : first = TakenOff(i) /\ second = OfResult
    OBVIOUS
  <2>6. ToSet(<<first, second>>) = {first, second}
    BY DEF ToSet
  <2>7. QED
    BY <1>1, <2>1, <2>4, <2>5, <2>6
<1>2. CASE ~Constant(i)
  <2>1. Lowered(i) = <<i>>
    BY <1>2 DEF Lowered, Constant
  <2>2. ToSet(<<i>>) = {i}
    BY DEF ToSet
  <2>3. QED
    BY <1>2, <2>1, <2>2
<1>3. QED
  BY <1>1, <1>2

(* What instructions become, all together.                                 *)
LEMMA LowerElements ==
  ASSUME NEW b, b \in Seq(Instrs)
  PROVE  /\ Lower(b) \in Seq(Instrs)
         /\ \A x \in ToSet(Lower(b)) : \E i \in DOMAIN b : x \in ToSet(Lowered(b[i]))
         /\ \A i \in DOMAIN b : \A x \in ToSet(Lowered(b[i])) : x \in ToSet(Lower(b))
<1> DEFINE pieces == [i \in DOMAIN b |-> Lowered(b[i])]
<1>1. \A i \in DOMAIN b : b[i] \in Instrs
  BY ElementOfSeq
<1>2. \A i \in DOMAIN b : Lowered(b[i]) \in Seq(Instrs)
  BY <1>1, LoweredIs
<1>3. DOMAIN b = 1..Len(b) /\ Len(b) \in Nat
  OBVIOUS
<1>4. pieces \in Seq(Seq(Instrs)) /\ DOMAIN pieces = DOMAIN b
  BY <1>2, <1>3
<1>5. \A i \in DOMAIN b : pieces[i] = Lowered(b[i])
  OBVIOUS
<1>6. Lower(b) = FlattenSeq(pieces)
  BY DEF Lower
<1> HIDE DEF pieces
<1>7. Lower(b) \in Seq(Instrs) /\ ToSet(Lower(b)) = UNION {ToSet(pieces[i]) : i \in DOMAIN pieces}
  BY <1>4, <1>6, FlattenElements
<1>8. QED
  BY <1>4, <1>5, <1>7, Zenon

(* GlobalList has the globals that the lowered body uses, each once.       *)
UsedBy(gs, b) == \A j \in DOMAIN gs : \E i \in DOMAIN b : b[i].root = gs[j]
Passed(gs, b) == \A x \in ToSet(Lower(b)) : Selects(x) => x.root \in ToSet(gs)

(* The globals that are passed: each one once, those that are used.        *)
LEMMA GlobalsAre ==
  ASSUME NEW b, b \in Seq(Instrs), NEW gs \in GlobalsUsed(Lower(b))
  PROVE  gs \in Seq(Globals) /\ IsInjective(gs) /\ UsedBy(gs, b) /\ Passed(gs, b)
<1> DEFINE all == Lower(b)
<1>1. /\ gs \in SeqOf(Globals, Cardinality(Globals)) /\ IsInjective(gs)
      /\ ToSet(gs) = {all[i].root : i \in Selected(all)}
  BY DEF GlobalsUsed
<1>2. gs \in Seq(Globals)
  <2>1. Cardinality(Globals) \in Nat
    BY Assumptions, FS_CardinalityType
  <2>2. PICK m \in 0..Cardinality(Globals) : gs \in [1..m -> Globals]
    BY <1>1 DEF SeqOf
  <2>3. QED
    BY <2>1, <2>2
<1>3. all \in Seq(Instrs)
  BY LowerElements
<1> HIDE DEF all
<1>4. ASSUME NEW j \in DOMAIN gs PROVE \E i \in DOMAIN b : b[i].root = gs[j]
  <2>1. gs[j] \in Globals /\ gs[j] \in ToSet(gs)
    BY <1>2, ElementOfSeq DEF ToSet
  <2>2. PICK m \in DOMAIN all : all[m].root = gs[j] /\ Selects(all[m])
    BY <1>1, <2>1 DEF Selected
  <2>3. PICK x : x = all[m]
    OBVIOUS
  <2>4. x \in ToSet(Lower(b))
    BY <2>2, <2>3 DEF ToSet, all
  <2>5. PICK i \in DOMAIN b : x \in ToSet(Lowered(b[i]))
    BY <2>4, LowerElements
  <2>6. b[i] \in Instrs
    BY ElementOfSeq
  <2>7. x.root = b[i].root \/ x.root = Local
    <3>1. CASE Constant(b[i])
      BY <2>5, <2>6, <3>1, LoweredIs DEF TakenOff, OfResult
    <3>2. CASE ~Constant(b[i])
      BY <2>5, <2>6, <3>2, LoweredIs
    <3>3. QED
      BY <3>1, <3>2
  <2>8. QED
    BY <2>1, <2>2, <2>3, <2>7, Assumptions
<1>5. ASSUME NEW x \in ToSet(Lower(b)), Selects(x) PROVE x.root \in ToSet(gs)
  <2>1. PICK m \in DOMAIN all : x = all[m]
    BY <1>5, Zenon DEF ToSet, all
  <2>2. QED
    BY <1>1, <1>5, <2>1 DEF Selected
<1>6. QED
  BY <1>1, <1>2, <1>4, <1>5 DEF UsedBy, Passed

-----------------------------------------------------------------------------
(* The prototype.                                                          *)

LEMMA SourceFacts ==
  ASSUME NEW u \in Units, Staged(u)
  PROVE  /\ source[u].args \in Seq(Args) /\ IsInjective(source[u].args)
         /\ source[u].name \in [Args -> Names \cup {Unnamed}]
         /\ source[u].body \in Seq(Instrs)
         /\ \A i \in DOMAIN source[u].body :
              /\ source[u].body[i].root \in ToSet(source[u].args) \cup Globals
              /\ source[u].body[i].root \in Args => source[u].body[i].path = <<>>
<1>1. IsSource(source[u])
  BY Assumptions DEF Staged
<1>2. QED
  BY <1>1, Zenon DEF IsSource

(* Arguments and globals are apart, and each is there once.                *)
LEMMA MadeArgs ==
  ASSUME NEW u \in Units, Staged(u), NEW gs, Made(u, gs)
  PROVE  /\ gs \in Seq(Globals) /\ source[u].args \in Seq(Args)
         /\ proto[u].args \in Seq(Args \cup Globals) /\ IsInjective(proto[u].args)
         /\ DOMAIN proto[u].args = 1..(Len(source[u].args) + Len(gs))
         /\ \A k \in 1..Len(source[u].args) : proto[u].args[k] = source[u].args[k]
         /\ \A k \in (Len(source[u].args) + 1)..(Len(source[u].args) + Len(gs)) :
              /\ k - Len(source[u].args) \in DOMAIN gs
              /\ proto[u].args[k] = gs[k - Len(source[u].args)]
<1> DEFINE args == source[u].args
           all == proto[u].args
<1>1. args \in Seq(Args) /\ IsInjective(args) /\ source[u].body \in Seq(Instrs)
  BY SourceFacts
<1>2. gs \in Seq(Globals) /\ IsInjective(gs)
  BY <1>1, GlobalsAre DEF Made
<1>3. all = args \o gs
  BY DEF Made
<1> HIDE DEF args, all
<1>4. /\ Len(args) \in Nat /\ Len(gs) \in Nat /\ DOMAIN gs = 1..Len(gs) /\ DOMAIN args = 1..Len(args)
      /\ DOMAIN all = 1..(Len(args) + Len(gs))
      /\ \A k \in 1..(Len(args) + Len(gs)) :
           all[k] = IF k <= Len(args) THEN args[k] ELSE gs[k - Len(args)]
  BY <1>1, <1>2, <1>3
<1>5. /\ \A k \in 1..Len(args) : args[k] \in Args
      /\ \A k \in 1..Len(gs) : gs[k] \in Globals
  BY <1>1, <1>2, <1>4, ElementOfSeq
<1>6. \A k \in 1..Len(args) : all[k] = args[k]
  BY <1>4
<1>7. \A k \in (Len(args) + 1)..(Len(args) + Len(gs)) :
        k - Len(args) \in DOMAIN gs /\ all[k] = gs[k - Len(args)]
  BY <1>4
<1>8. all \in Seq(Args \cup Globals)
  <2>1. args \in Seq(Args \cup Globals)
    BY <1>1, <1>4, <1>5
  <2>2. gs \in Seq(Args \cup Globals)
    BY <1>2, <1>4, <1>5
  <2>3. QED
    BY <1>3, <2>1, <2>2
<1>9. ASSUME NEW j \in DOMAIN all, NEW k \in DOMAIN all, all[j] = all[k] PROVE j = k
  <2>1. CASE j \in 1..Len(args) /\ k \in 1..Len(args)
    BY <1>1, <1>4, <1>6, <1>9, <2>1 DEF IsInjective
  <2>2. CASE j \notin 1..Len(args) /\ k \notin 1..Len(args)
    <3>1. /\ j \in (Len(args) + 1)..(Len(args) + Len(gs))
          /\ k \in (Len(args) + 1)..(Len(args) + Len(gs))
      BY <1>4, <2>2
    <3>2. PICK a, b : a = j - Len(args) /\ b = k - Len(args)
      OBVIOUS
    <3>3. a \in DOMAIN gs /\ b \in DOMAIN gs /\ gs[a] = gs[b]
      BY <1>7, <1>9, <3>1, <3>2
    <3>4. a = b
      BY <1>2, <3>3 DEF IsInjective
    <3>5. QED
      BY <1>4, <3>1, <3>2, <3>4
  <2>3. ASSUME NEW m \in 1..Len(args), NEW n \in DOMAIN all, n \notin 1..Len(args)
        PROVE  all[m] # all[n]
    <3>1. n \in (Len(args) + 1)..(Len(args) + Len(gs))
      BY <1>4, <2>3
    <3>2. PICK b : b = n - Len(args)
      OBVIOUS
    <3>3. b \in 1..Len(gs) /\ all[n] = gs[b] /\ all[m] = args[m]
      BY <1>4, <1>6, <1>7, <3>1, <3>2
    <3>4. all[n] \in Globals /\ all[m] \in Args
      BY <1>5, <3>3
    <3>5. QED
      BY <3>4, Assumptions
  <2>4. QED
    BY <1>9, <2>1, <2>2, <2>3
<1>10. QED
  BY <1>1, <1>2, <1>4, <1>6, <1>7, <1>8, <1>9 DEF IsInjective, args, all
(* Where no argument has the name of a global that the region uses, each   *)
(* argument for a global has the global's name: what is used before it are *)
(* names of arguments and of other globals.                                *)
LEMMA NamesMatch ==
  ASSUME NEW u \in Units, Staged(u), NEW gs, Made(u, gs), NamesApart(u),
         NEW k \in DOMAIN gs
  PROVE  proto[u].names[Len(source[u].args) + k] = gs[k]
<1> DEFINE args == source[u].args
           n == Len(args)
           names == proto[u].names
<1>1. args \in Seq(Args) /\ source[u].body \in Seq(Instrs)
  BY SourceFacts
<1>2. /\ gs \in Seq(Globals) /\ IsInjective(gs)
      /\ UsedBy(gs, source[u].body)
  BY <1>1, GlobalsAre DEF Made
<1>3. /\ n \in Nat /\ DOMAIN args = 1..n /\ Len(gs) \in Nat /\ DOMAIN gs = 1..Len(gs)
  BY <1>1, <1>2
<1>4. \A j \in DOMAIN gs : gs[j] \in Globals
  BY <1>2, ElementOfSeq
<1>5. /\ \A i \in 1..n : names[i] = source[u].name[args[i]]
      /\ \A j \in DOMAIN gs :
           gs[j] \notin {names[i] : i \in 1..(n + j - 1)} => names[n + j] = gs[j]
  BY Zenon DEF Made, ProtoNames
<1>6. ASSUME NEW i \in 1..n, NEW j \in DOMAIN gs PROVE names[i] # gs[j]
  <2>1. args[i] \in ToSet(args)
    BY <1>3, Zenon DEF ToSet
  <2>2. gs[j] \in Globals /\ Uses(u, gs[j]) # {}
    BY <1>2, <1>4 DEF Uses, UsedBy
  <2>3. QED
    BY <1>5, <2>1, <2>2 DEF NamesApart
<1> HIDE DEF args, n, names
<1> DEFINE S == {m \in Nat : \A j \in DOMAIN gs : j <= m => names[n + j] = gs[j]}
<1>7. 0 \in S
  BY <1>3
<1>8. ASSUME NEW m \in Nat, m \in S PROVE m + 1 \in S
  <2>1. SUFFICES ASSUME NEW j \in DOMAIN gs, j = m + 1 PROVE names[n + j] = gs[j]
    BY <1>3, <1>8
  <2>2. ASSUME NEW i \in 1..(n + j - 1) PROVE names[i] # gs[j]
    <3>1. CASE i \in 1..n
      BY <1>6, <3>1
    <3>2. CASE i \notin 1..n
      <4>1. PICK p : p = i - n
        OBVIOUS
      <4>2. p \in DOMAIN gs /\ p <= m /\ n + p = i /\ p # j
        BY <1>3, <2>1, <2>2, <3>2, <4>1
      <4>3. names[i] = gs[p]
        BY <1>8, <4>2
      <4>4. gs[p] # gs[j]
        BY <1>2, <4>2 DEF IsInjective
      <4>5. QED
        BY <4>3, <4>4
    <3>3. QED
      BY <3>1, <3>2
  <2>3. gs[j] \notin {names[i] : i \in 1..(n + j - 1)}
    BY <2>2
  <2>4. QED
    BY <1>5, <2>3
<1> HIDE DEF S
<1>9. k \in Nat /\ k \in S
  BY <1>3, <1>7, <1>8, SetInduction
<1>10. QED
  BY <1>9 DEF S, args, n, names

(* What a stub stores: each slot stands for the prototype's argument, and  *)
(* an address is a global's or that of a pointer the region is given.      *)
IsSlot(u, slot) ==
  /\ slot.kind \in {"address", "copy"}
  /\ slot.of \in Args => slot.of \in ToSet(source[u].args)
  /\ slot.of \in Args /\ slot.kind = "address" => source[u].type[slot.of] = "pointer"

(* The slots of a unit that is done: one for each argument of the          *)
(* prototype, and what is in it.                                           *)
LEMMA SlotsWhenDone ==
  ASSUME NEW u \in Units, Staged(u), Done(u)
  PROVE  /\ DOMAIN slots[u] = DOMAIN proto[u].args
         /\ NamesApart(u) => \A k \in DOMAIN slots[u] :
              IsSlot(u, slots[u][k]) /\ slots[u][k].of = proto[u].args[k]
<1>1. PICK gs \in GlobalsUsed(Lower(source[u].body)) : Made(u, gs) /\ Stubbed(u, Len(gs))
  BY DoneStubbed
<1>2. PICK n, m : n = Len(source[u].args) /\ m = Len(gs)
  OBVIOUS
<1>3. /\ DOMAIN proto[u].args = 1..(n + m) /\ n \in Nat /\ m \in Nat
      /\ \A k \in 1..n : proto[u].args[k] = source[u].args[k]
      /\ \A k \in (n + 1)..(n + m) : k - n \in DOMAIN gs /\ proto[u].args[k] = gs[k - n]
      /\ gs \in Seq(Globals) /\ source[u].args \in Seq(Args)
  <2>1. source[u].args \in Seq(Args) /\ gs \in Seq(Globals)
    BY <1>1, MadeArgs
  <2>2. n \in Nat /\ m \in Nat
    BY <1>2, <2>1
  <2>3. QED
    BY <1>1, <1>2, <2>1, <2>2, MadeArgs
<1>4. F(u).globals = m
  <2>1. scop[u] = 2 /\ functions[u][2] = Part("scop", Base(u), NoName, m)
    BY <1>1, <1>2 DEF Stubbed
  <2>2. QED
    BY <2>1 DEF F, Part, Entry
<1>5. slots[u] = [k \in 1..(n + m) |-> IF k <= n THEN ArgSlot(u, k) ELSE GlobalSlot(u, k)]
  BY <1>1, <1>2, <1>4 DEF Stubbed, Slots
<1>6. ASSUME NamesApart(u), NEW k \in 1..(n + m)
      PROVE  IsSlot(u, slots[u][k]) /\ slots[u][k].of = proto[u].args[k]
  <2>1. CASE k <= n
    <3>1. PICK a : a = source[u].args[k]
      OBVIOUS
    <3>2. k \in DOMAIN source[u].args
      BY <1>2, <1>3, <2>1
    <3>3. a \in ToSet(source[u].args)
      BY <3>1, <3>2 DEF ToSet
    <3>4. slots[u][k] = [kind |-> IF source[u].type[a] = "pointer" THEN "address" ELSE "copy",
                         of |-> a]
      BY <1>5, <2>1, <3>1 DEF ArgSlot
    <3>5. proto[u].args[k] = a
      BY <1>3, <2>1, <3>1
    <3>6. QED
      BY <3>3, <3>4, <3>5 DEF IsSlot
  <2>2. CASE ~ (k <= n)
    <3>1. PICK j : j = k - n
      OBVIOUS
    <3>2. j \in DOMAIN gs /\ proto[u].args[k] = gs[j] /\ n + j = k
      BY <1>3, <2>2, <3>1
    <3>3. proto[u].names[k] = gs[j]
      BY <1>1, <1>2, <1>6, <3>2, NamesMatch
    <3>4. gs[j] \in Globals /\ gs[j] \notin Args
      BY <1>3, <3>2, ElementOfSeq, Assumptions
    <3>5. slots[u][k] = GlobalSlot(u, k)
      BY <1>3, <1>5, <2>2
    <3>6. slots[u][k] = [kind |-> "address", of |-> gs[j]]
      BY <3>3, <3>4, <3>5 DEF GlobalSlot
    <3>7. QED
      BY <3>2, <3>4, <3>6 DEF IsSlot
  <2>3. QED
    BY <2>1, <2>2
<1>7. QED
  BY <1>3, <1>5, <1>6

(* SlotsMatchPrototype: once a unit is done its stub fills a slot for each *)
(* argument of the prototype, and where names are apart each slot with     *)
(* what the argument stands for.                                           *)
THEOREM SlotsDoMatch == Spec => []SlotsMatchPrototype
<1>1. ExtractionInv => SlotsMatchPrototype
  BY SlotsWhenDone DEF SlotsMatchPrototype, ExtractionInv, Stages
<1>2. QED
  BY <1>1, ExtractionInvariant, PTL

-----------------------------------------------------------------------------
(* What of a plain use is left: a global by itself.                        *)
LEMMA PlainLowered ==
  ASSUME NEW u \in Units, Staged(u), PlainUses(u), NEW x \in ToSet(Lower(source[u].body)),
         x.root # Local
  PROVE  /\ x.root \in ToSet(source[u].args) \cup Globals /\ x.path = <<>>
         /\ x.root \in Globals => Uses(u, x.root) # {}
<1> DEFINE b == source[u].body
<1>1. b \in Seq(Instrs)
  BY SourceFacts
<1>2. PICK i \in DOMAIN b : x \in ToSet(Lowered(b[i]))
  BY <1>1, LowerElements
<1>3. b[i] \in Instrs
  BY <1>1, ElementOfSeq
<1>4. /\ b[i].root \in ToSet(source[u].args) \cup Globals
      /\ b[i].root \in Args => b[i].path = <<>>
      /\ source[u].args \in Seq(Args)
  BY SourceFacts
<1>5. b[i].root \in Globals => /\ i \in Uses(u, b[i].root) /\ Len(b[i].path) <= 1
                               /\ b[i].op = "other" => b[i].path = <<>>
  BY DEF PlainUses, Uses
<1>6. b[i].path \in Seq(Exprs) /\ b[i].op \in {"access", "other"}
  BY <1>3 DEF Instrs, Ops
<1>7. b[i].root \notin Globals => b[i].root \in Args
  BY <1>4 DEF ToSet
<1>8. CASE Constant(b[i])
  <2>1. b[i].path # <<>> /\ b[i].root \in Globals
    BY <1>4, <1>7, <1>8 DEF Constant
  <2>2. x = TakenOff(b[i])
    BY <1>2, <1>3, <1>8, LoweredIs DEF OfResult
  <2>3. Tail(b[i].path) = <<>>
    BY <1>5, <1>6, <2>1
  <2>4. QED
    BY <1>5, <2>1, <2>2, <2>3 DEF TakenOff
<1>9. CASE ~Constant(b[i])
  <2>1. x = b[i]
    BY <1>2, <1>3, <1>9, LoweredIs
  <2>2. x.path = <<>>
    BY <1>4, <1>5, <1>6, <1>7, <1>9, <2>1 DEF Constant
  <2>3. QED
    BY <1>4, <1>5, <2>1, <2>2
<1>10. QED
  BY <1>8, <1>9

(* Of a plain use there is an instruction left that selectGV finds.        *)
LEMMA PlainSelected ==
  ASSUME NEW u \in Units, Staged(u), PlainUses(u), NEW g \in Globals, Uses(u, g) # {}
  PROVE  \E y \in ToSet(Lower(source[u].body)) : Selects(y) /\ y.root = g
<1> DEFINE b == source[u].body
<1>1. b \in Seq(Instrs)
  BY SourceFacts
<1>2. PICK i \in Uses(u, g) : b[i].op = "access" /\ b[i].path \in {<<>>, <<"gep">>}
  BY DEF PlainUses
<1>3. i \in DOMAIN b /\ b[i].root = g /\ b[i] \in Instrs
  BY <1>1, ElementOfSeq DEF Uses
<1>4. ToSet(<<>>) = {}
  BY DEF ToSet
<1>5. CASE b[i].path = <<>>
  <2>1. ToSet(Lowered(b[i])) = {b[i]}
    BY <1>3, <1>5, LoweredIs DEF Constant
  <2>2. b[i] \in ToSet(Lower(b))
    BY <1>1, <1>3, <2>1, LowerElements
  <2>3. Selects(b[i])
    BY <1>2, <1>3, <1>4, <1>5 DEF Selects
  <2>4. QED
    BY <1>3, <2>2, <2>3
<1>6. CASE b[i].path = <<"gep">>
  <2>1. PICK y : y = TakenOff(b[i])
    OBVIOUS
  <2>2. y \in ToSet(Lowered(b[i]))
    <3>1. Constant(b[i])
      BY <1>2, <1>6 DEF Constant
    <3>2. ToSet(Lowered(b[i])) = {TakenOff(b[i]), OfResult}
      BY <1>3, <3>1, LoweredIs
    <3>3. QED
      BY <2>1, <3>2
  <2>3. y \in ToSet(Lower(b))
    BY <1>1, <1>3, <2>2, LowerElements
  <2>4. y.op = "access" /\ y.path = <<>> /\ y.root = g
    BY <1>3, <1>6, <2>1 DEF TakenOff
  <2>5. QED
    BY <1>4, <2>3, <2>4 DEF Selects
<1>7. QED
  BY <1>2, <1>5, <1>6

(* Arguments and globals alike are arguments of the prototype.             *)
LEMMA MadeHas ==
  ASSUME NEW u \in Units, Staged(u), NEW gs, Made(u, gs), NEW x,
         x \in ToSet(source[u].args) \/ x \in ToSet(gs)
  PROVE  x \in ToSet(proto[u].args)
<1> DEFINE args == source[u].args
           all == proto[u].args
<1>1. args \in Seq(Args) /\ gs \in Seq(Globals) /\ all = args \o gs
  BY MadeArgs DEF Made
<1> HIDE DEF args, all
<1>2. /\ Len(args) \in Nat /\ Len(gs) \in Nat /\ DOMAIN args = 1..Len(args)
      /\ DOMAIN gs = 1..Len(gs) /\ DOMAIN all = 1..(Len(args) + Len(gs))
      /\ \A k \in 1..Len(args) : all[k] = args[k]
      /\ \A k \in 1..Len(gs) : all[Len(args) + k] = gs[k]
  BY <1>1
<1>3. CASE x \in ToSet(args)
  <2>1. PICK k \in 1..Len(args) : x = args[k]
    BY <1>2, <1>3, Zenon DEF ToSet
  <2>2. k \in DOMAIN all /\ x = all[k]
    BY <1>2, <2>1
  <2>3. QED
    BY <2>2 DEF ToSet, all
<1>4. CASE x \in ToSet(gs)
  <2>1. PICK k \in 1..Len(gs) : x = gs[k]
    BY <1>2, <1>4, Zenon DEF ToSet
  <2>2. PICK j : j = Len(args) + k
    OBVIOUS
  <2>3. j \in DOMAIN all /\ x = all[j]
    BY <1>2, <2>1, <2>2
  <2>4. QED
    BY <2>3 DEF ToSet, all
<1>5. QED
  BY <1>3, <1>4 DEF args

(* PrototypeClosed: the body of a prototype refers to nothing but its own  *)
(* arguments, where the region's globals have plain uses.                  *)
LEMMA ClosedWhenDone ==
  ASSUME NEW u \in Units, Staged(u), Done(u), PlainUses(u)
  PROVE  Closed(u)
<1>1. PICK gs \in GlobalsUsed(Lower(source[u].body)) : Made(u, gs) /\ Stubbed(u, Len(gs))
  BY DoneStubbed
<1>2. proto[u].body = Lower(source[u].body) /\ source[u].body \in Seq(Instrs)
  BY <1>1, SourceFacts DEF Made
<1>3. Passed(gs, source[u].body)
  BY <1>1, <1>2, GlobalsAre
<1>4. ASSUME NEW k \in DOMAIN proto[u].body PROVE Maps(u, proto[u].body[k])
  <2>1. PICK x : x = proto[u].body[k]
    OBVIOUS
  <2>2. x \in ToSet(Lower(source[u].body))
    BY <1>2, <2>1, Zenon DEF ToSet
  <2>3. SUFFICES ASSUME x.root # Local PROVE x.root \in ToSet(proto[u].args) /\ x.path = <<>>
    BY <2>1 DEF Maps
  <2>4. /\ x.root \in ToSet(source[u].args) \cup Globals /\ x.path = <<>>
        /\ x.root \in Globals => Uses(u, x.root) # {}
    BY <2>2, <2>3, PlainLowered
  <2>5. PICK r : r = x.root
    OBVIOUS
  <2>6. r \in ToSet(source[u].args) \/ r \in ToSet(gs)
    <3>1. CASE r \in Globals
      <4>1. PICK y \in ToSet(Lower(source[u].body)) : Selects(y) /\ y.root = r
        BY <2>4, <2>5, <3>1, PlainSelected
      <4>2. QED
        BY <1>3, <4>1 DEF Passed
    <3>2. QED
      BY <2>4, <2>5, <3>1
  <2>7. r \in ToSet(proto[u].args)
    BY <1>1, <2>6, MadeHas
  <2>8. QED
    BY <2>4, <2>5, <2>7
<1>5. QED
  BY <1>4 DEF Closed

(* PrototypeClosed: a prototype can be moved to a module of its own, also  *)
(* where the region used globals inside constant expressions.              *)
THEOREM PrototypesAreClosed == Spec => []PrototypeClosed
<1>1. ExtractionInv => PrototypeClosed
  BY ClosedWhenDone DEF PrototypeClosed, ExtractionInv, Stages
<1>2. QED
  BY <1>1, ExtractionInvariant, PTL

-----------------------------------------------------------------------------
(* Linking.                                                                *)

(* The linker sees the units in some order, each once, when all are done.  *)
Linked ==
  \/ order = <<>>
  \/ /\ order \in [1..Cardinality(Units) -> Units] /\ IsInjective(order)
     /\ \A u \in Units : Done(u)

(* The pass is through with a unit that is done.                           *)
LEMMA PassNotDone ==
  ASSUME NEW u \in Units, Staged(u), PassStep(u)
  PROVE  ~Done(u) /\ order' = order /\ ran' = ran
<1>1. order' = order /\ ran' = ran /\ at[u] <= Len(functions[u])
  BY DEF PassStep, Skip, Extract, MakePrototype, InsertTest, Commit, MakeFallback, Instrument,
         Compiling
<1>2. SUFFICES ASSUME Done(u) PROVE FALSE
  BY <1>1
<1>3. PICK n : Stubbed(u, n)
  BY <1>2, DoneStubbed
<1>4. Len(functions[u]) = 4 /\ at[u] \in 2..5
  BY <1>3 DEF Stubbed
<1>5. QED
  BY <1>1, <1>2, <1>4 DEF Done

(* After linking nothing changes but what calls come to.                   *)
LEMMA AfterLink ==
  ASSUME Stages, Linked, order # <<>>, [Next]_vars
  PROVE  UNCHANGED <<source, unitVars, testVars, order>>
<1>1. \A u \in Units : ~PassStep(u)
  BY PassNotDone DEF Stages, Linked
<1>2. ~Link
  BY DEF Link
<1>3. CASE UNCHANGED vars
  BY <1>3 DEF vars
<1>4. CASE Next
  <2>1. PICK u \in Units : CallStep(u)
    BY <1>1, <1>2, <1>4 DEF Next, CallStep
  <2>2. QED
    BY <2>1 DEF CallStep, CallFaults, CallVariant, CallFallback
<1>5. QED
  BY <1>3, <1>4

(* Before linking nothing is called.                                       *)
LEMMA BeforeLink ==
  ASSUME Stages, order = <<>>, [Next]_vars
  PROVE  ran' = ran
<1>1. \A u \in Units : ~CallStep(u)
  BY DEF CallStep, CallFaults, CallVariant, CallFallback
<1>2. \A u \in Units : PassStep(u) => ran' = ran
  BY PassNotDone DEF Stages
<1>3. Link => ran' = ran
  BY DEF Link
<1>4. QED
  BY <1>1, <1>2, <1>3 DEF Next, CallStep, vars

(* Once linked, everything stays done.                                     *)
LEMMA LinkedStep ==
  ASSUME Stages, Linked, [Next]_vars
  PROVE  Linked'
<1>1. CASE order # <<>>
  <2>1. UNCHANGED <<source, unitVars, testVars, order>>
    BY <1>1, AfterLink
  <2>2. QED
    BY <2>1 DEF Linked, Done, unitVars
<1>2. CASE order = <<>> /\ order' = order
  BY <1>2 DEF Linked
<1>3. CASE order = <<>> /\ order' # order
  <2>1. Link
    <3>1. \A u \in Units : PassStep(u) => order' = order
      BY PassNotDone DEF Stages
    <3>2. \A u \in Units : CallStep(u) => order' = order
      BY DEF CallStep, CallFaults, CallVariant, CallFallback
    <3>3. QED
      BY <1>3, <3>1, <3>2 DEF Next, CallStep, vars
  <2>2. QED
    BY <2>1 DEF Link, Linked, Done, unitVars
<1>4. QED
  BY <1>1, <1>2, <1>3

-----------------------------------------------------------------------------
(* What a name leads to.                                                   *)

(* The names that a unit has in the end, and whose they are.               *)
LEMMA NamesOfDone ==
  ASSUME NEW u \in Units, Staged(u), Done(u)
  PROVE  \E l \in Nat :
           /\ l = lastUnique[u] /\ l >= 2
           /\ Taken(u) = {NoName, Base(u), Suffix(u, l - 1), Suffix(u, l)}
           /\ functions[u][1].callee = Suffix(u, l)
           /\ Function(u, Suffix(u, l)).role = "stub"
           /\ Function(u, Suffix(u, l)).callee = Suffix(u, l - 1)
           /\ Function(u, Suffix(u, l - 1)).role = "fallback"
           /\ source[u].base # None
<1>1. PICK n : Stubbed(u, n)
  BY DoneStubbed
<1>2. PICK l : l = lastUnique[u]
  OBVIOUS
<1>3. l \in Nat /\ l >= 2
  BY <1>1, <1>2 DEF Stubbed, Staged
<1>4. PICK first, second, third, fourth :
        /\ first = Original(Suffix(u, l)) /\ second = Part("scop", Base(u), NoName, n)
        /\ third = Part("fallback", Suffix(u, l - 1), NoName, n)
        /\ fourth = Part("stub", Suffix(u, l), Suffix(u, l - 1), n)
  OBVIOUS
<1>5. functions[u] = <<first, second, third, fourth>>
  BY <1>1, <1>2, <1>4 DEF Stubbed
<1>6. /\ first.name = NoName /\ first.callee = Suffix(u, l)
      /\ second.name = Base(u)
      /\ third.name = Suffix(u, l - 1) /\ third.role = "fallback"
      /\ fourth.name = Suffix(u, l) /\ fourth.role = "stub" /\ fourth.callee = Suffix(u, l - 1)
  BY <1>4 DEF Original, Part, Entry
<1>7. /\ DOMAIN functions[u] = {1, 2, 3, 4}
      /\ functions[u][1] = first /\ functions[u][2] = second
      /\ functions[u][3] = third /\ functions[u][4] = fourth
  BY <1>5
<1>8. Taken(u) = {NoName, Base(u), Suffix(u, l - 1), Suffix(u, l)}
  BY <1>6, <1>7 DEF Taken
<1>9. source[u].base # None
  <2>1. IsSource(source[u])
    BY Assumptions DEF Staged
  <2>2. QED
    BY <2>1, Zenon DEF IsSource
<1>10. /\ Suffix(u, l) # NoName /\ Suffix(u, l) # Base(u) /\ Suffix(u, l) # Suffix(u, l - 1)
       /\ Suffix(u, l - 1) # NoName /\ Suffix(u, l - 1) # Base(u)
  BY <1>3, <1>9 DEF Suffix, Base, NoName
<1>11. Function(u, Suffix(u, l)) = fourth
  <2>1. \A i \in DOMAIN functions[u] : functions[u][i].name = Suffix(u, l) <=> i = 4
    BY <1>6, <1>7, <1>10
  <2>2. (CHOOSE i \in DOMAIN functions[u] : functions[u][i].name = Suffix(u, l)) = 4
    BY <1>7, <2>1
  <2>3. QED
    BY <1>7, <2>2 DEF Function
<1>12. Function(u, Suffix(u, l - 1)) = third
  <2>1. \A i \in DOMAIN functions[u] : functions[u][i].name = Suffix(u, l - 1) <=> i = 3
    BY <1>6, <1>7, <1>10
  <2>2. (CHOOSE i \in DOMAIN functions[u] : functions[u][i].name = Suffix(u, l - 1)) = 3
    BY <1>7, <2>1
  <2>3. QED
    BY <1>7, <2>2 DEF Function
<1>13. QED
  BY <1>2, <1>3, <1>6, <1>7, <1>8, <1>9, <1>11, <1>12

(* A name that some unit has is defined by one that has it.                *)
LEMMA Defined ==
  ASSUME Linked, order # <<>>, NEW v \in Units, NEW name \in Taken(v)
  PROVE  Definition(name) \in Units /\ name \in Taken(Definition(name))
<1>1. order \in [1..Cardinality(Units) -> Units] /\ IsInjective(order)
  BY DEF Linked
<1>2. IsFiniteSet(Units) /\ Cardinality(Units) \in Nat
  BY Assumptions, FS_CardinalityType
<1>3. PICK c \in Nat : c = Cardinality(Units)
  BY <1>2
<1>4. IsFiniteSet(1..c) /\ Cardinality(1..c) = c
  BY FS_Interval
<1>5. order \in Injection(1..c, Units)
  BY <1>1, <1>3 DEF Injection
<1>6. order \in Surjection(1..c, Units)
  BY <1>2, <1>3, <1>4, <1>5, FS_Injection
<1>7. PICK i \in 1..c : order[i] = v
  BY <1>6 DEF Surjection
<1> DEFINE S == {j \in 1..c : name \in Taken(order[j])}
<1>8. S \in SUBSET Nat /\ S # {}
  BY <1>7
<1>9. \A j \in S : j \in 1..c /\ name \in Taken(order[j])
  OBVIOUS
<1>10. \A j \in 1..c : name \in Taken(order[j]) => j \in S
  OBVIOUS
<1> HIDE DEF S
<1>11. Min(S) \in S /\ \A x \in S : Min(S) <= x
  BY <1>8, MinOfNats
<1>12. PICK m \in 1..c : name \in Taken(order[m]) /\ \A j \in 1..(m - 1) : name \notin Taken(order[j])
  <2>1. PICK m : m = Min(S)
    OBVIOUS
  <2>2. m \in 1..c /\ name \in Taken(order[m])
    BY <1>9, <1>11, <2>1
  <2>3. ASSUME NEW j \in 1..(m - 1) PROVE name \notin Taken(order[j])
    <3>1. j \in 1..c /\ ~ (m <= j)
      BY <2>2, <2>3
    <3>2. QED
      BY <1>10, <1>11, <2>1, <3>1
  <2>4. QED
    BY <2>2, <2>3
<1>13. DOMAIN order = 1..c
  BY <1>1, <1>3
<1> DEFINE Is(j) == /\ name \in Taken(order[j])
                    /\ \A k \in 1..(j - 1) : name \notin Taken(order[k])
<1>14. Definition(name) = order[CHOOSE j \in DOMAIN order : Is(j)]
  BY DEF Definition
<1>15. Is(m)
  BY <1>12
<1>16. \A j : Is(j) => name \in Taken(order[j])
  OBVIOUS
<1> HIDE DEF Is
<1>17. PICK j \in DOMAIN order : Definition(name) = order[j] /\ Is(j)
  BY <1>12, <1>13, <1>14, <1>15
<1>18. QED
  BY <1>1, <1>16, <1>17

-----------------------------------------------------------------------------
(* Calls.                                                                  *)

AllNames == UNION {Taken(v) : v \in Units}
Ready == Stages /\ Linked /\ order # <<>>

(* The names of the functions that were made for regions of base name B.   *)
Numbers(B) == {k \in Nat : k >= 1 /\ <<B, k>> \in AllNames}
BodyOf(hop, B) == hop.unit \in Units /\ source[hop.unit].base = B /\ hop.fn.role = "fallback"
StubOf(hop, B, k) ==
  /\ hop.unit \in Units /\ source[hop.unit].base = B
  /\ hop.fn.role = "stub" /\ hop.fn.callee = <<B, k - 1>>
  /\ k - 1 \in Numbers(B)

(* There are finitely many names.                                          *)
LEMMA NamesFinite ==
  ASSUME Ready
  PROVE  IsFiniteSet(AllNames) /\ Cardinality(AllNames) \in Nat
<1>1. ASSUME NEW v \in Units PROVE IsFiniteSet(Taken(v))
  <2>1. Staged(v) /\ Done(v)
    BY DEF Ready, Stages, Linked
  <2>2. PICK a, b, c, d : Taken(v) = {a, b, c, d}
    <3>1. PICK l : Taken(v) = {NoName, Base(v), Suffix(v, l - 1), Suffix(v, l)}
      BY <2>1, NamesOfDone
    <3>2. QED
      BY <3>1
  <2>3. IsFiniteSet({a})
    BY FS_Singleton
  <2>4. IsFiniteSet({a} \cup {b})
    BY <2>3, FS_AddElement
  <2>5. IsFiniteSet({a} \cup {b} \cup {c})
    BY <2>4, FS_AddElement
  <2>6. IsFiniteSet({a} \cup {b} \cup {c} \cup {d})
    BY <2>5, FS_AddElement
  <2>7. {a} \cup {b} \cup {c} \cup {d} = {a, b, c, d}
    OBVIOUS
  <2>8. QED
    BY <2>2, <2>6, <2>7
<1> DEFINE all == {Taken(v) : v \in Units}
           taken == [v \in Units |-> Taken(v)]
<1>2. taken \in Surjection(Units, all)
  BY DEF Surjection
<1>3. \A T \in all : IsFiniteSet(T)
  BY <1>1
<1> HIDE DEF all, taken
<1>4. IsFiniteSet(all)
  BY <1>2, FS_Surjection, Assumptions
<1>5. IsFiniteSet(UNION all)
  BY <1>3, <1>4, FS_UNION
<1>6. QED
  BY <1>5, FS_CardinalityType DEF AllNames, all

(* A name leads to a body or to a stub that calls the name before it,      *)
(* which some unit has.                                                    *)
LEMMA Reaching ==
  ASSUME Ready, NEW B, NEW k \in Numbers(B)
  PROVE  BodyOf(Reached(<<B, k>>), B) \/ StubOf(Reached(<<B, k>>), B, k)
<1>1. k \in Nat /\ k >= 1 /\ Linked /\ order # <<>>
  BY DEF Numbers, Ready
<1>2. PICK w \in Units : <<B, k>> \in Taken(w)
  BY DEF Numbers, AllNames
<1>3. PICK name : name = <<B, k>>
  OBVIOUS
<1>4. PICK v : v = Definition(name)
  OBVIOUS
<1>5. v \in Units /\ name \in Taken(v)
  BY <1>1, <1>2, <1>3, <1>4, Defined
<1>6. Staged(v) /\ Done(v)
  BY <1>1, <1>5 DEF Ready, Stages, Linked
<1>7. PICK l \in Nat :
        /\ l >= 2
        /\ Taken(v) = {NoName, Base(v), Suffix(v, l - 1), Suffix(v, l)}
        /\ Function(v, Suffix(v, l)).role = "stub"
        /\ Function(v, Suffix(v, l)).callee = Suffix(v, l - 1)
        /\ Function(v, Suffix(v, l - 1)).role = "fallback"
  BY <1>5, <1>6, NamesOfDone
<1>8. Reached(<<B, k>>).unit = v /\ Reached(<<B, k>>).fn = Function(v, name)
  BY <1>3, <1>4 DEF Reached
<1>9. name # NoName /\ name # Base(v)
  BY <1>1, <1>3 DEF NoName, Base
<1>10. CASE name = Suffix(v, l)
  <2>1. source[v].base = B /\ k = l
    BY <1>3, <1>10 DEF Suffix
  <2>2. Suffix(v, l - 1) = <<B, k - 1>>
    BY <2>1 DEF Suffix
  <2>3. <<B, k - 1>> \in AllNames
    BY <1>5, <1>7, <2>2 DEF AllNames
  <2>4. k - 1 \in Numbers(B)
    BY <1>7, <2>1, <2>3 DEF Numbers
  <2>5. QED
    BY <1>5, <1>7, <1>8, <1>10, <2>1, <2>2, <2>4 DEF StubOf
<1>11. CASE name = Suffix(v, l - 1)
  <2>1. source[v].base = B
    BY <1>3, <1>11 DEF Suffix
  <2>2. QED
    BY <1>5, <1>7, <1>8, <1>11, <2>1 DEF BodyOf
<1>12. QED
  BY <1>5, <1>7, <1>9, <1>10, <1>11

(* A call of a region goes from stub to stub, and the names count down:    *)
(* there are not enough of them for it to go on.                           *)
Arrives(u) ==
  /\ \A hop \in Hops(u) : hop.unit \in Units /\ source[hop.unit].base = source[u].base
  /\ \E hop \in Hops(u) : hop.fn.role # "stub"

(* Whoever calls by name arrives: every hop takes a smaller number, and    *)
(* numbers end.                                                            *)
LEMMA Hopping ==
  ASSUME Ready, NEW u \in Units
  PROVE  Arrives(u)
<1> DEFINE B == source[u].base
           all == Cardinality(UNION {Taken(v) : v \in Units})
           next(reached) == IF reached.fn.role = "stub" THEN Reached(reached.fn.callee) ELSE reached
           hop[n \in 0..all] == IF n = 0 THEN Reached(functions[u][1].callee) ELSE next(hop[n - 1])
           later(f, n) == IF n = 0 THEN Reached(functions[u][1].callee) ELSE next(f[n - 1])
           Places == {Reached(<<B, k>>) : k \in Numbers(B)}
           step == [n \in 1..all |-> [h \in Places |-> next(h)]]
<1>1. Staged(u) /\ Done(u)
  BY DEF Ready, Stages, Linked
<1>2. PICK l \in Nat : /\ l >= 2 /\ functions[u][1].callee = <<B, l>> /\ <<B, l>> \in Taken(u)
  BY <1>1, NamesOfDone, Zenon DEF Suffix
<1>3. l \in Numbers(B)
  BY <1>2 DEF Numbers, AllNames
<1>4. all \in Nat /\ all = Cardinality(AllNames)
  BY NamesFinite DEF AllNames
<1>5. Hops(u) = {hop[n] : n \in 0..all}
  BY DEF Hops
<1> HIDE DEF all
<1>6. ASSUME NEW h \in Places PROVE next(h) \in Places
  <2>1. PICK k \in Numbers(B) : h = Reached(<<B, k>>)
    OBVIOUS
  <2>2. BodyOf(h, B) \/ StubOf(h, B, k)
    BY <2>1, Reaching
  <2>3. CASE BodyOf(h, B)
    BY <2>3 DEF BodyOf
  <2>4. CASE StubOf(h, B, k)
    BY <2>4 DEF StubOf
  <2>5. QED
    BY <2>2, <2>3, <2>4
<1>7. Reached(functions[u][1].callee) \in Places
  BY <1>2, <1>3
<1> HIDE DEF Places
<1>8. step \in [1..all -> [Places -> Places]]
  BY <1>6
<1>9. PICK c \in [0..all -> Places] :
        /\ c[0] = Reached(functions[u][1].callee)
        /\ \A n \in 1..all : c[n] = step[n][c[n - 1]]
  <2> HIDE DEF step
  <2>1. PICK first : first = Reached(functions[u][1].callee)
    OBVIOUS
  <2>2. \E f \in [0..all -> Places] : DefinedBy(f, first, all, step)
    BY <1>4, <1>7, <1>8, <2>1, RecursionTo
  <2>3. QED
    BY <2>1, <2>2 DEF DefinedBy
<1>10. \A n \in 1..all : c[n - 1] \in Places /\ step[n][c[n - 1]] = next(c[n - 1])
  BY <1>4, <1>9
<1> HIDE DEF step
<1>11. c = [n \in 0..all |-> later(c, n)]
  BY <1>4, <1>9, <1>10
<1>12. hop = [n \in 0..all |-> later(hop, n)]
  <2>1. \E f : f = [n \in 0..all |-> later(f, n)]
    BY <1>11
  <2>2. QED
    BY <2>1
<1>13. /\ hop[0] = Reached(<<B, l>>)
       /\ \A n \in Nat : n + 1 \in 0..all => hop[n + 1] = next(hop[n])
  <2> HIDE DEF hop, next
  <2>1. \A n \in 0..all : hop[n] = later(hop, n)
    BY <1>12
  <2>2. hop[0] = later(hop, 0) /\ later(hop, 0) = Reached(<<B, l>>)
    BY <1>2, <1>4, <2>1
  <2>3. ASSUME NEW n \in Nat, n + 1 \in 0..all PROVE hop[n + 1] = next(hop[n])
    <3>1. n + 1 # 0 /\ (n + 1) - 1 = n
      OBVIOUS
    <3>2. QED
      BY <2>1, <2>3, <3>1
  <2>4. QED
    BY <2>2, <2>3
<1> HIDE DEF hop, later
<1> DEFINE Left(n) == StubOf(hop[n], B, l - n) /\ \A j \in (l - n)..l : <<B, j>> \in AllNames
           S == {n \in Nat : n <= all => BodyOf(hop[n], B) \/ (l - n \in Numbers(B) /\ Left(n))}
<1>14. 0 \in S
  <2>1. BodyOf(hop[0], B) \/ StubOf(hop[0], B, l)
    BY <1>3, <1>13, Reaching
  <2>2. l - 0 = l /\ \A j \in (l - 0)..l : j = l
    BY <1>2
  <2>3. <<B, l>> \in AllNames
    BY <1>3 DEF Numbers
  <2>4. QED
    BY <1>3, <2>1, <2>2, <2>3
<1>15. ASSUME NEW n \in Nat, n \in S PROVE n + 1 \in S
  <2>1. SUFFICES ASSUME n + 1 <= all
                 PROVE  BodyOf(hop[n + 1], B) \/ (l - (n + 1) \in Numbers(B) /\ Left(n + 1))
    OBVIOUS
  <2>2. hop[n + 1] = next(hop[n])
    BY <1>4, <1>13, <2>1
  <2>3. CASE BodyOf(hop[n], B)
    BY <2>2, <2>3 DEF BodyOf
  <2>4. CASE l - n \in Numbers(B) /\ Left(n)
    <3>1. PICK k : k = (l - n) - 1
      OBVIOUS
    <3>2. k \in Numbers(B) /\ hop[n].fn.role = "stub" /\ hop[n].fn.callee = <<B, k>>
      BY <2>4, <3>1 DEF StubOf
    <3>3. hop[n + 1] = Reached(<<B, k>>)
      BY <2>2, <3>2
    <3>4. BodyOf(hop[n + 1], B) \/ StubOf(hop[n + 1], B, k)
      BY <3>2, <3>3, Reaching
    <3>5. k \in Nat /\ <<B, k>> \in AllNames
      BY <3>2 DEF Numbers
    <3>6. l - (n + 1) = k
      BY <1>2, <1>15, <3>1
    <3>7. ASSUME NEW j \in k..l PROVE <<B, j>> \in AllNames
      <4>1. j = k \/ j \in (l - n)..l
        BY <1>2, <1>15, <3>1, <3>5, <3>7
      <4>2. QED
        BY <2>4, <3>5, <4>1
    <3>8. QED
      BY <3>2, <3>4, <3>6, <3>7
  <2>5. QED
    BY <1>4, <1>15, <2>1, <2>3, <2>4
<1>16. \A n \in 0..all : n \in S
  <2> HIDE DEF S
  <2>1. QED
    BY <1>4, <1>14, <1>15, SetInduction
<1>17. \A n \in 0..all : hop[n].unit \in Units /\ source[hop[n].unit].base = B
  BY <1>4, <1>16 DEF BodyOf, StubOf
<1>18. hop[all].fn.role # "stub"
  <2>1. SUFFICES ASSUME ~BodyOf(hop[all], B) PROVE FALSE
    BY DEF BodyOf
  <2>2. l - all \in Numbers(B) /\ \A j \in (l - all)..l : <<B, j>> \in AllNames
    BY <1>4, <1>16, <2>1
  <2>3. PICK lo : lo = l - all
    OBVIOUS
  <2>4. lo \in Nat /\ lo <= l /\ l - lo + 1 = all + 1
    BY <1>2, <1>4, <2>2, <2>3 DEF Numbers
  <2> DEFINE f == [j \in lo..l |-> <<B, j>>]
  <2>5. f \in Injection(lo..l, AllNames)
    BY <2>2, <2>3 DEF Injection, IsInjective
  <2>6. Cardinality(lo..l) = all + 1
    BY <1>2, <2>4, FS_Interval
  <2> HIDE DEF f
  <2>7. Cardinality(lo..l) <= Cardinality(AllNames)
    BY <2>5, NamesFinite, FS_Injection
  <2>8. QED
    BY <1>4, <2>6, <2>7
<1>19. all \in 0..all
  BY <1>4
<1>20. QED
  BY <1>5, <1>17, <1>18, <1>19 DEF Arrives

-----------------------------------------------------------------------------
(* What a call comes to.                                                   *)

(* The new value of ran after a call of the region in unit u.              *)
LEMMA CallIs ==
  ASSUME Ready, NEW u \in Units, CallStep(u)
  PROVE  \E v \in Units :
           /\ ran'.by = u /\ ran'.unit = v /\ source[v].base = source[u].base
           /\ \/ /\ ran'.how = "fault" /\ ran'.args = source[u].args
                 /\ \E k \in DOMAIN slots[v] : MayFault(slots[v][k])
              \/ /\ ran'.how = IF Closed(v) THEN "variant" ELSE "unreadable"
                 /\ ran'.args = [k \in DOMAIN proto[v].args |-> Unpacked(v, k)]
              \/ ran'.how = "fallback"
<1>1. /\ \A hop \in Hops(u) : hop.unit \in Units /\ source[hop.unit].base = source[u].base
      /\ \E hop \in Hops(u) : hop.fn.role # "stub"
  BY Hopping DEF Arrives
<1>2. CASE CallFaults(u)
  <2>1. PICK stub \in Hops(u) :
          /\ \E k \in DOMAIN slots[stub.unit] : MayFault(slots[stub.unit][k])
          /\ ran' = [by |-> u, unit |-> stub.unit, how |-> "fault", args |-> source[u].args]
    BY <1>2 DEF CallFaults
  <2>2. QED
    BY <1>1, <2>1
<1>3. CASE CallVariant(u)
  <2>1. PICK stub \in Hops(u) :
          ran' = [by |-> u, unit |-> stub.unit,
                  how |-> IF Closed(stub.unit) THEN "variant" ELSE "unreadable",
                  args |-> [k \in DOMAIN proto[stub.unit].args |-> Unpacked(stub.unit, k)]]
    BY <1>3 DEF CallVariant
  <2>2. PICK v : v = stub.unit
    OBVIOUS
  <2>3. v \in Units /\ source[v].base = source[u].base
    BY <1>1, <2>2
  <2>4. QED
    BY <2>1, <2>2, <2>3
<1>4. CASE CallFallback(u)
  <2> DEFINE bodies == {hop \in Hops(u) : hop.fn.role # "stub"}
             arrived == CHOOSE h \in IF bodies = {} THEN Hops(u) ELSE bodies : TRUE
  <2>1. ran' = [by |-> u, unit |-> arrived.unit,
                how |-> IF bodies = {} THEN "endless" ELSE "fallback", args |-> source[u].args]
    BY <1>4 DEF CallFallback
  <2>2. bodies # {}
    BY <1>1
  <2>3. arrived \in bodies
    BY <2>2
  <2>4. arrived \in Hops(u)
    BY <2>3
  <2> HIDE DEF bodies, arrived
  <2>5. QED
    BY <1>1, <2>1, <2>2, <2>4
<1>5. QED
  BY <1>2, <1>3, <1>4 DEF CallStep

Hows == {None, "variant", "unreadable", "fallback", "endless", "fault"}
CallInv ==
  /\ Stages /\ Linked
  /\ order = <<>> => ran = NoRun
  /\ ran.by # None => ran.by \in Units
  /\ ran.how \in Hows
  /\ CallsArrive /\ RunsAsBefore

(* Where a call ends is where the code of its region is.                   *)
LEMMA CallGood ==
  ASSUME Ready, NEW u \in Units, CallStep(u)
  PROVE  CallsArrive' /\ RunsAsBefore' /\ ran'.by \in Units /\ ran'.how \in Hows
<1>1. PICK v \in Units :
        /\ ran'.by = u /\ ran'.unit = v /\ source[v].base = source[u].base
        /\ \/ /\ ran'.how = "fault" /\ ran'.args = source[u].args
              /\ \E k \in DOMAIN slots[v] : MayFault(slots[v][k])
           \/ /\ ran'.how = IF Closed(v) THEN "variant" ELSE "unreadable"
              /\ ran'.args = [k \in DOMAIN proto[v].args |-> Unpacked(v, k)]
           \/ ran'.how = "fallback"
  BY CallIs
<1>2. source' = source /\ proto' = proto
  BY DEF CallStep, CallFaults, CallVariant, CallFallback, unitVars
<1>3. ran'.how # "endless" /\ ran'.how \in Hows
  BY <1>1 DEF Hows
<1>4. CallsArrive'
  BY <1>1, <1>2, <1>3 DEF CallsArrive
<1>5. ASSUME NameAlone(u), NamesApart(u), PlainUses(u)
      PROVE  /\ ran'.unit = u /\ ran'.how \in {"variant", "fallback", "fault"}
             /\ ran'.how = "fault" => \E a \in ToSet(ran'.args) : source[u].type[a] = "pointer"
             /\ ran'.how = "variant" =>
                  \A k \in DOMAIN proto[u].args :
                    LET a == proto[u].args[k]
                    IN  (a \in Args => \/ source[u].type[a] = "pointer"
                                       \/ source[u].type[a] = "integer" /\ Recompile)
                          => ran'.args[k] = a
  <2>1. v = u
    BY <1>1, <1>5 DEF NameAlone
  <2>2. Staged(u) /\ Done(u)
    BY DEF Ready, Stages, Linked
  <2>3. Closed(u)
    BY <1>5, <2>2, ClosedWhenDone
  <2>4. PICK gs : Made(u, gs)
    BY <2>2, DoneStubbed
  <2>5. \A k \in DOMAIN proto[u].args : proto[u].args[k] \in Args \cup Globals
    <3>1. proto[u].args \in Seq(Args \cup Globals)
      BY <2>2, <2>4, MadeArgs
    <3>2. QED
      BY <3>1, ElementOfSeq
  <2>6. /\ DOMAIN slots[u] = DOMAIN proto[u].args
        /\ \A k \in DOMAIN slots[u] : IsSlot(u, slots[u][k]) /\ slots[u][k].of = proto[u].args[k]
    BY <1>5, <2>2, SlotsWhenDone
  <2>7. ASSUME ran'.how = "fault"
        PROVE  \E a \in ToSet(ran'.args) : source[u].type[a] = "pointer"
    <3>1. PICK k \in DOMAIN slots[u] : MayFault(slots[u][k])
      BY <1>1, <2>1, <2>3, <2>7
    <3>2. PICK slot : slot = slots[u][k]
      OBVIOUS
    <3>3. IsSlot(u, slot) /\ MayFault(slot)
      BY <2>6, <3>1, <3>2
    <3>4. slot.of \in ToSet(source[u].args) /\ source[u].type[slot.of] = "pointer"
      BY <3>3 DEF IsSlot, MayFault
    <3>5. ran'.args = source[u].args
      BY <1>1, <2>1, <2>3, <2>7
    <3>6. QED
      BY <3>4, <3>5
  <2>8. ASSUME ran'.how = "variant", NEW k \in DOMAIN proto[u].args, NEW a, a = proto[u].args[k],
               a \in Args => \/ source[u].type[a] = "pointer"
                             \/ source[u].type[a] = "integer" /\ Recompile
        PROVE  ran'.args[k] = a
    <3>1. ran'.args[k] = Unpacked(u, k)
      BY <1>1, <2>1, <2>8
    <3>2. slots[u][k].of = a /\ a \in Args \cup Globals
      BY <2>5, <2>6, <2>8
    <3>3. Unpacked(u, k) = slots[u][k].of
      BY <2>8, <3>2 DEF Unpacked
    <3>4. QED
      BY <3>1, <3>2, <3>3
  <2>9. QED
    BY <1>1, <2>1, <2>3, <2>7, <2>8
<1>6. RunsAsBefore'
  <2>1. /\ NameAlone(u)' => NameAlone(u)
        /\ NamesApart(u)' => NamesApart(u)
        /\ PlainUses(u)' => PlainUses(u)
    BY <1>2 DEF NameAlone, NamesApart, PlainUses, Uses
  <2>2. QED
    BY <1>1, <1>2, <1>5, <2>1 DEF RunsAsBefore
<1>7. QED
  BY <1>1, <1>3, <1>4, <1>6

(* After linking, the units stay as they are, and with each call it is     *)
(* known whose code has run.                                               *)
THEOREM CallInvariant == Spec => []CallInv
<1>1. ASSUME Init PROVE CallInv
  <2>1. order = <<>> /\ ran = NoRun
    BY <1>1 DEF Init
  <2>2. QED
    BY <1>1, <2>1, StagesInit DEF CallInv, Linked, NoRun, Hows, CallsArrive, RunsAsBefore
<1>2. ASSUME CallInv, [Next]_vars PROVE CallInv'
  <2>1. Stages' /\ Linked'
    BY <1>2, StagesStep, LinkedStep DEF CallInv
  <2>2. CASE order = <<>>
    <3>1. ran = NoRun /\ ran' = NoRun
      BY <1>2, <2>2, BeforeLink DEF CallInv
    <3>2. QED
      BY <2>1, <3>1 DEF CallInv, NoRun, Hows, CallsArrive, RunsAsBefore
  <2>3. CASE order # <<>>
    <3>1. Ready /\ UNCHANGED <<source, unitVars, testVars, order>>
      BY <1>2, <2>3, AfterLink DEF CallInv, Ready
    <3>2. CASE \E u \in Units : CallStep(u)
      BY <2>1, <2>3, <3>1, <3>2, CallGood DEF CallInv
    <3>3. CASE ran' = ran
      <4>1. CallsArrive'
        BY <1>2, <3>1, <3>3 DEF CallInv, CallsArrive
      <4>2. RunsAsBefore'
        <5>1. source' = source /\ proto' = proto
          BY <3>1 DEF unitVars
        <5>2. \A u : /\ NameAlone(u)' <=> NameAlone(u)
                     /\ NamesApart(u)' <=> NamesApart(u)
                     /\ PlainUses(u)' <=> PlainUses(u)
          BY <5>1 DEF NameAlone, NamesApart, PlainUses, Uses
        <5>3. QED
          BY <1>2, <3>3, <5>1, <5>2 DEF CallInv, RunsAsBefore
      <4>3. QED
        BY <1>2, <2>1, <2>3, <3>1, <3>3, <4>1, <4>2 DEF CallInv
    <3>4. QED
      <4>1. \A u \in Units : PassStep(u) => ran' = ran
        BY <1>2, PassNotDone DEF CallInv, Stages
      <4>2. Link => ran' = ran
        BY DEF Link
      <4>3. QED
        BY <1>2, <3>2, <3>3, <4>1, <4>2 DEF Next, CallStep, vars
  <2>4. QED
    BY <2>2, <2>3
<1>3. QED
  BY <1>1, <1>2, PTL DEF Spec

(* CallsArrive: however the names of fallbacks and stubs of several units  *)
(* run into each other, a call gets to the body of a region of its name.   *)
THEOREM CallsDoArrive == Spec => []CallsArrive
<1>1. CallInv => CallsArrive
  BY DEF CallInv
<1>2. QED
  BY <1>1, CallInvariant, PTL

(* RunsAsBefore: a region whose name is its own runs with its own code and *)
(* with what it was called with.                                           *)
THEOREM RunsDoAsBefore == Spec => []RunsAsBefore
<1>1. CallInv => RunsAsBefore
  BY DEF CallInv
<1>2. QED
  BY <1>1, CallInvariant, PTL

-----------------------------------------------------------------------------
(* Types.                                                                  *)

Steps == {"visit", "prototype", "insert", "commit", "fallback", "instrument"}
Walking ==
  /\ pass \in [Units -> Steps] /\ at \in [Units -> Nat \ {0}]
  /\ scop \in [Units -> Nat] /\ lastUnique \in [Units -> Nat]

(* Where the pass is, and the counters it keeps for each unit.             *)
LEMMA WalkingInit == Init => Walking
<1>1. SUFFICES ASSUME Init PROVE Walking
  OBVIOUS
<1>2. lastUnique \in [Units -> Nat]
  <2>1. PICK T : lastUnique \in [Units -> T] /\ \A u \in Units : lastUnique[u] \in Counters[u]
    BY <1>1 DEF Init
  <2>2. \A u \in Units : lastUnique[u] \in Nat
    BY <2>1, Assumptions
  <2>3. QED
    BY <2>1, <2>2
<1>3. QED
  BY <1>1, <1>2 DEF Init, Walking, Steps

(* Every step keeps calls on their way.                                    *)
LEMMA WalkingStep ==
  ASSUME Stages, Walking, [Next]_vars
  PROVE  Walking'
<1>1. ASSUME UNCHANGED <<source, unitVars, testVars>> PROVE Walking'
  BY <1>1 DEF Walking, unitVars
<1>2. ASSUME NEW u \in Units, PassStep(u) PROVE Walking'
  <2>1. \A v \in Units : at[v] \in Nat /\ at[v] + 1 \in Nat \ {0} /\ lastUnique[v] + 1 \in Nat
    BY DEF Walking
  <2>2. ASSUME NEW name, Count(u, name) PROVE lastUnique' \in [Units -> Nat]
    BY <2>1, <2>2 DEF Count, Walking
  <2>3. CASE Skip(u)
    BY <2>1, <2>3 DEF Skip, Walking
  <2>4. CASE Extract(u)
    <3>1. Len(functions[u]) = 1
      BY <2>4, ExtractFresh, Positions DEF Stages
    <3>2. scop' = [scop EXCEPT ![u] = Len(functions[u]) + 1] /\ Len(functions[u]) + 1 \in Nat
      BY <2>4, <3>1 DEF Extract
    <3>3. scop' \in [Units -> Nat]
      BY <3>2 DEF Walking
    <3>4. lastUnique' \in [Units -> Nat]
      BY <2>2, <2>4 DEF Extract
    <3>5. pass' \in [Units -> Steps] /\ at' = at
      BY <2>4 DEF Extract, Walking, Steps
    <3>6. QED
      BY <3>3, <3>4, <3>5 DEF Walking
  <2>5. CASE MakePrototype(u)
    BY <2>5 DEF MakePrototype, Walking, Steps
  <2>6. CASE InsertTest(u)
    BY <2>6 DEF InsertTest, Walking, Steps
  <2>7. CASE Commit(u)
    BY <2>7 DEF Commit, Walking, Steps
  <2>8. CASE MakeFallback(u)
    <3>1. lastUnique' \in [Units -> Nat]
      BY <2>2, <2>8 DEF MakeFallback
    <3>2. QED
      BY <2>8, <3>1 DEF MakeFallback, Walking, Steps
  <2>9. CASE Instrument(u)
    <3>1. lastUnique' \in [Units -> Nat]
      BY <2>2, <2>9 DEF Instrument
    <3>2. /\ pass' = [pass EXCEPT ![u] = "visit"] /\ at' = [at EXCEPT ![u] = @ + 1]
          /\ scop' = scop
      BY <2>9 DEF Instrument
    <3>3. QED
      BY <2>1, <3>1, <3>2 DEF Walking, Steps
  <2>10. QED
    BY <1>2, <2>3, <2>4, <2>5, <2>6, <2>7, <2>8, <2>9 DEF PassStep
<1>3. CASE UNCHANGED vars
  BY <1>1, <1>3 DEF vars
<1>4. QED
  BY <1>1, <1>2, <1>3, CallsKeep DEF Next, CallStep

(* The functions that the pass makes of a unit.                            *)
LEMMA EntryTyped ==
  ASSUME NEW role \in {"original", "scop", "fallback", "stub"}, NEW name \in FnNames,
         NEW c \in BOOLEAN, NEW callee \in FnNames, NEW n \in Nat
  PROVE  Entry(role, name, c, callee, n) \in FnType
  BY DEF Entry, FnType

(* The functions of a unit have their types.                               *)
LEMMA FunctionsTyped ==
  ASSUME NEW u \in Units, Staged(u)
  PROVE  functions[u] \in Seq(FnType)
<1>1. NoName \in FnNames /\ \A k \in Nat : Suffix(u, k) \in FnNames /\ Base(u) \in FnNames
  BY DEF NoName, Suffix, Base, FnNames
<1>2. \A callee \in FnNames : Original(callee) \in FnType
  BY <1>1, EntryTyped DEF Original
<1>3. \A role \in {"scop", "fallback", "stub"} : \A name, callee \in FnNames : \A n \in Nat :
        Part(role, name, callee, n) \in FnType
  BY EntryTyped DEF Part
<1>4. ASSUME NEW gs \in GlobalsUsed(Lower(source[u].body)), Made(u, gs), Stage(u, gs)
      PROVE  functions[u] \in Seq(FnType)
  <2>1. Len(gs) \in Nat
    BY <1>4, MadeArgs
  <2>2. PICK n \in Nat : n = Len(gs)
    BY <2>1
  <2>3. PICK l \in Nat : l = lastUnique[u]
    BY DEF Staged
  <2>4. CASE Prototyped(u, n)
    <3>1. Original(Base(u)) \in FnType /\ Part("scop", Base(u), NoName, n) \in FnType
      BY <1>1, <1>2, <1>3
    <3>2. QED
      BY <2>4, <3>1 DEF Prototyped
  <2>5. CASE Backed(u, n)
    <3>1. /\ Original(Base(u)) \in FnType /\ Part("scop", Base(u), NoName, n) \in FnType
          /\ Part("fallback", Suffix(u, l), NoName, n) \in FnType
      BY <1>1, <1>2, <1>3
    <3>2. QED
      BY <2>3, <2>5, <3>1 DEF Backed
  <2>6. CASE Stubbed(u, n)
    <3>1. l - 1 \in Nat
      BY <2>3, <2>6 DEF Stubbed
    <3>2. /\ Original(Suffix(u, l)) \in FnType /\ Part("scop", Base(u), NoName, n) \in FnType
          /\ Part("fallback", Suffix(u, l - 1), NoName, n) \in FnType
          /\ Part("stub", Suffix(u, l), Suffix(u, l - 1), n) \in FnType
      BY <1>1, <1>2, <1>3, <3>1
    <3>3. QED
      BY <2>3, <2>6, <3>2 DEF Stubbed
  <2>7. QED
    BY <1>4, <2>2, <2>4, <2>5, <2>6 DEF Stage
<1>5. CASE Fresh(u)
  <2>1. Original(NoName) \in FnType
    BY <1>1, <1>2
  <2>2. QED
    BY <1>5, <2>1 DEF Fresh
<1>6. CASE Extracted(u)
  <2>1. Original(Base(u)) \in FnType /\ Part("scop", Base(u), NoName, 0) \in FnType
    BY <1>1, <1>2, <1>3
  <2>2. QED
    BY <1>6, <2>1 DEF Extracted
<1>7. QED
  BY <1>4, <1>5, <1>6, Positions

(* The prototype, its names, and what the stub stores.                     *)
LEMMA PrototypeTyped ==
  ASSUME NEW u \in Units, Staged(u)
  PROVE  /\ body[u] \in Seq(Instrs)
         /\ proto[u].args \in Seq(Args \cup Globals) /\ IsInjective(proto[u].args)
         /\ proto[u].names \in [DOMAIN proto[u].args -> Names \cup {Unnamed}]
         /\ proto[u].body \in Seq(Instrs)
<1>1. source[u].body \in Seq(Instrs)
  BY SourceFacts
<1>2. CASE Early(u)
  <2>1. proto[u] = NoProto /\ body[u] \in {<<>>, source[u].body}
    BY <1>2, Zenon DEF Early, Fresh, Extracted
  <2>2. proto[u].args = <<>> /\ proto[u].names = <<>> /\ proto[u].body = <<>>
    BY <2>1 DEF NoProto
  <2>3. /\ <<>> \in Seq(Args \cup Globals) /\ <<>> \in Seq(Instrs) /\ DOMAIN <<>> = {}
        /\ <<>> \in [{} -> Names \cup {Unnamed}]
    OBVIOUS
  <2>4. body[u] \in Seq(Instrs)
    BY <1>1, <2>1, <2>3
  <2>5. QED
    BY <2>2, <2>3, <2>4 DEF IsInjective
<1>3. ASSUME NEW gs, Made(u, gs)
      PROVE  /\ body[u] \in Seq(Instrs)
             /\ proto[u].args \in Seq(Args \cup Globals) /\ IsInjective(proto[u].args)
             /\ proto[u].names \in [DOMAIN proto[u].args -> Names \cup {Unnamed}]
             /\ proto[u].body \in Seq(Instrs)
  <2>1. /\ proto[u].args \in Seq(Args \cup Globals) /\ IsInjective(proto[u].args)
        /\ DOMAIN proto[u].args = 1..(Len(source[u].args) + Len(gs))
    BY <1>3, MadeArgs
  <2>2. proto[u].names \in [1..(Len(source[u].args) + Len(gs)) -> Names \cup {Unnamed}]
    BY <1>3, Zenon DEF Made, ProtoNames
  <2>3. proto[u].body \in Seq(Instrs) /\ body[u] \in Seq(Instrs)
    BY <1>1, <1>3, LowerElements DEF Made
  <2>4. QED
    BY <2>1, <2>2, <2>3
<1>4. QED
  BY <1>2, <1>3, Zenon DEF Staged

(* The slots of a unit have their types.                                   *)
LEMMA SlotsTyped ==
  ASSUME NEW u \in Units, Staged(u)
  PROVE  slots[u] \in Seq(SlotType)
<1>1. CASE slots[u] = <<>>
  BY <1>1
<1>2. CASE slots[u] # <<>>
  <2>1. PICK gs \in GlobalsUsed(Lower(source[u].body)) : Made(u, gs) /\ Stubbed(u, Len(gs))
    BY <1>2, Positions DEF Fresh, Extracted, Stage, Prototyped, Backed
  <2>2. PICK n, m : n = Len(source[u].args) /\ m = Len(gs)
    OBVIOUS
  <2>3. /\ source[u].args \in Seq(Args) /\ gs \in Seq(Globals)
        /\ \A k \in DOMAIN source[u].args : source[u].args[k] \in Args
    <3>1. source[u].args \in Seq(Args) /\ gs \in Seq(Globals)
      BY <2>1, MadeArgs
    <3>2. QED
      BY <3>1, ElementOfSeq
  <2>4. n \in Nat /\ m \in Nat /\ DOMAIN source[u].args = 1..n
    BY <2>2, <2>3
  <2>5. F(u).globals = m
    <3>1. scop[u] = 2 /\ functions[u][2] = Part("scop", Base(u), NoName, m)
      BY <2>1, <2>2 DEF Stubbed
    <3>2. QED
      BY <3>1 DEF F, Part, Entry
  <2>6. slots[u] = [k \in 1..(n + m) |-> IF k <= n THEN ArgSlot(u, k) ELSE GlobalSlot(u, k)]
    BY <2>1, <2>2, <2>5 DEF Stubbed, Slots
  <2>7. ASSUME NEW k \in 1..(n + m)
        PROVE  (IF k <= n THEN ArgSlot(u, k) ELSE GlobalSlot(u, k)) \in SlotType
    <3>1. CASE k <= n
      <4>1. source[u].args[k] \in Args
        BY <2>3, <2>4, <3>1
      <4>2. QED
        BY <3>1, <4>1 DEF ArgSlot, SlotType
    <3>2. CASE ~ (k <= n)
      BY <3>2 DEF GlobalSlot, SlotType
    <3>3. QED
      BY <3>1, <3>2
  <2>8. n + m \in Nat
    BY <2>4
  <2>9. QED
    BY <2>6, <2>7, <2>8
<1>3. QED
  BY <1>1, <1>2

(* A row of the test store has its type.                                   *)
LEMMA RowTyped ==
  ASSUME NEW u \in Units, NEW row, IsRow(row, u), row.saw \in Nat
  PROVE  row \in RowType
<1>1. Base(u) \in FnNames
  BY DEF Base, FnNames
<1>2. QED
  BY <1>1 DEF IsRow, RowType

(* TypeOK: what each variable may hold, with the rows of the table of      *)
(* regression tests as records of what units have made.                    *)
THEOREM TypeCorrect == Spec => []TypeOK
<1>1. ASSUME ExtractionInv, CallInv, Walking PROVE TypeOK
  <2>1. ASSUME NEW u \in Units
        PROVE  /\ source[u] \in Sources[u]
               /\ functions[u] \in Seq(FnType)
               /\ body[u] \in Seq(Instrs)
               /\ proto[u].args \in Seq(Args \cup Globals) /\ IsInjective(proto[u].args)
               /\ proto[u].names \in [DOMAIN proto[u].args -> Names \cup {Unnamed}]
               /\ proto[u].body \in Seq(Instrs)
               /\ slots[u] \in Seq(SlotType)
    <3>1. Staged(u)
      BY <1>1 DEF ExtractionInv, Stages
    <3>2. QED
      BY <3>1, FunctionsTyped, PrototypeTyped, SlotsTyped DEF Staged
  <2>2. ASSUME NEW u \in Units PROVE inserted[u] \in Seq(RowType)
    <3>1. CASE inserted[u] = <<>>
      BY <3>1
    <3>2. CASE inserted[u] # <<>>
      <4>1. PICK row : inserted[u] = <<row>> /\ IsRow(row, u) /\ row.saw \in Nat
        BY <1>1, <3>2 DEF ExtractionInv, TestInv, Opened, Unseen
      <4>2. row \in RowType
        BY <4>1, RowTyped
      <4>3. QED
        BY <4>1, <4>2
    <3>3. QED
      BY <3>1, <3>2
  <2>3. regressions \in Seq(RowType)
    <3>1. PICK T : regressions \in Seq(T)
      BY <1>1 DEF ExtractionInv, TestInv
    <3>2. ASSUME NEW i \in DOMAIN regressions PROVE regressions[i] \in RowType
      <4>1. PICK row : row = regressions[i]
        OBVIOUS
      <4>2. row.saw \in Nat /\ \E u \in Units : IsRow(row, u)
        BY <1>1, <4>1 DEF ExtractionInv, TestInv
      <4>3. QED
        BY <4>1, <4>2, RowTyped
    <3>3. QED
      BY <3>1, <3>2
  <2>4. order = <<>> \/ order \in [1..Cardinality(Units) -> Units]
    BY <1>1 DEF CallInv, Linked
  <2>5. ran.how \in {None, "variant", "unreadable", "fallback", "endless", "fault"}
    BY <1>1 DEF CallInv, Hows
  <2>6. /\ pass \in [Units -> {"visit", "prototype", "insert", "commit", "fallback", "instrument"}]
        /\ at \in [Units -> Nat \ {0}] /\ scop \in [Units -> Nat] /\ lastUnique \in [Units -> Nat]
    BY <1>1 DEF Walking, Steps
  <2>7. QED
    BY <2>1, <2>2, <2>3, <2>4, <2>5, <2>6, Zenon DEF TypeOK
<1>2. Init => Walking
  BY WalkingInit
<1>3. Stages /\ Walking /\ [Next]_vars => Walking'
  BY WalkingStep
<1>4. ExtractionInv => Stages
  BY DEF ExtractionInv
<1>5. QED
  BY <1>1, <1>2, <1>3, <1>4, ExtractionInvariant, CallInvariant, PTL DEF Spec

=============================================================================
