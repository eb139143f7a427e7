--------------------------- MODULE PolyJIT_proofs ---------------------------
(***************************************************************************)
(* Proofs about the runtime of PolyJIT, for any number of threads,         *)
(* prototypes, values and calls, any hash function and any function names. *)
(***************************************************************************)
EXTENDS PolyJITProperties, SequenceTheorems, TLAPS

(* What holds of the threads besides the types: only a thread in a call    *)
(* has one; the generator has a request at hand from lock to pop, has      *)
(* mapped its prototype, and has read its values before it needs them.     *)
Shape ==
  /\ \A c \in Callers : pc[c] # "idle" => call[c] # NoCall
  /\ Processing => work # <<>> /\ fmap[NameOf[Request.proto]] # None
  /\ gmap = "code" => gpc \in {"lock", "rehash", "link", "unlock", "signal", "pop"}
  /\ gmap = "code" \/ gpc \in {"compile", "pop"} => gvals \in Vals

(* What the queue operations do to the requests in it.                     *)
LEMMA ForgetQueue ==
  ASSUME NEW q \in Seq(RequestType), NEW c \in Callers
  PROVE  /\ Forget(q, c) \in Seq(RequestType)
         /\ Len(Forget(q, c)) = Len(q)
         /\ \A i \in 1..Len(q) :
              Forget(q, c)[i] = IF q[i].owner = c THEN Dangling(q[i]) ELSE q[i]
<1>1. Len(q) \in Nat /\ DOMAIN q = 1..Len(q) /\ \A i \in 1..Len(q) : q[i] \in RequestType
  BY LenProperties, ElementOfSeq
<1>2. \A r \in RequestType : Dangling(r) \in RequestType
  BY DEF RequestType, Dangling
<1>3. Forget(q, c) \in [1..Len(q) -> RequestType]
  BY <1>1, <1>2 DEF Forget
<1>4. Forget(q, c) \in Seq(RequestType)
  BY <1>1, <1>3, SeqDef
<1>5. QED
  BY <1>1, <1>3, <1>4 DEF Forget

(* Appending a request, element by element.                                *)
LEMMA AppendQueue ==
  ASSUME NEW q \in Seq(RequestType), NEW r \in RequestType
  PROVE  /\ Append(q, r) \in Seq(RequestType)
         /\ Len(Append(q, r)) = Len(q) + 1
         /\ \A i \in 1..Len(q) : Append(q, r)[i] = q[i]
         /\ Append(q, r)[Len(q) + 1] = r
  OBVIOUS

(* Taking the first request, element by element.                           *)
LEMMA TailQueue ==
  ASSUME NEW q \in Seq(RequestType), q # <<>>
  PROVE  /\ Head(q) = q[1] /\ Head(q) \in RequestType
         /\ Tail(q) \in Seq(RequestType)
         /\ Len(Tail(q)) = Len(q) - 1
         /\ \A i \in 1..Len(q) - 1 : Tail(q)[i] = q[i + 1]
  OBVIOUS

(* Which steps change what. Every proof below splits a step by these.      *)
LEMMA Frames ==
  ASSUME [Next]_vars
  PROVE  /\ Link \/ UNCHANGED <<ir, code>>
         /\ Compile \/ UNCHANGED <<variants, engines>>
         /\ TakeRequest \/ UNCHANGED fmap
         /\ \/ \E c \in Callers : AddRequest(c) \/ Return(c)
            \/ PopRequest \/ Shutdown
            \/ UNCHANGED work
         /\ \/ \E c \in Callers : AddRequest(c)
            \/ EndBatch \/ Shutdown
            \/ UNCHANGED shouldStart
  BY DEF Next, Step, Spurious, CallerStep, GeneratorStep, DestructorStep, vars,
     callVars,
     queueVars, genVars, mapVars, dispVars, procVars, Call, AddRequest, NotifyGenerator,
     Count, Find, Sleep, Relock, TakeFunction, TakeCode, NullLookup, Return,
     SpuriousWakeup, GenStart, GenRelock, GenSpuriousWakeup, TakeRequest, EndBatch,
     LockMap, Rehash, Link, UnlockMap, Signal, ReadValues, DanglingFault, Compile,
     PopRequest, BeginShutdown, Shutdown, NotifyShutdown, Join

(* Only the generator's steps change the variants.                         *)
LEMMA GeneratorFrame ==
  ASSUME [Next]_vars
  PROVE  \/ GeneratorStep
         \/ /\ UNCHANGED <<gmap, gvals>>
            /\ gpc' = gpc \/ (gpc = "asleep" /\ gpc' = "awake")
  BY DEF Next, Step, Spurious, CallerStep, DestructorStep, vars, genVars, Call,
     AddRequest,
     NotifyGenerator, WakeGenerator, Count, Find, Sleep, Relock, TakeFunction,
     TakeCode,
     NullLookup, Return, SpuriousWakeup, GenSpuriousWakeup, BeginShutdown, Shutdown,
     NotifyShutdown, Join

(* Every step keeps the types.                                             *)
LEMMA TypeStep == TypeOK /\ Shape /\ [Next]_vars => TypeOK'
<1> SUFFICES ASSUME TypeOK, Shape, [Next]_vars PROVE TypeOK'
  OBVIOUS
<1> USE Assumptions DEF Shape, TypeOK, CallerSteps, GenSteps, Maps, Code, NoCode, NoCall,
        callVars, queueVars, genVars, mapVars, dispVars, procVars
<1>1. ASSUME NEW c \in Callers, Call(c) PROVE TypeOK'
  BY <1>1 DEF Call, At, Goto
<1>2. ASSUME NEW c \in Callers, AddRequest(c) PROVE TypeOK'
  <2>1. call[c] \in [proto : Protos, vals : Vals]
    BY <1>2 DEF AddRequest, At
  <2>2. work' \in Seq(RequestType)
    BY <1>2, <2>1, AppendQueue DEF AddRequest, RequestType
  <2>3. QED
    BY <1>2, <2>2 DEF AddRequest, At, Goto, RaiseStart
<1>3. ASSUME NEW c \in Callers, NotifyGenerator(c) PROVE TypeOK'
  BY <1>3 DEF NotifyGenerator, At, Goto, WakeGenerator
<1>4. ASSUME NEW c \in Callers, Count(c) PROVE TypeOK'
  <2>1. call[c] \in [proto : Protos, vals : Vals]
    BY <1>4 DEF Count, At
  <2>2. newF' \in [Callers -> Code \cup {NoCode}]
    BY <1>4, <2>1 DEF Count, Execute
  <2>3. pc' \in [Callers -> CallerSteps]
    BY <1>4 DEF Count, Execute, Goto
  <2>4. QED
    BY <1>4, <2>2, <2>3 DEF Count
<1>5. ASSUME NEW c \in Callers, Find(c) PROVE TypeOK'
  <2>1. pc' \in [Callers -> CallerSteps]
    BY <1>5 DEF Find, Goto
  <2>2. QED
    BY <1>5, <2>1 DEF Find
<1>6. ASSUME NEW c \in Callers, Sleep(c) PROVE TypeOK'
  BY <1>6 DEF Sleep, At, Goto
<1>7. ASSUME NEW c \in Callers, Relock(c) PROVE TypeOK'
  BY <1>7 DEF Relock, At, Goto
<1>8. ASSUME NEW c \in Callers, TakeFunction(c) PROVE TypeOK'
  BY <1>8 DEF TakeFunction, Goto
<1>9. ASSUME NEW c \in Callers, TakeCode(c) PROVE TypeOK'
  <2>1. KeyOf(c) \in Keys
    BY <1>9 DEF TakeCode, KeyOf, Keys
  <2>2. newF' \in [Callers -> Code \cup {NoCode}]
    BY <1>9, <2>1 DEF TakeCode, Execute
  <2>3. QED
    BY <1>9, <2>2 DEF TakeCode, Execute, Goto
<1>10. ASSUME NEW c \in Callers, NullLookup(c) PROVE TypeOK'
  BY <1>10 DEF NullLookup, Crash
<1>11. ASSUME NEW c \in Callers, Return(c) PROVE TypeOK'
  <2>1. work' \in Seq(RequestType)
    BY <1>11, ForgetQueue DEF Return
  <2>2. QED
    BY <1>11, <2>1 DEF Return, At, Goto
<1>12. ASSUME NEW c \in Callers, SpuriousWakeup(c) PROVE TypeOK'
  BY <1>12 DEF SpuriousWakeup, At, Goto
<1>13. CASE GenStart
  BY <1>13 DEF GenStart
<1>14. CASE GenRelock
  BY <1>14 DEF GenRelock
<1>15. CASE GenSpuriousWakeup
  BY <1>15 DEF GenSpuriousWakeup, WakeGenerator
<1>16. CASE TakeRequest
  <2>1. Request \in RequestType
    BY <1>16, TailQueue DEF TakeRequest, Request
  <2>2. QED
    BY <1>16, <2>1 DEF TakeRequest, MapPrototype, RequestType
<1>17. CASE EndBatch
  BY <1>17 DEF EndBatch, AfterBatch
<1>18. CASE LockMap
  BY <1>18 DEF LockMap
<1>19. CASE Rehash
  BY <1>19 DEF Rehash
<1>20. CASE Link
  <2>1. Request \in RequestType
    BY <1>20, TailQueue DEF Link, GenAt, Processing, Request
  <2>2. CASE gmap = "ir"
    BY <1>20, <2>1, <2>2 DEF Link, RequestType
  <2>3. CASE gmap = "code"
    <3>1. GenKey \in Keys
      BY <2>1, <2>3 DEF GenKey, Keys, RequestType
    <3>2. variants[GenKey] \in Code \cup {NoCode}
      BY <3>1
    <3>3. \A k \in Keys, f \in Code \cup {NoCode} : Put(k,
    f) \in [Keys -> Code \cup {NoCode}]
      BY DEF Put
    <3>4. code' = Put(GenKey, variants[GenKey]) /\ UNCHANGED ir
      BY <1>20, <2>3 DEF Link
    <3>5. code' \in [Keys -> Code \cup {NoCode}]
      BY <3>1, <3>2, <3>3, <3>4
    <3>6. QED
      BY <1>20, <3>4, <3>5 DEF Link
  <2>4. QED
    BY <2>2, <2>3
<1>21. CASE UnlockMap
  BY <1>21 DEF UnlockMap
<1>22. CASE Signal
  <2>1. pc' \in [Callers -> CallerSteps]
    BY <1>22 DEF Signal, Goto
  <2>2. QED
    BY <1>22, <2>1 DEF Signal
<1>23. CASE ReadValues
  <2>1. Request \in RequestType
    BY <1>23, TailQueue DEF ReadValues, GenAt, Processing, Request
  <2>2. ReadThrough(Request) \subseteq Vals
    BY <2>1 DEF ReadThrough, RequestType
  <2>3. QED
    BY <1>23, <2>2 DEF ReadValues
<1>24. CASE DanglingFault
  BY <1>24 DEF DanglingFault, Crash
<1>25. CASE Compile
  <2>1. Request \in RequestType /\ fmap[NameOf[Request.proto]] # None /\ gvals \in Vals
    BY <1>25, TailQueue DEF Compile, GetOrCreateVariant, GetEngine, GenAt,
       Processing, Request
  <2>2. GenKey \in Keys
    BY <2>1 DEF GenKey, Keys, RequestType
  <2>3. NewVariant \in Code
    BY <2>1 DEF NewVariant, SourceF, RequestType
  <2>4. variants' \in [Keys -> Code \cup {NoCode}] /\ engines' \in [Keys -> Nat]
    BY <1>25, <2>2, <2>3 DEF Compile, GetOrCreateVariant, GetEngine
  <2>5. QED
    BY <1>25, <2>4 DEF Compile, GetOrCreateVariant, GetEngine
<1>26. CASE PopRequest
  <2>1. work' \in Seq(RequestType)
    BY <1>26, TailQueue DEF PopRequest, GenAt, Processing
  <2>2. QED
    BY <1>26, <2>1 DEF PopRequest
<1>27. CASE BeginShutdown
  BY <1>27 DEF BeginShutdown
<1>28. CASE Shutdown
  BY <1>28 DEF Shutdown, RaiseStart
<1>29. CASE NotifyShutdown
  BY <1>29 DEF NotifyShutdown, WakeGenerator
<1>30. CASE Join
  BY <1>30 DEF Join
<1>31. CASE UNCHANGED vars
  BY <1>31 DEF vars
<1>32. QED
  BY <1>1, <1>2, <1>3, <1>4, <1>5, <1>6, <1>7, <1>8, <1>9, <1>10, <1>11, <1>12,
     <1>13, <1>14, <1>15, <1>16, <1>17, <1>18, <1>19, <1>20, <1>21, <1>22, <1>23,
     <1>24, <1>25, <1>26, <1>27, <1>28, <1>29, <1>30, <1>31
  DEF Next, Step, Spurious, CallerStep, GeneratorStep, DestructorStep

(* The request at hand stays at hand until it is popped, and changes only  *)
(* by its caller's return.                                                 *)
LEMMA RequestStep ==
  ASSUME TypeOK, Shape, [Next]_vars, Processing, ~PopRequest
  PROVE  work' # <<>> /\ Request' \in {Request, Dangling(Request)}
<1>1. work \in Seq(RequestType) /\ work # <<>> /\ Len(work) \in Nat \ {0}
  BY EmptySeq DEF TypeOK, Shape
<1>2. ASSUME NEW c \in Callers, AddRequest(c)
      PROVE  work' # <<>> /\ Request' \in {Request, Dangling(Request)}
  BY <1>2 DEF AddRequest, RequestMutexFree, Processing
<1>3. ASSUME NEW c \in Callers, Return(c)
      PROVE  work' # <<>> /\ Request' \in {Request, Dangling(Request)}
  <2>1. work' \in Seq(RequestType) /\ Len(work') = Len(work)
    BY <1>1, <1>3, ForgetQueue DEF Return
  <2>2. work'[1] \in {work[1], Dangling(work[1])}
    <3>1. 1 \in 1..Len(work)
      BY <1>1
    <3>2. Forget(work,
    c)[1] = IF work[1].owner = c THEN Dangling(work[1]) ELSE work[1]
      BY <1>1, <3>1, ForgetQueue
    <3>3. QED
      BY <1>3, <3>2 DEF Return
  <2>3. work' # <<>>
    BY <1>1, <2>1
  <2>4. QED
    BY <1>1, <2>1, <2>2, <2>3, TailQueue DEF Request
<1>4. CASE Shutdown
  BY <1>4 DEF Shutdown, RequestMutexFree, Processing
<1>5. CASE UNCHANGED work
  BY <1>1, <1>5 DEF Request
<1>6. QED
  BY <1>2, <1>3, <1>4, <1>5, Frames

(* A prototype that is mapped under its name stays mapped.                 *)
LEMMA MappingStep ==
  ASSUME TypeOK, [Next]_vars, NEW n \in Names, fmap[n] # None
  PROVE  fmap'[n] = fmap[n]
<1>1. CASE TakeRequest
  <2>1. fmap' = [fmap EXCEPT ![NameOf[Request.proto]] =
                   IF @ = None THEN Request.proto ELSE @]
    BY <1>1 DEF TakeRequest, MapPrototype
  <2>2. QED
    BY <2>1 DEF TypeOK
<1>2. CASE UNCHANGED fmap
  BY <1>2
<1>3. QED
  BY <1>1, <1>2, Frames

(* Every step keeps the shape.                                             *)
LEMMA ShapeStep == TypeOK /\ Shape /\ [Next]_vars => Shape'
<1> SUFFICES ASSUME TypeOK, Shape, [Next]_vars PROVE Shape'
  OBVIOUS
<1>1. ASSUME NEW c \in Callers, pc'[c] # "idle" PROVE call'[c] # NoCall
  <2>1. CASE UNCHANGED <<pc, call>>
    BY <1>1, <2>1 DEF Shape
  <2>2. ASSUME NEW d \in Callers, Call(d) PROVE call'[c] # NoCall
    <3>1. \A w \in Workload : w[1] # None
      BY Assumptions
    <3>2. QED
      BY <1>1, <2>2, <3>1 DEF Call, At, Goto, Shape, TypeOK, NoCall
  <2>3. ASSUME NEW d \in Callers, Return(d) PROVE call'[c] # NoCall
    BY <1>1, <2>3 DEF Return, At, Goto, Shape, TypeOK
  <2>4. CASE Signal
    BY <1>1, <2>4 DEF Signal, Waiters, Goto, callVars, Shape, TypeOK
  <2>5. ASSUME NEW d \in Callers, UNCHANGED call,
               pc[d] # "idle", NEW s, pc' = [pc EXCEPT ![d] = s]
        PROVE call'[c] # NoCall
    BY <1>1, <2>5 DEF Shape, TypeOK
  <2>6. QED
    BY <2>1, <2>2, <2>3, <2>4, <2>5 DEF Next, Step, Spurious, CallerStep,
       GeneratorStep, DestructorStep,
     vars, callVars, queueVars, genVars, mapVars, dispVars, procVars, Call, AddRequest,
     NotifyGenerator, Count, Find, Sleep, Relock, TakeFunction, TakeCode, NullLookup,
     Return, SpuriousWakeup, GenStart, GenRelock, GenSpuriousWakeup, TakeRequest,
     EndBatch, LockMap, Rehash, Link, UnlockMap, Signal, ReadValues, DanglingFault,
     Compile, GetOrCreateVariant, GetEngine, PopRequest, BeginShutdown, Shutdown, NotifyShutdown,
     Join,
       At, Goto, Execute
<1>2. ASSUME Processing' PROVE work' # <<>> /\ fmap'[NameOf[Request'.proto]] # None
  <2>1. CASE Processing
    <3>1. ~PopRequest
      BY <1>2 DEF PopRequest, Processing
    <3>2. work' # <<>> /\ Request'.proto = Request.proto /\ Request.proto \in Protos
      BY <2>1, <3>1, RequestStep, TailQueue DEF Dangling, Request, RequestType,
         Shape, TypeOK
    <3>3. NameOf[Request.proto] \in Names /\ fmap[NameOf[Request.proto]] # None
      BY <2>1, <3>2, Assumptions DEF Shape
    <3>4. QED
      BY <3>2, <3>3, MappingStep
  <2>2. CASE TakeRequest
    <3>1. Request \in RequestType /\ Request' = Request /\ work' # <<>>
      BY <2>2, TailQueue DEF TakeRequest, TypeOK, Request, queueVars
    <3>2. Request.proto \in Protos /\ Request.proto # None /\ NameOf[Request.proto] \in Names
      BY <3>1, Assumptions DEF RequestType
    <3>3. QED
      BY <2>2, <3>1, <3>2 DEF TakeRequest, MapPrototype, TypeOK
  <2>3. ~Processing => TakeRequest
    BY <1>2, GeneratorFrame DEF GeneratorStep, GenStart, GenRelock, TakeRequest,
       EndBatch,
     LockMap, Rehash, Link, UnlockMap, Signal, ReadValues, DanglingFault, Compile,
     PopRequest, GenAt, AfterBatch, genVars, Processing
  <2>4. QED
    BY <2>1, <2>2, <2>3
<1>3. ASSUME gmap' = "code"
      PROVE  gpc' \in {"lock", "rehash", "link", "unlock", "signal", "pop"}
  BY <1>3, GeneratorFrame DEF GeneratorStep, GenStart, GenRelock, TakeRequest,
     EndBatch,
     LockMap, Rehash, Link, UnlockMap, Signal, ReadValues, DanglingFault, Compile,
     PopRequest, GenAt, AfterBatch, genVars, Shape
<1>4. ASSUME gmap' = "code" \/ gpc' \in {"compile", "pop"} PROVE gvals' \in Vals
  <2>1. CASE ReadValues
    <3>1. Request \in RequestType
      BY <2>1, TailQueue DEF ReadValues, GenAt, Processing, Shape, TypeOK, Request
    <3>2. ReadThrough(Request) \subseteq Vals
      BY <3>1 DEF ReadThrough, RequestType
    <3>3. QED
      BY <2>1, <3>2 DEF ReadValues
  <2>2. CASE ~ReadValues
    <3>1. gmap \in {"ir", "code"}
      BY DEF TypeOK, Maps
    <3>2. QED
      BY <1>4, <2>2, <3>1, GeneratorFrame DEF GeneratorStep, GenStart, GenRelock,
         TakeRequest, EndBatch,
     LockMap, Rehash, Link, UnlockMap, Signal, ReadValues, DanglingFault, Compile,
     PopRequest, GenAt, AfterBatch, genVars, Shape
  <2>3. QED
    BY <2>1, <2>2
<1>5. QED
  BY <1>1, <1>2, <1>3, <1>4 DEF Shape

(* The types hold in the beginning.                                        *)
LEMMA InitTypes == Init => TypeOK
<1> SUFFICES ASSUME Init PROVE TypeOK
  OBVIOUS
<1> USE DEF Init
<1>1. pc \in [Callers -> CallerSteps] /\ gpc \in GenSteps
  BY DEF CallerSteps, GenSteps
<1>2. on \in [Callers -> Maps] /\ gmap \in Maps
  BY DEF Maps
<1>3. call \in [Callers -> [proto : Protos, vals : Vals] \cup {NoCall}]
  OBVIOUS
<1>4. newF \in [Callers -> Code \cup {NoCode}]
  OBVIOUS
<1>5. work \in Seq(RequestType) /\ calls \in Nat /\ ir \in SUBSET Protos
  OBVIOUS
<1>6. code \in [Keys -> Code \cup {NoCode}] /\ variants \in [Keys -> Code \cup {NoCode}]
  OBVIOUS
<1>7. mutex \in [Maps -> Callers \cup {Generator, None}]
  OBVIOUS
<1>8. fmap \in [Names -> Protos \cup {None}] /\ engines \in [Keys -> Nat]
  OBVIOUS
<1>9. fault \in {None, "dangling"} \cup Maps /\ gvals \in Vals \cup {None}
  OBVIOUS
<1>10. QED
  BY <1>1, <1>2, <1>3, <1>4, <1>5, <1>6, <1>7, <1>8, <1>9 DEF TypeOK

(* Every reachable state has the types and the shape.                      *)
THEOREM ShapeCorrect == Spec => [](TypeOK /\ Shape)
<1>1. Init => TypeOK /\ Shape
  <2>1. Init => Shape
    BY DEF Init, Shape, Processing
  <2>2. QED
    BY <2>1, InitTypes
<1>2. TypeOK /\ Shape /\ [Next]_vars => TypeOK' /\ Shape'
  BY TypeStep, ShapeStep
<1>3. QED
  BY <1>1, <1>2, PTL DEF Spec

(* The state of the runtime always has its types.                          *)
THEOREM TypeCorrect == Spec => []TypeOK
BY ShapeCorrect, PTL


-----------------------------------------------------------------------------
(* What the generator compiles and publishes.                              *)

(* While the generator inserts into CompileCache, the key stays the same.  *)
LEMMA KeyStep ==
  ASSUME TypeOK, Shape, [Next]_vars, gmap = "code", gmap' = "code"
  PROVE  GenKey \in Keys /\ GenKey' = GenKey
<1>1. Processing /\ ~PopRequest /\ gvals \in Vals
  BY DEF Shape, Processing, PopRequest
<1>2. Request \in RequestType /\ Request'.proto = Request.proto
  BY <1>1, RequestStep, TailQueue DEF Request, Dangling, Shape, TypeOK, RequestType
<1>3. gvals' = gvals
  BY <1>1, GeneratorFrame DEF GeneratorStep, GenStart, GenRelock, TakeRequest,
     EndBatch,
     LockMap, Rehash, Link, UnlockMap, Signal, ReadValues, DanglingFault, Compile,
     PopRequest, GenAt, AfterBatch, genVars, Shape
<1>4. QED
  BY <1>1, <1>2, <1>3, Assumptions DEF GenKey, Keys, RequestType

(* Published code stays published (the step of CacheStable).               *)
LEMMA CodeStep ==
  ASSUME TypeOK, [Next]_vars
  PROVE  /\ ir \subseteq ir'
         /\ \A k \in Keys : code[k] # NoCode => code'[k] = code[k]
<1>1. CASE Link
  BY <1>1 DEF Link, Put, TypeOK
<1>2. CASE ~Link
  BY <1>2, Frames
<1>3. QED
  BY <1>1, <1>2

(* A cached variant stays the same.                                        *)
LEMMA VariantStep ==
  ASSUME TypeOK, [Next]_vars, NEW k \in Keys, variants[k] # NoCode
  PROVE  variants'[k] = variants[k]
<1>1. CASE Compile
  BY <1>1 DEF Compile, GetOrCreateVariant, GetEngine, TypeOK
<1>2. CASE ~Compile
  BY <1>2, Frames
<1>3. QED
  BY <1>1, <1>2

(* Names map to prototypes of that name, variants and published code fit   *)
(* their keys, and what is about to be published exists.                   *)
Sound ==
  /\ \A n \in Names : fmap[n] # None => NameOf[fmap[n]] = n
  /\ \A k \in Keys : variants[k] # NoCode => Fits(k, variants[k])
  /\ CacheSound
  /\ gmap = "code" => variants[GenKey] # NoCode

(* What the generator compiles fits its key.                               *)
LEMMA CompileFits ==
  ASSUME TypeOK, Shape, Sound, Compile
  PROVE  GenKey \in Keys /\ Fits(GenKey, NewVariant)
<1>1. Request \in RequestType /\ gvals \in Vals /\ fmap[NameOf[Request.proto]] # None
  BY TailQueue DEF Compile, GetOrCreateVariant, GetEngine, GenAt, Processing, Shape,
     TypeOK, Request
<1>2. Request.proto \in Protos /\ NameOf[Request.proto] \in Names
  BY <1>1, Assumptions DEF RequestType
<1>3. GenKey \in Keys /\ GenKey[1] = Request.proto /\ GenKey[2] = Hash[gvals]
  BY <1>1, <1>2, Assumptions DEF GenKey, Keys
<1>4. NewVariant.src = fmap[NameOf[Request.proto]] /\ NewVariant.vals \in {gvals, Generic}
  BY DEF NewVariant, SourceF
<1>5. NameOf[NewVariant.src] = NameOf[Request.proto]
  BY <1>1, <1>2, <1>4 DEF Sound
<1>6. NewVariant # NoCode
  BY <1>1, <1>4 DEF NoCode
<1>7. QED
  BY <1>3, <1>4, <1>5, <1>6 DEF Fits

(* Every step keeps what is in the maps sound.                             *)
LEMMA SoundStep == TypeOK /\ Shape /\ Sound /\ [Next]_vars => Sound'
<1> SUFFICES ASSUME TypeOK, Shape, Sound, [Next]_vars PROVE Sound'
  OBVIOUS
<1>1. ASSUME NEW n \in Names, fmap'[n] # None PROVE NameOf[fmap'[n]] = n
  <2>1. CASE TakeRequest
    BY <1>1, <2>1 DEF TakeRequest, MapPrototype, Sound, TypeOK
  <2>2. CASE ~TakeRequest
    <3>1. UNCHANGED fmap
      BY <2>2, Frames
    <3>2. QED
      BY <1>1, <3>1 DEF Sound
  <2>3. QED
    BY <2>1, <2>2
<1>2. ASSUME NEW k \in Keys, variants'[k] # NoCode PROVE Fits(k, variants'[k])
  <2>1. CASE Compile
    BY <1>2, <2>1, CompileFits DEF Compile, GetOrCreateVariant, GetEngine, Sound,
       TypeOK
  <2>2. CASE ~Compile
    <3>1. UNCHANGED variants
      BY <2>2, Frames
    <3>2. QED
      BY <1>2, <3>1 DEF Sound
  <2>3. QED
    BY <2>1, <2>2
<1>3. ASSUME NEW k \in Keys, code'[k] # NoCode PROVE Fits(k, code'[k])
  <2>1. CASE Link
    <3>1. CASE gmap = "code"
      <4>1. code' = Put(GenKey, variants[GenKey]) /\ gmap' = gmap
        BY <2>1, <3>1 DEF Link
      <4>2. GenKey \in Keys /\ Fits(GenKey, variants[GenKey])
        BY <3>1, <4>1, KeyStep DEF Sound
      <4>3. QED
        BY <1>3, <4>1, <4>2 DEF Put, Sound, CacheSound, TypeOK
    <3>2. CASE gmap # "code"
      BY <1>3, <2>1, <3>2 DEF Link, Sound, CacheSound
    <3>3. QED
      BY <3>1, <3>2
  <2>2. CASE ~Link
    <3>1. UNCHANGED code
      BY <2>2, Frames
    <3>2. QED
      BY <1>3, <3>1 DEF Sound, CacheSound
  <2>3. QED
    BY <2>1, <2>2
<1>4. ASSUME gmap' = "code" PROVE variants'[GenKey'] # NoCode
  <2>1. CASE Compile
    <3>1. GenKey' = GenKey
      BY <2>1 DEF Compile, GetOrCreateVariant, GetEngine, GenKey, Request, queueVars
    <3>2. QED
      BY <2>1, <3>1, CompileFits DEF Compile, GetOrCreateVariant, GetEngine, Fits,
         TypeOK
  <2>2. CASE ~Compile
    <3>1. gmap = "code"
      BY <1>4, <2>2, GeneratorFrame DEF GeneratorStep, GenStart, GenRelock,
         TakeRequest, EndBatch,
     LockMap, Rehash, Link, UnlockMap, Signal, ReadValues, DanglingFault, Compile,
     PopRequest, GenAt, AfterBatch, genVars
    <3>2. QED
      BY <1>4, <3>1, KeyStep, VariantStep DEF Sound
  <2>3. QED
    BY <2>1, <2>2
<1>5. QED
  BY <1>1, <1>2, <1>3, <1>4 DEF Sound, CacheSound, Fits

(* Under every key of CompileCache there is code for that key, also when   *)
(* the generator read its values through dangling addresses.               *)
THEOREM CacheSoundness == Spec => []CacheSound
<1>1. Init => Sound
  BY DEF Init, Sound, CacheSound
<1>2. TypeOK /\ Shape /\ Sound /\ [Next]_vars => Sound'
  BY SoundStep
<1>3. Sound => CacheSound
  BY DEF Sound
<1>4. QED
  BY <1>1, <1>2, <1>3, ShapeCorrect, PTL DEF Spec


-----------------------------------------------------------------------------
(* What a call runs.                                                       *)

Same(c) == pc'[c] = pc[c] /\ on'[c] = on[c] /\ call'[c] = call[c] /\ newF'[c] = newF[c]
Woken(c) == /\ pc[c] = "asleep" /\ pc'[c] = "woken"
            /\ on'[c] = on[c] /\ call'[c] = call[c] /\ newF'[c] = newF[c]

(* A step is the thread's own, or wakes it, or does not concern it.        *)
LEMMA CallerFrame ==
  ASSUME TypeOK, [Next]_vars, NEW c \in Callers
  PROVE  Call(c) \/ CallerStep(c) \/ SpuriousWakeup(c) \/ Woken(c) \/ Same(c)
<1>1. ASSUME NEW d \in Callers, d # c, Call(d) \/ CallerStep(d) \/ SpuriousWakeup(d)
      PROVE  Same(c)
  BY <1>1 DEF Same, CallerStep, callVars, Call, AddRequest, NotifyGenerator, Count,
     Find,
     Sleep, Relock, TakeFunction, TakeCode, NullLookup, Return, SpuriousWakeup, Goto,
     Execute, TypeOK
<1>2. CASE Signal
  BY <1>2 DEF Signal, Waiters, Goto, Same, Woken, callVars, TypeOK
<1>3. CASE UNCHANGED <<pc, on, callVars>>
  BY <1>3 DEF Same, callVars
<1>4. QED
  BY <1>1, <1>2, <1>3 DEF Next, Step, Spurious, GeneratorStep, DestructorStep, vars,
     GenStart, GenRelock, GenSpuriousWakeup, TakeRequest, EndBatch, LockMap, Rehash,
     Link,
     UnlockMap, ReadValues, DanglingFault, Compile, GetOrCreateVariant, GetEngine,
     PopRequest, BeginShutdown, Shutdown, NotifyShutdown,
     Join

(* The key of a call, and a key that is present stays present.             *)
LEMMA CallKey ==
  ASSUME TypeOK, NEW c \in Callers, call[c] # NoCall
  PROVE  /\ call[c].proto \in Protos /\ call[c].vals \in Vals
         /\ KeyOf(c) \in Keys
         /\ KeyOf(c)[1] = call[c].proto /\ KeyOf(c)[2] = Hash[call[c].vals]
<1>1. call[c] \in [proto : Protos, vals : Vals]
  BY DEF TypeOK
<1>2. QED
  BY <1>1, Assumptions DEF KeyOf, Keys

(* What a call has found stays in the map.                                 *)
LEMMA PresentStep ==
  ASSUME TypeOK, [Next]_vars, NEW c \in Callers, call[c] # NoCall,
         on'[c] = on[c], call'[c] = call[c], Present(c)
  PROVE  Present(c)'
<1>1. KeyOf(c)' = KeyOf(c) /\ KeyOf(c) \in Keys
  BY CallKey DEF KeyOf
<1>2. ir \subseteq ir' /\ \A k \in Keys : code[k] # NoCode => code'[k] = code[k]
  BY CodeStep
<1>3. QED
  BY <1>1, <1>2 DEF Present

(* What a call has seen in a map is there, and what it ran fits.           *)
CallSound ==
  /\ \A c \in Callers : pc[c] \in {"at", "index"} => Present(c)
  /\ RunsFittingCode

(* Every step keeps what a call has in its hands sound.                    *)
LEMMA CallSoundStep == TypeOK /\ Shape /\ Sound /\ CallSound /\ [Next]_vars => CallSound'
<1> SUFFICES ASSUME TypeOK, Shape, Sound, CallSound, [Next]_vars PROVE CallSound'
  OBVIOUS
<1>1. ASSUME NEW c \in Callers, pc'[c] \in {"at", "index"} PROVE Present(c)'
  <2>1. Present(c) /\ on'[c] = on[c] /\ call'[c] = call[c] /\ pc[c] # "idle"
    <3>1. CASE Count(c) \/ Find(c)
      BY <1>1, <3>1 DEF Count, Find, At, Hit, Goto, Execute, callVars, TypeOK
    <3>2. CASE Same(c)
      BY <1>1, <3>2 DEF Same, CallSound
    <3>3. QED
      BY <1>1, <3>1, <3>2, CallerFrame DEF CallerStep, Woken, Call, AddRequest,
         NotifyGenerator, Sleep, Relock, TakeFunction, TakeCode, NullLookup, Return,
         SpuriousWakeup, Goto, Execute, TypeOK, Same, callVars, At
  <2>2. QED
    BY <2>1, PresentStep DEF Shape
<1>2. ASSUME NEW c \in Callers, pc'[c] = "return" PROVE Fits(KeyOf(c)', newF'[c])
  <2>1. CASE pc[c] # "idle" /\ call'[c] = call[c]
    <3>1. call[c] # NoCall /\ KeyOf(c)' = KeyOf(c)
      BY <2>1 DEF Shape, KeyOf
    <3>2. call[c].proto \in Protos /\ call[c].vals \in Vals /\ KeyOf(c) \in Keys
            /\ KeyOf(c)[1] = call[c].proto
      BY <3>1, CallKey
    <3>3. CASE Count(c)
      <4>1. newF'[c] = [src |-> call[c].proto, vals |-> Generic]
        BY <1>2, <3>3 DEF Count, Execute, Goto, At, TypeOK
      <4>2. newF'[c] # NoCode
        BY <3>2, <4>1, Assumptions DEF NoCode
      <4>3. QED
        BY <3>1, <3>2, <4>1, <4>2 DEF Fits
    <3>4. CASE TakeCode(c)
      <4>1. newF'[c] = code[KeyOf(c)] /\ code[KeyOf(c)] # NoCode
        BY <3>4 DEF TakeCode, Execute, CallSound, Present, TypeOK
      <4>2. QED
        BY <3>1, <3>2, <4>1 DEF Sound, CacheSound
    <3>5. CASE Same(c)
      BY <1>2, <3>1, <3>5 DEF Same, CallSound, RunsFittingCode
    <3>6. CASE NullLookup(c)
      BY <1>2, <3>1, <3>6 DEF NullLookup, CallSound, RunsFittingCode, callVars
    <3>7. QED
      BY <1>2, <3>3, <3>4, <3>5, <3>6, CallerFrame DEF CallerStep, Woken, Call,
         AddRequest, NotifyGenerator, Find, Sleep, Relock, TakeFunction, Return,
         SpuriousWakeup, Goto, TypeOK
  <2>2. pc[c] # "idle" /\ call'[c] = call[c]
    BY <1>2, CallerFrame DEF CallerStep, Woken, Same, Call, AddRequest,
       NotifyGenerator,
       Count, Find, Sleep, Relock, TakeFunction, TakeCode, NullLookup, Return,
       Execute,
       SpuriousWakeup, Goto, At, TypeOK, callVars
  <2>3. QED
    BY <2>1, <2>2
<1>3. QED
  BY <1>1, <1>2 DEF CallSound, RunsFittingCode, Fits

(* Types, shape, and sound maps and calls hold in every reachable state.   *)
THEOREM CallsAreSound == Spec => [](TypeOK /\ Shape /\ Sound /\ CallSound)
<1>1. Init => Sound /\ CallSound
  BY DEF Init, Sound, CacheSound, CallSound, RunsFittingCode
<1>2. TypeOK /\ Shape /\ Sound /\ CallSound /\ [Next]_vars => Sound' /\ CallSound'
  BY SoundStep, CallSoundStep
<1>3. QED
  BY <1>1, <1>2, ShapeCorrect, PTL DEF Spec

(* Every call runs code made for its function and its values, or the       *)
(* fallback, and never a null pointer.                                     *)
THEOREM RunsFittingCodeAlways == Spec => []RunsFittingCode
<1>1. CallSound => RunsFittingCode
  BY DEF CallSound
<1>2. QED
  BY <1>1, CallsAreSound, PTL


-----------------------------------------------------------------------------
(* Engines, requests and notifications.                                    *)

(* An engine was made for a key only if its code is published, or is being *)
(* published; the generator compiles only for a key without code.          *)
Engines ==
  /\ \A k \in Keys : engines[k] > 0 =>
       \/ code[k] # NoCode
       \/ gmap = "code" /\ gpc \in {"lock", "rehash", "link"} /\ k = GenKey
  /\ gpc = "compile" => code[GenKey] = NoCode
  /\ EngineOnce

(* Every step keeps engines those of published code, one for a key.        *)
LEMMA EnginesStep == TypeOK /\ Shape /\ Sound /\ Engines /\ [Next]_vars => Engines'
<1> SUFFICES ASSUME TypeOK, Shape, Sound, Engines, [Next]_vars PROVE Engines'
  OBVIOUS
<1>1. CASE Compile
  <2>1. GenKey \in Keys /\ GenKey' = GenKey /\ code[GenKey] = NoCode
    BY <1>1, CompileFits DEF Compile, GetOrCreateVariant, GetEngine, GenAt, GenKey,
       Request, queueVars, Engines
  <2>2. gmap # "code" /\ gpc = "compile"
    BY <1>1 DEF Compile, GetOrCreateVariant, GetEngine, GenAt, Shape
  <2>3. engines[GenKey] = 0
    BY <2>1, <2>2 DEF Engines, TypeOK
  <2>4. /\ engines' = [engines EXCEPT ![GenKey] = @ + 1]
        /\ gmap' = "code" /\ gpc' = "lock" /\ code' = code
    BY <1>1 DEF Compile, GetOrCreateVariant, GetEngine, mapVars
  <2>5. QED
    BY <2>1, <2>2, <2>3, <2>4 DEF Engines, EngineOnce, TypeOK
<1>2. CASE ReadValues
  <2>1. Request' = Request /\ gmap' = gmap /\ code' = code /\ engines' = engines
    BY <1>2 DEF ReadValues, Request, queueVars, mapVars, dispVars
  <2>2. gpc = "read" /\ (gpc' = "compile" => code[GenKey'] = NoCode)
    BY <1>2, <2>1 DEF ReadValues, GenAt, Compiled, GenKey
  <2>3. QED
    BY <2>1, <2>2 DEF Engines, EngineOnce
<1>3. CASE Link
  <2>1. gpc = "link" /\ gpc' = "unlock" /\ gmap' = gmap /\ engines' = engines
    BY <1>3 DEF Link, GenAt, dispVars
  <2>2. gmap = "code" => code'[GenKey] # NoCode
    <3>1. ASSUME gmap = "code" PROVE code'[GenKey] # NoCode
      <4>1. GenKey \in Keys /\ variants[GenKey] # NoCode
        BY <2>1, <3>1, KeyStep DEF Sound
      <4>2. QED
        BY <1>3, <3>1, <4>1 DEF Link, Put, TypeOK
    <3>2. QED
      BY <3>1
  <2>3. QED
    BY <2>1, <2>2, CodeStep DEF Engines, EngineOnce
<1>4. CASE ~Compile /\ ~ReadValues /\ ~Link
  <2>1. code' = code /\ engines' = engines
    BY <1>4 DEF Next, Step, Spurious, CallerStep, GeneratorStep, DestructorStep,
     vars, callVars, queueVars, genVars, mapVars, dispVars, procVars, Call, AddRequest,
     NotifyGenerator, Count, Find, Sleep, Relock, TakeFunction, TakeCode, NullLookup,
     Return, SpuriousWakeup, GenStart, GenRelock, GenSpuriousWakeup, TakeRequest,
     EndBatch, LockMap, Rehash, UnlockMap, Signal, DanglingFault,
     PopRequest, BeginShutdown, Shutdown, NotifyShutdown, Join
  <2>2. gmap = "code" /\ gpc \in {"lock", "rehash", "link"} =>
          gmap' = "code" /\ gpc' \in {"lock", "rehash", "link"}
    BY <1>4, GeneratorFrame DEF GeneratorStep, GenStart, GenRelock, TakeRequest,
       EndBatch,
     LockMap, Rehash, Link, UnlockMap, Signal, ReadValues, DanglingFault, Compile,
     PopRequest, GenAt, AfterBatch, genVars
  <2>3. gpc' = "compile" => gpc = "compile" /\ gvals' = gvals
    BY <1>4, GeneratorFrame DEF GeneratorStep, GenStart, GenRelock, TakeRequest,
       EndBatch,
     LockMap, Rehash, Link, UnlockMap, Signal, ReadValues, DanglingFault, Compile,
     PopRequest, GenAt, AfterBatch, genVars
  <2>4. ASSUME gpc' = "compile" PROVE GenKey' = GenKey
    <3>1. Processing /\ ~PopRequest
      BY <2>3, <2>4 DEF Processing, PopRequest, GenAt
    <3>2. Request'.proto = Request.proto
      BY <3>1, RequestStep DEF Dangling
    <3>3. QED
      BY <2>3, <2>4, <3>2 DEF GenKey
  <2>5. QED
    BY <2>1, <2>2, <2>3, <2>4, KeyStep DEF Engines, EngineOnce
<1>5. QED
  BY <1>1, <1>2, <1>3, <1>4

(* No variant's module is handed to a second engine.                       *)
THEOREM EngineOnceAlways == Spec => []EngineOnce
<1>1. Init => Engines
  BY DEF Init, Engines, EngineOnce
<1>2. TypeOK /\ Shape /\ Sound /\ Engines /\ [Next]_vars => Engines'
  BY EnginesStep
<1>3. Engines => EngineOnce
  BY DEF Engines
<1>4. QED
  BY <1>1, <1>2, <1>3, CallsAreSound, PTL DEF Spec

(* Neither a queued request nor a notification of the generator is lost.   *)
THEOREM StartNotLostAlways == Spec => []StartNotLost
<1>1. Init => StartNotLost
  BY DEF Init, StartNotLost
<1>2. ASSUME TypeOK, Shape, StartNotLost, [Next]_vars PROVE StartNotLost'
  <2>1. work' # <<>> => shouldStart'
    <3>1. CASE EndBatch
      BY <3>1 DEF EndBatch
    <3>2. ASSUME NEW c \in Callers, AddRequest(c) \/ Return(c)
          PROVE  work' # <<>> => shouldStart'
      BY <1>2, <3>2, EmptySeq, LenProperties, ForgetQueue DEF AddRequest, RaiseStart,
         Return,
         StartNotLost, TypeOK
    <3>3. CASE PopRequest \/ Shutdown
      BY <1>2, <3>3 DEF PopRequest, Shutdown, RaiseStart, StartNotLost, Shape,
         Processing, GenAt
    <3>4. CASE UNCHANGED <<work, shouldStart>>
      BY <1>2, <3>4 DEF StartNotLost
    <3>5. QED
      BY <1>2, <3>1, <3>2, <3>3, <3>4, Frames
  <2>2. ASSUME gpc' = "asleep", shouldStart'
        PROVE  mpc' = "notify" \/ \E c \in Callers : pc'[c] = "notify"
    <3>1. ASSUME NEW c \in Callers, AddRequest(c)
          PROVE  \E d \in Callers : pc'[d] = "notify"
      BY <1>2, <3>1 DEF AddRequest, Goto, TypeOK
    <3>2. ASSUME NEW c \in Callers, pc[c] = "notify", gpc = "asleep"
          PROVE  pc'[c] = "notify"
      BY <1>2, <2>2, <3>2, CallerFrame DEF CallerStep, Woken, Same, Call, AddRequest,
         NotifyGenerator, WakeGenerator, Count, Find, Sleep, Relock, TakeFunction,
         TakeCode, NullLookup, Return, SpuriousWakeup, At
    <3>3. CASE Shutdown
      BY <3>3 DEF Shutdown
    <3>4. CASE NotifyShutdown
      BY <2>2, <3>4 DEF NotifyShutdown, WakeGenerator
    <3>5. CASE gpc = "asleep" /\ shouldStart /\ mpc' = mpc
      BY <1>2, <3>2, <3>5 DEF StartNotLost
    <3>6. CASE GeneratorStep \/ GenSpuriousWakeup
      <4>1. ~GenSpuriousWakeup /\ ~GenStart /\ ~GenRelock /\ ~EndBatch
        BY <2>2 DEF GenSpuriousWakeup, GenStart, GenRelock, EndBatch, WakeGenerator,
           GenAt, queueVars
      <4>2. gpc' # "asleep"
        BY <3>6, <4>1 DEF GeneratorStep, TakeRequest, LockMap, Rehash, Link,
           UnlockMap, Signal,
           ReadValues, Compile, GetOrCreateVariant, GetEngine, PopRequest,
           DanglingFault, Crash, GenAt, genVars
      <4>3. QED
        BY <2>2, <4>2
    <3>7. ASSUME NEW c \in Callers, Call(c) \/ CallerStep(c) \/ SpuriousWakeup(c),
    ~AddRequest(c)
          PROVE  gpc = "asleep" /\ shouldStart /\ mpc' = mpc
      BY <1>2, <2>2, <3>7 DEF CallerStep, Call, NotifyGenerator, WakeGenerator,
         Count, Find,
         Sleep, Relock, TakeFunction, TakeCode, NullLookup, Crash, Return,
         SpuriousWakeup,
         queueVars, genVars, procVars
    <3>8. CASE BeginShutdown \/ Join \/ UNCHANGED vars
      BY <1>2, <2>2, <3>8 DEF BeginShutdown, Join, GenAt, vars, queueVars, genVars, procVars,
         StartNotLost
    <3>9. QED
      BY <1>2, <3>1, <3>3, <3>4, <3>5, <3>6, <3>7, <3>8
      DEF Next, Step, Spurious, DestructorStep
  <2>3. QED
    BY <2>1, <2>2 DEF StartNotLost
<1>3. QED
  BY <1>1, <1>2, ShapeCorrect, PTL DEF Spec

(* The generator's reference into the queue stays valid while it is used.  *)
THEOREM RequestSurvivesAlways == Spec => RequestSurvives
<1>1. ASSUME TypeOK, Shape, [Next]_vars, Processing, gpc # "pop"
      PROVE  work' # <<>> /\ Head(work').proto = Request.proto
                          /\ Head(work').vals \in {Request.vals, None}
  <2>1. ~PopRequest
    BY <1>1 DEF PopRequest, GenAt
  <2>2. QED
    BY <1>1, <2>1, RequestStep DEF Request, Dangling
<1>2. QED
  BY <1>1, ShapeCorrect, PTL DEF Spec, RequestSurvives

(* Published code is never replaced or withdrawn.                          *)
THEOREM CacheStableAlways == Spec => CacheStable
<1>1. ASSUME TypeOK, [Next]_vars
      PROVE  /\ ir \subseteq ir'
             /\ \A k \in Keys : code[k] # NoCode => code'[k] = code[k]
  BY <1>1, CodeStep
<1>2. QED
  BY <1>1, TypeCorrect, PTL DEF Spec, CacheStable


-----------------------------------------------------------------------------
(* The runtime implements ScopCall when function names tell prototypes     *)
(* apart and hashes tell values apart.                                     *)
Distinct ==
  /\ \A p, q \in Protos : NameOf[p] = NameOf[q] => p = q
  /\ \A v, w \in Vals : Hash[v] = Hash[w] => v = w

(* Code that fits a call does what the call asks for.                      *)
LEMMA FittingMeansRight ==
  ASSUME Distinct, NEW k \in [proto : Protos, vals : Vals], NEW f \in Code \cup {NoCode},
         Fits(<<k.proto, Hash[k.vals]>>, f)
  PROVE  /\ f.src = k.proto
         /\ f.vals # Generic => f.vals = k.vals
<1>1. f \in Code /\ NameOf[f.src] = NameOf[k.proto]
  BY DEF Fits
<1>2. f.vals # Generic => Hash[f.vals] = Hash[k.vals]
  BY DEF Fits
<1>3. QED
  BY <1>1, <1>2 DEF Code, Distinct

(* The mapped state changes only by the thread's own steps.                *)
LEMMA MappedFrame ==
  ASSUME TypeOK, [Next]_vars, NEW c \in Callers, Woken(c) \/ Same(c)
  PROVE  /\ status'[c] = status[c] /\ did'[c] = did[c] /\ call'[c] = call[c]
  BY DEF Woken, Same, status, did, Meaning

(* The thread that moves: at most one does, the others stay or wake up.    *)
LEMMA OneMoves ==
  ASSUME TypeOK, [Next]_vars, NEW c \in Callers,
         Call(c) \/ CallerStep(c) \/ SpuriousWakeup(c), NEW d \in Callers, d # c
  PROVE  Same(d)
  BY DEF Same, CallerStep, callVars, Call, AddRequest, NotifyGenerator, Count, Find,
     Sleep, Relock, TakeFunction, TakeCode, NullLookup, Return, SpuriousWakeup, Goto,
     Execute, TypeOK

(* A step of a thread is a step of ScopCall or changes nothing there.      *)
LEMMA MappedStep ==
  ASSUME Distinct, TypeOK, Shape, CallSound, TypeOK', CallSound', [Next]_vars,
         NEW c \in Callers, Call(c) \/ CallerStep(c) \/ SpuriousWakeup(c)
  PROVE  Scop!Call(c) \/ Scop!Execute(c) \/ Scop!Return(c) \/ UNCHANGED Scop!vars
<1>1. \A d \in Callers \ {c} : status'[d] = status[d] /\ did'[d] = did[d]
  BY OneMoves, MappedFrame
<1>2. \A d \in Callers \ {c} : call'[d] = call[d]
  BY OneMoves, MappedFrame
<1>3. CASE Call(c)
  <2>1. status[c] = "idle" /\ status'[c] = "called"
    BY <1>3 DEF Call, At, Goto, status, TypeOK
  <2>2. did'[c] = did[c]
    BY <1>3 DEF Call, At, Goto, did, TypeOK
  <2>3. \E p \in Protos, v \in Vals : call' = [call EXCEPT ![c] = [proto |-> p, vals |-> v]]
    BY <1>3, Assumptions DEF Call
  <2>4. status' = [status EXCEPT ![c] = "called"]
    BY <1>1, <2>1 DEF status
  <2>5. did' = did
    BY <1>1, <2>2 DEF did
  <2>6. QED
    BY <2>1, <2>3, <2>4, <2>5 DEF Scop!Call
<1>4. CASE Return(c)
  <2>1. status[c] = "executed" /\ status'[c] = "idle"
    BY <1>4 DEF Return, At, Goto, status, TypeOK
  <2>2. did'[c] = NoCall /\ call' = [call EXCEPT ![c] = NoCall]
    BY <1>4 DEF Return, Goto, did, TypeOK
  <2>3. status' = [status EXCEPT ![c] = "idle"]
    BY <1>1, <2>1 DEF status
  <2>4. did' = [did EXCEPT ![c] = NoCall]
    BY <1>1, <2>2 DEF did
  <2>5. QED
    BY <2>1, <2>2, <2>3, <2>4 DEF Scop!Return, Scop!NoCall, Scop!None, NoCall, None
<1>5. CASE (Count(c) \/ TakeCode(c)) /\ pc'[c] = "return"
  <2>1. status[c] = "called" /\ status'[c] = "executed" /\ call' = call /\ pc[c] # "idle"
    BY <1>5 DEF Count, TakeCode, At, status, callVars
  <2>2. did'[c] = call'[c]
    <3>1. call[c] \in [proto : Protos, vals : Vals] /\ call'[c] = call[c]
      BY <2>1 DEF Shape, TypeOK
    <3>2. newF'[c] \in Code \cup {NoCode}
      BY DEF TypeOK
    <3>3. Fits(<<call[c].proto, Hash[call[c].vals]>>, newF'[c])
      BY <1>5, <3>1 DEF CallSound, RunsFittingCode, Fits, KeyOf
    <3>4. /\ newF'[c].src = call[c].proto
          /\ newF'[c].vals # Generic => newF'[c].vals = call[c].vals
      BY <3>1, <3>2, <3>3, FittingMeansRight
    <3>5. Meaning(c)' = [proto |-> call[c].proto, vals |-> call[c].vals]
      BY <3>1, <3>4 DEF Meaning
    <3>6. QED
      BY <1>5, <3>1, <3>5 DEF did
  <2>3. status' = [status EXCEPT ![c] = "executed"]
    BY <1>1, <2>1 DEF status
  <2>4. did' = [did EXCEPT ![c] = call[c]]
    BY <1>1, <2>1, <2>2 DEF did
  <2>5. QED
    BY <2>1, <2>3, <2>4 DEF Scop!Execute
<1>6. CASE ~Call(c) /\ ~Return(c) /\ pc'[c] # "return"
  <2>1. call' = call /\ status'[c] = status[c] /\ did'[c] = did[c]
    BY <1>6 DEF CallerStep, AddRequest, NotifyGenerator, Count, Find, Sleep, Relock,
       TakeFunction, TakeCode, NullLookup, SpuriousWakeup, Execute, Goto, At, callVars,
       TypeOK, status, did
  <2>2. status' = status /\ did' = did
    BY <1>1, <2>1 DEF status, did
  <2>3. QED
    BY <2>1, <2>2 DEF Scop!vars
<1>7. CASE ~Call(c) /\ ~Return(c) /\ ~Count(c) /\ ~TakeCode(c) /\ pc'[c] = "return"
  <2>1. Same(c)
    BY <1>7 DEF CallerStep, AddRequest, NotifyGenerator, Find, Sleep, Relock,
       TakeFunction, NullLookup, SpuriousWakeup, Goto, At, callVars, TypeOK, Same
  <2>2. call' = call
    BY <1>7 DEF CallerStep, AddRequest, NotifyGenerator, Find, Sleep, Relock,
       TakeFunction, NullLookup, SpuriousWakeup, callVars
  <2>3. status' = status /\ did' = did
    BY <1>1, <2>1, MappedFrame DEF status, did
  <2>4. QED
    BY <2>2, <2>3 DEF Scop!vars
<1>8. QED
  BY <1>3, <1>4, <1>5, <1>6, <1>7

(* Every step of PolyJIT is a step of the abstract call or a stutter.      *)
LEMMA RefinementStep ==
  ASSUME Distinct, TypeOK, Shape, CallSound, TypeOK', CallSound', [Next]_vars
  PROVE  [Scop!Next]_(Scop!vars)
<1>1. ASSUME NEW c \in Callers, Call(c) \/ CallerStep(c) \/ SpuriousWakeup(c)
      PROVE  [Scop!Next]_(Scop!vars)
  BY <1>1, MappedStep DEF Scop!Next
<1>2. CASE \A c \in Callers : Woken(c) \/ Same(c)
  <2>1. status' = status /\ did' = did
    BY <1>2, MappedFrame DEF status, did
  <2>2. call' = call
    BY <1>2, MappedFrame DEF TypeOK
  <2>3. QED
    BY <2>1, <2>2 DEF Scop!vars
<1>3. QED
  BY <1>1, <1>2, CallerFrame

(* Each call runs its own function on its own arguments exactly once.      *)
THEOREM Implementation == ASSUME Distinct PROVE Spec => ImplementsScopCall
<1>1. Init => Scop!Init
  BY DEF Init, Scop!Init, status, did, Scop!NoCall, Scop!None, NoCall, None
<1>2. TypeOK /\ Shape /\ CallSound /\ TypeOK' /\ CallSound' /\ [Next]_vars
        => [Scop!Next]_(Scop!vars)
  BY RefinementStep, Distinct
<1>3. QED
  BY <1>1, <1>2, CallsAreSound, PTL DEF Spec, ImplementsScopCall, Scop!Spec


-----------------------------------------------------------------------------
(* No call waits in blocking_at for what the generator has passed by.      *)

(* Past Link on IRFunctionCache the prototype is there, and past Link on   *)
(* CompileCache, or when there was code already, the code is there.        *)
Linked == Processing /\ ~(gmap = "ir" /\ gpc \in {"lock", "rehash", "link"})
HasCode == gpc = "pop" \/ (gmap = "code" /\ gpc \in {"unlock", "signal"})
HasRead == gpc \in {"compile", "pop"} \/ gmap = "code"

Progress ==
  /\ Linked => Request.proto \in ir
  /\ HasCode => code[GenKey] # NoCode
  /\ HasRead /\ Request.owner # None => gvals = Request.vals

(* A request with an owner is a request of its owner's present call.       *)
Owned(r, where, what) ==
  r.owner # None => /\ where[r.owner] \notin {"idle", "request"}
                    /\ r.proto = what[r.owner].proto
                    /\ r.vals = what[r.owner].vals

InQueue(c) == \E i \in 1..Len(work) : work[i].owner = c
Delivered(c) == call[c].proto \in ir /\ code[KeyOf(c)] # NoCode
Waiting(c) == pc[c] \notin {"idle", "request", "return"}
Served ==
  /\ \A i \in 1..Len(work) : Owned(work[i], pc, call)
  /\ \A c \in Callers : Waiting(c) => shuttingDown \/ InQueue(c) \/ Delivered(c)

(* Every step keeps the invariant of progress.                             *)
LEMMA ProgressStep ==
  ASSUME TypeOK, Shape, Sound, Progress, [Next]_vars
  PROVE  Progress'
<1>1. ASSUME HasRead' PROVE Processing /\ ~PopRequest
  BY <1>1, GeneratorFrame DEF HasRead, Shape, Processing, PopRequest, GeneratorStep,
     GenStart, GenRelock, TakeRequest, EndBatch, LockMap, Rehash, Link, UnlockMap, Signal,
     ReadValues, DanglingFault, Compile, GenAt, AfterBatch, genVars
<1>2. ASSUME Processing, ~PopRequest
      PROVE  /\ Request'.proto = Request.proto
             /\ Request'.owner # None => Request' = Request
  BY <1>2, RequestStep DEF Dangling
<1>3. ASSUME Linked' PROVE Request'.proto \in ir'
  <2>1. Processing /\ ~PopRequest /\ (Linked \/ (Link /\ gmap = "ir"))
    BY <1>3, GeneratorFrame DEF Linked, Processing, TypeOK, Maps, GeneratorStep, GenStart,
       GenRelock, TakeRequest, EndBatch, LockMap, Rehash, Link, UnlockMap, Signal,
       ReadValues, DanglingFault, Compile, PopRequest, GenAt, AfterBatch, genVars, Shape
  <2>2. CASE Linked
    BY <1>2, <2>1, <2>2, CodeStep DEF Progress
  <2>3. CASE Link /\ gmap = "ir"
    BY <1>2, <2>1, <2>3 DEF Link
  <2>4. QED
    BY <2>1, <2>2, <2>3
<1>4. ASSUME HasRead', Request'.owner # None PROVE gvals' = Request'.vals
  <2>1. Request' = Request /\ Processing /\ ~PopRequest
    BY <1>1, <1>2, <1>4
  <2>2. CASE ReadValues
    BY <1>4, <2>1, <2>2 DEF ReadValues, ReadThrough
  <2>3. CASE ~ReadValues
    <3>1. HasRead /\ gvals' = gvals
      BY <1>4, <2>1, <2>3, GeneratorFrame DEF HasRead, Processing, TypeOK, Maps,
         GeneratorStep, GenStart, GenRelock, TakeRequest, EndBatch, LockMap, Rehash, Link,
         UnlockMap, Signal, DanglingFault, Compile, GenAt, AfterBatch, genVars
    <3>2. QED
      BY <1>4, <2>1, <3>1 DEF Progress
  <2>4. QED
    BY <2>2, <2>3
<1>5. ASSUME HasCode' PROVE code'[GenKey'] # NoCode
  <2>1. Processing /\ ~PopRequest
    BY <1>1, <1>5 DEF HasCode, HasRead
  <2>2. Request \in RequestType
    BY <2>1, TailQueue DEF Request, Shape, TypeOK
  <2>3. CASE ReadValues
    <3>1. ReadThrough(Request) \subseteq Vals /\ Request.proto \in Protos
      BY <2>2 DEF ReadThrough, RequestType
    <3>2. PICK v \in ReadThrough(Request) : gvals' = v /\ gpc' = IF Compiled(v) THEN "pop" ELSE "compile"
      BY <2>3 DEF ReadValues
    <3>3. gmap' = gmap /\ gmap = "ir" /\ code' = code
      BY <2>3 DEF ReadValues, Shape, GenAt, TypeOK, Maps, mapVars
    <3>4. Compiled(v)
      BY <1>5, <3>2, <3>3 DEF HasCode
    <3>5. GenKey' = <<Request.proto, Hash[v]>>
      BY <1>2, <2>1, <3>2 DEF GenKey
    <3>6. QED
      BY <3>3, <3>4, <3>5 DEF Compiled
  <2>4. CASE ~ReadValues
    <3>1. gvals' = gvals /\ (HasCode \/ (Link /\ gmap = "code"))
      BY <1>5, <2>1, <2>4, GeneratorFrame DEF HasCode, Processing, TypeOK, Maps,
         GeneratorStep, GenStart, GenRelock, TakeRequest, EndBatch, LockMap, Rehash, Link,
         UnlockMap, Signal, DanglingFault, Compile, GenAt, AfterBatch, genVars, Shape
    <3>2. GenKey' = GenKey
      BY <1>2, <2>1, <3>1 DEF GenKey
    <3>3. gvals \in Vals
      BY <3>1 DEF HasCode, Shape
    <3>4. GenKey \in Keys
      BY <2>2, <3>3, Assumptions DEF GenKey, Keys, RequestType
    <3>5. CASE HasCode
      BY <3>2, <3>4, <3>5, CodeStep DEF Progress
    <3>6. CASE Link /\ gmap = "code"
      <4>1. code' = Put(GenKey, variants[GenKey]) /\ variants[GenKey] # NoCode
        BY <3>6 DEF Link, Sound
      <4>2. QED
        BY <3>2, <3>4, <4>1 DEF Put, TypeOK
    <3>7. QED
      BY <3>1, <3>5, <3>6
  <2>5. QED
    BY <2>3, <2>4
<1>6. QED
  BY <1>3, <1>4, <1>5 DEF Progress

(* A call goes on as the same one until it returns.                        *)
LEMMA InCallStep ==
  ASSUME TypeOK, [Next]_vars, NEW c \in Callers, pc[c] \notin {"idle", "request"}, ~Return(c)
  PROVE  pc'[c] \notin {"idle", "request"} /\ call'[c] = call[c]
  BY CallerFrame DEF CallerStep, Woken, Same, Call, AddRequest, NotifyGenerator, Count,
     Find, Sleep, Relock, TakeFunction, TakeCode, NullLookup, Execute, SpuriousWakeup,
     Goto, At, TypeOK, callVars

(* The request at the front has what its caller waits for when it is popped.*)
LEMMA PopDelivers ==
  ASSUME TypeOK, Shape, Progress, PopRequest, NEW c \in Callers,
         Owned(Request, pc, call), Request.owner = c
  PROVE  Delivered(c)
<1>1. Request.proto = call[c].proto /\ Request.vals = call[c].vals
  BY Assumptions DEF Owned
<1>2. gvals = Request.vals /\ Request.proto \in ir /\ code[GenKey] # NoCode
  BY Assumptions DEF Progress, PopRequest, GenAt, Linked, HasCode, HasRead, Processing
<1>3. GenKey = KeyOf(c)
  BY <1>1, <1>2 DEF GenKey, KeyOf
<1>4. QED
  BY <1>1, <1>2, <1>3 DEF Delivered

(* Every step keeps requests served.                                       *)
LEMMA ServedStep ==
  ASSUME TypeOK, Shape, Progress, Served, [Next]_vars
  PROVE  Served'
<1>1. work \in Seq(RequestType) /\ Len(work) \in Nat
  BY DEF TypeOK
<1>2. \A i \in 1..Len(work) : work[i] \in RequestType /\ Owned(work[i], pc, call)
  BY <1>1, ElementOfSeq DEF Served
<1>3. ASSUME NEW r \in RequestType, Owned(r, pc, call), \A c \in Callers : Return(c) => r.owner # c
      PROVE  Owned(r, pc', call')
  BY <1>3, InCallStep DEF Owned, RequestType
<1>4. ASSUME NEW c \in Callers, Waiting(c), Waiting(c)', ~Return(c),
             shuttingDown \/ Delivered(c)
      PROVE  shuttingDown' \/ Delivered(c)'
  <2>1. call'[c] = call[c] /\ call[c] # NoCall
    BY <1>4, InCallStep DEF Waiting, Shape
  <2>2. shuttingDown => shuttingDown'
    BY DEF Next, Step, Spurious, CallerStep, GeneratorStep, DestructorStep, vars, queueVars,
       Call, AddRequest, NotifyGenerator, Count, Find, Sleep, Relock, TakeFunction,
       TakeCode, NullLookup, Return, SpuriousWakeup, GenStart, GenRelock,
       GenSpuriousWakeup, TakeRequest, EndBatch, LockMap, Rehash, Link, UnlockMap, Signal,
       ReadValues, DanglingFault, Compile, PopRequest, BeginShutdown, Shutdown,
       NotifyShutdown, Join
  <2>3. KeyOf(c) \in Keys /\ KeyOf(c)' = KeyOf(c)
    BY <2>1, CallKey DEF KeyOf
  <2>4. QED
    BY <1>4, <2>1, <2>2, <2>3, CodeStep DEF Delivered
<1>5. ASSUME NEW c \in Callers, Waiting(c)', ~AddRequest(c) PROVE Waiting(c) /\ ~Return(c)
  BY <1>5, CallerFrame DEF Waiting, CallerStep, Woken, Same, Call, AddRequest,
     NotifyGenerator, Count, Find, Sleep, Relock, TakeFunction, TakeCode, NullLookup,
     Return, Execute, SpuriousWakeup, Goto, At, TypeOK, callVars
<1>6. ASSUME NEW c \in Callers, AddRequest(c) PROVE Served'
  <2> DEFINE r == [proto |-> call[c].proto, vals |-> call[c].vals, owner |-> c]
  <2>1. call[c] \in [proto : Protos, vals : Vals] /\ r \in RequestType /\ work' = Append(work, r)
    BY <1>6 DEF AddRequest, At, Shape, TypeOK, RequestType
  <2>2. /\ Len(work') = Len(work) + 1 /\ work'[Len(work) + 1] = r
        /\ \A i \in 1..Len(work) : work'[i] = work[i]
    BY <1>1, <2>1, AppendQueue
  <2>3. pc' = [pc EXCEPT ![c] = "notify"] /\ call' = call
    BY <1>6 DEF AddRequest, Goto, callVars
  <2>4. Owned(r, pc', call')
    BY <2>3 DEF Owned, TypeOK
  <2>5. \A d \in Callers : ~Return(d)
    BY <2>3 DEF Return, At, Goto, TypeOK
  <2>6. \A i \in 1..Len(work') : Owned(work'[i], pc', call')
    <3>1. ASSUME NEW i \in 1..Len(work') PROVE Owned(work'[i], pc', call')
      <4>1. CASE i = Len(work) + 1
        BY <2>2, <2>4, <4>1 DEF Owned
      <4>2. CASE i \in 1..Len(work)
        BY <1>2, <1>3, <2>2, <2>5, <4>2 DEF Owned
      <4>3. QED
        BY <1>1, <2>2, <4>1, <4>2
    <3>2. QED
      BY <3>1
  <2>7. ASSUME NEW d \in Callers, Waiting(d)'
        PROVE  shuttingDown' \/ InQueue(d)' \/ Delivered(d)'
    <3>1. CASE d = c
      BY <1>1, <2>2, <3>1 DEF InQueue
    <3>2. CASE d # c
      <4>1. Waiting(d) /\ ~AddRequest(d)
        BY <2>3, <2>7, <3>2 DEF Waiting, AddRequest, Goto, At, TypeOK
      <4>2. CASE InQueue(d)
        BY <1>1, <2>2, <4>2 DEF InQueue
      <4>3. CASE shuttingDown \/ Delivered(d)
        BY <1>4, <2>5, <2>7, <4>1, <4>3
      <4>4. QED
        BY <4>1, <4>2, <4>3 DEF Served
    <3>3. QED
      BY <3>1, <3>2
  <2>8. QED
    BY <2>6, <2>7 DEF Served
<1>7. ASSUME NEW c \in Callers, Return(c) PROVE Served'
  <2>1. /\ Len(work') = Len(work)
        /\ \A i \in 1..Len(work) :
             work'[i] = IF work[i].owner = c THEN Dangling(work[i]) ELSE work[i]
    BY <1>1, <1>7, ForgetQueue DEF Return
  <2>2. pc' = [pc EXCEPT ![c] = "idle"] /\ pc[c] = "return"
    BY <1>7 DEF Return, Goto, At
  <2>3. \A d \in Callers : Return(d) => d = c
    BY <2>2 DEF Return, Goto, At, TypeOK
  <2>4. ASSUME NEW i \in 1..Len(work') PROVE Owned(work'[i], pc', call')
    <3>1. CASE work[i].owner = c
      <4>1. work'[i] = Dangling(work[i])
        BY <2>1, <3>1
      <4>2. work'[i].owner = None
        BY <4>1 DEF Dangling
      <4>3. QED
        BY <4>2 DEF Owned
    <3>2. CASE work[i].owner # c
      BY <1>2, <1>3, <2>1, <2>3, <3>2 DEF Owned
    <3>3. QED
      BY <3>1, <3>2
  <2>5. ASSUME NEW d \in Callers, Waiting(d)'
        PROVE  shuttingDown' \/ InQueue(d)' \/ Delivered(d)'
    <3>1. d # c /\ Waiting(d) /\ ~Return(d)
      BY <2>2, <2>3, <2>5 DEF Waiting, TypeOK
    <3>2. CASE InQueue(d)
      BY <2>1, <3>1, <3>2 DEF InQueue
    <3>3. CASE shuttingDown \/ Delivered(d)
      BY <1>4, <2>5, <3>1, <3>3
    <3>4. QED
      BY <3>1, <3>2, <3>3 DEF Served
  <2>6. QED
    BY <2>4, <2>5 DEF Served
<1>8. CASE PopRequest
  <2>1. work # <<>> /\ work' = Tail(work)
    BY <1>8 DEF PopRequest, GenAt, Shape, Processing
  <2>2. /\ Request = work[1] /\ Len(work) >= 1 /\ Len(work') = Len(work) - 1
        /\ \A i \in 1..Len(work) - 1 : work'[i] = work[i + 1]
    BY <1>1, <2>1, TailQueue, EmptySeq DEF Request
  <2>3. \A c \in Callers : ~Return(c) /\ ~AddRequest(c)
    BY <1>8 DEF Return, AddRequest, PopRequest, Goto, At, TypeOK
  <2>4. ASSUME NEW i \in 1..Len(work') PROVE Owned(work'[i], pc', call')
    <3>1. i \in 1..Len(work) - 1 /\ i + 1 \in 1..Len(work)
      BY <1>1, <2>2
    <3>2. QED
      BY <1>2, <1>3, <2>2, <2>3, <3>1 DEF Owned
  <2>5. ASSUME NEW c \in Callers, Waiting(c)'
        PROVE  shuttingDown' \/ InQueue(c)' \/ Delivered(c)'
    <3>1. Waiting(c) /\ ~Return(c)
      BY <1>5, <2>3, <2>5
    <3>2. CASE shuttingDown \/ Delivered(c)
      BY <1>4, <2>5, <3>1, <3>2
    <3>3. ASSUME NEW i \in 1..Len(work), work[i].owner = c
          PROVE  shuttingDown' \/ InQueue(c)' \/ Delivered(c)'
      <4>1. CASE i = 1
        BY <1>2, <1>4, <1>8, <2>2, <2>5, <3>1, <3>3, <4>1, PopDelivers
      <4>2. CASE i # 1
        <5>1. i - 1 \in 1..Len(work') /\ work'[i - 1] = work[i]
          BY <1>1, <2>2, <4>2
        <5>2. QED
          BY <3>3, <5>1 DEF InQueue
      <4>3. QED
        BY <4>1, <4>2
    <3>4. QED
      BY <3>1, <3>2, <3>3 DEF Served, InQueue
  <2>6. QED
    BY <2>4, <2>5 DEF Served
<1>9. CASE Shutdown
  BY <1>9, EmptySeq DEF Shutdown, Served
<1>10. CASE UNCHANGED work /\ \A c \in Callers : ~AddRequest(c) /\ ~Return(c)
  <2>1. \A i \in 1..Len(work') : Owned(work'[i], pc', call')
    BY <1>2, <1>3, <1>10 DEF Owned
  <2>2. ASSUME NEW c \in Callers, Waiting(c)'
        PROVE  shuttingDown' \/ InQueue(c)' \/ Delivered(c)'
    BY <1>4, <1>5, <1>10, <2>2 DEF Served, InQueue
  <2>3. QED
    BY <2>1, <2>2 DEF Served
<1>11. QED
  BY <1>6, <1>7, <1>8, <1>9, <1>10, Frames

(* A thread in blocking_at whose key is missing has its request queued.    *)
THEOREM BlockedIsServedAlways == Spec => []BlockedIsServed
<1>1. Init => Progress /\ Served
  BY EmptySeq DEF Init, Progress, Linked, HasCode, HasRead, Processing, Served, Waiting
<1>2. TypeOK /\ Shape /\ Sound /\ CallSound /\ Progress /\ Served /\ [Next]_vars
        => Progress' /\ Served'
  BY ProgressStep, ServedStep
<1>3. TypeOK /\ Served => BlockedIsServed
  <2>1. ASSUME TypeOK, Served, NEW c \in Callers, Blocked(c), ~Present(c)
        PROVE  shuttingDown \/ \E i \in DOMAIN work : work[i].owner = c
    <3>1. shuttingDown \/ InQueue(c) \/ Delivered(c)
      BY <2>1 DEF Blocked, Waiting, Served
    <3>2. ~Delivered(c)
      BY <2>1 DEF Delivered, Present
    <3>3. DOMAIN work = 1..Len(work)
      BY <2>1, LenProperties DEF TypeOK
    <3>4. QED
      BY <3>1, <3>2, <3>3 DEF InQueue
  <2>2. QED
    BY <2>1 DEF BlockedIsServed
<1>4. QED
  BY <1>1, <1>2, <1>3, CallsAreSound, PTL DEF Spec

=============================================================================
