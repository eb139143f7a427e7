------------------------------ MODULE PolyJIT ------------------------------
(***************************************************************************)
(* The PolyJIT runtime, lib/pjit/libpjit.cpp: application threads call     *)
(* instrumented functions, each call enters pjit_main, queues a            *)
(* specialization request and looks for compiled code in two BlockingMaps  *)
(* (IRFunctionCache and CompileCache); one generator thread drains the     *)
(* queue; the destructor of the static JIT object stops the generator.     *)
(*                                                                         *)
(* One action is one access to state that another thread can observe.     *)
(* GeneratorRequestMutex is used correctly, so what a thread does while it *)
(* owns it, with no other shared access in between, is one action.         *)
(* WriteMutex of a BlockingMap is not: blocking_at waits on a mutex it     *)
(* never locked. The model takes what libstdc++ and glibc make of that:    *)
(* condition_variable::wait unlocks the mutex whoever owns it, locks it    *)
(* again on wake-up, and nobody unlocks it afterwards.                     *)
(***************************************************************************)
EXTENDS Naturals, Sequences, FiniteSets

CONSTANTS
  Callers,      \* application threads that run instrumented functions
  Protos,       \* prototype strings, compared by address
  Vals,         \* what runValues can read through a params array
  Workload,     \* the calls, as <<prototype, values>>, the program makes
  Hashes, Hash, \* RunValueList::hash, any function of the values
  Names, NameOf,\* the name of a prototype's function
  Recompile,    \* FALSE for -polli-disable-recompile
  RehashSizes,  \* table sizes at which the next insertion rehashes
  MaxCalls      \* bound: calls made by all threads together

None      == "none"
Generic   == "generic"      \* code that still reads its arguments
Generator == "generator"

ASSUME Assumptions ==
  /\ Workload \subseteq Protos \X Vals
  /\ Hash \in [Vals -> Hashes]
  /\ NameOf \in [Protos -> Names]
  /\ Recompile \in BOOLEAN
  /\ RehashSizes \subseteq Nat
  /\ MaxCalls \in Nat
  /\ None \notin Callers \cup Protos \cup Vals
  /\ Generic \notin Vals
  /\ Generator \notin Callers

Maps == {"ir", "code"}      \* IRFunctionCache, CompileCache
Keys == Protos \X Hashes    \* CacheKey
Code == [src : Protos, vals : Vals \cup {Generic}]

NoCode == [src |-> None, vals |-> None]
NoCall == [proto |-> None, vals |-> None]

VARIABLES
  pc,           \* where each application thread is
  on,           \* the BlockingMap it is using
  call,         \* prototype and values of its call
  calls,        \* calls made so far
  newF,         \* the code its call has run: NewF, or the fallback
  work,         \* the CodeGenQueue
  shouldStart, shuttingDown,
  gpc,          \* where the generator is
  gmap,         \* the BlockingMap it is inserting into
  gvals,        \* the RunValueList it has read
  ir,           \* the keys of IRFunctionCache
  code,         \* CompileCache
  mutex,        \* the owner of each map's WriteMutex
  fmap,         \* FunctionDispatcher::FMap, by function name
  variants,     \* VariantFunction::Variants of every prototype
  engines,      \* execution engines made for each variant's module
  mpc,          \* where the thread that runs the destructor is
  fault         \* what ended the process, if it did not exit: a null pointer
                \* out of a map, or a read through dangling addresses

callVars == <<call, calls, newF>>
queueVars == <<work, shouldStart, shuttingDown>>
genVars == <<gpc, gmap, gvals>>
mapVars == <<ir, code, mutex>>
dispVars == <<fmap, variants, engines>>
procVars == <<mpc, fault>>
vars == <<pc, on, callVars, queueVars, genVars, mapVars, dispVars, procVars>>

CallerSteps == {"idle", "request", "notify", "count", "index", "find", "sleep",
                "asleep", "woken", "at", "return"}
GenSteps == {"start", "asleep", "awake", "batch", "lock", "rehash", "link",
             "unlock", "signal", "read", "compile", "pop", "exited"}

Init ==
  /\ pc = [c \in Callers |-> "idle"]
  /\ on = [c \in Callers |-> "ir"]
  /\ call = [c \in Callers |-> NoCall]
  /\ calls = 0
  /\ newF = [c \in Callers |-> NoCode]
  /\ work = <<>>
  /\ shouldStart = FALSE
  /\ shuttingDown = FALSE
  /\ gpc = "start"
  /\ gmap = "ir"
  /\ gvals = None
  /\ ir = {}
  /\ code = [k \in Keys |-> NoCode]
  /\ mutex = [m \in Maps |-> None]
  /\ fmap = [n \in Names |-> None]
  /\ variants = [k \in Keys |-> NoCode]
  /\ engines = [k \in Keys |-> 0]
  /\ mpc = "running"
  /\ fault = None

Up == fault = None /\ mpc # "exited"
At(c, step) == Up /\ pc[c] = step
GenAt(step) == Up /\ gpc = step
Goto(c, step) == pc' = [pc EXCEPT ![c] = step]
Crash(why) == fault' = why /\ UNCHANGED mpc

(* GeneratorRequestMutex: the generator gives it up only in wait.          *)
\* mutant: requests are not guarded
NoRequestMutex == TRUE
RequestMutexFree == gpc \in {"start", "asleep", "awake", "exited"}

StartUnchanged == UNCHANGED shouldStart      \* mutant: ShouldStart is not set
RaiseStart == shouldStart' = TRUE

NoWakeup == UNCHANGED gpc                    \* mutant: notify_all is left out
WakeGenerator == gpc' = IF gpc = "asleep" THEN "awake" ELSE gpc

(* The generator's loop is over when it has gone through a batch.          *)
SleepAgain == "asleep"                       \* mutant: ShuttingDown is not read
AfterBatch == IF shuttingDown THEN "exited" ELSE "asleep"

Request == Head(work)
\* mutant: values do not count
AnyHash(c) == <<call[c].proto, Hash[CHOOSE v \in Vals : TRUE]>>
KeyOf(c) == <<call[c].proto, Hash[call[c].vals]>>
GenKey == <<Request.proto, Hash[gvals]>>

(* A lookup takes no lock. While the generator rehashes the table, it may  *)
(* miss a key that is there.                                               *)
Present(c) == IF on[c] = "ir" THEN call[c].proto \in ir
                              ELSE code[KeyOf(c)] # NoCode
Rehashing(m) == gpc = "rehash" /\ gmap = m
\* mutant: wait without predicate
WokenIsHit(c) == Present(c) \/ (pc[c] = "find" /\ mutex[on[c]] = c)
Hit(c)  == Present(c)
Miss(c) == ~Present(c) \/ Rehashing(on[c])

-----------------------------------------------------------------------------
(* An application thread.                                                  *)

(* The instrumented function fills its params array with the addresses of  *)
(* its own stack slots and calls pjit_main. A thread may do so while       *)
(* another one is in the destructor.                                       *)
Call(c) ==
  /\ At(c, "idle")
  /\ calls < MaxCalls
  /\ \E w \in Workload :
       call' = [call EXCEPT ![c] = [proto |-> w[1], vals |-> w[2]]]
  /\ calls' = calls + 1
  /\ Goto(c, "request")
  /\ UNCHANGED <<on, newF, queueVars, genVars, mapVars, dispVars, procVars>>

(* addRequest. The request holds a copy of the params array: the addresses,*)
(* not the values behind them.                                             *)
AddRequest(c) ==
  /\ At(c, "request")
  /\ RequestMutexFree
  /\ work' = Append(work, [proto |-> call[c].proto, vals |-> call[c].vals,
                           owner |-> c])
  /\ RaiseStart
  /\ Goto(c, "notify")
  /\ UNCHANGED <<on, shuttingDown, callVars, genVars, mapVars, dispVars, procVars>>

NotifyGenerator(c) ==
  /\ At(c, "notify")
  /\ WakeGenerator
  /\ Goto(c, "count")
  /\ UNCHANGED <<on, gmap, gvals, callVars, queueVars, mapVars, dispVars, procVars>>

(* The call runs some code: what pjit_main found, or the fallback.         *)
Execute(c, f) == newF' = [newF EXCEPT ![c] = f] /\ Goto(c, "return")

(* pjit_main asks IRFunctionCache.count whether to block, and on the       *)
(* asynchronous path CompileCache.count whether to run the fallback.       *)
Count(c) ==
  /\ At(c, "count")
  /\ \/ Hit(c) /\ Goto(c, "index") /\ UNCHANGED newF
     \/ Miss(c) /\ on[c] = "ir" /\ Goto(c, "find") /\ UNCHANGED newF
     \/ /\ Miss(c) /\ on[c] = "code"
        /\ Execute(c, [src |-> call[c].proto, vals |-> Generic])
  /\ UNCHANGED <<on, call, calls, queueVars, genVars, mapVars, dispVars, procVars>>

(* blocking_at: the predicate of the wait ...                              *)
Find(c) ==
  /\ At(c, "find")
  /\ \/ Hit(c) /\ Goto(c, "at")
     \/ Miss(c) /\ Goto(c, "sleep")
  /\ UNCHANGED <<on, callVars, queueVars, genVars, mapVars, dispVars, procVars>>

(* ... the wait itself, which unlocks a mutex the caller does not own ...  *)
Sleep(c) ==
  /\ At(c, "sleep")
  /\ mutex' = [mutex EXCEPT ![on[c]] = None]
  /\ Goto(c, "asleep")
  /\ UNCHANGED <<on, ir, code, callVars, queueVars, genVars, dispVars, procVars>>

SpuriousWakeup(c) ==
  /\ At(c, "asleep")
  /\ Goto(c, "woken")
  /\ UNCHANGED <<on, callVars, queueVars, genVars, mapVars, dispVars, procVars>>

(* ... and locks it on the way out. The unique_lock was told to defer, so  *)
(* its destructor does not unlock.                                         *)
Relock(c) ==
  /\ At(c, "woken")
  /\ mutex[on[c]] = None
  /\ mutex' = [mutex EXCEPT ![on[c]] = c]
  /\ Goto(c, "find")
  /\ UNCHANGED <<on, ir, code, callVars, queueVars, genVars, dispVars, procVars>>

(* operator[] on IRFunctionCache, then runValues on the own arguments.     *)
TakeFunction(c) ==
  /\ Up /\ pc[c] \in {"at", "index"} /\ on[c] = "ir"
  /\ on' = [on EXCEPT ![c] = "code"]
  /\ Goto(c, IF pc[c] = "at" THEN "find" ELSE "count")
  /\ UNCHANGED <<callVars, queueVars, genVars, mapVars, dispVars, procVars>>

(* operator[] on CompileCache, and the call through NewF.                  *)
TakeCode(c) ==
  /\ Up /\ pc[c] \in {"at", "index"} /\ on[c] = "code"
  /\ Execute(c, code[KeyOf(c)])
  /\ UNCHANGED <<on, call, calls, queueVars, genVars, mapVars, dispVars, procVars>>

(* operator[] misses the key in a table that is being rehashed and yields  *)
(* a null pointer, which runValues or the assertion on NewF trips over.    *)
NullLookup(c) ==
  /\ Up /\ pc[c] \in {"at", "index"} /\ Rehashing(on[c])
  /\ Crash(on[c])
  /\ UNCHANGED <<pc, on, callVars, queueVars, genVars, mapVars, dispVars>>

(* The instrumented function returns: the addresses in its requests that   *)
(* are still queued point into a dead stack frame.                         *)
Dangling(r) == [proto |-> r.proto, vals |-> None, owner |-> None]
Forget(q, c) == [i \in DOMAIN q |-> IF q[i].owner = c THEN Dangling(q[i]) ELSE q[i]]
Return(c) ==
  /\ At(c, "return")
  /\ work' = Forget(work, c)
  /\ call' = [call EXCEPT ![c] = NoCall]
  /\ newF' = [newF EXCEPT ![c] = NoCode]
  /\ on' = [on EXCEPT ![c] = "ir"]
  /\ Goto(c, "idle")
  /\ UNCHANGED <<calls, shouldStart, shuttingDown, genVars, mapVars, dispVars,
                 procVars>>

-----------------------------------------------------------------------------
(* The generator thread.                                                   *)

GenStart ==
  /\ GenAt("start")
  /\ gpc' = IF shuttingDown THEN "exited"
            ELSE IF shouldStart THEN "batch" ELSE "asleep"
  /\ UNCHANGED <<pc, on, gmap, gvals, callVars, queueVars, mapVars, dispVars, procVars>>

GenSpuriousWakeup ==
  /\ GenAt("asleep")
  /\ WakeGenerator
  /\ UNCHANGED <<pc, on, gmap, gvals, callVars, queueVars, mapVars, dispVars, procVars>>

GenRelock ==
  /\ GenAt("awake")
  /\ gpc' = IF shouldStart THEN "batch" ELSE "asleep"
  /\ UNCHANGED <<pc, on, gmap, gvals, callVars, queueVars, mapVars, dispVars, procVars>>

(* setPrototypeMapping: the first prototype of a name stays mapped.        *)
NoMapping(p) == UNCHANGED fmap               \* mutant: the mapping is left out
MapPrototype(p) == fmap' = [fmap EXCEPT ![NameOf[p]] = IF @ = None THEN p ELSE @]

(* front and getPrototype.                                                 *)
TakeRequest ==
  /\ GenAt("batch")
  /\ work # <<>>
  /\ MapPrototype(Request.proto)
  /\ gpc' = "lock"
  /\ UNCHANGED <<pc, on, gmap, gvals, variants, engines, callVars, queueVars, mapVars,
                 procVars>>

EndBatch ==
  /\ GenAt("batch")
  /\ work = <<>>
  /\ shouldStart' = FALSE
  /\ gpc' = AfterBatch
  /\ UNCHANGED <<pc, on, work, shuttingDown, gmap, gvals, callVars, mapVars, dispVars,
                 procVars>>

(* BlockingMap::insert, in five steps.                                     *)
Grows == IF gmap = "ir"
         THEN Request.proto \notin ir /\ Cardinality(ir) \in RehashSizes
         ELSE /\ code[GenKey] = NoCode
              /\ Cardinality({k \in Keys : code[k] # NoCode}) \in RehashSizes
LockMap ==
  /\ GenAt("lock")
  /\ mutex[gmap] = None
  /\ mutex' = [mutex EXCEPT ![gmap] = Generator]
  /\ gpc' = IF Grows THEN "rehash" ELSE "link"
  /\ UNCHANGED <<pc, on, gmap, gvals, ir, code, callVars, queueVars, dispVars, procVars>>

Rehash ==
  /\ GenAt("rehash")
  /\ gpc' = "link"
  /\ UNCHANGED <<pc, on, gmap, gvals, callVars, queueVars, mapVars, dispVars, procVars>>

\* mutant: evicts the other keys
PutAlone(k, f) == [x \in Keys |-> IF x = k THEN f ELSE NoCode]
Put(k, f) == [code EXCEPT ![k] = IF @ = NoCode THEN f ELSE @]
Link ==
  /\ GenAt("link")
  /\ \/ gmap = "ir" /\ ir' = ir \cup {Request.proto} /\ UNCHANGED code
     \/ gmap = "code" /\ code' = Put(GenKey, variants[GenKey]) /\ UNCHANGED ir
  /\ gpc' = "unlock"
  /\ UNCHANGED <<pc, on, gmap, gvals, mutex, callVars, queueVars, dispVars, procVars>>

UnlockMap ==
  /\ GenAt("unlock")
  /\ mutex' = [mutex EXCEPT ![gmap] = None]
  /\ gpc' = "signal"
  /\ UNCHANGED <<pc, on, gmap, gvals, ir, code, callVars, queueVars, dispVars, procVars>>

(* notify_one wakes one waiter of the map, whichever key it waits for.     *)
Waiters(m) == {c \in Callers : pc[c] = "asleep" /\ on[c] = m}
Signal ==
  /\ GenAt("signal")
  /\ \/ Waiters(gmap) = {} /\ UNCHANGED pc
     \/ \E c \in Waiters(gmap) : Goto(c, "woken")
  /\ gpc' = IF gmap = "ir" THEN "read" ELSE "pop"
  /\ UNCHANGED <<on, gmap, gvals, callVars, queueVars, mapVars, dispVars, procVars>>

(* runValues on the request, and CompileCache.count. Through dangling      *)
(* addresses the generator reads whatever the stack holds by now ...       *)
ReadAnything(r) == Vals                      \* mutant: the addresses are never valid
ReadThrough(r) == IF r.owner = None THEN Vals ELSE {r.vals}
NeverCompiled(v) == FALSE                    \* mutant: CompileCache is not asked
Compiled(v) == code[<<Request.proto, Hash[v]>>] # NoCode
ReadValues ==
  /\ GenAt("read")
  /\ \E v \in ReadThrough(Request) :
       /\ gvals' = v
       /\ gpc' = IF Compiled(v) THEN "pop" ELSE "compile"
  /\ UNCHANGED <<pc, on, gmap, callVars, queueVars, mapVars, dispVars, procVars>>

(* ... or faults, where the stack of a finished thread is unmapped.        *)
DanglingFault ==
  /\ GenAt("read")
  /\ Request.owner = None
  /\ Crash("dangling")
  /\ UNCHANGED <<pc, on, callVars, queueVars, genVars, mapVars, dispVars>>

(* getOrCreateVariantFunction looks up what is mapped under the            *)
(* prototype's name; createVariant clones it and, unless recompilation is  *)
(* disabled, replaces its integer arguments by the values read.            *)
SourceF == fmap[NameOf[Request.proto]]
\* mutant: the values are read again
ReadTwice == [src  |-> SourceF, vals |-> CHOOSE v \in ReadThrough(Request) : TRUE]
NewVariant == [src |-> SourceF,
               vals |-> IF Recompile THEN gvals ELSE Generic]
GetOrCreateVariant(k) ==
  variants' = [variants EXCEPT ![k] = IF @ = NoCode THEN NewVariant ELSE @]

(* getEngine takes over the module of the variant, cached or not.          *)
GetEngine(k) == engines' = [engines EXCEPT ![k] = @ + 1]

Compile ==
  /\ GenAt("compile")
  /\ GetOrCreateVariant(GenKey)
  /\ GetEngine(GenKey)
  /\ gmap' = "code"
  /\ gpc' = "lock"
  /\ UNCHANGED <<pc, on, gvals, fmap, callVars, queueVars, mapVars, procVars>>

PopRequest ==
  /\ GenAt("pop")
  /\ work' = Tail(work)
  /\ gvals' = None
  /\ gmap' = "ir"
  /\ gpc' = "batch"
  /\ UNCHANGED <<pc, on, shouldStart, shuttingDown, callVars, mapVars, dispVars,
                 procVars>>

-----------------------------------------------------------------------------
(* ~PolyJIT, when the process exits: it waits for GeneratorRequestMutex.   *)

BeginShutdown ==
  /\ Up
  /\ mpc = "running"
  /\ mpc' = "lock"
  /\ UNCHANGED <<pc, on, fault, callVars, queueVars, genVars, mapVars, dispVars>>

Shutdown ==
  /\ Up
  /\ mpc = "lock"
  /\ RequestMutexFree
  /\ shuttingDown' = TRUE
  /\ RaiseStart
  /\ work' = <<>>
  /\ mpc' = "notify"
  /\ UNCHANGED <<pc, on, fault, callVars, genVars, mapVars, dispVars>>

NotifyShutdown ==
  /\ Up
  /\ mpc = "notify"
  /\ WakeGenerator
  /\ mpc' = "join"
  /\ UNCHANGED <<pc, on, gmap, gvals, fault, callVars, queueVars, mapVars, dispVars>>

(* The destruction of the members, which follows, is not modelled: threads *)
(* that still use them have undefined behaviour.                           *)
Join ==
  /\ Up
  /\ mpc = "join"
  /\ gpc = "exited"
  /\ mpc' = "exited"
  /\ UNCHANGED <<pc, on, fault, callVars, queueVars, genVars, mapVars, dispVars>>

-----------------------------------------------------------------------------
CallerStep(c) ==
  \/ AddRequest(c) \/ NotifyGenerator(c)
  \/ Count(c) \/ Find(c) \/ Sleep(c) \/ Relock(c)
  \/ TakeFunction(c) \/ TakeCode(c) \/ NullLookup(c) \/ Return(c)

GeneratorStep ==
  \/ GenStart \/ GenRelock \/ TakeRequest \/ EndBatch
  \/ LockMap \/ Rehash \/ Link \/ UnlockMap \/ Signal
  \/ ReadValues \/ DanglingFault \/ Compile \/ PopRequest

DestructorStep == Shutdown \/ NotifyShutdown \/ Join

Step ==
  \/ \E c \in Callers : Call(c) \/ CallerStep(c)
  \/ GeneratorStep
  \/ BeginShutdown \/ DestructorStep

Spurious == GenSpuriousWakeup \/ \E c \in Callers : SpuriousWakeup(c)

Next == Step \/ Spurious

Spec == Init /\ [][Next]_vars

(* Every thread that can take a step is scheduled eventually. Nothing      *)
(* makes the application call again or exit. Waits do not wake up by       *)
(* themselves: that could only save a call that misses its notification.   *)
FairSpec ==
  /\ Init /\ [][Step]_vars
  /\ \A c \in Callers : WF_vars(CallerStep(c))
  /\ WF_vars(GeneratorStep)
  /\ WF_vars(DestructorStep)

-----------------------------------------------------------------------------
RequestType == [proto : Protos, vals : Vals, owner : Callers]
                 \cup [proto : Protos, vals : {None}, owner : {None}]

TypeOK ==
  /\ pc \in [Callers -> CallerSteps]
  /\ on \in [Callers -> Maps]
  /\ call \in [Callers -> [proto : Protos, vals : Vals] \cup {NoCall}]
  /\ calls \in Nat
  /\ newF \in [Callers -> Code \cup {NoCode}]
  /\ work \in Seq(RequestType)
  /\ shouldStart \in BOOLEAN
  /\ shuttingDown \in BOOLEAN
  /\ gpc \in GenSteps
  /\ gmap \in Maps
  /\ gvals \in Vals \cup {None}
  /\ ir \in SUBSET Protos
  /\ code \in [Keys -> Code \cup {NoCode}]
  /\ mutex \in [Maps -> Callers \cup {Generator, None}]
  /\ fmap \in [Names -> Protos \cup {None}]
  /\ variants \in [Keys -> Code \cup {NoCode}]
  /\ engines \in [Keys -> Nat]
  /\ mpc \in {"running", "lock", "notify", "join", "exited"}
  /\ fault \in {None, "dangling"} \cup Maps
=============================================================================
