------------------------------ MODULE Tracing ------------------------------
(***************************************************************************)
(* Tracing of a program that runs with PolyJIT: the passes that put        *)
(* markers into the variants (lib/Runtime/LikwidMarker.cpp, run by the     *)
(* runtime optimizer), the tracer that the markers and the runtime itself  *)
(* call (include/pprof/Tracing.h), and what happens when the process       *)
(* starts and exits.                                                       *)
(***************************************************************************)
EXTENDS PprofAnalysis

CONSTANTS
  Apps, Main,    \* the threads of the program, the one that runs main
  Generator,     \* the thread that generates code
  Workers,       \* the workers that OpenMP keeps for each of Apps
  Modules,       \* the modules of the variants as Polly leaves them
  Address,       \* where LLVM keeps their functions
  LoopVariable,  \* where the trace marker's loop keeps its variable
  IdBits,        \* the width of an event's id
  Program        \* bound: what each thread may call, one call after the other

Teams == UNION {Workers[a] : a \in Apps}
Threads == Apps \cup {Generator} \cup Teams
None == "none"

(* Code. A function is a sequence of blocks, the first one is its entry; a *)
(* block without successors returns.                                       *)
Instr(op, arg, id) == [op |-> op, arg |-> arg, id |-> id]
Plain(op, arg) == Instr(op, arg, 0)
Block(code, next) == [code |-> code, next |-> next]
Returns(block) == block.next = {}

(* A function for a parallel loop asks for the next chunk of iterations.   *)
CallsNext(f) == \E b \in DOMAIN f : \E i \in DOMAIN f[b].code : f[b].code[i].op = "next"
SubFunctions(M) == {f \in DOMAIN M : CallsNext(M[f])}

(* Polly leaves "F", and a function for every parallel loop of it. Where a *)
(* loop is, the workers are given its function, the thread calls it, too,  *)
(* and waits for them. There are no parallel loops within parallel loops,  *)
(* and nothing branches to an entry.                                       *)
IsParallelLoop(M, code, i) ==
  /\ i > 0 /\ i + 2 <= Len(code)
  /\ code[i].op = "fork" /\ code[i].arg \in SubFunctions(M)
  /\ code[i + 1] = Plain("call", code[i].arg) /\ code[i + 2] = Plain("join", "workers")
IsFunction(M, f) ==
  /\ M[f] \in Seq([code : Seq([op : {"work", "next", "fork", "call", "join"},
                                arg : DOMAIN M \cup {None, "workers"}, id : {0}]),
                    next : SUBSET (2..Len(M[f]))])
  /\ M[f] # <<>>
  /\ \A b \in DOMAIN M[f] :
       LET code == M[f][b].code IN
       \A i \in DOMAIN code :
         /\ f \in SubFunctions(M) => code[i].op \in {"work", "next"}
         /\ code[i].op = "fork" => IsParallelLoop(M, code, i)
         /\ code[i].op = "call" => IsParallelLoop(M, code, i - 1)
         /\ code[i].op = "join" => IsParallelLoop(M, code, i - 2)

ASSUME Assumptions ==
  /\ Main \in Apps /\ Generator \notin Apps \cup Teams /\ Apps \cap Teams = {}
  /\ None \notin Threads
  /\ Workers \in [Apps -> SUBSET Teams]
  /\ \A a, b \in Apps : a # b => Workers[a] \cap Workers[b] = {}
  /\ \A m \in DOMAIN Modules :
       /\ "F" \in DOMAIN Modules[m] /\ "polyjit.main" \notin DOMAIN Modules[m]
       /\ \A f \in DOMAIN Modules[m] : IsFunction(Modules[m], f)
       /\ Address[m] \in [DOMAIN Modules[m] -> Nat \ {0}]
  /\ LoopVariable \in Nat \ {0}
  /\ IdBits \in Nat /\ 2 ^ IdBits \in Nat \ {0}
  /\ Program \in [Apps -> Seq(SUBSET DOMAIN Modules)]

VARIABLES
  env,       \* POLLI_ENABLE_PAPI and LIKWID_MODE
  stack,     \* what each thread is in, the innermost last
  calls,     \* how many calls of the runtime each thread has made
  work,      \* the requests
  generator, \* what the generator is doing
  compiled,  \* the modules that have been compiled
  atexits,   \* what exit will run, the last one first
  exiter,    \* the thread that exits
  events,    \* what each thread has recorded with libpprof
  stored,    \* the runs that libpprof has stored
  fault,     \* a thread without a list has recorded an exit
  likwid,    \* LIKWID's state
  ready,     \* the threads LIKWID knows
  marks      \* the calls of LIKWID's markers

requests == <<calls, work, generator, compiled>>
ending == <<atexits, exiter>>
papi == <<events, stored, fault>>
likwidVars == <<likwid, ready, marks>>
tracing == <<papi, likwidVars>>
vars == <<env, stack, requests, ending, tracing>>

-----------------------------------------------------------------------------
(* The passes.                                                             *)

(* Calls at the entry and before every return.                             *)
FirstReturn(f, start, stop) ==           \* mutant: one return is instrumented
  LET ret == Min({b \in DOMAIN f : Returns(f[b])})
  IN  [b \in DOMAIN f |-> Block((IF b = 1 THEN start ELSE <<>>) \o f[b].code
                                  \o (IF b = ret THEN stop ELSE <<>>), f[b].next)]
Marked(f, start, stop) ==
  [b \in DOMAIN f |-> Block((IF b = 1 THEN start ELSE <<>>) \o f[b].code
                              \o (IF Returns(f[b]) THEN stop ELSE <<>>), f[b].next)]

(* LikwidMarker::runOnModule                                               *)
NoThreadInit(M) ==                       \* mutant: threads are not announced
  [f \in DOMAIN M |->
     IF SubFunctions(M) = {} \/ f \in SubFunctions(M)
     THEN Marked(M[f], <<Plain("likwid_markerStartRegion", f)>>,
                 <<Plain("likwid_markerStopRegion", f)>>)
     ELSE M[f]]
LikwidMarked(M) ==
  LET start(f) == <<Plain("likwid_markerStartRegion", f)>>
      stop(f) == <<Plain("likwid_markerStopRegion", f)>>
  IN  [f \in DOMAIN M |->
         CASE SubFunctions(M) = {} -> Marked(M[f], start(f), stop(f))
           [] f \in SubFunctions(M) ->
                Marked(M[f], <<Plain("likwid_markerThreadInit", None)>> \o start(f), stop(f))
           [] OTHER -> M[f]]

(* TraceMarker::runOnModule. The id of a sequential function is its        *)
(* address, that of a parallel one the address of the loop's variable.     *)
ScopId(m, f) == IF SubFunctions(Modules[m]) = {} THEN Address[m][f] ELSE LoopVariable
TraceMarked(m) ==
  LET M == Modules[m]
      start(f) == <<Instr("polliTracingScopStart", f, ScopId(m, f))>>
      stop(f) == <<Instr("polliTracingScopStop", f, ScopId(m, f))>>
  IN  [f \in DOMAIN M |->
         IF SubFunctions(M) = {} \/ f \in SubFunctions(M)
         THEN Marked(M[f], start(f), stop(f)) ELSE M[f]]

(* OptimizeForRuntime runs the second pass on what the first has made.     *)
OptimizeForRuntime(m) ==
  LET traced == IF env.papi THEN TraceMarked(m) ELSE Modules[m]
  IN  IF env.likwid THEN LikwidMarked(traced) ELSE traced

-----------------------------------------------------------------------------
(* The runtime's own code, as far as it is traced.                         *)

PJIT_REGION_MAIN == -1
PJIT_REGION_CODEGEN == -2
PJIT_REGION_GET_PROTOTYPE == -3
PJIT_REGION_SELECT_PARAMS == -4

RegionStart(id, name) == Instr("polliTracingRegionStart", name, id)
RegionStop(id, name) == Instr("polliTracingRegionStop", name, id)
Region(id, name) == <<RegionStart(id, name), RegionStop(id, name)>>
RunValues == Region(PJIT_REGION_SELECT_PARAMS, "polyjit.params.select")
GetPrototype == Region(PJIT_REGION_GET_PROTOTYPE, "polyjit.prototype.get")

Batch ==
  <<RegionStart(PJIT_REGION_CODEGEN, "polyjit.codegen"), Plain("requests", None),
    RegionStop(PJIT_REGION_CODEGEN, "polyjit.codegen")>>
Request(m) == GetPrototype \o RunValues \o <<Plain("compile", m)>>
PjitMain(m) == RunValues \o <<Plain("run", m)>>

(* What the static initializer and the constructor of PolyJIT plant.       *)
AtexitFirst(ofTracer) ==                 \* mutant: planted before the tracer's
  <<"do_shutdown">> \o ofTracer \o <<"~PolyJIT">>
Planted(ofTracer) == ofTracer \o <<"do_shutdown", "~PolyJIT">>
Handler(name) ==
  CASE name = "do_shutdown" ->
         <<RegionStop(PJIT_REGION_MAIN, "polyjit.main"), Plain("finalize", None)>>
    [] name = "papi_atexit_handler" -> <<Plain("store", None)>>
    [] name = "~PolyJIT" -> <<Plain("shutdown", None), Plain("join", "generator")>>

-----------------------------------------------------------------------------
(* Execution. A frame holds what is left of a block and where it leads,    *)
(* one with nothing left has returned.                                     *)

Frame(m, f, block) == [mod |-> m, fn |-> f, code |-> block.code, next |-> block.next]
RuntimeFrame(f, code) == Frame("runtime", f, Block(code, {}))
FunctionFrame(m, f) == Frame(m, f, OptimizeForRuntime(m)[f][1])

Over == exiter # None /\ stack[exiter] = <<>> /\ atexits = <<>>
Alive == ~Over /\ ~fault
Idle(t) == Alive /\ stack[t] = <<>>
Top(t) == Last(stack[t])
At(t, op) == Alive /\ stack[t] # <<>> /\ Top(t).code # <<>> /\ Head(Top(t).code).op = op
Arg(t) == Head(Top(t).code).arg

Pushed(s, t, frame) == [s EXCEPT ![t] = Append(@, frame)]
Finished(frame) == frame.code = <<>> /\ frame.next = {}
Replaced(frames, top) ==
  IF Finished(top) THEN Front(frames) ELSE Append(Front(frames), top)
Stepped(frame) == [frame EXCEPT !.code = Tail(@)]
Advanced(t) == [stack EXCEPT ![t] = Replaced(@, Stepped(Last(@)))]
Advance(t) == stack' = Advanced(t)

(* The tracer is chosen, and started with the region of main, before main  *)
(* begins. When neither variable is set there is nothing to trace.         *)
Tracer == IF env.papi THEN "PapiTracer" ELSE "LikwidTracer"
Mark(name, type, at, lib, known) ==
  [id |-> name, type |-> type, at |-> at, lib |-> lib, known |-> known]
Init ==
  /\ env \in [papi : BOOLEAN, likwid : BOOLEAN] /\ (env.papi \/ env.likwid)
  /\ atexits = Planted(IF Tracer = "PapiTracer" THEN <<"papi_atexit_handler">> ELSE <<>>)
  /\ events = [t \in Threads |->
                IF t = Main /\ Tracer = "PapiTracer"
                THEN <<Event(Total, "RegionEnter", 0), Event(PJIT_REGION_MAIN, "RegionEnter", 1)>>
                ELSE <<>>]
  /\ IF Tracer = "LikwidTracer"
     THEN likwid = "on" /\ ready = {Main} ELSE likwid = "off" /\ ready = {}
  /\ marks = [t \in Threads |-> IF t \in ready
                                THEN <<Mark("polyjit.main", "RegionEnter", 0, "on", TRUE)>> ELSE <<>>]
  /\ stack = [t \in Threads |-> <<>>]
  /\ calls = [a \in Apps |-> 0] /\ work = <<>> /\ generator = "asleep" /\ compiled = {}
  /\ exiter = None /\ stored = <<>> /\ fault = FALSE

(* Of libpprof, see Pprof: an enter makes the thread's list, an exit needs *)
(* one. Ids lose their upper bits.                                         *)
Narrow(id) == IF id < 0 THEN id ELSE id % 2 ^ IdBits
RecordAny(t, id, type) ==                \* mutant: an exit makes a list, too
  /\ events' = [events EXCEPT ![t] = Append(@, Event(Narrow(id), type, Len(@)))]
  /\ UNCHANGED fault
Record(t, id, type) ==
  IF type \in Enters \/ events[t] # <<>>
  THEN /\ events' = [events EXCEPT ![t] = Append(@, Event(Narrow(id), type, Len(@)))]
       /\ UNCHANGED fault
  ELSE fault' = TRUE /\ UNCHANGED events

LikwidCalls == {"likwid_markerStartRegion", "likwid_markerStopRegion"}
TracerCalls == {"polliTracingRegionStart", "polliTracingRegionStop",
                "polliTracingScopStart", "polliTracingScopStop"}
EventType == [polliTracingRegionStart |-> "RegionEnter", polliTracingRegionStop |-> "RegionExit",
              polliTracingScopStart |-> "ScopEnter", polliTracingScopStop |-> "ScopExit",
              likwid_markerStartRegion |-> "RegionEnter", likwid_markerStopRegion |-> "RegionExit"]
Trace(t, op) ==
  /\ At(t, op)
  /\ LET i == Head(Top(t).code)
         tracer == IF op \in LikwidCalls THEN "LikwidTracer" ELSE Tracer
     IN  /\ IF tracer = "PapiTracer" THEN Record(t, i.id, EventType[op]) ELSE UNCHANGED <<events, fault>>
         /\ marks' = IF tracer = "LikwidTracer"
                     THEN [marks EXCEPT ![t] = Append(@, Mark(i.arg, EventType[op], Len(@),
                                                             likwid, t \in ready))]
                     ELSE marks
  /\ Advance(t)
  /\ UNCHANGED <<env, requests, ending, stored, likwid, ready>>

ThreadInit(t) ==
  /\ At(t, "likwid_markerThreadInit")
  /\ ready' = ready \cup {t}
  /\ Advance(t)
  /\ UNCHANGED <<env, requests, ending, papi, likwid, marks>>

-----------------------------------------------------------------------------
(* Calls of the runtime, and the generator. While it is busy it has the    *)
(* mutex that a request takes.                                             *)

Call(t, m) ==
  /\ Idle(t) /\ exiter # t
  /\ calls[t] < Len(Program[t]) /\ m \in Program[t][calls[t] + 1]
  /\ generator \notin {"busy", "ending"}
  /\ calls' = [calls EXCEPT ![t] = @ + 1]
  /\ work' = Append(work, m)
  /\ stack' = Pushed(stack, t, RuntimeFrame("pjit_main", PjitMain(m)))
  /\ UNCHANGED <<env, generator, compiled, ending, tracing>>

(* Whether a call waits for code or goes on without is PolyJIT's matter.   *)
RunVariant(t) ==
  /\ At(t, "run")
  /\ stack' = IF Arg(t) \in compiled THEN Pushed(Advanced(t), t, FunctionFrame(Arg(t), "F"))
              ELSE Advanced(t)
  /\ UNCHANGED <<env, requests, ending, tracing>>

WakeUp ==
  /\ Idle(Generator)
  /\ \/ generator = "asleep" /\ work # <<>> /\ generator' = "busy"
     \/ generator = "told" /\ generator' = "ending"
  /\ stack' = Pushed(stack, Generator, RuntimeFrame("generator", Batch))
  /\ UNCHANGED <<env, calls, work, compiled, ending, tracing>>

TakeRequest ==
  /\ At(Generator, "requests") /\ work # <<>>
  /\ work' = Tail(work)
  /\ stack' = Pushed(stack, Generator, RuntimeFrame("request", Request(Head(work))))
  /\ UNCHANGED <<env, calls, generator, compiled, ending, tracing>>

NoRequest ==
  /\ At(Generator, "requests") /\ work = <<>>
  /\ Advance(Generator)
  /\ UNCHANGED <<env, requests, ending, tracing>>

Compile ==
  /\ At(Generator, "compile")
  /\ compiled' = compiled \cup {Arg(Generator)}
  /\ Advance(Generator)
  /\ UNCHANGED <<env, calls, work, generator, ending, tracing>>

EndBatch ==
  /\ Idle(Generator) /\ generator \in {"busy", "ending"}
  /\ generator' = IF generator = "busy" THEN "asleep" ELSE "over"
  /\ UNCHANGED <<env, stack, calls, work, compiled, ending, tracing>>

-----------------------------------------------------------------------------
(* Variants run.                                                           *)

(* A chunk of iterations, or the question whether there is one.            *)
Proceed(t) ==
  /\ At(t, "work") \/ At(t, "next")
  /\ Advance(t)
  /\ UNCHANGED <<env, requests, ending, tracing>>

CallSubFunction(t) ==
  /\ At(t, "call")
  /\ stack' = Pushed(Advanced(t), t, FunctionFrame(Top(t).mod, Arg(t)))
  /\ UNCHANGED <<env, requests, ending, tracing>>

Fork(t) ==
  /\ At(t, "fork")
  /\ stack' = [w \in Threads |-> IF w \in Workers[t] THEN <<FunctionFrame(Top(t).mod, Arg(t))>>
                                 ELSE Advanced(t)[w]]
  /\ UNCHANGED <<env, requests, ending, tracing>>

Join(t) ==
  /\ At(t, "join")
  /\ IF Arg(t) = "generator" THEN generator = "over"
     ELSE \A w \in Workers[t] : stack[w] = <<>>
  /\ Advance(t)
  /\ UNCHANGED <<env, requests, ending, tracing>>

Branch(t) ==
  /\ Alive /\ stack[t] # <<>> /\ Top(t).code = <<>>
  /\ LET f == OptimizeForRuntime(Top(t).mod)[Top(t).fn]
     IN  \E b \in Top(t).next :
           stack' = [stack EXCEPT ![t] = Replaced(@, Frame(Top(t).mod, Top(t).fn, f[b]))]
  /\ UNCHANGED <<env, requests, ending, tracing>>

-----------------------------------------------------------------------------
(* The process exits. Other threads go on until the last handler is done.  *)

ProcessExits(t) ==
  /\ Idle(t) /\ exiter = None
  /\ exiter' = t
  /\ UNCHANGED <<env, stack, requests, atexits, tracing>>

RunHandler(t) ==
  /\ Idle(t) /\ exiter = t
  /\ stack' = Pushed(stack, t, RuntimeFrame(Last(atexits), Handler(Last(atexits))))
  /\ atexits' = Front(atexits)
  /\ UNCHANGED <<env, requests, exiter, tracing>>

(* A generator that has not begun yet will not wake up any more.           *)
ShutDown(t) ==
  /\ At(t, "shutdown") /\ generator # "busy"
  /\ work' = <<>>
  /\ generator' \in {"told"} \cup IF compiled = {} THEN {"over"} ELSE {}
  /\ Advance(t)
  /\ UNCHANGED <<env, calls, compiled, ending, tracing>>

Finalize(t) ==
  /\ At(t, "finalize")
  /\ likwid' = IF Tracer = "LikwidTracer" THEN "closed" ELSE likwid
  /\ Advance(t)
  /\ UNCHANGED <<env, requests, ending, papi, ready, marks>>

(* papi_atexit_handler: STOP, store, clear, see Pprof.                     *)
PapiAtexit(t) ==
  /\ At(t, "store")
  /\ Record(t, Total, "RegionExit")
  /\ stored' = Append(stored, events'[t])
  /\ Advance(t)
  /\ UNCHANGED <<env, requests, ending, likwidVars>>

-----------------------------------------------------------------------------
Run(t) ==
  \/ Proceed(t) \/ Branch(t) \/ ThreadInit(t)
  \/ \E op \in LikwidCalls \cup TracerCalls : Trace(t, op)
RunApp(t) ==
  \/ RunVariant(t) \/ CallSubFunction(t) \/ Fork(t) \/ Join(t)
  \/ ProcessExits(t) \/ RunHandler(t) \/ ShutDown(t) \/ Finalize(t) \/ PapiAtexit(t)
  \/ \E m \in DOMAIN Modules : Call(t, m)
RunGenerator == WakeUp \/ TakeRequest \/ NoRequest \/ Compile \/ EndBatch
Next == RunGenerator \/ (\E t \in Threads : Run(t)) \/ (\E t \in Apps : RunApp(t))
Spec == Init /\ [][Next]_vars
=============================================================================
