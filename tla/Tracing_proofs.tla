--------------------------- MODULE Tracing_proofs ---------------------------
(***************************************************************************)
(* Proofs about Tracing. A frame's remaining code tells, for each library, *)
(* what its thread has open: the next mark ahead closes it or opens        *)
(* another. That is so of the code that the passes make, stays so with     *)
(* every step, and what the libraries have recorded agrees with it. Then   *)
(* what the analysis makes of a log: nested enters meet their own exits.   *)
(***************************************************************************)
EXTENDS TracingProperties, PprofAnalysis_proofs

-----------------------------------------------------------------------------
(* Libraries, and what an instruction tells them.                          *)
Libs == {"papi", "likwid"}
On(lib) == IF lib = "papi" THEN env.papi ELSE env.likwid
Log(lib, t) == IF lib = "papi" THEN events[t] ELSE marks[t]
Goes(lib, op) ==
  \/ lib = "papi" /\ env.papi /\ op \in TracerCalls
  \/ lib = "likwid" /\ (op \in LikwidCalls \/ (~env.papi /\ op \in TracerCalls))
Name(lib, i) == IF lib = "papi" THEN Narrow(i.id) ELSE i.arg
Opening(lib, i) == Goes(lib, i.op) /\ EventType[i.op] \in Enters
Closing(lib, i) == Goes(lib, i.op) /\ EventType[i.op] \notin Enters

(* What is open within a function that is measured, and between two of a   *)
(* frame's blocks.                                                         *)
Scop(lib, m, f) == IF lib = "papi" THEN Narrow(ScopId(m, f)) ELSE f
ScopOpen(lib, m, f) == IF On(lib) /\ Measured(m, f) THEN <<Scop(lib, m, f)>> ELSE <<>>
Rest(lib, fr) == IF fr.next = {} THEN <<>> ELSE ScopOpen(lib, fr.mod, fr.fn)

(* After the first i instructions x is open: the next one that tells the   *)
(* library anything opens when nothing is, or closes what is; and x is     *)
(* what may be open at the end if there is none.                           *)
Quiet(lib, code, i, j) == \A k \in DOMAIN code : i < k /\ k < j => ~Goes(lib, code[k].op)
After(lib, fr, i, x) ==
  /\ \A j \in DOMAIN fr.code : i < j /\ Quiet(lib, fr.code, i, j) =>
       /\ Opening(lib, fr.code[j]) => x = <<>>
       /\ Closing(lib, fr.code[j]) => x = <<Name(lib, fr.code[j])>>
  /\ (\A k \in DOMAIN fr.code : i < k => ~Goes(lib, fr.code[k].op)) => x = Rest(lib, fr)
Bracketed(lib, fr) ==
  \A i \in DOMAIN fr.code :
    /\ Opening(lib, fr.code[i]) => After(lib, fr, i, <<Name(lib, fr.code[i])>>)
    /\ Closing(lib, fr.code[i]) => After(lib, fr, i, <<>>)

-----------------------------------------------------------------------------
(* Frames.                                                                 *)
RegionCalls == {"polliTracingRegionStart", "polliTracingRegionStop"}
ScopCalls == {"polliTracingScopStart", "polliTracingScopStop"}
FunctionOps == {"work", "next", "likwid_markerThreadInit"} \cup LikwidCalls \cup ScopCalls
CallerOps == FunctionOps \cup RegionCalls \cup {"fork", "call", "join", "run"}
RequestOps == RegionCalls \cup {"compile"}
GeneratorOps == RequestOps \cup {"requests"}

Ops == CallerOps \cup GeneratorOps
Args == Functions \cup RegionNames \cup DOMAIN Modules \cup {None, "workers"}
Instrs == [op : Ops, arg : Args, id : Int]
Regions == {PJIT_REGION_CODEGEN, PJIT_REGION_GET_PROTOTYPE, PJIT_REGION_SELECT_PARAMS}

(* What the generator has open while it works on requests.                 *)
Generating(lib) ==
  IF lib = "papi" THEN (IF env.papi THEN <<PJIT_REGION_CODEGEN>> ELSE <<>>)
  ELSE (IF env.papi THEN <<>> ELSE <<"polyjit.codegen">>)

OfFunction(fr) ==
  /\ fr.mod \in DOMAIN Modules /\ fr.fn \in DOMAIN Modules[fr.mod]
  /\ fr.next \subseteq 2..Len(Modules[fr.mod][fr.fn])
OfRuntime(fr) == fr.mod = "runtime" /\ fr.next = {}
SubFunction(fr, g) == fr.mod \in DOMAIN Modules /\ g \in SubFunctions(Modules[fr.mod])
Joins == Plain("join", "workers")

(* What goes on from each kind of instruction.                             *)
MarksOk(fr, i) ==
  LET c == fr.code[i] IN
  /\ c.op \in RegionCalls => c.id \in Regions /\ c.arg \in RegionNames \ {"polyjit.main"}
  /\ c.op \in ScopCalls => env.papi /\ c.id \in Nat
  /\ c.op \in LikwidCalls => env.likwid /\ c.arg \in Functions
LoopsOk(fr, i) ==
  LET c == fr.code[i] IN
  /\ c.op = "fork" => /\ i + 2 \in DOMAIN fr.code /\ fr.code[i + 1] = Plain("call", c.arg)
                      /\ SubFunction(fr, c.arg)
  /\ c.op = "call" => /\ i + 1 \in DOMAIN fr.code /\ fr.code[i + 1] = Joins
                      /\ SubFunction(fr, c.arg)
  /\ c.op = "join" => c = Joins /\ \A lib \in Libs : After(lib, fr, i, <<>>)
RestOk(fr, i) ==
  LET c == fr.code[i] IN
  /\ c.op = "work" => OfFunction(fr) /\ \A lib \in Libs : After(lib, fr, i, ScopOpen(lib, fr.mod, fr.fn))
  /\ c.op = "run" => OfRuntime(fr) /\ i = Len(fr.code) /\ c.arg \in DOMAIN Modules
  /\ c.op = "compile" => c.arg \in DOMAIN Modules
  /\ c.op = "requests" => \A lib \in Libs : After(lib, fr, i, Generating(lib))

FrameOk(fr, ops) ==
  /\ fr = [mod |-> fr.mod, fn |-> fr.fn, code |-> fr.code, next |-> fr.next]
  /\ fr.code \in Seq(Instrs)
  /\ OfFunction(fr) \/ OfRuntime(fr)
  /\ ops = FunctionOps => SubFunction(fr, fr.fn)
  /\ ops \in {RequestOps, GeneratorOps} => OfRuntime(fr)
  /\ ops = RequestOps => \A i \in DOMAIN fr.code : fr.code[i].id # PJIT_REGION_CODEGEN
  /\ \A lib \in Libs : Bracketed(lib, fr)
  /\ \A i \in DOMAIN fr.code :
       fr.code[i].op \in ops /\ MarksOk(fr, i) /\ LoopsOk(fr, i) /\ RestOk(fr, i)

-----------------------------------------------------------------------------
(* Threads that do not exit. A thread is at most in two frames: in a       *)
(* function that it runs as a part of a parallel loop, or in a request.    *)
OuterOps(t) ==
  IF t \in Apps THEN CallerOps ELSE IF t = Generator THEN GeneratorOps ELSE FunctionOps
InnerOps(t) ==
  IF t \in Apps THEN FunctionOps ELSE IF t = Generator THEN RequestOps ELSE {}
AtCall(fr, ops) == fr.code # <<>> /\ Head(fr.code).op \in ops

StackOk(t, s) ==
  \/ s = <<>>
  \/ \E fr : s = <<fr>> /\ FrameOk(fr, OuterOps(t))
  \/ \E low, fr : /\ s = <<low, fr>>
                  /\ FrameOk(low, OuterOps(t)) /\ AtCall(low, {"join", "requests"})
                  /\ FrameOk(fr, InnerOps(t)) /\ InnerOps(t) # {}

(* What a thread has open outside of its frames, and below the second one. *)
Base(lib, t) ==
  CASE t # Main -> <<>>
    [] t = Main /\ lib = "papi" -> IF env.papi THEN <<Total, PJIT_REGION_MAIN>> ELSE <<>>
    [] OTHER -> IF env.papi THEN <<>> ELSE <<"polyjit.main">>
Below(lib, t) == IF t = Generator THEN Generating(lib) ELSE Base(lib, t)
Opened(under, x) == IF x = <<>> THEN under ELSE Append(under, x[1])
OpenOk(lib, t, s, evs) ==
  \/ s = <<>> /\ OpenMarks(evs) = Base(lib, t)
  \/ \E fr, x : s = <<fr>> /\ After(lib, fr, 0, x) /\ OpenMarks(evs) = Opened(Base(lib, t), x)
  \/ \E low, fr, x : s = <<low, fr>> /\ After(lib, fr, 0, x)
                                     /\ OpenMarks(evs) = Opened(Below(lib, t), x)
ThreadOk(t) == StackOk(t, stack[t]) /\ \A lib \in Libs : OpenOk(lib, t, stack[t], Log(lib, t))

(* Workers work for a thread that goes on to wait for them.                *)
WorkersOk ==
  \A a \in Apps : \A w \in Workers[a] :
    stack[w] # <<>> => /\ a # exiter /\ stack[a] # <<>>
                       /\ AtCall(stack[a][1], {"call", "join"})

(* A worker that LIKWID does not know is about to be announced.            *)
Announced(t) ==
  \/ t \in ready \/ ~env.likwid \/ stack[t] = <<>>
  \/ AtCall(Last(stack[t]), {"likwid_markerThreadInit"})
TeamsOk == \A t \in Teams : Announced(t)

-----------------------------------------------------------------------------
(* The main region.                                                        *)
EventRecords == [id : Int, type : EventTypes, at : Nat]
MarkRecords == [id : Functions \cup RegionNames, type : EventTypes, at : Nat,
                lib : {"off", "on"}, known : BOOLEAN]
Logs == Seq(EventRecords \cup MarkRecords)
MainEntered(evs) ==
  /\ evs # <<>> /\ evs[1].type = "RegionEnter"
  /\ IF env.papi THEN /\ evs[1].id = Total /\ Len(evs) >= 2
                      /\ evs[2].id = PJIT_REGION_MAIN /\ evs[2].type = "RegionEnter"
                      /\ \A i \in DOMAIN evs : evs[i].type = "RegionExit" => evs[i].id \in Regions
     ELSE /\ evs[1].id = "polyjit.main"
          /\ \A i \in DOMAIN evs : evs[i].type = "RegionExit" => evs[i].id # "polyjit.main"
Left(evs, id, before) == evs = Append(before, Last(evs)) /\ Last(evs).id = id
                           /\ Last(evs).type = "RegionExit"
MainLog == IF env.papi THEN events[Main] ELSE marks[Main]
MainRegion == IF env.papi THEN PJIT_REGION_MAIN ELSE "polyjit.main"
InMain == MainEntered(MainLog)
MainLeft(evs) == \E before \in Logs : Left(evs, MainRegion, before) /\ MainEntered(before)

-----------------------------------------------------------------------------
(* The thread that exits.                                                  *)
OfTracer == IF env.papi THEN <<"papi_atexit_handler">> ELSE <<>>
Doing(name, code) == stack[exiter] = <<RuntimeFrame(name, code)>>
Exits(n) ==
  CASE n = 1 -> atexits = Planted(OfTracer) /\ stack[exiter] = <<>>
    [] n = 2 -> /\ atexits = OfTracer \o <<"do_shutdown">>
                /\ \/ Doing("~PolyJIT", <<Plain("shutdown", None), Plain("join", "generator")>>)
                   \/ Doing("~PolyJIT", <<Plain("join", "generator")>>) \/ stack[exiter] = <<>>
    [] n = 3 -> atexits = OfTracer /\ Doing("do_shutdown", Handler("do_shutdown"))
    [] n = 4 -> atexits = OfTracer /\ Doing("do_shutdown", <<Plain("finalize", None)>>)
    [] n = 5 -> atexits = OfTracer /\ stack[exiter] = <<>>
    [] n = 6 -> env.papi /\ atexits = <<>> /\ Doing("papi_atexit_handler", <<Plain("store", None)>>)
    [] n = 7 -> env.papi /\ atexits = <<>> /\ stack[exiter] = <<>>
ExitAt(n) ==
  /\ exiter \in Apps /\ Exits(n)
  /\ n <= 3 \/ exiter # Main => InMain
  /\ exiter = Main /\ n \in {4, 5, 6} => MainLeft(MainLog)
  /\ exiter = Main /\ n = 7 =>
       /\ stored = <<MainLog>>
       /\ \E before \in Logs : Left(MainLog, Total, before) /\ MainLeft(before)
  /\ n <= 6 => stored = <<>>
  /\ fault => n >= 4 /\ exiter # Main
  /\ likwid = IF env.papi THEN "off" ELSE IF n = 5 THEN "closed" ELSE "on"
  /\ exiter = Main /\ ~env.papi /\ n \in {4, 5} => Last(marks[Main]).lib = "on"
ExitOk ==
  IF exiter = None THEN InMain /\ atexits = Planted(OfTracer) /\ stored = <<>> /\ ~fault
                        /\ likwid = IF env.papi THEN "off" ELSE "on"
  ELSE \E n \in 1..7 : ExitAt(n)

-----------------------------------------------------------------------------
(* Types.                                                                  *)
TypesOk ==
  /\ env \in [papi : BOOLEAN, likwid : BOOLEAN] /\ (env.papi \/ env.likwid)
  /\ DOMAIN stack = Threads /\ calls \in [Apps -> Nat]
  /\ work \in Seq(DOMAIN Modules) /\ compiled \subseteq DOMAIN Modules
  /\ generator \in {"asleep", "busy", "told", "ending", "over"}
  /\ fault \in BOOLEAN /\ ready \subseteq Threads /\ (env.papi \/ Main \in ready)
  /\ events \in [Threads -> Seq(EventRecords)] /\ marks \in [Threads -> Seq(MarkRecords)]
  /\ \A t \in Threads : events[t] # <<>> => events[t][1].type \in Enters
  /\ \A t \in Threads : \A i \in DOMAIN marks[t] :
       /\ marks[t][i].lib = "off" => env.papi
       /\ t \in Teams \/ (t = Main /\ ~env.papi) => marks[t][i].known

TracingInv ==
  /\ TypesOk /\ ExitOk /\ WorkersOk /\ TeamsOk
  /\ \A t \in Threads \ {exiter} : ThreadOk(t)

-----------------------------------------------------------------------------
(* What is open after one more event.                                      *)

(* What is open is a sequence of names.                                    *)
LEMMA FollowingTyped ==
  ASSUME NEW T, "unopened" \in T, NEW open \in Seq(T), NEW e, e.id \in T
  PROVE  Following(open, e) \in Seq(T)
<1>1. open # <<>> => Front(open) \in Seq(T)
  <2>1. SUFFICES ASSUME open # <<>> PROVE Front(open) \in Seq(T)
    OBVIOUS
  <2>2. Len(open) \in Nat \ {0} /\ \A i \in 1..Len(open) : open[i] \in T
    BY <2>1
  <2>3. Front(open) = [i \in 1..(Len(open) - 1) |-> open[i]]
    BY <2>2 DEF Front
  <2>4. QED
    BY <2>2, <2>3
<1>2. Append(open, e.id) \in Seq(T) /\ <<"unopened">> \in Seq(T)
  OBVIOUS
<1>3. CASE IsEnter(e)
  BY <1>2, <1>3, Zenon DEF Following
<1>4. CASE ~IsEnter(e)
  BY <1>1, <1>2, <1>4, Zenon DEF Following
<1>5. QED
  BY <1>3, <1>4

(* OpenMarks is what has been followed up to the last event.               *)
LEMMA OpenMarksSteps ==
  ASSUME NEW T, "unopened" \in T, NEW E, \A e \in E : e.id \in T, NEW evs \in Seq(E)
  PROVE  \E c \in [0..Len(evs) -> Seq(T)] :
           /\ OpenMarks(evs) = c[Len(evs)]
           /\ c[0] = <<>>
           /\ \A n \in 1..Len(evs) : c[n] = Following(c[n - 1], evs[n])
<1> DEFINE N == 0..Len(evs)
           open[n \in N] == IF n = 0 THEN <<>> ELSE Following(open[n - 1], evs[n])
           next(f, n) == IF n = 0 THEN <<>> ELSE Following(f[n - 1], evs[n])
           step == [n \in 1..Len(evs) |-> [o \in Seq(T) |-> Following(o, evs[n])]]
<1>1. Len(evs) \in Nat /\ \A n \in 1..Len(evs) : evs[n] \in E
  <2>1. Len(evs) \in Nat /\ DOMAIN evs = 1..Len(evs)
    OBVIOUS
  <2>2. QED
    BY <2>1, ElementOfSeq
<1>2. <<>> \in Seq(T) /\ step \in [1..Len(evs) -> [Seq(T) -> Seq(T)]]
  <2>1. ASSUME NEW n \in 1..Len(evs)
        PROVE  [o \in Seq(T) |-> Following(o, evs[n])] \in [Seq(T) -> Seq(T)]
    BY <1>1, FollowingTyped
  <2>2. QED
    BY <2>1
<1>3. PICK c \in [N -> Seq(T)] :
        c[0] = <<>> /\ \A n \in 1..Len(evs) : c[n] = step[n][c[n - 1]]
  <2> HIDE DEF step
  <2>1. Len(evs) \in Nat
    BY <1>1
  <2>2. <<>> \in Seq(T) /\ step \in [1..Len(evs) -> [Seq(T) -> Seq(T)]]
    BY <1>2
  <2>3. \E f \in [0..Len(evs) -> Seq(T)] : DefinedBy(f, <<>>, Len(evs), step)
    BY <2>1, <2>2, RecursionTo
  <2>4. QED
    BY <2>3 DEF DefinedBy
<1>4. \A n \in 1..Len(evs) : n - 1 \in N /\ step[n][c[n - 1]] = Following(c[n - 1], evs[n])
  <2> TAKE n \in 1..Len(evs)
  <2>1. n - 1 \in N
    BY <1>1
  <2>2. c[n - 1] \in Seq(T)
    BY <1>3, <2>1
  <2>3. step[n] = [o \in Seq(T) |-> Following(o, evs[n])]
    OBVIOUS
  <2>4. step[n][c[n - 1]] = Following(c[n - 1], evs[n])
    BY <2>2, <2>3, Zenon
  <2>5. QED
    BY <2>1, <2>4
<1> HIDE DEF step
<1>5. c = [n \in N |-> next(c, n)]
  <2>1. ASSUME NEW n \in N PROVE c[n] = next(c, n)
    <3>1. n # 0 => n \in 1..Len(evs)
      BY <1>1
    <3>2. QED
      BY <1>3, <1>4, <3>1
  <2>2. QED
    BY <1>3, <2>1
<1>6. open = [n \in N |-> next(open, n)]
  <2>1. \E h : h = [n \in N |-> next(h, n)]
    BY <1>5
  <2>2. QED
    BY <2>1
<1>7. OpenMarks(evs) = open[Len(evs)]
  BY DEF OpenMarks
<1> HIDE DEF open
<1>8. \A n \in Nat : n \in {k \in Nat : k \in N => open[k] = c[k]}
  <2> DEFINE S == {k \in Nat : k \in N => open[k] = c[k]}
  <2>1. 0 \in S
    BY <1>3, <1>6
  <2>2. ASSUME NEW k \in Nat, k \in S PROVE k + 1 \in S
    <3>1. SUFFICES ASSUME k + 1 \in N PROVE open[k + 1] = c[k + 1]
      OBVIOUS
    <3>2. k \in N /\ k + 1 \in 1..Len(evs) /\ (k + 1) - 1 = k
      BY <1>1, <3>1
    <3>3. open[k + 1] = Following(open[k], evs[k + 1])
      BY <1>6, <3>1, <3>2
    <3>4. c[k + 1] = Following(c[k], evs[k + 1])
      BY <1>3, <1>4, <3>2
    <3>5. QED
      BY <2>2, <3>2, <3>3, <3>4
  <2> HIDE DEF S
  <2>3. QED
    BY <2>1, <2>2, SetInduction DEF S
<1>9. Len(evs) \in N
  BY <1>1
<1>10. QED
  BY <1>1, <1>3, <1>4, <1>7, <1>8, <1>9

(* Nothing is open in the beginning.                                       *)
LEMMA OpenMarksNone == OpenMarks(<<>>) = <<>>
<1>1. PICK T, E : T = {"unopened"} /\ E = {}
  OBVIOUS
<1>2. PICK evs : evs = <<>>
  OBVIOUS
<1>3. evs \in Seq(E) /\ "unopened" \in T /\ \A e \in E : e.id \in T
  BY <1>1, <1>2
<1>4. Len(evs) = 0
  BY <1>2
<1>5. PICK c \in [0..Len(evs) -> Seq(T)] : OpenMarks(evs) = c[Len(evs)] /\ c[0] = <<>>
  BY <1>3, OpenMarksSteps
<1>6. QED
  BY <1>2, <1>4, <1>5

(* One more event.                                                         *)
LEMMA OpenMarksAppend ==
  ASSUME NEW T, "unopened" \in T, NEW E, \A e \in E : e.id \in T, NEW evs \in Seq(E), NEW e \in E
  PROVE  /\ OpenMarks(evs) \in Seq(T)
         /\ OpenMarks(Append(evs, e)) = Following(OpenMarks(evs), e)
<1> DEFINE N == Len(evs)
<1>0. PICK more : more = Append(evs, e)
  OBVIOUS
<1>1. /\ N \in Nat /\ more \in Seq(E) /\ Len(more) = N + 1 /\ more[N + 1] = e
      /\ \A n \in 1..N : more[n] = evs[n]
  BY <1>0
<1>2. PICK c \in [0..Len(evs) -> Seq(T)] :
           /\ OpenMarks(evs) = c[Len(evs)]
           /\ c[0] = <<>>
           /\ \A n \in 1..Len(evs) : c[n] = Following(c[n - 1], evs[n])
  BY OpenMarksSteps
<1>3. PICK d \in [0..Len(more) -> Seq(T)] :
           /\ OpenMarks(more) = d[Len(more)]
           /\ d[0] = <<>>
           /\ \A n \in 1..Len(more) : d[n] = Following(d[n - 1], more[n])
  <2>1. more \in Seq(E)
    BY <1>1
  <2>2. QED
    BY <2>1, OpenMarksSteps
<1> DEFINE S == {n \in Nat : n <= N => d[n] = c[n]}
<1>4. 0 \in S
  BY <1>2, <1>3
<1>5. ASSUME NEW n \in Nat, n \in S PROVE n + 1 \in S
  <2>1. SUFFICES ASSUME n + 1 <= N PROVE d[n + 1] = c[n + 1]
    OBVIOUS
  <2>2. n + 1 \in 1..Len(evs) /\ n + 1 \in 1..Len(more) /\ (n + 1) - 1 = n /\ d[n] = c[n]
    BY <1>1, <1>5, <2>1
  <2>3. d[n + 1] = Following(d[n], more[n + 1]) /\ c[n + 1] = Following(c[n], evs[n + 1])
        /\ more[n + 1] = evs[n + 1]
    BY <1>1, <1>2, <1>3, <2>2
  <2>4. QED
    BY <2>2, <2>3
<1> HIDE DEF S
<1>6. N \in S
  BY <1>1, <1>4, <1>5, SetInduction
<1>7. d[N] = c[N] /\ c[N] \in Seq(T)
  BY <1>1, <1>2, <1>6 DEF S
<1>8. N + 1 \in 1..Len(more) /\ (N + 1) - 1 = N
  BY <1>1
<1>9. d[N + 1] = Following(d[N], e)
  BY <1>1, <1>3, <1>8
<1>10. QED
  BY <1>0, <1>1, <1>2, <1>3, <1>7, <1>9
-----------------------------------------------------------------------------
(* The environment does not change, so what a frame says of it stays.      *)

(* What frames promise is promised in the next state.                      *)
LEMMA EnvFrames ==
  ASSUME env' = env, NEW fr, NEW ops, NEW lib, NEW i, NEW x
  PROVE  /\ FrameOk(fr, ops)' <=> FrameOk(fr, ops)
         /\ After(lib, fr, i, x)' <=> After(lib, fr, i, x)
BY DEF FrameOk, After, Bracketed, MarksOk, LoopsOk, RestOk, Generating, Opening, Closing, Rest,
       ScopOpen, Quiet, Goes, On

(* So are the stacks of threads, and what the threads have open.           *)
LEMMA EnvThreads ==
  ASSUME env' = env, NEW t, NEW s, NEW lib, NEW evs
  PROVE  /\ StackOk(t, s)' <=> StackOk(t, s)
         /\ OpenOk(lib, t, s, evs)' <=> OpenOk(lib, t, s, evs)
<1>1. StackOk(t, s)' <=> StackOk(t, s)
  BY EnvFrames DEF StackOk, AtCall
<1>2. Base(lib, t)' = Base(lib, t) /\ Below(lib, t)' = Below(lib, t)
  BY DEF Base, Below, Generating
<1>3. OpenOk(lib, t, s, evs)' <=> OpenOk(lib, t, s, evs)
  BY <1>2, EnvFrames DEF OpenOk
<1>4. QED
  BY <1>1, <1>3

-----------------------------------------------------------------------------
(* One instruction.                                                        *)
IsFrame(fr) ==
  fr = [mod |-> fr.mod, fn |-> fr.fn, code |-> fr.code, next |-> fr.next] /\ fr.code \in Seq(Instrs)

(* The rest of a frame.                                                    *)
LEMMA SteppedIs ==
  ASSUME NEW fr, IsFrame(fr), fr.code # <<>>
  PROVE  /\ Stepped(fr) = [mod |-> fr.mod, fn |-> fr.fn, code |-> Tail(fr.code), next |-> fr.next]
         /\ Tail(fr.code) \in Seq(Instrs) /\ Len(fr.code) \in Nat /\ Len(fr.code) >= 1
         /\ DOMAIN fr.code = 1..Len(fr.code) /\ DOMAIN Tail(fr.code) = 1..(Len(fr.code) - 1)
         /\ \A i \in 1..(Len(fr.code) - 1) : Tail(fr.code)[i] = fr.code[i + 1]
         /\ Head(fr.code) = fr.code[1]
<1>1. PICK c : c = fr.code
  OBVIOUS
<1>2. fr = [mod |-> fr.mod, fn |-> fr.fn, code |-> c, next |-> fr.next]
  BY <1>1, Zenon DEF IsFrame
<1>3. Stepped(fr) = [mod |-> fr.mod, fn |-> fr.fn, code |-> Tail(c), next |-> fr.next]
  BY <1>2 DEF Stepped
<1>4. c \in Seq(Instrs) /\ c # <<>>
  BY <1>1 DEF IsFrame
<1>5. /\ Tail(c) \in Seq(Instrs) /\ Len(c) \in Nat /\ Len(c) >= 1 /\ Head(c) = c[1]
      /\ DOMAIN c = 1..Len(c) /\ Len(Tail(c)) = Len(c) - 1
      /\ \A i \in 1..(Len(c) - 1) : Tail(c)[i] = c[i + 1]
  BY <1>4
<1>6. DOMAIN Tail(c) = 1..(Len(c) - 1)
  BY <1>5
<1>7. QED
  BY <1>1, <1>3, <1>5, <1>6

(* The kinds of frames.                                                    *)
LEMMA DifferentOps ==
  /\ CallerOps # FunctionOps /\ RequestOps # FunctionOps /\ GeneratorOps # FunctionOps
  /\ CallerOps # RequestOps /\ CallerOps # GeneratorOps /\ FunctionOps # {}
  /\ GeneratorOps # RequestOps
<1>1. /\ "fork" \in CallerOps /\ "fork" \notin FunctionOps
      /\ "compile" \in RequestOps /\ "compile" \in GeneratorOps /\ "compile" \notin FunctionOps
      /\ "work" \in FunctionOps /\ "compile" \notin CallerOps
      /\ "requests" \in GeneratorOps /\ "requests" \notin RequestOps
  BY DEF CallerOps, FunctionOps, RequestOps, GeneratorOps, LikwidCalls, ScopCalls, RegionCalls
<1>2. QED
  BY <1>1, Zenon

(* What is open after an instruction is open after it in the rest.         *)
LEMMA AfterTail ==
  ASSUME NEW fr, IsFrame(fr), fr.code # <<>>, NEW lib, NEW x, NEW i \in Nat,
         After(lib, fr, i + 1, x)
  PROVE  After(lib, Stepped(fr), i, x)
<1>1. PICK tl : tl = Stepped(fr)
  OBVIOUS
<1>2. /\ tl.code = Tail(fr.code) /\ tl.mod = fr.mod /\ tl.fn = fr.fn /\ tl.next = fr.next
      /\ Len(fr.code) \in Nat /\ DOMAIN fr.code = 1..Len(fr.code) /\ DOMAIN tl.code = 1..(Len(fr.code) - 1)
      /\ \A j \in DOMAIN tl.code : tl.code[j] = fr.code[j + 1]
  <2>1. tl = [mod |-> fr.mod, fn |-> fr.fn, code |-> Tail(fr.code), next |-> fr.next]
    BY <1>1, SteppedIs
  <2>2. tl.code = Tail(fr.code) /\ tl.mod = fr.mod /\ tl.fn = fr.fn /\ tl.next = fr.next
    BY <2>1
  <2>3. QED
    BY <2>2, SteppedIs
<1>3. \A k \in DOMAIN fr.code : i + 1 < k => k - 1 \in DOMAIN tl.code /\ i < k - 1
                                            /\ tl.code[k - 1] = fr.code[k]
  <2> TAKE k \in DOMAIN fr.code
  <2>1. SUFFICES ASSUME i + 1 < k
                 PROVE  k - 1 \in DOMAIN tl.code /\ i < k - 1 /\ tl.code[k - 1] = fr.code[k]
    OBVIOUS
  <2>2. k - 1 \in DOMAIN tl.code /\ i < k - 1 /\ (k - 1) + 1 = k
    BY <1>2, <2>1
  <2>3. QED
    BY <1>2, <2>2
<1>4. ASSUME NEW j \in DOMAIN tl.code, i < j, Quiet(lib, tl.code, i, j)
      PROVE  /\ Opening(lib, tl.code[j]) => x = <<>>
             /\ Closing(lib, tl.code[j]) => x = <<Name(lib, tl.code[j])>>
  <2>1. j + 1 \in DOMAIN fr.code /\ i + 1 < j + 1 /\ tl.code[j] = fr.code[j + 1]
    BY <1>2, <1>4
  <2>2. Quiet(lib, fr.code, i + 1, j + 1)
    <3>1. SUFFICES ASSUME NEW k \in DOMAIN fr.code, i + 1 < k, k < j + 1
                   PROVE  ~Goes(lib, fr.code[k].op)
      BY Zenon DEF Quiet
    <3>2. k - 1 \in DOMAIN tl.code /\ i < k - 1 /\ tl.code[k - 1] = fr.code[k] /\ k - 1 < j
      BY <1>2, <1>3, <3>1
    <3>3. QED
      BY <1>4, <3>2 DEF Quiet
  <2>3. QED
    BY <2>1, <2>2 DEF After
<1>5. ASSUME \A k \in DOMAIN tl.code : i < k => ~Goes(lib, tl.code[k].op) PROVE x = Rest(lib, tl)
  <2>1. \A k \in DOMAIN fr.code : i + 1 < k => ~Goes(lib, fr.code[k].op)
    BY <1>3, <1>5
  <2>2. x = Rest(lib, fr)
    BY <2>1, Zenon DEF After
  <2>3. QED
    BY <1>2, <2>2 DEF Rest, ScopOpen
<1>6. After(lib, tl, i, x)
  BY <1>4, <1>5, Zenon DEF After
<1>7. QED
  BY <1>1, <1>6
(* What is promised of a frame is promised of what is left of it.          *)
LEMMA SteppedOk ==
  ASSUME NEW fr, NEW ops, FrameOk(fr, ops), fr.code # <<>>
  PROVE  FrameOk(Stepped(fr), ops)
<1>1. IsFrame(fr)
  BY DEF FrameOk, IsFrame
<1>2. PICK tl : tl = Stepped(fr)
  OBVIOUS
<1>3. tl = [mod |-> fr.mod, fn |-> fr.fn, code |-> Tail(fr.code), next |-> fr.next]
  BY <1>1, <1>2, SteppedIs
<1>4. /\ tl.code = Tail(fr.code) /\ tl.mod = fr.mod /\ tl.fn = fr.fn /\ tl.next = fr.next
      /\ tl = [mod |-> tl.mod, fn |-> tl.fn, code |-> tl.code, next |-> tl.next]
  BY <1>3
<1>5. /\ tl.code \in Seq(Instrs) /\ Len(fr.code) \in Nat /\ Len(fr.code) >= 1
      /\ DOMAIN fr.code = 1..Len(fr.code) /\ DOMAIN tl.code = 1..(Len(fr.code) - 1)
      /\ \A j \in DOMAIN tl.code : tl.code[j] = fr.code[j + 1]
  BY <1>1, <1>4, SteppedIs
<1>6. OfFunction(tl) \/ OfRuntime(tl)
  BY <1>4 DEF FrameOk, OfFunction, OfRuntime
<1>7. ASSUME NEW i \in DOMAIN tl.code, NEW lib, NEW x, After(lib, fr, i + 1, x)
      PROVE  After(lib, tl, i, x)
  <2>1. i \in Nat
    BY <1>5
  <2>2. QED
    BY <1>1, <1>2, <1>7, <2>1, AfterTail
<1>8. ASSUME NEW lib \in Libs PROVE Bracketed(lib, tl)
  <2>1. SUFFICES ASSUME NEW i \in DOMAIN tl.code
                 PROVE  /\ Opening(lib, tl.code[i]) => After(lib, tl, i, <<Name(lib, tl.code[i])>>)
                        /\ Closing(lib, tl.code[i]) => After(lib, tl, i, <<>>)
    BY Zenon DEF Bracketed
  <2>2. i + 1 \in DOMAIN fr.code /\ tl.code[i] = fr.code[i + 1]
    BY <1>5
  <2>3. /\ Opening(lib, tl.code[i]) => After(lib, fr, i + 1, <<Name(lib, tl.code[i])>>)
        /\ Closing(lib, tl.code[i]) => After(lib, fr, i + 1, <<>>)
    BY <2>2 DEF FrameOk, Bracketed
  <2>4. QED
    BY <1>7, <2>3
<1>9. ASSUME NEW i \in DOMAIN tl.code
      PROVE  tl.code[i].op \in ops /\ MarksOk(tl, i) /\ LoopsOk(tl, i) /\ RestOk(tl, i)
  <2>1. i + 1 \in DOMAIN fr.code /\ tl.code[i] = fr.code[i + 1]
    BY <1>5
  <2>2. fr.code[i + 1].op \in ops /\ MarksOk(fr, i + 1) /\ LoopsOk(fr, i + 1) /\ RestOk(fr, i + 1)
    BY <2>1 DEF FrameOk
  <2>3. MarksOk(tl, i)
    BY <2>1, <2>2 DEF MarksOk
  <2>4. LoopsOk(tl, i)
    <3>1. SubFunction(fr, tl.code[i].arg) => SubFunction(tl, tl.code[i].arg)
      BY <1>4 DEF SubFunction
    <3>2. /\ i + 3 \in DOMAIN fr.code => i + 2 \in DOMAIN tl.code
          /\ i + 2 \in DOMAIN fr.code => i + 1 \in DOMAIN tl.code /\ tl.code[i + 1] = fr.code[i + 2]
      <4>1. i \in Nat /\ (i + 1) + 1 = i + 2
        BY <1>5
      <4>2. i + 2 \in DOMAIN fr.code => i + 1 \in DOMAIN tl.code
        BY <1>5, <4>1
      <4>3. i + 1 \in DOMAIN tl.code => tl.code[i + 1] = fr.code[(i + 1) + 1]
        BY <1>5
      <4>4. i + 3 \in DOMAIN fr.code => i + 2 \in DOMAIN tl.code
        BY <1>5, <4>1
      <4>5. QED
        BY <4>1, <4>2, <4>3, <4>4
    <3>3. (i + 1) + 1 = i + 2 /\ (i + 1) + 2 = i + 3
      BY <1>5
    <3>4. i + 3 \in DOMAIN fr.code => i + 2 \in DOMAIN fr.code
      BY <1>5
    <3>5. QED
      BY <1>7, <2>1, <2>2, <3>1, <3>2, <3>3, <3>4 DEF LoopsOk
  <2>5. RestOk(tl, i)
    <3>1. /\ OfFunction(fr) => OfFunction(tl)
          /\ OfRuntime(fr) => OfRuntime(tl)
          /\ \A lib : ScopOpen(lib, tl.mod, tl.fn) = ScopOpen(lib, fr.mod, fr.fn)
      BY <1>4 DEF OfFunction, OfRuntime
    <3>2. i + 1 = Len(fr.code) => i = Len(tl.code)
      BY <1>5
    <3>3. QED
      BY <1>7, <2>1, <2>2, <3>1, <3>2 DEF RestOk
  <2>6. QED
    BY <2>1, <2>2, <2>3, <2>4, <2>5
<1>10. /\ ops = FunctionOps => SubFunction(tl, tl.fn)
       /\ ops \in {RequestOps, GeneratorOps} => OfRuntime(tl)
  BY <1>4 DEF FrameOk, SubFunction, OfRuntime
<1>11. ops = RequestOps => \A i \in DOMAIN tl.code : tl.code[i].id # PJIT_REGION_CODEGEN
  <2>1. \A i \in DOMAIN tl.code : i + 1 \in DOMAIN fr.code /\ tl.code[i] = fr.code[i + 1]
    BY <1>5
  <2>2. QED
    BY <2>1 DEF FrameOk
<1>12. QED
  BY <1>2, <1>4, <1>5, <1>6, <1>8, <1>9, <1>10, <1>11, Zenon DEF FrameOk

(* An instruction that tells the library nothing leaves open what is.      *)
LEMMA QuietHead ==
  ASSUME NEW fr, IsFrame(fr), NEW lib, NEW i \in Nat, i + 1 \in DOMAIN fr.code,
         ~Goes(lib, fr.code[i + 1].op), NEW x
  PROVE  After(lib, fr, i, x) <=> After(lib, fr, i + 1, x)
<1>1. \A j \in DOMAIN fr.code : j \in Nat
  BY DEF IsFrame
<1>2. \A j \in DOMAIN fr.code : i + 1 < j => i < j
  BY <1>1
<1>3. \A j \in DOMAIN fr.code : i < j /\ j # i + 1 => i + 1 < j
  BY <1>1
<1>4. \A j \in DOMAIN fr.code : Quiet(lib, fr.code, i, j) <=> Quiet(lib, fr.code, i + 1, j)
  BY <1>2, <1>3 DEF Quiet
<1>5. ~Opening(lib, fr.code[i + 1]) /\ ~Closing(lib, fr.code[i + 1])
  BY DEF Opening, Closing
<1>6. (\A k \in DOMAIN fr.code : i < k => ~Goes(lib, fr.code[k].op))
        <=> (\A k \in DOMAIN fr.code : i + 1 < k => ~Goes(lib, fr.code[k].op))
  BY <1>2, <1>3
<1>7. (\A j \in DOMAIN fr.code : i < j /\ Quiet(lib, fr.code, i, j) =>
         /\ Opening(lib, fr.code[j]) => x = <<>>
         /\ Closing(lib, fr.code[j]) => x = <<Name(lib, fr.code[j])>>)
      <=> (\A j \in DOMAIN fr.code : i + 1 < j /\ Quiet(lib, fr.code, i + 1, j) =>
             /\ Opening(lib, fr.code[j]) => x = <<>>
             /\ Closing(lib, fr.code[j]) => x = <<Name(lib, fr.code[j])>>)
  BY <1>2, <1>3, <1>4, <1>5
<1>8. QED
  BY <1>6, <1>7 DEF After

(* What is open is known from what is to come.                             *)
LEMMA AfterUnique ==
  ASSUME NEW fr, IsFrame(fr), NEW lib, NEW i \in Nat, NEW x, NEW y,
         After(lib, fr, i, x), After(lib, fr, i, y)
  PROVE  x = y
<1>1. CASE \A k \in DOMAIN fr.code : i < k => ~Goes(lib, fr.code[k].op)
  BY <1>1 DEF After
<1>2. CASE \E k \in DOMAIN fr.code : i < k /\ Goes(lib, fr.code[k].op)
  <2> DEFINE S == {k \in DOMAIN fr.code : i < k /\ Goes(lib, fr.code[k].op)}
  <2>1. S # {} /\ S \subseteq Nat
    BY <1>2 DEF IsFrame
  <2>2. PICK j \in S : \A k \in S : j <= k
    <3> HIDE DEF S
    <3>1. QED
      BY <2>1, MinOfNats
  <2>3. Quiet(lib, fr.code, i, j)
    <3>1. SUFFICES ASSUME NEW k \in DOMAIN fr.code, i < k, k < j, Goes(lib, fr.code[k].op) PROVE FALSE
      BY Zenon DEF Quiet
    <3>2. k \in S /\ j \in Nat /\ k \in Nat
      BY <2>1, <3>1
    <3>3. QED
      BY <2>2, <3>1, <3>2
  <2>4. Opening(lib, fr.code[j]) \/ Closing(lib, fr.code[j])
    BY DEF Opening, Closing
  <2>5. j \in DOMAIN fr.code /\ i < j
    OBVIOUS
  <2>6. /\ Opening(lib, fr.code[j]) => x = <<>> /\ y = <<>>
        /\ Closing(lib, fr.code[j]) => x = <<Name(lib, fr.code[j])>> /\ y = <<Name(lib, fr.code[j])>>
    BY <2>3, <2>5 DEF After
  <2>7. QED
    BY <2>4, <2>6
<1>3. QED
  BY <1>1, <1>2

(* What is open when the instruction has told the library.                 *)
LEMMA MarkingHead ==
  ASSUME NEW fr, NEW ops, FrameOk(fr, ops), fr.code # <<>>, NEW lib \in Libs, NEW x,
         After(lib, fr, 0, x)
  PROVE  /\ Opening(lib, Head(fr.code)) =>
              x = <<>> /\ After(lib, Stepped(fr), 0, <<Name(lib, Head(fr.code))>>)
         /\ Closing(lib, Head(fr.code)) =>
              x = <<Name(lib, Head(fr.code))>> /\ After(lib, Stepped(fr), 0, <<>>)
         /\ ~Goes(lib, Head(fr.code).op) => After(lib, Stepped(fr), 0, x)
<1>1. IsFrame(fr)
  BY DEF FrameOk, IsFrame
<1>2. /\ Head(fr.code) = fr.code[1] /\ 0 + 1 \in DOMAIN fr.code /\ 1 \in DOMAIN fr.code
      /\ DOMAIN fr.code \subseteq Nat
  BY <1>1, SteppedIs
<1>3. Quiet(lib, fr.code, 0, 1)
  BY <1>2 DEF Quiet
<1>4. /\ Opening(lib, fr.code[1]) => x = <<>> /\ After(lib, fr, 1, <<Name(lib, fr.code[1])>>)
      /\ Closing(lib, fr.code[1]) => x = <<Name(lib, fr.code[1])>> /\ After(lib, fr, 1, <<>>)
  BY <1>2, <1>3 DEF After, FrameOk, Bracketed
<1>5. ~Goes(lib, fr.code[1].op) => After(lib, fr, 1, x)
  <2>1. SUFFICES ASSUME ~Goes(lib, fr.code[1].op) PROVE After(lib, fr, 1, x)
    OBVIOUS
  <2>2. 0 \in Nat /\ 0 + 1 = 1
    OBVIOUS
  <2>3. After(lib, fr, 0, x) <=> After(lib, fr, 0 + 1, x)
    BY <1>1, <1>2, <2>1, <2>2, QuietHead
  <2>4. QED
    BY <2>2, <2>3
<1>6. ASSUME NEW y, After(lib, fr, 1, y) PROVE After(lib, Stepped(fr), 0, y)
  <2>1. 0 \in Nat /\ 0 + 1 = 1
    OBVIOUS
  <2>2. After(lib, fr, 0 + 1, y)
    BY <1>6, <2>1
  <2>3. QED
    BY <1>1, <2>1, <2>2, AfterTail
<1>7. QED
  BY <1>2, <1>4, <1>5, <1>6
-----------------------------------------------------------------------------
(* The code of variants.                                                   *)
TraceStart(m, f, b) ==
  IF env.papi /\ Measured(m, f) /\ b = 1
  THEN <<Instr("polliTracingScopStart", f, ScopId(m, f))>> ELSE <<>>
TraceStop(m, f, b) ==
  IF env.papi /\ Measured(m, f) /\ Returns(Modules[m][f][b])
  THEN <<Instr("polliTracingScopStop", f, ScopId(m, f))>> ELSE <<>>
LikwidStart(m, f, b) ==
  IF env.likwid /\ Measured(m, f) /\ b = 1
  THEN IF f \in SubFunctions(Modules[m])
       THEN <<Plain("likwid_markerThreadInit", None), Plain("likwid_markerStartRegion", f)>>
       ELSE <<Plain("likwid_markerStartRegion", f)>>
  ELSE <<>>
LikwidStop(m, f, b) ==
  IF env.likwid /\ Measured(m, f) /\ Returns(Modules[m][f][b])
  THEN <<Plain("likwid_markerStopRegion", f)>> ELSE <<>>
Traced(m) == IF env.papi THEN TraceMarked(m) ELSE Modules[m]
IsBlock(m, f, b) == m \in DOMAIN Modules /\ f \in DOMAIN Modules[m] /\ b \in DOMAIN Modules[m][f]

(* Instructions as Polly leaves them.                                      *)
Sources == [op : {"work", "next", "fork", "call", "join"},
            arg : Functions \cup {None, "workers"}, id : {0}]

(* The elements of two sequences in a row.                                 *)
LEMMA TwoParts ==
  ASSUME NEW S, NEW p, p \in Seq(S), NEW q, q \in Seq(S)
  PROVE  /\ p \o q \in Seq(S) /\ Len(p) \in Nat /\ Len(q) \in Nat
         /\ Len(p \o q) = Len(p) + Len(q)
         /\ \A i \in 1..Len(p) : (p \o q)[i] = p[i]
         /\ \A i \in 1..Len(q) : (p \o q)[Len(p) + i] = q[i]
<1>1. PICK u : u = p \o q
  OBVIOUS
<1>2. u \in Seq(S) /\ Len(p) \in Nat /\ Len(q) \in Nat /\ Len(u) = Len(p) + Len(q)
  BY <1>1
<1>3. \A i \in 1..Len(p) : u[i] = p[i]
  BY <1>1, <1>2
<1>4. \A i \in 1..Len(q) : u[Len(p) + i] = q[i]
  BY <1>1, <1>2
<1>5. QED
  BY <1>1, <1>2, <1>3, <1>4

(* And of three.                                                           *)
LEMMA ThreeParts ==
  ASSUME NEW S, NEW p, p \in Seq(S), NEW q, q \in Seq(S), NEW r, r \in Seq(S)
  PROVE  /\ (p \o q) \o r \in Seq(S)
         /\ Len((p \o q) \o r) = Len(p) + Len(q) + Len(r)
         /\ \A i \in 1..Len(p) : ((p \o q) \o r)[i] = p[i]
         /\ \A i \in 1..Len(q) : ((p \o q) \o r)[Len(p) + i] = q[i]
         /\ \A i \in 1..Len(r) : ((p \o q) \o r)[Len(p) + Len(q) + i] = r[i]
<1>1. PICK u : u = p \o q
  OBVIOUS
<1>2. /\ u \in Seq(S) /\ Len(p) \in Nat /\ Len(q) \in Nat /\ Len(u) = Len(p) + Len(q)
      /\ \A i \in 1..Len(p) : u[i] = p[i]
      /\ \A i \in 1..Len(q) : u[Len(p) + i] = q[i]
  BY <1>1, TwoParts
<1>3. /\ u \o r \in Seq(S) /\ Len(r) \in Nat /\ Len(u \o r) = Len(u) + Len(r)
      /\ \A i \in 1..Len(u) : (u \o r)[i] = u[i]
      /\ \A i \in 1..Len(r) : (u \o r)[Len(u) + i] = r[i]
  <2>1. u \in Seq(S)
    BY <1>2
  <2>2. QED
    BY <2>1, TwoParts
<1>4. \A i \in 1..Len(p) : (u \o r)[i] = p[i]
  BY <1>2, <1>3
<1>5. \A i \in 1..Len(q) : (u \o r)[Len(p) + i] = q[i]
  <2> TAKE i \in 1..Len(q)
  <2>1. PICK k : k = Len(p) + i
    OBVIOUS
  <2>2. k \in 1..Len(u)
    BY <1>2, <2>1
  <2>3. QED
    BY <1>2, <1>3, <2>1, <2>2
<1>6. QED
  BY <1>1, <1>2, <1>3, <1>4, <1>5

(* Nothing in front of a sequence, and nothing behind it.                  *)
LEMMA NothingAround ==
  ASSUME NEW S, NEW q, q \in Seq(S)
  PROVE  (<<>> \o q) \o <<>> = q
<1>1. <<>> \o q = q
  OBVIOUS
<1>2. q \o <<>> = q
  OBVIOUS
<1>3. QED
  BY <1>1, <1>2

(* What Polly leaves of a function.                                        *)
LEMMA SourceIs ==
  ASSUME NEW m, NEW f, NEW b, IsBlock(m, f, b)
  PROVE  /\ Modules[m][f][b].code \in Seq(Sources)
         /\ Modules[m][f][b].next \subseteq 2..Len(Modules[m][f])
         /\ f \in Functions
         /\ \A i \in DOMAIN Modules[m][f][b].code :
              LET code == Modules[m][f][b].code IN
              /\ f \in SubFunctions(Modules[m]) => code[i].op \in {"work", "next"}
              /\ code[i].op = "fork" => IsParallelLoop(Modules[m], code, i)
              /\ code[i].op = "call" => IsParallelLoop(Modules[m], code, i - 1)
              /\ code[i].op = "join" => IsParallelLoop(Modules[m], code, i - 2)
<1>1. m \in DOMAIN Modules /\ f \in DOMAIN Modules[m] /\ IsFunction(Modules[m], f)
  BY Assumptions DEF IsBlock
<1>2. f \in Functions /\ DOMAIN Modules[m] \subseteq Functions
  BY <1>1 DEF Functions
<1>3. Modules[m][f][b] \in
        [code : Seq([op : {"work", "next", "fork", "call", "join"},
                     arg : DOMAIN Modules[m] \cup {None, "workers"}, id : {0}]),
         next : SUBSET (2..Len(Modules[m][f]))]
  <2>1. Modules[m][f] \in Seq([code : Seq([op : {"work", "next", "fork", "call", "join"},
                                           arg : DOMAIN Modules[m] \cup {None, "workers"}, id : {0}]),
                               next : SUBSET (2..Len(Modules[m][f]))])
    BY <1>1 DEF IsFunction
  <2>2. b \in 1..Len(Modules[m][f])
    BY <2>1 DEF IsBlock
  <2>3. QED
    BY <2>1, <2>2, ElementOfSeq
<1>4. Modules[m][f][b].code \in Seq(Sources)
  <2>1. [op : {"work", "next", "fork", "call", "join"},
         arg : DOMAIN Modules[m] \cup {None, "workers"}, id : {0}] \subseteq Sources
    BY <1>2 DEF Sources
  <2>2. PICK A : A = [op : {"work", "next", "fork", "call", "join"},
                      arg : DOMAIN Modules[m] \cup {None, "workers"}, id : {0}]
    OBVIOUS
  <2>3. A \subseteq Sources /\ Modules[m][f][b].code \in Seq(A)
    BY <1>3, <2>1, <2>2
  <2>4. QED
    BY <2>3
<1>5. QED
  BY <1>1, <1>2, <1>3, <1>4 DEF IsFunction, IsBlock
(* A pass that marks a function puts calls around a block's code.          *)
Around(f, b, start, stop) ==
  ((IF b = 1 THEN start ELSE <<>>) \o f[b].code) \o (IF Returns(f[b]) THEN stop ELSE <<>>)

(* The block is the one with the calls around it, with the same successors.*)
LEMMA MarkedIs ==
  ASSUME NEW f, NEW b \in DOMAIN f, NEW start, NEW stop
  PROVE  /\ DOMAIN Marked(f, start, stop) = DOMAIN f
         /\ Marked(f, start, stop)[b].next = f[b].next
         /\ Marked(f, start, stop)[b].code = Around(f, b, start, stop)
<1>1. PICK c : c = Around(f, b, start, stop)
  OBVIOUS
<1>2. Marked(f, start, stop)[b] = Block(c, f[b].next)
  BY <1>1, Zenon DEF Marked, Around
<1>3. Marked(f, start, stop)[b].code = c /\ Marked(f, start, stop)[b].next = f[b].next
  BY <1>2 DEF Block
<1>4. DOMAIN Marked(f, start, stop) = DOMAIN f
  BY DEF Marked
<1>5. QED
  BY <1>1, <1>3, <1>4, Zenon

(* The first pass.                                                         *)
LEMMA TracedIs ==
  ASSUME NEW m, NEW f, NEW b, IsBlock(m, f, b)
  PROVE  /\ DOMAIN Traced(m) = DOMAIN Modules[m] /\ DOMAIN Traced(m)[f] = DOMAIN Modules[m][f]
         /\ Traced(m)[f][b].next = Modules[m][f][b].next
         /\ Traced(m)[f][b].code =
              (TraceStart(m, f, b) \o Modules[m][f][b].code) \o TraceStop(m, f, b)
<1> DEFINE M == Modules[m]
<1>1. m \in DOMAIN Modules /\ f \in DOMAIN M /\ b \in DOMAIN M[f] /\ M[f][b].code \in Seq(Sources)
  BY SourceIs DEF IsBlock
<1>2. CASE env.papi /\ Measured(m, f)
  <2>1. SubFunctions(M) = {} \/ f \in SubFunctions(M)
    BY <1>2 DEF Measured
  <2>2. PICK start, stop : /\ start = <<Instr("polliTracingScopStart", f, ScopId(m, f))>>
                           /\ stop = <<Instr("polliTracingScopStop", f, ScopId(m, f))>>
    OBVIOUS
  <2>3. TraceMarked(m)[f] = Marked(M[f], start, stop) /\ DOMAIN TraceMarked(m) = DOMAIN M
    BY <1>1, <2>1, <2>2 DEF TraceMarked
  <2>4. Traced(m) = TraceMarked(m)
    BY <1>2 DEF Traced
  <2>5. /\ TraceStart(m, f, b) = IF b = 1 THEN start ELSE <<>>
        /\ TraceStop(m, f, b) = IF Returns(M[f][b]) THEN stop ELSE <<>>
    BY <1>2, <2>2 DEF TraceStart, TraceStop
  <2>6. /\ DOMAIN Marked(M[f], start, stop) = DOMAIN M[f]
        /\ Marked(M[f], start, stop)[b].next = M[f][b].next
        /\ Marked(M[f], start, stop)[b].code =
             ((IF b = 1 THEN start ELSE <<>>) \o M[f][b].code) \o (IF Returns(M[f][b]) THEN stop ELSE <<>>)
    <3>1. PICK g : g = M[f]
      OBVIOUS
    <3>2. b \in DOMAIN g
      BY <1>1, <3>1
    <3>3. /\ DOMAIN Marked(g, start, stop) = DOMAIN g
          /\ Marked(g, start, stop)[b].next = g[b].next
          /\ Marked(g, start, stop)[b].code = Around(g, b, start, stop)
      BY <3>2, MarkedIs
    <3>4. QED
      BY <3>1, <3>3, Zenon DEF Around
  <2>7. QED
    BY <2>3, <2>4, <2>5, <2>6
<1>3. CASE ~(env.papi /\ Measured(m, f))
  <2>1. TraceStart(m, f, b) = <<>> /\ TraceStop(m, f, b) = <<>>
    BY <1>3 DEF TraceStart, TraceStop
  <2>2. Traced(m)[f] = M[f] /\ DOMAIN Traced(m) = DOMAIN M
    <3>1. CASE ~env.papi
      BY <3>1 DEF Traced
    <3>2. CASE env.papi
      <4>1. ~(SubFunctions(M) = {} \/ f \in SubFunctions(M))
        <5>1. f \in SubFunctions(M) => SubFunctions(M) = {f} \cup SubFunctions(M)
          OBVIOUS
        <5>2. QED
          BY <1>3, <3>2, <5>1 DEF Measured
      <4>2. TraceMarked(m)[f] = M[f] /\ DOMAIN TraceMarked(m) = DOMAIN M
        BY <1>1, <4>1 DEF TraceMarked
      <4>3. QED
        BY <3>2, <4>2 DEF Traced
    <3>3. QED
      BY <3>1, <3>2
  <2>3. (<<>> \o M[f][b].code) \o <<>> = M[f][b].code
    <3> HIDE DEF M
    <3>1. QED
      BY <1>1, NothingAround
  <2>4. QED
    BY <2>1, <2>2, <2>3
<1>4. QED
  BY <1>2, <1>3

(* The marks of the first pass, as sequences.                              *)
LEMMA TraceMarks ==
  ASSUME NEW m, NEW f, NEW b, IsBlock(m, f, b)
  PROVE  /\ TraceStart(m, f, b) \in Seq(Instrs) /\ TraceStop(m, f, b) \in Seq(Instrs)
         /\ \A i \in 1..Len(TraceStart(m, f, b)) :
              TraceStart(m, f, b)[i] = Instr("polliTracingScopStart", f, ScopId(m, f))
         /\ \A i \in 1..Len(TraceStop(m, f, b)) :
              TraceStop(m, f, b)[i] = Instr("polliTracingScopStop", f, ScopId(m, f))
         /\ ScopId(m, f) \in Nat /\ Modules[m][f][b].code \in Seq(Instrs)
<1>1. m \in DOMAIN Modules /\ f \in DOMAIN Modules[m] /\ f \in Functions
  BY SourceIs DEF IsBlock
<1>2. ScopId(m, f) \in Nat
  BY <1>1, Assumptions DEF ScopId
<1>3. /\ Instr("polliTracingScopStart", f, ScopId(m, f)) \in Instrs
      /\ Instr("polliTracingScopStop", f, ScopId(m, f)) \in Instrs
  BY <1>1, <1>2 DEF Instr, Instrs, Args, Ops, GeneratorOps, RequestOps, CallerOps, FunctionOps, ScopCalls
<1>4. Sources \subseteq Instrs
  BY DEF Sources, Instrs, Args, Ops, CallerOps, FunctionOps
<1>5. Modules[m][f][b].code \in Seq(Instrs)
  <2>1. PICK c : c = Modules[m][f][b].code
    OBVIOUS
  <2>2. c \in Seq(Sources)
    BY <2>1, SourceIs
  <2>3. c \in Seq(Instrs)
    BY <1>4, <2>2
  <2>4. QED
    BY <2>1, <2>3
<1>6. ASSUME NEW i, i \in Instrs
      PROVE  /\ <<i>> \in Seq(Instrs) /\ <<>> \in Seq(Instrs)
             /\ \A k \in 1..Len(<<i>>) : <<i>>[k] = i
             /\ \A k \in 1..Len(<<>>) : <<>>[k] = i
  BY <1>6
<1>7. QED
  BY <1>2, <1>3, <1>5, <1>6 DEF TraceStart, TraceStop

(* The first pass adds and removes no parallel loop.                       *)
LEMMA TracedLoops ==
  ASSUME NEW m \in DOMAIN Modules
  PROVE  SubFunctions(Traced(m)) = SubFunctions(Modules[m])
<1>1. ASSUME NEW f \in DOMAIN Modules[m], NEW b, b \in DOMAIN Modules[m][f]
      PROVE  (\E i \in DOMAIN Traced(m)[f][b].code : Traced(m)[f][b].code[i].op = "next")
               <=> (\E i \in DOMAIN Modules[m][f][b].code : Modules[m][f][b].code[i].op = "next")
  <2>1. IsBlock(m, f, b)
    BY <1>1 DEF IsBlock
  <2>2. PICK p, q, r : /\ p = TraceStart(m, f, b) /\ q = Modules[m][f][b].code
                       /\ r = TraceStop(m, f, b)
    OBVIOUS
  <2>3. PICK c : c = (p \o q) \o r
    OBVIOUS
  <2>4. Traced(m)[f][b].code = c
    BY <2>1, <2>2, <2>3, TracedIs
  <2>5. p \in Seq(Instrs) /\ q \in Seq(Instrs) /\ r \in Seq(Instrs)
    BY <2>1, <2>2, TraceMarks
  <2>6. /\ c \in Seq(Instrs) /\ Len(c) = Len(p) + Len(q) + Len(r)
        /\ \A i \in 1..Len(p) : c[i] = p[i]
        /\ \A i \in 1..Len(q) : c[Len(p) + i] = q[i]
        /\ \A i \in 1..Len(r) : c[Len(p) + Len(q) + i] = r[i]
    BY <2>3, <2>5, ThreeParts
  <2>7. /\ \A i \in 1..Len(p) : p[i].op # "next"
        /\ \A i \in 1..Len(r) : r[i].op # "next"
    <3>1. /\ \A i \in 1..Len(p) : p[i] = Instr("polliTracingScopStart", f, ScopId(m, f))
          /\ \A i \in 1..Len(r) : r[i] = Instr("polliTracingScopStop", f, ScopId(m, f))
      BY <2>1, <2>2, TraceMarks
    <3>2. QED
      BY <3>1 DEF Instr
  <2>8. Len(p) \in Nat /\ Len(q) \in Nat /\ Len(r) \in Nat /\ DOMAIN c = 1..Len(c)
        /\ DOMAIN q = 1..Len(q)
    BY <2>5, <2>6
  <2>9. ASSUME NEW i \in DOMAIN c, c[i].op = "next" PROVE \E k \in DOMAIN q : q[k].op = "next"
    <3>1. CASE i <= Len(p)
      BY <2>6, <2>7, <2>8, <2>9, <3>1
    <3>2. CASE i > Len(p) + Len(q)
      <4>1. PICK k : k = i - (Len(p) + Len(q))
        OBVIOUS
      <4>2. k \in 1..Len(r) /\ i = Len(p) + Len(q) + k
        BY <2>6, <2>8, <3>2, <4>1
      <4>3. QED
        BY <2>6, <2>7, <2>9, <4>2
    <3>3. CASE i > Len(p) /\ i <= Len(p) + Len(q)
      <4>1. PICK k : k = i - Len(p)
        OBVIOUS
      <4>2. k \in 1..Len(q) /\ i = Len(p) + k
        BY <2>8, <3>3, <4>1
      <4>3. QED
        BY <2>6, <2>8, <2>9, <4>2
    <3>4. QED
      BY <2>8, <3>1, <3>2, <3>3
  <2>10. ASSUME NEW k \in DOMAIN q, q[k].op = "next" PROVE \E i \in DOMAIN c : c[i].op = "next"
    <3>1. Len(p) + k \in DOMAIN c /\ c[Len(p) + k] = q[k]
      BY <2>6, <2>8
    <3>2. QED
      BY <2>10, <3>1
  <2>11. QED
    BY <2>2, <2>4, <2>9, <2>10
<1>2. ASSUME NEW f \in DOMAIN Modules[m] PROVE CallsNext(Traced(m)[f]) <=> CallsNext(Modules[m][f])
  <2>1. DOMAIN Traced(m)[f] = DOMAIN Modules[m][f]
    <3>1. IsFunction(Modules[m], f)
      BY Assumptions
    <3>2. 1 \in DOMAIN Modules[m][f]
      BY <3>1 DEF IsFunction
    <3>3. IsBlock(m, f, 1)
      BY <3>2 DEF IsBlock
    <3>4. QED
      BY <3>3, TracedIs
  <2>2. QED
    BY <1>1, <2>1 DEF CallsNext
<1>3. DOMAIN Traced(m) = DOMAIN Modules[m]
  BY DEF Traced, TraceMarked
<1>4. QED
  BY <1>2, <1>3 DEF SubFunctions
(* The second pass.                                                        *)
LEMMA OptimizedIs ==
  ASSUME NEW m, NEW f, NEW b, IsBlock(m, f, b)
  PROVE  /\ DOMAIN OptimizeForRuntime(m) = DOMAIN Modules[m]
         /\ DOMAIN OptimizeForRuntime(m)[f] = DOMAIN Modules[m][f]
         /\ OptimizeForRuntime(m)[f][b].next = Modules[m][f][b].next
         /\ OptimizeForRuntime(m)[f][b].code =
              (LikwidStart(m, f, b) \o Traced(m)[f][b].code) \o LikwidStop(m, f, b)
<1>1. PICK M : M = Traced(m)
  OBVIOUS
<1>2. OptimizeForRuntime(m) = IF env.likwid THEN LikwidMarked(M) ELSE M
  BY <1>1 DEF OptimizeForRuntime, Traced
<1>3. m \in DOMAIN Modules /\ f \in DOMAIN Modules[m] /\ b \in DOMAIN Modules[m][f]
  BY DEF IsBlock
<1>4. /\ DOMAIN M = DOMAIN Modules[m] /\ DOMAIN M[f] = DOMAIN Modules[m][f]
      /\ M[f][b].next = Modules[m][f][b].next
      /\ M[f][b].code = (TraceStart(m, f, b) \o Modules[m][f][b].code) \o TraceStop(m, f, b)
  BY <1>1, TracedIs
<1>5. SubFunctions(M) = SubFunctions(Modules[m])
  BY <1>1, <1>3, TracedLoops
<1>6. M[f][b].code \in Seq(Instrs)
  <2>1. PICK p, q, r : p = TraceStart(m, f, b) /\ q = Modules[m][f][b].code /\ r = TraceStop(m, f, b)
    OBVIOUS
  <2>2. p \in Seq(Instrs) /\ q \in Seq(Instrs) /\ r \in Seq(Instrs)
    BY <2>1, TraceMarks
  <2>3. (p \o q) \o r \in Seq(Instrs)
    BY <2>2, ThreeParts
  <2>4. QED
    BY <1>4, <2>1, <2>3
<1>7. Returns(M[f][b]) <=> Returns(Modules[m][f][b])
  BY <1>4 DEF Returns
<1>8. CASE env.likwid /\ Measured(m, f)
  <2>1. PICK start, stop :
          /\ start = IF f \in SubFunctions(M)
                     THEN <<Plain("likwid_markerThreadInit", None), Plain("likwid_markerStartRegion", f)>>
                     ELSE <<Plain("likwid_markerStartRegion", f)>>
          /\ stop = <<Plain("likwid_markerStopRegion", f)>>
    OBVIOUS
  <2>2. LikwidMarked(M)[f] = Marked(M[f], start, stop) /\ DOMAIN LikwidMarked(M) = DOMAIN M
    <3>1. SubFunctions(M) = {} \/ f \in SubFunctions(M)
      BY <1>5, <1>8 DEF Measured
    <3>2. <<Plain("likwid_markerThreadInit", None)>> \o <<Plain("likwid_markerStartRegion", f)>>
            = <<Plain("likwid_markerThreadInit", None), Plain("likwid_markerStartRegion", f)>>
      <4>1. ASSUME NEW x, NEW y PROVE <<x>> \o <<y>> = <<x, y>>
        <5>1. PICK S : S = {x, y}
          OBVIOUS
        <5>2. /\ <<x>> \in Seq(S) /\ <<y>> \in Seq(S) /\ <<x, y>> \in Seq(S)
              /\ Len(<<x, y>>) = 2 /\ Len(<<x>>) = 1 /\ Len(<<y>>) = 1
              /\ <<x, y>>[1] = <<x>>[1] /\ <<x, y>>[2] = <<y>>[1]
          BY <5>1
        <5>3. PICK p, q, u : p = <<x>> /\ q = <<y>> /\ u = <<x, y>>
          OBVIOUS
        <5>4. /\ p \in Seq(S) /\ q \in Seq(S) /\ u \in Seq(S) /\ Len(u) = Len(p) + Len(q)
              /\ \A i \in 1..Len(p) : u[i] = p[i]
              /\ \A i \in 1..Len(q) : u[Len(p) + i] = q[i]
          <6>1. /\ p \in Seq(S) /\ q \in Seq(S) /\ u \in Seq(S)
                /\ Len(u) = 2 /\ Len(p) = 1 /\ Len(q) = 1 /\ u[1] = p[1] /\ u[2] = q[1]
            BY <5>2, <5>3
          <6>2. \A i \in 1..1 : i = 1
            OBVIOUS
          <6>3. QED
            BY <6>1, <6>2
        <5>5. p \o q = u
          BY <5>4, ConcatIs
        <5>6. QED
          BY <5>3, <5>5
      <4>2. QED
        BY <4>1
    <3>3. CASE SubFunctions(M) = {}
      BY <1>3, <1>4, <2>1, <3>3 DEF LikwidMarked
    <3>4. CASE SubFunctions(M) # {} /\ f \in SubFunctions(M)
      BY <1>3, <1>4, <2>1, <3>2, <3>4 DEF LikwidMarked
    <3>5. QED
      BY <3>1, <3>3, <3>4
  <2>3. PICK g : g = M[f]
    OBVIOUS
  <2>4. b \in DOMAIN g
    BY <1>3, <1>4, <2>3
  <2>5. /\ DOMAIN Marked(g, start, stop) = DOMAIN g /\ Marked(g, start, stop)[b].next = g[b].next
        /\ Marked(g, start, stop)[b].code = Around(g, b, start, stop)
    BY <2>4, MarkedIs
  <2>6. /\ LikwidStart(m, f, b) = IF b = 1 THEN start ELSE <<>>
        /\ LikwidStop(m, f, b) = IF Returns(g[b]) THEN stop ELSE <<>>
    BY <1>5, <1>7, <1>8, <2>1, <2>3 DEF LikwidStart, LikwidStop
  <2>7. Around(g, b, start, stop) = (LikwidStart(m, f, b) \o g[b].code) \o LikwidStop(m, f, b)
    BY <2>6, Zenon DEF Around
  <2>8. QED
    BY <1>1, <1>2, <1>4, <1>8, <2>2, <2>3, <2>5, <2>7
<1>9. CASE ~(env.likwid /\ Measured(m, f))
  <2>1. LikwidStart(m, f, b) = <<>> /\ LikwidStop(m, f, b) = <<>>
    BY <1>9 DEF LikwidStart, LikwidStop
  <2>2. OptimizeForRuntime(m)[f] = M[f] /\ DOMAIN OptimizeForRuntime(m) = DOMAIN M
    <3>1. CASE ~env.likwid
      BY <1>2, <3>1
    <3>2. CASE env.likwid
      <4>1. SubFunctions(M) # {} /\ f \notin SubFunctions(M)
        <5>1. f \in SubFunctions(M) => SubFunctions(M) = {f} \cup SubFunctions(M)
          OBVIOUS
        <5>2. QED
          BY <1>5, <1>9, <3>2, <5>1 DEF Measured
      <4>2. LikwidMarked(M)[f] = M[f] /\ DOMAIN LikwidMarked(M) = DOMAIN M
        BY <1>3, <1>4, <4>1 DEF LikwidMarked
      <4>3. QED
        BY <1>2, <3>2, <4>2
    <3>3. QED
      BY <3>1, <3>2
  <2>3. (<<>> \o M[f][b].code) \o <<>> = M[f][b].code
    BY <1>6, NothingAround
  <2>4. QED
    BY <1>1, <1>4, <2>1, <2>2, <2>3
<1>10. QED
  BY <1>8, <1>9

(* The marks of the second pass, as sequences.                             *)
LEMMA LikwidMarks ==
  ASSUME NEW m, NEW f, NEW b, IsBlock(m, f, b)
  PROVE  /\ LikwidStart(m, f, b) \in Seq(Instrs) /\ LikwidStop(m, f, b) \in Seq(Instrs)
         /\ \A i \in 1..Len(LikwidStart(m, f, b)) :
              LikwidStart(m, f, b)[i] = IF i = Len(LikwidStart(m, f, b))
                                        THEN Plain("likwid_markerStartRegion", f)
                                        ELSE Plain("likwid_markerThreadInit", None)
         /\ \A i \in 1..Len(LikwidStop(m, f, b)) :
              i = 1 /\ LikwidStop(m, f, b)[i] = Plain("likwid_markerStopRegion", f)
         /\ Len(LikwidStart(m, f, b)) \in Nat /\ Len(LikwidStop(m, f, b)) \in {0, 1}
<1>1. f \in Functions
  BY SourceIs
<1>2. PICK x, y, z : /\ x = Plain("likwid_markerThreadInit", None)
                     /\ y = Plain("likwid_markerStartRegion", f)
                     /\ z = Plain("likwid_markerStopRegion", f)
  OBVIOUS
<1>3. x \in Instrs /\ y \in Instrs /\ z \in Instrs
  BY <1>1, <1>2 DEF Plain, Instr, Instrs, Args, Ops, CallerOps, FunctionOps, LikwidCalls
<1>4. /\ <<x, y>> \in Seq(Instrs) /\ Len(<<x, y>>) = 2 /\ <<x, y>>[1] = x /\ <<x, y>>[2] = y
      /\ <<y>> \in Seq(Instrs) /\ Len(<<y>>) = 1 /\ <<y>>[1] = y
      /\ <<z>> \in Seq(Instrs) /\ Len(<<z>>) = 1 /\ <<z>>[1] = z
      /\ <<>> \in Seq(Instrs) /\ Len(<<>>) = 0
  BY <1>3
<1>5. LikwidStart(m, f, b) \in {<<x, y>>, <<y>>, <<>>} /\ LikwidStop(m, f, b) \in {<<z>>, <<>>}
  BY <1>2 DEF LikwidStart, LikwidStop
<1>6. PICK p, q : p = LikwidStart(m, f, b) /\ q = LikwidStop(m, f, b)
  OBVIOUS
<1>7. /\ p \in Seq(Instrs) /\ Len(p) \in Nat
      /\ \A i \in 1..Len(p) : p[i] = IF i = Len(p) THEN y ELSE x
  <2>1. CASE p = <<x, y>>
    BY <1>4, <2>1
  <2>2. CASE p = <<y>>
    BY <1>4, <2>2
  <2>3. CASE p = <<>>
    BY <1>4, <2>3
  <2>4. QED
    BY <1>5, <1>6, <2>1, <2>2, <2>3
<1>8. q \in Seq(Instrs) /\ Len(q) \in {0, 1} /\ \A i \in 1..Len(q) : i = 1 /\ q[i] = z
  <2>1. CASE q = <<z>>
    BY <1>4, <2>1
  <2>2. CASE q = <<>>
    BY <1>4, <2>2
  <2>3. QED
    BY <1>5, <1>6, <2>1, <2>2
<1>9. QED
  BY <1>2, <1>6, <1>7, <1>8
(* The parts of a block that both passes have gone over, and where they    *)
(* end.                                                                    *)
ScopStart(m, f) == Instr("polliTracingScopStart", f, ScopId(m, f))
ScopStop(m, f) == Instr("polliTracingScopStop", f, ScopId(m, f))
Parts(m, f, b, c, n1, n2, n3, n4) ==
  /\ n1 \in Nat /\ n2 \in Nat /\ n3 \in Nat /\ n4 \in Nat /\ Len(c) \in Nat
  /\ n1 <= n2 /\ n2 <= n3 /\ n3 <= n4 /\ n4 <= Len(c)
  /\ n2 <= n1 + 1 /\ n4 <= n3 + 1 /\ Len(c) <= n4 + 1
  /\ n3 = n2 + Len(Modules[m][f][b].code)
  /\ \A i \in 1..n1 : c[i] = IF i = n1 THEN Plain("likwid_markerStartRegion", f)
                                       ELSE Plain("likwid_markerThreadInit", None)
  /\ \A i \in (n1 + 1)..n2 : c[i] = ScopStart(m, f)
  /\ \A i \in (n2 + 1)..n3 : c[i] = Modules[m][f][b].code[i - n2]
  /\ \A i \in (n3 + 1)..n4 : c[i] = ScopStop(m, f)
  /\ \A i \in (n4 + 1)..Len(c) : c[i] = Plain("likwid_markerStopRegion", f)
  /\ 0 < n1 <=> env.likwid /\ Measured(m, f) /\ b = 1
  /\ n1 < n2 <=> env.papi /\ Measured(m, f) /\ b = 1
  /\ n3 < n4 <=> env.papi /\ Measured(m, f) /\ Returns(Modules[m][f][b])
  /\ n4 < Len(c) <=> env.likwid /\ Measured(m, f) /\ Returns(Modules[m][f][b])
  /\ env.likwid /\ b = 1 /\ f \in SubFunctions(Modules[m]) => 1 < n1

(* Every block that is run has these parts.                                *)
LEMMA PartsOf ==
  ASSUME NEW m, NEW f, NEW b, IsBlock(m, f, b)
  PROVE  /\ OptimizeForRuntime(m)[f][b].code \in Seq(Instrs)
         /\ \E n1, n2, n3, n4 : Parts(m, f, b, OptimizeForRuntime(m)[f][b].code, n1, n2, n3, n4)
<1>1. PICK l, p, q, r, s :
        /\ l = LikwidStart(m, f, b) /\ p = TraceStart(m, f, b) /\ q = Modules[m][f][b].code
        /\ r = TraceStop(m, f, b) /\ s = LikwidStop(m, f, b)
  OBVIOUS
<1>2. /\ l \in Seq(Instrs) /\ p \in Seq(Instrs) /\ q \in Seq(Instrs)
      /\ r \in Seq(Instrs) /\ s \in Seq(Instrs)
  BY <1>1, LikwidMarks, TraceMarks
<1>3. PICK d : d = (p \o q) \o r
  OBVIOUS
<1>4. PICK c : c = (l \o d) \o s
  OBVIOUS
<1>5. c = OptimizeForRuntime(m)[f][b].code
  <2>1. d = Traced(m)[f][b].code
    BY <1>1, <1>3, TracedIs
  <2>2. QED
    BY <1>1, <1>4, <2>1, OptimizedIs
<1>6. PICK k1, k2, k3, k4, k5 : /\ k1 = Len(l) /\ k2 = Len(p) /\ k3 = Len(q)
                                /\ k4 = Len(r) /\ k5 = Len(s)
  OBVIOUS
<1>7. /\ d \in Seq(Instrs) /\ Len(d) = k2 + k3 + k4
      /\ \A i \in 1..k2 : d[i] = p[i]
      /\ \A i \in 1..k3 : d[k2 + i] = q[i]
      /\ \A i \in 1..k4 : d[k2 + k3 + i] = r[i]
  <2>1. /\ d \in Seq(Instrs) /\ Len(d) = Len(p) + Len(q) + Len(r)
        /\ \A i \in 1..Len(p) : d[i] = p[i]
        /\ \A i \in 1..Len(q) : d[Len(p) + i] = q[i]
        /\ \A i \in 1..Len(r) : d[Len(p) + Len(q) + i] = r[i]
    BY <1>2, <1>3, ThreeParts
  <2>2. QED
    BY <1>6, <2>1
<1>8. /\ c \in Seq(Instrs) /\ Len(c) = k1 + Len(d) + k5
      /\ \A i \in 1..k1 : c[i] = l[i]
      /\ \A i \in 1..Len(d) : c[k1 + i] = d[i]
      /\ \A i \in 1..k5 : c[k1 + Len(d) + i] = s[i]
  <2>1. d \in Seq(Instrs)
    BY <1>7
  <2>2. /\ c \in Seq(Instrs) /\ Len(c) = Len(l) + Len(d) + Len(s)
        /\ \A i \in 1..Len(l) : c[i] = l[i]
        /\ \A i \in 1..Len(d) : c[Len(l) + i] = d[i]
        /\ \A i \in 1..Len(s) : c[Len(l) + Len(d) + i] = s[i]
    <3>1. l \in Seq(Instrs) /\ s \in Seq(Instrs)
      BY <1>2
    <3>2. /\ (l \o d) \o s \in Seq(Instrs)
          /\ Len((l \o d) \o s) = Len(l) + Len(d) + Len(s)
          /\ \A i \in 1..Len(l) : ((l \o d) \o s)[i] = l[i]
          /\ \A i \in 1..Len(d) : ((l \o d) \o s)[Len(l) + i] = d[i]
          /\ \A i \in 1..Len(s) : ((l \o d) \o s)[Len(l) + Len(d) + i] = s[i]
      BY <2>1, <3>1, ThreeParts
    <3>3. QED
      BY <1>4, <3>2, Zenon
  <2>3. QED
    BY <1>6, <2>2
<1>9. k1 \in Nat /\ k2 \in {0, 1} /\ k3 \in Nat /\ k4 \in {0, 1} /\ k5 \in {0, 1}
  <2>1. k1 \in Nat /\ k3 \in Nat /\ k5 \in {0, 1}
    <3>1. Len(LikwidStart(m, f, b)) \in Nat /\ Len(LikwidStop(m, f, b)) \in {0, 1}
      BY LikwidMarks
    <3>2. Len(q) \in Nat
      BY <1>2
    <3>3. QED
      BY <1>1, <1>6, <3>1, <3>2
  <2>2. k2 \in {0, 1} /\ k4 \in {0, 1}
    BY <1>1, <1>6 DEF TraceStart, TraceStop
  <2>3. QED
    BY <2>1, <2>2
<1>10. /\ 0 < k1 <=> env.likwid /\ Measured(m, f) /\ b = 1
       /\ 0 < k2 <=> env.papi /\ Measured(m, f) /\ b = 1
       /\ 0 < k4 <=> env.papi /\ Measured(m, f) /\ Returns(Modules[m][f][b])
       /\ 0 < k5 <=> env.likwid /\ Measured(m, f) /\ Returns(Modules[m][f][b])
  <2>1. 0 < k1 <=> env.likwid /\ Measured(m, f) /\ b = 1
    BY <1>1, <1>6 DEF LikwidStart
  <2>2. 0 < k2 <=> env.papi /\ Measured(m, f) /\ b = 1
    BY <1>1, <1>6 DEF TraceStart
  <2>3. 0 < k4 <=> env.papi /\ Measured(m, f) /\ Returns(Modules[m][f][b])
    BY <1>1, <1>6 DEF TraceStop
  <2>4. 0 < k5 <=> env.likwid /\ Measured(m, f) /\ Returns(Modules[m][f][b])
    BY <1>1, <1>6 DEF LikwidStop
  <2>5. QED
    BY <2>1, <2>2, <2>3, <2>4
<1>11. /\ \A i \in 1..k1 : l[i] = IF i = k1 THEN Plain("likwid_markerStartRegion", f)
                                  ELSE Plain("likwid_markerThreadInit", None)
       /\ \A i \in 1..k2 : p[i] = ScopStart(m, f)
       /\ \A i \in 1..k4 : r[i] = ScopStop(m, f)
       /\ \A i \in 1..k5 : s[i] = Plain("likwid_markerStopRegion", f)
  <2>1. /\ \A i \in 1..Len(LikwidStart(m, f, b)) :
              LikwidStart(m, f, b)[i] = IF i = Len(LikwidStart(m, f, b))
                                        THEN Plain("likwid_markerStartRegion", f)
                                        ELSE Plain("likwid_markerThreadInit", None)
        /\ \A i \in 1..Len(LikwidStop(m, f, b)) :
              i = 1 /\ LikwidStop(m, f, b)[i] = Plain("likwid_markerStopRegion", f)
    BY LikwidMarks
  <2>2. /\ \A i \in 1..Len(TraceStart(m, f, b)) :
              TraceStart(m, f, b)[i] = Instr("polliTracingScopStart", f, ScopId(m, f))
        /\ \A i \in 1..Len(TraceStop(m, f, b)) :
              TraceStop(m, f, b)[i] = Instr("polliTracingScopStop", f, ScopId(m, f))
    BY TraceMarks
  <2>3. QED
    BY <1>1, <1>6, <2>1, <2>2 DEF ScopStart, ScopStop
<1>12. PICK n1, n2, n3, n4 : n1 = k1 /\ n2 = k1 + k2 /\ n3 = k1 + k2 + k3 /\ n4 = k1 + k2 + k3 + k4
  OBVIOUS
<1>13. /\ n1 \in Nat /\ n2 \in Nat /\ n3 \in Nat /\ n4 \in Nat /\ Len(c) \in Nat
       /\ n1 <= n2 /\ n2 <= n3 /\ n3 <= n4 /\ n4 <= Len(c)
       /\ n2 <= n1 + 1 /\ n4 <= n3 + 1 /\ Len(c) <= n4 + 1
       /\ n3 = n2 + Len(Modules[m][f][b].code) /\ Len(c) = n4 + k5
  <2>1. Len(c) = k1 + (k2 + k3 + k4) + k5
    BY <1>7, <1>8
  <2>2. Len(Modules[m][f][b].code) = k3
    BY <1>1, <1>6
  <2>3. QED
    BY <1>9, <1>12, <2>1, <2>2
<1>14. \A i \in 1..(n4 - n1) : c[n1 + i] = d[i]
  BY <1>7, <1>8, <1>9, <1>12
<1>15. \A i \in (n1 + 1)..n2 : c[i] = ScopStart(m, f)
  <2> TAKE i \in (n1 + 1)..n2
  <2>1. PICK k : k = i - n1
    OBVIOUS
  <2>2. k \in 1..k2 /\ k \in 1..(n4 - n1) /\ i = n1 + k
    BY <1>9, <1>12, <2>1
  <2>3. QED
    BY <1>7, <1>11, <1>14, <2>2
<1>16. \A i \in (n2 + 1)..n3 : c[i] = Modules[m][f][b].code[i - n2]
  <2> TAKE i \in (n2 + 1)..n3
  <2>1. PICK k, j : k = i - n2 /\ j = i - n1
    OBVIOUS
  <2>2. k \in 1..k3 /\ j \in 1..(n4 - n1) /\ i = n1 + j /\ j = k2 + k
    BY <1>9, <1>12, <2>1
  <2>3. d[k2 + k] = q[k] /\ c[n1 + j] = d[j]
    BY <1>7, <1>14, <2>2
  <2>4. QED
    BY <1>1, <2>1, <2>2, <2>3
<1>17. \A i \in (n3 + 1)..n4 : c[i] = ScopStop(m, f)
  <2> TAKE i \in (n3 + 1)..n4
  <2>1. PICK k, j : k = i - n3 /\ j = i - n1
    OBVIOUS
  <2>2. k \in 1..k4 /\ j \in 1..(n4 - n1) /\ i = n1 + j /\ j = k2 + k3 + k
    BY <1>9, <1>12, <2>1
  <2>3. d[k2 + k3 + k] = r[k] /\ c[n1 + j] = d[j]
    BY <1>7, <1>14, <2>2
  <2>4. QED
    BY <1>11, <2>2, <2>3
<1>18. \A i \in (n4 + 1)..Len(c) : c[i] = Plain("likwid_markerStopRegion", f)
  <2> TAKE i \in (n4 + 1)..Len(c)
  <2>1. PICK k : k = i - n4
    OBVIOUS
  <2>2. k \in 1..k5 /\ i = k1 + Len(d) + k
    <3>1. n4 = k1 + Len(d)
      BY <1>7, <1>9, <1>12
    <3>2. QED
      BY <1>9, <1>13, <2>1, <3>1
  <2>3. QED
    BY <1>8, <1>11, <2>2
<1>19. \A i \in 1..n1 : c[i] = IF i = n1 THEN Plain("likwid_markerStartRegion", f)
                               ELSE Plain("likwid_markerThreadInit", None)
  BY <1>8, <1>11, <1>12
<1>20. /\ 0 < n1 <=> env.likwid /\ Measured(m, f) /\ b = 1
       /\ n1 < n2 <=> env.papi /\ Measured(m, f) /\ b = 1
       /\ n3 < n4 <=> env.papi /\ Measured(m, f) /\ Returns(Modules[m][f][b])
       /\ n4 < Len(c) <=> env.likwid /\ Measured(m, f) /\ Returns(Modules[m][f][b])
  <2>1. (0 < n1 <=> 0 < k1) /\ (n1 < n2 <=> 0 < k2) /\ (n3 < n4 <=> 0 < k4) /\ (n4 < Len(c) <=> 0 < k5)
    BY <1>9, <1>12, <1>13
  <2>2. QED
    BY <1>10, <2>1
<1>21. env.likwid /\ b = 1 /\ f \in SubFunctions(Modules[m]) => 1 < n1
  <2>1. SUFFICES ASSUME env.likwid, b = 1, f \in SubFunctions(Modules[m]) PROVE 1 < n1
    OBVIOUS
  <2>2. Measured(m, f)
    BY <2>1 DEF Measured
  <2>3. l = <<Plain("likwid_markerThreadInit", None), Plain("likwid_markerStartRegion", f)>>
    BY <1>1, <2>1, <2>2 DEF LikwidStart
  <2>4. QED
    BY <1>6, <1>12, <2>3
<1>22. Parts(m, f, b, c, n1, n2, n3, n4)
  BY <1>13, <1>15, <1>16, <1>17, <1>18, <1>19, <1>20, <1>21, Zenon DEF Parts
<1>23. QED
  BY <1>5, <1>8, <1>22
-----------------------------------------------------------------------------
(* Marks in a frame.                                                       *)

(* Where at most one instruction opens, one later closes, and what is left *)
(* open is closed in a block that goes on, the marks fit.                  *)
LEMMA OnePair ==
  ASSUME NEW fr, IsFrame(fr), NEW lib, NEW S, NEW s \in Nat, NEW q \in Nat, s < q,
         ScopOpen(lib, fr.mod, fr.fn) = <<S>>,
         \A k \in DOMAIN fr.code : Goes(lib, fr.code[k].op) => k = s \/ k = q,
         s \in DOMAIN fr.code => Opening(lib, fr.code[s]) /\ Name(lib, fr.code[s]) = S,
         q \in DOMAIN fr.code => Closing(lib, fr.code[q]) /\ Name(lib, fr.code[q]) = S,
         q \in DOMAIN fr.code <=> fr.next = {}
  PROVE  /\ \A i \in Nat : s <= i /\ i < q => After(lib, fr, i, <<S>>)
         /\ \A i \in Nat : i < s /\ s \in DOMAIN fr.code => After(lib, fr, i, <<>>)
         /\ Bracketed(lib, fr)
<1>1. \A j \in DOMAIN fr.code : j \in Nat
  BY DEF IsFrame
<1>2. \A j \in DOMAIN fr.code : Opening(lib, fr.code[j]) \/ Closing(lib, fr.code[j]) => j = s \/ j = q
  BY DEF Opening, Closing
<1>3. /\ s \in DOMAIN fr.code => Goes(lib, fr.code[s].op) /\ ~Closing(lib, fr.code[s])
      /\ q \in DOMAIN fr.code => Goes(lib, fr.code[q].op) /\ ~Opening(lib, fr.code[q])
  BY DEF Opening, Closing
<1>4. Rest(lib, fr) = IF q \in DOMAIN fr.code THEN <<>> ELSE <<S>>
  BY DEF Rest
<1>5. ASSUME NEW i \in Nat, s <= i, i < q PROVE After(lib, fr, i, <<S>>)
  <2>1. ASSUME NEW j \in DOMAIN fr.code, i < j, Quiet(lib, fr.code, i, j)
        PROVE  /\ Opening(lib, fr.code[j]) => <<S>> = <<>>
               /\ Closing(lib, fr.code[j]) => <<S>> = <<Name(lib, fr.code[j])>>
    <3>1. j # s
      BY <1>1, <1>5, <2>1
    <3>2. QED
      BY <1>2, <1>3, <3>1
  <2>2. ASSUME \A k \in DOMAIN fr.code : i < k => ~Goes(lib, fr.code[k].op)
        PROVE  <<S>> = Rest(lib, fr)
    BY <1>3, <1>4, <1>5, <2>2
  <2>3. QED
    BY <2>1, <2>2, Zenon DEF After
<1>6. ASSUME NEW i \in Nat, i < s, s \in DOMAIN fr.code PROVE After(lib, fr, i, <<>>)
  <2>1. ASSUME NEW j \in DOMAIN fr.code, i < j, Quiet(lib, fr.code, i, j), Closing(lib, fr.code[j])
        PROVE  FALSE
    <3>1. j = q
      BY <1>2, <1>3, <2>1
    <3>2. QED
      BY <1>3, <1>6, <2>1, <3>1 DEF Quiet
  <2>2. ~ \A k \in DOMAIN fr.code : i < k => ~Goes(lib, fr.code[k].op)
    BY <1>3, <1>6
  <2>3. QED
    BY <2>1, <2>2, Zenon DEF After
<1>7. ASSUME q \in DOMAIN fr.code PROVE After(lib, fr, q, <<>>)
  <2>1. ASSUME NEW j \in DOMAIN fr.code, q < j PROVE ~Goes(lib, fr.code[j].op)
    BY <1>1, <2>1
  <2>2. ASSUME NEW j \in DOMAIN fr.code, q < j
        PROVE  ~Opening(lib, fr.code[j]) /\ ~Closing(lib, fr.code[j])
    BY <2>1, <2>2 DEF Opening, Closing
  <2>3. Rest(lib, fr) = <<>>
    BY <1>4, <1>7
  <2>4. QED
    BY <2>2, <2>3 DEF After
<1>8. Bracketed(lib, fr)
  <2>1. SUFFICES ASSUME NEW i \in DOMAIN fr.code
                 PROVE  /\ Opening(lib, fr.code[i]) => After(lib, fr, i, <<Name(lib, fr.code[i])>>)
                        /\ Closing(lib, fr.code[i]) => After(lib, fr, i, <<>>)
    BY Zenon DEF Bracketed
  <2>2. ASSUME Opening(lib, fr.code[i]) PROVE After(lib, fr, i, <<Name(lib, fr.code[i])>>)
    <3>1. i = s /\ Name(lib, fr.code[i]) = S
      BY <1>2, <1>3, <2>2
    <3>2. After(lib, fr, s, <<S>>)
      BY <1>5
    <3>3. QED
      BY <3>1, <3>2
  <2>3. ASSUME Closing(lib, fr.code[i]) PROVE After(lib, fr, i, <<>>)
    <3>1. i = q
      BY <1>2, <1>3, <2>3
    <3>2. QED
      BY <1>7, <3>1
  <2>4. QED
    BY <2>2, <2>3
<1>9. QED
  BY <1>5, <1>6, <1>8

(* Where nothing is told, nothing is open.                                 *)
LEMMA NoMarks ==
  ASSUME NEW fr, IsFrame(fr), NEW lib, Rest(lib, fr) = <<>>,
         \A k \in DOMAIN fr.code : ~Goes(lib, fr.code[k].op)
  PROVE  (\A i : After(lib, fr, i, <<>>)) /\ Bracketed(lib, fr)
BY DEF After, Bracketed, Opening, Closing

(* What the libraries are told by each instruction.                        *)
QuietOps == {"work", "next", "fork", "call", "join", "run", "compile", "requests",
             "likwid_markerThreadInit"}

(* Regions and scops go to the tracer that has been chosen, LIKWID's       *)
(* markers to LIKWID; each of them opens or closes, nothing else does      *)
(* either.                                                                 *)
LEMMA Telling ==
  ASSUME NEW i, NEW lib \in Libs
  PROVE  /\ i.op \in QuietOps => ~Goes(lib, i.op)
         /\ i.op \in ScopCalls \cup RegionCalls => (Goes(lib, i.op) <=> (lib = "papi" <=> env.papi))
         /\ i.op \in LikwidCalls => (Goes(lib, i.op) <=> lib = "likwid")
         /\ i.op \in {"polliTracingScopStart", "polliTracingRegionStart", "likwid_markerStartRegion"}
              => (Opening(lib, i) <=> Goes(lib, i.op)) /\ ~Closing(lib, i)
         /\ i.op \in {"polliTracingScopStop", "polliTracingRegionStop", "likwid_markerStopRegion"}
              => (Closing(lib, i) <=> Goes(lib, i.op)) /\ ~Opening(lib, i)
<1>1. i.op \in QuietOps => ~Goes(lib, i.op)
  BY DEF QuietOps, Goes, TracerCalls, LikwidCalls
<1>2. i.op \in ScopCalls \cup RegionCalls => (Goes(lib, i.op) <=> (lib = "papi" <=> env.papi))
  BY DEF ScopCalls, RegionCalls, Goes, TracerCalls, LikwidCalls, Libs
<1>3. i.op \in LikwidCalls => (Goes(lib, i.op) <=> lib = "likwid")
  BY DEF Goes, TracerCalls, LikwidCalls, Libs
<1>4. /\ EventType["polliTracingScopStart"] \in Enters
      /\ EventType["polliTracingRegionStart"] \in Enters
      /\ EventType["likwid_markerStartRegion"] \in Enters
      /\ EventType["polliTracingScopStop"] \notin Enters
      /\ EventType["polliTracingRegionStop"] \notin Enters
      /\ EventType["likwid_markerStopRegion"] \notin Enters
  BY DEF EventType, Enters, ExitOf
<1>5. i.op \in {"polliTracingScopStart", "polliTracingRegionStart", "likwid_markerStartRegion"}
        => (Opening(lib, i) <=> Goes(lib, i.op)) /\ ~Closing(lib, i)
  BY <1>4, Zenon DEF Opening, Closing
<1>6. i.op \in {"polliTracingScopStop", "polliTracingRegionStop", "likwid_markerStopRegion"}
        => (Closing(lib, i) <=> Goes(lib, i.op)) /\ ~Opening(lib, i)
  BY <1>4, Zenon DEF Opening, Closing
<1>7. QED
  BY <1>1, <1>2, <1>3, <1>5, <1>6
-----------------------------------------------------------------------------
(* Frames of variants.                                                     *)

(* Where an instruction of a block comes from.                             *)
PartOf(m, f, b, c, n1, n2, n3, n4, k) ==
  \/ k = n1 /\ c[k] = Plain("likwid_markerStartRegion", f)
  \/ k < n1 /\ c[k] = Plain("likwid_markerThreadInit", None)
  \/ k = n2 /\ n1 < n2 /\ c[k] = ScopStart(m, f)
  \/ n2 < k /\ k <= n3 /\ k - n2 \in DOMAIN Modules[m][f][b].code
     /\ c[k] = Modules[m][f][b].code[k - n2] /\ c[k] \in Sources
  \/ k = n4 /\ n3 < n4 /\ c[k] = ScopStop(m, f)
  \/ k = Len(c) /\ n4 < Len(c) /\ c[k] = Plain("likwid_markerStopRegion", f)

(* Every instruction of a block comes from somewhere.                      *)
LEMMA PartsCases ==
  ASSUME NEW m, NEW f, NEW b, IsBlock(m, f, b), NEW c, c \in Seq(Instrs),
         NEW n1, NEW n2, NEW n3, NEW n4, Parts(m, f, b, c, n1, n2, n3, n4), NEW k \in DOMAIN c
  PROVE  PartOf(m, f, b, c, n1, n2, n3, n4, k)
<1>1. /\ n1 \in Nat /\ n2 \in Nat /\ n3 \in Nat /\ n4 \in Nat /\ Len(c) \in Nat
      /\ n1 <= n2 /\ n2 <= n3 /\ n3 <= n4 /\ n4 <= Len(c)
      /\ n2 <= n1 + 1 /\ n4 <= n3 + 1 /\ Len(c) <= n4 + 1
      /\ n3 = n2 + Len(Modules[m][f][b].code) /\ k \in Nat /\ 1 <= k /\ k <= Len(c)
  BY DEF Parts
<1>2. CASE k <= n1
  BY <1>1, <1>2 DEF Parts, PartOf
<1>3. CASE n1 < k /\ k <= n2
  <2>1. k = n2 /\ n1 < n2 /\ k \in (n1 + 1)..n2
    BY <1>1, <1>3
  <2>2. QED
    BY <2>1 DEF Parts, PartOf
<1>4. CASE n2 < k /\ k <= n3
  <2>1. PICK q : q = Modules[m][f][b].code
    OBVIOUS
  <2>2. PICK j : j = k - n2
    OBVIOUS
  <2>3. q \in Seq(Sources)
    BY <2>1, SourceIs
  <2>4. j \in 1..Len(q) /\ k \in (n2 + 1)..n3
    <3>1. n3 = n2 + Len(q)
      BY <1>1, <2>1, Zenon
    <3>2. Len(q) \in Nat
      BY <2>3
    <3>3. n2 \in Nat /\ n3 \in Nat /\ k \in Nat
      BY <1>1
    <3>4. QED
      BY <1>4, <2>2, <3>1, <3>2, <3>3
  <2>5. q[j] \in Sources /\ j \in DOMAIN q
    BY <2>3, <2>4
  <2>6. c[k] = q[j]
    BY <2>1, <2>2, <2>4 DEF Parts
  <2>7. QED
    BY <1>4, <2>1, <2>2, <2>5, <2>6 DEF PartOf
<1>5. CASE n3 < k /\ k <= n4
  <2>1. k = n4 /\ n3 < n4 /\ k \in (n3 + 1)..n4
    BY <1>1, <1>5
  <2>2. QED
    BY <2>1 DEF Parts, PartOf
<1>6. CASE n4 < k
  <2>1. k = Len(c) /\ n4 < Len(c) /\ k \in (n4 + 1)..Len(c)
    BY <1>1, <1>6
  <2>2. QED
    BY <2>1 DEF Parts, PartOf
<1>7. k <= n1 \/ (n1 < k /\ k <= n2) \/ (n2 < k /\ k <= n3) \/ (n3 < k /\ k <= n4) \/ n4 < k
  BY <1>1
<1>8. QED
  BY <1>2, <1>3, <1>4, <1>5, <1>6, <1>7, Zenon

(* What a block leaves open: nothing before an entry, the function's mark  *)
(* in the code that Polly has left, and before any other block.            *)
LEMMA BlockMarks ==
  ASSUME NEW m, NEW f, NEW b, IsBlock(m, f, b), NEW c, c \in Seq(Instrs),
         NEW n1, NEW n2, NEW n3, NEW n4, Parts(m, f, b, c, n1, n2, n3, n4),
         NEW fr, fr = [mod |-> m, fn |-> f, code |-> c, next |-> Modules[m][f][b].next],
         NEW lib \in Libs, env.papi \in BOOLEAN, env.likwid \in BOOLEAN
  PROVE  /\ Bracketed(lib, fr)
         /\ After(lib, fr, 0, IF b = 1 THEN <<>> ELSE ScopOpen(lib, m, f))
         /\ \A i \in Nat : n2 <= i /\ i <= n3 => After(lib, fr, i, ScopOpen(lib, m, f))
<1>1. /\ fr.mod = m /\ fr.fn = f /\ fr.code = c /\ fr.next = Modules[m][f][b].next /\ IsFrame(fr)
      /\ DOMAIN c = 1..Len(c)
  BY DEF IsFrame
<1>2. /\ n1 \in Nat /\ n2 \in Nat /\ n3 \in Nat /\ n4 \in Nat /\ Len(c) \in Nat
      /\ n1 <= n2 /\ n2 <= n3 /\ n3 <= n4 /\ n4 <= Len(c)
      /\ n2 <= n1 + 1 /\ n4 <= n3 + 1 /\ Len(c) <= n4 + 1
      /\ 0 < n1 <=> env.likwid /\ Measured(m, f) /\ b = 1
      /\ n1 < n2 <=> env.papi /\ Measured(m, f) /\ b = 1
      /\ n3 < n4 <=> env.papi /\ Measured(m, f) /\ Returns(Modules[m][f][b])
      /\ n4 < Len(c) <=> env.likwid /\ Measured(m, f) /\ Returns(Modules[m][f][b])
  BY DEF Parts
<1>3. fr.next = {} <=> Returns(Modules[m][f][b])
  BY <1>1 DEF Returns
<1>4. /\ Goes("papi", "polliTracingScopStart") <=> env.papi
      /\ Goes("papi", "polliTracingScopStop") <=> env.papi
      /\ Goes("likwid", "polliTracingScopStart") <=> ~env.papi
      /\ Goes("likwid", "polliTracingScopStop") <=> ~env.papi
      /\ ~Goes("papi", "likwid_markerStartRegion") /\ ~Goes("papi", "likwid_markerStopRegion")
      /\ Goes("likwid", "likwid_markerStartRegion") /\ Goes("likwid", "likwid_markerStopRegion")
  BY DEF Goes, TracerCalls, LikwidCalls
<1>5. \A k \in DOMAIN c : c[k] \in Sources => ~Goes(lib, c[k].op)
  BY DEF Sources, Goes, TracerCalls, LikwidCalls
<1>6. ~Goes(lib, "likwid_markerThreadInit")
  BY DEF Goes, TracerCalls, LikwidCalls
<1>7. /\ ScopStart(m, f).op = "polliTracingScopStart" /\ ScopStop(m, f).op = "polliTracingScopStop"
      /\ ScopStart(m, f).id = ScopId(m, f) /\ ScopStop(m, f).id = ScopId(m, f)
      /\ Plain("likwid_markerStartRegion", f).op = "likwid_markerStartRegion"
      /\ Plain("likwid_markerStopRegion", f).op = "likwid_markerStopRegion"
      /\ Plain("likwid_markerThreadInit", None).op = "likwid_markerThreadInit"
      /\ Plain("likwid_markerStartRegion", f).arg = f /\ Plain("likwid_markerStopRegion", f).arg = f
  BY DEF ScopStart, ScopStop, Plain, Instr
<1>8. /\ EventType["polliTracingScopStart"] \in Enters /\ EventType["polliTracingScopStop"] \notin Enters
      /\ EventType["likwid_markerStartRegion"] \in Enters
      /\ EventType["likwid_markerStopRegion"] \notin Enters
  BY DEF EventType, Enters, ExitOf
<1>9. CASE On(lib) /\ Measured(m, f)
  <2> DEFINE S == Scop(lib, m, f)
  <2>1. PICK s, q : /\ s = IF b # 1 THEN 0 ELSE IF lib = "papi" THEN n2 ELSE n1
                    /\ q = IF ~Returns(Modules[m][f][b]) THEN Len(c) + 1
                           ELSE IF lib = "papi" THEN n4 ELSE Len(c)
    OBVIOUS
  <2>2. /\ lib = "papi" => env.papi /\ (b = 1 => s = n2 /\ n1 < n2)
                             /\ (Returns(Modules[m][f][b]) => q = n4 /\ n3 < n4)
        /\ lib = "likwid" => env.likwid /\ (b = 1 => s = n1 /\ 0 < n1)
                              /\ (Returns(Modules[m][f][b]) => q = Len(c) /\ n4 < Len(c))
        /\ lib # "papi" => lib = "likwid"
    BY <1>2, <1>9, <2>1 DEF On, Libs
  <2>3. /\ s \in Nat /\ q \in Nat /\ s <= n2 /\ n3 < q /\ s < q
        /\ b = 1 <=> s \in DOMAIN c
        /\ Returns(Modules[m][f][b]) <=> q \in DOMAIN c
        /\ b # 1 => s = 0
    <3>1. s \in Nat /\ s <= n2 /\ (b = 1 <=> 1 <= s) /\ (b # 1 => s = 0)
      BY <1>2, <2>1, <2>2
    <3>2. q \in Nat /\ n3 < q /\ (Returns(Modules[m][f][b]) <=> q <= Len(c))
      BY <1>2, <2>1, <2>2
    <3>3. s <= Len(c) /\ 1 <= q /\ s < q
      BY <1>2, <3>1, <3>2
    <3>4. (s \in DOMAIN c <=> 1 <= s) /\ (q \in DOMAIN c <=> q <= Len(c))
      BY <1>1, <1>2, <3>1, <3>2, <3>3
    <3>5. QED
      BY <3>1, <3>2, <3>3, <3>4
  <2>4. s \in DOMAIN c => c[s] = IF lib = "papi" THEN ScopStart(m, f)
                                 ELSE Plain("likwid_markerStartRegion", f)
    <3>1. SUFFICES ASSUME s \in DOMAIN c
                   PROVE  c[s] = IF lib = "papi" THEN ScopStart(m, f)
                                 ELSE Plain("likwid_markerStartRegion", f)
      OBVIOUS
    <3>2. CASE lib = "papi"
      <4>1. s \in (n1 + 1)..n2
        BY <1>2, <2>2, <2>3, <3>1, <3>2
      <4>2. QED
        BY <3>2, <4>1 DEF Parts
    <3>3. CASE lib # "papi"
      <4>1. s \in 1..n1 /\ s = n1
        BY <1>2, <2>2, <2>3, <3>1, <3>3
      <4>2. QED
        BY <3>3, <4>1 DEF Parts
    <3>4. QED
      BY <3>2, <3>3
  <2>5. q \in DOMAIN c => c[q] = IF lib = "papi" THEN ScopStop(m, f)
                                 ELSE Plain("likwid_markerStopRegion", f)
    <3>1. SUFFICES ASSUME q \in DOMAIN c
                   PROVE  c[q] = IF lib = "papi" THEN ScopStop(m, f)
                                 ELSE Plain("likwid_markerStopRegion", f)
      OBVIOUS
    <3>2. CASE lib = "papi"
      <4>1. q \in (n3 + 1)..n4
        BY <1>2, <2>2, <2>3, <3>1, <3>2
      <4>2. QED
        BY <3>2, <4>1 DEF Parts
    <3>3. CASE lib # "papi"
      <4>1. q \in (n4 + 1)..Len(c)
        BY <1>2, <2>2, <2>3, <3>1, <3>3
      <4>2. QED
        BY <3>3, <4>1 DEF Parts
    <3>4. QED
      BY <3>2, <3>3
  <2>6. \A k \in DOMAIN fr.code : Goes(lib, fr.code[k].op) => k = s \/ k = q
    <3>1. SUFFICES ASSUME NEW k \in DOMAIN c, Goes(lib, c[k].op), k # s PROVE k = q
      BY <1>1
    <3>2. \/ k = n1 /\ c[k] = Plain("likwid_markerStartRegion", f)
          \/ k < n1 /\ c[k] = Plain("likwid_markerThreadInit", None)
          \/ k = n2 /\ n1 < n2 /\ c[k] = ScopStart(m, f)
          \/ c[k] \in Sources
          \/ k = n4 /\ n3 < n4 /\ c[k] = ScopStop(m, f)
          \/ k = Len(c) /\ n4 < Len(c) /\ c[k] = Plain("likwid_markerStopRegion", f)
      BY PartsCases DEF PartOf
    <3>3. CASE k = n1 /\ c[k] = Plain("likwid_markerStartRegion", f)
      BY <1>1, <1>2, <1>4, <1>7, <2>2, <3>1, <3>3 DEF Libs
    <3>4. CASE k < n1 /\ c[k] = Plain("likwid_markerThreadInit", None)
      BY <1>6, <1>7, <3>1, <3>4
    <3>5. CASE k = n2 /\ n1 < n2 /\ c[k] = ScopStart(m, f)
      BY <1>2, <1>4, <1>7, <2>2, <3>1, <3>5 DEF Libs
    <3>6. CASE c[k] \in Sources
      BY <1>5, <3>1, <3>6
    <3>7. CASE k = n4 /\ n3 < n4 /\ c[k] = ScopStop(m, f)
      BY <1>2, <1>4, <1>7, <2>2, <3>1, <3>7 DEF Libs
    <3>8. CASE k = Len(c) /\ n4 < Len(c) /\ c[k] = Plain("likwid_markerStopRegion", f)
      BY <1>2, <1>4, <1>7, <2>2, <3>1, <3>8 DEF Libs
    <3>9. QED
      BY <3>2, <3>3, <3>4, <3>5, <3>6, <3>7, <3>8
  <2>7. s \in DOMAIN fr.code => Opening(lib, fr.code[s]) /\ Name(lib, fr.code[s]) = S
    BY <1>1, <1>4, <1>7, <1>8, <2>2, <2>4 DEF Opening, Name, Scop
  <2>8. q \in DOMAIN fr.code => Closing(lib, fr.code[q]) /\ Name(lib, fr.code[q]) = S
    BY <1>1, <1>4, <1>7, <1>8, <2>2, <2>5 DEF Closing, Name, Scop
  <2>9. ScopOpen(lib, fr.mod, fr.fn) = <<S>> /\ ScopOpen(lib, m, f) = <<S>>
    BY <1>1, <1>9 DEF ScopOpen
  <2>10. q \in DOMAIN fr.code <=> fr.next = {}
    BY <1>1, <1>3, <2>3
  <2> HIDE DEF S
  <2>11. /\ \A i \in Nat : s <= i /\ i < q => After(lib, fr, i, <<S>>)
         /\ \A i \in Nat : i < s /\ s \in DOMAIN fr.code => After(lib, fr, i, <<>>)
         /\ Bracketed(lib, fr)
    <3>1. s \in Nat /\ q \in Nat /\ s < q
      BY <2>3
    <3>2. QED
      BY <1>1, <2>6, <2>7, <2>8, <2>9, <2>10, <3>1, OnePair
  <2>12. After(lib, fr, 0, IF b = 1 THEN <<>> ELSE <<S>>)
    <3>1. CASE b = 1
      <4>1. s \in DOMAIN fr.code /\ 0 < s
        BY <1>1, <2>3, <3>1
      <4>2. QED
        BY <2>11, <3>1, <4>1
    <3>2. CASE b # 1
      BY <2>3, <2>11, <3>2
    <3>3. QED
      BY <3>1, <3>2
  <2>13. \A i \in Nat : n2 <= i /\ i <= n3 => After(lib, fr, i, <<S>>)
    BY <1>2, <2>3, <2>11
  <2>14. QED
    BY <2>9, <2>11, <2>12, <2>13
<1>10. CASE ~(On(lib) /\ Measured(m, f))
  <2>1. ScopOpen(lib, m, f) = <<>>
    BY <1>10 DEF ScopOpen
  <2>2. Rest(lib, fr) = <<>>
    BY <1>1, <2>1 DEF Rest
  <2>3. \A k \in DOMAIN fr.code : ~Goes(lib, fr.code[k].op)
    <3>1. SUFFICES ASSUME NEW k \in DOMAIN c, Goes(lib, c[k].op) PROVE FALSE
      BY <1>1
    <3>2. \/ k = n1 /\ c[k] = Plain("likwid_markerStartRegion", f)
          \/ k < n1 /\ c[k] = Plain("likwid_markerThreadInit", None)
          \/ k = n2 /\ n1 < n2 /\ c[k] = ScopStart(m, f)
          \/ c[k] \in Sources
          \/ k = n4 /\ n3 < n4 /\ c[k] = ScopStop(m, f)
          \/ k = Len(c) /\ n4 < Len(c) /\ c[k] = Plain("likwid_markerStopRegion", f)
      BY PartsCases DEF PartOf
    <3>3. ~(lib = "papi" /\ env.papi /\ Measured(m, f)) /\ ~(lib = "likwid" /\ env.likwid /\ Measured(m, f))
      BY <1>10 DEF On
    <3>4. k >= 1
      BY <1>1, <1>2
    <3>5. CASE k = n1 /\ c[k] = Plain("likwid_markerStartRegion", f)
      BY <1>2, <1>4, <1>7, <3>1, <3>3, <3>4, <3>5 DEF Libs
    <3>6. CASE k < n1 /\ c[k] = Plain("likwid_markerThreadInit", None)
      BY <1>6, <1>7, <3>1, <3>6
    <3>7. CASE k = n2 /\ n1 < n2 /\ c[k] = ScopStart(m, f)
      BY <1>2, <1>4, <1>7, <3>1, <3>3, <3>7 DEF Libs
    <3>8. CASE c[k] \in Sources
      BY <1>5, <3>1, <3>8
    <3>9. CASE k = n4 /\ n3 < n4 /\ c[k] = ScopStop(m, f)
      BY <1>2, <1>4, <1>7, <3>1, <3>3, <3>9 DEF Libs
    <3>10. CASE k = Len(c) /\ n4 < Len(c) /\ c[k] = Plain("likwid_markerStopRegion", f)
      BY <1>2, <1>4, <1>7, <3>1, <3>3, <3>10 DEF Libs
    <3>11. QED
      BY <3>2, <3>5, <3>6, <3>7, <3>8, <3>9, <3>10
  <2>4. (\A i : After(lib, fr, i, <<>>)) /\ Bracketed(lib, fr)
    BY <1>1, <2>2, <2>3, NoMarks
  <2>5. QED
    BY <2>1, <2>4
<1>11. QED
  BY <1>9, <1>10

(* A parallel loop in a block stays one behind the marks.                  *)
LEMMA BlockLoops ==
  ASSUME NEW m, NEW f, NEW b, IsBlock(m, f, b), NEW c, c \in Seq(Instrs),
         NEW n1, NEW n2, NEW n3, NEW n4, Parts(m, f, b, c, n1, n2, n3, n4),
         NEW fr, fr = [mod |-> m, fn |-> f, code |-> c, next |-> Modules[m][f][b].next],
         \A lib \in Libs : \A i \in Nat :
           n2 <= i /\ i <= n3 => After(lib, fr, i, ScopOpen(lib, m, f)),
         NEW k \in DOMAIN c, n2 < k, k <= n3
  PROVE  LoopsOk(fr, k)
<1>1. /\ fr.mod = m /\ fr.fn = f /\ fr.code = c /\ DOMAIN c = 1..Len(c)
      /\ n2 \in Nat /\ n3 \in Nat /\ n4 \in Nat /\ Len(c) \in Nat /\ k \in Nat
      /\ n3 <= n4 /\ n4 <= Len(c)
  BY DEF Parts
<1>2. PICK q : q = Modules[m][f][b].code
  OBVIOUS
<1>3. n3 = n2 + Len(q)
  BY <1>2, Zenon DEF Parts
<1>4. q \in Seq(Sources) /\ Len(q) \in Nat /\ DOMAIN q = 1..Len(q)
  <2>1. q \in Seq(Sources)
    BY <1>2, SourceIs
  <2>2. QED
    BY <2>1
<1>5. PICK M : M = Modules[m]
  OBVIOUS
<1>6. \A i \in DOMAIN q :
        /\ f \in SubFunctions(M) => q[i].op \in {"work", "next"}
        /\ q[i].op = "fork" => IsParallelLoop(M, q, i)
        /\ q[i].op = "call" => IsParallelLoop(M, q, i - 1)
        /\ q[i].op = "join" => IsParallelLoop(M, q, i - 2)
  BY <1>2, <1>5, SourceIs
<1>7. \A i \in (n2 + 1)..n3 : c[i] = q[i - n2]
  BY <1>2, Zenon DEF Parts
<1>8. PICK j : j = k - n2
  OBVIOUS
<1>9. j \in 1..Len(q) /\ k = n2 + j /\ k \in (n2 + 1)..n3
  BY <1>1, <1>3, <1>4, <1>8
<1>10. c[k] = q[j]
  BY <1>7, <1>8, <1>9
<1>11. \A g : g \in SubFunctions(M) => SubFunction(fr, g)
  BY <1>1, <1>5 DEF SubFunction, IsBlock
<1>12. c[k].op = "fork" => /\ k + 2 \in DOMAIN c /\ c[k + 1] = Plain("call", c[k].arg)
                           /\ SubFunction(fr, c[k].arg)
  <2>1. SUFFICES ASSUME c[k].op = "fork"
                 PROVE  /\ k + 2 \in DOMAIN c /\ c[k + 1] = Plain("call", c[k].arg)
                        /\ SubFunction(fr, c[k].arg)
    OBVIOUS
  <2>2. IsParallelLoop(M, q, j)
    BY <1>4, <1>6, <1>9, <1>10, <2>1
  <2>3. j + 2 <= Len(q) /\ q[j + 1] = Plain("call", q[j].arg) /\ q[j].arg \in SubFunctions(M)
    BY <2>2, Zenon DEF IsParallelLoop
  <2>4. k + 2 \in DOMAIN c /\ k + 1 \in (n2 + 1)..n3 /\ (k + 1) - n2 = j + 1
    BY <1>1, <1>3, <1>4, <1>9, <2>3
  <2>5. c[k + 1] = q[j + 1]
    BY <1>7, <2>4
  <2>6. QED
    BY <1>10, <1>11, <2>3, <2>4, <2>5
<1>13. c[k].op = "call" => /\ k + 1 \in DOMAIN c /\ c[k + 1] = Joins
                           /\ SubFunction(fr, c[k].arg)
  <2>1. SUFFICES ASSUME c[k].op = "call"
                 PROVE  k + 1 \in DOMAIN c /\ c[k + 1] = Joins /\ SubFunction(fr, c[k].arg)
    OBVIOUS
  <2>2. PICK i : i = j - 1
    OBVIOUS
  <2>3. i + 1 = j /\ i + 2 = j + 1 /\ i \in Int
    BY <1>9, <2>2
  <2>4. IsParallelLoop(M, q, i)
    BY <1>4, <1>6, <1>9, <1>10, <2>1, <2>2
  <2>5. /\ i + 2 <= Len(q) /\ q[i + 1] = Plain("call", q[i].arg) /\ q[i].arg \in SubFunctions(M)
        /\ q[i + 2] = Plain("join", "workers")
    BY <2>4, Zenon DEF IsParallelLoop
  <2>6. k + 1 \in DOMAIN c /\ k + 1 \in (n2 + 1)..n3 /\ (k + 1) - n2 = j + 1
    BY <1>1, <1>3, <1>4, <1>9, <2>3, <2>5
  <2>7. c[k + 1] = q[j + 1]
    BY <1>7, <2>6
  <2>8. q[j].arg = q[i].arg
    BY <2>3, <2>5 DEF Plain, Instr
  <2>9. QED
    BY <1>10, <1>11, <2>3, <2>5, <2>6, <2>7, <2>8 DEF Joins
<1>14. c[k].op = "join" => c[k] = Joins /\ \A lib \in Libs : After(lib, fr, k, <<>>)
  <2>1. SUFFICES ASSUME c[k].op = "join"
                 PROVE  c[k] = Joins /\ \A lib \in Libs : After(lib, fr, k, <<>>)
    OBVIOUS
  <2>2. PICK i : i = j - 2
    OBVIOUS
  <2>3. i + 2 = j /\ i \in Int
    BY <1>9, <2>2
  <2>4. IsParallelLoop(M, q, i) /\ f \notin SubFunctions(M)
    BY <1>4, <1>6, <1>9, <1>10, <2>1, <2>2
  <2>5. q[i].arg \in SubFunctions(M) /\ q[i + 2] = Plain("join", "workers")
    BY <2>4, Zenon DEF IsParallelLoop
  <2>6. ~Measured(m, f)
    <3>1. f \in {f} \cup SubFunctions(M)
      OBVIOUS
    <3>2. QED
      BY <1>5, <2>4, <2>5, <3>1 DEF Measured
  <2>7. \A lib : ScopOpen(lib, m, f) = <<>>
    BY <2>6 DEF ScopOpen
  <2>8. n2 <= k /\ k <= n3
    BY <1>1
  <2>9. \A lib \in Libs : After(lib, fr, k, <<>>)
    BY <1>1, <2>7, <2>8
  <2>10. QED
    BY <1>10, <2>3, <2>5, <2>9 DEF Joins
<1>15. QED
  BY <1>1, <1>12, <1>13, <1>14 DEF LoopsOk

(* The id of a scop is an address.                                         *)
LEMMA ScopIdIs ==
  ASSUME NEW m \in DOMAIN Modules, NEW f \in DOMAIN Modules[m]
  PROVE  ScopId(m, f) \in Nat
<1>1. Address[m] \in [DOMAIN Modules[m] -> Nat \ {0}] /\ LoopVariable \in Nat \ {0}
  BY Assumptions
<1>2. Address[m][f] \in Nat
  BY <1>1
<1>3. QED
  BY <1>1, <1>2 DEF ScopId

(* The frame of a block.                                                   *)
LEMMA BlockFrame ==
  ASSUME NEW m, NEW f, NEW b, IsBlock(m, f, b), env.papi \in BOOLEAN, env.likwid \in BOOLEAN,
         NEW fr, fr = Frame(m, f, OptimizeForRuntime(m)[f][b])
  PROVE  /\ FrameOk(fr, CallerOps)
         /\ f \in SubFunctions(Modules[m]) => FrameOk(fr, FunctionOps)
         /\ \A lib \in Libs : After(lib, fr, 0, IF b = 1 THEN <<>> ELSE ScopOpen(lib, m, f))
         /\ b = 1 /\ f \in SubFunctions(Modules[m]) /\ env.likwid =>
              AtCall(fr, {"likwid_markerThreadInit"})
<1>1. PICK c : c = OptimizeForRuntime(m)[f][b].code
  OBVIOUS
<1>2. c \in Seq(Instrs) /\ \E n1, n2, n3, n4 : Parts(m, f, b, c, n1, n2, n3, n4)
  BY <1>1, PartsOf
<1>3. PICK n1, n2, n3, n4 : Parts(m, f, b, c, n1, n2, n3, n4)
  BY <1>2
<1>4. fr = [mod |-> m, fn |-> f, code |-> c, next |-> Modules[m][f][b].next]
  BY <1>1, OptimizedIs DEF Frame
<1>5. /\ fr.mod = m /\ fr.fn = f /\ fr.code = c /\ fr.next = Modules[m][f][b].next
      /\ fr = [mod |-> fr.mod, fn |-> fr.fn, code |-> fr.code, next |-> fr.next]
  BY <1>4
<1>6. \A lib \in Libs : /\ Bracketed(lib, fr)
                        /\ After(lib, fr, 0, IF b = 1 THEN <<>> ELSE ScopOpen(lib, m, f))
                        /\ \A i \in Nat : n2 <= i /\ i <= n3 => After(lib, fr, i, ScopOpen(lib, m, f))
  BY <1>2, <1>3, <1>4, BlockMarks
<1>7. OfFunction(fr)
  <2>1. Modules[m][f][b].next \subseteq 2..Len(Modules[m][f])
    BY SourceIs
  <2>2. QED
    BY <1>5, <2>1 DEF OfFunction, IsBlock
<1>8. /\ n1 \in Nat /\ n2 \in Nat /\ n3 \in Nat /\ n4 \in Nat /\ Len(c) \in Nat /\ DOMAIN c = 1..Len(c)
      /\ n1 <= n2 /\ n2 <= n3 /\ n3 <= n4 /\ n4 <= Len(c)
      /\ 0 < n1 <=> env.likwid /\ Measured(m, f) /\ b = 1
      /\ n1 < n2 <=> env.papi /\ Measured(m, f) /\ b = 1
      /\ n3 < n4 <=> env.papi /\ Measured(m, f) /\ Returns(Modules[m][f][b])
      /\ n4 < Len(c) <=> env.likwid /\ Measured(m, f) /\ Returns(Modules[m][f][b])
  BY <1>2, <1>3 DEF Parts
<1>9. f \in Functions
  BY SourceIs
<1>10. ASSUME NEW k \in DOMAIN c
       PROVE  /\ c[k].op \in CallerOps
              /\ f \in SubFunctions(Modules[m]) => c[k].op \in FunctionOps
              /\ MarksOk(fr, k) /\ LoopsOk(fr, k) /\ RestOk(fr, k)
  <2>1. PartOf(m, f, b, c, n1, n2, n3, n4, k)
    BY <1>2, <1>3, PartsCases
  <2>2. CASE n2 < k /\ k <= n3 /\ k - n2 \in DOMAIN Modules[m][f][b].code
             /\ c[k] = Modules[m][f][b].code[k - n2] /\ c[k] \in Sources
    <3>1. c[k].op \in {"work", "next", "fork", "call", "join"}
      BY <2>2 DEF Sources
    <3>2. f \in SubFunctions(Modules[m]) => c[k].op \in {"work", "next"}
      BY <2>2, SourceIs
    <3>3. MarksOk(fr, k)
      BY <1>5, <3>1 DEF MarksOk, RegionCalls, ScopCalls, LikwidCalls
    <3>4. LoopsOk(fr, k)
      BY <1>2, <1>3, <1>4, <1>6, <2>2, BlockLoops
    <3>5. k \in Nat /\ n2 <= k /\ k <= n3
      BY <1>8, <2>2
    <3>6. RestOk(fr, k)
      BY <1>5, <1>6, <1>7, <3>1, <3>5 DEF RestOk
    <3>7. c[k].op \in CallerOps /\ (f \in SubFunctions(Modules[m]) => c[k].op \in FunctionOps)
      BY <3>1, <3>2 DEF CallerOps, FunctionOps
    <3>8. QED
      BY <3>3, <3>4, <3>6, <3>7
  <2>3. CASE \/ k = n1 /\ c[k] = Plain("likwid_markerStartRegion", f)
             \/ k < n1 /\ c[k] = Plain("likwid_markerThreadInit", None)
             \/ k = n2 /\ n1 < n2 /\ c[k] = ScopStart(m, f)
             \/ k = n4 /\ n3 < n4 /\ c[k] = ScopStop(m, f)
             \/ k = Len(c) /\ n4 < Len(c) /\ c[k] = Plain("likwid_markerStopRegion", f)
    <3>1. /\ c[k].op \in {"likwid_markerThreadInit", "likwid_markerStartRegion", "likwid_markerStopRegion",
                          "polliTracingScopStart", "polliTracingScopStop"}
          /\ c[k].op \in LikwidCalls => env.likwid /\ c[k].arg = f
          /\ c[k].op \in ScopCalls => env.papi /\ c[k].id \in Nat
      <4>0. ScopId(m, f) \in Nat
        BY ScopIdIs DEF IsBlock
      <4>1. 1 <= k
        BY <1>8
      <4>2. CASE k <= n1 /\ c[k].op = "likwid_markerThreadInit"
        BY <4>2 DEF LikwidCalls, ScopCalls
      <4>3. CASE c[k] = Plain("likwid_markerStartRegion", f) /\ 0 < n1
        BY <1>8, <4>3 DEF LikwidCalls, ScopCalls, Plain, Instr
      <4>4. CASE c[k] = ScopStart(m, f) /\ n1 < n2
        BY <1>8, <4>0, <4>4 DEF LikwidCalls, ScopCalls, ScopStart, Instr
      <4>5. CASE c[k] = ScopStop(m, f) /\ n3 < n4
        BY <1>8, <4>0, <4>5 DEF LikwidCalls, ScopCalls, ScopStop, Instr
      <4>6. CASE c[k] = Plain("likwid_markerStopRegion", f) /\ n4 < Len(c)
        BY <1>8, <4>6 DEF LikwidCalls, ScopCalls, Plain, Instr
      <4>7. k < n1 /\ c[k] = Plain("likwid_markerThreadInit", None) =>
              k <= n1 /\ c[k].op = "likwid_markerThreadInit"
        BY <1>8 DEF Plain, Instr
      <4>8. k = n1 => 0 < n1
        BY <1>8, <4>1
      <4>9. QED
        BY <2>3, <4>2, <4>3, <4>4, <4>5, <4>6, <4>7, <4>8
    <3>2. MarksOk(fr, k)
      BY <1>5, <1>9, <3>1 DEF MarksOk, RegionCalls
    <3>3. LoopsOk(fr, k) /\ RestOk(fr, k)
      BY <1>5, <3>1 DEF LoopsOk, RestOk
    <3>4. c[k].op \in CallerOps /\ c[k].op \in FunctionOps
      BY <3>1 DEF CallerOps, FunctionOps, LikwidCalls, ScopCalls
    <3>5. QED
      BY <3>2, <3>3, <3>4
  <2>4. QED
    BY <2>1, <2>2, <2>3 DEF PartOf
<1>11. FrameOk(fr, CallerOps)
  BY <1>2, <1>5, <1>6, <1>7, <1>10, DifferentOps DEF FrameOk
<1>12. f \in SubFunctions(Modules[m]) => FrameOk(fr, FunctionOps)
  <2>1. f \in SubFunctions(Modules[m]) => SubFunction(fr, fr.fn)
    BY <1>5 DEF SubFunction, IsBlock
  <2>2. QED
    BY <1>2, <1>5, <1>6, <1>7, <1>10, <2>1, DifferentOps DEF FrameOk
<1>13. b = 1 /\ f \in SubFunctions(Modules[m]) /\ env.likwid => AtCall(fr, {"likwid_markerThreadInit"})
  <2>1. SUFFICES ASSUME b = 1, f \in SubFunctions(Modules[m]), env.likwid
                 PROVE  AtCall(fr, {"likwid_markerThreadInit"})
    OBVIOUS
  <2>2. 1 < n1
    BY <1>3, <2>1 DEF Parts
  <2>3. 1 \in 1..n1 /\ 1 # n1 /\ 1 \in DOMAIN c
    BY <1>8, <2>2
  <2>4. c[1] = Plain("likwid_markerThreadInit", None)
    BY <1>3, <2>3 DEF Parts
  <2>5. c # <<>> /\ Head(c) = c[1]
    BY <1>2, <2>3
  <2>6. QED
    BY <1>5, <2>4, <2>5 DEF AtCall, Plain, Instr
<1>14. QED
  BY <1>6, <1>11, <1>12, <1>13
-----------------------------------------------------------------------------
(* Frames of the runtime.                                                  *)
BracketAt(lib, fr, i) ==
  /\ Opening(lib, fr.code[i]) => After(lib, fr, i, <<Name(lib, fr.code[i])>>)
  /\ Closing(lib, fr.code[i]) => After(lib, fr, i, <<>>)

(* What the next mark says of what is open, and the end.                   *)
LEMMA NextMark ==
  ASSUME NEW fr, IsFrame(fr), NEW lib, NEW i \in Nat
  PROVE  /\ i + 1 \in DOMAIN fr.code =>
              /\ Opening(lib, fr.code[i + 1]) => After(lib, fr, i, <<>>)
              /\ Closing(lib, fr.code[i + 1]) => After(lib, fr, i, <<Name(lib, fr.code[i + 1])>>)
         /\ i = Len(fr.code) => After(lib, fr, i, Rest(lib, fr))
<1>1. \A j \in DOMAIN fr.code : j \in Nat /\ j <= Len(fr.code)
  BY DEF IsFrame
<1>2. ASSUME i + 1 \in DOMAIN fr.code, Goes(lib, fr.code[i + 1].op),
             NEW x, Opening(lib, fr.code[i + 1]) => x = <<>>,
             Closing(lib, fr.code[i + 1]) => x = <<Name(lib, fr.code[i + 1])>>
      PROVE  After(lib, fr, i, x)
  <2>1. i < i + 1
    OBVIOUS
  <2>2. \A j \in DOMAIN fr.code : i < j /\ Quiet(lib, fr.code, i, j) => j = i + 1
    <3>1. SUFFICES ASSUME NEW j \in DOMAIN fr.code, i < j, Quiet(lib, fr.code, i, j), j # i + 1
                   PROVE  FALSE
      OBVIOUS
    <3>2. i + 1 < j
      BY <1>1, <3>1
    <3>3. QED
      BY <1>2, <2>1, <3>1, <3>2 DEF Quiet
  <2>3. ~ \A k \in DOMAIN fr.code : i < k => ~Goes(lib, fr.code[k].op)
    BY <1>2, <2>1
  <2>4. \A j \in DOMAIN fr.code : i < j /\ Quiet(lib, fr.code, i, j) =>
          /\ Opening(lib, fr.code[j]) => x = <<>>
          /\ Closing(lib, fr.code[j]) => x = <<Name(lib, fr.code[j])>>
    BY <1>2, <2>2
  <2>5. QED
    BY <2>3, <2>4, Zenon DEF After
<1>3. ASSUME i + 1 \in DOMAIN fr.code, Opening(lib, fr.code[i + 1]) PROVE After(lib, fr, i, <<>>)
  BY <1>2, <1>3 DEF Opening, Closing
<1>4. ASSUME i + 1 \in DOMAIN fr.code, Closing(lib, fr.code[i + 1])
      PROVE  After(lib, fr, i, <<Name(lib, fr.code[i + 1])>>)
  BY <1>2, <1>4 DEF Opening, Closing
<1>5. ASSUME i = Len(fr.code) PROVE After(lib, fr, i, Rest(lib, fr))
  <2>1. \A j \in DOMAIN fr.code : ~(i < j)
    BY <1>1, <1>5
  <2>2. QED
    BY <2>1 DEF After
<1>6. QED
  BY <1>3, <1>4, <1>5

(* A region that begins and ends at once.                                  *)
LEMMA RegionPair ==
  ASSUME NEW fr, IsFrame(fr), NEW lib \in Libs, NEW i \in Nat,
         NEW j, j = i + 1, NEW k, k = i + 2, j \in DOMAIN fr.code, k \in DOMAIN fr.code,
         NEW id, NEW name, fr.code[j] = RegionStart(id, name), fr.code[k] = RegionStop(id, name),
         After(lib, fr, k, <<>>)
  PROVE  After(lib, fr, i, <<>>) /\ BracketAt(lib, fr, j) /\ BracketAt(lib, fr, k)
<1>1. /\ fr.code[j].op = "polliTracingRegionStart" /\ fr.code[k].op = "polliTracingRegionStop"
      /\ Name(lib, fr.code[j]) = Name(lib, fr.code[k])
      /\ j \in Nat /\ k \in Nat /\ k = j + 1
  BY DEF RegionStart, RegionStop, Instr, Name
<1>2. PICK c, d : c = fr.code[j] /\ d = fr.code[k]
  OBVIOUS
<1>3. /\ (Opening(lib, c) <=> Goes(lib, c.op)) /\ ~Closing(lib, c)
      /\ (Closing(lib, d) <=> Goes(lib, d.op)) /\ ~Opening(lib, d)
      /\ Goes(lib, c.op) <=> Goes(lib, d.op)
  <2>1. (Opening(lib, c) <=> Goes(lib, c.op)) /\ ~Closing(lib, c)
    BY <1>1, <1>2, Telling
  <2>2. (Closing(lib, d) <=> Goes(lib, d.op)) /\ ~Opening(lib, d)
    BY <1>1, <1>2, Telling
  <2>3. Goes(lib, c.op) <=> Goes(lib, d.op)
    BY <1>1, <1>2 DEF Goes, TracerCalls, LikwidCalls
  <2>4. QED
    BY <2>1, <2>2, <2>3
<1>4. BracketAt(lib, fr, k)
  BY <1>2, <1>3 DEF BracketAt
<1>5. CASE Goes(lib, c.op)
  <2>1. After(lib, fr, i, <<>>)
    <3>1. i + 1 \in DOMAIN fr.code /\ Opening(lib, fr.code[i + 1])
      BY <1>2, <1>3, <1>5
    <3>2. QED
      BY <3>1, NextMark
  <2>2. After(lib, fr, j, <<Name(lib, fr.code[j])>>)
    <3>1. j + 1 \in DOMAIN fr.code /\ Closing(lib, fr.code[j + 1])
      BY <1>1, <1>2, <1>3, <1>5
    <3>2. After(lib, fr, j, <<Name(lib, fr.code[j + 1])>>)
      BY <1>1, <3>1, NextMark
    <3>3. QED
      BY <1>1, <3>2
  <2>3. BracketAt(lib, fr, j)
    BY <1>2, <1>3, <2>2 DEF BracketAt
  <2>4. QED
    BY <1>4, <2>1, <2>3
<1>6. CASE ~Goes(lib, c.op)
  <2>1. After(lib, fr, j, <<>>) <=> After(lib, fr, j + 1, <<>>)
    <3>1. j + 1 \in DOMAIN fr.code /\ ~Goes(lib, fr.code[j + 1].op)
      BY <1>1, <1>2, <1>3, <1>6
    <3>2. QED
      BY <1>1, <3>1, QuietHead
  <2>2. After(lib, fr, i, <<>>) <=> After(lib, fr, i + 1, <<>>)
    <3>1. i + 1 \in DOMAIN fr.code /\ ~Goes(lib, fr.code[i + 1].op)
      BY <1>2, <1>6
    <3>2. QED
      BY <3>1, QuietHead
  <2>3. After(lib, fr, i, <<>>)
    BY <1>1, <2>1, <2>2
  <2>4. BracketAt(lib, fr, j)
    BY <1>2, <1>3, <1>6 DEF BracketAt
  <2>5. QED
    BY <1>4, <2>3, <2>4
<1>7. QED
  BY <1>5, <1>6

(* The instructions of the runtime.                                        *)
LEMMA BatchInstrs ==
  /\ Batch = <<RegionStart(PJIT_REGION_CODEGEN, "polyjit.codegen"), Plain("requests", None),
               RegionStop(PJIT_REGION_CODEGEN, "polyjit.codegen")>>
  /\ Batch \in Seq(Instrs)
<1>1. /\ RegionStart(PJIT_REGION_CODEGEN, "polyjit.codegen") \in Instrs
      /\ RegionStop(PJIT_REGION_CODEGEN, "polyjit.codegen") \in Instrs
  BY DEF RegionStart, RegionStop, Instr, Instrs, Args, Ops, GeneratorOps, RequestOps, RegionCalls,
         PJIT_REGION_CODEGEN, RegionNames
<1>2. Plain("requests", None) \in Instrs
  BY DEF Plain, Instr, Instrs, Args, Ops, GeneratorOps
<1>3. QED
  BY <1>1, <1>2 DEF Batch

(* Those of a call, and of a request.                                      *)
LEMMA RuntimeInstrs ==
  ASSUME NEW m \in DOMAIN Modules
  PROVE  /\ PjitMain(m) \in Seq(Instrs) /\ Len(PjitMain(m)) = 3
         /\ PjitMain(m)[1] = RegionStart(PJIT_REGION_SELECT_PARAMS, "polyjit.params.select")
         /\ PjitMain(m)[2] = RegionStop(PJIT_REGION_SELECT_PARAMS, "polyjit.params.select")
         /\ PjitMain(m)[3] = Plain("run", m)
         /\ Request(m) \in Seq(Instrs) /\ Len(Request(m)) = 5
         /\ Request(m)[1] = RegionStart(PJIT_REGION_GET_PROTOTYPE, "polyjit.prototype.get")
         /\ Request(m)[2] = RegionStop(PJIT_REGION_GET_PROTOTYPE, "polyjit.prototype.get")
         /\ Request(m)[3] = RegionStart(PJIT_REGION_SELECT_PARAMS, "polyjit.params.select")
         /\ Request(m)[4] = RegionStop(PJIT_REGION_SELECT_PARAMS, "polyjit.params.select")
         /\ Request(m)[5] = Plain("compile", m)
<1>1. ASSUME NEW id \in Int, NEW name \in RegionNames
      PROVE  RegionStart(id, name) \in Instrs /\ RegionStop(id, name) \in Instrs
  BY DEF RegionStart, RegionStop, Instr, Instrs, Args, Ops, GeneratorOps, RequestOps, RegionCalls
<1>2. Plain("run", m) \in Instrs /\ Plain("compile", m) \in Instrs
  BY DEF Plain, Instr, Instrs, Args, Ops, GeneratorOps, RequestOps, CallerOps
<1>3. PICK a1, a2, b1, b2 :
        /\ a1 = RegionStart(PJIT_REGION_SELECT_PARAMS, "polyjit.params.select")
        /\ a2 = RegionStop(PJIT_REGION_SELECT_PARAMS, "polyjit.params.select")
        /\ b1 = RegionStart(PJIT_REGION_GET_PROTOTYPE, "polyjit.prototype.get")
        /\ b2 = RegionStop(PJIT_REGION_GET_PROTOTYPE, "polyjit.prototype.get")
  OBVIOUS
<1>4. PICK r, q : r = Plain("run", m) /\ q = Plain("compile", m)
  OBVIOUS
<1>5. /\ a1 \in Instrs /\ a2 \in Instrs /\ b1 \in Instrs /\ b2 \in Instrs
      /\ r \in Instrs /\ q \in Instrs
  BY <1>1, <1>2, <1>3, <1>4
     DEF PJIT_REGION_GET_PROTOTYPE, PJIT_REGION_SELECT_PARAMS, RegionNames
<1>7. PjitMain(m) = <<a1, a2>> \o <<r>> /\ Request(m) = (<<b1, b2>> \o <<a1, a2>>) \o <<q>>
  BY <1>3, <1>4, Zenon DEF PjitMain, Request, RunValues, GetPrototype, Region
<1>8. PICK a, b, x, y : a = <<a1, a2>> /\ b = <<b1, b2>> /\ x = <<r>> /\ y = <<q>>
  OBVIOUS
<1>9. /\ a \in Seq(Instrs) /\ Len(a) = 2 /\ a[1] = a1 /\ a[2] = a2
      /\ b \in Seq(Instrs) /\ Len(b) = 2 /\ b[1] = b1 /\ b[2] = b2
      /\ x \in Seq(Instrs) /\ Len(x) = 1 /\ x[1] = r
      /\ y \in Seq(Instrs) /\ Len(y) = 1 /\ y[1] = q
  BY <1>5, <1>8
<1>10. PICK u, v : u = a \o x /\ v = (b \o a) \o y
  OBVIOUS
<1>11. /\ u \in Seq(Instrs) /\ Len(u) = 3
       /\ u[1] = a1 /\ u[2] = a2 /\ u[3] = r
  <2>1. /\ u \in Seq(Instrs) /\ Len(u) = Len(a) + Len(x)
        /\ \A i \in 1..Len(a) : u[i] = a[i]
        /\ \A i \in 1..Len(x) : u[Len(a) + i] = x[i]
    <3>1. a \in Seq(Instrs) /\ x \in Seq(Instrs)
      BY <1>9
    <3>2. /\ a \o x \in Seq(Instrs) /\ Len(a \o x) = Len(a) + Len(x)
          /\ \A i \in 1..Len(a) : (a \o x)[i] = a[i]
          /\ \A i \in 1..Len(x) : (a \o x)[Len(a) + i] = x[i]
      BY <3>1, TwoParts
    <3>3. QED
      BY <1>10, <3>2, Zenon
  <2>2. 1 \in 1..Len(a) /\ 2 \in 1..Len(a) /\ 1 \in 1..Len(x) /\ Len(a) + 1 = 3 /\ Len(u) = 3
    BY <1>9, <2>1
  <2>3. u[1] = a[1] /\ u[2] = a[2] /\ u[Len(a) + 1] = x[1]
    BY <2>1, <2>2
  <2>4. QED
    BY <1>9, <2>1, <2>2, <2>3
<1>12. /\ v \in Seq(Instrs) /\ Len(v) = 5
       /\ v[1] = b1 /\ v[2] = b2 /\ v[3] = a1 /\ v[4] = a2 /\ v[5] = q
  <2>1. /\ v \in Seq(Instrs) /\ Len(v) = Len(b) + Len(a) + Len(y)
        /\ \A i \in 1..Len(b) : v[i] = b[i]
        /\ \A i \in 1..Len(a) : v[Len(b) + i] = a[i]
        /\ \A i \in 1..Len(y) : v[Len(b) + Len(a) + i] = y[i]
    <3>1. a \in Seq(Instrs) /\ b \in Seq(Instrs) /\ y \in Seq(Instrs)
      BY <1>9
    <3>2. /\ (b \o a) \o y \in Seq(Instrs) /\ Len((b \o a) \o y) = Len(b) + Len(a) + Len(y)
          /\ \A i \in 1..Len(b) : ((b \o a) \o y)[i] = b[i]
          /\ \A i \in 1..Len(a) : ((b \o a) \o y)[Len(b) + i] = a[i]
          /\ \A i \in 1..Len(y) : ((b \o a) \o y)[Len(b) + Len(a) + i] = y[i]
      BY <3>1, ThreeParts
    <3>3. QED
      BY <1>10, <3>2, Zenon
  <2>2. /\ 1 \in 1..Len(a) /\ 2 \in 1..Len(a) /\ 1 \in 1..Len(b) /\ 2 \in 1..Len(b) /\ 1 \in 1..Len(y)
        /\ Len(b) + 1 = 3 /\ Len(b) + 2 = 4 /\ Len(b) + Len(a) + 1 = 5 /\ Len(v) = 5
    BY <1>9, <2>1
  <2>3. v[1] = b[1] /\ v[2] = b[2] /\ v[Len(b) + 1] = a[1] /\ v[Len(b) + 2] = a[2]
        /\ v[Len(b) + Len(a) + 1] = y[1]
    BY <2>1, <2>2
  <2>4. QED
    BY <1>9, <2>1, <2>2, <2>3
<1>13. u = PjitMain(m) /\ v = Request(m)
  BY <1>7, <1>8, <1>10
<1>14. QED
  BY <1>3, <1>4, <1>11, <1>12, <1>13

(* The regions of the runtime.                                             *)
LEMMA RegionOk ==
  ASSUME NEW fr, NEW k, NEW id \in Regions, NEW name \in RegionNames \ {"polyjit.main"},
         fr.code[k] = RegionStart(id, name) \/ fr.code[k] = RegionStop(id, name)
  PROVE  /\ fr.code[k].op \in RegionCalls
         /\ MarksOk(fr, k) /\ LoopsOk(fr, k) /\ RestOk(fr, k)
<1>1. fr.code[k].op \in RegionCalls /\ fr.code[k].id = id /\ fr.code[k].arg = name
  BY DEF RegionStart, RegionStop, Instr, RegionCalls
<1>2. MarksOk(fr, k)
  BY <1>1 DEF MarksOk, RegionCalls, ScopCalls, LikwidCalls
<1>3. LoopsOk(fr, k) /\ RestOk(fr, k)
  BY <1>1 DEF LoopsOk, RestOk, RegionCalls
<1>4. QED
  BY <1>1, <1>2, <1>3

(* What all frames of the runtime have in common.                          *)
LEMMA RuntimeFrameIs ==
  ASSUME NEW f, NEW code, code \in Seq(Instrs), NEW fr, fr = RuntimeFrame(f, code)
  PROVE  /\ fr.mod = "runtime" /\ fr.fn = f /\ fr.code = code /\ fr.next = {} /\ IsFrame(fr)
         /\ OfRuntime(fr) /\ \A lib : Rest(lib, fr) = <<>>
<1>1. fr = [mod |-> "runtime", fn |-> f, code |-> code, next |-> {}]
  BY DEF RuntimeFrame, Frame, Block
<1>2. fr.mod = "runtime" /\ fr.fn = f /\ fr.code = code /\ fr.next = {}
  BY <1>1
<1>3. QED
  BY <1>1, <1>2 DEF IsFrame, OfRuntime, Rest

(* A call of the runtime.                                                  *)
LEMMA CallFrame ==
  ASSUME NEW m \in DOMAIN Modules, NEW fr, fr = RuntimeFrame("pjit_main", PjitMain(m))
  PROVE  FrameOk(fr, CallerOps) /\ \A lib \in Libs : After(lib, fr, 0, <<>>)
<1>1. PICK c : c = PjitMain(m)
  OBVIOUS
<1>2. /\ c \in Seq(Instrs) /\ Len(c) = 3 /\ c[3] = Plain("run", m)
      /\ c[1] = RegionStart(PJIT_REGION_SELECT_PARAMS, "polyjit.params.select")
      /\ c[2] = RegionStop(PJIT_REGION_SELECT_PARAMS, "polyjit.params.select")
  BY <1>1, RuntimeInstrs
<1>3. fr.mod = "runtime" /\ fr.code = c /\ fr.next = {} /\ IsFrame(fr)
      /\ OfRuntime(fr) /\ \A lib : Rest(lib, fr) = <<>>
  BY <1>1, <1>2, RuntimeFrameIs
<1>4. /\ DOMAIN c = 1..3 /\ 1 = 0 + 1 /\ 2 = 0 + 2 /\ 0 \in Nat /\ 2 \in Nat /\ 3 = 2 + 1 /\ 3 \in Nat
      /\ 1 \in DOMAIN c /\ 2 \in DOMAIN c /\ 3 \in DOMAIN c /\ \A i \in DOMAIN c : i \in {1, 2, 3}
  <2>1. DOMAIN c = 1..3
    BY <1>2
  <2>2. QED
    BY <2>1
<1>5. ASSUME NEW lib \in Libs PROVE After(lib, fr, 0, <<>>) /\ Bracketed(lib, fr)
  <2>1. ~Goes(lib, c[3].op)
    BY <1>2 DEF Plain, Instr, Goes, TracerCalls, LikwidCalls
  <2>2. After(lib, fr, 3, <<>>)
    <3>1. After(lib, fr, 3, Rest(lib, fr))
      BY <1>2, <1>3, <1>4, NextMark
    <3>2. QED
      BY <1>3, <3>1
  <2>3. After(lib, fr, 2, <<>>)
    <3>1. After(lib, fr, 2, <<>>) <=> After(lib, fr, 2 + 1, <<>>)
      BY <1>3, <1>4, <2>1, QuietHead
    <3>2. QED
      BY <1>4, <2>2, <3>1
  <2>4. After(lib, fr, 0, <<>>) /\ BracketAt(lib, fr, 1) /\ BracketAt(lib, fr, 2)
    BY <1>2, <1>3, <1>4, <2>3, RegionPair
  <2>5. BracketAt(lib, fr, 3)
    BY <1>3, <2>1 DEF BracketAt, Opening, Closing
  <2>6. \A i \in DOMAIN fr.code : BracketAt(lib, fr, i)
    BY <1>3, <1>4, <2>4, <2>5
  <2>7. QED
    BY <2>4, <2>6, Zenon DEF Bracketed, BracketAt
<1>6. ASSUME NEW i \in DOMAIN c
      PROVE  fr.code[i].op \in CallerOps /\ MarksOk(fr, i) /\ LoopsOk(fr, i) /\ RestOk(fr, i)
  <2>1. CASE i \in {1, 2}
    <3>1. PICK id, name : id = PJIT_REGION_SELECT_PARAMS /\ name = "polyjit.params.select"
      OBVIOUS
    <3>2. id \in Regions /\ name \in RegionNames \ {"polyjit.main"}
      BY <3>1 DEF Regions, RegionNames
    <3>3. fr.code[i] = RegionStart(id, name) \/ fr.code[i] = RegionStop(id, name)
      BY <1>2, <1>3, <2>1, <3>1
    <3>4. QED
      BY <3>2, <3>3, RegionOk DEF CallerOps
  <2>2. CASE i = 3
    <3>1. fr.code[i].op = "run" /\ fr.code[i].arg = m
      BY <1>2, <1>3, <2>2 DEF Plain, Instr
    <3>2. MarksOk(fr, i) /\ LoopsOk(fr, i)
      BY <3>1 DEF MarksOk, LoopsOk, RegionCalls, ScopCalls, LikwidCalls
    <3>3. RestOk(fr, i)
      BY <1>2, <1>3, <2>2, <3>1 DEF RestOk
    <3>4. QED
      BY <3>1, <3>2, <3>3 DEF CallerOps
  <2>3. QED
    BY <1>4, <2>1, <2>2
<1>7. FrameOk(fr, CallerOps)
  BY <1>2, <1>3, <1>5, <1>6, DifferentOps DEF FrameOk, IsFrame
<1>8. QED
  BY <1>5, <1>7

(* A request.                                                              *)
LEMMA RequestFrame ==
  ASSUME NEW m \in DOMAIN Modules, NEW fr, fr = RuntimeFrame("request", Request(m))
  PROVE  FrameOk(fr, RequestOps) /\ \A lib \in Libs : After(lib, fr, 0, <<>>)
<1>1. PICK c : c = Request(m)
  OBVIOUS
<1>2. /\ c \in Seq(Instrs) /\ Len(c) = 5 /\ c[5] = Plain("compile", m)
      /\ c[1] = RegionStart(PJIT_REGION_GET_PROTOTYPE, "polyjit.prototype.get")
      /\ c[2] = RegionStop(PJIT_REGION_GET_PROTOTYPE, "polyjit.prototype.get")
      /\ c[3] = RegionStart(PJIT_REGION_SELECT_PARAMS, "polyjit.params.select")
      /\ c[4] = RegionStop(PJIT_REGION_SELECT_PARAMS, "polyjit.params.select")
  BY <1>1, RuntimeInstrs
<1>3. fr.mod = "runtime" /\ fr.code = c /\ fr.next = {} /\ IsFrame(fr)
      /\ OfRuntime(fr) /\ \A lib : Rest(lib, fr) = <<>>
  BY <1>1, <1>2, RuntimeFrameIs
<1>4. /\ 1 = 0 + 1 /\ 2 = 0 + 2 /\ 3 = 2 + 1 /\ 4 = 2 + 2 /\ 5 = 4 + 1
      /\ 0 \in Nat /\ 2 \in Nat /\ 4 \in Nat /\ 5 \in Nat
      /\ 1 \in DOMAIN c /\ 2 \in DOMAIN c /\ 3 \in DOMAIN c /\ 4 \in DOMAIN c /\ 5 \in DOMAIN c
      /\ \A i \in DOMAIN c : i \in {1, 2, 3, 4, 5}
  <2>1. DOMAIN c = 1..5
    BY <1>2
  <2>2. QED
    BY <2>1
<1>5. ASSUME NEW lib \in Libs PROVE After(lib, fr, 0, <<>>) /\ Bracketed(lib, fr)
  <2>1. ~Goes(lib, c[5].op)
    BY <1>2 DEF Plain, Instr, Goes, TracerCalls, LikwidCalls
  <2>2. After(lib, fr, 5, <<>>)
    <3>1. After(lib, fr, 5, Rest(lib, fr))
      BY <1>2, <1>3, <1>4, NextMark
    <3>2. QED
      BY <1>3, <3>1
  <2>3. After(lib, fr, 4, <<>>)
    <3>1. After(lib, fr, 4, <<>>) <=> After(lib, fr, 4 + 1, <<>>)
      BY <1>3, <1>4, <2>1, QuietHead
    <3>2. QED
      BY <1>4, <2>2, <3>1
  <2>4. After(lib, fr, 2, <<>>) /\ BracketAt(lib, fr, 3) /\ BracketAt(lib, fr, 4)
    BY <1>2, <1>3, <1>4, <2>3, RegionPair
  <2>5. After(lib, fr, 0, <<>>) /\ BracketAt(lib, fr, 1) /\ BracketAt(lib, fr, 2)
    <3>1. PICK i, j, k, id, name : /\ i = 0 /\ j = 1 /\ k = 2 /\ id = PJIT_REGION_GET_PROTOTYPE
                                   /\ name = "polyjit.prototype.get"
      OBVIOUS
    <3>2. i \in Nat /\ j = i + 1 /\ k = i + 2 /\ j \in DOMAIN fr.code /\ k \in DOMAIN fr.code
      BY <1>3, <1>4, <3>1
    <3>3. fr.code[j] = RegionStart(id, name) /\ fr.code[k] = RegionStop(id, name)
      BY <1>2, <1>3, <3>1
    <3>4. After(lib, fr, k, <<>>)
      BY <2>4, <3>1
    <3>5. After(lib, fr, i, <<>>) /\ BracketAt(lib, fr, j) /\ BracketAt(lib, fr, k)
      BY <1>3, <3>2, <3>3, <3>4, RegionPair
    <3>6. QED
      BY <3>1, <3>5
  <2>6. BracketAt(lib, fr, 5)
    BY <1>3, <2>1 DEF BracketAt, Opening, Closing
  <2>7. \A i \in DOMAIN fr.code : BracketAt(lib, fr, i)
    BY <1>3, <1>4, <2>4, <2>5, <2>6
  <2>8. QED
    BY <2>5, <2>7, Zenon DEF Bracketed, BracketAt
<1>6. ASSUME NEW i \in DOMAIN c
      PROVE  fr.code[i].op \in RequestOps /\ MarksOk(fr, i) /\ LoopsOk(fr, i) /\ RestOk(fr, i)
  <2>1. CASE i \in {1, 2, 3, 4}
    <3>1. PICK id, name :
            /\ id = IF i \in {1, 2} THEN PJIT_REGION_GET_PROTOTYPE ELSE PJIT_REGION_SELECT_PARAMS
            /\ name = IF i \in {1, 2} THEN "polyjit.prototype.get" ELSE "polyjit.params.select"
      OBVIOUS
    <3>2. id \in Regions /\ name \in RegionNames \ {"polyjit.main"}
      BY <3>1 DEF Regions, RegionNames
    <3>3. fr.code[i] = RegionStart(id, name) \/ fr.code[i] = RegionStop(id, name)
      BY <1>2, <1>3, <2>1, <3>1
    <3>4. QED
      BY <3>2, <3>3, RegionOk DEF RequestOps
  <2>2. CASE i = 5
    <3>1. fr.code[i].op = "compile" /\ fr.code[i].arg = m
      BY <1>2, <1>3, <2>2 DEF Plain, Instr
    <3>2. MarksOk(fr, i) /\ LoopsOk(fr, i) /\ RestOk(fr, i)
      BY <3>1 DEF MarksOk, LoopsOk, RestOk, RegionCalls, ScopCalls, LikwidCalls
    <3>3. QED
      BY <3>1, <3>2 DEF RequestOps
  <2>3. QED
    BY <1>4, <2>1, <2>2
<1>7. \A i \in DOMAIN c : c[i].id # PJIT_REGION_CODEGEN
  <2>1. c[5].id = 0
    BY <1>2 DEF Plain, Instr
  <2>2. c[1].id = -3 /\ c[2].id = -3 /\ c[3].id = -4 /\ c[4].id = -4
    BY <1>2 DEF RegionStart, RegionStop, Instr, PJIT_REGION_GET_PROTOTYPE, PJIT_REGION_SELECT_PARAMS
  <2>3. QED
    BY <1>4, <2>1, <2>2 DEF PJIT_REGION_CODEGEN
<1>8. FrameOk(fr, RequestOps)
  BY <1>2, <1>3, <1>5, <1>6, <1>7, DifferentOps DEF FrameOk, IsFrame
<1>9. QED
  BY <1>5, <1>8

(* The generator, which has its region open while it works on requests.    *)
LEMMA BatchFrame ==
  ASSUME NEW fr, fr = RuntimeFrame("generator", Batch)
  PROVE  FrameOk(fr, GeneratorOps) /\ \A lib \in Libs : After(lib, fr, 0, <<>>)
<1>1. PICK c : c = Batch
  OBVIOUS
<1>2. /\ c \in Seq(Instrs) /\ Len(c) = 3 /\ c[2] = Plain("requests", None)
      /\ c[1] = RegionStart(PJIT_REGION_CODEGEN, "polyjit.codegen")
      /\ c[3] = RegionStop(PJIT_REGION_CODEGEN, "polyjit.codegen")
  BY <1>1, BatchInstrs
<1>3. fr.mod = "runtime" /\ fr.code = c /\ fr.next = {} /\ IsFrame(fr)
      /\ OfRuntime(fr) /\ \A lib : Rest(lib, fr) = <<>>
  BY <1>1, <1>2, RuntimeFrameIs
<1>4. /\ 1 = 0 + 1 /\ 2 = 1 + 1 /\ 3 = 2 + 1
      /\ 0 \in Nat /\ 1 \in Nat /\ 2 \in Nat /\ 3 \in Nat
      /\ 1 \in DOMAIN c /\ 2 \in DOMAIN c /\ 3 \in DOMAIN c /\ \A i \in DOMAIN c : i \in {1, 2, 3}
  <2>1. DOMAIN c = 1..3
    BY <1>2
  <2>2. QED
    BY <2>1
<1>5. ASSUME NEW lib \in Libs
      PROVE  After(lib, fr, 0, <<>>) /\ Bracketed(lib, fr) /\ After(lib, fr, 2, Generating(lib))
  <2>1. ~Goes(lib, c[2].op)
    BY <1>2 DEF Plain, Instr, Goes, TracerCalls, LikwidCalls
  <2>2. After(lib, fr, 3, <<>>)
    <3>1. After(lib, fr, 3, Rest(lib, fr))
      BY <1>2, <1>3, <1>4, NextMark
    <3>2. QED
      BY <1>3, <3>1
  <2>3. PICK s, e : s = c[1] /\ e = c[3]
    OBVIOUS
  <2>4. /\ s.op = "polliTracingRegionStart" /\ e.op = "polliTracingRegionStop"
        /\ s.id = PJIT_REGION_CODEGEN /\ e.id = PJIT_REGION_CODEGEN
        /\ s.arg = "polyjit.codegen" /\ e.arg = "polyjit.codegen"
    BY <1>2, <2>3 DEF RegionStart, RegionStop, Instr
  <2>5. Name(lib, s) = Name(lib, e)
    BY <2>4 DEF Name
  <2>6. /\ (Opening(lib, s) <=> Goes(lib, s.op)) /\ ~Closing(lib, s)
        /\ (Closing(lib, e) <=> Goes(lib, e.op)) /\ ~Opening(lib, e)
    BY <2>4, Telling
  <2>7. Goes(lib, s.op) <=> Goes(lib, e.op)
    BY <2>4 DEF Goes, TracerCalls, LikwidCalls
  <2>8. /\ Goes(lib, s.op) => Generating(lib) = <<Name(lib, e)>>
        /\ ~Goes(lib, s.op) => Generating(lib) = <<>>
    <3>1. Goes(lib, s.op) <=> (lib = "papi" <=> env.papi)
      <4>1. s.op \in ScopCalls \cup RegionCalls
        BY <2>4 DEF RegionCalls
      <4>2. QED
        BY <4>1, Telling
    <3>2. Narrow(PJIT_REGION_CODEGEN) = PJIT_REGION_CODEGEN
      BY DEF Narrow, PJIT_REGION_CODEGEN
    <3>3. QED
      BY <2>4, <3>1, <3>2 DEF Generating, Name
  <2>9. After(lib, fr, 2, Generating(lib))
    <3>1. CASE Goes(lib, s.op)
      <4>1. 2 + 1 \in DOMAIN fr.code /\ Closing(lib, fr.code[2 + 1])
        BY <1>3, <1>4, <2>3, <2>6, <2>7, <3>1
      <4>2. After(lib, fr, 2, <<Name(lib, fr.code[2 + 1])>>)
        BY <1>3, <1>4, <4>1, NextMark
      <4>3. QED
        BY <1>3, <1>4, <2>3, <2>8, <3>1, <4>2
    <3>2. CASE ~Goes(lib, s.op)
      <4>1. 2 + 1 \in DOMAIN fr.code /\ ~Goes(lib, fr.code[2 + 1].op)
        BY <1>3, <1>4, <2>3, <2>7, <3>2
      <4>2. After(lib, fr, 2, <<>>) <=> After(lib, fr, 2 + 1, <<>>)
        BY <1>3, <1>4, <4>1, QuietHead
      <4>3. QED
        BY <1>4, <2>2, <2>8, <3>2, <4>2
    <3>3. QED
      BY <3>1, <3>2
  <2>10. After(lib, fr, 1, Generating(lib))
    <3>1. 1 + 1 \in DOMAIN fr.code /\ ~Goes(lib, fr.code[1 + 1].op)
      BY <1>3, <1>4, <2>1
    <3>2. \A x : After(lib, fr, 1, x) <=> After(lib, fr, 1 + 1, x)
      BY <1>3, <1>4, <3>1, QuietHead
    <3>3. QED
      BY <1>4, <2>9, <3>2
  <2>11. After(lib, fr, 0, <<>>)
    <3>1. CASE Goes(lib, s.op)
      <4>1. 0 + 1 \in DOMAIN fr.code /\ Opening(lib, fr.code[0 + 1])
        BY <1>3, <1>4, <2>3, <2>6, <3>1
      <4>2. QED
        BY <1>3, <1>4, <4>1, NextMark
    <3>2. CASE ~Goes(lib, s.op)
      <4>1. 0 + 1 \in DOMAIN fr.code /\ ~Goes(lib, fr.code[0 + 1].op)
        BY <1>3, <1>4, <2>3, <3>2
      <4>2. After(lib, fr, 0, <<>>) <=> After(lib, fr, 0 + 1, <<>>)
        BY <1>3, <1>4, <4>1, QuietHead
      <4>3. QED
        BY <1>4, <2>8, <2>10, <3>2, <4>2
    <3>3. QED
      BY <3>1, <3>2
  <2>12. BracketAt(lib, fr, 1)
    BY <1>3, <2>3, <2>5, <2>6, <2>8, <2>10 DEF BracketAt
  <2>13. BracketAt(lib, fr, 2)
    BY <1>3, <2>1 DEF BracketAt, Opening, Closing
  <2>14. BracketAt(lib, fr, 3)
    BY <1>3, <2>2, <2>3, <2>6 DEF BracketAt
  <2>15. \A i \in DOMAIN fr.code : BracketAt(lib, fr, i)
    BY <1>3, <1>4, <2>12, <2>13, <2>14
  <2>16. QED
    BY <2>9, <2>11, <2>15, Zenon DEF Bracketed, BracketAt
<1>6. ASSUME NEW i \in DOMAIN c
      PROVE  fr.code[i].op \in GeneratorOps /\ MarksOk(fr, i) /\ LoopsOk(fr, i) /\ RestOk(fr, i)
  <2>1. CASE i \in {1, 3}
    <3>1. PICK id, name : id = PJIT_REGION_CODEGEN /\ name = "polyjit.codegen"
      OBVIOUS
    <3>2. id \in Regions /\ name \in RegionNames \ {"polyjit.main"}
      BY <3>1 DEF Regions, RegionNames
    <3>3. fr.code[i] = RegionStart(id, name) \/ fr.code[i] = RegionStop(id, name)
      BY <1>2, <1>3, <2>1, <3>1
    <3>4. QED
      BY <3>2, <3>3, RegionOk DEF GeneratorOps, RequestOps
  <2>2. CASE i = 2
    <3>1. fr.code[i].op = "requests"
      BY <1>2, <1>3, <2>2 DEF Plain, Instr
    <3>2. MarksOk(fr, i) /\ LoopsOk(fr, i)
      BY <3>1 DEF MarksOk, LoopsOk, RegionCalls, ScopCalls, LikwidCalls
    <3>3. RestOk(fr, i)
      BY <1>5, <2>2, <3>1 DEF RestOk
    <3>4. QED
      BY <3>1, <3>2, <3>3 DEF GeneratorOps
  <2>3. QED
    BY <1>4, <2>1, <2>2
<1>7. FrameOk(fr, GeneratorOps)
  BY <1>2, <1>3, <1>5, <1>6, DifferentOps DEF FrameOk, IsFrame
<1>8. QED
  BY <1>5, <1>7
-----------------------------------------------------------------------------
(* A thread's step.                                                        *)
Names == Int \cup Functions \cup RegionNames \cup {"unopened"}
Recs(lib) == IF lib = "papi" THEN EventRecords ELSE MarkRecords
FrameOpen(lib, fr, under, evs) ==
  \E x : After(lib, fr, 0, x) /\ OpenMarks(evs) = Opened(under, x)
Told(lib, i, evs, evs2) ==
  IF Goes(lib, i.op)
  THEN \E e \in Recs(lib) : e.id = Name(lib, i) /\ e.type = EventType[i.op] /\ evs2 = Append(evs, e)
  ELSE evs2 = evs

(* What is open when a library records.                                    *)
LEMMA RecordedOpen ==
  ASSUME NEW lib \in Libs, NEW evs \in Seq(Recs(lib)), NEW e \in Recs(lib)
  PROVE  OpenMarks(evs) \in Seq(Names)
         /\ OpenMarks(Append(evs, e)) = Following(OpenMarks(evs), e)
<1>1. PICK E : E = Recs(lib)
  OBVIOUS
<1>2. PICK T : T = Names
  OBVIOUS
<1>3. "unopened" \in T /\ \A r \in E : r.id \in T
  BY <1>1, <1>2 DEF Recs, Names, EventRecords, MarkRecords
<1>4. evs \in Seq(E) /\ e \in E
  BY <1>1
<1>5. OpenMarks(evs) \in Seq(T) /\ OpenMarks(Append(evs, e)) = Following(OpenMarks(evs), e)
  BY <1>3, <1>4, OpenMarksAppend
<1>6. QED
  BY <1>2, <1>5

(* An enter on what is open, and its exit.                                 *)
LEMMA EnterExit ==
  ASSUME NEW under \in Seq(Names), NEW n, NEW e
  PROVE  /\ e.type \in Enters /\ e.id = n => Following(under, e) = Append(under, n)
         /\ e.type \notin Enters => Following(Append(under, n), e) = under
<1>1. e.type \in Enters /\ e.id = n => Following(under, e) = Append(under, n)
  BY DEF Following, IsEnter
<1>2. e.type \notin Enters => Following(Append(under, n), e) = under
  <2>1. PICK T : T = Names \cup {n}
    OBVIOUS
  <2>2. under \in Seq(T) /\ n \in T
    BY <2>1
  <2>3. PICK o : o = Append(under, n)
    OBVIOUS
  <2>4. o \in Seq(T) /\ Len(o) = Len(under) + 1 /\ Len(under) \in Nat
        /\ \A i \in 1..Len(under) : o[i] = under[i]
    BY <2>2, <2>3
  <2>5. o # <<>>
    BY <2>4
  <2>6. Front(o) = [i \in 1..(Len(o) - 1) |-> o[i]]
    BY <2>4 DEF Front
  <2>7. Len(o) - 1 = Len(under)
    BY <2>4
  <2>8. Front(o) = [i \in 1..Len(under) |-> under[i]]
    BY <2>4, <2>6, <2>7
  <2>9. under = [i \in 1..Len(under) |-> under[i]]
    OBVIOUS
  <2>10. Front(o) = under
    BY <2>8, <2>9
  <2>11. QED
    BY <2>3, <2>5, <2>10 DEF Following, IsEnter
<1>3. QED
  BY <1>1, <1>2

(* What is open agrees with a frame when its next instruction is done.     *)
LEMMA StepOpen ==
  ASSUME NEW lib \in Libs, NEW fr, NEW ops, FrameOk(fr, ops), fr.code # <<>>,
         NEW under \in Seq(Names), NEW evs \in Seq(Recs(lib)), NEW evs2,
         FrameOpen(lib, fr, under, evs), Told(lib, Head(fr.code), evs, evs2)
  PROVE  FrameOpen(lib, Stepped(fr), under, evs2)
<1>1. PICK x : After(lib, fr, 0, x) /\ OpenMarks(evs) = Opened(under, x)
  BY DEF FrameOpen
<1>2. PICK h : h = Head(fr.code)
  OBVIOUS
<1>3. /\ Opening(lib, h) => x = <<>> /\ After(lib, Stepped(fr), 0, <<Name(lib, h)>>)
      /\ Closing(lib, h) => x = <<Name(lib, h)>> /\ After(lib, Stepped(fr), 0, <<>>)
      /\ ~Goes(lib, h.op) => After(lib, Stepped(fr), 0, x)
  BY <1>1, <1>2, MarkingHead
<1>4. CASE ~Goes(lib, h.op)
  <2>1. evs2 = evs
    BY <1>2, <1>4 DEF Told
  <2>2. QED
    BY <1>1, <1>3, <1>4, <2>1 DEF FrameOpen
<1>5. CASE Goes(lib, h.op)
  <2>1. PICK e \in Recs(lib) : e.id = Name(lib, h) /\ e.type = EventType[h.op] /\ evs2 = Append(evs, e)
    BY <1>2, <1>5 DEF Told
  <2>2. OpenMarks(evs2) = Following(OpenMarks(evs), e)
    BY <2>1, RecordedOpen
  <2>3. PICK n : n = Name(lib, h)
    OBVIOUS
  <2>4. CASE EventType[h.op] \in Enters
    <3>1. Opening(lib, h)
      BY <1>5, <2>4 DEF Opening
    <3>2. OpenMarks(evs) = under
      BY <1>1, <1>3, <3>1 DEF Opened
    <3>3. OpenMarks(evs2) = Append(under, n)
      <4>1. e.type \in Enters /\ e.id = n
        BY <2>1, <2>3, <2>4
      <4>2. Following(under, e) = Append(under, n)
        BY <4>1 DEF Following, IsEnter
      <4>3. QED
        BY <2>2, <3>2, <4>2, Zenon
    <3>4. OpenMarks(evs2) = Opened(under, <<n>>)
      BY <3>3 DEF Opened
    <3>5. QED
      BY <1>3, <2>3, <3>1, <3>4 DEF FrameOpen
  <2>5. CASE EventType[h.op] \notin Enters
    <3>1. Closing(lib, h)
      BY <1>5, <2>5 DEF Closing
    <3>2. OpenMarks(evs) = Append(under, n)
      <4>1. x = <<n>> /\ <<n>> # <<>> /\ <<n>>[1] = n
        BY <1>3, <2>3, <3>1
      <4>2. QED
        BY <1>1, <4>1, Zenon DEF Opened
    <3>3. OpenMarks(evs2) = under
      BY <2>1, <2>2, <2>5, <3>2, EnterExit
    <3>4. OpenMarks(evs2) = Opened(under, <<>>)
      BY <3>3 DEF Opened
    <3>5. QED
      BY <1>3, <3>1, <3>4 DEF FrameOpen
  <2>6. QED
    BY <2>4, <2>5
<1>6. QED
  BY <1>4, <1>5

(* Nothing is open in a frame that is finished.                            *)
LEMMA FinishedOpen ==
  ASSUME NEW lib, NEW fr, Finished(fr), NEW under, NEW evs, FrameOpen(lib, fr, under, evs)
  PROVE  OpenMarks(evs) = under
<1>1. PICK x : After(lib, fr, 0, x) /\ OpenMarks(evs) = Opened(under, x)
  BY DEF FrameOpen
<1>2. DOMAIN fr.code = {}
  BY DEF Finished
<1>3. x = Rest(lib, fr)
  BY <1>1, <1>2 DEF After
<1>4. x = <<>>
  BY <1>3 DEF Rest, Finished
<1>5. QED
  BY <1>1, <1>4 DEF Opened

(* A frame that waits for another one of its thread has below it open what *)
(* the other one is to begin with.                                         *)
LEMMA LowWaits ==
  ASSUME NEW t, NEW lib \in Libs, NEW low, FrameOk(low, OuterOps(t)), AtCall(low, {"join", "requests"})
  PROVE  \E y : After(lib, low, 0, y) /\ Opened(Base(lib, t), y) = Below(lib, t)
<1>1. IsFrame(low) /\ low.code # <<>>
  BY DEF FrameOk, IsFrame, AtCall
<1>2. /\ Head(low.code) = low.code[1] /\ 0 + 1 = 1 /\ 0 \in Nat /\ 1 \in DOMAIN low.code
  BY <1>1, SteppedIs
<1>3. low.code[1].op \in {"join", "requests"} /\ low.code[1].op \in OuterOps(t)
      /\ LoopsOk(low, 1) /\ RestOk(low, 1)
  BY <1>2 DEF FrameOk, AtCall
<1>4. ~Goes(lib, low.code[0 + 1].op)
  BY <1>2, <1>3 DEF Goes, TracerCalls, LikwidCalls
<1>5. \A y : After(lib, low, 0, y) <=> After(lib, low, 0 + 1, y)
  BY <1>1, <1>2, <1>4, QuietHead
<1>6. CASE t = Generator
  <2>1. t \notin Apps /\ t # Main
    BY <1>6, Assumptions
  <2>2. low.code[1].op = "requests"
    BY <1>3, <1>6, <2>1 DEF OuterOps, GeneratorOps, RequestOps, RegionCalls
  <2>3. After(lib, low, 1, Generating(lib))
    BY <1>3, <2>2 DEF RestOk
  <2>4. Opened(Base(lib, t), Generating(lib)) = Below(lib, t)
    <3>1. Base(lib, t) = <<>>
      BY <2>1 DEF Base
    <3>2. Append(<<>>, PJIT_REGION_CODEGEN) = <<PJIT_REGION_CODEGEN>>
          /\ Append(<<>>, "polyjit.codegen") = <<"polyjit.codegen">>
      OBVIOUS
    <3>3. QED
      BY <1>6, <3>1, <3>2 DEF Opened, Below, Generating
  <2>5. QED
    BY <1>2, <1>5, <2>3, <2>4
<1>7. CASE t # Generator
  <2>1. low.code[1].op = "join"
    BY <1>3, <1>7 DEF OuterOps, CallerOps, FunctionOps, RegionCalls, LikwidCalls, ScopCalls
  <2>2. After(lib, low, 1, <<>>)
    BY <1>3, <2>1 DEF LoopsOk
  <2>3. Opened(Base(lib, t), <<>>) = Below(lib, t)
    BY <1>7 DEF Opened, Below
  <2>4. QED
    BY <1>2, <1>5, <2>2, <2>3
<1>8. QED
  BY <1>6, <1>7
-----------------------------------------------------------------------------
(* Stacks.                                                                 *)

(* Both ends of a short sequence.                                          *)
LEMMA Ends ==
  ASSUME NEW a, NEW b
  PROVE  /\ Last(<<a>>) = a /\ Front(<<a>>) = <<>> /\ <<a>>[1] = a /\ Len(<<a>>) = 1
         /\ Last(<<a, b>>) = b /\ Front(<<a, b>>) = <<a>> /\ <<a, b>>[1] = a /\ Len(<<a, b>>) = 2
         /\ <<a>> # <<>> /\ <<a, b>> # <<>> /\ Append(<<>>, a) = <<a>> /\ Append(<<a>>, b) = <<a, b>>
<1>1. /\ Len(<<a>>) = 1 /\ <<a>>[1] = a /\ Len(<<a, b>>) = 2 /\ <<a, b>>[1] = a /\ <<a, b>>[2] = b
      /\ Append(<<>>, a) = <<a>>
  OBVIOUS
<1>2. Last(<<a>>) = a /\ Last(<<a, b>>) = b
  BY <1>1 DEF Last
<1>3. Front(<<a>>) = <<>>
  <2>1. Front(<<a>>) = [i \in 1..0 |-> <<a>>[i]]
    BY <1>1 DEF Front
  <2>2. <<>> = [i \in 1..0 |-> <<a>>[i]]
    OBVIOUS
  <2>3. QED
    BY <2>1, <2>2
<1>4. Front(<<a, b>>) = <<a>>
  <2>1. Front(<<a, b>>) = [i \in 1..1 |-> <<a, b>>[i]]
    BY <1>1 DEF Front
  <2>2. <<a>> = [i \in 1..1 |-> <<a, b>>[i]]
    BY <1>1
  <2>3. QED
    BY <2>1, <2>2
<1>5. Append(<<a>>, b) = <<a, b>>
  BY AppendToOne
<1>6. <<a>> # <<>> /\ <<a, b>> # <<>>
  BY <1>1
<1>7. QED
  BY <1>1, <1>2, <1>3, <1>4, <1>5, <1>6

(* What is open, by the frames a thread is in.                             *)
LEMMA OpenIs ==
  ASSUME NEW lib, NEW t, NEW evs
  PROVE  /\ OpenOk(lib, t, <<>>, evs) <=> OpenMarks(evs) = Base(lib, t)
         /\ \A fr : OpenOk(lib, t, <<fr>>, evs) <=> FrameOpen(lib, fr, Base(lib, t), evs)
         /\ \A low, fr : OpenOk(lib, t, <<low, fr>>, evs) <=> FrameOpen(lib, fr, Below(lib, t), evs)
<1>1. OpenOk(lib, t, <<>>, evs) <=> OpenMarks(evs) = Base(lib, t)
  BY Ends DEF OpenOk
<1>2. ASSUME NEW fr PROVE OpenOk(lib, t, <<fr>>, evs) <=> FrameOpen(lib, fr, Base(lib, t), evs)
  <2>1. /\ <<fr>> # <<>>
        /\ \A a : <<fr>> = <<a>> <=> a = fr
        /\ \A a, b : <<fr>> # <<a, b>>
    OBVIOUS
  <2>2. QED
    BY <2>1 DEF OpenOk, FrameOpen
<1>3. ASSUME NEW low, NEW fr
      PROVE  OpenOk(lib, t, <<low, fr>>, evs) <=> FrameOpen(lib, fr, Below(lib, t), evs)
  <2>1. /\ <<low, fr>> # <<>>
        /\ \A a : <<low, fr>> # <<a>>
        /\ \A a, b : <<low, fr>> = <<a, b>> <=> a = low /\ b = fr
    OBVIOUS
  <2>2. QED
    BY <2>1 DEF OpenOk, FrameOpen
<1>4. QED
  BY <1>1, <1>2, <1>3

(* What a thread has open below its innermost frame.                       *)
Under(lib, t, s) == IF Len(s) = 1 THEN Base(lib, t) ELSE Below(lib, t)
TopOps(t, s) == IF Len(s) = 1 THEN OuterOps(t) ELSE InnerOps(t)

(* The innermost frame of a thread.                                        *)
LEMMA TopIs ==
  ASSUME NEW t, NEW s, StackOk(t, s), s # <<>>
  PROVE  /\ FrameOk(Last(s), TopOps(t, s))
         /\ \A lib, evs : OpenOk(lib, t, s, evs) => FrameOpen(lib, Last(s), Under(lib, t, s), evs)
         /\ \/ \E fr : s = <<fr>> /\ Last(s) = fr /\ Front(s) = <<>> /\ Len(s) = 1
            \/ \E low, fr : /\ s = <<low, fr>> /\ Last(s) = fr /\ Front(s) = <<low>> /\ Len(s) = 2
                            /\ FrameOk(low, OuterOps(t)) /\ AtCall(low, {"join", "requests"})
                            /\ InnerOps(t) # {}
<1>1. CASE \E fr : s = <<fr>> /\ FrameOk(fr, OuterOps(t))
  <2>1. PICK fr : s = <<fr>> /\ FrameOk(fr, OuterOps(t))
    BY <1>1
  <2>2. Last(s) = fr /\ Front(s) = <<>> /\ Len(s) = 1
    BY <2>1, Ends
  <2>3. \A lib, evs : OpenOk(lib, t, s, evs) => FrameOpen(lib, Last(s), Under(lib, t, s), evs)
    BY <2>1, <2>2, OpenIs DEF Under
  <2>4. FrameOk(Last(s), TopOps(t, s))
    BY <2>1, <2>2 DEF TopOps
  <2>5. QED
    BY <2>1, <2>2, <2>3, <2>4
<1>2. CASE \E low, fr : /\ s = <<low, fr>>
                        /\ FrameOk(low, OuterOps(t)) /\ AtCall(low, {"join", "requests"})
                        /\ FrameOk(fr, InnerOps(t)) /\ InnerOps(t) # {}
  <2>1. PICK low, fr : /\ s = <<low, fr>>
                       /\ FrameOk(low, OuterOps(t)) /\ AtCall(low, {"join", "requests"})
                       /\ FrameOk(fr, InnerOps(t)) /\ InnerOps(t) # {}
    BY <1>2
  <2>2. Last(s) = fr /\ Front(s) = <<low>> /\ Len(s) = 2
    BY <2>1, Ends
  <2>3. \A lib, evs : OpenOk(lib, t, s, evs) => FrameOpen(lib, Last(s), Under(lib, t, s), evs)
    <3> TAKE lib, evs
    <3>1. Under(lib, t, s) = Below(lib, t)
      BY <2>2 DEF Under
    <3>2. OpenOk(lib, t, <<low, fr>>, evs) <=> FrameOpen(lib, fr, Below(lib, t), evs)
      BY OpenIs
    <3>3. QED
      BY <2>1, <2>2, <3>1, <3>2
  <2>4. FrameOk(Last(s), TopOps(t, s))
    BY <2>1, <2>2 DEF TopOps
  <2>5. QED
    BY <2>1, <2>2, <2>3, <2>4
<1>3. QED
  BY <1>1, <1>2 DEF StackOk

(* The innermost frame is replaced by another one, or left.                *)
LEMMA ReplacedStack ==
  ASSUME NEW t, NEW s, StackOk(t, s), s # <<>>, NEW top, FrameOk(top, TopOps(t, s))
  PROVE  StackOk(t, Replaced(s, top))
<1>1. PICK s2 : s2 = Replaced(s, top)
  OBVIOUS
<1>2. \/ \E fr : s = <<fr>> /\ Last(s) = fr /\ Front(s) = <<>> /\ Len(s) = 1
      \/ \E low, fr : /\ s = <<low, fr>> /\ Last(s) = fr /\ Front(s) = <<low>> /\ Len(s) = 2
                      /\ FrameOk(low, OuterOps(t)) /\ AtCall(low, {"join", "requests"})
                      /\ InnerOps(t) # {}
  BY TopIs
<1>3. CASE Front(s) = <<>> /\ Len(s) = 1
  <2>1. FrameOk(top, OuterOps(t))
    BY <1>3 DEF TopOps
  <2>2. s2 = <<>> \/ s2 = <<top>>
    BY <1>1, <1>3, Ends DEF Replaced
  <2>3. StackOk(t, s2)
    BY <2>1, <2>2 DEF StackOk
  <2>4. QED
    BY <1>1, <2>3
<1>4. CASE \E low, fr : /\ s = <<low, fr>> /\ Last(s) = fr /\ Front(s) = <<low>> /\ Len(s) = 2
                        /\ FrameOk(low, OuterOps(t)) /\ AtCall(low, {"join", "requests"})
                        /\ InnerOps(t) # {}
  <2>1. PICK low, fr : /\ s = <<low, fr>> /\ Last(s) = fr /\ Front(s) = <<low>> /\ Len(s) = 2
                       /\ FrameOk(low, OuterOps(t)) /\ AtCall(low, {"join", "requests"})
                       /\ InnerOps(t) # {}
    BY <1>4
  <2>2. FrameOk(top, InnerOps(t))
    BY <2>1 DEF TopOps
  <2>3. s2 = <<low>> \/ s2 = <<low, top>>
    BY <1>1, <2>1, Ends DEF Replaced
  <2>4. StackOk(t, s2)
    BY <2>1, <2>2, <2>3 DEF StackOk
  <2>5. QED
    BY <1>1, <2>4
<1>5. QED
  BY <1>2, <1>3, <1>4

(* What is open then.                                                      *)
LEMMA ReplacedOpen ==
  ASSUME NEW t, NEW s, StackOk(t, s), s # <<>>, NEW top, NEW lib \in Libs, NEW evs,
         FrameOpen(lib, top, Under(lib, t, s), evs)
  PROVE  OpenOk(lib, t, Replaced(s, top), evs)
<1>1. PICK s2 : s2 = Replaced(s, top)
  OBVIOUS
<1>2. \/ \E fr : s = <<fr>> /\ Last(s) = fr /\ Front(s) = <<>> /\ Len(s) = 1
      \/ \E low, fr : /\ s = <<low, fr>> /\ Last(s) = fr /\ Front(s) = <<low>> /\ Len(s) = 2
                      /\ FrameOk(low, OuterOps(t)) /\ AtCall(low, {"join", "requests"})
                      /\ InnerOps(t) # {}
  BY TopIs
<1>3. CASE Front(s) = <<>> /\ Len(s) = 1
  <2>1. FrameOpen(lib, top, Base(lib, t), evs)
    BY <1>3 DEF Under
  <2>2. CASE Finished(top)
    <3>1. s2 = <<>>
      BY <1>1, <1>3, <2>2 DEF Replaced
    <3>2. OpenMarks(evs) = Base(lib, t)
      BY <2>1, <2>2, FinishedOpen
    <3>3. QED
      BY <1>1, <3>1, <3>2, OpenIs
  <2>3. CASE ~Finished(top)
    <3>1. s2 = <<top>>
      BY <1>1, <1>3, <2>3, Ends DEF Replaced
    <3>2. QED
      BY <1>1, <2>1, <3>1, OpenIs
  <2>4. QED
    BY <2>2, <2>3
<1>4. CASE \E low, fr : /\ s = <<low, fr>> /\ Last(s) = fr /\ Front(s) = <<low>> /\ Len(s) = 2
                        /\ FrameOk(low, OuterOps(t)) /\ AtCall(low, {"join", "requests"})
                        /\ InnerOps(t) # {}
  <2>1. PICK low, fr : /\ s = <<low, fr>> /\ Last(s) = fr /\ Front(s) = <<low>> /\ Len(s) = 2
                       /\ FrameOk(low, OuterOps(t)) /\ AtCall(low, {"join", "requests"})
                       /\ InnerOps(t) # {}
    BY <1>4
  <2>2. FrameOpen(lib, top, Below(lib, t), evs)
    BY <2>1 DEF Under
  <2>3. CASE Finished(top)
    <3>1. s2 = <<low>>
      BY <1>1, <2>1, <2>3 DEF Replaced
    <3>2. OpenMarks(evs) = Below(lib, t)
      BY <2>2, <2>3, FinishedOpen
    <3>3. PICK y : After(lib, low, 0, y) /\ Opened(Base(lib, t), y) = Below(lib, t)
      BY <2>1, LowWaits
    <3>4. FrameOpen(lib, low, Base(lib, t), evs)
      BY <3>2, <3>3 DEF FrameOpen
    <3>5. QED
      BY <1>1, <3>1, <3>4, OpenIs
  <2>4. CASE ~Finished(top)
    <3>1. s2 = <<low, top>>
      BY <1>1, <2>1, <2>4, Ends DEF Replaced
    <3>2. QED
      BY <1>1, <2>2, <3>1, OpenIs
  <2>5. QED
    BY <2>3, <2>4
<1>5. QED
  BY <1>2, <1>3, <1>4
-----------------------------------------------------------------------------
(* Steps.                                                                  *)
Same(u) == stack'[u] = stack[u] /\ events'[u] = events[u] /\ marks'[u] = marks[u]

(* What is below a thread's frames, as a sequence of names.                *)
LEMMA UnderTyped ==
  ASSUME NEW lib, NEW t, NEW s
  PROVE  Base(lib, t) \in Seq(Names) /\ Below(lib, t) \in Seq(Names) /\ Under(lib, t, s) \in Seq(Names)
<1>1. Total \in Names /\ PJIT_REGION_MAIN \in Names /\ PJIT_REGION_CODEGEN \in Names
      /\ "polyjit.main" \in Names /\ "polyjit.codegen" \in Names
  BY DEF Names, Total, PJIT_REGION_MAIN, PJIT_REGION_CODEGEN, RegionNames
<1>2. /\ <<>> \in Seq(Names) /\ <<Total, PJIT_REGION_MAIN>> \in Seq(Names)
      /\ <<"polyjit.main">> \in Seq(Names) /\ <<PJIT_REGION_CODEGEN>> \in Seq(Names)
      /\ <<"polyjit.codegen">> \in Seq(Names)
  BY <1>1
<1>3. Base(lib, t) \in Seq(Names)
  BY <1>2, Zenon DEF Base
<1>4. Generating(lib) \in Seq(Names)
  BY <1>2, Zenon DEF Generating
<1>5. QED
  BY <1>3, <1>4 DEF Below, Under

(* Threads that do not move.                                               *)
LEMMA OtherThread ==
  ASSUME env' = env, NEW u, Same(u), ThreadOk(u)
  PROVE  ThreadOk(u)'
<1>1. PICK s : s = stack[u]
  OBVIOUS
<1>2. stack'[u] = s
  BY <1>1 DEF Same
<1>3. StackOk(u, s)'
  BY <1>1, EnvThreads DEF ThreadOk
<1>4. ASSUME NEW lib \in Libs PROVE OpenOk(lib, u, stack[u], Log(lib, u))'
  <2>1. PICK evs : evs = Log(lib, u)
    OBVIOUS
  <2>2. Log(lib, u)' = evs
    BY <2>1 DEF Log, Same
  <2>3. OpenOk(lib, u, s, evs)
    BY <1>1, <1>4, <2>1 DEF ThreadOk
  <2>4. OpenOk(lib, u, s, evs)'
    BY <2>3, EnvThreads
  <2>5. QED
    BY <1>2, <2>2, <2>4
<1>5. QED
  BY <1>2, <1>3, <1>4 DEF ThreadOk

(* A thread moves, and is not the one that exits.                          *)
LEMMA ThreadMoves ==
  ASSUME TracingInv, TypesOk', UNCHANGED <<env, ending, stored, fault, likwid>>,
         NEW t \in Threads \ {exiter}, \A u \in Threads \ {t} : Same(u), ThreadOk(t)',
         \A w \in Workers[t] : t \in Apps /\ stack[w] # <<>> =>
           stack'[t] # <<>> /\ AtCall(stack'[t][1], {"call", "join"}),
         t \in Teams /\ stack'[t] # <<>> => stack[t] # <<>>,
         ready \subseteq ready', t \in Teams => Announced(t)', t = Main => InMain'
  PROVE  TracingInv'
<1>1. /\ env' = env /\ atexits' = atexits /\ exiter' = exiter /\ stored' = stored
      /\ fault' = fault /\ likwid' = likwid
  BY DEF ending
<1>2. \A u \in Threads \ {exiter'} : ThreadOk(u)'
  BY <1>1, OtherThread DEF TracingInv
<1>3. /\ Apps \subseteq Threads /\ Teams \subseteq Threads /\ Apps \cap Teams = {} /\ Main \in Apps
      /\ \A a \in Apps : Workers[a] \subseteq Teams
  BY Assumptions DEF Threads
<1>4. WorkersOk'
  <2>1. SUFFICES ASSUME NEW a \in Apps, NEW w \in Workers[a], stack'[w] # <<>>
                 PROVE  /\ a # exiter' /\ stack'[a] # <<>>
                        /\ AtCall(stack'[a][1], {"call", "join"})
    BY DEF WorkersOk, AtCall
  <2>2. stack[w] # <<>> /\ w # a
    BY <1>3, <2>1 DEF Same
  <2>3. a # exiter /\ stack[a] # <<>> /\ AtCall(stack[a][1], {"call", "join"})
    BY <2>2 DEF TracingInv, WorkersOk
  <2>4. CASE a = t
    BY <1>1, <2>2, <2>3, <2>4
  <2>5. CASE a # t
    BY <1>1, <1>3, <2>3, <2>5 DEF Same
  <2>6. QED
    BY <2>4, <2>5
<1>5. TeamsOk'
  <2>1. SUFFICES ASSUME NEW w \in Teams, w # t PROVE Announced(w)'
    BY DEF TeamsOk
  <2>2. Announced(w) /\ stack'[w] = stack[w]
    BY <1>3, <2>1 DEF TracingInv, TeamsOk, Same
  <2>3. QED
    BY <1>1, <2>2 DEF Announced, AtCall
<1>6. t # Main => MainLog' = MainLog
  BY <1>1, <1>3 DEF MainLog, Same
<1>7. (InMain => InMain') /\ (t # Main => MainLeft(MainLog)' = MainLeft(MainLog))
  BY <1>1, <1>6 DEF InMain, MainEntered, MainLeft, Left, MainRegion
<1>8. ExitOk'
  <2>1. CASE exiter = None
    <3>1. InMain /\ atexits = Planted(OfTracer) /\ stored = <<>> /\ ~fault
          /\ likwid = IF env.papi THEN "off" ELSE "on"
      BY <2>1 DEF TracingInv, ExitOk, ExitAt
    <3>2. InMain' /\ OfTracer' = OfTracer
      BY <1>1, <1>7, <3>1 DEF OfTracer
    <3>3. QED
      BY <1>1, <2>1, <3>1, <3>2 DEF ExitOk, ExitAt, Planted
  <2>2. CASE exiter # None
    <3>1. PICK n \in 1..7 :
            /\ exiter \in Apps /\ Exits(n)
            /\ n <= 3 \/ exiter # Main => InMain
            /\ exiter = Main /\ n \in {4, 5, 6} => MainLeft(MainLog)
            /\ exiter = Main /\ n = 7 =>
                 /\ stored = <<MainLog>>
                 /\ \E before \in Logs : Left(MainLog, Total, before) /\ MainLeft(before)
            /\ n <= 6 => stored = <<>>
            /\ fault => n >= 4 /\ exiter # Main
            /\ likwid = IF env.papi THEN "off" ELSE IF n = 5 THEN "closed" ELSE "on"
            /\ exiter = Main /\ ~env.papi /\ n \in {4, 5} => Last(marks[Main]).lib = "on"
      BY <2>2 DEF TracingInv, ExitOk, ExitAt
    <3>2. Same(exiter)
      BY <1>3, <3>1
    <3>3. Exits(n)'
      BY <1>1, <3>1, <3>2 DEF Exits, Doing, OfTracer, Planted, Same
    <3>4. exiter = Main => MainLog' = MainLog /\ marks'[Main] = marks[Main] /\ t # Main
      BY <1>6, <3>2 DEF Same
    <3>5. exiter = Main /\ n = 7 => \E before \in Logs : Left(MainLog, Total, before)' /\ MainLeft(before)'
      BY <1>1, <3>1, <3>4 DEF Left, MainLeft, MainEntered, MainRegion
    <3>6. /\ exiter' \in Apps /\ exiter' # None
          /\ n <= 3 \/ exiter' # Main => InMain'
          /\ exiter' = Main /\ n \in {4, 5, 6} => MainLeft(MainLog)'
          /\ exiter' = Main /\ n = 7 => stored' = <<MainLog>>'
          /\ n <= 6 => stored' = <<>>
          /\ fault' => n >= 4 /\ exiter' # Main
          /\ likwid' = IF env'.papi THEN "off" ELSE IF n = 5 THEN "closed" ELSE "on"
          /\ exiter' = Main /\ ~env'.papi /\ n \in {4, 5} => Last(marks'[Main]).lib = "on"
      BY <1>1, <1>7, <2>2, <3>1, <3>4
    <3>7. QED
      BY <1>1, <3>3, <3>5, <3>6 DEF ExitOk, ExitAt
  <2>3. QED
    BY <2>1, <2>2
<1>9. QED
  BY <1>2, <1>4, <1>5, <1>8 DEF TracingInv

(* A thread goes on to its next instruction.                               *)
LEMMA AdvancedIs ==
  ASSUME TypesOk, NEW t \in Threads
  PROVE  /\ Advanced(t)[t] = Replaced(stack[t], Stepped(Last(stack[t])))
         /\ DOMAIN Advanced(t) = Threads /\ \A u \in Threads \ {t} : Advanced(t)[u] = stack[u]
<1>1. DOMAIN stack = Threads
  BY DEF TypesOk
<1>2. PICK top : top = Stepped(Last(stack[t]))
  OBVIOUS
<1>3. PICK r : r = Replaced(stack[t], top)
  OBVIOUS
<1>4. Advanced(t) = [stack EXCEPT ![t] = Replaced(stack[t], Stepped(Last(stack[t])))]
  BY DEF Advanced
<1>5. Advanced(t) = [stack EXCEPT ![t] = r]
  BY <1>2, <1>3, <1>4
<1>6. QED
  BY <1>1, <1>2, <1>3, <1>5

(* What the thread is in and has open then.                                *)
LEMMA ThreadAdvances ==
  ASSUME TypesOk, env' = env, NEW t \in Threads, ThreadOk(t), stack[t] # <<>>, Top(t).code # <<>>,
         stack'[t] = Replaced(stack[t], Stepped(Last(stack[t]))),
         \A lib \in Libs : Told(lib, Head(Top(t).code), Log(lib, t), Log(lib, t)')
  PROVE  ThreadOk(t)'
<1>1. PICK s, fr : s = stack[t] /\ fr = Last(stack[t])
  OBVIOUS
<1>2. StackOk(t, s) /\ s # <<>> /\ fr.code # <<>> /\ fr = Last(s)
  BY <1>1 DEF ThreadOk, Top
<1>3. FrameOk(fr, TopOps(t, s))
  BY <1>2, TopIs
<1>4. PICK top : top = Stepped(fr)
  OBVIOUS
<1>5. FrameOk(top, TopOps(t, s))
  BY <1>2, <1>3, <1>4, SteppedOk
<1>6. PICK s2 : s2 = Replaced(s, top)
  OBVIOUS
<1>7. StackOk(t, s2)
  BY <1>2, <1>5, <1>6, ReplacedStack
<1>8. stack'[t] = s2
  BY <1>1, <1>4, <1>6
<1>9. StackOk(t, s2)'
  BY <1>7, EnvThreads
<1>10. ASSUME NEW lib \in Libs PROVE OpenOk(lib, t, stack[t], Log(lib, t))'
  <2>1. PICK evs, evs2 : evs = Log(lib, t) /\ evs2 = Log(lib, t)'
    OBVIOUS
  <2>2. evs \in Seq(Recs(lib))
    BY <2>1 DEF TypesOk, Log, Recs
  <2>3. PICK under : under = Under(lib, t, s)
    OBVIOUS
  <2>4. under \in Seq(Names)
    BY <2>3, UnderTyped
  <2>5. OpenOk(lib, t, s, evs)
    BY <1>1, <2>1 DEF ThreadOk
  <2>6. FrameOpen(lib, fr, under, evs)
    BY <1>2, <2>3, <2>5, TopIs
  <2>7. Told(lib, Head(fr.code), evs, evs2)
    BY <1>1, <2>1 DEF Top
  <2>8. FrameOpen(lib, top, under, evs2)
    BY <1>2, <1>3, <1>4, <2>2, <2>4, <2>6, <2>7, StepOpen
  <2>9. OpenOk(lib, t, Replaced(s, top), evs2)
    BY <1>2, <2>3, <2>8, ReplacedOpen
  <2>10. OpenOk(lib, t, s2, evs2)'
    BY <1>6, <2>9, EnvThreads
  <2>11. QED
    BY <1>8, <2>1, <2>10
<1>11. QED
  BY <1>8, <1>9, <1>10 DEF ThreadOk

(* Most instructions tell the libraries nothing.                           *)
LEMMA ToldNothing ==
  ASSUME NEW t, NEW i, i.op \in QuietOps, events'[t] = events[t], marks'[t] = marks[t]
  PROVE  \A lib \in Libs : Told(lib, i, Log(lib, t), Log(lib, t)')
<1>1. \A lib \in Libs : ~Goes(lib, i.op)
  BY Telling
<1>2. \A lib : Log(lib, t)' = Log(lib, t)
  BY DEF Log
<1>3. QED
  BY <1>1, <1>2 DEF Told

(* The step of a thread that does not exit and goes on.                    *)
LEMMA Advances ==
  ASSUME TracingInv, TypesOk', UNCHANGED <<env, ending, stored, fault, likwid>>,
         NEW t \in Threads \ {exiter}, stack[t] # <<>>, Top(t).code # <<>>, Advance(t),
         \A u \in Threads \ {t} : events'[u] = events[u] /\ marks'[u] = marks[u],
         \A lib \in Libs : Told(lib, Head(Top(t).code), Log(lib, t), Log(lib, t)'),
         \/ Head(Top(t).code).op \notin {"call", "join"}
         \/ \A w \in Workers[t] : t \in Apps => stack[w] = <<>>,
         ready \subseteq ready',
         t \in Teams /\ Head(Top(t).code).op = "likwid_markerThreadInit" => t \in ready',
         t = Main => InMain'
  PROVE  TracingInv'
<1>1. TypesOk /\ ThreadOk(t) /\ env' = env /\ t \in Threads
  BY DEF TracingInv
<1>2. stack' = Advanced(t)
  BY DEF Advance
<1>3. /\ stack'[t] = Replaced(stack[t], Stepped(Last(stack[t])))
      /\ \A u \in Threads \ {t} : Same(u)
  BY <1>1, <1>2, AdvancedIs DEF Same
<1>4. ThreadOk(t)'
  BY <1>1, <1>3, ThreadAdvances
<1>5. PICK s, top : s = stack[t] /\ top = Stepped(Last(stack[t]))
  OBVIOUS
<1>6. /\ StackOk(t, s) /\ s # <<>>
      /\ \/ \E fr : s = <<fr>> /\ Last(s) = fr /\ Front(s) = <<>> /\ Len(s) = 1
         \/ \E low, fr : /\ s = <<low, fr>> /\ Last(s) = fr /\ Front(s) = <<low>> /\ Len(s) = 2
                         /\ FrameOk(low, OuterOps(t)) /\ AtCall(low, {"join", "requests"})
                         /\ InnerOps(t) # {}
  <2>1. StackOk(t, s) /\ s # <<>>
    BY <1>1, <1>5 DEF ThreadOk
  <2>2. QED
    BY <2>1, TopIs
<1>7. ASSUME NEW w \in Workers[t], t \in Apps, stack[w] # <<>>
      PROVE  stack'[t] # <<>> /\ AtCall(stack'[t][1], {"call", "join"})
  <2>1. AtCall(s[1], {"call", "join"}) /\ Head(Top(t).code).op \notin {"call", "join"}
    BY <1>5, <1>7 DEF TracingInv, WorkersOk
  <2>2. PICK low, fr : s = <<low, fr>> /\ Front(s) = <<low>>
    <3>1. ASSUME NEW fr, s = <<fr>>, Last(s) = fr PROVE FALSE
      BY <1>5, <2>1, <3>1 DEF AtCall, Top
    <3>2. QED
      BY <1>6, <3>1
  <2>3. stack'[t] = <<low>> \/ stack'[t] = <<low, top>>
    <3>1. stack'[t] = Replaced(s, top)
      BY <1>3, <1>5
    <3>2. Append(<<low>>, top) = <<low, top>>
      BY Ends
    <3>3. QED
      BY <2>2, <3>1, <3>2 DEF Replaced
  <2>4. s[1] = low /\ stack'[t] # <<>> /\ stack'[t][1] = low
    BY <2>2, <2>3
  <2>5. QED
    BY <2>1, <2>4
<1>8. t \in Teams => Announced(t)'
  <2>1. SUFFICES ASSUME t \in Teams PROVE Announced(t)'
    OBVIOUS
  <2>2. Announced(t)
    BY <2>1 DEF TracingInv, TeamsOk
  <2>3. AtCall(Last(stack[t]), {"likwid_markerThreadInit"}) => t \in ready'
    BY <2>1 DEF AtCall, Top
  <2>4. QED
    BY <1>1, <2>2, <2>3 DEF Announced
<1>9. QED
  BY <1>3, <1>4, <1>7, <1>8, ThreadMoves

-----------------------------------------------------------------------------
(* What is known before a step.                                            *)

(* The next instruction of a thread that does not exit.                    *)
LEMMA TopInstr ==
  ASSUME TracingInv, NEW t \in Threads \ {exiter}, stack[t] # <<>>
  PROVE  /\ FrameOk(Top(t), TopOps(t, stack[t])) /\ IsFrame(Top(t)) /\ StackOk(t, stack[t])
         /\ Top(t).code # <<>> =>
              /\ 1 \in DOMAIN Top(t).code /\ Head(Top(t).code) = Top(t).code[1]
              /\ Head(Top(t).code) \in Instrs /\ Head(Top(t).code).op \in TopOps(t, stack[t])
              /\ MarksOk(Top(t), 1) /\ LoopsOk(Top(t), 1) /\ RestOk(Top(t), 1)
<1>1. PICK s, fr : s = stack[t] /\ fr = Top(t)
  OBVIOUS
<1>2. StackOk(t, s) /\ s # <<>> /\ fr = Last(s)
  BY <1>1 DEF TracingInv, ThreadOk, Top
<1>3. FrameOk(fr, TopOps(t, s))
  BY <1>2, TopIs
<1>4. IsFrame(fr)
  BY <1>3 DEF FrameOk, IsFrame
<1>5. fr.code # <<>> => /\ 1 \in DOMAIN fr.code /\ Head(fr.code) = fr.code[1]
                        /\ fr.code[1] \in Instrs
  <2>1. SUFFICES ASSUME fr.code # <<>>
                 PROVE  1 \in DOMAIN fr.code /\ Head(fr.code) = fr.code[1] /\ fr.code[1] \in Instrs
    OBVIOUS
  <2>2. PICK c : c = fr.code
    OBVIOUS
  <2>3. c \in Seq(Instrs) /\ c # <<>>
    BY <1>4, <2>1, <2>2 DEF IsFrame
  <2>4. 1 \in DOMAIN c /\ Head(c) = c[1] /\ c[1] \in Instrs
    BY <2>3
  <2>5. QED
    BY <2>2, <2>4
<1>6. fr.code # <<>> => /\ fr.code[1].op \in TopOps(t, s)
                        /\ MarksOk(fr, 1) /\ LoopsOk(fr, 1) /\ RestOk(fr, 1)
  BY <1>3, <1>5 DEF FrameOk
<1>7. QED
  BY <1>1, <1>2, <1>3, <1>4, <1>5, <1>6

(* Who may do what.                                                        *)
LEMMA OpsOf ==
  ASSUME NEW t, NEW s
  PROVE  /\ TopOps(t, s) \subseteq Ops
         /\ t # Generator => TopOps(t, s) \subseteq CallerOps
         /\ t = Generator => TopOps(t, s) \subseteq GeneratorOps
<1>1. FunctionOps \subseteq CallerOps /\ RequestOps \subseteq GeneratorOps
      /\ CallerOps \subseteq Ops /\ GeneratorOps \subseteq Ops
  BY DEF CallerOps, GeneratorOps, Ops
<1>2. Generator \notin Apps
  BY Assumptions
<1>3. QED
  BY <1>1, <1>2 DEF TopOps, OuterOps, InnerOps

(* The thread that exits runs what it has planted.                         *)
LEMMA ExiterDoes ==
  ASSUME TracingInv, exiter # None
  PROVE  /\ exiter \in Apps /\ exiter \in Threads
         /\ stack[exiter] # <<>> =>
              /\ Top(exiter).code # <<>> /\ Top(exiter).next = {}
              /\ Head(Top(exiter).code).op
                   \in {"shutdown", "join", "polliTracingRegionStop", "finalize", "store"}
              /\ Head(Top(exiter).code).op = "join" => Head(Top(exiter).code).arg = "generator"
<1>1. PICK n \in 1..7 : exiter \in Apps /\ Exits(n)
  BY DEF TracingInv, ExitOk, ExitAt
<1>2. exiter \in Threads
  BY <1>1 DEF Threads
<1>3. ASSUME stack[exiter] # <<>>
      PROVE  \E name, i, c : /\ Doing(name, c) /\ c # <<>> /\ Head(c) = i
                             /\ i.op \in {"shutdown", "join", "polliTracingRegionStop", "finalize", "store"}
                             /\ i.op = "join" => i.arg = "generator"
  <2>1. \A i, j : <<i>> # <<>> /\ <<i, j>> # <<>> /\ Head(<<i>>) = i /\ Head(<<i, j>>) = i
    OBVIOUS
  <2>2. /\ Plain("shutdown", None).op = "shutdown" /\ Plain("join", "generator").op = "join"
        /\ Plain("join", "generator").arg = "generator" /\ Plain("finalize", None).op = "finalize"
        /\ Plain("store", None).op = "store"
        /\ RegionStop(PJIT_REGION_MAIN, "polyjit.main").op = "polliTracingRegionStop"
    BY DEF Plain, Instr, RegionStop
  <2>3. Handler("do_shutdown") = <<RegionStop(PJIT_REGION_MAIN, "polyjit.main"), Plain("finalize", None)>>
    BY DEF Handler
  <2>4. n \in {1, 2, 3, 4, 5, 6, 7}
    BY <1>1
  <2>5. \/ Doing("~PolyJIT", <<Plain("shutdown", None), Plain("join", "generator")>>)
        \/ Doing("~PolyJIT", <<Plain("join", "generator")>>)
        \/ Doing("do_shutdown", <<RegionStop(PJIT_REGION_MAIN, "polyjit.main"), Plain("finalize", None)>>)
        \/ Doing("do_shutdown", <<Plain("finalize", None)>>)
        \/ Doing("papi_atexit_handler", <<Plain("store", None)>>)
    BY <1>1, <1>3, <2>3, <2>4 DEF Exits
  <2>6. QED
    BY <2>1, <2>2, <2>5
<1>4. ASSUME stack[exiter] # <<>>
      PROVE  /\ Top(exiter).code # <<>> /\ Top(exiter).next = {}
             /\ Head(Top(exiter).code).op
                  \in {"shutdown", "join", "polliTracingRegionStop", "finalize", "store"}
             /\ Head(Top(exiter).code).op = "join" => Head(Top(exiter).code).arg = "generator"
  <2>1. PICK name, i, c : /\ Doing(name, c) /\ c # <<>> /\ Head(c) = i
                          /\ i.op \in {"shutdown", "join", "polliTracingRegionStop", "finalize", "store"}
                          /\ i.op = "join" => i.arg = "generator"
    BY <1>3, <1>4
  <2>2. PICK fr : fr = RuntimeFrame(name, c)
    OBVIOUS
  <2>3. fr.code = c /\ fr.next = {}
    BY <2>2 DEF RuntimeFrame, Frame, Block
  <2>4. Top(exiter) = fr
    BY <2>1, <2>2, Ends DEF Doing, Top
  <2>5. QED
    BY <2>1, <2>3, <2>4
<1>5. QED
  BY <1>1, <1>2, <1>4

(* LIKWID, and main's region, while other threads than main's may exit.    *)
LEMMA BeforeMainEnds ==
  ASSUME TracingInv
  PROVE  /\ exiter # Main => InMain
         /\ Alive => likwid = IF env.papi THEN "off" ELSE "on"
<1>1. CASE exiter = None
  BY <1>1 DEF TracingInv, ExitOk, ExitAt
<1>2. CASE exiter # None
  <2>1. PICK n \in 1..7 : /\ exiter \in Apps /\ Exits(n)
                          /\ n <= 3 \/ exiter # Main => InMain
                          /\ likwid = IF env.papi THEN "off" ELSE IF n = 5 THEN "closed" ELSE "on"
    BY <1>2 DEF TracingInv, ExitOk, ExitAt
  <2>2. n = 5 /\ ~env.papi => Over
    <3>1. n = 5 /\ ~env.papi => atexits = <<>> /\ stack[exiter] = <<>>
      BY <2>1 DEF Exits, OfTracer
    <3>2. QED
      BY <1>2, <3>1 DEF Over
  <2>3. QED
    BY <2>1, <2>2 DEF Alive
<1>3. QED
  BY <1>1, <1>2

(* Who exits, and who does not, by the instruction.                        *)
LEMMA DoesNotExit ==
  ASSUME TracingInv, NEW t \in Threads, NEW op, At(t, op),
         op \notin {"shutdown", "polliTracingRegionStop", "finalize", "store"},
         op = "join" => Arg(t) # "generator"
  PROVE  t \in Threads \ {exiter}
<1>1. SUFFICES ASSUME t = exiter PROVE FALSE
  OBVIOUS
<1>2. exiter # None
  BY <1>1, Assumptions
<1>3. QED
  BY <1>1, <1>2, ExiterDoes DEF At, Arg

(* What a thread that does not exit may do.                                *)
LEMMA GoesOn ==
  ASSUME TracingInv, NEW t \in Threads \ {exiter}, NEW op, At(t, op)
  PROVE  /\ op \in Ops /\ op \notin {"shutdown", "finalize", "store"}
         /\ op = "join" => Arg(t) = "workers"
<1>1. stack[t] # <<>> /\ Top(t).code # <<>> /\ Head(Top(t).code).op = op
  BY DEF At
<1>2. op \in TopOps(t, stack[t]) /\ LoopsOk(Top(t), 1) /\ Head(Top(t).code) = Top(t).code[1]
  BY <1>1, TopInstr
<1>3. op \in Ops
  BY <1>2, OpsOf
<1>4. op = "join" => Arg(t) = "workers"
  BY <1>1, <1>2 DEF LoopsOk, Joins, Plain, Instr, Arg
<1>5. "shutdown" \notin Ops /\ "finalize" \notin Ops /\ "store" \notin Ops
  BY DEF Ops, CallerOps, GeneratorOps, RequestOps, FunctionOps, RegionCalls, LikwidCalls, ScopCalls
<1>6. QED
  BY <1>3, <1>4, <1>5

(* Types, where nothing is recorded.                                       *)
LEMMA TypesKept ==
  ASSUME TypesOk, UNCHANGED <<env, tracing>>, DOMAIN stack' = Threads,
         calls' \in [Apps -> Nat], work' \in Seq(DOMAIN Modules), compiled' \subseteq DOMAIN Modules,
         generator' \in {"asleep", "busy", "told", "ending", "over"}
  PROVE  TypesOk'
<1>1. env' = env /\ events' = events /\ fault' = fault /\ ready' = ready /\ marks' = marks
  BY DEF tracing, papi, likwidVars
<1>2. QED
  BY <1>1 DEF TypesOk

(* A thread's step that tells the libraries nothing.                       *)
LEMMA QuietStep ==
  ASSUME TracingInv, TypesOk', UNCHANGED <<env, ending, tracing>>,
         NEW t \in Threads \ {exiter}, NEW op, At(t, op), Advance(t),
         op \in QuietOps, op # "likwid_markerThreadInit",
         op \notin {"call", "join"} \/ \A w \in Workers[t] : t \in Apps => stack[w] = <<>>
  PROVE  TracingInv'
<1>1. stack[t] # <<>> /\ Top(t).code # <<>> /\ Head(Top(t).code).op = op
  BY DEF At
<1>2. /\ events' = events /\ fault' = fault /\ ready' = ready /\ marks' = marks
      /\ env' = env /\ stored' = stored /\ likwid' = likwid
  BY DEF tracing, papi, likwidVars
<1>3. \A lib \in Libs : Told(lib, Head(Top(t).code), Log(lib, t), Log(lib, t)')
  BY <1>1, <1>2, ToldNothing
<1>4. t = Main => InMain'
  <2>1. t = Main => InMain
    BY BeforeMainEnds
  <2>2. InMain' = InMain
    BY <1>2 DEF InMain, MainLog, MainEntered
  <2>3. QED
    BY <2>1, <2>2
<1>5. UNCHANGED <<env, ending, stored, fault, likwid>>
  BY <1>2
<1>6. QED
  BY <1>1, <1>2, <1>3, <1>4, <1>5, Advances

(* A thread works.                                                         *)
LEMMA ProceedKeeps ==
  ASSUME TracingInv, NEW t \in Threads, Proceed(t)
  PROVE  TracingInv'
<1>1. PICK op \in {"work", "next"} : At(t, op)
  BY DEF Proceed
<1>2. t \in Threads \ {exiter}
  BY <1>1, DoesNotExit
<1>3. UNCHANGED <<env, ending, tracing>> /\ Advance(t) /\ requests' = requests
  BY DEF Proceed
<1>4. TypesOk /\ DOMAIN stack' = Threads
  BY <1>3, AdvancedIs DEF TracingInv, Advance
<1>5. TypesOk'
  BY <1>3, <1>4, TypesKept DEF TypesOk, requests
<1>6. QED
  BY <1>1, <1>2, <1>3, <1>5, QuietStep DEF QuietOps

(* The generator has no more requests, and compiles a module.              *)
LEMMA GeneratorKeeps ==
  ASSUME TracingInv, NoRequest \/ Compile
  PROVE  TracingInv'
<1>1. PICK op \in {"requests", "compile"} : At(Generator, op) /\ (op = "compile" => Compile)
                                           /\ (op = "requests" => NoRequest)
  BY DEF NoRequest, Compile
<1>2. Generator \in Threads \ {exiter}
  <2>1. Generator \in Threads
    BY DEF Threads
  <2>2. QED
    BY <1>1, <2>1, DoesNotExit
<1>3. UNCHANGED <<env, ending, tracing, calls, work, generator>> /\ Advance(Generator)
  BY <1>1 DEF NoRequest, Compile, requests
<1>4. TypesOk /\ DOMAIN stack' = Threads
  BY <1>2, <1>3, AdvancedIs DEF TracingInv, Advance
<1>5. compiled' \subseteq DOMAIN Modules
  <2>1. CASE op = "requests"
    BY <1>1, <1>4, <2>1 DEF NoRequest, requests, TypesOk
  <2>2. CASE op = "compile"
    <3>1. stack[Generator] # <<>> /\ Top(Generator).code # <<>> /\ Head(Top(Generator).code).op = "compile"
      BY <1>1, <2>2 DEF At
    <3>2. RestOk(Top(Generator), 1) /\ Head(Top(Generator).code) = Top(Generator).code[1]
      BY <1>2, <3>1, TopInstr
    <3>3. Arg(Generator) \in DOMAIN Modules
      BY <3>1, <3>2 DEF RestOk, Arg
    <3>4. compiled' = compiled \cup {Arg(Generator)}
      BY <1>1, <2>2 DEF Compile
    <3>5. QED
      BY <1>4, <3>3, <3>4 DEF TypesOk
  <2>3. QED
    BY <2>1, <2>2
<1>6. TypesOk'
  BY <1>3, <1>4, <1>5, TypesKept DEF TypesOk
<1>7. QED
  BY <1>1, <1>2, <1>3, <1>6, QuietStep DEF QuietOps

(* A thread has waited for its workers.                                    *)
LEMMA JoinKeeps ==
  ASSUME TracingInv, NEW t \in Threads \ {exiter}, Join(t)
  PROVE  TracingInv'
<1>1. At(t, "join") /\ UNCHANGED <<env, ending, tracing, requests>> /\ Advance(t)
  BY DEF Join
<1>2. Arg(t) = "workers"
  BY <1>1, GoesOn
<1>3. \A w \in Workers[t] : stack[w] = <<>>
  BY <1>2 DEF Join
<1>4. TypesOk /\ DOMAIN stack' = Threads
  BY <1>1, AdvancedIs DEF TracingInv, Advance
<1>5. TypesOk'
  BY <1>1, <1>4, TypesKept DEF TypesOk, requests
<1>6. QED
  BY <1>1, <1>3, <1>5, QuietStep DEF QuietOps

(* LIKWID gets to know a thread.                                           *)
LEMMA ThreadInitKeeps ==
  ASSUME TracingInv, NEW t \in Threads, ThreadInit(t)
  PROVE  TracingInv'
<1>1. /\ At(t, "likwid_markerThreadInit") /\ ready' = ready \cup {t} /\ Advance(t)
      /\ UNCHANGED <<env, requests, ending, papi, likwid, marks>>
  BY DEF ThreadInit
<1>2. t \in Threads \ {exiter}
  BY <1>1, DoesNotExit
<1>3. stack[t] # <<>> /\ Top(t).code # <<>> /\ Head(Top(t).code).op = "likwid_markerThreadInit"
  BY <1>1 DEF At
<1>4. events' = events /\ fault' = fault /\ stored' = stored /\ marks' = marks /\ env' = env
      /\ likwid' = likwid
  BY <1>1 DEF papi
<1>5. TypesOk /\ DOMAIN stack' = Threads
  BY <1>1, AdvancedIs DEF TracingInv, Advance
<1>6. TypesOk'
  BY <1>1, <1>4, <1>5 DEF TypesOk, requests
<1>7. \A lib \in Libs : Told(lib, Head(Top(t).code), Log(lib, t), Log(lib, t)')
  BY <1>3, <1>4, ToldNothing DEF QuietOps
<1>8. t = Main => InMain'
  <2>1. t = Main => InMain
    BY <1>2, BeforeMainEnds
  <2>2. InMain' = InMain
    BY <1>4 DEF InMain, MainLog, MainEntered
  <2>3. QED
    BY <2>1, <2>2
<1>9. UNCHANGED <<env, ending, stored, fault, likwid>>
  BY <1>1, <1>4
<1>10. t \in ready' /\ ready \subseteq ready'
  BY <1>1
<1>11. QED
  BY <1>2, <1>3, <1>4, <1>1, <1>6, <1>7, <1>8, <1>9, <1>10, Advances

(* A block has ended.                                                      *)
LEMMA BranchKeeps ==
  ASSUME TracingInv, NEW t \in Threads, Branch(t)
  PROVE  TracingInv'
<1>1. PICK m, f, b, s : /\ stack[t] # <<>> /\ Top(t).code = <<>> /\ m = Top(t).mod /\ f = Top(t).fn
                        /\ b \in Top(t).next /\ s = stack[t]
                        /\ stack' = [stack EXCEPT ![t] = Replaced(@, Frame(m, f, OptimizeForRuntime(m)[f][b]))]
  BY DEF Branch
<1>2. t \in Threads \ {exiter}
  <2>1. SUFFICES ASSUME t = exiter PROVE FALSE
    OBVIOUS
  <2>2. exiter # None
    BY <2>1, Assumptions
  <2>3. QED
    BY <1>1, <2>1, <2>2, ExiterDoes
<1>3. UNCHANGED <<env, requests, ending, tracing>>
  BY DEF Branch
<1>4. /\ events' = events /\ fault' = fault /\ ready' = ready /\ marks' = marks
      /\ env' = env /\ stored' = stored /\ likwid' = likwid
  BY <1>3 DEF tracing, papi, likwidVars
<1>5. PICK fr, top : fr = Top(t) /\ top = Frame(m, f, OptimizeForRuntime(m)[f][b])
  OBVIOUS
<1>6. /\ FrameOk(fr, TopOps(t, s)) /\ IsFrame(fr) /\ StackOk(t, s) /\ s # <<>> /\ fr = Last(s)
      /\ fr.code = <<>> /\ fr.mod = m /\ fr.fn = f /\ b \in fr.next
  BY <1>1, <1>2, <1>5, TopInstr DEF Top
<1>7. OfFunction(fr)
  BY <1>6 DEF FrameOk, OfRuntime
<1>8. m \in DOMAIN Modules /\ f \in DOMAIN Modules[m] /\ b \in 2..Len(Modules[m][f])
  BY <1>6, <1>7 DEF OfFunction
<1>9. IsBlock(m, f, b) /\ b # 1
  <2>1. IsFunction(Modules[m], f)
    BY <1>8, Assumptions
  <2>2. PICK B : Modules[m][f] \in Seq(B)
    BY <2>1 DEF IsFunction
  <2>3. b \in DOMAIN Modules[m][f] /\ b # 1
    BY <1>8, <2>2
  <2>4. QED
    BY <1>8, <2>3 DEF IsBlock
<1>10. TypesOk /\ env.papi \in BOOLEAN /\ env.likwid \in BOOLEAN
  BY DEF TracingInv, TypesOk
<1>11. /\ FrameOk(top, CallerOps)
       /\ f \in SubFunctions(Modules[m]) => FrameOk(top, FunctionOps)
       /\ \A lib \in Libs : After(lib, top, 0, ScopOpen(lib, m, f))
  BY <1>5, <1>9, <1>10, BlockFrame
<1>12. FrameOk(top, TopOps(t, s))
  <2>1. TopOps(t, s) \in {CallerOps, FunctionOps, RequestOps, GeneratorOps, {}}
    BY DEF TopOps, OuterOps, InnerOps
  <2>2. TopOps(t, s) # {}
    <3>1. \/ Len(s) = 1
          \/ Len(s) = 2 /\ InnerOps(t) # {}
      BY <1>6, TopIs
    <3>2. OuterOps(t) # {}
      BY DEF OuterOps, CallerOps, FunctionOps, GeneratorOps, RequestOps
    <3>3. QED
      BY <3>1, <3>2 DEF TopOps
  <2>3. TopOps(t, s) \notin {RequestOps, GeneratorOps}
    BY <1>6 DEF FrameOk, OfRuntime
  <2>4. TopOps(t, s) = FunctionOps => f \in SubFunctions(Modules[m])
    BY <1>6 DEF FrameOk, SubFunction
  <2>5. QED
    BY <1>11, <2>1, <2>2, <2>3, <2>4
<1>13. stack'[t] = Replaced(s, top) /\ DOMAIN stack' = Threads /\ \A u \in Threads \ {t} : Same(u)
  <2>1. PICK r : r = Replaced(s, top)
    OBVIOUS
  <2>2. stack' = [stack EXCEPT ![t] = r]
    BY <1>1, <1>5, <2>1
  <2>3. DOMAIN stack = Threads
    BY <1>10 DEF TypesOk
  <2>4. QED
    BY <1>4, <2>1, <2>2, <2>3 DEF Same
<1>14. TypesOk'
  BY <1>3, <1>10, <1>13, TypesKept DEF TypesOk, requests
<1>15. ThreadOk(t)'
  <2>1. StackOk(t, Replaced(s, top))
    BY <1>6, <1>12, ReplacedStack
  <2>2. PICK s2 : s2 = Replaced(s, top)
    OBVIOUS
  <2>3. StackOk(t, s2)' /\ stack'[t] = s2
    BY <1>4, <1>13, <2>1, <2>2, EnvThreads
  <2>4. ASSUME NEW lib \in Libs PROVE OpenOk(lib, t, stack[t], Log(lib, t))'
    <3>1. PICK evs : evs = Log(lib, t)
      OBVIOUS
    <3>2. Log(lib, t)' = evs
      BY <1>4, <3>1 DEF Log
    <3>3. OpenOk(lib, t, s, evs)
      BY <1>1, <1>2, <3>1 DEF TracingInv, ThreadOk
    <3>4. PICK under : under = Under(lib, t, s)
      OBVIOUS
    <3>5. FrameOpen(lib, fr, under, evs)
      BY <1>6, <3>3, <3>4, TopIs
    <3>6. PICK x : After(lib, fr, 0, x) /\ OpenMarks(evs) = Opened(under, x)
      BY <3>5 DEF FrameOpen
    <3>7. x = ScopOpen(lib, m, f)
      <4>1. DOMAIN fr.code = {}
        BY <1>6
      <4>2. x = Rest(lib, fr)
        BY <3>6, <4>1 DEF After
      <4>3. QED
        BY <1>6, <4>2 DEF Rest
    <3>8. FrameOpen(lib, top, under, evs)
      BY <1>11, <3>6, <3>7 DEF FrameOpen
    <3>9. OpenOk(lib, t, s2, evs)
      BY <1>6, <2>2, <3>4, <3>8, ReplacedOpen
    <3>10. OpenOk(lib, t, s2, evs)'
      BY <1>4, <3>9, EnvThreads
    <3>11. QED
      BY <2>3, <3>2, <3>10
  <2>5. QED
    BY <2>3, <2>4 DEF ThreadOk
<1>16. \A w \in Workers[t] : t \in Apps /\ stack[w] # <<>> =>
         stack'[t] # <<>> /\ AtCall(stack'[t][1], {"call", "join"})
  <2>1. SUFFICES ASSUME NEW w \in Workers[t], t \in Apps, stack[w] # <<>>
                 PROVE  stack'[t] # <<>> /\ AtCall(stack'[t][1], {"call", "join"})
    OBVIOUS
  <2>2. AtCall(s[1], {"call", "join"})
    BY <1>1, <2>1 DEF TracingInv, WorkersOk
  <2>3. \/ \E g : s = <<g>> /\ Last(s) = g
        \/ \E low, g : s = <<low, g>> /\ Front(s) = <<low>>
    BY <1>6, TopIs
  <2>4. CASE \E g : s = <<g>> /\ Last(s) = g
    BY <1>6, <2>2, <2>4 DEF AtCall
  <2>5. CASE \E low, g : s = <<low, g>> /\ Front(s) = <<low>>
    <3>1. PICK low, g : s = <<low, g>> /\ Front(s) = <<low>>
      BY <2>5
    <3>2. stack'[t] = <<low>> \/ stack'[t] = <<low, top>>
      BY <1>13, <3>1, Ends DEF Replaced
    <3>3. s[1] = low /\ stack'[t] # <<>> /\ stack'[t][1] = low
      <4>1. /\ <<low, g>>[1] = low /\ <<low>>[1] = low /\ <<low, top>>[1] = low
            /\ <<low>> # <<>> /\ <<low, top>> # <<>>
        BY Ends
      <4>2. QED
        BY <3>1, <3>2, <4>1, Zenon
    <3>4. QED
      BY <2>2, <3>3
  <2>6. QED
    BY <2>3, <2>4, <2>5
<1>17. t \in Teams => Announced(t)'
  <2>1. SUFFICES ASSUME t \in Teams PROVE Announced(t)'
    OBVIOUS
  <2>2. Announced(t)
    BY <2>1 DEF TracingInv, TeamsOk
  <2>3. ~AtCall(Last(stack[t]), {"likwid_markerThreadInit"}) /\ stack[t] # <<>>
    BY <1>1 DEF AtCall, Top
  <2>4. QED
    BY <1>4, <2>2, <2>3 DEF Announced
<1>18. t = Main => InMain'
  <2>1. t = Main => InMain
    BY <1>2, BeforeMainEnds
  <2>2. InMain' = InMain
    BY <1>4 DEF InMain, MainLog, MainEntered
  <2>3. QED
    BY <2>1, <2>2
<1>19. UNCHANGED <<env, ending, stored, fault, likwid>>
  BY <1>3, <1>4
<1>20. t \in Teams /\ stack'[t] # <<>> => stack[t] # <<>>
  BY <1>1
<1>21. ready \subseteq ready'
  BY <1>4
<1>22. QED
  BY <1>2, <1>13, <1>14, <1>15, <1>16, <1>17, <1>18, <1>19, <1>20, <1>21, ThreadMoves

-----------------------------------------------------------------------------
(* What the libraries record.                                              *)

(* An id stays a number, and ids of regions stay as they are.              *)
LEMMA NarrowIs ==
  ASSUME NEW id \in Int
  PROVE  Narrow(id) \in Int /\ (id < 0 => Narrow(id) = id)
<1>1. PICK w : w = 2 ^ IdBits
  OBVIOUS
<1>2. w \in Nat \ {0}
  BY <1>1, Assumptions
<1>3. Narrow(id) = IF id < 0 THEN id ELSE id % w
  BY <1>1 DEF Narrow
<1>4. QED
  BY <1>2, <1>3

(* An event more.                                                          *)
LEMMA AppendIs ==
  ASSUME NEW R, NEW evs \in Seq(R), NEW e \in R
  PROVE  /\ Append(evs, e) \in Seq(R) /\ Append(evs, e) # <<>> /\ Len(Append(evs, e)) = Len(evs) + 1
         /\ Len(evs) \in Nat /\ DOMAIN Append(evs, e) = 1..(Len(evs) + 1) /\ DOMAIN evs = 1..Len(evs)
         /\ \A i \in DOMAIN evs : Append(evs, e)[i] = evs[i]
         /\ Append(evs, e)[Len(evs) + 1] = e
  OBVIOUS

(* libpprof records an event.                                              *)
LEMMA RecordIs ==
  ASSUME TypesOk, NEW t \in Threads, NEW id \in Int, NEW type \in EventTypes, Record(t, id, type),
         type \notin Enters => events[t] # <<>>
  PROVE  /\ fault' = fault /\ \A u \in Threads \ {t} : events'[u] = events[u]
         /\ \E e \in EventRecords :
              e.id = Narrow(id) /\ e.type = type /\ events'[t] = Append(events[t], e)
         /\ events' \in [Threads -> Seq(EventRecords)]
         /\ \A u \in Threads : events'[u] # <<>> => events'[u][1].type \in Enters
<1>1. PICK evs, e : evs = events[t] /\ e = Event(Narrow(id), type, Len(events[t]))
  OBVIOUS
<1>2. evs \in Seq(EventRecords) /\ events \in [Threads -> Seq(EventRecords)]
  BY <1>1 DEF TypesOk
<1>3. e \in EventRecords /\ e.id = Narrow(id) /\ e.type = type
  <2>1. Len(evs) \in Nat /\ Narrow(id) \in Int
    BY <1>2, NarrowIs
  <2>2. QED
    BY <1>1, <2>1 DEF Event, EventRecords
<1>4. PICK evs2 : evs2 = Append(evs, e)
  OBVIOUS
<1>5. fault' = fault /\ events' = [events EXCEPT ![t] = evs2]
  BY <1>1, <1>4 DEF Record
<1>6. evs2 \in Seq(EventRecords)
  BY <1>2, <1>3, <1>4
<1>7. events'[t] = evs2 /\ \A u \in Threads \ {t} : events'[u] = events[u]
  BY <1>2, <1>5
<1>8. events' \in [Threads -> Seq(EventRecords)]
  BY <1>2, <1>5, <1>6
<1>9. evs2[1].type \in Enters
  <2>1. CASE evs = <<>>
    <3>1. evs2[1] = e
      BY <1>4, <2>1
    <3>2. QED
      BY <1>1, <1>3, <2>1, <3>1
  <2>2. CASE evs # <<>>
    <3>1. evs2[1] = evs[1]
      BY <1>2, <1>3, <1>4, <2>2
    <3>2. QED
      BY <1>1, <2>2, <3>1 DEF TypesOk
  <2>3. QED
    BY <2>1, <2>2
<1>10. \A u \in Threads : events'[u] # <<>> => events'[u][1].type \in Enters
  BY <1>7, <1>9 DEF TypesOk
<1>11. QED
  BY <1>1, <1>3, <1>4, <1>5, <1>7, <1>8, <1>10

(* LIKWID does.                                                            *)
LEMMA MarkIs ==
  ASSUME TypesOk, NEW t \in Threads, NEW arg \in Functions \cup RegionNames, NEW type \in EventTypes,
         marks' = [marks EXCEPT ![t] = Append(@, Mark(arg, type, Len(@), likwid, t \in ready))],
         env' = env, likwid \in {"off", "on"}, likwid = "off" => env.papi,
         t \in Teams \/ (t = Main /\ ~env.papi) => t \in ready
  PROVE  /\ \A u \in Threads \ {t} : marks'[u] = marks[u]
         /\ \E e \in MarkRecords : /\ e.id = arg /\ e.type = type /\ marks'[t] = Append(marks[t], e)
                                   /\ e.lib = likwid
         /\ marks' \in [Threads -> Seq(MarkRecords)]
         /\ \A u \in Threads : \A i \in DOMAIN marks'[u] :
              /\ marks'[u][i].lib = "off" => env'.papi
              /\ u \in Teams \/ (u = Main /\ ~env'.papi) => marks'[u][i].known
<1>1. PICK evs, k : evs = marks[t] /\ k = (t \in ready)
  OBVIOUS
<1>2. k \in BOOLEAN /\ (k <=> t \in ready)
  <2>1. (t \in ready) \in BOOLEAN
    OBVIOUS
  <2>2. k = (t \in ready)
    BY <1>1
  <2>3. k \in BOOLEAN
    BY <2>1, <2>2
  <2>4. k <=> t \in ready
    BY <2>2
  <2>5. QED
    BY <2>3, <2>4
<1>3. PICK e : e = Mark(arg, type, Len(evs), likwid, k)
  OBVIOUS
<1>4. evs \in Seq(MarkRecords) /\ marks \in [Threads -> Seq(MarkRecords)]
  BY <1>1 DEF TypesOk
<1>5. e = [id |-> arg, type |-> type, at |-> Len(evs), lib |-> likwid, known |-> k]
  BY <1>3 DEF Mark
<1>6. e \in MarkRecords /\ e.id = arg /\ e.type = type /\ e.lib = likwid /\ e.known = k
  <2>1. Len(evs) \in Nat
    BY <1>4
  <2>2. QED
    BY <1>2, <1>5, <2>1 DEF MarkRecords
<1>7. PICK evs2 : evs2 = Append(evs, e)
  OBVIOUS
<1>8. marks' = [marks EXCEPT ![t] = evs2]
  BY <1>1, <1>3, <1>7
<1>9. evs2 \in Seq(MarkRecords)
  BY <1>4, <1>6, <1>7
<1>10. marks'[t] = evs2 /\ \A u \in Threads \ {t} : marks'[u] = marks[u]
  BY <1>4, <1>8
<1>11. marks' \in [Threads -> Seq(MarkRecords)]
  BY <1>4, <1>8, <1>9
<1>12. ASSUME NEW i \in DOMAIN evs2
       PROVE  /\ evs2[i].lib = "off" => env'.papi
              /\ t \in Teams \/ (t = Main /\ ~env'.papi) => evs2[i].known
  <2>1. (i \in DOMAIN evs /\ evs2[i] = evs[i]) \/ evs2[i] = e
    <3>1. Len(evs) \in Nat /\ DOMAIN evs = 1..Len(evs) /\ DOMAIN evs2 = 1..(Len(evs) + 1)
          /\ evs2[Len(evs) + 1] = e /\ \A j \in DOMAIN evs : evs2[j] = evs[j]
      BY <1>4, <1>6, <1>7, AppendIs
    <3>2. i = Len(evs) + 1 \/ i \in DOMAIN evs
      BY <3>1
    <3>3. QED
      BY <3>1, <3>2
  <2>2. CASE i \in DOMAIN evs /\ evs2[i] = evs[i]
    BY <1>1, <2>2 DEF TypesOk
  <2>3. CASE evs2[i] = e
    <3>1. evs2[i].lib = likwid /\ evs2[i].known = k
      BY <1>6, <2>3
    <3>2. t \in Teams \/ (t = Main /\ ~env'.papi) => k
      BY <1>2
    <3>3. QED
      BY <3>1, <3>2
  <2>4. QED
    BY <2>1, <2>2, <2>3
<1>13. ASSUME NEW u \in Threads, NEW i \in DOMAIN marks'[u]
       PROVE  /\ marks'[u][i].lib = "off" => env'.papi
              /\ u \in Teams \/ (u = Main /\ ~env'.papi) => marks'[u][i].known
  <2>1. CASE u = t
    BY <1>10, <1>12, <2>1
  <2>2. CASE u # t
    BY <1>10, <2>2 DEF TypesOk
  <2>3. QED
    BY <2>1, <2>2
<1>14. QED
  BY <1>1, <1>6, <1>7, <1>10, <1>11, <1>13

(* A mark that a thread comes to.                                          *)
LEMMA TraceHead ==
  ASSUME TracingInv, NEW t \in Threads \ {exiter}, NEW op \in LikwidCalls \cup TracerCalls, At(t, op),
         NEW i, i = Head(Top(t).code)
  PROVE  /\ stack[t] # <<>> /\ Top(t).code # <<>> /\ i.op = op /\ i.id \in Int
         /\ op \in RegionCalls => i.id \in Regions /\ i.arg \in RegionNames \ {"polyjit.main"}
         /\ op \in ScopCalls => env.papi /\ i.id \in Nat
         /\ op \in LikwidCalls => env.likwid /\ i.arg \in Functions
<1>1. stack[t] # <<>> /\ Top(t).code # <<>> /\ i.op = op
  BY DEF At
<1>2. i = Top(t).code[1] /\ i \in Instrs /\ MarksOk(Top(t), 1)
  BY <1>1, TopInstr
<1>3. i.id \in Int
  BY <1>2 DEF Instrs
<1>4. QED
  BY <1>1, <1>2, <1>3 DEF MarksOk

(* The types of what is recorded.                                          *)
LEMMA TypesOfEvents ==
  ASSUME NEW op \in LikwidCalls \cup TracerCalls
  PROVE  /\ EventType[op] \in EventTypes
         /\ EventType[op] = "RegionExit" =>
              op \in {"polliTracingRegionStop", "likwid_markerStopRegion"}
         /\ op \in RegionCalls \cup ScopCalls \cup LikwidCalls
         /\ op \notin {"call", "join", "likwid_markerThreadInit"}
         /\ LikwidCalls \cap TracerCalls = {}
BY DEF EventType, EventTypes, LikwidCalls, TracerCalls, RegionCalls, ScopCalls

(* An exit is recorded by a thread that has recorded its enter.            *)
LEMMA ExitAfterEnter ==
  ASSUME TracingInv, NEW t \in Threads \ {exiter}, NEW op \in TracerCalls, At(t, op), env.papi,
         EventType[op] \notin Enters
  PROVE  events[t] # <<>>
<1>1. PICK fr, s : fr = Top(t) /\ s = stack[t]
  OBVIOUS
<1>2. fr.code # <<>> /\ s # <<>> /\ fr = Last(s) /\ Head(fr.code).op = op
  BY <1>1 DEF At, Top
<1>3. StackOk(t, s) /\ FrameOk(fr, TopOps(t, s))
  BY <1>1, <1>2, TopInstr
<1>4. PICK lib \in Libs : lib = "papi"
  BY DEF Libs
<1>5. OpenOk(lib, t, s, events[t])
  BY <1>1, <1>4 DEF TracingInv, ThreadOk, Log
<1>6. PICK under : under = Under(lib, t, s)
  OBVIOUS
<1>7. FrameOpen(lib, fr, under, events[t])
  BY <1>2, <1>3, <1>5, <1>6, TopIs
<1>8. PICK x : After(lib, fr, 0, x) /\ OpenMarks(events[t]) = Opened(under, x)
  BY <1>7 DEF FrameOpen
<1>9. Closing(lib, Head(fr.code))
  BY <1>2, <1>4 DEF Closing, Goes
<1>10. PICK n : n = Name(lib, Head(fr.code))
  OBVIOUS
<1>11. x = <<n>>
  BY <1>2, <1>3, <1>8, <1>9, <1>10, MarkingHead
<1>12. OpenMarks(events[t]) = Append(under, n)
  <2>1. <<n>> # <<>> /\ <<n>>[1] = n
    OBVIOUS
  <2>2. QED
    BY <1>8, <1>11, <2>1, Zenon DEF Opened
<1>13. Append(under, n) # <<>>
  <2>1. under \in Seq(Names)
    BY <1>6, UnderTyped
  <2>2. PICK T : T = Names \cup {n}
    OBVIOUS
  <2>3. under \in Seq(T) /\ n \in T
    BY <2>1, <2>2
  <2>4. QED
    BY <2>3, AppendIs
<1>14. QED
  BY <1>12, <1>13, OpenMarksNone

(* Main's region does not end with one of the others.                      *)
LEMMA MainStays ==
  ASSUME NEW R, NEW evs \in Seq(R), MainEntered(evs), NEW e \in R,
         e.type = "RegionExit" =>
           IF env.papi THEN e.id \in Regions ELSE e.id # "polyjit.main"
  PROVE  MainEntered(Append(evs, e))
<1>1. PICK evs2 : evs2 = Append(evs, e)
  OBVIOUS
<1>2. /\ evs2 # <<>> /\ Len(evs2) = Len(evs) + 1 /\ Len(evs) \in Nat
      /\ DOMAIN evs2 = 1..(Len(evs) + 1) /\ DOMAIN evs = 1..Len(evs)
      /\ (\A i \in DOMAIN evs : evs2[i] = evs[i]) /\ evs2[Len(evs) + 1] = e
  BY <1>1, AppendIs
<1>3. Len(evs) >= 1 /\ evs2[1] = evs[1]
  <2>1. evs # <<>>
    BY DEF MainEntered
  <2>2. Len(evs) # 0
    BY <2>1
  <2>3. 1 \in DOMAIN evs
    BY <1>2, <2>2
  <2>4. QED
    BY <1>2, <2>3
<1>4. \A i \in DOMAIN evs2 : evs2[i] = e \/ (i \in DOMAIN evs /\ evs2[i] = evs[i])
  <2>1. \A i \in 1..(Len(evs) + 1) : i = Len(evs) + 1 \/ i \in 1..Len(evs)
    BY <1>2
  <2>2. QED
    BY <1>2, <2>1
<1>5. CASE env.papi
  <2>1. /\ evs[1].type = "RegionEnter" /\ evs[1].id = Total /\ Len(evs) >= 2
        /\ evs[2].id = PJIT_REGION_MAIN /\ evs[2].type = "RegionEnter"
        /\ \A i \in DOMAIN evs : evs[i].type = "RegionExit" => evs[i].id \in Regions
    BY <1>5 DEF MainEntered
  <2>2. 2 \in DOMAIN evs
    BY <1>2, <2>1
  <2>3. evs2[2] = evs[2] /\ Len(evs2) >= 2
    BY <1>2, <2>1, <2>2
  <2>4. \A i \in DOMAIN evs2 : evs2[i].type = "RegionExit" => evs2[i].id \in Regions
    BY <1>4, <1>5, <2>1
  <2>5. QED
    BY <1>1, <1>2, <1>3, <1>5, <2>1, <2>3, <2>4 DEF MainEntered
<1>6. CASE ~env.papi
  <2>1. /\ evs[1].type = "RegionEnter" /\ evs[1].id = "polyjit.main"
        /\ \A i \in DOMAIN evs : evs[i].type = "RegionExit" => evs[i].id # "polyjit.main"
    BY <1>6 DEF MainEntered
  <2>2. \A i \in DOMAIN evs2 : evs2[i].type = "RegionExit" => evs2[i].id # "polyjit.main"
    BY <1>4, <1>6, <2>1
  <2>3. QED
    BY <1>1, <1>2, <1>3, <1>6, <2>1, <2>2 DEF MainEntered
<1>7. QED
  BY <1>5, <1>6

(* A thread that does not exit calls a tracer.                             *)
LEMMA TraceKeeps ==
  ASSUME TracingInv, NEW t \in Threads \ {exiter}, NEW op \in LikwidCalls \cup TracerCalls, Trace(t, op)
  PROVE  TracingInv'
<1>1. PICK i : i = Head(Top(t).code)
  OBVIOUS
<1>2. /\ At(t, op) /\ Advance(t) /\ Alive
      /\ UNCHANGED <<env, requests, ending, stored, likwid, ready>>
  BY DEF Trace, At
<1>3. PICK tracer : tracer = IF op \in LikwidCalls THEN "LikwidTracer" ELSE Tracer
  OBVIOUS
<1>4. /\ IF tracer = "PapiTracer" THEN Record(t, i.id, EventType[op]) ELSE UNCHANGED <<events, fault>>
      /\ marks' = IF tracer = "LikwidTracer"
                  THEN [marks EXCEPT ![t] = Append(@, Mark(i.arg, EventType[op], Len(@),
                                                           likwid, t \in ready))]
                  ELSE marks
  BY <1>1, <1>3 DEF Trace
<1>5. PICK type : type = EventType[op]
  OBVIOUS
<1>6. /\ type \in EventTypes /\ op \notin {"call", "join", "likwid_markerThreadInit"}
      /\ type = "RegionExit" => op \in {"polliTracingRegionStop", "likwid_markerStopRegion"}
      /\ op \in RegionCalls \cup ScopCalls \cup LikwidCalls /\ LikwidCalls \cap TracerCalls = {}
  BY <1>5, TypesOfEvents
<1>7. /\ tracer = "PapiTracer" <=> Goes("papi", op)
      /\ tracer = "LikwidTracer" <=> Goes("likwid", op)
      /\ Goes("papi", op) <=> env.papi /\ op \in TracerCalls
      /\ Goes("likwid", op) <=> op \in LikwidCalls \/ (~env.papi /\ op \in TracerCalls)
  BY <1>3, <1>6 DEF Goes, Tracer
<1>8. /\ stack[t] # <<>> /\ Top(t).code # <<>> /\ i.op = op /\ i.id \in Int
      /\ op \in RegionCalls => i.id \in Regions /\ i.arg \in RegionNames \ {"polyjit.main"}
      /\ op \in ScopCalls => env.papi
      /\ op \in LikwidCalls => env.likwid /\ i.arg \in Functions
  BY <1>1, <1>2, TraceHead
<1>9. /\ TypesOk /\ t \in Threads /\ env' = env /\ stored' = stored /\ likwid' = likwid /\ ready' = ready
      /\ DOMAIN stack' = Threads
  BY <1>2, AdvancedIs DEF TracingInv, Advance
<1>10. /\ fault' = fault /\ \A u \in Threads \ {t} : events'[u] = events[u]
       /\ IF Goes("papi", op)
          THEN \E e \in EventRecords : e.id = Narrow(i.id) /\ e.type = type /\ events'[t] = Append(events[t], e)
          ELSE events'[t] = events[t]
       /\ events' \in [Threads -> Seq(EventRecords)]
       /\ \A u \in Threads : events'[u] # <<>> => events'[u][1].type \in Enters
  <2>1. CASE Goes("papi", op)
    <3>1. Record(t, i.id, type)
      BY <1>4, <1>5, <1>7, <2>1
    <3>2. type \notin Enters => events[t] # <<>>
      BY <1>2, <1>5, <1>7, <2>1, ExitAfterEnter
    <3>3. QED
      BY <1>6, <1>8, <1>9, <2>1, <3>1, <3>2, RecordIs
  <2>2. CASE ~Goes("papi", op)
    <3>1. events' = events /\ fault' = fault
      BY <1>4, <1>7, <2>2
    <3>2. QED
      BY <1>9, <2>2, <3>1 DEF TypesOk
  <2>3. QED
    BY <2>1, <2>2
<1>11. /\ \A u \in Threads \ {t} : marks'[u] = marks[u]
       /\ IF Goes("likwid", op)
          THEN \E e \in MarkRecords : e.id = i.arg /\ e.type = type /\ marks'[t] = Append(marks[t], e)
          ELSE marks'[t] = marks[t]
       /\ marks' \in [Threads -> Seq(MarkRecords)]
       /\ \A u \in Threads : \A j \in DOMAIN marks'[u] :
              /\ marks'[u][j].lib = "off" => env'.papi
              /\ u \in Teams \/ (u = Main /\ ~env'.papi) => marks'[u][j].known
  <2>1. CASE Goes("likwid", op)
    <3>1. i.arg \in Functions \cup RegionNames
      BY <1>6, <1>7, <1>8, <2>1
    <3>2. likwid = IF env.papi THEN "off" ELSE "on"
      BY <1>2, BeforeMainEnds
    <3>3. t \in Teams => t \in ready
      <4>1. SUFFICES ASSUME t \in Teams PROVE t \in ready
        OBVIOUS
      <4>2. Announced(t)
        BY <4>1 DEF TracingInv, TeamsOk
      <4>3. ~AtCall(Last(stack[t]), {"likwid_markerThreadInit"})
        BY <1>1, <1>6, <1>8 DEF AtCall, Top
      <4>4. env.likwid
        BY <1>7, <1>8, <1>9, <2>1 DEF TypesOk
      <4>5. QED
        BY <1>8, <4>2, <4>3, <4>4 DEF Announced
    <3>4. t = Main /\ ~env.papi => t \in ready
      BY <1>9 DEF TypesOk
    <3>5. marks' = [marks EXCEPT ![t] = Append(@, Mark(i.arg, type, Len(@), likwid, t \in ready))]
      BY <1>4, <1>5, <1>7, <2>1
    <3>6. likwid \in {"off", "on"} /\ (likwid = "off" => env.papi)
      BY <3>2
    <3>7. t \in Teams \/ (t = Main /\ ~env.papi) => t \in ready
      BY <3>3, <3>4
    <3>8. PICK arg : arg = i.arg
      OBVIOUS
    <3>9. /\ \A u \in Threads \ {t} : marks'[u] = marks[u]
          /\ \E e \in MarkRecords : /\ e.id = arg /\ e.type = type /\ marks'[t] = Append(marks[t], e)
                                    /\ e.lib = likwid
          /\ marks' \in [Threads -> Seq(MarkRecords)]
          /\ \A u \in Threads : \A j \in DOMAIN marks'[u] :
               /\ marks'[u][j].lib = "off" => env'.papi
               /\ u \in Teams \/ (u = Main /\ ~env'.papi) => marks'[u][j].known
      <4>1. marks' = [marks EXCEPT ![t] = Append(@, Mark(arg, type, Len(@), likwid, t \in ready))]
        BY <3>5, <3>8, Zenon
      <4>2. arg \in Functions \cup RegionNames /\ type \in EventTypes
        BY <1>6, <3>1, <3>8
      <4>3. TypesOk /\ t \in Threads /\ env' = env
        BY <1>9
      <4>4. QED
        BY <3>6, <3>7, <4>1, <4>2, <4>3, MarkIs
    <3>10. QED
      BY <2>1, <3>8, <3>9
  <2>2. CASE ~Goes("likwid", op)
    <3>1. marks' = marks
      BY <1>4, <1>7, <2>2
    <3>2. QED
      BY <1>9, <2>2, <3>1 DEF TypesOk
  <2>3. QED
    BY <2>1, <2>2
<1>12. ASSUME NEW lib \in Libs PROVE Told(lib, Head(Top(t).code), Log(lib, t), Log(lib, t)')
  <2>1. CASE lib = "papi"
    BY <1>1, <1>5, <1>8, <1>10, <2>1 DEF Told, Log, Recs, Name
  <2>2. CASE lib = "likwid"
    BY <1>1, <1>5, <1>8, <1>11, <2>2 DEF Told, Log, Recs, Name
  <2>3. QED
    BY <2>1, <2>2 DEF Libs
<1>13. TypesOk'
  BY <1>2, <1>9, <1>10, <1>11 DEF TypesOk, requests
<1>14. t = Main => InMain'
  <2>1. SUFFICES ASSUME t = Main PROVE InMain'
    OBVIOUS
  <2>2. InMain
    BY <2>1, BeforeMainEnds
  <2>3. CASE env.papi
    <3>1. MainEntered(events[t])
      BY <2>1, <2>2, <2>3 DEF InMain, MainLog
    <3>2. MainEntered(events'[t])
      <4>1. CASE Goes("papi", op)
        <5>1. PICK e \in EventRecords : e.id = Narrow(i.id) /\ e.type = type /\ events'[t] = Append(events[t], e)
          BY <1>10, <4>1
        <5>2. e.type = "RegionExit" => e.id \in Regions
          <6>1. SUFFICES ASSUME e.type = "RegionExit" PROVE e.id \in Regions
            OBVIOUS
          <6>2. op = "polliTracingRegionStop"
            BY <1>6, <1>7, <4>1, <5>1, <6>1 DEF LikwidCalls
          <6>3. i.id \in Regions
            BY <1>8, <6>2 DEF RegionCalls
          <6>4. i.id < 0
            BY <6>3 DEF Regions, PJIT_REGION_CODEGEN, PJIT_REGION_GET_PROTOTYPE, PJIT_REGION_SELECT_PARAMS
          <6>5. QED
            BY <1>8, <5>1, <6>3, <6>4, NarrowIs
        <5>3. events[t] \in Seq(EventRecords)
          BY <1>9 DEF TypesOk
        <5>4. MainEntered(Append(events[t], e))
          BY <2>3, <3>1, <5>2, <5>3, MainStays
        <5>5. QED
          BY <5>1, <5>4
      <4>2. CASE ~Goes("papi", op)
        BY <1>10, <3>1, <4>2
      <4>3. QED
        BY <4>1, <4>2
    <3>3. QED
      BY <1>9, <2>1, <2>3, <3>2 DEF InMain, MainLog, MainEntered
  <2>4. CASE ~env.papi
    <3>1. MainEntered(marks[t])
      BY <2>1, <2>2, <2>4 DEF InMain, MainLog
    <3>2. MainEntered(marks'[t])
      <4>1. CASE Goes("likwid", op)
        <5>1. PICK e \in MarkRecords : e.id = i.arg /\ e.type = type /\ marks'[t] = Append(marks[t], e)
          BY <1>11, <4>1
        <5>2. e.id # "polyjit.main"
          <6>1. "polyjit.main" \notin Functions
            BY Assumptions DEF Functions
          <6>2. QED
            BY <1>6, <1>7, <1>8, <2>4, <4>1, <5>1, <6>1
        <5>3. marks[t] \in Seq(MarkRecords)
          BY <1>9 DEF TypesOk
        <5>4. MainEntered(Append(marks[t], e))
          BY <2>4, <3>1, <5>2, <5>3, MainStays
        <5>5. QED
          BY <5>1, <5>4
      <4>2. CASE ~Goes("likwid", op)
        BY <1>11, <3>1, <4>2
      <4>3. QED
        BY <4>1, <4>2
    <3>3. QED
      BY <1>9, <2>1, <2>4, <3>2 DEF InMain, MainLog, MainEntered
  <2>5. QED
    BY <2>3, <2>4
<1>15. UNCHANGED <<env, ending, stored, fault, likwid>> /\ ready \subseteq ready'
  BY <1>2, <1>10
<1>16. Head(Top(t).code).op \notin {"call", "join", "likwid_markerThreadInit"}
  BY <1>1, <1>6, <1>8
<1>17. \A u \in Threads \ {t} : events'[u] = events[u] /\ marks'[u] = marks[u]
  BY <1>10, <1>11
<1>18. QED
  BY <1>2, <1>8, <1>12, <1>13, <1>14, <1>15, <1>16, <1>17, Advances

-----------------------------------------------------------------------------
(* Frames are entered.                                                     *)

(* A thread that is in no frame, or leaves the last one, enters one.       *)
LEMMA EnterFirst ==
  ASSUME TracingInv, TypesOk', UNCHANGED <<env, ending, tracing>>,
         NEW t \in Threads \ {exiter}, t \notin Teams, NEW fr, FrameOk(fr, OuterOps(t)),
         \A lib \in Libs : After(lib, fr, 0, <<>>) /\ OpenMarks(Log(lib, t)) = Base(lib, t),
         \A w \in Workers[t] : t \in Apps => stack[w] = <<>>,
         stack'[t] = <<fr>>, \A u \in Threads \ {t} : stack'[u] = stack[u]
  PROVE  TracingInv'
<1>1. /\ events' = events /\ fault' = fault /\ ready' = ready /\ marks' = marks
      /\ env' = env /\ stored' = stored /\ likwid' = likwid
  BY DEF tracing, papi, likwidVars
<1>2. PICK s2 : s2 = <<fr>>
  OBVIOUS
<1>3. StackOk(t, s2)
  BY <1>2 DEF StackOk
<1>4. ASSUME NEW lib \in Libs PROVE OpenOk(lib, t, s2, Log(lib, t))
  <2>1. FrameOpen(lib, fr, Base(lib, t), Log(lib, t))
    BY DEF FrameOpen, Opened
  <2>2. QED
    BY <1>2, <2>1, OpenIs
<1>5. StackOk(t, s2)'
  BY <1>1, <1>3, EnvThreads
<1>6. ASSUME NEW lib \in Libs PROVE OpenOk(lib, t, stack[t], Log(lib, t))'
  <2>1. PICK evs : evs = Log(lib, t)
    OBVIOUS
  <2>2. Log(lib, t)' = evs
    BY <1>1, <2>1 DEF Log
  <2>3. OpenOk(lib, t, s2, evs)
    BY <1>4, <2>1
  <2>4. OpenOk(lib, t, s2, evs)'
    BY <1>1, <2>3, EnvThreads
  <2>5. QED
    BY <1>2, <2>2, <2>4
<1>7. ThreadOk(t)'
  BY <1>2, <1>5, <1>6 DEF ThreadOk
<1>8. \A u \in Threads \ {t} : Same(u)
  BY <1>1 DEF Same
<1>9. t = Main => InMain'
  <2>1. t = Main => InMain
    BY BeforeMainEnds
  <2>2. InMain' = InMain
    BY <1>1 DEF InMain, MainLog, MainEntered
  <2>3. QED
    BY <2>1, <2>2
<1>10. UNCHANGED <<env, ending, stored, fault, likwid>> /\ ready \subseteq ready'
  BY <1>1
<1>11. QED
  BY <1>7, <1>8, <1>9, <1>10, ThreadMoves

(* What is open where a frame waits.                                       *)
LEMMA WaitsOpen ==
  ASSUME NEW t, NEW lib \in Libs, NEW low, FrameOk(low, OuterOps(t)), AtCall(low, {"join", "requests"}),
         NEW evs, FrameOpen(lib, low, Base(lib, t), evs)
  PROVE  OpenMarks(evs) = Below(lib, t)
<1>1. IsFrame(low)
  BY DEF FrameOk, IsFrame
<1>2. PICK y : After(lib, low, 0, y) /\ Opened(Base(lib, t), y) = Below(lib, t)
  BY LowWaits
<1>3. PICK x : After(lib, low, 0, x) /\ OpenMarks(evs) = Opened(Base(lib, t), x)
  BY DEF FrameOpen
<1>4. PICK n \in Nat : n = 0
  OBVIOUS
<1>5. After(lib, low, n, x) /\ After(lib, low, n, y)
  BY <1>2, <1>3, <1>4
<1>6. x = y
  BY <1>1, <1>5, AfterUnique
<1>7. QED
  BY <1>2, <1>3, <1>6

(* A thread enters a second frame, and waits in the first.                 *)
LEMMA EnterSecond ==
  ASSUME TracingInv, TypesOk', UNCHANGED <<env, ending, tracing>>,
         NEW t \in Threads \ {exiter}, t \notin Teams, NEW low, NEW fr,
         FrameOk(low, OuterOps(t)), AtCall(low, {"join", "requests"}), t \in Apps => AtCall(low, {"join"}),
         FrameOk(fr, InnerOps(t)), InnerOps(t) # {},
         \A lib \in Libs : After(lib, fr, 0, <<>>) /\ FrameOpen(lib, low, Base(lib, t), Log(lib, t)),
         stack'[t] = <<low, fr>>, \A u \in Threads \ {t} : stack'[u] = stack[u]
  PROVE  TracingInv'
<1>1. /\ events' = events /\ fault' = fault /\ ready' = ready /\ marks' = marks
      /\ env' = env /\ stored' = stored /\ likwid' = likwid
  BY DEF tracing, papi, likwidVars
<1>2. PICK s2 : s2 = <<low, fr>>
  OBVIOUS
<1>3. StackOk(t, s2)
  BY <1>2 DEF StackOk
<1>4. ASSUME NEW lib \in Libs PROVE OpenOk(lib, t, s2, Log(lib, t))
  <2>1. PICK evs : evs = Log(lib, t)
    OBVIOUS
  <2>2. OpenMarks(evs) = Below(lib, t)
    BY <2>1, WaitsOpen
  <2>3. FrameOpen(lib, fr, Below(lib, t), evs)
    BY <2>2 DEF FrameOpen, Opened
  <2>4. QED
    BY <1>2, <2>1, <2>3, OpenIs
<1>5. StackOk(t, s2)'
  BY <1>1, <1>3, EnvThreads
<1>6. ASSUME NEW lib \in Libs PROVE OpenOk(lib, t, stack[t], Log(lib, t))'
  <2>1. PICK evs : evs = Log(lib, t)
    OBVIOUS
  <2>2. Log(lib, t)' = evs
    BY <1>1, <2>1 DEF Log
  <2>3. OpenOk(lib, t, s2, evs)
    BY <1>4, <2>1
  <2>4. OpenOk(lib, t, s2, evs)'
    BY <1>1, <2>3, EnvThreads
  <2>5. QED
    BY <1>2, <2>2, <2>4
<1>7. ThreadOk(t)'
  BY <1>2, <1>5, <1>6 DEF ThreadOk
<1>8. \A u \in Threads \ {t} : Same(u)
  BY <1>1 DEF Same
<1>9. t = Main => InMain'
  <2>1. t = Main => InMain
    BY BeforeMainEnds
  <2>2. InMain' = InMain
    BY <1>1 DEF InMain, MainLog, MainEntered
  <2>3. QED
    BY <2>1, <2>2
<1>10. UNCHANGED <<env, ending, stored, fault, likwid>> /\ ready \subseteq ready'
  BY <1>1
<1>11. t \in Apps => stack'[t] # <<>> /\ AtCall(stack'[t][1], {"call", "join"})
  <2>1. stack'[t] # <<>> /\ stack'[t][1] = low
    <3>1. <<low, fr>> # <<>> /\ <<low, fr>>[1] = low
      BY Ends
    <3>2. QED
      BY <3>1, Zenon
  <2>2. t \in Apps => AtCall(low, {"call", "join"})
    BY DEF AtCall
  <2>3. QED
    BY <2>1, <2>2
<1>12. QED
  BY <1>7, <1>8, <1>9, <1>10, <1>11, ThreadMoves

(* A thread calls the runtime.                                             *)
LEMMA CallKeeps ==
  ASSUME TracingInv, NEW t \in Apps, NEW m \in DOMAIN Modules, Call(t, m)
  PROVE  TracingInv'
<1>1. PICK fr : fr = RuntimeFrame("pjit_main", PjitMain(m))
  OBVIOUS
<1>2. /\ stack[t] = <<>> /\ exiter # t /\ calls' = [calls EXCEPT ![t] = @ + 1] /\ work' = Append(work, m)
      /\ stack' = [stack EXCEPT ![t] = Append(@, fr)]
      /\ UNCHANGED <<env, generator, compiled, ending, tracing>>
  BY <1>1 DEF Call, Idle, Pushed
<1>3. t \in Threads \ {exiter} /\ t \notin Teams /\ t # Generator
  BY <1>2, Assumptions DEF Threads
<1>4. TypesOk /\ ThreadOk(t)
  BY <1>3 DEF TracingInv
<1>5. stack'[t] = <<fr>> /\ DOMAIN stack' = Threads /\ \A u \in Threads \ {t} : stack'[u] = stack[u]
  BY <1>2, <1>3, <1>4 DEF TypesOk
<1>6. TypesOk'
  <2>1. calls' \in [Apps -> Nat] /\ work' \in Seq(DOMAIN Modules) /\ compiled' \subseteq DOMAIN Modules
        /\ generator' \in {"asleep", "busy", "told", "ending", "over"}
    BY <1>2, <1>4 DEF TypesOk
  <2>2. QED
    BY <1>2, <1>4, <1>5, <2>1, TypesKept
<1>7. FrameOk(fr, OuterOps(t)) /\ \A lib \in Libs : After(lib, fr, 0, <<>>)
  BY <1>1, CallFrame DEF OuterOps
<1>8. \A lib \in Libs : OpenMarks(Log(lib, t)) = Base(lib, t)
  BY <1>2, <1>4, OpenIs DEF ThreadOk
<1>9. \A w \in Workers[t] : stack[w] = <<>>
  BY <1>2 DEF TracingInv, WorkersOk
<1>10. QED
  BY <1>2, <1>3, <1>5, <1>6, <1>7, <1>8, <1>9, EnterFirst

(* The generator wakes up.                                                 *)
LEMMA WakeUpKeeps ==
  ASSUME TracingInv, WakeUp
  PROVE  TracingInv'
<1>1. PICK fr, t : fr = RuntimeFrame("generator", Batch) /\ t = Generator
  OBVIOUS
<1>2. /\ stack[t] = <<>> /\ generator' \in {"busy", "ending"}
      /\ stack' = [stack EXCEPT ![t] = Append(@, fr)]
      /\ UNCHANGED <<env, calls, work, compiled, ending, tracing>>
  BY <1>1 DEF WakeUp, Idle, Pushed
<1>3. t \in Threads /\ t \notin Teams /\ t \notin Apps /\ t # None
  BY <1>1, Assumptions DEF Threads
<1>4. t # exiter
  BY <1>3 DEF TracingInv, ExitOk, ExitAt
<1>5. TypesOk /\ ThreadOk(t)
  BY <1>3, <1>4 DEF TracingInv
<1>6. stack'[t] = <<fr>> /\ DOMAIN stack' = Threads /\ \A u \in Threads \ {t} : stack'[u] = stack[u]
  BY <1>2, <1>3, <1>5 DEF TypesOk
<1>7. TypesOk'
  BY <1>2, <1>5, <1>6, TypesKept DEF TypesOk
<1>8. FrameOk(fr, OuterOps(t)) /\ \A lib \in Libs : After(lib, fr, 0, <<>>)
  BY <1>1, <1>3, BatchFrame DEF OuterOps
<1>9. \A lib \in Libs : OpenMarks(Log(lib, t)) = Base(lib, t)
  BY <1>2, <1>5, OpenIs DEF ThreadOk
<1>10. QED
  BY <1>2, <1>3, <1>4, <1>6, <1>7, <1>8, <1>9, EnterFirst

(* The generator has gone through its requests.                            *)
LEMMA EndBatchKeeps ==
  ASSUME TracingInv, EndBatch
  PROVE  TracingInv'
<1>1. /\ stack[Generator] = <<>> /\ generator' \in {"asleep", "over"}
      /\ UNCHANGED <<env, stack, calls, work, compiled, ending, tracing>>
  BY DEF EndBatch, Idle
<1>2. Generator \in Threads /\ Generator \notin Teams /\ Generator \notin Apps /\ Generator # None
      /\ Generator # Main
  BY Assumptions DEF Threads
<1>3. Generator # exiter
  BY <1>2 DEF TracingInv, ExitOk, ExitAt
<1>4. TypesOk /\ ThreadOk(Generator)
  BY <1>2, <1>3 DEF TracingInv
<1>5. TypesOk'
  BY <1>1, <1>4, TypesKept DEF TypesOk
<1>6. /\ events' = events /\ fault' = fault /\ ready' = ready /\ marks' = marks
      /\ env' = env /\ stored' = stored /\ likwid' = likwid
  BY <1>1 DEF tracing, papi, likwidVars
<1>7. \A u \in Threads : Same(u)
  BY <1>1, <1>6 DEF Same
<1>8. ThreadOk(Generator)'
  BY <1>2, <1>4, <1>6, <1>7, OtherThread
<1>9. UNCHANGED <<env, ending, stored, fault, likwid>> /\ ready \subseteq ready'
  BY <1>1, <1>6
<1>10. QED
  BY <1>1, <1>2, <1>3, <1>5, <1>7, <1>8, <1>9, ThreadMoves

(* Only the first frame of a thread calls, forks, joins, and the like.     *)
LEMMA SingleFrame ==
  ASSUME TracingInv, NEW t \in Threads \ {exiter}, t \notin Teams, NEW op, At(t, op),
         op \in {"call", "fork", "run", "requests"}
  PROVE  \E fr : /\ stack[t] = <<fr>> /\ fr = Top(t) /\ FrameOk(fr, OuterOps(t)) /\ IsFrame(fr)
                 /\ fr.code # <<>> /\ Head(fr.code).op = op /\ Head(fr.code) = fr.code[1]
                 /\ 1 \in DOMAIN fr.code /\ op \in OuterOps(t)
                 /\ \A lib \in Libs : FrameOpen(lib, fr, Base(lib, t), Log(lib, t))
<1>1. PICK s : s = stack[t]
  OBVIOUS
<1>2. s # <<>> /\ Top(t).code # <<>> /\ Head(Top(t).code).op = op /\ Top(t) = Last(s)
  BY <1>1 DEF At, Top
<1>3. /\ FrameOk(Top(t), TopOps(t, s)) /\ IsFrame(Top(t)) /\ StackOk(t, s)
      /\ 1 \in DOMAIN Top(t).code /\ Head(Top(t).code) = Top(t).code[1] /\ op \in TopOps(t, s)
  BY <1>1, <1>2, TopInstr
<1>4. op \notin InnerOps(t)
  BY DEF InnerOps, FunctionOps, RequestOps, RegionCalls, LikwidCalls, ScopCalls
<1>5. TopOps(t, s) = OuterOps(t) /\ Len(s) = 1
  BY <1>3, <1>4 DEF TopOps
<1>6. PICK fr : s = <<fr>> /\ Last(s) = fr
  <2>1. \/ \E fr : s = <<fr>> /\ Last(s) = fr /\ Len(s) = 1
        \/ \E low, fr : s = <<low, fr>> /\ Len(s) = 2
    BY <1>2, <1>3, TopIs
  <2>2. QED
    BY <1>5, <2>1
<1>7. ASSUME NEW lib \in Libs PROVE FrameOpen(lib, fr, Base(lib, t), Log(lib, t))
  <2>1. OpenOk(lib, t, s, Log(lib, t))
    BY <1>1 DEF TracingInv, ThreadOk
  <2>2. QED
    BY <1>6, <2>1, OpenIs
<1>8. QED
  BY <1>1, <1>2, <1>3, <1>5, <1>6, <1>7

(* The first frame of a function.                                          *)
LEMMA VariantFrame ==
  ASSUME TypesOk, NEW m \in DOMAIN Modules, NEW f \in DOMAIN Modules[m],
         NEW fr, fr = FunctionFrame(m, f)
  PROVE  /\ FrameOk(fr, CallerOps) /\ \A lib \in Libs : After(lib, fr, 0, <<>>)
         /\ f \in SubFunctions(Modules[m]) =>
              FrameOk(fr, FunctionOps) /\ (env.likwid => AtCall(fr, {"likwid_markerThreadInit"}))
<1>1. PICK b : b = 1
  OBVIOUS
<1>2. IsBlock(m, f, b)
  <2>1. IsFunction(Modules[m], f)
    BY Assumptions
  <2>2. PICK B : Modules[m][f] \in Seq(B) /\ Modules[m][f] # <<>>
    BY <2>1 DEF IsFunction
  <2>3. b \in DOMAIN Modules[m][f]
    BY <1>1, <2>2
  <2>4. QED
    BY <2>3 DEF IsBlock
<1>3. fr = Frame(m, f, OptimizeForRuntime(m)[f][b]) /\ env.papi \in BOOLEAN /\ env.likwid \in BOOLEAN
  BY <1>1 DEF FunctionFrame, TypesOk
<1>4. QED
  BY <1>1, <1>2, <1>3, BlockFrame

(* The generator takes a request.                                          *)
LEMMA TakeRequestKeeps ==
  ASSUME TracingInv, TakeRequest
  PROVE  TracingInv'
<1>1. PICK fr, t : fr = RuntimeFrame("request", Request(Head(work))) /\ t = Generator
  OBVIOUS
<1>2. /\ At(t, "requests") /\ work # <<>> /\ work' = Tail(work)
      /\ stack' = [stack EXCEPT ![t] = Append(@, fr)]
      /\ UNCHANGED <<env, calls, generator, compiled, ending, tracing>>
  BY <1>1 DEF TakeRequest, Pushed
<1>3. t \in Threads /\ t \notin Teams /\ t \notin Apps
  BY <1>1, Assumptions DEF Threads
<1>4. t \in Threads \ {exiter} /\ TypesOk
  BY <1>2, <1>3, DoesNotExit DEF TracingInv
<1>5. PICK low : /\ stack[t] = <<low>> /\ FrameOk(low, OuterOps(t))
                 /\ low.code # <<>> /\ Head(low.code).op = "requests"
                 /\ \A lib \in Libs : FrameOpen(lib, low, Base(lib, t), Log(lib, t))
  BY <1>2, <1>3, <1>4, SingleFrame
<1>6. stack'[t] = <<low, fr>> /\ DOMAIN stack' = Threads /\ \A u \in Threads \ {t} : stack'[u] = stack[u]
  <2>1. Append(<<low>>, fr) = <<low, fr>>
    BY Ends
  <2>2. PICK s2 : s2 = <<low, fr>>
    OBVIOUS
  <2>3. stack' = [stack EXCEPT ![t] = s2]
    BY <1>2, <1>5, <2>1, <2>2
  <2>4. QED
    BY <1>3, <1>4, <2>2, <2>3 DEF TypesOk
<1>7. Head(work) \in DOMAIN Modules /\ Tail(work) \in Seq(DOMAIN Modules)
  BY <1>2, <1>4 DEF TypesOk
<1>8. TypesOk'
  BY <1>2, <1>4, <1>6, <1>7, TypesKept DEF TypesOk
<1>9. InnerOps(t) = RequestOps /\ RequestOps # {}
  BY <1>1, <1>3 DEF InnerOps, RequestOps
<1>10. FrameOk(fr, InnerOps(t)) /\ \A lib \in Libs : After(lib, fr, 0, <<>>)
  BY <1>1, <1>7, <1>9, RequestFrame
<1>11. AtCall(low, {"join", "requests"})
  BY <1>5 DEF AtCall
<1>12. UNCHANGED <<env, ending, tracing>>
  BY <1>2
<1>13. QED
  BY <1>3, <1>4, <1>5, <1>6, <1>8, <1>9, <1>10, <1>11, <1>12, EnterSecond

(* What comes second comes next.                                           *)
LEMMA HeadNext ==
  ASSUME NEW fr, IsFrame(fr), fr.code # <<>>, 2 \in DOMAIN fr.code
  PROVE  /\ Stepped(fr).code # <<>> /\ Head(Stepped(fr).code) = fr.code[2]
         /\ ~Finished(Stepped(fr))
<1>1. PICK c, low : c = fr.code /\ low = Stepped(fr)
  OBVIOUS
<1>2. low.code = Tail(c)
  <2>1. low = [mod |-> fr.mod, fn |-> fr.fn, code |-> Tail(fr.code), next |-> fr.next]
    BY <1>1, SteppedIs
  <2>2. QED
    BY <1>1, <2>1
<1>3. c \in Seq(Instrs) /\ 2 \in DOMAIN c
  BY <1>1 DEF IsFrame
<1>4. Tail(c) # <<>> /\ Head(Tail(c)) = c[2]
  <2>1. PICK d : d = Tail(c)
    OBVIOUS
  <2>2. d \in Seq(Instrs) /\ Len(d) = Len(c) - 1 /\ Len(c) >= 2 /\ Len(c) \in Nat
    BY <1>3, <2>1
  <2>3. d # <<>> /\ Head(d) = d[1] /\ 1 \in 1..Len(d)
    BY <2>2
  <2>4. d[1] = c[1 + 1]
    BY <1>3, <2>1, <2>2
  <2>5. QED
    BY <2>1, <2>3, <2>4
<1>5. QED
  BY <1>1, <1>2, <1>4 DEF Finished

(* The only frame of a thread goes on, or is left.                         *)
LEMMA SingleAdvances ==
  ASSUME TypesOk, NEW t \in Threads, NEW c0, stack[t] = <<c0>>
  PROVE  /\ ~Finished(Stepped(c0)) => Advanced(t)[t] = <<Stepped(c0)>>
         /\ Finished(Stepped(c0)) => Advanced(t)[t] = <<>>
         /\ DOMAIN Advanced(t) = Threads
         /\ \A u \in Threads \ {t} : Advanced(t)[u] = stack[u]
<1>1. PICK low : low = Stepped(c0)
  OBVIOUS
<1>2. Advanced(t)[t] = Replaced(<<c0>>, Stepped(Last(<<c0>>)))
  BY AdvancedIs
<1>3. Last(<<c0>>) = c0 /\ Front(<<c0>>) = <<>> /\ Append(<<>>, low) = <<low>>
  BY Ends
<1>4. /\ ~Finished(low) => Replaced(<<c0>>, low) = <<low>>
      /\ Finished(low) => Replaced(<<c0>>, low) = <<>>
  BY <1>3 DEF Replaced
<1>5. QED
  BY <1>1, <1>2, <1>3, <1>4, AdvancedIs

(* What is open stays open when the libraries are told nothing.            *)
LEMMA QuietOpen ==
  ASSUME TypesOk, NEW t \in Threads, NEW ops, NEW c0, FrameOk(c0, ops), c0.code # <<>>,
         Head(c0.code).op \in QuietOps, NEW lib \in Libs,
         FrameOpen(lib, c0, Base(lib, t), Log(lib, t))
  PROVE  FrameOpen(lib, Stepped(c0), Base(lib, t), Log(lib, t))
<1>1. PICK under, evs : under = Base(lib, t) /\ evs = Log(lib, t)
  OBVIOUS
<1>2. under \in Seq(Names) /\ evs \in Seq(Recs(lib))
  BY <1>1, UnderTyped DEF TypesOk, Log, Recs
<1>3. ~Goes(lib, Head(c0.code).op)
  BY Telling
<1>4. Told(lib, Head(c0.code), evs, evs)
  BY <1>3 DEF Told
<1>5. FrameOpen(lib, c0, under, evs)
  BY <1>1
<1>6. FrameOpen(lib, Stepped(c0), under, evs)
  BY <1>2, <1>4, <1>5, StepOpen
<1>7. QED
  BY <1>1, <1>6

(* A thread takes part in its own loop.                                    *)
LEMMA CallSubFunctionKeeps ==
  ASSUME TracingInv, NEW t \in Apps, CallSubFunction(t)
  PROVE  TracingInv'
<1>1. PICK fr : fr = FunctionFrame(Top(t).mod, Arg(t))
  OBVIOUS
<1>2. /\ At(t, "call") /\ stack' = [Advanced(t) EXCEPT ![t] = Append(@, fr)]
      /\ UNCHANGED <<env, requests, ending, tracing>>
  BY <1>1 DEF CallSubFunction, Pushed
<1>3. t \in Threads /\ t \notin Teams /\ t # Generator
  BY Assumptions DEF Threads
<1>4. t \in Threads \ {exiter} /\ TypesOk
  BY <1>2, <1>3, DoesNotExit DEF TracingInv
<1>5. PICK c0 : /\ stack[t] = <<c0>> /\ c0 = Top(t) /\ FrameOk(c0, OuterOps(t)) /\ IsFrame(c0)
                /\ c0.code # <<>> /\ Head(c0.code).op = "call" /\ Head(c0.code) = c0.code[1]
                /\ 1 \in DOMAIN c0.code
                /\ \A lib \in Libs : FrameOpen(lib, c0, Base(lib, t), Log(lib, t))
  BY <1>2, <1>3, <1>4, SingleFrame
<1>6. 2 \in DOMAIN c0.code /\ c0.code[2] = Joins /\ SubFunction(c0, Arg(t))
  <2>1. LoopsOk(c0, 1) /\ 1 + 1 = 2 /\ Arg(t) = c0.code[1].arg
    BY <1>5 DEF FrameOk, Arg
  <2>2. QED
    BY <1>5, <2>1 DEF LoopsOk
<1>7. PICK low : low = Stepped(c0)
  OBVIOUS
<1>8. FrameOk(low, OuterOps(t))
  BY <1>5, <1>7, SteppedOk
<1>9. low.code # <<>> /\ Head(low.code) = Joins /\ ~Finished(low)
  BY <1>5, <1>6, <1>7, HeadNext
<1>10. AtCall(low, {"join"}) /\ AtCall(low, {"join", "requests"})
  BY <1>9 DEF AtCall, Joins, Plain, Instr
<1>11. Advanced(t)[t] = <<low>> /\ DOMAIN Advanced(t) = Threads
       /\ \A u \in Threads \ {t} : Advanced(t)[u] = stack[u]
  BY <1>3, <1>4, <1>5, <1>7, <1>9, SingleAdvances
<1>12. stack'[t] = <<low, fr>> /\ DOMAIN stack' = Threads /\ \A u \in Threads \ {t} : stack'[u] = stack[u]
  <2>1. Append(<<low>>, fr) = <<low, fr>>
    BY Ends
  <2>2. PICK s2, adv : s2 = <<low, fr>> /\ adv = Advanced(t)
    OBVIOUS
  <2>3. stack' = [adv EXCEPT ![t] = s2]
    BY <1>2, <1>11, <2>1, <2>2
  <2>4. QED
    BY <1>3, <1>11, <2>2, <2>3
<1>13. TypesOk'
  BY <1>2, <1>4, <1>12, TypesKept DEF TypesOk, requests
<1>14. FrameOk(fr, FunctionOps) /\ \A lib \in Libs : After(lib, fr, 0, <<>>)
  <2>1. PICK m, f : m = Top(t).mod /\ f = Arg(t)
    OBVIOUS
  <2>2. m \in DOMAIN Modules /\ f \in SubFunctions(Modules[m]) /\ f \in DOMAIN Modules[m]
    BY <1>5, <1>6, <2>1 DEF SubFunction, SubFunctions
  <2>3. fr = FunctionFrame(m, f)
    BY <1>1, <2>1
  <2>4. QED
    BY <1>4, <2>2, <2>3, VariantFrame
<1>15. InnerOps(t) = FunctionOps /\ FunctionOps # {}
  BY DifferentOps DEF InnerOps
<1>16. \A lib \in Libs : FrameOpen(lib, low, Base(lib, t), Log(lib, t))
  BY <1>3, <1>4, <1>5, <1>7, QuietOpen DEF QuietOps
<1>17. UNCHANGED <<env, ending, tracing>>
  BY <1>2
<1>18. QED
  BY <1>3, <1>4, <1>8, <1>10, <1>12, <1>13, <1>14, <1>15, <1>16, <1>17, EnterSecond

(* A call of the runtime goes on with a variant, or without.               *)
LEMMA RunVariantKeeps ==
  ASSUME TracingInv, NEW t \in Apps, RunVariant(t)
  PROVE  TracingInv'
<1>1. PICK fr, m : m = Arg(t) /\ fr = FunctionFrame(m, "F")
  OBVIOUS
<1>2. /\ At(t, "run") /\ UNCHANGED <<env, requests, ending, tracing>>
      /\ stack' = IF m \in compiled THEN [Advanced(t) EXCEPT ![t] = Append(@, fr)] ELSE Advanced(t)
  BY <1>1 DEF RunVariant, Pushed
<1>3. t \in Threads /\ t \notin Teams /\ t # Generator
  BY Assumptions DEF Threads
<1>4. t \in Threads \ {exiter} /\ TypesOk
  BY <1>2, <1>3, DoesNotExit DEF TracingInv
<1>5. PICK c0 : /\ stack[t] = <<c0>> /\ c0 = Top(t) /\ FrameOk(c0, OuterOps(t)) /\ IsFrame(c0)
                /\ c0.code # <<>> /\ Head(c0.code).op = "run" /\ Head(c0.code) = c0.code[1]
                /\ 1 \in DOMAIN c0.code
                /\ \A lib \in Libs : FrameOpen(lib, c0, Base(lib, t), Log(lib, t))
  BY <1>2, <1>3, <1>4, SingleFrame
<1>6. OfRuntime(c0) /\ Len(c0.code) = 1 /\ m \in DOMAIN Modules
  <2>1. RestOk(c0, 1) /\ m = c0.code[1].arg
    BY <1>1, <1>5 DEF FrameOk, Arg
  <2>2. QED
    BY <1>5, <2>1 DEF RestOk
<1>7. PICK low : low = Stepped(c0)
  OBVIOUS
<1>8. Finished(low)
  <2>1. low = [mod |-> c0.mod, fn |-> c0.fn, code |-> Tail(c0.code), next |-> c0.next]
        /\ Tail(c0.code) \in Seq(Instrs) /\ DOMAIN Tail(c0.code) = 1..(Len(c0.code) - 1)
    BY <1>5, <1>7, SteppedIs
  <2>2. DOMAIN Tail(c0.code) = {}
    BY <1>6, <2>1
  <2>3. Tail(c0.code) = <<>>
    <3>1. PICK d : d = Tail(c0.code)
      OBVIOUS
    <3>2. d \in Seq(Instrs) /\ DOMAIN d = {}
      BY <2>1, <2>2, <3>1
    <3>3. Len(d) = 0
      BY <3>2
    <3>4. QED
      BY <3>1, <3>2, <3>3
  <2>4. QED
    BY <1>6, <2>1, <2>3 DEF Finished, OfRuntime
<1>9. Advanced(t)[t] = <<>> /\ DOMAIN Advanced(t) = Threads
      /\ \A u \in Threads \ {t} : Advanced(t)[u] = stack[u]
  BY <1>3, <1>4, <1>5, <1>7, <1>8, SingleAdvances
<1>10. CASE m \notin compiled
  <2>1. Advance(t)
    BY <1>2, <1>10 DEF Advance
  <2>2. DOMAIN stack' = Threads
    BY <1>9, <2>1 DEF Advance
  <2>3. TypesOk'
    BY <1>2, <1>4, <2>2, TypesKept DEF TypesOk, requests
  <2>4. QED
    BY <1>2, <1>4, <2>1, <2>3, QuietStep DEF QuietOps
<1>11. CASE m \in compiled
  <2>1. stack'[t] = <<fr>> /\ DOMAIN stack' = Threads /\ \A u \in Threads \ {t} : stack'[u] = stack[u]
    <3>1. Append(<<>>, fr) = <<fr>>
      BY Ends
    <3>2. PICK s2, adv : s2 = <<fr>> /\ adv = Advanced(t)
      OBVIOUS
    <3>3. stack' = [adv EXCEPT ![t] = s2]
      BY <1>2, <1>9, <1>11, <3>1, <3>2
    <3>4. QED
      BY <1>3, <1>9, <3>2, <3>3
  <2>2. TypesOk'
    BY <1>2, <1>4, <2>1, TypesKept DEF TypesOk, requests
  <2>3. "F" \in DOMAIN Modules[m]
    BY <1>6, Assumptions
  <2>4. FrameOk(fr, OuterOps(t)) /\ \A lib \in Libs : After(lib, fr, 0, <<>>)
    <3>1. PICK f : f = "F"
      OBVIOUS
    <3>2. f \in DOMAIN Modules[m] /\ fr = FunctionFrame(m, f)
      BY <1>1, <2>3, <3>1
    <3>3. FrameOk(fr, CallerOps) /\ \A lib \in Libs : After(lib, fr, 0, <<>>)
      BY <1>4, <1>6, <3>2, VariantFrame
    <3>4. QED
      BY <3>3 DEF OuterOps
  <2>5. \A lib \in Libs : OpenMarks(Log(lib, t)) = Base(lib, t)
    <3>1. \A lib \in Libs : FrameOpen(lib, low, Base(lib, t), Log(lib, t))
      BY <1>3, <1>4, <1>5, <1>7, QuietOpen DEF QuietOps
    <3>2. QED
      BY <1>8, <3>1, FinishedOpen
  <2>6. \A w \in Workers[t] : stack[w] = <<>>
    <3>1. stack[t][1] = c0
      BY <1>5, Ends, Zenon
    <3>2. ~AtCall(c0, {"call", "join"})
      BY <1>5 DEF AtCall
    <3>3. QED
      BY <3>1, <3>2 DEF TracingInv, WorkersOk
  <2>7. UNCHANGED <<env, ending, tracing>>
    BY <1>2
  <2>8. QED
    BY <1>3, <1>4, <2>1, <2>2, <2>4, <2>5, <2>6, <2>7, EnterFirst
<1>12. QED
  BY <1>10, <1>11

(* What is known of the end when it does not move.                         *)
LEMMA ExitSame ==
  ASSUME ExitOk, UNCHANGED <<env, ending, tracing>>, exiter \in Apps => stack'[exiter] = stack[exiter]
  PROVE  ExitOk'
<1>1. /\ events' = events /\ fault' = fault /\ marks' = marks /\ env' = env /\ stored' = stored
      /\ likwid' = likwid /\ atexits' = atexits /\ exiter' = exiter
  BY DEF tracing, papi, likwidVars, ending
<1>2. InMain' = InMain /\ MainLog' = MainLog /\ OfTracer' = OfTracer /\ MainRegion' = MainRegion
  BY <1>1 DEF InMain, MainLog, MainEntered, OfTracer, MainRegion
<1>3. CASE exiter = None
  BY <1>1, <1>2, <1>3 DEF ExitOk, ExitAt, Planted
<1>4. CASE exiter # None
  <2>1. PICK n \in 1..7 :
          /\ exiter \in Apps /\ Exits(n)
          /\ n <= 3 \/ exiter # Main => InMain
          /\ exiter = Main /\ n \in {4, 5, 6} => MainLeft(MainLog)
          /\ exiter = Main /\ n = 7 =>
               /\ stored = <<MainLog>>
               /\ \E before \in Logs : Left(MainLog, Total, before) /\ MainLeft(before)
          /\ n <= 6 => stored = <<>>
          /\ fault => n >= 4 /\ exiter # Main
          /\ likwid = IF env.papi THEN "off" ELSE IF n = 5 THEN "closed" ELSE "on"
          /\ exiter = Main /\ ~env.papi /\ n \in {4, 5} => Last(marks[Main]).lib = "on"
    BY <1>4 DEF ExitOk, ExitAt
  <2>2. Exits(n)'
    BY <1>1, <2>1 DEF Exits, Doing, OfTracer, Planted
  <2>3. exiter = Main /\ n \in {4, 5, 6} => MainLeft(MainLog)'
    BY <1>1, <1>2, <2>1 DEF MainLeft, Left, MainEntered
  <2>4. exiter = Main /\ n = 7 =>
               \E before \in Logs : Left(MainLog, Total, before)' /\ MainLeft(before)'
    BY <1>1, <1>2, <2>1 DEF MainLeft, Left, MainEntered
  <2>5. /\ exiter' \in Apps /\ exiter' # None
        /\ n <= 3 \/ exiter' # Main => InMain'
        /\ exiter' = Main /\ n = 7 => stored' = <<MainLog>>'
        /\ n <= 6 => stored' = <<>>
        /\ fault' => n >= 4 /\ exiter' # Main
        /\ likwid' = IF env'.papi THEN "off" ELSE IF n = 5 THEN "closed" ELSE "on"
        /\ exiter' = Main /\ ~env'.papi /\ n \in {4, 5} => Last(marks'[Main]).lib = "on"
    BY <1>1, <1>2, <1>4, <2>1
  <2>6. QED
    BY <1>1, <2>2, <2>3, <2>4, <2>5 DEF ExitOk, ExitAt
<1>5. QED
  BY <1>3, <1>4

(* A thread gives its workers a function.                                  *)
LEMMA ForkKeeps ==
  ASSUME TracingInv, NEW t \in Apps, Fork(t)
  PROVE  TracingInv'
<1>1. PICK fr, m, f : m = Top(t).mod /\ f = Arg(t) /\ fr = FunctionFrame(m, f)
  OBVIOUS
<1>2. /\ At(t, "fork") /\ UNCHANGED <<env, requests, ending, tracing>>
      /\ stack' = [w \in Threads |-> IF w \in Workers[t] THEN <<fr>> ELSE Advanced(t)[w]]
  BY <1>1 DEF Fork
<1>3. /\ t \in Threads /\ t \notin Teams /\ t # Generator /\ Workers[t] \subseteq Teams
      /\ Teams \subseteq Threads /\ Apps \subseteq Threads /\ Apps \cap Teams = {} /\ Generator \notin Teams
      /\ \A a \in Apps : Workers[a] \subseteq Teams /\ (a # t => Workers[a] \cap Workers[t] = {})
  BY Assumptions DEF Threads
<1>4. t \in Threads \ {exiter} /\ TypesOk /\ ExitOk /\ WorkersOk /\ TeamsOk
  BY <1>2, <1>3, DoesNotExit DEF TracingInv
<1>5. PICK c0 : /\ stack[t] = <<c0>> /\ c0 = Top(t) /\ FrameOk(c0, OuterOps(t)) /\ IsFrame(c0)
                /\ c0.code # <<>> /\ Head(c0.code).op = "fork" /\ Head(c0.code) = c0.code[1]
                /\ 1 \in DOMAIN c0.code
                /\ \A lib \in Libs : FrameOpen(lib, c0, Base(lib, t), Log(lib, t))
  BY <1>2, <1>3, <1>4, SingleFrame
<1>6. 2 \in DOMAIN c0.code /\ c0.code[2].op = "call" /\ SubFunction(c0, f)
  <2>1. LoopsOk(c0, 1) /\ f = c0.code[1].arg
    BY <1>1, <1>5 DEF FrameOk, Arg
  <2>2. 3 \in DOMAIN c0.code /\ c0.code[2] = Plain("call", f) /\ SubFunction(c0, f)
    BY <1>5, <2>1 DEF LoopsOk
  <2>3. 2 \in DOMAIN c0.code
    BY <1>5, <2>2 DEF IsFrame
  <2>4. QED
    BY <2>2, <2>3 DEF Plain, Instr
<1>7. PICK low : low = Stepped(c0)
  OBVIOUS
<1>8. AtCall(low, {"call", "join"}) /\ ~Finished(low)
  <2>1. low.code # <<>> /\ Head(low.code) = c0.code[2] /\ ~Finished(low)
    BY <1>5, <1>6, <1>7, HeadNext
  <2>2. QED
    BY <1>6, <2>1 DEF AtCall
<1>9. Advanced(t)[t] = <<low>> /\ DOMAIN Advanced(t) = Threads
      /\ \A u \in Threads \ {t} : Advanced(t)[u] = stack[u]
  BY <1>3, <1>4, <1>5, <1>7, <1>8, SingleAdvances
<1>10. /\ DOMAIN stack' = Threads /\ stack'[t] = <<low>> /\ \A w \in Workers[t] : stack'[w] = <<fr>>
       /\ \A u \in Threads : u # t /\ u \notin Workers[t] => stack'[u] = stack[u]
  <2>1. PICK adv : adv = Advanced(t)
    OBVIOUS
  <2>2. stack' = [w \in Threads |-> IF w \in Workers[t] THEN <<fr>> ELSE adv[w]]
    BY <1>2, <2>1
  <2>3. QED
    BY <1>3, <1>9, <2>1, <2>2
<1>11. TypesOk'
  BY <1>2, <1>4, <1>10, TypesKept DEF TypesOk, requests
<1>12. /\ events' = events /\ ready' = ready /\ marks' = marks /\ env' = env /\ exiter' = exiter
       /\ UNCHANGED <<env, ending, tracing>>
  BY <1>2 DEF tracing, papi, likwidVars, ending
<1>13. /\ FrameOk(fr, FunctionOps) /\ \A lib \in Libs : After(lib, fr, 0, <<>>)
       /\ env.likwid => AtCall(fr, {"likwid_markerThreadInit"})
  <2>1. m \in DOMAIN Modules /\ f \in SubFunctions(Modules[m]) /\ f \in DOMAIN Modules[m]
    BY <1>1, <1>5, <1>6 DEF SubFunction, SubFunctions
  <2>2. QED
    BY <1>1, <1>4, <2>1, VariantFrame
<1>14. \A w \in Workers[t] : stack[w] = <<>>
  <2>1. stack[t][1] = c0
    BY <1>5, Ends, Zenon
  <2>2. ~AtCall(c0, {"call", "join"})
    BY <1>5 DEF AtCall
  <2>3. QED
    BY <1>4, <2>1, <2>2 DEF WorkersOk
<1>15. ASSUME NEW u \in Threads, u # exiter PROVE ThreadOk(u)'
  <2>1. CASE u = t
    <3>1. ThreadOk(t) /\ stack[t] # <<>> /\ Top(t).code # <<>> /\ Head(Top(t).code).op = "fork"
      BY <1>4, <1>5, <1>2 DEF TracingInv, At
    <3>2. stack'[t] = Replaced(stack[t], Stepped(Last(stack[t])))
      BY <1>3, <1>4, <1>9, <1>10, AdvancedIs
    <3>3. \A lib \in Libs : Told(lib, Head(Top(t).code), Log(lib, t), Log(lib, t)')
      BY <1>12, <3>1, ToldNothing DEF QuietOps
    <3>4. QED
      BY <1>3, <1>4, <1>12, <2>1, <3>1, <3>2, <3>3, ThreadAdvances
  <2>2. CASE u \in Workers[t]
    <3>1. PICK s2 : s2 = <<fr>>
      OBVIOUS
    <3>2. stack'[u] = s2 /\ stack[u] = <<>> /\ u # Generator /\ u \notin Apps
      BY <1>3, <1>10, <1>14, <2>2, <3>1
    <3>3. StackOk(u, s2)
      BY <1>13, <3>1, <3>2 DEF StackOk, OuterOps
    <3>4. ThreadOk(u)
      BY <1>15 DEF TracingInv
    <3>5. StackOk(u, s2)'
      BY <1>12, <3>3, EnvThreads
    <3>6. ASSUME NEW lib \in Libs PROVE OpenOk(lib, u, stack[u], Log(lib, u))'
      <4>1. PICK evs : evs = Log(lib, u)
        OBVIOUS
      <4>2. Log(lib, u)' = evs
        BY <1>12, <4>1 DEF Log
      <4>3. OpenMarks(evs) = Base(lib, u)
        BY <3>2, <3>4, <4>1, OpenIs DEF ThreadOk
      <4>4. FrameOpen(lib, fr, Base(lib, u), evs)
        BY <1>13, <4>3 DEF FrameOpen, Opened
      <4>5. OpenOk(lib, u, s2, evs)
        BY <3>1, <4>4, OpenIs
      <4>6. OpenOk(lib, u, s2, evs)'
        BY <1>12, <4>5, EnvThreads
      <4>7. QED
        BY <3>2, <4>2, <4>6
    <3>7. QED
      BY <3>2, <3>5, <3>6 DEF ThreadOk
  <2>3. CASE u # t /\ u \notin Workers[t]
    <3>1. Same(u) /\ ThreadOk(u)
      BY <1>10, <1>12, <1>15, <2>3 DEF Same, TracingInv
    <3>2. QED
      BY <1>12, <3>1, OtherThread
  <2>4. QED
    BY <2>1, <2>2, <2>3
<1>16. WorkersOk'
  <2>1. SUFFICES ASSUME NEW a \in Apps, NEW w \in Workers[a], stack'[w] # <<>>
                 PROVE  /\ a # exiter' /\ stack'[a] # <<>>
                        /\ AtCall(stack'[a][1], {"call", "join"})
    BY DEF WorkersOk, AtCall
  <2>2. CASE a = t
    <3>1. <<low>> # <<>> /\ <<low>>[1] = low
      BY Ends
    <3>2. stack'[a] # <<>> /\ stack'[a][1] = low
      BY <1>10, <2>2, <3>1, Zenon
    <3>3. QED
      BY <1>4, <1>8, <1>12, <2>2, <3>2
  <2>3. CASE a # t
    <3>1. w # t /\ w \notin Workers[t] /\ a \notin Workers[t] /\ w \in Threads /\ a \in Threads
      BY <1>3, <2>1, <2>3
    <3>2. stack'[w] = stack[w] /\ stack'[a] = stack[a]
      BY <1>10, <2>3, <3>1
    <3>3. QED
      BY <1>4, <1>12, <2>1, <3>2 DEF WorkersOk
  <2>4. QED
    BY <2>2, <2>3
<1>17. TeamsOk'
  <2>1. SUFFICES ASSUME NEW w \in Teams PROVE Announced(w)'
    BY DEF TeamsOk
  <2>2. CASE w \in Workers[t]
    <3>1. Last(stack'[w]) = fr
      BY <1>10, <2>2, Ends
    <3>2. QED
      BY <1>12, <1>13, <3>1 DEF Announced, AtCall
  <2>3. CASE w \notin Workers[t]
    <3>1. stack'[w] = stack[w] /\ Announced(w)
      BY <1>3, <1>4, <1>10, <2>3 DEF TeamsOk
    <3>2. QED
      BY <1>12, <3>1 DEF Announced, AtCall
  <2>4. QED
    BY <2>2, <2>3
<1>18. ExitOk'
  <2>1. exiter \in Apps => exiter \in Threads /\ exiter # t /\ exiter \notin Workers[t]
    BY <1>3, <1>4
  <2>2. QED
    BY <1>4, <1>10, <1>12, <2>1, ExitSame
<1>19. QED
  BY <1>11, <1>12, <1>15, <1>16, <1>17, <1>18 DEF TracingInv

-----------------------------------------------------------------------------
(* The process exits.                                                      *)

(* A frame of the runtime goes on.                                         *)
LEMMA RuntimeStepped ==
  ASSUME NEW name, NEW c
  PROVE  /\ RuntimeFrame(name, c).code = c /\ RuntimeFrame(name, c).next = {}
         /\ Stepped(RuntimeFrame(name, c)) = RuntimeFrame(name, Tail(c))
<1>1. PICK fr : fr = RuntimeFrame(name, c)
  OBVIOUS
<1>2. fr = [mod |-> "runtime", fn |-> name, code |-> c, next |-> {}]
  BY <1>1 DEF RuntimeFrame, Frame, Block
<1>3. fr.code = c /\ fr.next = {}
  BY <1>2
<1>4. PICK d : d = Tail(c)
  OBVIOUS
<1>5. Stepped(fr) = [fr EXCEPT !.code = d]
  BY <1>3, <1>4 DEF Stepped
<1>6. [fr EXCEPT !.code = d] = [mod |-> "runtime", fn |-> name, code |-> d, next |-> {}]
  BY <1>2
<1>7. RuntimeFrame(name, d) = [mod |-> "runtime", fn |-> name, code |-> d, next |-> {}]
  BY DEF RuntimeFrame, Frame, Block
<1>8. QED
  BY <1>1, <1>3, <1>4, <1>5, <1>6, <1>7, Zenon

(* The frames of handlers.                                                 *)
LEMMA HandlerOfTwo ==
  ASSUME NEW name, NEW a, NEW b, NEW fr, fr = RuntimeFrame(name, <<a, b>>)
  PROVE  /\ fr.code = <<a, b>> /\ Head(fr.code) = a
         /\ Stepped(fr) = RuntimeFrame(name, <<b>>) /\ ~Finished(Stepped(fr))
<1>1. Head(<<a, b>>) = a /\ Tail(<<a, b>>) = <<b>> /\ <<b>> # <<>>
  OBVIOUS
<1>2. PICK c, d : c = <<a, b>> /\ d = <<b>>
  OBVIOUS
<1>3. fr.code = c /\ Stepped(fr) = RuntimeFrame(name, Tail(c)) /\ RuntimeFrame(name, d).code = d
  BY <1>2, RuntimeStepped
<1>4. Tail(c) = d /\ d # <<>> /\ Head(c) = a
  BY <1>1, <1>2
<1>5. Stepped(fr) = RuntimeFrame(name, d)
  BY <1>3, <1>4
<1>6. QED
  BY <1>2, <1>3, <1>4, <1>5 DEF Finished

(* The last instruction of one.                                            *)
LEMMA HandlerOfOne ==
  ASSUME NEW name, NEW a, NEW fr, fr = RuntimeFrame(name, <<a>>)
  PROVE  fr.code = <<a>> /\ Head(fr.code) = a /\ Finished(Stepped(fr))
<1>1. Head(<<a>>) = a /\ Tail(<<a>>) = <<>>
  OBVIOUS
<1>2. PICK c, d : c = <<a>> /\ d = <<>>
  OBVIOUS
<1>3. /\ fr.code = c /\ Stepped(fr) = RuntimeFrame(name, Tail(c))
      /\ RuntimeFrame(name, d).code = d /\ RuntimeFrame(name, d).next = {}
  BY <1>2, RuntimeStepped
<1>4. Tail(c) = d /\ Head(c) = a
  BY <1>1, <1>2
<1>5. Stepped(fr) = RuntimeFrame(name, d)
  BY <1>3, <1>4
<1>6. QED
  BY <1>2, <1>3, <1>4, <1>5 DEF Finished

(* What the thread that exits is in, by its next instruction.              *)
LEMMA ExiterIn ==
  ASSUME NEW n \in 1..7, Exits(n), stack[exiter] # <<>>, NEW op, op = Head(Top(exiter).code).op
  PROVE  /\ op = "shutdown" => n = 2 /\ Doing("~PolyJIT", <<Plain("shutdown", None), Plain("join", "generator")>>)
         /\ op = "join" => n = 2 /\ Doing("~PolyJIT", <<Plain("join", "generator")>>)
         /\ op = "polliTracingRegionStop" =>
              n = 3 /\ Doing("do_shutdown", <<RegionStop(PJIT_REGION_MAIN, "polyjit.main"), Plain("finalize", None)>>)
         /\ op = "finalize" => n = 4 /\ Doing("do_shutdown", <<Plain("finalize", None)>>)
         /\ op = "store" => n = 6 /\ Doing("papi_atexit_handler", <<Plain("store", None)>>)
         /\ op \in {"shutdown", "join", "polliTracingRegionStop", "finalize", "store"}
<1>1. /\ Plain("shutdown", None).op = "shutdown" /\ Plain("join", "generator").op = "join"
      /\ Plain("finalize", None).op = "finalize" /\ Plain("store", None).op = "store"
      /\ RegionStop(PJIT_REGION_MAIN, "polyjit.main").op = "polliTracingRegionStop"
  BY DEF Plain, Instr, RegionStop
<1>2. Handler("do_shutdown") = <<RegionStop(PJIT_REGION_MAIN, "polyjit.main"), Plain("finalize", None)>>
  BY DEF Handler
<1>3. n \in {1, 2, 3, 4, 5, 6, 7}
  OBVIOUS
<1>4. ASSUME NEW name, NEW a, NEW b
      PROVE  /\ Doing(name, <<a, b>>) => op = a.op
             /\ Doing(name, <<a>>) => op = a.op
  <2>1. ASSUME NEW fr, stack[exiter] = <<fr>> PROVE op = Head(fr.code).op
    BY <2>1, Ends DEF Top
  <2>2. PICK fr, gr : fr = RuntimeFrame(name, <<a, b>>) /\ gr = RuntimeFrame(name, <<a>>)
    OBVIOUS
  <2>3. Head(fr.code) = a /\ Head(gr.code) = a
    <3>1. Head(fr.code) = a
      <4>1. PICK c : c = <<a, b>>
        OBVIOUS
      <4>2. fr.code = c
        BY <2>2, <4>1, RuntimeStepped
      <4>3. Head(c) = a
        BY <4>1
      <4>4. QED
        BY <4>2, <4>3
    <3>2. Head(gr.code) = a
      BY <2>2, HandlerOfOne
    <3>3. QED
      BY <3>1, <3>2
  <2>4. Doing(name, <<a, b>>) <=> stack[exiter] = <<fr>>
    BY <2>2 DEF Doing
  <2>5. Doing(name, <<a>>) <=> stack[exiter] = <<gr>>
    BY <2>2 DEF Doing
  <2>6. QED
    BY <2>1, <2>3, <2>4, <2>5
<1>5. \/ n = 2 /\ Doing("~PolyJIT", <<Plain("shutdown", None), Plain("join", "generator")>>)
      \/ n = 2 /\ Doing("~PolyJIT", <<Plain("join", "generator")>>)
      \/ n = 3 /\ Doing("do_shutdown", <<RegionStop(PJIT_REGION_MAIN, "polyjit.main"), Plain("finalize", None)>>)
      \/ n = 4 /\ Doing("do_shutdown", <<Plain("finalize", None)>>)
      \/ n = 6 /\ Doing("papi_atexit_handler", <<Plain("store", None)>>)
  BY <1>2, <1>3 DEF Exits
<1>6. CASE n = 2 /\ Doing("~PolyJIT", <<Plain("shutdown", None), Plain("join", "generator")>>)
  <2>1. op = "shutdown"
    BY <1>1, <1>4, <1>6
  <2>2. QED
    BY <1>6, <2>1
<1>7. CASE n = 2 /\ Doing("~PolyJIT", <<Plain("join", "generator")>>)
  <2>1. op = "join"
    BY <1>1, <1>4, <1>7
  <2>2. QED
    BY <1>7, <2>1
<1>8. CASE n = 3 /\ Doing("do_shutdown", <<RegionStop(PJIT_REGION_MAIN, "polyjit.main"), Plain("finalize", None)>>)
  <2>1. op = "polliTracingRegionStop"
    BY <1>1, <1>4, <1>8
  <2>2. QED
    BY <1>8, <2>1
<1>9. CASE n = 4 /\ Doing("do_shutdown", <<Plain("finalize", None)>>)
  <2>1. op = "finalize"
    BY <1>1, <1>4, <1>9
  <2>2. QED
    BY <1>9, <2>1
<1>10. CASE n = 6 /\ Doing("papi_atexit_handler", <<Plain("store", None)>>)
  <2>1. op = "store"
    BY <1>1, <1>4, <1>10
  <2>2. QED
    BY <1>10, <2>1
<1>11. QED
  BY <1>5, <1>6, <1>7, <1>8, <1>9, <1>10

(* The thread that exits goes on within a handler, or leaves it.           *)
LEMMA HandlerAdvances ==
  ASSUME TypesOk, exiter \in Threads, NEW name, NEW a, NEW b, Advance(exiter)
  PROVE  /\ Doing(name, <<a, b>>) => stack'[exiter] = <<RuntimeFrame(name, <<b>>)>>
         /\ Doing(name, <<a>>) => stack'[exiter] = <<>>
         /\ DOMAIN stack' = Threads /\ \A u \in Threads \ {exiter} : stack'[u] = stack[u]
<1>1. DOMAIN stack' = Threads /\ \A u \in Threads \ {exiter} : stack'[u] = stack[u]
  BY AdvancedIs DEF Advance
<1>2. PICK t \in Threads : t = exiter
  OBVIOUS
<1>3. ASSUME NEW c0, stack[t] = <<c0>>
      PROVE  /\ ~Finished(Stepped(c0)) => stack'[t] = <<Stepped(c0)>>
             /\ Finished(Stepped(c0)) => stack'[t] = <<>>
  BY <1>2, <1>3, SingleAdvances DEF Advance
<1>4. Doing(name, <<a, b>>) => stack'[t] = <<RuntimeFrame(name, <<b>>)>>
  <2>1. PICK fr, gr : fr = RuntimeFrame(name, <<a, b>>) /\ gr = RuntimeFrame(name, <<b>>)
    OBVIOUS
  <2>2. Stepped(fr) = gr /\ ~Finished(gr)
    BY <2>1, HandlerOfTwo
  <2>3. Doing(name, <<a, b>>) => stack[t] = <<fr>>
    BY <1>2, <2>1 DEF Doing
  <2>4. stack[t] = <<fr>> => stack'[t] = <<gr>>
    BY <1>3, <2>2
  <2>5. QED
    BY <2>1, <2>3, <2>4
<1>5. Doing(name, <<a>>) => stack'[t] = <<>>
  <2>1. PICK fr : fr = RuntimeFrame(name, <<a>>)
    OBVIOUS
  <2>2. Finished(Stepped(fr))
    BY <2>1, HandlerOfOne
  <2>3. Doing(name, <<a>>) => stack[t] = <<fr>>
    BY <1>2, <2>1 DEF Doing
  <2>4. QED
    BY <1>3, <2>2, <2>3
<1>6. QED
  BY <1>1, <1>2, <1>4, <1>5

(* Only the thread that exits moves.                                       *)
LEMMA ExiterMoves ==
  ASSUME TracingInv, TypesOk', ExitOk', env' = env, exiter' = exiter, exiter \in Apps, ready' = ready,
         \A u \in Threads \ {exiter} : Same(u)
  PROVE  TracingInv'
<1>1. /\ Teams \subseteq Threads /\ Apps \subseteq Threads /\ Apps \cap Teams = {}
      /\ \A a \in Apps : Workers[a] \subseteq Teams
  BY Assumptions DEF Threads
<1>2. ASSUME NEW u \in Threads \ {exiter'} PROVE ThreadOk(u)'
  <2>1. Same(u) /\ ThreadOk(u)
    BY <1>2 DEF TracingInv
  <2>2. QED
    BY <2>1, OtherThread
<1>3. WorkersOk'
  <2>1. SUFFICES ASSUME NEW a \in Apps, NEW w \in Workers[a], stack'[w] # <<>>
                 PROVE  /\ a # exiter' /\ stack'[a] # <<>>
                        /\ AtCall(stack'[a][1], {"call", "join"})
    BY DEF WorkersOk, AtCall
  <2>2. w \in Threads \ {exiter} /\ a \in Threads
    BY <1>1
  <2>3. a # exiter /\ stack[a] # <<>> /\ AtCall(stack[a][1], {"call", "join"})
    BY <2>1, <2>2 DEF TracingInv, WorkersOk, Same
  <2>4. QED
    BY <2>2, <2>3 DEF Same
<1>4. TeamsOk'
  <2>1. SUFFICES ASSUME NEW w \in Teams PROVE Announced(w)'
    BY DEF TeamsOk
  <2>2. stack'[w] = stack[w] /\ Announced(w)
    BY <1>1 DEF TracingInv, TeamsOk, Same
  <2>3. QED
    BY <2>2 DEF Announced, AtCall
<1>5. QED
  BY <1>2, <1>3, <1>4 DEF TracingInv

(* Short sequences, one after the other.                                   *)
LEMMA OneAndOne ==
  ASSUME NEW a, NEW b
  PROVE  <<a>> \o <<b>> = <<a, b>> /\ <<>> \o <<b>> = <<b>>
<1>1. PICK S : S = {a, b}
  OBVIOUS
<1>2. PICK q, r, u, e : q = <<a>> /\ r = <<b>> /\ u = <<a, b>> /\ e = <<>>
  OBVIOUS
<1>3. /\ q \in Seq(S) /\ r \in Seq(S) /\ u \in Seq(S) /\ e \in Seq(S)
      /\ Len(q) = 1 /\ Len(r) = 1 /\ Len(u) = 2 /\ Len(e) = 0
      /\ q[1] = a /\ r[1] = b /\ u[1] = a /\ u[2] = b
  BY <1>1, <1>2
<1>4. \A i \in 1..1 : i = 1
  OBVIOUS
<1>5. \A i \in 1..Len(q) : u[i] = q[i]
  BY <1>3, <1>4
<1>6. \A i \in 1..Len(r) : u[Len(q) + i] = r[i]
  BY <1>3, <1>4
<1>7. q \o r = u
  <2>1. Len(u) = Len(q) + Len(r) /\ q \in Seq(S) /\ r \in Seq(S) /\ u \in Seq(S)
    BY <1>3
  <2>2. QED
    BY <1>5, <1>6, <2>1, ConcatIs
<1>8. e \o r = r
  BY <1>2, <1>3
<1>9. QED
  BY <1>2, <1>7, <1>8

(* And two after one.                                                      *)
LEMMA OneAndTwo ==
  ASSUME NEW a, NEW b, NEW c
  PROVE  <<a>> \o <<b, c>> = <<a, b, c>> /\ <<>> \o <<b, c>> = <<b, c>>
<1>1. PICK S : S = {a, b, c}
  OBVIOUS
<1>2. PICK q, r, u, e : q = <<a>> /\ r = <<b, c>> /\ u = <<a, b, c>> /\ e = <<>>
  OBVIOUS
<1>3. /\ q \in Seq(S) /\ r \in Seq(S) /\ u \in Seq(S) /\ e \in Seq(S)
      /\ Len(q) = 1 /\ Len(r) = 2 /\ Len(u) = 3 /\ Len(e) = 0
      /\ q[1] = a /\ r[1] = b /\ r[2] = c /\ u[1] = a /\ u[2] = b /\ u[3] = c
  BY <1>1, <1>2
<1>4. (\A i \in 1..1 : i = 1) /\ (\A i \in 1..2 : i = 1 \/ i = 2) /\ 1 + 1 = 2 /\ 1 + 2 = 3
  OBVIOUS
<1>5. \A i \in 1..Len(q) : u[i] = q[i]
  BY <1>3, <1>4
<1>6. \A i \in 1..Len(r) : u[Len(q) + i] = r[i]
  BY <1>3, <1>4
<1>7. q \o r = u
  <2>1. Len(u) = Len(q) + Len(r) /\ q \in Seq(S) /\ r \in Seq(S) /\ u \in Seq(S)
    BY <1>3
  <2>2. QED
    BY <1>5, <1>6, <2>1, ConcatIs
<1>8. e \o r = r
  BY <1>2, <1>3
<1>9. QED
  BY <1>2, <1>7, <1>8

(* What is planted.                                                        *)
LEMMA PlantedIs ==
  /\ Last(Planted(OfTracer)) = "~PolyJIT" /\ Front(Planted(OfTracer)) = OfTracer \o <<"do_shutdown">>
  /\ Last(OfTracer \o <<"do_shutdown">>) = "do_shutdown" /\ Front(OfTracer \o <<"do_shutdown">>) = OfTracer
  /\ env.papi => Last(OfTracer) = "papi_atexit_handler" /\ Front(OfTracer) = <<>>
  /\ ~env.papi => OfTracer = <<>>
<1>1. PICK a, b, c : a = "papi_atexit_handler" /\ b = "do_shutdown" /\ c = "~PolyJIT"
  OBVIOUS
<1>2. Front(<<a, b, c>>) = <<a, b>> /\ Last(<<a, b, c>>) = c
  <2>1. Len(<<a, b, c>>) = 3 /\ <<a, b, c>>[3] = c /\ <<a, b, c>>[1] = a /\ <<a, b, c>>[2] = b
    OBVIOUS
  <2>2. Front(<<a, b, c>>) = [i \in 1..2 |-> <<a, b, c>>[i]]
    BY <2>1 DEF Front
  <2>3. <<a, b>> = [i \in 1..2 |-> <<a, b, c>>[i]]
    OBVIOUS
  <2>4. QED
    BY <2>1, <2>2, <2>3 DEF Last
<1>3. CASE env.papi
  <2>1. OfTracer = <<a>>
    BY <1>1, <1>3 DEF OfTracer
  <2>2. OfTracer \o <<b>> = <<a, b>> /\ OfTracer \o <<b, c>> = <<a, b, c>>
    BY <2>1, OneAndOne, OneAndTwo, Zenon
  <2>3. Planted(OfTracer) = <<a, b, c>> /\ OfTracer \o <<"do_shutdown">> = <<a, b>>
    BY <1>1, <2>2 DEF Planted
  <2>4. Last(<<a, b>>) = b /\ Front(<<a, b>>) = <<a>> /\ Last(<<a>>) = a /\ Front(<<a>>) = <<>>
    BY Ends
  <2>5. QED
    BY <1>1, <1>2, <1>3, <2>1, <2>3, <2>4
<1>4. CASE ~env.papi
  <2>1. OfTracer = <<>>
    BY <1>4 DEF OfTracer
  <2>2. OfTracer \o <<b>> = <<b>> /\ OfTracer \o <<b, c>> = <<b, c>>
    BY <2>1
  <2>3. QED
    BY <1>1, <1>4, <2>1, <2>2, Ends DEF Planted
<1>5. QED
  BY <1>3, <1>4

(* Nothing is recorded while a handler begins, or waits.                   *)
LEMMA QuietExit ==
  ASSUME NEW n \in 1..7, NEW k \in 1..7, ExitAt(n), Exits(k)', UNCHANGED <<env, exiter, tracing>>,
         (n <= 3 /\ k <= 3) \/ (n = 5 /\ k = 6 /\ env.papi)
  PROVE  ExitOk'
<1>1. /\ events' = events /\ fault' = fault /\ marks' = marks /\ env' = env /\ stored' = stored
      /\ likwid' = likwid /\ exiter' = exiter
  BY DEF tracing, papi, likwidVars
<1>2. InMain' = InMain /\ MainLog' = MainLog /\ MainRegion' = MainRegion
  BY <1>1 DEF InMain, MainLog, MainEntered, MainRegion
<1>3. MainLeft(MainLog)' <=> MainLeft(MainLog)
  BY <1>1, <1>2 DEF MainLeft, Left, MainEntered
<1>4. exiter \in Apps /\ exiter # None
  BY Assumptions DEF ExitAt, Threads
<1>5. CASE n <= 3 /\ k <= 3
  <2>1. k # 7 /\ k # 5 /\ k \notin {4, 5, 6} /\ n # 5
    BY <1>5
  <2>2. InMain /\ stored = <<>> /\ ~fault /\ likwid = IF env.papi THEN "off" ELSE "on"
    BY <1>5, <2>1 DEF ExitAt
  <2>3. ExitAt(k)'
    BY <1>1, <1>2, <1>4, <1>5, <2>1, <2>2 DEF ExitAt
  <2>4. QED
    BY <1>1, <1>4, <2>3 DEF ExitOk
<1>6. CASE n = 5 /\ k = 6 /\ env.papi
  <2>1. /\ exiter # Main => InMain
        /\ exiter = Main => MainLeft(MainLog)
        /\ stored = <<>> /\ (fault => exiter # Main) /\ likwid = "off"
    BY <1>6 DEF ExitAt
  <2>2. ExitAt(k)'
    BY <1>1, <1>2, <1>3, <1>4, <1>6, <2>1 DEF ExitAt
  <2>3. QED
    BY <1>1, <1>4, <2>2 DEF ExitOk
<1>7. QED
  BY <1>5, <1>6

(* A thread begins to exit.                                                *)
LEMMA ProcessExitsKeeps ==
  ASSUME TracingInv, NEW t \in Apps, ProcessExits(t)
  PROVE  TracingInv'
<1>1. /\ stack[t] = <<>> /\ exiter = None /\ exiter' = t
      /\ UNCHANGED <<env, stack, requests, atexits, tracing>>
  BY DEF ProcessExits, Idle
<1>2. /\ events' = events /\ fault' = fault /\ marks' = marks /\ env' = env /\ stored' = stored
      /\ likwid' = likwid /\ ready' = ready /\ stack' = stack /\ atexits' = atexits
      /\ UNCHANGED <<env, tracing>>
  BY <1>1 DEF tracing, papi, likwidVars
<1>3. TypesOk /\ ExitOk /\ WorkersOk /\ TeamsOk
  BY DEF TracingInv
<1>4. TypesOk'
  BY <1>1, <1>2, <1>3, TypesKept DEF TypesOk, requests
<1>5. \A u \in Threads : Same(u)
  BY <1>2 DEF Same
<1>6. ASSUME NEW u \in Threads \ {exiter'} PROVE ThreadOk(u)'
  <2>1. u # exiter
    BY <1>1, Assumptions
  <2>2. ThreadOk(u)
    BY <1>6, <2>1 DEF TracingInv
  <2>3. QED
    BY <1>2, <1>5, <2>2, OtherThread
<1>7. WorkersOk'
  <2>1. SUFFICES ASSUME NEW a \in Apps, NEW w \in Workers[a], stack'[w] # <<>>
                 PROVE  /\ a # exiter' /\ stack'[a] # <<>>
                        /\ AtCall(stack'[a][1], {"call", "join"})
    BY DEF WorkersOk, AtCall
  <2>2. stack[a] # <<>> /\ AtCall(stack[a][1], {"call", "join"})
    BY <1>2, <1>3, <2>1 DEF WorkersOk
  <2>3. QED
    BY <1>1, <1>2, <2>2
<1>8. TeamsOk'
  BY <1>2, <1>3 DEF TeamsOk, Announced, AtCall
<1>9. ExitOk'
  <2>1. InMain /\ atexits = Planted(OfTracer) /\ stored = <<>> /\ ~fault
        /\ likwid = IF env.papi THEN "off" ELSE "on"
    BY <1>1, <1>3 DEF ExitOk
  <2>2. InMain' = InMain /\ OfTracer' = OfTracer
    BY <1>2 DEF InMain, MainLog, MainEntered, OfTracer
  <2>3. PICK n \in 1..7 : n = 1
    OBVIOUS
  <2>4. Exits(n)'
    BY <1>1, <1>2, <2>1, <2>2, <2>3 DEF Exits, Planted
  <2>5. n <= 3 /\ n <= 6 /\ n \notin {4, 5, 6} /\ n # 7 /\ n # 5
    BY <2>3
  <2>6. ExitAt(n)'
    BY <1>1, <1>2, <2>1, <2>2, <2>4, <2>5 DEF ExitAt
  <2>7. exiter' # None
    BY <1>1, Assumptions DEF Threads
  <2>8. QED
    BY <2>6, <2>7 DEF ExitOk
<1>10. QED
  BY <1>4, <1>6, <1>7, <1>8, <1>9 DEF TracingInv

(* The next handler begins.                                                *)
LEMMA RunHandlerKeeps ==
  ASSUME TracingInv, NEW t \in Apps, RunHandler(t)
  PROVE  TracingInv'
<1>1. /\ stack[t] = <<>> /\ exiter = t /\ atexits' = Front(atexits) /\ Alive
      /\ stack' = [stack EXCEPT ![t] = Append(@, RuntimeFrame(Last(atexits), Handler(Last(atexits))))]
      /\ UNCHANGED <<env, requests, exiter, tracing>>
  BY DEF RunHandler, Idle, Pushed
<1>2. t \in Threads /\ exiter # None /\ TypesOk
  BY <1>1, Assumptions DEF Threads, TracingInv
<1>3. atexits # <<>>
  BY <1>1, <1>2 DEF Alive, Over
<1>4. PICK n \in 1..7 : ExitAt(n)
  BY <1>2 DEF TracingInv, ExitOk
<1>5. PICK fr : fr = RuntimeFrame(Last(atexits), Handler(Last(atexits)))
  OBVIOUS
<1>6. stack'[t] = <<fr>> /\ DOMAIN stack' = Threads /\ \A u \in Threads \ {t} : stack'[u] = stack[u]
  <2>1. Append(<<>>, fr) = <<fr>>
    BY Ends
  <2>2. PICK s2 : s2 = <<fr>>
    OBVIOUS
  <2>3. stack' = [stack EXCEPT ![t] = s2]
    BY <1>1, <1>5, <2>1, <2>2
  <2>4. QED
    BY <1>2, <2>2, <2>3 DEF TypesOk
<1>7. TypesOk'
  BY <1>1, <1>2, <1>6, TypesKept DEF TypesOk, requests
<1>8. /\ events' = events /\ marks' = marks /\ env' = env /\ ready' = ready /\ exiter' = exiter
      /\ UNCHANGED <<env, exiter, tracing>>
  BY <1>1 DEF tracing, papi, likwidVars
<1>9. OfTracer' = OfTracer
  BY <1>8 DEF OfTracer
<1>10. \A name, code : RuntimeFrame(name, code)' = RuntimeFrame(name, code)
  OBVIOUS
<1>11. ASSUME NEW name, Last(atexits) = name PROVE Doing(name, Handler(name))'
  BY <1>1, <1>5, <1>6, <1>11 DEF Doing
<1>12. n = 1 \/ n = 2 \/ n = 5
  <2>1. \A f : stack[exiter] # <<f>>
    BY <1>1
  <2>2. Exits(n)
    BY <1>4 DEF ExitAt
  <2>3. ASSUME n = 3 \/ n = 4 \/ n = 6 PROVE FALSE
    <3>1. \A name, code : ~Doing(name, code)
      BY <2>1 DEF Doing
    <3>2. CASE n = 3
      BY <2>2, <3>1, <3>2 DEF Exits
    <3>3. CASE n = 4
      BY <2>2, <3>1, <3>3 DEF Exits
    <3>4. CASE n = 6
      BY <2>2, <3>1, <3>4 DEF Exits
    <3>5. QED
      BY <2>3, <3>2, <3>3, <3>4
  <2>4. ASSUME n = 7 PROVE FALSE
    BY <1>3, <2>2, <2>4 DEF Exits
  <2>5. n = 1 \/ n = 2 \/ n = 3 \/ n = 4 \/ n = 5 \/ n = 6 \/ n = 7
    BY <1>4
  <2>6. QED
    BY <2>3, <2>4, <2>5
<1>13. ExitOk'
  <2>1. CASE n = 1
    <3>1. atexits = Planted(OfTracer)
      BY <1>4, <2>1 DEF ExitAt, Exits
    <3>2. Last(atexits) = "~PolyJIT" /\ atexits' = OfTracer \o <<"do_shutdown">>
      BY <1>1, <3>1, PlantedIs
    <3>3. Handler("~PolyJIT") = <<Plain("shutdown", None), Plain("join", "generator")>>
      BY DEF Handler
    <3>4. Doing("~PolyJIT", <<Plain("shutdown", None), Plain("join", "generator")>>)'
      BY <1>11, <3>2, <3>3
    <3>5. PICK k \in 1..7 : k = 2
      OBVIOUS
    <3>6. Exits(k)'
      BY <1>9, <3>2, <3>4, <3>5 DEF Exits
    <3>7. n <= 3 /\ k <= 3
      BY <2>1, <3>5
    <3>8. QED
      BY <1>4, <1>8, <3>6, <3>7, QuietExit
  <2>2. CASE n = 2
    <3>1. atexits = OfTracer \o <<"do_shutdown">>
      BY <1>4, <2>2 DEF ExitAt, Exits
    <3>2. Last(atexits) = "do_shutdown" /\ atexits' = OfTracer
      BY <1>1, <3>1, PlantedIs
    <3>3. Doing("do_shutdown", Handler("do_shutdown"))'
      BY <1>11, <3>2
    <3>4. PICK k \in 1..7 : k = 3
      OBVIOUS
    <3>5. Exits(k)'
      BY <1>9, <3>2, <3>3, <3>4 DEF Exits
    <3>6. n <= 3 /\ k <= 3
      BY <2>2, <3>4
    <3>7. QED
      BY <1>4, <1>8, <3>5, <3>6, QuietExit
  <2>3. CASE n = 5
    <3>1. atexits = OfTracer
      BY <1>4, <2>3 DEF ExitAt, Exits
    <3>2. env.papi
      BY <1>3, <3>1, PlantedIs
    <3>3. Last(atexits) = "papi_atexit_handler" /\ atexits' = <<>>
      BY <1>1, <3>1, <3>2, PlantedIs
    <3>4. Handler("papi_atexit_handler") = <<Plain("store", None)>>
      BY DEF Handler
    <3>5. Doing("papi_atexit_handler", <<Plain("store", None)>>)'
      BY <1>11, <3>3, <3>4
    <3>6. PICK k \in 1..7 : k = 6
      OBVIOUS
    <3>7. Exits(k)'
      BY <1>8, <3>2, <3>3, <3>5, <3>6 DEF Exits
    <3>8. QED
      BY <1>4, <1>8, <2>3, <3>2, <3>6, <3>7, QuietExit
  <2>4. QED
    BY <1>12, <2>1, <2>2, <2>3
<1>14. \A u \in Threads \ {exiter} : Same(u)
  BY <1>1, <1>6, <1>8 DEF Same
<1>15. QED
  BY <1>1, <1>7, <1>8, <1>13, <1>14, ExiterMoves

(* PolyJIT is shut down: the generator is told, and waited for.            *)
LEMMA ShuttingDownKeeps ==
  ASSUME TracingInv, NEW t \in Apps, ShutDown(t) \/ (Join(t) /\ t = exiter)
  PROVE  TracingInv'
<1>1. PICK op \in {"shutdown", "join"} :
        At(t, op) /\ (op = "shutdown" => ShutDown(t)) /\ (op = "join" => Join(t) /\ t = exiter)
  BY DEF ShutDown, Join
<1>2. t \in Threads /\ t # None /\ TypesOk
  BY Assumptions DEF Threads, TracingInv
<1>3. t = exiter
  BY <1>1, <1>2, GoesOn
<1>4. UNCHANGED <<env, calls, compiled, ending, tracing>> /\ Advance(exiter)
  BY <1>1, <1>3 DEF ShutDown, Join, requests
<1>5. work' \in Seq(DOMAIN Modules) /\ generator' \in {"asleep", "busy", "told", "ending", "over"}
  <2>1. CASE op = "shutdown"
    <3>1. work' = <<>> /\ generator' \in {"told", "over"}
      BY <1>1, <2>1 DEF ShutDown
    <3>2. QED
      BY <3>1
  <2>2. CASE op = "join"
    <3>1. work' = work /\ generator' = generator
      BY <1>1, <2>2 DEF Join, requests
    <3>2. QED
      BY <1>2, <3>1 DEF TypesOk
  <2>3. QED
    BY <2>1, <2>2
<1>6. DOMAIN stack' = Threads /\ \A u \in Threads \ {exiter} : stack'[u] = stack[u]
  BY <1>2, <1>3, <1>4, AdvancedIs DEF Advance
<1>7. TypesOk'
  BY <1>2, <1>4, <1>5, <1>6, TypesKept DEF TypesOk
<1>8. PICK n \in 1..7 : ExitAt(n)
  BY <1>2, <1>3 DEF TracingInv, ExitOk
<1>9. /\ events' = events /\ marks' = marks /\ env' = env /\ ready' = ready /\ exiter' = exiter
      /\ atexits' = atexits /\ UNCHANGED <<env, exiter, tracing>>
  BY <1>4 DEF tracing, papi, likwidVars, ending
<1>10. Exits(n) /\ stack[exiter] # <<>> /\ op = Head(Top(exiter).code).op
  BY <1>1, <1>3, <1>8 DEF ExitAt, At
<1>11. n = 2
  BY <1>10, ExiterIn
<1>12. Exits(n)'
  <2>1. atexits' = (OfTracer \o <<"do_shutdown">>)'
    BY <1>9, <1>10, <1>11 DEF Exits, OfTracer
  <2>2. PICK a, b : a = Plain("shutdown", None) /\ b = Plain("join", "generator")
    OBVIOUS
  <2>3. CASE op = "shutdown"
    <3>1. Doing("~PolyJIT", <<a, b>>)
      BY <1>10, <2>2, <2>3, ExiterIn
    <3>2. stack'[exiter] = <<RuntimeFrame("~PolyJIT", <<b>>)>>
      BY <1>2, <1>3, <1>4, <3>1, HandlerAdvances
    <3>3. Doing("~PolyJIT", <<Plain("join", "generator")>>)'
      BY <1>9, <2>2, <3>2 DEF Doing
    <3>4. QED
      BY <1>11, <2>1, <3>3 DEF Exits
  <2>4. CASE op = "join"
    <3>1. Doing("~PolyJIT", <<b>>)
      BY <1>10, <2>2, <2>4, ExiterIn
    <3>2. stack'[exiter] = <<>>
      BY <1>2, <1>3, <1>4, <3>1, HandlerAdvances
    <3>3. QED
      BY <1>9, <1>11, <2>1, <3>2 DEF Exits
  <2>5. QED
    BY <2>3, <2>4
<1>13. ExitOk'
  BY <1>8, <1>9, <1>11, <1>12, QuietExit
<1>14. \A u \in Threads \ {exiter} : Same(u)
  BY <1>6, <1>9 DEF Same
<1>15. QED
  BY <1>3, <1>7, <1>9, <1>13, <1>14, ExiterMoves
(* The last one of a sequence that has got one more.                       *)
LEMMA LastOfAppend ==
  ASSUME NEW R, NEW evs \in Seq(R), NEW e \in R
  PROVE  Last(Append(evs, e)) = e
<1>1. PICK more : more = Append(evs, e)
  OBVIOUS
<1>2. Len(more) = Len(evs) + 1 /\ more[Len(evs) + 1] = e
  BY <1>1, AppendIs
<1>3. Last(more) = e
  BY <1>2 DEF Last
<1>4. QED
  BY <1>1, <1>3

(* What the libraries have recorded.                                       *)
LEMMA LogsAre ==
  ASSUME NEW evs, evs \in Seq(EventRecords) \/ evs \in Seq(MarkRecords)
  PROVE  evs \in Logs
<1>1. PICK E, M, B : E = EventRecords /\ M = MarkRecords /\ B = EventRecords \cup MarkRecords
  OBVIOUS
<1>2. evs \in Seq(B)
  BY <1>1
<1>3. QED
  BY <1>1, <1>2 DEF Logs

(* When main's region is left.                                             *)
LEMMA MainEnds ==
  ASSUME NEW R, R \in {EventRecords, MarkRecords}, NEW evs \in Seq(R), MainEntered(evs), NEW e \in R,
         e.type = "RegionExit", e.id = MainRegion
  PROVE  MainLeft(Append(evs, e)) /\ Last(Append(evs, e)) = e
<1>1. PICK more : more = Append(evs, e)
  OBVIOUS
<1>2. Last(more) = e
  BY <1>1, LastOfAppend
<1>3. Left(more, MainRegion, evs)
  BY <1>1, <1>2 DEF Left
<1>4. MainLeft(more)
  <2>1. evs \in Logs
    BY LogsAre
  <2>2. QED
    BY <1>3, <2>1 DEF MainLeft
<1>5. QED
  BY <1>1, <1>2, <1>4

(* The thread that exits leaves main's region.                             *)
LEMMA TraceExitKeeps ==
  ASSUME TracingInv, NEW op \in LikwidCalls \cup TracerCalls, exiter \in Threads, Trace(exiter, op)
  PROVE  TracingInv'
<1>1. PICK t : t = exiter
  OBVIOUS
<1>2. /\ At(t, op) /\ Advance(t) /\ Alive
      /\ UNCHANGED <<env, requests, ending, stored, likwid, ready>>
  BY <1>1 DEF Trace, At
<1>3. /\ TypesOk /\ t \in Threads /\ env' = env /\ stored' = stored /\ likwid' = likwid /\ ready' = ready
      /\ exiter' = exiter /\ atexits' = atexits /\ exiter # None
  BY <1>1, <1>2, Assumptions DEF TracingInv, ending
<1>4. PICK n \in 1..7 : ExitAt(n)
  BY <1>3 DEF TracingInv, ExitOk
<1>5. stack[exiter] # <<>> /\ op = Head(Top(exiter).code).op /\ Exits(n) /\ exiter \in Apps
  BY <1>1, <1>2, <1>4 DEF At, ExitAt
<1>6. op = "polliTracingRegionStop"
  <2>1. op \in {"shutdown", "join", "polliTracingRegionStop", "finalize", "store"}
    BY <1>5, ExiterIn
  <2>2. QED
    BY <2>1 DEF LikwidCalls, TracerCalls
<1>7. PICK i, rest : i = RegionStop(PJIT_REGION_MAIN, "polyjit.main") /\ rest = Plain("finalize", None)
  OBVIOUS
<1>8. n = 3 /\ Doing("do_shutdown", <<i, rest>>)
  BY <1>5, <1>6, <1>7, ExiterIn
<1>9. i = Head(Top(t).code) /\ i.id = -1 /\ i.arg = "polyjit.main"
  <2>0. PICK name : name = "do_shutdown"
    OBVIOUS
  <2>1. PICK fr : fr = RuntimeFrame(name, <<i, rest>>)
    OBVIOUS
  <2>2. Top(t) = fr
    BY <1>1, <1>8, <2>0, <2>1, Ends DEF Doing, Top
  <2>3. /\ fr.code = <<i, rest>> /\ Head(fr.code) = i
        /\ Stepped(fr) = RuntimeFrame(name, <<rest>>) /\ ~Finished(Stepped(fr))
    BY <2>1, HandlerOfTwo
  <2>4. Head(fr.code) = i
    BY <2>3
  <2>5. QED
    BY <1>7, <2>2, <2>4 DEF RegionStop, Instr, PJIT_REGION_MAIN
<1>10. PICK type : type = EventType[op]
  OBVIOUS
<1>11. type = "RegionExit" /\ type \in EventTypes /\ type \notin Enters /\ op \notin LikwidCalls
  BY <1>6, <1>10 DEF EventType, EventTypes, Enters, ExitOf, LikwidCalls
<1>12. /\ IF env.papi THEN Record(t, i.id, type) ELSE UNCHANGED <<events, fault>>
       /\ marks' = IF ~env.papi
                   THEN [marks EXCEPT ![t] = Append(@, Mark(i.arg, type, Len(@), likwid, t \in ready))]
                   ELSE marks
  BY <1>1, <1>9, <1>10, <1>11 DEF Trace, Tracer
<1>13. /\ n <= 3 /\ InMain /\ stored = <<>> /\ ~fault /\ likwid = IF env.papi THEN "off" ELSE "on"
  BY <1>4, <1>8 DEF ExitAt
<1>14. /\ events' \in [Threads -> Seq(EventRecords)] /\ fault' \in BOOLEAN
       /\ \A u \in Threads \ {t} : events'[u] = events[u]
       /\ \A u \in Threads : events'[u] # <<>> => events'[u][1].type \in Enters
       /\ (~env.papi \/ t = Main => fault' = fault)
       /\ env.papi /\ t = Main =>
            \E e \in EventRecords : e.id = -1 /\ e.type = type /\ events'[t] = Append(events[t], e)
  <2>1. CASE env.papi /\ events[t] # <<>>
    <3>1. PICK id \in Int : id = i.id
      BY <1>9
    <3>2. Record(t, id, type)
      BY <1>12, <2>1, <3>1
    <3>3. id < 0 /\ id = -1
      BY <1>9, <3>1
    <3>4. Narrow(id) = -1
      BY <3>3, NarrowIs
    <3>5. /\ fault' = fault /\ \A u \in Threads \ {t} : events'[u] = events[u]
          /\ \E e \in EventRecords :
               e.id = Narrow(id) /\ e.type = type /\ events'[t] = Append(events[t], e)
          /\ events' \in [Threads -> Seq(EventRecords)]
          /\ \A u \in Threads : events'[u] # <<>> => events'[u][1].type \in Enters
      BY <1>3, <1>11, <2>1, <3>2, RecordIs
    <3>6. fault \in BOOLEAN
      BY <1>3 DEF TypesOk
    <3>7. QED
      BY <3>4, <3>5, <3>6
  <2>2. CASE env.papi /\ events[t] = <<>>
    <3>1. fault' = TRUE /\ events' = events
      BY <1>11, <1>12, <2>2 DEF Record
    <3>2. t # Main
      BY <1>13, <2>2 DEF InMain, MainLog, MainEntered
    <3>3. /\ events \in [Threads -> Seq(EventRecords)]
          /\ \A u \in Threads : events[u] # <<>> => events[u][1].type \in Enters
      BY <1>3 DEF TypesOk
    <3>4. QED
      BY <2>2, <3>1, <3>2, <3>3
  <2>3. CASE ~env.papi
    <3>1. events' = events /\ fault' = fault
      BY <1>12, <2>3
    <3>2. QED
      BY <1>3, <2>3, <3>1 DEF TypesOk
  <2>4. QED
    BY <2>1, <2>2, <2>3
<1>15. /\ marks' \in [Threads -> Seq(MarkRecords)]
       /\ \A u \in Threads \ {t} : marks'[u] = marks[u]
       /\ \A u \in Threads : \A j \in DOMAIN marks'[u] :
            /\ marks'[u][j].lib = "off" => env'.papi
            /\ u \in Teams \/ (u = Main /\ ~env'.papi) => marks'[u][j].known
       /\ ~env.papi => \E e \in MarkRecords : /\ e.id = "polyjit.main" /\ e.type = type
                                              /\ marks'[t] = Append(marks[t], e) /\ e.lib = "on"
  <2>1. CASE ~env.papi
    <3>1. PICK arg \in Functions \cup RegionNames : arg = i.arg
      BY <1>9 DEF RegionNames
    <3>2. marks' = [marks EXCEPT ![t] = Append(@, Mark(arg, type, Len(@), likwid, t \in ready))]
      BY <1>12, <2>1, <3>1, Zenon
    <3>3. likwid \in {"off", "on"} /\ (likwid = "off" => env.papi) /\ likwid = "on"
      BY <1>13, <2>1
    <3>4. t \notin Teams
      BY <1>1, <1>5, Assumptions
    <3>5. t \in Teams \/ (t = Main /\ ~env.papi) => t \in ready
      BY <1>3, <3>4 DEF TypesOk
    <3>6. arg = "polyjit.main"
      BY <1>9, <3>1
    <3>7. env' = env
      BY <1>3
    <3>8. /\ \A u \in Threads \ {t} : marks'[u] = marks[u]
          /\ \E e \in MarkRecords : /\ e.id = arg /\ e.type = type /\ marks'[t] = Append(marks[t], e)
                                    /\ e.lib = likwid
          /\ marks' \in [Threads -> Seq(MarkRecords)]
          /\ \A u \in Threads : \A j \in DOMAIN marks'[u] :
               /\ marks'[u][j].lib = "off" => env'.papi
               /\ u \in Teams \/ (u = Main /\ ~env'.papi) => marks'[u][j].known
      <4>1. TypesOk /\ t \in Threads /\ type \in EventTypes /\ likwid \in {"off", "on"}
            /\ (likwid = "off" => env.papi)
        BY <1>3, <1>11, <3>3
      <4>2. QED
        BY <3>2, <3>5, <3>7, <4>1, MarkIs
    <3>9. QED
      BY <3>3, <3>6, <3>8
  <2>2. CASE env.papi
    <3>1. marks' = marks
      BY <1>12, <2>2
    <3>2. QED
      BY <1>3, <2>2, <3>1 DEF TypesOk
  <2>3. QED
    BY <2>1, <2>2
<1>16. stack'[exiter] = <<RuntimeFrame("do_shutdown", <<rest>>)>> /\ DOMAIN stack' = Threads
       /\ \A u \in Threads \ {exiter} : stack'[u] = stack[u]
  <2>1. Advance(exiter) /\ exiter \in Threads
    BY <1>1, <1>2, <1>3
  <2>2. QED
    BY <1>3, <1>8, <2>1, HandlerAdvances
<1>17. TypesOk'
  BY <1>2, <1>3, <1>14, <1>15, <1>16 DEF TypesOk, requests
<1>18. PICK k \in 1..7 : k = 4
  OBVIOUS
<1>19. Exits(k)'
  <2>1. Exits(n) /\ n = 3
    BY <1>5, <1>8
  <2>2. atexits = OfTracer
    BY <2>1 DEF Exits
  <2>3. atexits' = OfTracer'
    BY <1>3, <2>2 DEF OfTracer
  <2>4. Doing("do_shutdown", <<Plain("finalize", None)>>)'
    BY <1>3, <1>7, <1>16 DEF Doing
  <2>5. QED
    BY <1>18, <2>3, <2>4 DEF Exits
<1>20. exiter # Main => InMain' /\ MainLog' = MainLog
  <2>1. SUFFICES ASSUME exiter # Main PROVE InMain' /\ MainLog' = MainLog
    OBVIOUS
  <2>2. Main \in Threads \ {t}
    BY <1>1, <2>1, Assumptions DEF Threads
  <2>3. MainLog' = MainLog
    BY <1>3, <1>14, <1>15, <2>2 DEF MainLog
  <2>4. QED
    BY <1>3, <1>13, <2>3 DEF InMain, MainEntered
<1>21. exiter = Main => MainLeft(MainLog)' /\ (~env.papi => Last(marks'[Main]).lib = "on")
  <2>1. SUFFICES ASSUME exiter = Main
                 PROVE  MainLeft(MainLog)' /\ (~env.papi => Last(marks'[Main]).lib = "on")
    OBVIOUS
  <2>2. t = Main /\ MainEntered(MainLog)
    BY <1>1, <1>13, <2>1 DEF InMain
  <2>3. \A evs : MainLeft(evs)' <=> MainLeft(evs)
    BY <1>3 DEF MainLeft, Left, MainEntered, MainRegion
  <2>4. CASE env.papi
    <3>1. PICK e \in EventRecords : e.id = -1 /\ e.type = type /\ events'[t] = Append(events[t], e)
      BY <1>14, <2>2, <2>4
    <3>2. e.type = "RegionExit" /\ e.id = MainRegion
      BY <1>11, <2>4, <3>1 DEF MainRegion, PJIT_REGION_MAIN
    <3>3. PICK evs \in Seq(EventRecords) : evs = events[t]
      BY <1>3 DEF TypesOk
    <3>4. MainEntered(evs)
      BY <2>2, <2>4, <3>3 DEF MainLog
    <3>5. MainLeft(Append(evs, e))
      BY <3>2, <3>4, MainEnds
    <3>6. MainLog' = Append(evs, e)
      BY <1>3, <2>2, <2>4, <3>1, <3>3 DEF MainLog
    <3>7. QED
      BY <2>3, <2>4, <3>5, <3>6
  <2>5. CASE ~env.papi
    <3>1. PICK e \in MarkRecords : /\ e.id = "polyjit.main" /\ e.type = type
                                   /\ marks'[t] = Append(marks[t], e) /\ e.lib = "on"
      BY <1>15, <2>5
    <3>2. e.type = "RegionExit" /\ e.id = MainRegion
      BY <1>11, <2>5, <3>1 DEF MainRegion
    <3>3. PICK evs \in Seq(MarkRecords) : evs = marks[t]
      BY <1>3 DEF TypesOk
    <3>4. MainEntered(evs)
      BY <2>2, <2>5, <3>3 DEF MainLog
    <3>5. MainLeft(Append(evs, e)) /\ Last(Append(evs, e)) = e
      BY <3>2, <3>4, MainEnds
    <3>6. MainLog' = Append(evs, e) /\ marks'[Main] = Append(evs, e)
      BY <1>3, <2>2, <2>5, <3>1, <3>3 DEF MainLog
    <3>7. QED
      BY <2>3, <3>1, <3>5, <3>6
  <2>6. QED
    BY <2>4, <2>5
<1>22. ExitAt(k)'
  <2>1. exiter' \in Apps /\ stored' = <<>>
    BY <1>3, <1>5, <1>13
  <2>2. fault' => exiter' # Main
    BY <1>1, <1>3, <1>13, <1>14
  <2>3. likwid' = IF env'.papi THEN "off" ELSE "on"
    BY <1>3, <1>13
  <2>4. exiter' = Main => MainLeft(MainLog)' /\ (~env'.papi => Last(marks'[Main]).lib = "on")
    BY <1>3, <1>21
  <2>5. exiter' # Main => InMain'
    BY <1>3, <1>20
  <2>6. QED
    BY <1>18, <1>19, <2>1, <2>2, <2>3, <2>4, <2>5 DEF ExitAt
<1>23. ExitOk'
  BY <1>3, <1>22 DEF ExitOk
<1>24. \A u \in Threads \ {exiter} : Same(u)
  BY <1>1, <1>14, <1>15, <1>16 DEF Same
<1>25. QED
  BY <1>3, <1>5, <1>17, <1>23, <1>24, ExiterMoves
(* Main's log, when a thread other than main's records something.          *)
LEMMA OthersLog ==
  ASSUME env' = env, events'[Main] = events[Main], marks'[Main] = marks[Main]
  PROVE  MainLog' = MainLog /\ InMain' = InMain /\ MainLeft(MainLog)' = MainLeft(MainLog)
<1>1. MainLog' = MainLog /\ MainRegion' = MainRegion
  BY DEF MainLog, MainRegion
<1>2. \A evs : MainEntered(evs)' = MainEntered(evs)
  BY DEF MainEntered
<1>3. InMain' = InMain
  BY <1>1, <1>2 DEF InMain
<1>4. MainLeft(MainLog)' = MainLeft(MainLog)
  BY <1>1, <1>2 DEF MainLeft, Left
<1>5. QED
  BY <1>1, <1>3, <1>4

(* LIKWID is told that the process ends.                                   *)
LEMMA FinalizeKeeps ==
  ASSUME TracingInv, NEW t \in Apps, Finalize(t)
  PROVE  TracingInv'
<1>1. /\ At(t, "finalize") /\ Advance(t)
      /\ likwid' = IF Tracer = "LikwidTracer" THEN "closed" ELSE likwid
      /\ UNCHANGED <<env, requests, ending, papi, ready, marks>>
  BY DEF Finalize
<1>2. t \in Threads /\ t # None /\ TypesOk
  BY Assumptions DEF Threads, TracingInv
<1>3. t = exiter
  BY <1>1, <1>2, GoesOn
<1>4. /\ events' = events /\ marks' = marks /\ env' = env /\ ready' = ready /\ exiter' = exiter
      /\ atexits' = atexits /\ stored' = stored /\ fault' = fault
  BY <1>1 DEF papi, ending
<1>5. PICK n \in 1..7 : ExitAt(n)
  BY <1>2, <1>3 DEF TracingInv, ExitOk
<1>6. Exits(n) /\ stack[exiter] # <<>> /\ "finalize" = Head(Top(exiter).code).op
  BY <1>1, <1>3, <1>5 DEF ExitAt, At
<1>7. PICK a : a = Plain("finalize", None)
  OBVIOUS
<1>8. n = 4 /\ Doing("do_shutdown", <<a>>)
  BY <1>6, <1>7, ExiterIn
<1>9. stack'[exiter] = <<>> /\ DOMAIN stack' = Threads /\ \A u \in Threads \ {exiter} : stack'[u] = stack[u]
  BY <1>1, <1>2, <1>3, <1>8, HandlerAdvances
<1>10. TypesOk'
  BY <1>1, <1>2, <1>4, <1>9 DEF TypesOk, requests
<1>11. PICK k \in 1..7 : k = 5
  OBVIOUS
<1>12. Exits(k)'
  <2>1. atexits = OfTracer
    BY <1>6, <1>8 DEF Exits
  <2>2. atexits' = OfTracer'
    BY <1>4, <2>1 DEF OfTracer
  <2>3. QED
    BY <1>4, <1>9, <1>11, <2>2 DEF Exits
<1>13. MainLog' = MainLog /\ InMain' = InMain /\ MainLeft(MainLog)' = MainLeft(MainLog)
  BY <1>4, OthersLog
<1>14. ExitAt(k)'
  <2>1. /\ exiter # Main => InMain
        /\ exiter = Main => MainLeft(MainLog) /\ (~env.papi => Last(marks[Main]).lib = "on")
        /\ stored = <<>> /\ (fault => exiter # Main) /\ likwid = IF env.papi THEN "off" ELSE "on"
    BY <1>5, <1>8 DEF ExitAt
  <2>2. likwid' = IF env'.papi THEN "off" ELSE "closed"
    BY <1>1, <1>4, <2>1 DEF Tracer
  <2>3. exiter' \in Apps /\ stored' = <<>> /\ (fault' => exiter' # Main) /\ (exiter' # Main => InMain')
    BY <1>3, <1>4, <1>13, <2>1
  <2>4. exiter' = Main => MainLeft(MainLog)' /\ (~env'.papi => Last(marks'[Main]).lib = "on")
    BY <1>4, <1>13, <2>1
  <2>5. QED
    BY <1>11, <1>12, <2>2, <2>3, <2>4 DEF ExitAt
<1>15. ExitOk'
  BY <1>3, <1>2, <1>4, <1>14 DEF ExitOk
<1>16. \A u \in Threads \ {exiter} : Same(u)
  BY <1>4, <1>9 DEF Same
<1>17. QED
  BY <1>3, <1>4, <1>10, <1>15, <1>16, ExiterMoves

(* What was recorded is stored.                                            *)
LEMMA PapiAtexitKeeps ==
  ASSUME TracingInv, NEW t \in Apps, PapiAtexit(t)
  PROVE  TracingInv'
<1>1. /\ At(t, "store") /\ Advance(t) /\ stored' = Append(stored, events'[t])
      /\ Record(t, Total, "RegionExit")
      /\ UNCHANGED <<env, requests, ending, likwidVars>>
  BY DEF PapiAtexit
<1>2. t \in Threads /\ t # None /\ TypesOk
  BY Assumptions DEF Threads, TracingInv
<1>3. t = exiter
  BY <1>1, <1>2, GoesOn
<1>4. /\ marks' = marks /\ env' = env /\ ready' = ready /\ exiter' = exiter
      /\ atexits' = atexits /\ likwid' = likwid
  BY <1>1 DEF likwidVars, ending
<1>5. PICK n \in 1..7 : ExitAt(n)
  BY <1>2, <1>3 DEF TracingInv, ExitOk
<1>6. Exits(n) /\ stack[exiter] # <<>> /\ "store" = Head(Top(exiter).code).op
  BY <1>1, <1>3, <1>5 DEF ExitAt, At
<1>7. PICK a : a = Plain("store", None)
  OBVIOUS
<1>8. n = 6 /\ Doing("papi_atexit_handler", <<a>>)
  BY <1>6, <1>7, ExiterIn
<1>9. stack'[exiter] = <<>> /\ DOMAIN stack' = Threads /\ \A u \in Threads \ {exiter} : stack'[u] = stack[u]
  BY <1>1, <1>2, <1>3, <1>8, HandlerAdvances
<1>10. /\ exiter # Main => InMain
       /\ exiter = Main => MainLeft(MainLog)
       /\ stored = <<>> /\ (fault => exiter # Main)
       /\ env.papi /\ likwid = "off" /\ atexits = <<>>
  BY <1>5, <1>6, <1>8 DEF ExitAt, Exits
<1>11. PICK type \in EventTypes : type = "RegionExit"
  BY DEF EventTypes
<1>12. PICK id \in Int : id = Total
  BY DEF Total
<1>13. /\ events' \in [Threads -> Seq(EventRecords)] /\ fault' \in BOOLEAN
       /\ \A u \in Threads \ {t} : events'[u] = events[u]
       /\ \A u \in Threads : events'[u] # <<>> => events'[u][1].type \in Enters
       /\ events[t] # <<>> =>
            /\ fault' = fault
            /\ \E e \in EventRecords : e.id = Narrow(id) /\ e.type = type /\ events'[t] = Append(events[t], e)
  <2>1. CASE events[t] # <<>>
    <3>1. Record(t, id, type)
      BY <1>1, <1>11, <1>12
    <3>2. /\ fault' = fault /\ \A u \in Threads \ {t} : events'[u] = events[u]
          /\ \E e \in EventRecords :
               e.id = Narrow(id) /\ e.type = type /\ events'[t] = Append(events[t], e)
          /\ events' \in [Threads -> Seq(EventRecords)]
          /\ \A u \in Threads : events'[u] # <<>> => events'[u][1].type \in Enters
      BY <1>2, <2>1, <3>1, RecordIs
    <3>3. fault \in BOOLEAN
      BY <1>2 DEF TypesOk
    <3>4. QED
      BY <3>2, <3>3
  <2>2. CASE events[t] = <<>>
    <3>1. "RegionExit" \notin Enters
      BY DEF Enters, ExitOf
    <3>2. fault' = TRUE /\ events' = events
      BY <1>1, <2>2, <3>1 DEF Record
    <3>3. /\ events \in [Threads -> Seq(EventRecords)]
          /\ \A u \in Threads : events[u] # <<>> => events[u][1].type \in Enters
      BY <1>2 DEF TypesOk
    <3>4. QED
      BY <2>2, <3>2, <3>3
  <2>3. QED
    BY <2>1, <2>2
<1>14. TypesOk'
  BY <1>1, <1>2, <1>4, <1>9, <1>13 DEF TypesOk, requests
<1>15. PICK k \in 1..7 : k = 7
  OBVIOUS
<1>16. Exits(k)'
  BY <1>4, <1>9, <1>10, <1>15 DEF Exits
<1>17. exiter # Main => InMain'
  <2>1. SUFFICES ASSUME exiter # Main PROVE InMain'
    OBVIOUS
  <2>2. Main \in Threads \ {t}
    BY <1>3, <2>1, Assumptions DEF Threads
  <2>3. events'[Main] = events[Main] /\ marks'[Main] = marks[Main]
    BY <1>4, <1>13, <2>2
  <2>4. QED
    BY <1>4, <1>10, <2>1, <2>3, OthersLog
<1>18. exiter = Main =>
         /\ fault' = fault /\ stored' = <<MainLog'>>
         /\ \E before \in Logs : Left(MainLog', Total, before) /\ MainLeft(before)'
  <2>1. SUFFICES ASSUME exiter = Main
                 PROVE  /\ fault' = fault /\ stored' = <<MainLog'>>
                        /\ \E before \in Logs : Left(MainLog', Total, before) /\ MainLeft(before)'
    OBVIOUS
  <2>2. t = Main /\ MainLog = events[t] /\ MainLog' = events'[t]
    BY <1>3, <1>4, <1>10, <2>1 DEF MainLog
  <2>3. PICK evs \in Seq(EventRecords) : evs = events[t]
    BY <1>2 DEF TypesOk
  <2>4. MainLeft(evs)
    BY <1>10, <2>1, <2>2, <2>3
  <2>5. evs # <<>>
    <3>1. PICK before \in Logs : Left(evs, MainRegion, before) /\ MainEntered(before)
      BY <2>4 DEF MainLeft
    <3>2. evs = Append(before, Last(evs)) /\ before # <<>>
      BY <3>1 DEF Left, MainEntered
    <3>3. SUFFICES ASSUME evs = <<>> PROVE FALSE
      OBVIOUS
    <3>4. PICK e : e = Last(evs)
      OBVIOUS
    <3>5. Append(before, e) = <<>>
      BY <3>2, <3>3, <3>4
    <3>6. PICK T : before \in Seq(T) /\ e \in T
      <4>1. PICK B : before \in Seq(B)
        BY <3>1 DEF Logs
      <4>2. PICK T : T = B \cup {e}
        OBVIOUS
      <4>3. before \in Seq(T) /\ e \in T
        BY <4>1, <4>2
      <4>4. QED
        BY <4>3
    <3>7. QED
      BY <3>5, <3>6, AppendIs
  <2>6. PICK e \in EventRecords : e.id = Narrow(id) /\ e.type = type /\ events'[t] = Append(evs, e)
    BY <1>13, <2>3, <2>5
  <2>7. e.id = Total
    <3>1. PICK w \in Nat \ {0} : w = 2 ^ IdBits
      BY Assumptions
    <3>2. 0 % w = 0 /\ ~(0 < 0)
      OBVIOUS
    <3>3. Narrow(0) = 0
      BY <3>1, <3>2 DEF Narrow
    <3>4. QED
      BY <1>12, <2>6, <3>3 DEF Total
  <2>8. PICK more : more = Append(evs, e)
    OBVIOUS
  <2>9. Last(more) = e
    BY <2>8, LastOfAppend
  <2>10. Left(more, Total, evs)
    BY <1>11, <2>6, <2>7, <2>8, <2>9 DEF Left
  <2>11. MainLeft(evs)'
    BY <1>4, <2>4 DEF MainLeft, Left, MainEntered, MainRegion
  <2>12. MainLog' = more
    BY <2>2, <2>6, <2>8
  <2>13. Append(<<>>, more) = <<more>>
    BY Ends
  <2>14. stored' = <<MainLog'>>
    BY <1>1, <1>10, <2>2, <2>12, <2>13
  <2>15. fault' = fault
    BY <1>13, <2>3, <2>5
  <2>16. evs \in Logs
    BY LogsAre
  <2>17. QED
    BY <2>10, <2>11, <2>12, <2>14, <2>15, <2>16
<1>19. ExitAt(k)'
  <2>1. exiter' \in Apps /\ likwid' = "off" /\ env'.papi /\ (exiter' # Main => InMain')
    BY <1>3, <1>4, <1>10, <1>17
  <2>2. fault' => exiter' # Main
    BY <1>4, <1>10, <1>18
  <2>3. exiter' = Main => /\ stored' = <<MainLog'>>
                          /\ \E before \in Logs : Left(MainLog', Total, before) /\ MainLeft(before)'
    BY <1>4, <1>18
  <2>4. QED
    BY <1>15, <1>16, <2>1, <2>2, <2>3 DEF ExitAt, Left
<1>20. ExitOk'
  BY <1>2, <1>3, <1>4, <1>19 DEF ExitOk
<1>21. \A u \in Threads \ {exiter} : Same(u)
  BY <1>3, <1>4, <1>9, <1>13 DEF Same
<1>22. QED
  BY <1>3, <1>4, <1>14, <1>20, <1>21, ExiterMoves
-----------------------------------------------------------------------------
(* The invariant.                                                          *)

(* One enter is open after it, and two after two.                          *)
LEMMA OpenAfterEnters ==
  ASSUME NEW T, "unopened" \in T, NEW E, \A e \in E : e.id \in T,
         NEW a \in E, a.type = "RegionEnter", NEW b \in E, b.type = "RegionEnter"
  PROVE  OpenMarks(<<a>>) = <<a.id>> /\ OpenMarks(<<a, b>>) = <<a.id, b.id>>
<1>1. IsEnter(a) /\ IsEnter(b)
  BY DEF IsEnter, Enters, ExitOf
<1>2. PICK none, one, two : none = <<>> /\ one = <<a>> /\ two = <<a, b>>
  OBVIOUS
<1>3. none \in Seq(E) /\ one \in Seq(E) /\ one = Append(none, a) /\ two = Append(one, b)
  BY <1>2
<1>4. OpenMarks(none) = <<>>
  BY <1>2, OpenMarksNone
<1>5. OpenMarks(Append(none, a)) = Following(OpenMarks(none), a)
  BY <1>3, OpenMarksAppend
<1>6. ASSUME NEW evs \in Seq(E), NEW e \in E
      PROVE  OpenMarks(evs) \in Seq(T) /\ OpenMarks(Append(evs, e)) = Following(OpenMarks(evs), e)
  BY OpenMarksAppend
<1>7. \A open : Following(open, a) = Append(open, a.id) /\ Following(open, b) = Append(open, b.id)
  BY <1>1, Zenon DEF Following
<1>8. PICK ai, bi : ai = a.id /\ bi = b.id
  OBVIOUS
<1>9. Append(<<>>, ai) = <<ai>> /\ Append(<<ai>>, bi) = <<ai, bi>>
  BY Ends
<1>10. OpenMarks(one) = <<ai>>
  BY <1>3, <1>4, <1>5, <1>7, <1>8, <1>9
<1>11. OpenMarks(two) = <<ai, bi>>
  <2>1. OpenMarks(Append(one, b)) = Following(OpenMarks(one), b)
    BY <1>3, <1>6
  <2>2. Following(<<ai>>, b) = <<ai, bi>>
    BY <1>7, <1>8, <1>9
  <2>3. QED
    BY <1>3, <1>10, <2>1, <2>2
<1>12. QED
  BY <1>2, <1>8, <1>10, <1>11

(* In the beginning main's region is open.                                 *)
LEMMA InitLogs ==
  ASSUME Init
  PROVE  /\ events \in [Threads -> Seq(EventRecords)] /\ marks \in [Threads -> Seq(MarkRecords)]
         /\ \A t \in Threads : events[t] # <<>> => events[t][1].type \in Enters
         /\ \A t \in Threads : \A i \in DOMAIN marks[t] : marks[t][i].lib = "on" /\ marks[t][i].known
         /\ InMain /\ \A lib \in Libs : \A t \in Threads : OpenMarks(Log(lib, t)) = Base(lib, t)
<1>1. Main \in Threads /\ (Tracer = "PapiTracer" <=> env.papi) /\ (Tracer = "LikwidTracer" <=> ~env.papi)
  BY Assumptions DEF Threads, Tracer
<1>2. PICK a, b : a = Event(Total, "RegionEnter", 0) /\ b = Event(PJIT_REGION_MAIN, "RegionEnter", 1)
  OBVIOUS
<1>3. PICK c : c = Mark("polyjit.main", "RegionEnter", 0, "on", TRUE)
  OBVIOUS
<1>4. /\ a \in EventRecords /\ a.id = Total /\ a.type = "RegionEnter"
      /\ b \in EventRecords /\ b.id = PJIT_REGION_MAIN /\ b.type = "RegionEnter"
  BY <1>2 DEF Event, EventRecords, Total, PJIT_REGION_MAIN, EventTypes
<1>5. /\ c \in MarkRecords /\ c.id = "polyjit.main" /\ c.type = "RegionEnter"
      /\ c.lib = "on" /\ c.known
  BY <1>3 DEF Mark, MarkRecords, RegionNames, EventTypes
<1>6. /\ \A t \in Threads : events[t] = IF t = Main /\ env.papi THEN <<a, b>> ELSE <<>>
      /\ DOMAIN events = Threads /\ events = [t \in Threads |-> events[t]]
  BY <1>1, <1>2 DEF Init
<1>7. /\ \A t \in Threads : marks[t] = IF t = Main /\ ~env.papi THEN <<c>> ELSE <<>>
      /\ DOMAIN marks = Threads /\ marks = [t \in Threads |-> marks[t]]
  BY <1>1, <1>3 DEF Init
<1>8. PICK one, two : one = <<c>> /\ two = <<a, b>>
  OBVIOUS
<1>9. /\ one \in Seq(MarkRecords) /\ two \in Seq(EventRecords) /\ <<>> \in Seq(MarkRecords)
      /\ <<>> \in Seq(EventRecords) /\ two[1] = a /\ two[2] = b /\ Len(two) = 2
      /\ one[1] = c /\ Len(one) = 1 /\ one # <<>> /\ two # <<>> /\ DOMAIN one = {1} /\ DOMAIN two = {1, 2}
  BY <1>4, <1>5, <1>8
<1>10. \A t \in Threads : events[t] \in Seq(EventRecords) /\ (events[t] # <<>> => events[t][1].type = "RegionEnter")
  BY <1>4, <1>6, <1>8, <1>9
<1>11. "RegionEnter" \in Enters
  BY DEF Enters, ExitOf
<1>12. \A t \in Threads : /\ marks[t] \in Seq(MarkRecords)
                          /\ \A i \in DOMAIN marks[t] : marks[t][i].lib = "on" /\ marks[t][i].known
  <2> TAKE t \in Threads
  <2>1. marks[t] = one \/ marks[t] = <<>>
    BY <1>7, <1>8
  <2>2. \A i \in DOMAIN one : one[i] = c
    BY <1>9
  <2>3. CASE marks[t] = one
    BY <1>5, <1>9, <2>2, <2>3
  <2>4. CASE marks[t] = <<>>
    BY <1>9, <2>4
  <2>5. QED
    BY <2>1, <2>3, <2>4
<1>13. InMain
  <2>1. CASE env.papi
    <3>1. MainLog = two
      BY <1>1, <1>6, <1>8, <2>1 DEF MainLog
    <3>2. \A i \in DOMAIN two : two[i].type # "RegionExit"
      BY <1>4, <1>9
    <3>3. MainEntered(two)
      BY <1>4, <1>9, <2>1, <3>2 DEF MainEntered
    <3>4. QED
      BY <3>1, <3>3 DEF InMain
  <2>2. CASE ~env.papi
    <3>1. MainLog = one
      BY <1>1, <1>7, <1>8, <2>2 DEF MainLog
    <3>2. \A i \in DOMAIN one : one[i].type # "RegionExit"
      BY <1>5, <1>9
    <3>3. MainEntered(one)
      BY <1>5, <1>9, <2>2, <3>2 DEF MainEntered
    <3>4. QED
      BY <3>1, <3>3 DEF InMain
  <2>3. QED
    BY <2>1, <2>2
<1>14. OpenMarks(two) = <<Total, PJIT_REGION_MAIN>>
  <2>1. PICK T, E : T = Names /\ E = EventRecords
    OBVIOUS
  <2>2. "unopened" \in T /\ \A e \in E : e.id \in T
    BY <2>1 DEF Names, EventRecords
  <2>3. a \in E /\ b \in E
    BY <1>4, <2>1
  <2>4. OpenMarks(<<a>>) = <<a.id>> /\ OpenMarks(<<a, b>>) = <<a.id, b.id>>
    BY <1>4, <2>2, <2>3, OpenAfterEnters
  <2>5. QED
    BY <1>4, <1>8, <2>4, Zenon
<1>15. OpenMarks(one) = <<"polyjit.main">>
  <2>1. PICK T, E : T = Names /\ E = MarkRecords
    OBVIOUS
  <2>2. "unopened" \in T /\ \A e \in E : e.id \in T
    BY <2>1 DEF Names, MarkRecords
  <2>3. c \in E
    BY <1>5, <2>1
  <2>4. OpenMarks(<<c>>) = <<c.id>> /\ OpenMarks(<<c, c>>) = <<c.id, c.id>>
    BY <1>5, <2>2, <2>3, OpenAfterEnters
  <2>5. QED
    BY <1>5, <1>8, <2>4, Zenon
<1>16. ASSUME NEW lib \in Libs, NEW t \in Threads PROVE OpenMarks(Log(lib, t)) = Base(lib, t)
  <2>1. CASE lib = "papi"
    <3>1. Log(lib, t) = events[t]
      BY <2>1 DEF Log
    <3>2. CASE t = Main /\ env.papi
      BY <1>6, <1>8, <1>14, <2>1, <3>1, <3>2 DEF Base
    <3>3. CASE ~(t = Main /\ env.papi)
      <4>1. Log(lib, t) = <<>>
        BY <1>6, <3>1, <3>3
      <4>2. Base(lib, t) = <<>>
        BY <2>1, <3>3 DEF Base
      <4>3. QED
        BY <4>1, <4>2, OpenMarksNone
    <3>4. QED
      BY <3>2, <3>3
  <2>2. CASE lib = "likwid"
    <3>1. Log(lib, t) = marks[t]
      BY <2>2 DEF Log
    <3>2. CASE t = Main /\ ~env.papi
      BY <1>7, <1>8, <1>15, <2>2, <3>1, <3>2 DEF Base
    <3>3. CASE ~(t = Main /\ ~env.papi)
      <4>1. Log(lib, t) = <<>>
        BY <1>7, <3>1, <3>3
      <4>2. Base(lib, t) = <<>>
        BY <2>2, <3>3 DEF Base
      <4>3. QED
        BY <4>1, <4>2, OpenMarksNone
    <3>4. QED
      BY <3>2, <3>3
  <2>3. QED
    BY <2>1, <2>2 DEF Libs
<1>17. events \in [Threads -> Seq(EventRecords)] /\ marks \in [Threads -> Seq(MarkRecords)]
  BY <1>6, <1>7, <1>10, <1>12
<1>18. QED
  BY <1>10, <1>11, <1>12, <1>13, <1>16, <1>17

(* It holds in the beginning.                                              *)
LEMMA InitInv == Init => TracingInv
<1> SUFFICES ASSUME Init PROVE TracingInv
  OBVIOUS
<1>1. /\ env \in [papi : BOOLEAN, likwid : BOOLEAN] /\ (env.papi \/ env.likwid)
      /\ calls = [a \in Apps |-> 0] /\ work = <<>> /\ generator = "asleep" /\ compiled = {}
      /\ exiter = None /\ stored = <<>> /\ fault = FALSE /\ stack = [t \in Threads |-> <<>>]
      /\ IF ~env.papi THEN likwid = "on" /\ ready = {Main} ELSE likwid = "off" /\ ready = {}
      /\ atexits = Planted(OfTracer)
  BY DEF Init, Tracer, OfTracer
<1>2. Main \in Threads /\ Teams \subseteq Threads
  BY Assumptions DEF Threads
<1>3. /\ events \in [Threads -> Seq(EventRecords)] /\ marks \in [Threads -> Seq(MarkRecords)]
      /\ \A t \in Threads : events[t] # <<>> => events[t][1].type \in Enters
      /\ \A t \in Threads : \A i \in DOMAIN marks[t] : marks[t][i].lib = "on" /\ marks[t][i].known
      /\ InMain /\ \A lib \in Libs : \A t \in Threads : OpenMarks(Log(lib, t)) = Base(lib, t)
  BY InitLogs
<1>4. TypesOk
  <2>1. /\ DOMAIN stack = Threads /\ calls \in [Apps -> Nat] /\ work \in Seq(DOMAIN Modules)
        /\ compiled \subseteq DOMAIN Modules /\ fault \in BOOLEAN
        /\ generator \in {"asleep", "busy", "told", "ending", "over"}
    <3>1. calls \in [Apps -> Nat]
      BY <1>1
    <3>2. work \in Seq(DOMAIN Modules)
      BY <1>1
    <3>3. DOMAIN stack = Threads
      BY <1>1
    <3>4. QED
      BY <1>1, <3>1, <3>2, <3>3
  <2>2. ready \subseteq Threads /\ (env.papi \/ Main \in ready)
    BY <1>1, <1>2
  <2>3. ASSUME NEW t \in Threads, NEW i \in DOMAIN marks[t]
        PROVE  /\ marks[t][i].lib = "off" => env.papi
               /\ t \in Teams \/ (t = Main /\ ~env.papi) => marks[t][i].known
    BY <1>3, <2>3
  <2>4. QED
    BY <1>1, <1>3, <2>1, <2>2, <2>3 DEF TypesOk
<1>5. ExitOk
  BY <1>1, <1>3 DEF ExitOk
<1>6. WorkersOk
  <2>1. \A a \in Apps : \A w \in Workers[a] : w \in Threads
    BY <1>2, Assumptions
  <2>2. QED
    BY <1>1, <2>1 DEF WorkersOk
<1>7. TeamsOk
  BY <1>1, <1>2 DEF TeamsOk, Announced
<1>8. ASSUME NEW t \in Threads PROVE ThreadOk(t)
  <2>1. stack[t] = <<>>
    BY <1>1
  <2>2. StackOk(t, <<>>)
    BY DEF StackOk
  <2>3. \A lib \in Libs : OpenOk(lib, t, <<>>, Log(lib, t))
    BY <1>3, OpenIs
  <2>4. QED
    BY <2>1, <2>2, <2>3 DEF ThreadOk
<1>9. QED
  BY <1>4, <1>5, <1>6, <1>7, <1>8 DEF TracingInv

(* Every action keeps it.                                                  *)
LEMMA NextKeeps == TracingInv /\ [Next]_vars => TracingInv'
<1> SUFFICES ASSUME TracingInv, [Next]_vars PROVE TracingInv'
  OBVIOUS
<1>1. Apps \subseteq Threads
  BY DEF Threads
<1>2. CASE RunGenerator
  BY <1>2, WakeUpKeeps, TakeRequestKeeps, GeneratorKeeps, EndBatchKeeps DEF RunGenerator
<1>3. ASSUME NEW t \in Threads, Run(t) PROVE TracingInv'
  <2>1. CASE Proceed(t)
    BY <2>1, ProceedKeeps
  <2>2. CASE Branch(t)
    BY <2>2, BranchKeeps
  <2>3. CASE ThreadInit(t)
    BY <2>3, ThreadInitKeeps
  <2>4. ASSUME NEW op \in LikwidCalls \cup TracerCalls, Trace(t, op) PROVE TracingInv'
    <3>1. CASE t = exiter
      BY <2>4, <3>1, TraceExitKeeps
    <3>2. CASE t # exiter
      BY <2>4, <3>2, TraceKeeps
    <3>3. QED
      BY <3>1, <3>2
  <2>5. QED
    BY <1>3, <2>1, <2>2, <2>3, <2>4 DEF Run
<1>4. ASSUME NEW t \in Apps, RunApp(t) PROVE TracingInv'
  <2>1. CASE RunVariant(t)
    BY <2>1, RunVariantKeeps
  <2>2. CASE CallSubFunction(t)
    BY <2>2, CallSubFunctionKeeps
  <2>3. CASE Fork(t)
    BY <2>3, ForkKeeps
  <2>4. CASE Join(t)
    <3>1. CASE t = exiter
      BY <2>4, <3>1, ShuttingDownKeeps
    <3>2. CASE t # exiter
      BY <1>1, <2>4, <3>2, JoinKeeps
    <3>3. QED
      BY <3>1, <3>2
  <2>5. CASE ProcessExits(t)
    BY <2>5, ProcessExitsKeeps
  <2>6. CASE RunHandler(t)
    BY <2>6, RunHandlerKeeps
  <2>7. CASE ShutDown(t)
    BY <2>7, ShuttingDownKeeps
  <2>8. CASE Finalize(t)
    BY <2>8, FinalizeKeeps
  <2>9. CASE PapiAtexit(t)
    BY <2>9, PapiAtexitKeeps
  <2>10. CASE \E m \in DOMAIN Modules : Call(t, m)
    BY <2>10, CallKeeps
  <2>11. QED
    BY <1>4, <2>1, <2>2, <2>3, <2>4, <2>5, <2>6, <2>7, <2>8, <2>9, <2>10 DEF RunApp
<1>5. CASE UNCHANGED vars
  <2>1. /\ env' = env /\ stack' = stack /\ calls' = calls /\ work' = work /\ generator' = generator
        /\ compiled' = compiled /\ exiter' = exiter /\ events' = events /\ marks' = marks
        /\ ready' = ready /\ UNCHANGED <<env, ending, tracing>>
    BY <1>5 DEF vars, requests, ending, tracing, papi, likwidVars
  <2>2. TypesOk /\ ExitOk /\ WorkersOk /\ TeamsOk
    BY DEF TracingInv
  <2>3. TypesOk'
    BY <2>1, <2>2, TypesKept DEF TypesOk
  <2>4. ExitOk'
    BY <2>1, <2>2, ExitSame
  <2>5. WorkersOk'
    BY <2>1, <2>2 DEF WorkersOk, AtCall
  <2>6. TeamsOk'
    BY <2>1, <2>2 DEF TeamsOk, Announced, AtCall
  <2>7. \A u \in Threads \ {exiter'} : ThreadOk(u)'
    <3>1. \A u \in Threads : Same(u)
      BY <2>1 DEF Same
    <3>2. QED
      BY <2>1, <3>1, OtherThread DEF TracingInv
  <2>8. QED
    BY <2>3, <2>4, <2>5, <2>6, <2>7 DEF TracingInv
<1>6. QED
  BY <1>2, <1>3, <1>4, <1>5 DEF Next

(* In every reachable state the frames of a thread agree with what it has  *)
(* open, and the thread that exits has done its handlers in order.         *)
THEOREM TracingInvariant == Spec => []TracingInv
<1>1. Init => TracingInv
  BY InitInv
<1>2. TracingInv /\ [Next]_vars => TracingInv'
  BY NextKeeps
<1>3. QED
  BY <1>1, <1>2, PTL DEF Spec
-----------------------------------------------------------------------------
(* What follows from it.                                                   *)

(* One name more, as a sequence of its own.                                *)
LEMMA OpenedIs ==
  ASSUME NEW T, NEW under \in Seq(T), NEW n \in T
  PROVE  /\ under \o <<n>> = Opened(under, <<n>>) /\ under \o <<>> = under
         /\ Opened(under, <<>>) = under
<1>1. PICK one : one = <<n>>
  OBVIOUS
<1>2. one \in Seq(T) /\ Len(one) = 1 /\ one[1] = n /\ one # <<>>
  BY <1>1
<1>3. PICK u : u = Append(under, n)
  OBVIOUS
<1>4. /\ u \in Seq(T) /\ Len(u) = Len(under) + 1 /\ DOMAIN under = 1..Len(under)
      /\ u[Len(under) + 1] = n /\ \A i \in DOMAIN under : u[i] = under[i]
  BY <1>3, AppendIs
<1>5. under \o one = u
  <2>1. \A i \in 1..Len(one) : u[Len(under) + i] = one[i]
    BY <1>2, <1>4
  <2>2. Len(u) = Len(under) + Len(one) /\ \A i \in 1..Len(under) : u[i] = under[i]
    BY <1>2, <1>4
  <2>3. QED
    BY <1>2, <1>4, <2>1, <2>2, ConcatIs
<1>6. Opened(under, one) = u
  BY <1>2, <1>3 DEF Opened
<1>7. under \o <<>> = under
  OBVIOUS
<1>8. Opened(under, <<>>) = under
  BY DEF Opened
<1>9. QED
  BY <1>1, <1>5, <1>6, <1>7, <1>8

(* Before the work of a scop, its mark is open.                            *)
LEMMA WorkOpen ==
  ASSUME NEW fr, NEW ops, FrameOk(fr, ops), fr.code # <<>>, Head(fr.code).op = "work",
         NEW lib \in Libs, NEW under \in Seq(Names), NEW evs \in Seq(Recs(lib)),
         FrameOpen(lib, fr, under, evs)
  PROVE  OpenMarks(evs) = Opened(under, ScopOpen(lib, fr.mod, fr.fn)) /\ OfFunction(fr)
<1>1. IsFrame(fr)
  BY DEF FrameOk, IsFrame
<1>2. Head(fr.code) = fr.code[1] /\ 1 \in DOMAIN fr.code
  BY <1>1, SteppedIs
<1>3. PICK y : y = ScopOpen(lib, fr.mod, fr.fn)
  OBVIOUS
<1>4. OfFunction(fr) /\ After(lib, fr, 1, y)
  BY <1>2, <1>3 DEF FrameOk, RestOk
<1>5. PICK gr : gr = Stepped(fr)
  OBVIOUS
<1>6. IsFrame(gr)
  <2>1. gr = [mod |-> fr.mod, fn |-> fr.fn, code |-> Tail(fr.code), next |-> fr.next]
        /\ Tail(fr.code) \in Seq(Instrs)
    BY <1>1, <1>5, SteppedIs
  <2>2. QED
    BY <2>1 DEF IsFrame
<1>7. After(lib, gr, 0, y)
  <2>1. PICK z \in Nat : z = 0
    OBVIOUS
  <2>2. After(lib, fr, z + 1, y)
    BY <1>4, <2>1
  <2>3. After(lib, gr, z, y)
    BY <1>1, <1>5, <2>2, AfterTail
  <2>4. QED
    BY <2>1, <2>3
<1>8. FrameOpen(lib, gr, under, evs)
  <2>1. Head(fr.code).op \in QuietOps
    BY DEF QuietOps
  <2>2. ~Goes(lib, Head(fr.code).op)
    BY <2>1, Telling
  <2>3. Told(lib, Head(fr.code), evs, evs)
    BY <2>2 DEF Told
  <2>4. QED
    BY <1>5, <2>3, StepOpen
<1>9. PICK x : After(lib, gr, 0, x) /\ OpenMarks(evs) = Opened(under, x)
  BY <1>8 DEF FrameOpen
<1>10. x = y
  <2>1. PICK z \in Nat : z = 0
    OBVIOUS
  <2>2. After(lib, gr, z, x) /\ After(lib, gr, z, y)
    BY <1>7, <1>9, <2>1
  <2>3. QED
    BY <1>6, <2>2, AfterUnique
<1>11. QED
  BY <1>3, <1>4, <1>9, <1>10

(* What a thread has open while it works on a scop, and while it is not in *)
(* the runtime.                                                            *)
LEMMA WhatIsOpen ==
  ASSUME TracingInv, NEW t \in Threads \ {exiter}, NEW lib \in Libs
  PROVE  /\ At(t, "work") => OpenMarks(Log(lib, t)) =
              Opened(Base(lib, t), ScopOpen(lib, Top(t).mod, Top(t).fn))
         /\ Idle(t) => OpenMarks(Log(lib, t)) = Base(lib, t)
<1>1. PICK under, evs, s : under = Under(lib, t, stack[t]) /\ evs = Log(lib, t) /\ s = stack[t]
  OBVIOUS
<1>2. OpenOk(lib, t, s, evs) /\ TypesOk
  BY <1>1 DEF TracingInv, ThreadOk
<1>3. Idle(t) => OpenMarks(evs) = Base(lib, t)
  <2>1. SUFFICES ASSUME Idle(t) PROVE OpenMarks(evs) = Base(lib, t)
    OBVIOUS
  <2>2. OpenOk(lib, t, <<>>, evs)
    BY <1>1, <1>2, <2>1 DEF Idle
  <2>3. QED
    BY <2>2, OpenIs
<1>4. ASSUME At(t, "work")
      PROVE  OpenMarks(evs) = Opened(Base(lib, t), ScopOpen(lib, Top(t).mod, Top(t).fn))
  <2>1. PICK fr, op : fr = Top(t) /\ op = "work"
    OBVIOUS
  <2>2. fr.code # <<>> /\ s # <<>> /\ fr = Last(s) /\ Head(fr.code).op = op
    BY <1>1, <1>4, <2>1 DEF At, Top
  <2>3. StackOk(t, s) /\ FrameOk(fr, TopOps(t, s)) /\ op \in TopOps(t, s)
    BY <1>1, <2>1, <2>2, TopInstr
  <2>4. t # Generator
    BY <2>1, <2>3, OpsOf DEF GeneratorOps, RequestOps, RegionCalls
  <2>5. under = Base(lib, t)
    BY <1>1, <2>4 DEF Under, Below
  <2>6. FrameOpen(lib, fr, under, evs)
    BY <1>1, <1>2, <2>2, <2>3, TopIs
  <2>7. under \in Seq(Names) /\ evs \in Seq(Recs(lib))
    BY <1>1, <1>2, UnderTyped DEF TypesOk, Log, Recs
  <2>8. PICK ops : ops = TopOps(t, s)
    OBVIOUS
  <2>9. FrameOk(fr, ops)
    BY <2>3, <2>8
  <2>10. OpenMarks(evs) = Opened(under, ScopOpen(lib, fr.mod, fr.fn)) /\ OfFunction(fr)
    BY <2>1, <2>2, <2>6, <2>7, <2>9, WorkOpen
  <2>11. QED
    BY <2>1, <2>5, <2>10
<1>5. QED
  BY <1>1, <1>3, <1>4

(* Marks follow the calls: in the middle of a scop exactly its mark is     *)
(* open, and that of main.                                                 *)
LEMMA FollowFromInv == TracingInv => MarkersFollowCalls
<1> SUFFICES ASSUME TracingInv, NEW t \in Threads \ {exiter}, At(t, "work") \/ Idle(t)
             PROVE  /\ env.papi => OpenMarks(events[t]) = OpenIn(t).papi
                    /\ env.likwid => OpenMarks(marks[t]) = OpenIn(t).likwid
  BY DEF MarkersFollowCalls
<1>1. PICK works : works = (At(t, "work") /\ Measured(Top(t).mod, Top(t).fn))
  OBVIOUS
<1>2. Idle(t) => ~At(t, "work")
  BY DEF Idle, At
<1>3. ASSUME NEW lib \in Libs, On(lib), NEW under, under = Base(lib, t),
             NEW n, n = Scop(lib, Top(t).mod, Top(t).fn)
      PROVE  OpenMarks(Log(lib, t)) = under \o (IF works THEN <<n>> ELSE <<>>)
  <2>1. under \in Seq(Names)
    BY <1>3, UnderTyped
  <2>2. PICK T : T = Names \cup {n}
    OBVIOUS
  <2>3. under \in Seq(T) /\ n \in T
    BY <2>1, <2>2
  <2>4. under \o <<n>> = Opened(under, <<n>>) /\ under \o <<>> = under /\ Opened(under, <<>>) = under
    BY <2>3, OpenedIs
  <2>5. CASE works
    <3>1. ScopOpen(lib, Top(t).mod, Top(t).fn) = <<n>>
      BY <1>1, <1>3, <2>5 DEF ScopOpen
    <3>2. At(t, "work")
      BY <1>1, <2>5
    <3>3. OpenMarks(Log(lib, t)) = Opened(Base(lib, t), ScopOpen(lib, Top(t).mod, Top(t).fn))
      BY <3>2, WhatIsOpen
    <3>4. QED
      BY <1>3, <2>4, <2>5, <3>1, <3>3, Zenon
  <2>6. CASE ~works
    <3>1. OpenMarks(Log(lib, t)) = under
      <4>1. CASE Idle(t)
        BY <1>3, <4>1, WhatIsOpen
      <4>2. CASE At(t, "work")
        <5>1. ScopOpen(lib, Top(t).mod, Top(t).fn) = <<>>
          BY <1>1, <2>6, <4>2 DEF ScopOpen
        <5>2. OpenMarks(Log(lib, t)) = Opened(Base(lib, t), ScopOpen(lib, Top(t).mod, Top(t).fn))
          BY <4>2, WhatIsOpen
        <5>3. QED
          BY <1>3, <2>4, <5>1, <5>2, Zenon
      <4>3. QED
        BY <4>1, <4>2
    <3>2. QED
      BY <2>4, <2>6, <3>1, Zenon
  <2>7. QED
    BY <2>5, <2>6, Zenon
<1>4. env.papi => OpenMarks(events[t]) = OpenIn(t).papi
  <2>1. SUFFICES ASSUME env.papi PROVE OpenMarks(events[t]) = OpenIn(t).papi
    OBVIOUS
  <2>2. PICK lib \in Libs : lib = "papi"
    BY DEF Libs
  <2>3. PICK under, n : under = Base(lib, t) /\ n = Scop(lib, Top(t).mod, Top(t).fn)
    OBVIOUS
  <2>4. On(lib) /\ Log(lib, t) = events[t]
    BY <2>1, <2>2 DEF On, Log
  <2>5. OpenMarks(Log(lib, t)) = under \o (IF works THEN <<n>> ELSE <<>>)
    BY <1>3, <2>3, <2>4
  <2>6. under = (IF t = Main THEN <<Total, PJIT_REGION_MAIN>> ELSE <<>>)
    BY <2>1, <2>2, <2>3 DEF Base
  <2>7. n = Narrow(ScopId(Top(t).mod, Top(t).fn))
    BY <2>2, <2>3 DEF Scop
  <2>8. OpenIn(t).papi = (IF t = Main THEN <<Total, PJIT_REGION_MAIN>> ELSE <<>>)
          \o (IF At(t, "work") /\ Measured(Top(t).mod, Top(t).fn)
              THEN <<Narrow(ScopId(Top(t).mod, Top(t).fn))>> ELSE <<>>)
    BY Zenon DEF OpenIn
  <2>9. OpenIn(t).papi = under \o (IF works THEN <<n>> ELSE <<>>)
    BY <1>1, <2>6, <2>7, <2>8, Zenon
  <2>10. QED
    BY <2>4, <2>5, <2>9, Zenon
<1>5. env.likwid => OpenMarks(marks[t]) = OpenIn(t).likwid
  <2>1. SUFFICES ASSUME env.likwid PROVE OpenMarks(marks[t]) = OpenIn(t).likwid
    OBVIOUS
  <2>2. PICK lib \in Libs : lib = "likwid"
    BY DEF Libs
  <2>3. PICK under, n : under = Base(lib, t) /\ n = Scop(lib, Top(t).mod, Top(t).fn)
    OBVIOUS
  <2>4. On(lib) /\ Log(lib, t) = marks[t]
    BY <2>1, <2>2 DEF On, Log
  <2>5. OpenMarks(Log(lib, t)) = under \o (IF works THEN <<n>> ELSE <<>>)
    BY <1>3, <2>3, <2>4
  <2>6. under = (IF t = Main /\ ~env.papi THEN <<"polyjit.main">> ELSE <<>>)
    BY <2>2, <2>3 DEF Base
  <2>7. n = Top(t).fn
    BY <2>2, <2>3 DEF Scop
  <2>8. OpenIn(t).likwid = (IF t = Main /\ ~env.papi THEN <<"polyjit.main">> ELSE <<>>)
          \o (IF At(t, "work") /\ Measured(Top(t).mod, Top(t).fn) THEN <<Top(t).fn>> ELSE <<>>)
    BY Zenon DEF OpenIn
  <2>9. OpenIn(t).likwid = under \o (IF works THEN <<n>> ELSE <<>>)
    BY <1>1, <2>6, <2>7, <2>8, Zenon
  <2>10. QED
    BY <2>4, <2>5, <2>9, Zenon
<1>6. QED
  BY <1>4, <1>5

(* While a thread works on a scop, what is open in each library is that    *)
(* scop's mark and, in main's thread, main's region; outside of the        *)
(* runtime only main's region is. So it is whichever passes have run, by   *)
(* whatever returns functions are left, and while other threads exit.      *)
THEOREM MarksFollow == Spec => []MarkersFollowCalls
<1>1. TracingInv => MarkersFollowCalls
  BY FollowFromInv
<1>2. QED
  BY <1>1, TracingInvariant, PTL

(* LIKWID is asked to measure only while it is initialised, and workers    *)
(* and main's thread are announced to it before they are measured.         *)
THEOREM LikwidIsReady == Spec => []LikwidReady
<1>1. TracingInv => LikwidReady
  <2> SUFFICES ASSUME TracingInv, NEW t \in Threads, NEW i \in DOMAIN marks[t]
               PROVE  /\ marks[t][i].lib = "off" => env.papi
                      /\ marks[t][i].lib = "closed" => t # exiter
                      /\ t \in Teams \/ (t = Main /\ ~env.papi) => marks[t][i].known
    BY DEF LikwidReady
  <2>1. PICK evs \in Seq(MarkRecords) : evs = marks[t]
    BY DEF TracingInv, TypesOk
  <2>2. Len(evs) \in Nat /\ DOMAIN evs = 1..Len(evs)
    OBVIOUS
  <2>3. evs[i] \in MarkRecords
    BY <2>1, <2>2, ElementOfSeq
  <2>4. marks[t][i].lib # "closed"
    BY <2>1, <2>3 DEF MarkRecords
  <2>5. QED
    BY <2>4 DEF TracingInv, TypesOk
<1>2. QED
  BY <1>1, TracingInvariant, PTL
(* The types of the variables.                                             *)
LEMMA TypesFromInv == TracingInv => TypeOK
<1> SUFFICES ASSUME TracingInv PROVE TypeOK
  OBVIOUS
<1>1. TypesOk /\ ExitOk
  BY DEF TracingInv
<1>2. ASSUME NEW t \in Threads, NEW i \in DOMAIN stack[t]
      PROVE  /\ stack[t][i].mod \in DOMAIN Modules \cup {"runtime"}
             /\ stack[t][i].mod # "runtime" => stack[t][i].fn \in DOMAIN Modules[stack[t][i].mod]
  <2>1. ASSUME NEW fr, NEW ops, FrameOk(fr, ops)
        PROVE  /\ fr.mod \in DOMAIN Modules \cup {"runtime"}
               /\ fr.mod # "runtime" => fr.fn \in DOMAIN Modules[fr.mod]
    BY <2>1 DEF FrameOk, OfFunction, OfRuntime
  <2>2. CASE t # exiter
    <3>1. PICK s : s = stack[t]
      OBVIOUS
    <3>2. StackOk(t, s)
      BY <2>2, <3>1 DEF TracingInv, ThreadOk
    <3>3. CASE s = <<>>
      BY <1>2, <3>1, <3>3
    <3>4. ASSUME NEW fr, s = <<fr>>, FrameOk(fr, OuterOps(t))
          PROVE  \E ops : FrameOk(s[i], ops)
      BY <1>2, <3>1, <3>4
    <3>5. ASSUME NEW low, NEW fr, s = <<low, fr>>, FrameOk(low, OuterOps(t)), FrameOk(fr, InnerOps(t))
          PROVE  \E ops : FrameOk(s[i], ops)
      <4>1. i = 1 \/ i = 2
        BY <1>2, <3>1, <3>5
      <4>2. s[1] = low /\ s[2] = fr
        BY <3>5
      <4>3. QED
        BY <3>5, <4>1, <4>2
    <3>6. s = <<>> \/ \E ops : FrameOk(s[i], ops)
      BY <3>2, <3>4, <3>5 DEF StackOk
    <3>7. QED
      BY <2>1, <3>1, <3>3, <3>6
  <2>3. CASE t = exiter
    <3>1. exiter # None
      BY <2>3, Assumptions
    <3>2. PICK n \in 1..7 : ExitAt(n)
      BY <1>1, <3>1 DEF ExitOk
    <3>3. Exits(n)
      BY <3>2 DEF ExitAt
    <3>4. n = 1 \/ n = 2 \/ n = 3 \/ n = 4 \/ n = 5 \/ n = 6 \/ n = 7
      BY <3>2
    <3>5. stack[exiter] = <<>> \/ \E name, code : Doing(name, code)
      <4>1. CASE n = 1 \/ n = 5 \/ n = 7
        BY <3>3, <4>1 DEF Exits
      <4>2. CASE n = 2
        BY <3>3, <4>2 DEF Exits
      <4>3. CASE n = 3
        BY <3>3, <4>3 DEF Exits
      <4>4. CASE n = 4
        BY <3>3, <4>4 DEF Exits
      <4>5. CASE n = 6
        BY <3>3, <4>5 DEF Exits
      <4>6. QED
        BY <3>4, <4>1, <4>2, <4>3, <4>4, <4>5
    <3>6. ASSUME NEW name, NEW code, Doing(name, code)
          PROVE  stack[t][i].mod = "runtime"
      <4>1. PICK fr : fr = RuntimeFrame(name, code)
        OBVIOUS
      <4>2. fr.mod = "runtime"
        BY <4>1 DEF RuntimeFrame, Frame
      <4>3. stack[t] = <<fr>>
        BY <2>3, <3>6, <4>1 DEF Doing
      <4>4. QED
        BY <1>2, <4>2, <4>3
    <3>7. QED
      BY <1>2, <2>3, <3>5, <3>6
  <2>4. QED
    BY <2>2, <2>3
<1>3. /\ atexits \in Seq({"do_shutdown", "papi_atexit_handler", "~PolyJIT"})
      /\ exiter \in Apps \cup {None} /\ likwid \in {"off", "on", "closed"}
      /\ fault => exiter \notin {Main, None}
  <2>1. PICK T : T = {"do_shutdown", "papi_atexit_handler", "~PolyJIT"}
    OBVIOUS
  <2>2. /\ OfTracer \in Seq(T) /\ <<"do_shutdown">> \in Seq(T)
        /\ <<"do_shutdown", "~PolyJIT">> \in Seq(T) /\ <<>> \in Seq(T)
    <3>1. PICK a, b, c : a = "do_shutdown" /\ b = "papi_atexit_handler" /\ c = "~PolyJIT"
      OBVIOUS
    <3>2. a \in T /\ b \in T /\ c \in T
      BY <2>1, <3>1
    <3>3. <<a>> \in Seq(T) /\ <<b>> \in Seq(T) /\ <<a, c>> \in Seq(T) /\ <<>> \in Seq(T)
      BY <3>2
    <3>4. OfTracer = <<b>> \/ OfTracer = <<>>
      BY <3>1, Zenon DEF OfTracer
    <3>5. OfTracer \in Seq(T)
      BY <3>3, <3>4, Zenon
    <3>6. QED
      BY <3>1, <3>3, <3>5, Zenon
  <2>3. PICK o : o = OfTracer
    OBVIOUS
  <2>4. o \o <<"do_shutdown">> \in Seq(T) /\ o \o <<"do_shutdown", "~PolyJIT">> \in Seq(T)
    BY <2>2, <2>3
  <2>5. Planted(OfTracer) \in Seq(T) /\ OfTracer \o <<"do_shutdown">> \in Seq(T)
    BY <2>3, <2>4 DEF Planted
  <2>6. CASE exiter = None
    <3>1. atexits = Planted(OfTracer) /\ ~fault /\ likwid = IF env.papi THEN "off" ELSE "on"
      BY <1>1, <2>6 DEF ExitOk
    <3>2. QED
      BY <2>1, <2>5, <2>6, <3>1
  <2>7. CASE exiter # None
    <3>1. PICK n \in 1..7 : ExitAt(n)
      BY <1>1, <2>7 DEF ExitOk
    <3>2. /\ exiter \in Apps /\ Exits(n) /\ (fault => exiter # Main)
          /\ likwid = IF env.papi THEN "off" ELSE IF n = 5 THEN "closed" ELSE "on"
      BY <3>1 DEF ExitAt
    <3>3. n = 1 \/ n = 2 \/ n = 3 \/ n = 4 \/ n = 5 \/ n = 6 \/ n = 7
      BY <3>1
    <3>4. atexits \in {Planted(OfTracer), OfTracer \o <<"do_shutdown">>, OfTracer, <<>>}
      <4>1. CASE n = 1
        BY <3>2, <4>1 DEF Exits
      <4>2. CASE n = 2
        BY <3>2, <4>2 DEF Exits
      <4>3. CASE n = 3 \/ n = 4 \/ n = 5
        BY <3>2, <4>3 DEF Exits
      <4>4. CASE n = 6 \/ n = 7
        BY <3>2, <4>4 DEF Exits
      <4>5. QED
        BY <3>3, <4>1, <4>2, <4>3, <4>4
    <3>5. atexits \in Seq(T)
      BY <2>2, <2>5, <3>4, Zenon
    <3>6. QED
      BY <2>1, <2>7, <3>2, <3>5
  <2>8. QED
    BY <2>6, <2>7
<1>4. ASSUME NEW t \in Threads, NEW i \in DOMAIN events[t]
      PROVE  events[t][i] \in [id : Int, type : EventTypes, at : Nat]
  <2>1. PICK evs \in Seq(EventRecords) : evs = events[t]
    BY <1>1 DEF TypesOk
  <2>2. Len(evs) \in Nat /\ DOMAIN evs = 1..Len(evs)
    OBVIOUS
  <2>3. evs[i] \in EventRecords
    BY <1>4, <2>1, <2>2, ElementOfSeq
  <2>4. QED
    BY <2>1, <2>3 DEF EventRecords
<1>5. ASSUME NEW t \in Threads, NEW i \in DOMAIN marks[t]
      PROVE  marks[t][i] \in [id : Functions \cup RegionNames, type : EventTypes, at : Nat,
                              lib : {"off", "on", "closed"}, known : BOOLEAN]
  <2>1. PICK evs \in Seq(MarkRecords) : evs = marks[t]
    BY <1>1 DEF TypesOk
  <2>2. Len(evs) \in Nat /\ DOMAIN evs = 1..Len(evs)
    OBVIOUS
  <2>3. evs[i] \in MarkRecords
    BY <1>5, <2>1, <2>2, ElementOfSeq
  <2>4. QED
    BY <2>1, <2>3 DEF MarkRecords
<1>6. QED
  BY <1>1, <1>2, <1>3, <1>4, <1>5 DEF TypesOk, TypeOK

(* All variables keep their types: frames are of functions that exist, or  *)
(* of the runtime, whoever has recorded an event has begun with an enter,  *)
(* and only a process that exits by another thread than main's can fault.  *)
THEOREM TypeCorrect == Spec => []TypeOK
<1>1. TracingInv => TypeOK
  BY TypesFromInv
<1>2. QED
  BY <1>1, TracingInvariant, PTL

(* The exit of an enter is the only one that fits.                         *)
LEMMA OnlyExit ==
  ASSUME NEW R, NEW evs \in Seq(R), NEW i \in 1..Len(evs), NEW j \in i..Len(evs),
         evs[i].type = "RegionEnter", evs[j].type = "RegionExit", evs[j].id = evs[i].id,
         \A k \in i..Len(evs) : evs[k].type = "RegionExit" /\ evs[k].id = evs[i].id => k = j
  PROVE  MatchingExit(evs, i) = j
<1> DEFINE exits == {k \in i..Len(evs) :
                       evs[k].id = evs[i].id /\ evs[k].type = ExitOf[evs[i].type]}
<1>1. ExitOf["RegionEnter"] = "RegionExit"
  BY DEF ExitOf
<1>2. exits = {j}
  BY <1>1
<1>3. exits \in SUBSET Nat /\ exits # {}
  BY <1>2
<1>4. MatchingExit(evs, i) = IF exits = {} THEN i ELSE Min(exits)
  BY DEF MatchingExit
<1> HIDE DEF exits
<1>5. Min(exits) \in exits
  BY <1>3, MinOfNats
<1>6. QED
  BY <1>2, <1>3, <1>4, <1>5

(* A log that has ended with an exit.                                      *)
LEMMA LeftIs ==
  ASSUME NEW R, NEW evs \in Seq(R), NEW id, NEW before \in Seq(R), Left(evs, id, before)
  PROVE  /\ Len(before) \in Nat /\ Len(evs) = Len(before) + 1
         /\ evs[Len(evs)].id = id /\ evs[Len(evs)].type = "RegionExit"
         /\ \A i \in 1..Len(before) : evs[i] = before[i]
<1>1. PICK e : e = Last(evs)
  OBVIOUS
<1>2. evs = Append(before, e) /\ e.id = id /\ e.type = "RegionExit"
  BY <1>1 DEF Left
<1>3. PICK T : T = R \cup {e}
  OBVIOUS
<1>4. before \in Seq(T) /\ e \in T
  BY <1>3
<1>5. PICK more : more = Append(before, e)
  OBVIOUS
<1>6. /\ Len(more) = Len(before) + 1 /\ Len(before) \in Nat /\ DOMAIN before = 1..Len(before)
      /\ \A i \in DOMAIN before : more[i] = before[i]
      /\ more[Len(before) + 1] = e
  BY <1>4, <1>5, AppendIs
<1>7. more = evs
  BY <1>2, <1>5
<1>8. QED
  BY <1>2, <1>6, <1>7
(* When all is over for main's thread, its log has been left and, with     *)
(* libpprof, is what has been stored.                                      *)
LEMMA OverIs ==
  ASSUME TracingInv, Over, exiter = Main
  PROVE  /\ env.papi => /\ stored = <<MainLog>>
                        /\ \E before \in Logs : Left(MainLog, Total, before) /\ MainLeft(before)
         /\ ~env.papi => MainLeft(MainLog) /\ Last(marks[Main]).lib = "on"
<1>1. stack[exiter] = <<>> /\ atexits = <<>> /\ exiter # None
  BY DEF Over
<1>2. PICK n \in 1..7 : ExitAt(n)
  BY <1>1 DEF TracingInv, ExitOk
<1>3. Exits(n) /\ (n = 1 \/ n = 2 \/ n = 3 \/ n = 4 \/ n = 5 \/ n = 6 \/ n = 7)
  BY <1>2 DEF ExitAt
<1>4. \A name, code : ~Doing(name, code)
  <2>1. \A f : stack[exiter] # <<f>>
    BY <1>1
  <2>2. QED
    BY <2>1 DEF Doing
<1>5. Planted(OfTracer) # <<>> /\ OfTracer \o <<"do_shutdown">> # <<>>
  <2>1. PICK a, b, c : a = "papi_atexit_handler" /\ b = "do_shutdown" /\ c = "~PolyJIT"
    OBVIOUS
  <2>2. <<a>> \o <<b, c>> = <<a, b, c>> /\ <<>> \o <<b, c>> = <<b, c>>
    BY OneAndTwo
  <2>3. <<a>> \o <<b>> = <<a, b>> /\ <<>> \o <<b>> = <<b>>
    BY OneAndOne
  <2>4. <<a, b, c>> # <<>> /\ <<b, c>> # <<>> /\ <<a, b>> # <<>> /\ <<b>> # <<>>
    OBVIOUS
  <2>5. OfTracer = <<a>> \/ OfTracer = <<>>
    BY <2>1, Zenon DEF OfTracer
  <2>6. OfTracer \o <<b, c>> # <<>> /\ OfTracer \o <<b>> # <<>>
    BY <2>2, <2>3, <2>4, <2>5, Zenon
  <2>7. QED
    BY <2>1, <2>6, Zenon DEF Planted
<1>6. (n = 5 /\ ~env.papi) \/ (n = 7 /\ env.papi)
  <2>1. ASSUME n = 1 PROVE FALSE
    <3>1. atexits = Planted(OfTracer)
      BY <1>3, <2>1 DEF Exits
    <3>2. QED
      BY <1>1, <1>5, <3>1
  <2>2. ASSUME n = 2 PROVE FALSE
    <3>1. atexits = OfTracer \o <<"do_shutdown">>
      BY <1>3, <2>2 DEF Exits
    <3>2. QED
      BY <1>1, <1>5, <3>1
  <2>3. n # 3 /\ n # 4 /\ n # 6
    <3>1. ASSUME n = 3 PROVE FALSE
      BY <1>3, <1>4, <3>1 DEF Exits
    <3>2. ASSUME n = 4 PROVE FALSE
      BY <1>3, <1>4, <3>2 DEF Exits
    <3>3. ASSUME n = 6 PROVE FALSE
      BY <1>3, <1>4, <3>3 DEF Exits
    <3>4. QED
      BY <3>1, <3>2, <3>3
  <2>4. CASE n = 5
    <3>1. OfTracer = <<>>
      BY <1>1, <1>3, <2>4 DEF Exits
    <3>2. PICK a : a = "papi_atexit_handler"
      OBVIOUS
    <3>3. <<a>> # <<>>
      OBVIOUS
    <3>4. ~env.papi
      BY <3>1, <3>2, <3>3 DEF OfTracer
    <3>5. QED
      BY <2>4, <3>4
  <2>5. CASE n = 7
    BY <1>3, <2>5 DEF Exits
  <2>6. QED
    BY <1>3, <2>1, <2>2, <2>3, <2>4, <2>5
<1>7. CASE n = 5 /\ ~env.papi
  BY <1>2, <1>7 DEF ExitAt
<1>8. CASE n = 7 /\ env.papi
  BY <1>2, <1>8 DEF ExitAt
<1>9. QED
  BY <1>6, <1>7, <1>8

(* Main's region ends, and encloses the log of main's thread.              *)
LEMMA MainFromInv == TracingInv => MainRegionMeasured
<1> SUFFICES ASSUME TracingInv, Over, exiter = Main
             PROVE  /\ env.papi =>
                         /\ stored = <<events[Main]>>
                         /\ MatchingExit(events[Main], 1) = Len(events[Main])
                         /\ MatchingExit(events[Main], 2) = Len(events[Main]) - 1
                    /\ env.likwid /\ ~env.papi =>
                         /\ MatchingExit(marks[Main], 1) = Len(marks[Main])
                         /\ Last(marks[Main]).lib = "on"
  BY DEF MainRegionMeasured
<1>1. PICK R : R = EventRecords \cup MarkRecords
  OBVIOUS
<1>2. PICK evs : evs = MainLog
  OBVIOUS
<1>3. evs \in Seq(R)
  <2>1. evs \in Seq(EventRecords) \/ evs \in Seq(MarkRecords)
    BY <1>2, Assumptions DEF TracingInv, TypesOk, MainLog, Threads
  <2>2. QED
    BY <1>1, <2>1, LogsAre DEF Logs
<1>4. CASE env.papi
  <2>1. MainLog = events[Main] /\ MainRegion = -1 /\ Total = 0
    BY <1>4 DEF MainLog, MainRegion, PJIT_REGION_MAIN, Total
  <2>2. stored = <<events[Main]>>
    BY <1>4, <2>1, OverIs
  <2>3. PICK b1 \in Seq(R) : Left(evs, Total, b1) /\ MainLeft(b1)
    BY <1>1, <1>2, <1>4, OverIs DEF Logs
  <2>4. PICK b0 \in Seq(R) : Left(b1, MainRegion, b0) /\ MainEntered(b0)
    BY <1>1, <2>3 DEF MainLeft, Logs
  <2>5. PICK N \in Nat : N = Len(b0)
    OBVIOUS
  <2>6. /\ Len(b1) = N + 1 /\ b1[Len(b1)].id = MainRegion /\ b1[Len(b1)].type = "RegionExit"
        /\ \A i \in 1..N : b1[i] = b0[i]
    BY <2>4, <2>5, LeftIs
  <2>7. /\ Len(evs) = Len(b1) + 1 /\ evs[Len(evs)].id = Total /\ evs[Len(evs)].type = "RegionExit"
        /\ \A i \in 1..Len(b1) : evs[i] = b1[i]
    BY <1>3, <2>3, LeftIs
  <2>8. /\ N >= 2 /\ b0[1].type = "RegionEnter" /\ b0[1].id = 0
        /\ b0[2].type = "RegionEnter" /\ b0[2].id = -1
        /\ \A i \in 1..N : b0[i].type = "RegionExit" => b0[i].id < -1
    <3>1. DOMAIN b0 = 1..N
      BY <2>5
    <3>2. /\ N >= 2 /\ b0[1].type = "RegionEnter" /\ b0[1].id = 0
          /\ b0[2].type = "RegionEnter" /\ b0[2].id = -1
          /\ \A i \in 1..N : b0[i].type = "RegionExit" => b0[i].id \in Regions
      BY <1>4, <2>1, <2>4, <2>5, <3>1 DEF MainEntered, PJIT_REGION_MAIN
    <3>3. \A r \in Regions : r < -1
      BY DEF Regions, PJIT_REGION_CODEGEN, PJIT_REGION_GET_PROTOTYPE, PJIT_REGION_SELECT_PARAMS
    <3>4. QED
      BY <3>2, <3>3
  <2>9. /\ Len(evs) = N + 2 /\ evs[N + 2].id = 0 /\ evs[N + 2].type = "RegionExit"
        /\ evs[N + 1].id = -1 /\ evs[N + 1].type = "RegionExit"
        /\ \A i \in 1..N : evs[i] = b0[i]
    <3>1. Len(evs) = N + 2 /\ N + 1 \in 1..Len(b1) /\ Len(b1) = N + 1
      BY <2>6, <2>7
    <3>2. evs[N + 1] = b1[N + 1]
      BY <2>7, <3>1
    <3>3. \A i \in 1..N : i \in 1..Len(b1)
      BY <3>1
    <3>4. \A i \in 1..N : evs[i] = b0[i]
      BY <2>6, <2>7, <3>3
    <3>5. QED
      BY <2>1, <2>6, <2>7, <3>1, <3>2, <3>4
  <2>10. \A k \in 1..Len(evs) : k \in 1..N \/ k = N + 1 \/ k = N + 2
    BY <2>9
  <2>11. \A k \in 1..Len(evs) : evs[k].type = "RegionExit" =>
           /\ evs[k].id = 0 => k = N + 2
           /\ evs[k].id = -1 => k = N + 1
    <3> TAKE k \in 1..Len(evs)
    <3>1. CASE k \in 1..N
      BY <2>8, <2>9, <3>1
    <3>2. CASE k = N + 1
      BY <2>9, <3>2
    <3>3. CASE k = N + 2
      BY <2>9, <3>3
    <3>4. QED
      BY <2>10, <3>1, <3>2, <3>3
  <2>12. PICK i \in 1..Len(evs) : i = 1
    BY <2>9
  <2>13. PICK j \in 1..Len(evs) : j = 2
    BY <2>8, <2>9
  <2>14. PICK x \in i..Len(evs) : x = N + 2
    BY <2>9, <2>12
  <2>15. PICK y \in j..Len(evs) : y = N + 1
    BY <2>8, <2>9, <2>13
  <2>16. /\ evs[i].type = "RegionEnter" /\ evs[i].id = 0
         /\ evs[j].type = "RegionEnter" /\ evs[j].id = -1
    BY <2>8, <2>9, <2>12, <2>13
  <2>17. /\ evs[x].type = "RegionExit" /\ evs[x].id = 0
         /\ evs[y].type = "RegionExit" /\ evs[y].id = -1
    BY <2>9, <2>14, <2>15
  <2>18. \A k \in i..Len(evs) : k \in 1..Len(evs)
    BY <2>12
  <2>19. \A k \in j..Len(evs) : k \in 1..Len(evs)
    BY <2>13
  <2>20. MatchingExit(evs, i) = x
    <3>1. \A k \in i..Len(evs) : evs[k].type = "RegionExit" /\ evs[k].id = evs[i].id => k = x
      BY <2>11, <2>14, <2>16, <2>18
    <3>2. QED
      BY <1>3, <2>16, <2>17, <3>1, OnlyExit
  <2>21. MatchingExit(evs, j) = y
    <3>1. \A k \in j..Len(evs) : evs[k].type = "RegionExit" /\ evs[k].id = evs[j].id => k = y
      BY <2>11, <2>15, <2>16, <2>19
    <3>2. QED
      BY <1>3, <2>16, <2>17, <3>1, OnlyExit
  <2>22. x = Len(evs) /\ y = Len(evs) - 1
    BY <2>9, <2>14, <2>15
  <2>23. evs = events[Main]
    BY <1>2, <2>1
  <2>24. QED
    BY <1>4, <2>2, <2>12, <2>13, <2>20, <2>21, <2>22, <2>23
<1>5. CASE ~env.papi
  <2>1. MainLog = marks[Main] /\ MainRegion = "polyjit.main"
    BY <1>5 DEF MainLog, MainRegion
  <2>2. MainLeft(evs) /\ Last(marks[Main]).lib = "on"
    BY <1>2, <1>5, OverIs
  <2>3. PICK b0 \in Seq(R) : Left(evs, MainRegion, b0) /\ MainEntered(b0)
    BY <1>1, <2>2 DEF MainLeft, Logs
  <2>4. PICK N \in Nat : N = Len(b0)
    OBVIOUS
  <2>5. /\ Len(evs) = N + 1 /\ evs[Len(evs)].id = MainRegion /\ evs[Len(evs)].type = "RegionExit"
        /\ \A i \in 1..N : evs[i] = b0[i]
    BY <1>3, <2>3, <2>4, LeftIs
  <2>6. /\ b0 # <<>> /\ b0[1].type = "RegionEnter" /\ b0[1].id = "polyjit.main"
        /\ \A i \in 1..N : b0[i].type = "RegionExit" => b0[i].id # "polyjit.main"
    BY <1>5, <2>3, <2>4 DEF MainEntered
  <2>7. N >= 1
    BY <2>4, <2>6
  <2>8. PICK i \in 1..Len(evs) : i = 1
    BY <2>5
  <2>9. PICK x \in i..Len(evs) : x = N + 1
    BY <2>5, <2>8
  <2>10. evs[i].type = "RegionEnter" /\ evs[i].id = "polyjit.main"
    BY <2>5, <2>6, <2>7, <2>8
  <2>11. evs[x].type = "RegionExit" /\ evs[x].id = "polyjit.main"
    BY <2>1, <2>5, <2>9
  <2>12. \A k \in i..Len(evs) : k \in 1..N \/ k = x
    BY <2>5, <2>8, <2>9
  <2>13. \A k \in i..Len(evs) : evs[k].type = "RegionExit" /\ evs[k].id = evs[i].id => k = x
    BY <2>5, <2>6, <2>10, <2>12
  <2>14. evs[x].id = evs[i].id
    BY <2>10, <2>11
  <2>15. MatchingExit(evs, i) = x
    BY <1>3, <2>10, <2>11, <2>13, <2>14, OnlyExit
  <2>16. x = Len(evs) /\ evs = marks[Main]
    BY <1>2, <2>1, <2>5, <2>9
  <2>17. QED
    BY <1>5, <2>2, <2>8, <2>15, <2>16
<1>6. QED
  BY <1>4, <1>5

(* When main's thread has exited, its region has ended before its events   *)
(* were stored, and encloses all the thread has recorded.                  *)
THEOREM MainIsMeasured == Spec => []MainRegionMeasured
<1>1. TracingInv => MainRegionMeasured
  BY MainFromInv
<1>2. QED
  BY <1>1, TracingInvariant, PTL

-----------------------------------------------------------------------------
(* A thread's log, its enters and their exits. How many more enters than   *)
(* exits there are from i to j, and what the analysis takes for the exit   *)
(* of an enter.                                                            *)
Entered(evs, i, j) == {k \in i..j : IsEnter(evs[k])}
Excess(evs, i, j) == Cardinality(Entered(evs, i, j)) * 2 - (j - i + 1)
Leaves(e, x) == x.id = e.id /\ x.type = ExitOf[e.type]

(* An enter whose exit has not come, and one that has met its own before   *)
(* any other that looks like it.                                           *)
StaysOpen(evs, i) == \A k \in i..Len(evs) : Excess(evs, i, k) > 0 /\ ~Leaves(evs[i], evs[k])
MeetsAt(evs, i, j) ==
  /\ j \in i..Len(evs) /\ Excess(evs, i, j) = 0 /\ Leaves(evs[i], evs[j])
  /\ \A k \in i..(j - 1) : Excess(evs, i, k) > 0 /\ ~Leaves(evs[i], evs[k])
Met(evs, i) == \E j \in i..Len(evs) : MeetsAt(evs, i, j)

(* The enters that are open are those at o, all others have met their own  *)
(* exits.                                                                  *)
Nested(evs, o) ==
  /\ o \in Seq(1..Len(evs))
  /\ \A k, l \in DOMAIN o : k < l => o[k] < o[l]
  /\ \A k \in DOMAIN o : /\ IsEnter(evs[o[k]]) /\ StaysOpen(evs, o[k])
                         /\ Excess(evs, o[k], Len(evs)) = Len(o) - k + 1
  /\ \A i \in 1..Len(evs) : IsEnter(evs[i]) => Met(evs, i) \/ \E k \in DOMAIN o : o[k] = i
NamesOf(evs, o) == [k \in DOMAIN o |-> evs[o[k]].id]

(* An event more is an enter more, or an exit more.                        *)
LEMMA ExcessAppend ==
  ASSUME NEW R, NEW evs \in Seq(R), NEW e \in R, NEW i \in 1..(Len(evs) + 1), NEW more, more = Append(evs, e)
  PROVE  /\ \A k \in i..Len(evs) : Excess(more, i, k) = Excess(evs, i, k) /\ more[k] = evs[k]
         /\ Excess(more, i, Len(evs) + 1) = Excess(evs, i, Len(evs)) + (IF IsEnter(e) THEN 1 ELSE -1)
         /\ i = Len(evs) + 1 => Excess(evs, i, Len(evs)) = 0
         /\ \A k \in (i - 1)..Len(evs) : Excess(evs, i, k) \in Int
<1>1. PICK L, n : L = Len(evs) /\ n = Len(evs) + 1
  OBVIOUS
<1>2. /\ L \in Nat /\ n = L + 1 /\ DOMAIN evs = 1..L /\ \A k \in 1..L : more[k] = evs[k]
      /\ more[n] = e
  BY <1>1, AppendIs
<1>3. i \in 1..n
  BY <1>1
<1>4. ASSUME NEW k \in (i - 1)..L
      PROVE  /\ IsFiniteSet(Entered(evs, i, k)) /\ Cardinality(Entered(evs, i, k)) \in Nat
             /\ Entered(more, i, k) = Entered(evs, i, k)
  <2>1. i \in Int /\ k \in Int /\ \A x \in i..k : x \in 1..L
    BY <1>2, <1>3
  <2>2. IsFiniteSet(i..k)
    BY <2>1, FS_Interval
  <2>3. Entered(evs, i, k) \subseteq i..k
    BY DEF Entered
  <2>4. Entered(more, i, k) = Entered(evs, i, k)
    BY <1>2, <2>1 DEF Entered
  <2>5. QED
    BY <2>2, <2>3, <2>4, FS_Subset, FS_CardinalityType
<1>5. \A k \in i..L : Excess(more, i, k) = Excess(evs, i, k) /\ more[k] = evs[k]
  <2>1. \A k \in i..L : k \in (i - 1)..L /\ k \in 1..L
    BY <1>2, <1>3
  <2>2. QED
    BY <1>2, <1>4, <2>1 DEF Excess
<1>6. \A k \in (i - 1)..L : Excess(evs, i, k) \in Int
  <2>1. TAKE k \in (i - 1)..L
  <2>2. PICK c \in Nat : c = Cardinality(Entered(evs, i, k))
    BY <1>4
  <2>3. i \in Int /\ k \in Int
    BY <1>2, <1>3
  <2>4. Excess(evs, i, k) = c * 2 - (k - i + 1)
    BY <2>2 DEF Excess
  <2>5. QED
    BY <2>3, <2>4
<1>7. PICK S : S = Entered(evs, i, L)
  OBVIOUS
<1>8. L \in (i - 1)..L /\ n \notin S /\ IsFiniteSet(S) /\ Cardinality(S) \in Nat
  <2>1. L \in (i - 1)..L /\ n \notin i..L
    BY <1>2, <1>3
  <2>2. QED
    BY <1>4, <1>7, <2>1 DEF Entered
<1>9. Entered(more, i, n) = IF IsEnter(e) THEN S \cup {n} ELSE S
  <2>1. \A k \in i..n : k = n \/ k \in i..L
    BY <1>2, <1>3
  <2>2. n \in i..n /\ \A k \in i..L : k \in i..n /\ k # n /\ more[k] = evs[k]
    BY <1>2, <1>3
  <2>3. QED
    BY <1>2, <1>7, <2>1, <2>2 DEF Entered
<1>10. Cardinality(Entered(more, i, n)) = Cardinality(S) + (IF IsEnter(e) THEN 1 ELSE 0)
  <2>1. Cardinality(S \cup {n}) = Cardinality(S) + 1
    BY <1>8, FS_AddElement
  <2>2. QED
    BY <1>8, <1>9, <2>1
<1>11. Excess(more, i, n) = Excess(evs, i, L) + (IF IsEnter(e) THEN 1 ELSE -1)
  <2>1. PICK c \in Nat : c = Cardinality(S)
    BY <1>8
  <2>2. PICK d : d = IF IsEnter(e) THEN 1 ELSE 0
    OBVIOUS
  <2>3. /\ Excess(more, i, n) = (c + d) * 2 - (n - i + 1)
        /\ Excess(evs, i, L) = c * 2 - (L - i + 1)
    BY <1>7, <1>10, <2>1, <2>2 DEF Excess
  <2>4. QED
    BY <1>2, <1>3, <2>1, <2>2, <2>3
<1>12. i = n => Excess(evs, i, L) = 0
  <2>1. SUFFICES ASSUME i = n PROVE Excess(evs, i, L) = 0
    OBVIOUS
  <2>2. i..L = {}
    BY <1>2, <2>1
  <2>3. Cardinality(Entered(evs, i, L)) = 0
    BY <2>2, FS_EmptySet DEF Entered
  <2>4. QED
    BY <1>2, <2>1, <2>3 DEF Excess
<1>13. QED
  BY <1>1, <1>5, <1>6, <1>11, <1>12

(* An enter and its own exit are not parted by what comes later.           *)
LEMMA MetStays ==
  ASSUME NEW R, NEW evs \in Seq(R), NEW e \in R, NEW i \in 1..Len(evs), NEW more, more = Append(evs, e),
         Met(evs, i)
  PROVE  Met(more, i)
<1>1. PICK j \in i..Len(evs) : MeetsAt(evs, i, j)
  BY DEF Met
<1>2. Len(evs) \in Nat /\ Len(more) = Len(evs) + 1 /\ i \in 1..(Len(evs) + 1)
  BY AppendIs
<1>3. \A k \in i..Len(evs) : Excess(more, i, k) = Excess(evs, i, k) /\ more[k] = evs[k]
  BY <1>2, ExcessAppend
<1>4. i \in i..Len(evs) /\ j \in i..Len(more) /\ \A k \in i..(j - 1) : k \in i..Len(evs)
  BY <1>1, <1>2
<1>5. MeetsAt(more, i, j)
  BY <1>1, <1>3, <1>4 DEF MeetsAt
<1>6. QED
  BY <1>4, <1>5 DEF Met

(* An enter stays open when something else comes.                          *)
LEMMA OpenStays ==
  ASSUME NEW R, NEW evs \in Seq(R), NEW e \in R, NEW i \in 1..Len(evs), NEW more, more = Append(evs, e),
         StaysOpen(evs, i), ~Leaves(evs[i], e), Excess(more, i, Len(evs) + 1) > 0
  PROVE  StaysOpen(more, i)
<1>1. Len(evs) \in Nat /\ Len(more) = Len(evs) + 1 /\ i \in 1..(Len(evs) + 1) /\ more[Len(evs) + 1] = e
  BY AppendIs
<1>2. \A k \in i..Len(evs) : Excess(more, i, k) = Excess(evs, i, k) /\ more[k] = evs[k]
  BY <1>1, ExcessAppend
<1>3. i \in i..Len(evs) /\ more[i] = evs[i]
  BY <1>1, <1>2
<1>4. \A k \in i..Len(more) : k = Len(evs) + 1 \/ k \in i..Len(evs)
  BY <1>1
<1>5. QED
  BY <1>1, <1>2, <1>3, <1>4 DEF StaysOpen

(* An enter is not its own exit, nor that of another one.                  *)
LEMMA EntersDoNotLeave ==
  ASSUME NEW e, NEW x, IsEnter(e), IsEnter(x)
  PROVE  ~Leaves(e, x)
<1>1. /\ Enters = {"ScopEnter", "RegionEnter"}
      /\ ExitOf["ScopEnter"] = "ScopExit" /\ ExitOf["RegionEnter"] = "RegionExit"
  BY DEF Enters, ExitOf
<1>2. QED
  BY <1>1 DEF Leaves, IsEnter

(* An enter more is open.                                                  *)
LEMMA NestedEnter ==
  ASSUME NEW R, NEW evs \in Seq(R), NEW o, Nested(evs, o), NEW e \in R, IsEnter(e)
  PROVE  /\ Nested(Append(evs, e), Append(o, Len(evs) + 1))
         /\ NamesOf(Append(evs, e), Append(o, Len(evs) + 1)) = Append(NamesOf(evs, o), e.id)
<1>1. PICK more, L, n, q, m : /\ more = Append(evs, e) /\ L = Len(evs) /\ n = Len(evs) + 1
                              /\ q = Append(o, n) /\ m = Len(o)
  OBVIOUS
<1>2. /\ L \in Nat /\ n = L + 1 /\ Len(more) = n /\ more[n] = e /\ \A k \in 1..L : more[k] = evs[k]
  BY <1>1, AppendIs
<1>3. /\ o \in Seq(1..L) /\ m \in Nat /\ DOMAIN o = 1..m
      /\ \A k \in 1..m : o[k] \in 1..L
  <2>1. o \in Seq(1..L)
    BY <1>1 DEF Nested
  <2>2. QED
    BY <1>1, <2>1
<1>4. /\ q \in Seq(1..n) /\ Len(q) = m + 1 /\ DOMAIN q = 1..(m + 1) /\ q[m + 1] = n
      /\ \A k \in 1..m : q[k] = o[k]
  <2>1. o \in Seq(1..n) /\ n \in 1..n
    BY <1>2, <1>3
  <2>2. QED
    BY <1>1, <1>3, <2>1
<1>5. /\ \A k, l \in 1..m : k < l => o[k] < o[l]
      /\ \A k \in 1..m : IsEnter(evs[o[k]]) /\ StaysOpen(evs, o[k]) /\ Excess(evs, o[k], L) = m - k + 1
      /\ \A i \in 1..L : IsEnter(evs[i]) => Met(evs, i) \/ \E k \in 1..m : o[k] = i
  BY <1>1, <1>3 DEF Nested
<1>6. \A k, l \in 1..(m + 1) : k < l => q[k] < q[l]
  <2>1. TAKE k, l \in 1..(m + 1)
  <2>2. SUFFICES ASSUME k < l PROVE q[k] < q[l]
    OBVIOUS
  <2>3. k \in 1..m /\ q[k] = o[k] /\ o[k] \in 1..L
    BY <1>3, <1>4, <2>2
  <2>4. CASE l = m + 1
    BY <1>2, <1>4, <2>3, <2>4
  <2>5. CASE l # m + 1
    <3>1. l \in 1..m
      BY <1>3, <2>5
    <3>2. QED
      BY <1>4, <1>5, <2>2, <2>3, <3>1
  <2>6. QED
    BY <2>4, <2>5
<1>7. ASSUME NEW k \in 1..m
      PROVE  /\ IsEnter(more[q[k]]) /\ StaysOpen(more, q[k])
             /\ Excess(more, q[k], n) = (m + 1) - k + 1
  <2>1. PICK i \in 1..L : i = o[k] /\ i = q[k]
    BY <1>3, <1>4
  <2>2. /\ IsEnter(evs[i]) /\ StaysOpen(evs, i) /\ Excess(evs, i, L) = m - k + 1 /\ more[i] = evs[i]
    BY <1>2, <1>5, <2>1
  <2>3. Excess(more, i, L + 1) = Excess(evs, i, L) + 1
    <3>1. i \in 1..(Len(evs) + 1)
      BY <1>1, <1>2
    <3>2. Excess(more, i, Len(evs) + 1) = Excess(evs, i, Len(evs)) + (IF IsEnter(e) THEN 1 ELSE -1)
      BY <1>1, <3>1, ExcessAppend
    <3>3. QED
      BY <1>1, <3>2
  <2>4. Excess(more, i, n) = (m + 1) - k + 1 /\ Excess(more, i, n) > 0
    BY <1>2, <1>3, <2>2, <2>3
  <2>5. ~Leaves(evs[i], e)
    BY <2>2, EntersDoNotLeave
  <2>6. StaysOpen(more, i)
    BY <1>1, <2>2, <2>4, <2>5, OpenStays
  <2>7. QED
    BY <2>1, <2>2, <2>4, <2>6
<1>8. Excess(more, n, n) = 1 /\ StaysOpen(more, n)
  <2>1. n \in 1..(Len(evs) + 1)
    BY <1>1, <1>2
  <2>2. Excess(more, n, Len(evs) + 1) = Excess(evs, n, Len(evs)) + 1 /\ Excess(evs, n, Len(evs)) = 0
    BY <1>1, <2>1, ExcessAppend
  <2>3. Excess(more, n, n) = 1
    BY <1>1, <2>2
  <2>4. ~Leaves(more[n], more[n])
    BY <1>2, EntersDoNotLeave
  <2>5. \A k \in n..Len(more) : k = n
    BY <1>2
  <2>6. QED
    BY <2>3, <2>4, <2>5 DEF StaysOpen
<1>9. ASSUME NEW i \in 1..n, IsEnter(more[i])
      PROVE  Met(more, i) \/ \E k \in 1..(m + 1) : q[k] = i
  <2>1. CASE i = n
    <3>1. m + 1 \in 1..(m + 1)
      BY <1>3
    <3>2. QED
      BY <1>4, <2>1, <3>1
  <2>2. CASE i # n
    <3>1. i \in 1..L
      BY <1>2, <2>2
    <3>2. IsEnter(evs[i])
      BY <1>2, <1>9, <3>1
    <3>3. CASE Met(evs, i)
      BY <1>1, <3>1, <3>3, MetStays
    <3>4. CASE \E k \in 1..m : o[k] = i
      <4>1. PICK k \in 1..m : o[k] = i
        BY <3>4
      <4>2. k \in 1..(m + 1) /\ q[k] = i
        BY <1>3, <1>4, <4>1
      <4>3. QED
        BY <4>2
    <3>5. QED
      BY <1>5, <3>1, <3>2, <3>3, <3>4
  <2>3. QED
    BY <2>1, <2>2
<1>10. \A k \in 1..(m + 1) : /\ IsEnter(more[q[k]]) /\ StaysOpen(more, q[k])
                             /\ Excess(more, q[k], n) = (m + 1) - k + 1
  <2>1. TAKE k \in 1..(m + 1)
  <2>2. CASE k = m + 1
    BY <1>2, <1>3, <1>4, <1>8, <2>2
  <2>3. CASE k # m + 1
    <3>1. k \in 1..m
      BY <1>3, <2>3
    <3>2. QED
      BY <1>7, <3>1
  <2>4. QED
    BY <2>2, <2>3
<1>11. Nested(more, q)
  BY <1>2, <1>4, <1>6, <1>9, <1>10 DEF Nested
<1>12. NamesOf(more, q) = Append(NamesOf(evs, o), e.id)
  <2>1. PICK s, r : s = NamesOf(evs, o) /\ r = NamesOf(more, q)
    OBVIOUS
  <2>2. PICK a : a = e.id
    OBVIOUS
  <2>3. s = [k \in 1..m |-> evs[o[k]].id]
    BY <1>3, <2>1 DEF NamesOf
  <2>4. r = [k \in 1..(m + 1) |-> more[q[k]].id]
    BY <1>4, <2>1 DEF NamesOf
  <2>5. Append(s, a) = [k \in 1..(m + 1) |-> IF k = m + 1 THEN a ELSE s[k]]
    <3>1. PICK T : T = {s[k] : k \in 1..m} \cup {a}
      OBVIOUS
    <3>2. s \in Seq(T) /\ Len(s) = m
      BY <1>3, <2>3, <3>1
    <3>3. PICK z : z = Append(s, a)
      OBVIOUS
    <3>4. /\ z \in Seq(T) /\ Len(z) = m + 1 /\ DOMAIN z = 1..(m + 1) /\ z[m + 1] = a
          /\ \A k \in 1..m : z[k] = s[k]
      <4>1. a \in T
        BY <3>1
      <4>2. QED
        BY <1>3, <3>2, <3>3, <4>1, AppendIs
    <3>5. z = [k \in 1..(m + 1) |-> z[k]]
      BY <3>4
    <3>6. \A k \in 1..(m + 1) : z[k] = IF k = m + 1 THEN a ELSE s[k]
      <4>1. \A k \in 1..(m + 1) : k = m + 1 \/ (k \in 1..m /\ k # m + 1)
        BY <1>3
      <4>2. QED
        BY <3>4, <4>1
    <3>7. QED
      BY <3>3, <3>5, <3>6
  <2>6. \A k \in 1..(m + 1) : more[q[k]].id = IF k = m + 1 THEN a ELSE s[k]
    <3>1. TAKE k \in 1..(m + 1)
    <3>2. CASE k = m + 1
      BY <1>2, <1>4, <2>2, <3>2
    <3>3. CASE k # m + 1
      <4>1. k \in 1..m
        BY <1>3, <3>3
      <4>2. q[k] = o[k] /\ more[o[k]] = evs[o[k]]
        BY <1>2, <1>3, <1>4, <4>1
      <4>3. QED
        BY <2>3, <3>3, <4>1, <4>2
    <3>4. QED
      BY <3>2, <3>3
  <2>7. QED
    BY <2>1, <2>2, <2>4, <2>5, <2>6
<1>13. QED
  BY <1>1, <1>11, <1>12

(* An exit more after an enter.                                            *)
LEMMA ExitAppend ==
  ASSUME NEW R, NEW evs \in Seq(R), NEW e \in R, ~IsEnter(e), NEW i \in 1..Len(evs),
         NEW more, more = Append(evs, e)
  PROVE  /\ Excess(more, i, Len(evs) + 1) = Excess(evs, i, Len(evs)) - 1
         /\ Excess(evs, i, Len(evs)) \in Int
         /\ \A k \in i..Len(evs) : Excess(more, i, k) = Excess(evs, i, k)
<1>1. Len(evs) \in Nat
  OBVIOUS
<1>2. i \in 1..(Len(evs) + 1) /\ Len(evs) \in (i - 1)..Len(evs)
  BY <1>1
<1>3. Excess(more, i, Len(evs) + 1) = Excess(evs, i, Len(evs)) + (IF IsEnter(e) THEN 1 ELSE -1)
  BY <1>2, ExcessAppend
<1>4. \A k \in (i - 1)..Len(evs) : Excess(evs, i, k) \in Int
  BY <1>2, ExcessAppend
<1>5. \A k \in i..Len(evs) : Excess(more, i, k) = Excess(evs, i, k)
  BY <1>2, ExcessAppend
<1>6. Excess(evs, i, Len(evs)) \in Int
  BY <1>2, <1>4
<1>7. QED
  BY <1>3, <1>5, <1>6

(* What is left when the last of the open enters is met, or when there is  *)
(* none.                                                                   *)
Fewer(o) == [k \in 1..(Len(o) - 1) |-> o[k]]

(* An exit that is that of the innermost enter that is open, and of none   *)
(* below.                                                                  *)
LeavesLast(evs, o, e) ==
  Leaves(evs[o[Len(o)]], e) /\ \A k \in 1..(Len(o) - 1) : ~Leaves(evs[o[k]], e)

(* When it comes, the others are still open.                               *)
LEMMA NestedExit ==
  ASSUME NEW R, NEW evs \in Seq(R), NEW o, Nested(evs, o), NEW e \in R, ~IsEnter(e), o # <<>>,
         LeavesLast(evs, o, e)
  PROVE  /\ Nested(Append(evs, e), Fewer(o))
         /\ NamesOf(Append(evs, e), Fewer(o)) = [k \in 1..(Len(o) - 1) |-> NamesOf(evs, o)[k]]
<1>1. PICK more, L, n, q, m : /\ more = Append(evs, e) /\ L = Len(evs) /\ n = Len(evs) + 1
                              /\ q = Fewer(o) /\ m = Len(o)
  OBVIOUS
<1>2. /\ L \in Nat /\ n = L + 1 /\ Len(more) = n /\ more[n] = e /\ \A k \in 1..L : more[k] = evs[k]
  BY <1>1, AppendIs
<1>3. /\ o \in Seq(1..L) /\ m \in Nat \ {0} /\ DOMAIN o = 1..m
      /\ \A k \in 1..m : o[k] \in 1..L
  <2>1. o \in Seq(1..L)
    BY <1>1 DEF Nested
  <2>2. Len(o) # 0
    BY <2>1
  <2>3. QED
    BY <1>1, <2>1, <2>2
<1>4. /\ q \in Seq(1..n) /\ Len(q) = m - 1 /\ DOMAIN q = 1..(m - 1)
      /\ \A k \in 1..(m - 1) : k \in 1..m /\ q[k] = o[k]
  <2>1. m - 1 \in Nat /\ \A k \in 1..(m - 1) : k \in 1..m /\ o[k] \in 1..n
    BY <1>2, <1>3
  <2>2. q = [k \in 1..(m - 1) |-> o[k]]
    BY <1>1 DEF Fewer
  <2>3. PICK p \in Nat : p = m - 1
    BY <2>1
  <2>4. q = [k \in 1..p |-> o[k]] /\ \A k \in 1..p : o[k] \in 1..n
    BY <2>1, <2>2, <2>3
  <2>5. q \in Seq(1..n) /\ Len(q) = p /\ DOMAIN q = 1..p /\ \A k \in 1..p : q[k] = o[k]
    BY <2>4
  <2>6. QED
    BY <2>1, <2>3, <2>5
<1>5. /\ \A k, l \in 1..m : k < l => o[k] < o[l]
      /\ \A k \in 1..m : IsEnter(evs[o[k]]) /\ StaysOpen(evs, o[k]) /\ Excess(evs, o[k], L) = m - k + 1
      /\ \A i \in 1..L : IsEnter(evs[i]) => Met(evs, i) \/ \E k \in 1..m : o[k] = i
  BY <1>1, <1>3 DEF Nested
<1>6. ASSUME NEW i \in 1..L
      PROVE  Excess(more, i, n) = Excess(evs, i, L) - 1 /\ Excess(evs, i, L) \in Int
             /\ \A k \in i..L : Excess(more, i, k) = Excess(evs, i, k)
  <2>1. i \in 1..Len(evs)
    BY <1>1
  <2>2. /\ Excess(more, i, Len(evs) + 1) = Excess(evs, i, Len(evs)) - 1 /\ Excess(evs, i, Len(evs)) \in Int
        /\ \A k \in i..Len(evs) : Excess(more, i, k) = Excess(evs, i, k)
    BY <1>1, <2>1, ExitAppend
  <2>3. QED
    BY <1>1, <2>2
<1>7. ASSUME NEW k \in 1..(m - 1)
      PROVE  /\ IsEnter(more[q[k]]) /\ StaysOpen(more, q[k])
             /\ Excess(more, q[k], n) = (m - 1) - k + 1
  <2>1. PICK i \in 1..L : i = o[k] /\ i = q[k]
    BY <1>3, <1>4
  <2>2. /\ IsEnter(evs[i]) /\ StaysOpen(evs, i) /\ Excess(evs, i, L) = m - k + 1 /\ more[i] = evs[i]
    BY <1>2, <1>4, <1>5, <2>1
  <2>3. Excess(more, i, n) = (m - 1) - k + 1 /\ Excess(more, i, n) > 0
    BY <1>2, <1>3, <1>6, <2>2
  <2>4. ~Leaves(evs[i], e)
    BY <1>1, <2>1 DEF LeavesLast
  <2>5. StaysOpen(more, i)
    BY <1>1, <2>2, <2>3, <2>4, OpenStays
  <2>6. QED
    BY <2>1, <2>2, <2>3, <2>5
<1>8. Met(more, o[m])
  <2>1. PICK i \in 1..L : i = o[m]
    BY <1>3
  <2>2. StaysOpen(evs, i) /\ Excess(evs, i, L) = 1
    <3>1. m \in 1..m /\ m - m + 1 = 1
      BY <1>3
    <3>2. QED
      BY <1>5, <2>1, <3>1
  <2>3. Excess(more, i, n) = 0
    BY <1>6, <2>2
  <2>4. i \in i..L /\ more[i] = evs[i] /\ n \in i..n /\ \A k \in i..(n - 1) : k \in i..L /\ k \in 1..L
    BY <1>2
  <2>5. Leaves(more[i], more[n])
    BY <1>1, <1>2, <2>1, <2>4 DEF LeavesLast
  <2>6. \A k \in i..(n - 1) : Excess(more, i, k) > 0 /\ ~Leaves(more[i], more[k])
    BY <1>1, <1>2, <1>6, <2>2, <2>4 DEF StaysOpen
  <2>7. MeetsAt(more, i, n)
    BY <1>2, <2>3, <2>4, <2>5, <2>6 DEF MeetsAt
  <2>8. QED
    BY <1>2, <2>1, <2>4, <2>7 DEF Met
<1>9. ASSUME NEW i \in 1..n, IsEnter(more[i])
      PROVE  Met(more, i) \/ \E k \in 1..(m - 1) : q[k] = i
  <2>1. i \in 1..L
    BY <1>2, <1>9
  <2>2. IsEnter(evs[i])
    BY <1>2, <1>9, <2>1
  <2>3. CASE Met(evs, i)
    BY <1>1, <2>1, <2>3, MetStays
  <2>4. CASE \E k \in 1..m : o[k] = i
    <3>1. PICK k \in 1..m : o[k] = i
      BY <2>4
    <3>2. CASE k = m
      BY <1>8, <3>1, <3>2
    <3>3. CASE k # m
      <4>1. k \in 1..(m - 1)
        BY <1>3, <3>3
      <4>2. QED
        BY <1>4, <3>1, <4>1
    <3>4. QED
      BY <3>2, <3>3
  <2>5. QED
    BY <1>5, <2>1, <2>2, <2>3, <2>4
<1>10. \A k, l \in 1..(m - 1) : k < l => q[k] < q[l]
  BY <1>4, <1>5
<1>11. Nested(more, q)
  BY <1>2, <1>4, <1>7, <1>9, <1>10 DEF Nested
<1>12. NamesOf(more, q) = [k \in 1..(m - 1) |-> NamesOf(evs, o)[k]]
  <2>1. NamesOf(more, q) = [k \in 1..(m - 1) |-> more[q[k]].id]
    BY <1>4 DEF NamesOf
  <2>2. \A k \in 1..(m - 1) : NamesOf(evs, o)[k] = evs[o[k]].id
    BY <1>3, <1>4 DEF NamesOf
  <2>3. \A k \in 1..(m - 1) : more[q[k]] = evs[o[k]]
    BY <1>2, <1>3, <1>4
  <2>4. QED
    BY <2>1, <2>2, <2>3
<1>13. QED
  BY <1>1, <1>11, <1>12

(* An exit more, when no enter is open.                                    *)
LEMMA NestedNone ==
  ASSUME NEW R, NEW evs \in Seq(R), Nested(evs, <<>>), NEW e \in R, ~IsEnter(e)
  PROVE  Nested(Append(evs, e), <<>>)
<1>1. PICK more, L, n, o : more = Append(evs, e) /\ L = Len(evs) /\ n = Len(evs) + 1 /\ o = <<>>
  OBVIOUS
<1>2. /\ L \in Nat /\ n = L + 1 /\ Len(more) = n /\ more[n] = e /\ \A k \in 1..L : more[k] = evs[k]
  BY <1>1, AppendIs
<1>3. DOMAIN o = {} /\ o \in Seq(1..n)
  BY <1>1
<1>4. \A i \in 1..L : IsEnter(evs[i]) => Met(evs, i)
  BY <1>1, <1>3 DEF Nested
<1>5. ASSUME NEW i \in 1..n, IsEnter(more[i]) PROVE Met(more, i)
  <2>1. i \in 1..L
    BY <1>2, <1>5
  <2>2. Met(evs, i)
    BY <1>2, <1>4, <1>5, <2>1
  <2>3. QED
    BY <1>1, <2>1, <2>2, MetStays
<1>6. Nested(more, o)
  BY <1>2, <1>3, <1>5 DEF Nested
<1>7. QED
  BY <1>1, <1>6

(* The analysis finds every enter's own exit.                              *)
LEMMA NestedMeets ==
  ASSUME NEW R, NEW evs \in Seq(R), NEW o, Nested(evs, o), NEW i \in DOMAIN evs, IsEnter(evs[i])
  PROVE  MatchingExit(evs, i) = Partner(evs, i)
<1> DEFINE exits == {j \in i..Len(evs) : evs[j].id = evs[i].id /\ evs[j].type = ExitOf[evs[i].type]}
           closed == {j \in i..Len(evs) : Cardinality(Entered(evs, i, j)) * 2 = j - i + 1}
<1>1. MatchingExit(evs, i) = IF exits = {} THEN i ELSE Min(exits)
  BY DEF MatchingExit
<1>2. Partner(evs, i) = IF closed = {} THEN i ELSE Min(closed)
  BY DEF Partner, Entered
<1>3. Len(evs) \in Nat /\ i \in 1..Len(evs) /\ \A j \in i..Len(evs) : j \in Nat
  OBVIOUS
<1>4. \A j \in i..Len(evs) : j \in exits <=> Leaves(evs[i], evs[j])
  BY DEF Leaves
<1>5. \A j \in i..Len(evs) : j \in closed <=> Excess(evs, i, j) = 0
  <2>1. TAKE j \in i..Len(evs)
  <2>2. IsFiniteSet(i..j)
    BY <1>3, FS_Interval
  <2>3. Cardinality(Entered(evs, i, j)) \in Nat
    BY <2>2, FS_Subset, FS_CardinalityType DEF Entered
  <2>4. PICK c \in Nat : c = Cardinality(Entered(evs, i, j))
    BY <2>3
  <2>5. Excess(evs, i, j) = c * 2 - (j - i + 1)
    BY <2>4 DEF Excess
  <2>6. c * 2 = j - i + 1 <=> c * 2 - (j - i + 1) = 0
    <3>1. PICK a \in Int, b \in Int : a = c * 2 /\ b = j - i + 1
      BY <1>3
    <3>2. a = b <=> a - b = 0
      OBVIOUS
    <3>3. QED
      BY <3>1, <3>2
  <2>7. QED
    BY <2>4, <2>5, <2>6
<1>6. exits \in SUBSET (i..Len(evs)) /\ closed \in SUBSET (i..Len(evs))
  OBVIOUS
<1> HIDE DEF exits, closed
<1>7. CASE Met(evs, i)
  <2>1. PICK j \in i..Len(evs) : MeetsAt(evs, i, j)
    BY <1>7 DEF Met
  <2>2. j \in exits /\ j \in closed /\ \A k \in i..(j - 1) : k \notin exits /\ k \notin closed
    <3>1. \A k \in i..(j - 1) : k \in i..Len(evs)
      BY <1>3, <2>1
    <3>2. QED
      BY <1>4, <1>5, <2>1, <3>1 DEF MeetsAt
  <2>3. ASSUME NEW S, S \in SUBSET (i..Len(evs)), j \in S, \A k \in i..(j - 1) : k \notin S
        PROVE  S # {} /\ Min(S) = j
    <3>1. S \in SUBSET Nat /\ S # {}
      BY <1>3, <2>3
    <3>2. Min(S) \in S /\ \A x \in S : Min(S) <= x
      BY <3>1, MinOfNats
    <3>3. PICK x \in i..Len(evs) : x = Min(S)
      BY <2>3, <3>2
    <3>4. x <= j /\ x \notin i..(j - 1)
      BY <2>3, <3>2, <3>3
    <3>5. QED
      BY <1>3, <3>1, <3>3, <3>4
  <2>4. Min(exits) = j /\ Min(closed) = j /\ exits # {} /\ closed # {}
    BY <1>6, <2>2, <2>3
  <2>5. QED
    BY <1>1, <1>2, <2>4
<1>8. CASE ~Met(evs, i)
  <2>1. PICK k \in DOMAIN o : o[k] = i
    BY <1>3, <1>8 DEF Nested
  <2>2. StaysOpen(evs, i)
    BY <2>1 DEF Nested
  <2>3. \A j \in i..Len(evs) : j \notin exits /\ j \notin closed
    BY <1>4, <1>5, <2>2 DEF StaysOpen
  <2>4. exits = {} /\ closed = {}
    BY <1>6, <2>3
  <2>5. QED
    BY <1>1, <1>2, <2>4
<1>9. QED
  BY <1>7, <1>8

(* What a thread has open are enters of its log, at o. The thread that     *)
(* exits has at most open what main's thread began with.                   *)
PairedAt(t, o) ==
  /\ Nested(events[t], o)
  /\ IF t # exiter THEN OpenMarks(events[t]) = NamesOf(events[t], o)
     ELSE \A k \in DOMAIN o : t = Main /\ o[k] \in {1, 2}

(* Scops have ids that are no region's, but for the first event of main's  *)
(* thread, the total.                                                      *)
IdsApart(t, evs) ==
  \A i \in DOMAIN evs : /\ evs[i].type = "ScopEnter" => evs[i].id >= 0
                        /\ evs[i].type = "RegionEnter" => evs[i].id < 0 \/ (t = Main /\ i = 1)
PairsOk(t) == IdsApart(t, events[t]) /\ \E o : PairedAt(t, o)
PairsInv == \A t \in Threads : PairsOk(t)

(* The positions of enters that are open.                                  *)
LEMMA OpenAt ==
  ASSUME NEW evs, NEW o, Nested(evs, o), Len(evs) \in Nat
  PROVE  /\ Len(o) \in Nat /\ DOMAIN o = 1..Len(o) /\ \A k \in 1..Len(o) : o[k] \in 1..Len(evs)
         /\ \A k, l \in 1..Len(o) : k < l => o[k] < o[l]
         /\ \A k \in 1..Len(o) : IsEnter(evs[o[k]])
<1>1. o \in Seq(1..Len(evs))
  BY DEF Nested
<1>2. Len(o) \in Nat /\ DOMAIN o = 1..Len(o) /\ \A k \in 1..Len(o) : o[k] \in 1..Len(evs)
  BY <1>1
<1>3. QED
  BY <1>2 DEF Nested

(* Main's thread begins with two enters, which stay open.                  *)
LEMMA MainOpen ==
  ASSUME NEW R, NEW evs \in Seq(R), env.papi, MainEntered(evs), NEW o, Nested(evs, o)
  PROVE  Len(o) >= 2 /\ o[1] = 1 /\ o[2] = 2
<1>1. PICK L, m : L = Len(evs) /\ m = Len(o)
  OBVIOUS
<1>2. /\ L \in Nat /\ L >= 2 /\ DOMAIN evs = 1..L
      /\ evs[1].type = "RegionEnter" /\ evs[1].id = Total
      /\ evs[2].type = "RegionEnter" /\ evs[2].id = PJIT_REGION_MAIN
      /\ \A i \in 1..L : evs[i].type = "RegionExit" => evs[i].id \in Regions
  BY <1>1 DEF MainEntered
<1>3. /\ m \in Nat /\ DOMAIN o = 1..m /\ \A k \in 1..m : o[k] \in 1..L
      /\ \A k, l \in 1..m : k < l => o[k] < o[l]
  BY <1>1, <1>2, OpenAt
<1>4. ASSUME NEW i \in {1, 2} PROVE \E k \in 1..m : o[k] = i
  <2>1. i \in 1..L /\ evs[i].type = "RegionEnter" /\ evs[i].id \notin Regions
    BY <1>2 DEF Total, Regions, PJIT_REGION_MAIN, PJIT_REGION_CODEGEN, PJIT_REGION_GET_PROTOTYPE,
                PJIT_REGION_SELECT_PARAMS
  <2>2. \A j \in 1..L : ~Leaves(evs[i], evs[j])
    BY <1>2, <2>1 DEF Leaves, ExitOf
  <2>3. ~Met(evs, i)
    <3>1. \A j \in i..L : j \in 1..L
      BY <2>1
    <3>2. QED
      BY <1>1, <2>2, <3>1 DEF Met, MeetsAt
  <2>4. IsEnter(evs[i])
    BY <2>1 DEF IsEnter, Enters, ExitOf
  <2>5. QED
    BY <1>1, <1>3, <2>1, <2>3, <2>4 DEF Nested
<1>5. PICK k \in 1..m, l \in 1..m : o[k] = 1 /\ o[l] = 2
  BY <1>4
<1>6. m >= 1 /\ 1 \in 1..m
  BY <1>3, <1>5
<1>7. o[1] = 1
  <2>1. k = 1 \/ 1 < k
    BY <1>3, <1>5
  <2>2. CASE 1 < k
    <3>1. o[1] < o[k] /\ o[1] \in 1..L
      BY <1>3, <1>5, <1>6, <2>2
    <3>2. QED
      BY <1>2, <1>5, <3>1
  <2>3. QED
    BY <1>5, <2>1, <2>2
<1>8. m >= 2 /\ 2 \in 1..m
  BY <1>3, <1>5, <1>7
<1>9. o[2] = 2
  <2>1. l = 2 \/ 2 < l
    <3>1. l # 1
      BY <1>5, <1>7
    <3>2. QED
      BY <1>3, <1>5, <3>1
  <2>2. CASE 2 < l
    <3>1. o[1] < o[2] /\ o[2] < o[l] /\ o[2] \in 1..L
      BY <1>3, <1>5, <1>6, <1>8, <2>2
    <3>2. QED
      BY <1>2, <1>5, <1>7, <3>1
  <2>3. QED
    BY <1>5, <2>1, <2>2
<1>10. QED
  BY <1>1, <1>7, <1>8, <1>9

(* Names of what is open.                                                  *)
LEMMA NamesAre ==
  ASSUME NEW evs, NEW o, Nested(evs, o), Len(evs) \in Nat
  PROVE  /\ NamesOf(evs, o) = [k \in 1..Len(o) |-> evs[o[k]].id]
         /\ \A n : n \in Nat /\ DOMAIN NamesOf(evs, o) = 1..n => n = Len(o)
<1>1. Len(o) \in Nat /\ DOMAIN o = 1..Len(o)
  BY OpenAt
<1>2. NamesOf(evs, o) = [k \in 1..Len(o) |-> evs[o[k]].id]
  BY <1>1 DEF NamesOf
<1>3. ASSUME NEW n \in Nat, DOMAIN NamesOf(evs, o) = 1..n PROVE n = Len(o)
  <2>1. 1..n = 1..Len(o)
    BY <1>2, <1>3
  <2>2. PICK m \in Nat : m = Len(o)
    BY <1>1
  <2>3. ~(n < m)
    <3>1. n < m => m \in 1..m /\ m \notin 1..n
      BY <2>2
    <3>2. QED
      BY <2>1, <2>2, <3>1
  <2>4. ~(m < n)
    <3>1. m < n => n \in 1..n /\ n \notin 1..m
      BY <2>2
    <3>2. QED
      BY <2>1, <2>2, <3>1
  <2>5. QED
    BY <2>2, <2>3, <2>4
<1>4. QED
  BY <1>2, <1>3

(* The thread that exits has nothing open when it begins to, but for main. *)
LEMMA ExitsPaired ==
  ASSUME NEW R, NEW evs \in Seq(R), NEW t, t = Main /\ env.papi => MainEntered(evs),
         NEW o, Nested(evs, o), NamesOf(evs, o) = Base("papi", t)
  PROVE  \A k \in DOMAIN o : t = Main /\ o[k] \in {1, 2}
<1>1. /\ Len(o) \in Nat /\ DOMAIN o = 1..Len(o)
      /\ \A n : n \in Nat /\ DOMAIN NamesOf(evs, o) = 1..n => n = Len(o)
  BY OpenAt, NamesAre
<1>2. CASE t = Main /\ env.papi
  <2>1. Base("papi", t) = <<Total, PJIT_REGION_MAIN>>
    BY <1>2 DEF Base
  <2>2. DOMAIN Base("papi", t) = 1..2
    BY <2>1
  <2>3. Len(o) = 2
    BY <1>1, <2>2
  <2>4. o[1] = 1 /\ o[2] = 2
    BY <1>2, MainOpen
  <2>5. QED
    BY <1>1, <1>2, <2>3, <2>4
<1>3. CASE ~(t = Main /\ env.papi)
  <2>1. Base("papi", t) = <<>>
    BY <1>3 DEF Base
  <2>2. DOMAIN Base("papi", t) = 1..0
    BY <2>1
  <2>3. Len(o) = 0
    BY <1>1, <2>2
  <2>4. QED
    BY <1>1, <2>3
<1>4. QED
  BY <1>2, <1>3

(* What a thread that does not exit makes libpprof record.                 *)
LEMMA PapiRecords ==
  ASSUME TracingInv, NEW t \in Threads \ {exiter}, NEW op \in LikwidCalls \cup TracerCalls, Trace(t, op),
         NEW i, i = Head(Top(t).code)
  PROVE  /\ exiter' = exiter /\ \A u \in Threads \ {t} : events'[u] = events[u]
         /\ \/ events'[t] = events[t]
            \/ /\ env.papi /\ op \in TracerCalls
               /\ \E e \in EventRecords :
                    e.id = Narrow(i.id) /\ e.type = EventType[op] /\ events'[t] = Append(events[t], e)
<1>1. At(t, op) /\ UNCHANGED ending
  BY DEF Trace
<1>2. PICK tracer : tracer = IF op \in LikwidCalls THEN "LikwidTracer" ELSE Tracer
  OBVIOUS
<1>3. IF tracer = "PapiTracer" THEN Record(t, i.id, EventType[op]) ELSE UNCHANGED <<events, fault>>
  BY <1>2 DEF Trace
<1>4. PICK type : type = EventType[op]
  OBVIOUS
<1>5. type \in EventTypes /\ i.id \in Int /\ TypesOk
  BY <1>1, <1>4, TypesOfEvents, TraceHead DEF TracingInv
<1>6. CASE tracer = "PapiTracer"
  <2>1. env.papi /\ op \in TracerCalls
    BY <1>2, <1>6 DEF Tracer
  <2>2. type \notin Enters => events[t] # <<>>
    BY <1>1, <1>4, <2>1, ExitAfterEnter
  <2>3. PICK id \in Int : id = i.id
    BY <1>5
  <2>4. Record(t, id, type)
    BY <1>3, <1>4, <1>6, <2>3
  <2>5. /\ \A u \in Threads \ {t} : events'[u] = events[u]
        /\ \E e \in EventRecords :
             e.id = Narrow(id) /\ e.type = type /\ events'[t] = Append(events[t], e)
    BY <1>5, <2>2, <2>4, RecordIs
  <2>6. QED
    BY <1>1, <1>4, <2>1, <2>3, <2>5 DEF ending
<1>7. CASE tracer # "PapiTracer"
  BY <1>1, <1>3, <1>7 DEF ending
<1>8. QED
  BY <1>6, <1>7

(* An exit leaves what the thread has opened last.                         *)
LEMMA ExitIsInnermost ==
  ASSUME TracingInv, NEW t \in Threads \ {exiter}, NEW op \in TracerCalls, At(t, op), env.papi,
         EventType[op] \notin Enters, NEW i, i = Head(Top(t).code)
  PROVE  OpenMarks(events[t]) = Append(Under("papi", t, stack[t]), Narrow(i.id))
<1>1. PICK fr, s : fr = Top(t) /\ s = stack[t]
  OBVIOUS
<1>2. fr.code # <<>> /\ s # <<>> /\ fr = Last(s) /\ Head(fr.code).op = op
  BY <1>1 DEF At, Top
<1>3. StackOk(t, s) /\ FrameOk(fr, TopOps(t, s))
  BY <1>1, <1>2, TopInstr
<1>4. PICK lib \in Libs : lib = "papi"
  BY DEF Libs
<1>5. OpenOk(lib, t, s, Log(lib, t))
  BY <1>1 DEF TracingInv, ThreadOk
<1>6. FrameOpen(lib, fr, Under(lib, t, s), Log(lib, t))
  BY <1>2, <1>3, <1>5, TopIs
<1>7. Log(lib, t) = events[t]
  BY <1>4 DEF Log
<1>8. PICK x : After(lib, fr, 0, x) /\ OpenMarks(events[t]) = Opened(Under(lib, t, s), x)
  BY <1>6, <1>7 DEF FrameOpen
<1>9. Closing(lib, Head(fr.code))
  BY <1>2, <1>4 DEF Closing, Goes
<1>10. PICK n : n = Name(lib, Head(fr.code))
  OBVIOUS
<1>11. x = <<n>>
  BY <1>2, <1>3, <1>8, <1>9, <1>10, MarkingHead
<1>12. x # <<>> /\ x[1] = n
  BY <1>11
<1>13. n = Narrow(i.id)
  BY <1>1, <1>4, <1>10 DEF Name
<1>14. QED
  BY <1>1, <1>4, <1>8, <1>12, <1>13 DEF Opened

(* What a thread calls the tracer with.                                    *)
LEMMA TracedId ==
  ASSUME TracingInv, NEW t \in Threads \ {exiter}, NEW op \in TracerCalls, At(t, op),
         NEW i, i = Head(Top(t).code)
  PROVE  /\ EventType[op] \in {"RegionEnter", "RegionExit"} => Narrow(i.id) = i.id /\ i.id \in {-2, -3, -4}
         /\ EventType[op] \in {"ScopEnter", "ScopExit"} => Narrow(i.id) \in Nat
         /\ Narrow(i.id) \in Int
<1>1. /\ op \in RegionCalls => i.id \in Regions
      /\ op \in ScopCalls => i.id \in Nat
      /\ i.id \in Int
  BY TraceHead
<1>2. /\ op \in RegionCalls <=> EventType[op] \in {"RegionEnter", "RegionExit"}
      /\ op \in ScopCalls <=> EventType[op] \in {"ScopEnter", "ScopExit"}
  BY DEF TracerCalls, RegionCalls, ScopCalls, EventType
<1>3. Regions = {-2, -3, -4}
  BY DEF Regions, PJIT_REGION_CODEGEN, PJIT_REGION_GET_PROTOTYPE, PJIT_REGION_SELECT_PARAMS
<1>4. PICK id \in Int : id = i.id
  BY <1>1
<1>5. Narrow(id) \in Int /\ (id < 0 => Narrow(id) = id)
  BY NarrowIs
<1>6. id \in Nat => Narrow(id) \in Nat
  <2>1. SUFFICES ASSUME id \in Nat PROVE Narrow(id) \in Nat
    OBVIOUS
  <2>2. PICK w : w = 2 ^ IdBits
    OBVIOUS
  <2>3. w \in Nat \ {0}
    BY <2>2, Assumptions
  <2>4. Narrow(id) = id % w /\ id % w \in Nat
    BY <2>1, <2>2, <2>3 DEF Narrow
  <2>5. QED
    BY <2>4
<1>7. id \in Regions => id < 0 /\ id \in {-2, -3, -4}
  BY <1>3
<1>8. QED
  BY <1>1, <1>2, <1>4, <1>5, <1>6, <1>7

(* Below what is left nothing of the same name is open, but for the total, *)
(* the name of which may be a scop's.                                      *)
NamedApart(t, under, id, type) ==
  \A k \in DOMAIN under : under[k] # id \/ (t = Main /\ k = 1 /\ type \in {"ScopEnter", "ScopExit"})

(* It is so with all that a thread calls the tracer with.                  *)
LEMMA BelowApart ==
  ASSUME TracingInv, NEW t \in Threads \ {exiter}, NEW op \in TracerCalls, At(t, op), env.papi,
         NEW i, i = Head(Top(t).code), NEW under, under = Under("papi", t, stack[t])
  PROVE  /\ under \in Seq(Int) /\ (t = Main => under = <<Total, PJIT_REGION_MAIN>>)
         /\ NamedApart(t, under, Narrow(i.id), EventType[op])
<1>1. PICK s : s = stack[t]
  OBVIOUS
<1>2. s # <<>> /\ Top(t).code # <<>>
  BY <1>1 DEF At
<1>3. StackOk(t, s) /\ FrameOk(Top(t), TopOps(t, s)) /\ 1 \in DOMAIN Top(t).code /\ i = Top(t).code[1]
  BY <1>1, <1>2, TopInstr
<1>4. Main # Generator
  BY Assumptions
<1>5. PICK id, type : id = Narrow(i.id) /\ type = EventType[op]
  OBVIOUS
<1>6. /\ type \in {"RegionEnter", "RegionExit"} => id = i.id /\ id \in {-2, -3, -4}
      /\ type \in {"ScopEnter", "ScopExit"} => id \in Nat
      /\ type \in {"RegionEnter", "RegionExit", "ScopEnter", "ScopExit"}
  <2>1. type \in {"RegionEnter", "RegionExit", "ScopEnter", "ScopExit"}
    BY <1>5 DEF TracerCalls, EventType
  <2>2. QED
    BY <1>5, <2>1, TracedId
<1>7. CASE t = Main
  <2>1. under = <<Total, PJIT_REGION_MAIN>>
    BY <1>4, <1>7 DEF Under, Base, Below
  <2>2. under = <<0, -1>>
    BY <2>1 DEF Total, PJIT_REGION_MAIN
  <2>3. under \in Seq(Int) /\ DOMAIN under = 1..2 /\ under[1] = 0 /\ under[2] = -1
    <3>1. PICK a \in Int, b \in Int : a = 0 /\ b = -1
      OBVIOUS
    <3>2. <<a, b>> \in Seq(Int) /\ DOMAIN <<a, b>> = 1..2 /\ <<a, b>>[1] = a /\ <<a, b>>[2] = b
      OBVIOUS
    <3>3. QED
      BY <2>2, <3>1, <3>2
  <2>4. id # -1 /\ (id = 0 => type \in {"ScopEnter", "ScopExit"})
    BY <1>6
  <2>5. QED
    BY <1>5, <1>7, <2>1, <2>3, <2>4 DEF NamedApart
<1>8. CASE t = Generator /\ Len(s) # 1
  <2>1. under = <<PJIT_REGION_CODEGEN>>
    BY <1>1, <1>8 DEF Under, Below, Generating
  <2>2. under = <<-2>>
    BY <2>1 DEF PJIT_REGION_CODEGEN
  <2>3. under \in Seq(Int) /\ DOMAIN under = 1..1 /\ under[1] = -2
    <3>1. PICK a \in Int : a = -2
      OBVIOUS
    <3>2. <<a>> \in Seq(Int) /\ DOMAIN <<a>> = 1..1 /\ <<a>>[1] = a
      OBVIOUS
    <3>3. QED
      BY <2>2, <3>1, <3>2
  <2>4. TopOps(t, s) = RequestOps
    BY <1>8, Assumptions DEF TopOps, InnerOps
  <2>5. i.id # PJIT_REGION_CODEGEN
    BY <1>3, <2>4 DEF FrameOk
  <2>6. id # -2
    BY <1>6, <2>5 DEF PJIT_REGION_CODEGEN
  <2>7. QED
    BY <1>4, <1>5, <1>8, <2>3, <2>6 DEF NamedApart
<1>9. CASE t # Main /\ ~(t = Generator /\ Len(s) # 1)
  <2>1. under = <<>>
    BY <1>1, <1>9 DEF Under, Base, Below
  <2>2. under \in Seq(Int) /\ DOMAIN under = {}
    <3>1. <<>> \in Seq(Int) /\ DOMAIN <<>> = {}
      OBVIOUS
    <3>2. QED
      BY <2>1, <3>1
  <2>3. QED
    BY <1>9, <2>2 DEF NamedApart
<1>10. QED
  BY <1>7, <1>8, <1>9

(* Ids stay apart with one event more.                                     *)
LEMMA IdsStayApart ==
  ASSUME NEW R, NEW evs \in Seq(R), NEW e \in R, NEW t, IdsApart(t, evs),
         e.type = "ScopEnter" => e.id >= 0, e.type = "RegionEnter" => e.id < 0
  PROVE  IdsApart(t, Append(evs, e))
<1>1. PICK more : more = Append(evs, e)
  OBVIOUS
<1>2. /\ DOMAIN more = 1..(Len(evs) + 1) /\ DOMAIN evs = 1..Len(evs) /\ Len(evs) \in Nat
      /\ (\A i \in DOMAIN evs : more[i] = evs[i]) /\ more[Len(evs) + 1] = e
  BY <1>1, AppendIs
<1>3. \A i \in DOMAIN more : (i \in DOMAIN evs /\ more[i] = evs[i]) \/ more[i] = e
  <2>1. \A i \in 1..(Len(evs) + 1) : i = Len(evs) + 1 \/ i \in 1..Len(evs)
    BY <1>2
  <2>2. QED
    BY <1>2, <2>1
<1>4. IdsApart(t, more)
  BY <1>3 DEF IdsApart
<1>5. QED
  BY <1>1, <1>4

(* Enters that are open are enters of a region or of a scop.               *)
LEMMA EntersAre ==
  ASSUME NEW e, IsEnter(e)
  PROVE  e.type \in {"RegionEnter", "ScopEnter"} /\ ExitOf["RegionEnter"] = "RegionExit"
         /\ ExitOf["ScopEnter"] = "ScopExit"
BY DEF IsEnter, Enters, ExitOf

(* A thread that does not exit leaves what it has entered last.            *)
LEMMA TraceExitPaired ==
  ASSUME TracingInv, NEW t \in Threads \ {exiter}, NEW op \in TracerCalls, At(t, op), env.papi,
         EventType[op] \notin Enters, NEW i, i = Head(Top(t).code),
         NEW e \in EventRecords, e.id = Narrow(i.id), e.type = EventType[op],
         NEW evs, evs = events[t], IdsApart(t, evs), NEW o, PairedAt(t, o)
  PROVE  /\ Nested(Append(evs, e), Fewer(o)) /\ IdsApart(t, Append(evs, e))
         /\ OpenMarks(Append(evs, e)) = NamesOf(Append(evs, e), Fewer(o))
<1>1. evs \in Seq(EventRecords) /\ Len(evs) \in Nat
  <2>1. evs \in Seq(EventRecords)
    BY DEF TracingInv, TypesOk
  <2>2. QED
    BY <2>1
<1>2. Nested(evs, o) /\ OpenMarks(evs) = NamesOf(evs, o)
  BY DEF PairedAt
<1>3. PICK under : under = Under("papi", t, stack[t])
  OBVIOUS
<1>4. /\ under \in Seq(Int) /\ (t = Main => under = <<Total, PJIT_REGION_MAIN>>)
      /\ NamedApart(t, under, e.id, e.type)
  <2>1. /\ under \in Seq(Int) /\ (t = Main => under = <<Total, PJIT_REGION_MAIN>>)
        /\ NamedApart(t, under, Narrow(i.id), EventType[op])
    BY <1>3, BelowApart
  <2>2. QED
    BY <2>1
<1>5. NamesOf(evs, o) = Append(under, e.id)
  BY <1>2, <1>3, ExitIsInnermost
<1>6. PICK n, u : n = e.id /\ u = Len(under)
  OBVIOUS
<1>7. /\ n \in Int /\ u \in Nat /\ DOMAIN under = 1..u
      /\ DOMAIN NamesOf(evs, o) = 1..(u + 1) /\ NamesOf(evs, o)[u + 1] = n
      /\ \A k \in 1..u : NamesOf(evs, o)[k] = under[k]
  <2>1. n \in Int
    BY <1>6 DEF EventRecords
  <2>2. QED
    BY <1>4, <1>5, <1>6, <2>1, AppendIs
<1>8. /\ DOMAIN o = 1..Len(o) /\ \A k \in 1..Len(o) : o[k] \in 1..Len(evs)
      /\ \A k, l \in 1..Len(o) : k < l => o[k] < o[l]
      /\ \A k \in 1..Len(o) : IsEnter(evs[o[k]])
  BY <1>1, <1>2, OpenAt
<1>9. Len(o) = u + 1 /\ NamesOf(evs, o) = [k \in 1..Len(o) |-> evs[o[k]].id]
  <2>1. /\ NamesOf(evs, o) = [k \in 1..Len(o) |-> evs[o[k]].id]
        /\ \A x : x \in Nat /\ DOMAIN NamesOf(evs, o) = 1..x => x = Len(o)
    BY <1>1, <1>2, NamesAre
  <2>2. u + 1 \in Nat
    BY <1>7
  <2>3. QED
    BY <1>7, <2>1, <2>2
<1>10. /\ evs[o[u + 1]].id = n /\ \A k \in 1..u : evs[o[k]].id = under[k]
  <2>1. u + 1 \in 1..(u + 1) /\ \A k \in 1..u : k \in 1..(u + 1)
    BY <1>7
  <2>2. QED
    BY <1>7, <1>9, <2>1
<1>11. /\ e.type \in {"RegionExit", "ScopExit"}
       /\ e.type = "RegionExit" => n < 0
       /\ e.type = "ScopExit" => n >= 0
  <2>1. e.type \in {"RegionExit", "ScopExit"}
    BY DEF TracerCalls, EventType, Enters, ExitOf
  <2>2. /\ e.type \in {"RegionEnter", "RegionExit"} => n = i.id /\ i.id \in {-2, -3, -4}
        /\ e.type \in {"ScopEnter", "ScopExit"} => n \in Nat
    BY <1>6, TracedId
  <2>3. QED
    BY <1>7, <2>1, <2>2
<1>12. t = Main => u = 2 /\ Len(o) = 3 /\ o[1] = 1 /\ evs[1].type = "RegionEnter"
  <2>1. SUFFICES ASSUME t = Main PROVE u = 2 /\ Len(o) = 3 /\ o[1] = 1 /\ evs[1].type = "RegionEnter"
    OBVIOUS
  <2>2. u = 2
    <3>1. PICK a, b : a = Total /\ b = PJIT_REGION_MAIN
      OBVIOUS
    <3>2. Len(<<a, b>>) = 2
      OBVIOUS
    <3>3. QED
      BY <1>4, <1>6, <2>1, <3>1, <3>2
  <2>3. MainEntered(evs)
    <3>1. InMain
      BY <2>1, BeforeMainEnds
    <3>2. QED
      BY <2>1, <3>1 DEF InMain, MainLog
  <2>4. o[1] = 1
    BY <1>1, <1>2, <2>3, MainOpen
  <2>5. QED
    BY <1>9, <2>2, <2>3, <2>4 DEF MainEntered
<1>13. Leaves(evs[o[u + 1]], e)
  <2>1. PICK p : p = o[u + 1]
    OBVIOUS
  <2>2. p \in 1..Len(evs) /\ IsEnter(evs[p]) /\ evs[p].id = n
    <3>1. u + 1 \in 1..Len(o)
      BY <1>7, <1>9
    <3>2. QED
      BY <1>8, <1>10, <2>1, <3>1
  <2>3. /\ evs[p].type \in {"RegionEnter", "ScopEnter"} /\ ExitOf["RegionEnter"] = "RegionExit"
        /\ ExitOf["ScopEnter"] = "ScopExit"
    BY <2>2, EntersAre
  <2>4. p \in DOMAIN evs
    BY <1>1, <2>2
  <2>5. /\ evs[p].type = "ScopEnter" => n >= 0
        /\ evs[p].type = "RegionEnter" => n < 0 \/ (t = Main /\ p = 1)
    BY <2>2, <2>4 DEF IdsApart
  <2>6. ~(t = Main /\ p = 1)
    <3>1. SUFFICES ASSUME t = Main PROVE p # 1
      OBVIOUS
    <3>2. p = o[3] /\ o[1] = 1 /\ 1 \in 1..Len(o) /\ 3 \in 1..Len(o)
      <4>1. u + 1 = 3 /\ Len(o) = 3 /\ o[1] = 1
        BY <1>12, <3>1
      <4>2. QED
        BY <2>1, <4>1
    <3>3. o[1] < o[3]
      BY <1>8, <3>2
    <3>4. QED
      BY <3>2, <3>3
  <2>7. e.type = ExitOf[evs[p].type]
    BY <1>7, <1>11, <2>3, <2>5, <2>6
  <2>8. QED
    BY <1>6, <2>1, <2>2, <2>7 DEF Leaves
<1>14. ASSUME NEW k \in 1..u PROVE ~Leaves(evs[o[k]], e)
  <2>1. evs[o[k]].id = under[k]
    BY <1>10
  <2>2. CASE under[k] # e.id
    BY <2>1, <2>2 DEF Leaves
  <2>3. CASE t = Main /\ k = 1 /\ e.type \in {"ScopEnter", "ScopExit"}
    <3>1. evs[o[k]].type = "RegionEnter"
      BY <1>12, <2>3
    <3>2. QED
      BY <2>3, <3>1 DEF Leaves, ExitOf
  <2>4. QED
    BY <1>4, <1>7, <2>2, <2>3 DEF NamedApart
<1>15. ~IsEnter(e) /\ o # <<>> /\ Len(o) - 1 = u
  <2>1. ~IsEnter(e)
    BY DEF IsEnter
  <2>2. o # <<>>
    <3>1. Len(o) # 0
      BY <1>7, <1>9
    <3>2. QED
      BY <3>1
  <2>3. QED
    BY <1>7, <1>9, <2>1, <2>2
<1>16. /\ Nested(Append(evs, e), Fewer(o))
       /\ NamesOf(Append(evs, e), Fewer(o)) = [k \in 1..u |-> NamesOf(evs, o)[k]]
  <2>1. LeavesLast(evs, o, e)
    BY <1>9, <1>13, <1>14, <1>15 DEF LeavesLast
  <2>2. /\ Nested(Append(evs, e), Fewer(o))
        /\ NamesOf(Append(evs, e), Fewer(o)) = [k \in 1..(Len(o) - 1) |-> NamesOf(evs, o)[k]]
    BY <1>1, <1>2, <1>15, <2>1, NestedExit
  <2>3. QED
    BY <1>15, <2>2
<1>17. NamesOf(Append(evs, e), Fewer(o)) = under
  <2>1. under = [k \in 1..u |-> under[k]]
    BY <1>4, <1>7
  <2>2. QED
    BY <1>7, <1>16, <2>1
<1>18. OpenMarks(Append(evs, e)) = under
  <2>1. PICK lib \in Libs : lib = "papi"
    BY DEF Libs
  <2>2. Recs(lib) = EventRecords
    BY <2>1 DEF Recs
  <2>3. OpenMarks(Append(evs, e)) = Following(OpenMarks(evs), e)
    BY <1>1, <2>2, RecordedOpen
  <2>4. under \in Seq(Names)
    BY <1>3, UnderTyped
  <2>5. Following(Append(under, e.id), e) = under
    BY <2>4, EnterExit
  <2>6. QED
    BY <1>2, <1>5, <2>3, <2>5
<1>19. IdsApart(t, Append(evs, e))
  BY <1>1, <1>11, IdsStayApart
<1>20. QED
  BY <1>16, <1>17, <1>18, <1>19

(* The threads of which no log is changed.                                 *)
LEMMA PairedStays ==
  ASSUME NEW u, PairsOk(u), events'[u] = events[u], exiter' = exiter
  PROVE  PairsOk(u)'
BY DEF PairsOk, PairedAt

(* A thread that does not exit calls a tracer.                             *)
LEMMA TracePaired ==
  ASSUME TracingInv, PairsInv, NEW t \in Threads \ {exiter}, NEW op \in LikwidCalls \cup TracerCalls,
         Trace(t, op)
  PROVE  PairsInv'
<1>1. PICK i : i = Head(Top(t).code)
  OBVIOUS
<1>2. /\ exiter' = exiter /\ \A u \in Threads \ {t} : events'[u] = events[u]
      /\ \/ events'[t] = events[t]
         \/ /\ env.papi /\ op \in TracerCalls
            /\ \E e \in EventRecords :
                 e.id = Narrow(i.id) /\ e.type = EventType[op] /\ events'[t] = Append(events[t], e)
  BY <1>1, PapiRecords
<1>3. PairsOk(t) /\ At(t, op)
  BY DEF PairsInv, Trace
<1>4. ASSUME events'[t] # events[t] PROVE PairsOk(t)'
  <2>1. env.papi /\ op \in TracerCalls
    BY <1>2, <1>4
  <2>2. PICK e \in EventRecords :
          e.id = Narrow(i.id) /\ e.type = EventType[op] /\ events'[t] = Append(events[t], e)
    BY <1>2, <1>4
  <2>3. PICK o : PairedAt(t, o)
    BY <1>3 DEF PairsOk
  <2>4. PICK evs : evs = events[t]
    OBVIOUS
  <2>5. evs \in Seq(EventRecords) /\ IdsApart(t, evs) /\ Nested(evs, o) /\ OpenMarks(evs) = NamesOf(evs, o)
    BY <1>3, <2>3, <2>4 DEF PairsOk, PairedAt, TracingInv, TypesOk
  <2>6. \E q : /\ Nested(Append(evs, e), q) /\ IdsApart(t, Append(evs, e))
               /\ OpenMarks(Append(evs, e)) = NamesOf(Append(evs, e), q)
    <3>1. CASE EventType[op] \notin Enters
      <4>1. /\ Nested(Append(evs, e), Fewer(o)) /\ IdsApart(t, Append(evs, e))
            /\ OpenMarks(Append(evs, e)) = NamesOf(Append(evs, e), Fewer(o))
        BY <1>1, <1>3, <2>1, <2>2, <2>3, <2>4, <2>5, <3>1, TraceExitPaired
      <4>2. QED
        BY <4>1
    <3>2. CASE EventType[op] \in Enters
      <4>1. IsEnter(e)
        BY <2>2, <3>2 DEF IsEnter
      <4>2. PICK q : q = Append(o, Len(evs) + 1)
        OBVIOUS
      <4>3. Nested(Append(evs, e), q) /\ NamesOf(Append(evs, e), q) = Append(NamesOf(evs, o), e.id)
        BY <2>5, <4>1, <4>2, NestedEnter
      <4>4. OpenMarks(Append(evs, e)) = Following(OpenMarks(evs), e)
        <5>1. PICK lib \in Libs : lib = "papi"
          BY DEF Libs
        <5>2. Recs(lib) = EventRecords
          BY <5>1 DEF Recs
        <5>3. QED
          BY <2>5, <5>2, RecordedOpen
      <4>5. Following(OpenMarks(evs), e) = Append(OpenMarks(evs), e.id)
        BY <4>1 DEF Following
      <4>6. /\ e.type = "RegionEnter" => e.id < 0
            /\ e.type = "ScopEnter" => e.id >= 0
        <5>1. /\ e.type = "RegionEnter" => e.id = i.id /\ i.id \in {-2, -3, -4}
              /\ e.type = "ScopEnter" => e.id \in Nat
          BY <1>1, <1>3, <2>1, <2>2, TracedId
        <5>2. QED
          BY <5>1
      <4>7. IdsApart(t, Append(evs, e))
        BY <2>5, <4>6, IdsStayApart
      <4>8. QED
        BY <2>5, <4>3, <4>4, <4>5, <4>7
    <3>3. QED
      BY <3>1, <3>2
  <2>7. PICK more : more = Append(evs, e)
    OBVIOUS
  <2>8. PICK q : Nested(more, q) /\ IdsApart(t, more) /\ OpenMarks(more) = NamesOf(more, q)
    BY <2>6, <2>7
  <2>9. events'[t] = more /\ exiter' = exiter /\ t # exiter
    BY <1>2, <2>2, <2>4, <2>7
  <2>10. PairedAt(t, q)'
    BY <2>8, <2>9 DEF PairedAt
  <2>11. QED
    BY <2>8, <2>9, <2>10 DEF PairsOk
<1>5. \A u \in Threads : PairsOk(u)'
  <2>1. TAKE u \in Threads
  <2>2. CASE u = t /\ events'[t] # events[t]
    BY <1>4, <2>2
  <2>3. CASE ~(u = t /\ events'[t] # events[t])
    BY <1>2, <2>3, PairedStays DEF PairsInv
  <2>4. QED
    BY <2>2, <2>3
<1>6. QED
  BY <1>5 DEF PairsInv

(* Only main's thread has anything open when it exits.                     *)
LEMMA ExiterPaired ==
  ASSUME PairsInv, exiter \in Threads, TypesOk
  PROVE  /\ events[exiter] \in Seq(EventRecords) /\ Len(events[exiter]) \in Nat
         /\ IdsApart(exiter, events[exiter])
         /\ \E o : /\ Nested(events[exiter], o) /\ DOMAIN o = 1..Len(o) /\ Len(o) \in Nat
                   /\ \A k \in 1..Len(o) : exiter = Main /\ o[k] \in {1, 2}
                   /\ exiter # Main => o = <<>>
<1>1. PICK t, evs : t = exiter /\ evs = events[exiter]
  OBVIOUS
<1>2. evs \in Seq(EventRecords) /\ IdsApart(t, evs) /\ \E o : PairedAt(t, o)
  BY <1>1 DEF PairsInv, PairsOk, TypesOk
<1>3. PICK o : Nested(evs, o) /\ \A k \in DOMAIN o : t = Main /\ o[k] \in {1, 2}
  BY <1>1, <1>2 DEF PairedAt
<1>4. Len(evs) \in Nat
  BY <1>2
<1>5. DOMAIN o = 1..Len(o) /\ Len(o) \in Nat /\ o \in Seq(1..Len(evs))
  BY <1>3, <1>4, OpenAt DEF Nested
<1>6. t # Main => o = <<>>
  <2>1. SUFFICES ASSUME t # Main PROVE o = <<>>
    OBVIOUS
  <2>2. DOMAIN o = {}
    BY <1>3, <2>1
  <2>3. Len(o) = 0
    BY <1>5, <2>2
  <2>4. QED
    BY <1>5, <2>3
<1>7. QED
  BY <1>1, <1>2, <1>3, <1>4, <1>5, <1>6

(* Nothing but exits is recorded by the thread that exits.                 *)
LEMMA ExiterRecords ==
  ASSUME PairsInv, exiter \in Threads, exiter' = exiter, \A u \in Threads \ {exiter} : events'[u] = events[u],
         TypesOk, NEW e \in EventRecords, e.type = "RegionExit",
         events'[exiter] = Append(events[exiter], e),
         exiter = Main => \E q : /\ Nested(Append(events[exiter], e), q)
                                 /\ \A k \in DOMAIN q : q[k] \in {1, 2}
  PROVE  PairsInv'
<1>1. PICK t, evs : t = exiter /\ evs = events[exiter]
  OBVIOUS
<1>2. evs \in Seq(EventRecords) /\ IdsApart(t, evs)
  BY <1>1, ExiterPaired
<1>3. PICK more : more = Append(evs, e)
  OBVIOUS
<1>4. IdsApart(t, more)
  BY <1>2, <1>3, IdsStayApart
<1>5. \E q : Nested(more, q) /\ \A k \in DOMAIN q : t = Main /\ q[k] \in {1, 2}
  <2>1. CASE exiter = Main
    BY <1>1, <1>3, <2>1
  <2>2. CASE exiter # Main
    <3>1. PICK o : Nested(evs, o) /\ o = <<>>
      BY <1>1, <2>2, ExiterPaired
    <3>2. ~IsEnter(e)
      BY DEF IsEnter, Enters, ExitOf
    <3>3. Nested(more, <<>>)
      BY <1>2, <1>3, <3>1, <3>2, NestedNone
    <3>4. DOMAIN <<>> = {}
      OBVIOUS
    <3>5. QED
      BY <3>3, <3>4
  <2>3. QED
    BY <2>1, <2>2
<1>6. PairsOk(t)'
  <2>1. PICK q : Nested(more, q) /\ \A k \in DOMAIN q : t = Main /\ q[k] \in {1, 2}
    BY <1>5
  <2>2. events'[t] = more /\ t = exiter'
    BY <1>1, <1>3
  <2>3. PairedAt(t, q)'
    BY <2>1, <2>2 DEF PairedAt
  <2>4. QED
    BY <1>4, <2>2, <2>3 DEF PairsOk
<1>7. \A u \in Threads : PairsOk(u)'
  BY <1>1, <1>6, PairedStays DEF PairsInv
<1>8. QED
  BY <1>7 DEF PairsInv

(* Main's region ends when main's thread has but it and the total open.    *)
LEMMA MainLeaves ==
  ASSUME NEW evs \in Seq(EventRecords), env.papi, MainEntered(evs),
         NEW o, Nested(evs, o), \A k \in 1..Len(o) : o[k] \in {1, 2},
         NEW e \in EventRecords, e.type = "RegionExit", e.id = PJIT_REGION_MAIN
  PROVE  \E q : Nested(Append(evs, e), q) /\ \A k \in DOMAIN q : q[k] \in {1, 2}
<1>1. Len(evs) \in Nat
  OBVIOUS
<1>2. Len(o) >= 2 /\ o[1] = 1 /\ o[2] = 2
  BY MainOpen
<1>3. /\ Len(o) \in Nat /\ DOMAIN o = 1..Len(o)
      /\ \A k, l \in 1..Len(o) : k < l => o[k] < o[l]
  BY <1>1, OpenAt
<1>4. Len(o) = 2
  <2>1. SUFFICES ASSUME Len(o) > 2 PROVE FALSE
    BY <1>2, <1>3
  <2>2. 2 \in 1..Len(o) /\ 3 \in 1..Len(o)
    BY <1>3, <2>1
  <2>3. o[2] < o[3] /\ o[3] \in {1, 2}
    BY <1>3, <2>2
  <2>4. QED
    BY <1>2, <2>3
<1>5. /\ evs[1].type = "RegionEnter" /\ evs[1].id = Total
      /\ evs[2].type = "RegionEnter" /\ evs[2].id = PJIT_REGION_MAIN
  BY DEF MainEntered
<1>6. Leaves(evs[2], e) /\ ~Leaves(evs[1], e) /\ ~IsEnter(e)
  BY <1>5 DEF Leaves, Total, PJIT_REGION_MAIN, ExitOf, IsEnter, Enters
<1>7. LeavesLast(evs, o, e)
  <2>1. PICK m, p : m = Len(o) /\ p = o[m]
    OBVIOUS
  <2>2. p = 2 /\ Leaves(evs[p], e)
    BY <1>2, <1>4, <1>6, <2>1
  <2>3. \A k \in 1..(m - 1) : ~Leaves(evs[o[k]], e)
    <3>1. \A k \in 1..(m - 1) : o[k] = 1
      BY <1>2, <1>4, <2>1
    <3>2. QED
      BY <1>6, <3>1
  <2>4. QED
    BY <2>1, <2>2, <2>3 DEF LeavesLast
<1>8. o # <<>>
  <2>1. 1 \in DOMAIN o
    BY <1>4, <1>3
  <2>2. DOMAIN <<>> = {}
    OBVIOUS
  <2>3. QED
    BY <2>1, <2>2
<1>9. Nested(Append(evs, e), Fewer(o))
  BY <1>6, <1>7, <1>8, NestedExit
<1>10. \A k \in DOMAIN Fewer(o) : Fewer(o)[k] \in {1, 2}
  <2>1. \A k \in 1..(Len(o) - 1) : k \in 1..Len(o)
    BY <1>3
  <2>2. QED
    BY <2>1 DEF Fewer
<1>11. QED
  BY <1>9, <1>10

(* Then the total does.                                                    *)
LEMMA TotalLeaves ==
  ASSUME NEW evs \in Seq(EventRecords), env.papi, MainLeft(evs),
         NEW o, Nested(evs, o), \A k \in 1..Len(o) : o[k] \in {1, 2},
         NEW e \in EventRecords, e.type = "RegionExit", e.id = Total
  PROVE  \E q : Nested(Append(evs, e), q) /\ \A k \in DOMAIN q : q[k] \in {1, 2}
<1>1. PICK L, m : L = Len(evs) /\ m = Len(o)
  OBVIOUS
<1>2. L \in Nat
  BY <1>1
<1>3. /\ m \in Nat /\ DOMAIN o = 1..m /\ \A k, l \in 1..m : k < l => o[k] < o[l]
  BY <1>1, <1>2, OpenAt
<1>4. PICK before \in Logs : Left(evs, PJIT_REGION_MAIN, before) /\ MainEntered(before)
  BY DEF MainLeft, MainRegion
<1>5. /\ Len(before) \in Nat /\ L = Len(before) + 1
      /\ evs[L].id = PJIT_REGION_MAIN /\ evs[L].type = "RegionExit"
      /\ \A i \in 1..Len(before) : evs[i] = before[i]
  <2>1. PICK R : R = EventRecords \cup MarkRecords
    OBVIOUS
  <2>2. evs \in Logs
    BY LogsAre
  <2>3. evs \in Seq(R) /\ before \in Seq(R)
    BY <1>4, <2>1, <2>2 DEF Logs
  <2>4. /\ Len(before) \in Nat /\ Len(evs) = Len(before) + 1
        /\ evs[Len(evs)].id = PJIT_REGION_MAIN /\ evs[Len(evs)].type = "RegionExit"
        /\ \A i \in 1..Len(before) : evs[i] = before[i]
    BY <1>4, <2>3, LeftIs
  <2>5. QED
    BY <1>1, <2>4
<1>6. /\ L > 2 /\ evs[1].type = "RegionEnter" /\ evs[1].id = Total
      /\ evs[2].type = "RegionEnter" /\ evs[2].id = PJIT_REGION_MAIN
      /\ \A i \in 1..(L - 1) : evs[i].type = "RegionExit" => evs[i].id \in Regions
  <2>1. /\ Len(before) >= 2 /\ before[1].type = "RegionEnter" /\ before[1].id = Total
        /\ before[2].type = "RegionEnter" /\ before[2].id = PJIT_REGION_MAIN
        /\ \A i \in DOMAIN before : before[i].type = "RegionExit" => before[i].id \in Regions
    BY <1>4 DEF MainEntered
  <2>2. DOMAIN before = 1..Len(before) /\ L - 1 = Len(before)
    BY <1>4, <1>5 DEF Logs
  <2>3. 1 \in 1..Len(before) /\ 2 \in 1..Len(before) /\ L > 2
    BY <1>5, <2>1
  <2>4. evs[1] = before[1] /\ evs[2] = before[2]
    BY <1>5, <2>3
  <2>5. QED
    BY <1>5, <2>1, <2>2, <2>3, <2>4
<1>7. \E k \in 1..m : o[k] = 1
  <2>1. \A j \in 1..L : ~Leaves(evs[1], evs[j])
    <3>1. TAKE j \in 1..L
    <3>2. Total \notin Regions /\ Total # PJIT_REGION_MAIN
      BY DEF Total, Regions, PJIT_REGION_MAIN, PJIT_REGION_CODEGEN, PJIT_REGION_GET_PROTOTYPE,
             PJIT_REGION_SELECT_PARAMS
    <3>3. CASE j = L
      BY <1>5, <1>6, <3>2, <3>3 DEF Leaves
    <3>4. CASE j # L
      <4>1. j \in 1..(L - 1)
        BY <1>2, <3>4
      <4>2. QED
        BY <1>6, <3>2, <4>1 DEF Leaves, ExitOf
    <3>5. QED
      BY <3>3, <3>4
  <2>2. ~Met(evs, 1)
    BY <1>1, <2>1 DEF Met, MeetsAt
  <2>3. IsEnter(evs[1]) /\ 1 \in 1..L
    BY <1>2, <1>6 DEF IsEnter, Enters, ExitOf
  <2>4. QED
    BY <1>1, <1>3, <2>2, <2>3 DEF Nested
<1>8. ASSUME NEW k \in 1..m PROVE o[k] = 1
  <2>1. SUFFICES ASSUME o[k] = 2 PROVE FALSE
    BY <1>1
  <2>2. StaysOpen(evs, 2)
    BY <1>1, <1>3, <2>1 DEF Nested
  <2>3. L \in 2..L
    BY <1>2, <1>6
  <2>4. ~Leaves(evs[2], evs[L])
    BY <1>1, <2>2, <2>3 DEF StaysOpen
  <2>5. QED
    BY <1>5, <1>6, <2>4 DEF Leaves, ExitOf
<1>9. m = 1
  <2>1. PICK k \in 1..m : o[k] = 1
    BY <1>7
  <2>2. SUFFICES ASSUME m > 1 PROVE FALSE
    BY <1>3, <2>1
  <2>3. 1 \in 1..m /\ 2 \in 1..m
    BY <1>3, <2>2
  <2>4. o[1] < o[2] /\ o[1] = 1 /\ o[2] = 1
    BY <1>3, <1>8, <2>3
  <2>5. QED
    BY <2>4
<1>10. Leaves(evs[1], e) /\ ~IsEnter(e)
  BY <1>6 DEF Leaves, ExitOf, IsEnter, Enters
<1>11. LeavesLast(evs, o, e)
  <2>1. PICK p : p = o[m]
    OBVIOUS
  <2>2. p = 1 /\ Leaves(evs[p], e)
    BY <1>8, <1>9, <1>10, <2>1
  <2>3. 1..(m - 1) = {}
    BY <1>9
  <2>4. QED
    BY <1>1, <2>1, <2>2, <2>3 DEF LeavesLast
<1>12. o # <<>>
  <2>1. 1 \in DOMAIN o
    BY <1>1, <1>9, <1>3
  <2>2. DOMAIN <<>> = {}
    OBVIOUS
  <2>3. QED
    BY <2>1, <2>2
<1>13. Nested(Append(evs, e), Fewer(o))
  BY <1>10, <1>11, <1>12, NestedExit
<1>14. \A k \in DOMAIN Fewer(o) : Fewer(o)[k] \in {1, 2}
  <2>1. \A k \in 1..(Len(o) - 1) : k \in 1..Len(o)
    BY <1>1, <1>9
  <2>2. QED
    BY <2>1 DEF Fewer
<1>15. QED
  BY <1>13, <1>14

(* The thread that exits leaves main's region.                             *)
LEMMA TraceExiterPaired ==
  ASSUME TracingInv, PairsInv, NEW op \in LikwidCalls \cup TracerCalls, exiter \in Threads, Trace(exiter, op)
  PROVE  PairsInv'
<1>1. PICK t : t = exiter
  OBVIOUS
<1>2. At(t, op) /\ exiter' = exiter /\ TypesOk /\ exiter # None
  BY <1>1, Assumptions DEF Trace, ending, TracingInv
<1>3. PICK n \in 1..7 : ExitAt(n)
  BY <1>2 DEF TracingInv, ExitOk
<1>4. stack[exiter] # <<>> /\ op = Head(Top(exiter).code).op /\ Exits(n) /\ exiter \in Apps
  BY <1>1, <1>2, <1>3 DEF At, ExitAt
<1>5. op = "polliTracingRegionStop"
  <2>1. op \in {"shutdown", "join", "polliTracingRegionStop", "finalize", "store"}
    BY <1>4, ExiterIn
  <2>2. QED
    BY <2>1 DEF LikwidCalls, TracerCalls
<1>6. PICK i, rest : i = RegionStop(PJIT_REGION_MAIN, "polyjit.main") /\ rest = Plain("finalize", None)
  OBVIOUS
<1>7. n = 3 /\ Doing("do_shutdown", <<i, rest>>)
  BY <1>4, <1>5, <1>6, ExiterIn
<1>8. i = Head(Top(t).code) /\ i.id = -1
  <2>1. PICK name : name = "do_shutdown"
    OBVIOUS
  <2>2. PICK fr : fr = RuntimeFrame(name, <<i, rest>>)
    OBVIOUS
  <2>3. Top(t) = fr
    BY <1>1, <1>7, <2>1, <2>2, Ends DEF Doing, Top
  <2>4. fr.code = <<i, rest>> /\ Head(fr.code) = i
        /\ Stepped(fr) = RuntimeFrame(name, <<rest>>) /\ ~Finished(Stepped(fr))
    BY <2>2, HandlerOfTwo
  <2>5. QED
    BY <1>6, <2>3, <2>4 DEF RegionStop, Instr, PJIT_REGION_MAIN
<1>9. PICK type : type = EventType[op]
  OBVIOUS
<1>10. type = "RegionExit" /\ type \in EventTypes /\ type \notin Enters /\ op \notin LikwidCalls
  BY <1>5, <1>9 DEF EventType, EventTypes, Enters, ExitOf, LikwidCalls
<1>11. IF env.papi THEN Record(t, i.id, type) ELSE UNCHANGED <<events, fault>>
  BY <1>1, <1>8, <1>9, <1>10 DEF Trace, Tracer
<1>12. CASE ~(env.papi /\ events[t] # <<>>)
  <2>1. events' = events
    BY <1>10, <1>11, <1>12 DEF Record
  <2>2. \A u \in Threads : PairsOk(u)'
    BY <1>2, <2>1, PairedStays DEF PairsInv
  <2>3. QED
    BY <2>2 DEF PairsInv
<1>13. CASE env.papi /\ events[t] # <<>>
  <2>1. PICK id \in Int : id = i.id
    BY <1>8
  <2>2. Record(t, id, type)
    BY <1>11, <1>13, <2>1
  <2>3. Narrow(id) = -1
    BY <1>8, <2>1, NarrowIs
  <2>4. PICK e \in EventRecords : e.id = -1 /\ e.type = type /\ events'[t] = Append(events[t], e)
    BY <1>1, <1>2, <1>10, <1>13, <2>2, <2>3, RecordIs
  <2>5. \A u \in Threads \ {t} : events'[u] = events[u]
    BY <1>1, <1>2, <1>10, <1>13, <2>2, RecordIs
  <2>6. ASSUME exiter = Main
        PROVE  \E q : Nested(Append(events[exiter], e), q) /\ \A k \in DOMAIN q : q[k] \in {1, 2}
    <3>1. PICK evs \in Seq(EventRecords) : evs = events[exiter]
      BY <1>2, ExiterPaired
    <3>2. MainEntered(evs)
      <4>1. InMain
        BY <1>3, <1>7 DEF ExitAt
      <4>2. QED
        BY <1>13, <2>6, <3>1, <4>1 DEF InMain, MainLog
    <3>3. PICK o : Nested(evs, o) /\ \A k \in 1..Len(o) : o[k] \in {1, 2}
      BY <1>2, <3>1, ExiterPaired
    <3>4. e.type = "RegionExit" /\ e.id = PJIT_REGION_MAIN
      BY <1>10, <2>4 DEF PJIT_REGION_MAIN
    <3>5. \E q : Nested(Append(evs, e), q) /\ \A k \in DOMAIN q : q[k] \in {1, 2}
      BY <1>13, <3>2, <3>3, <3>4, MainLeaves
    <3>6. QED
      BY <3>1, <3>5
  <2>7. QED
    BY <1>1, <1>2, <1>10, <2>4, <2>5, <2>6, ExiterRecords
<1>14. QED
  BY <1>12, <1>13

(* The handler of libpprof ends the total.                                 *)
LEMMA PapiAtexitPaired ==
  ASSUME TracingInv, PairsInv, NEW t \in Apps, PapiAtexit(t)
  PROVE  PairsInv'
<1>1. /\ At(t, "store") /\ Record(t, Total, "RegionExit") /\ UNCHANGED ending
  BY DEF PapiAtexit
<1>2. t \in Threads /\ t # None /\ TypesOk /\ exiter' = exiter
  BY <1>1, Assumptions DEF Threads, TracingInv, ending
<1>3. t = exiter
  BY <1>1, <1>2, GoesOn
<1>4. PICK n \in 1..7 : ExitAt(n)
  BY <1>2, <1>3 DEF TracingInv, ExitOk
<1>5. Exits(n) /\ stack[exiter] # <<>> /\ "store" = Head(Top(exiter).code).op
  BY <1>1, <1>3, <1>4 DEF ExitAt, At
<1>6. n = 6
  BY <1>5, ExiterIn
<1>7. env.papi /\ (exiter = Main => MainLeft(events[Main]))
  BY <1>4, <1>5, <1>6 DEF ExitAt, Exits, MainLog
<1>8. PICK type \in EventTypes : type = "RegionExit"
  BY DEF EventTypes
<1>9. PICK id \in Int : id = Total
  BY DEF Total
<1>10. Record(t, id, type) /\ type \notin Enters
  BY <1>1, <1>8, <1>9 DEF Enters, ExitOf
<1>11. CASE events[t] = <<>>
  <2>1. events' = events
    BY <1>10, <1>11 DEF Record
  <2>2. \A u \in Threads : PairsOk(u)'
    BY <1>2, <2>1, PairedStays DEF PairsInv
  <2>3. QED
    BY <2>2 DEF PairsInv
<1>12. CASE events[t] # <<>>
  <2>1. /\ \A u \in Threads \ {t} : events'[u] = events[u]
        /\ \E e \in EventRecords : e.id = Narrow(id) /\ e.type = type /\ events'[t] = Append(events[t], e)
    BY <1>2, <1>10, <1>12, RecordIs
  <2>2. PICK e \in EventRecords : e.id = Narrow(id) /\ e.type = type /\ events'[t] = Append(events[t], e)
    BY <2>1
  <2>3. e.id = Total
    <3>1. PICK w \in Nat \ {0} : w = 2 ^ IdBits
      BY Assumptions
    <3>2. Narrow(id) = 0 % w
      BY <1>9, <3>1 DEF Narrow, Total
    <3>3. 0 % w = 0
      BY <3>1
    <3>4. QED
      BY <2>2, <3>2, <3>3 DEF Total
  <2>4. ASSUME exiter = Main
        PROVE  \E q : Nested(Append(events[exiter], e), q) /\ \A k \in DOMAIN q : q[k] \in {1, 2}
    <3>1. PICK evs \in Seq(EventRecords) : evs = events[exiter]
      BY <1>2, <1>3, ExiterPaired
    <3>2. MainLeft(evs) /\ env.papi /\ e.type = "RegionExit"
      BY <1>7, <1>8, <2>2, <2>4, <3>1
    <3>3. PICK o : Nested(evs, o) /\ \A k \in 1..Len(o) : o[k] \in {1, 2}
      BY <1>2, <1>3, <3>1, ExiterPaired
    <3>4. \E q : Nested(Append(evs, e), q) /\ \A k \in DOMAIN q : q[k] \in {1, 2}
      BY <2>3, <3>2, <3>3, TotalLeaves
    <3>5. QED
      BY <3>1, <3>4
  <2>5. QED
    BY <1>2, <1>3, <1>8, <2>1, <2>2, <2>4, ExiterRecords
<1>13. QED
  BY <1>11, <1>12

(* A thread that has nothing to do exits with nothing open but main.       *)
LEMMA ProcessExitsPaired ==
  ASSUME TracingInv, PairsInv, NEW t \in Apps, ProcessExits(t)
  PROVE  PairsInv'
<1>1. stack[t] = <<>> /\ exiter = None /\ exiter' = t /\ events' = events /\ TypesOk
  BY DEF ProcessExits, Idle, tracing, papi, TracingInv
<1>2. t \in Threads \ {exiter} /\ None \notin Threads
  BY <1>1, Assumptions DEF Threads
<1>3. PICK evs \in Seq(EventRecords) : evs = events[t]
  BY <1>1, <1>2 DEF TypesOk
<1>4. PICK o : PairedAt(t, o)
  BY <1>2 DEF PairsInv, PairsOk
<1>5. Nested(evs, o) /\ OpenMarks(evs) = NamesOf(evs, o) /\ IdsApart(t, evs)
  BY <1>2, <1>3, <1>4 DEF PairedAt, PairsInv, PairsOk
<1>6. OpenMarks(evs) = Base("papi", t)
  <2>1. PICK lib \in Libs : lib = "papi"
    BY DEF Libs
  <2>2. OpenOk(lib, t, stack[t], Log(lib, t)) /\ Log(lib, t) = evs
    BY <1>2, <1>3, <2>1 DEF TracingInv, ThreadOk, Log
  <2>3. PICK s : s = stack[t]
    OBVIOUS
  <2>4. OpenOk(lib, t, s, evs) /\ s = <<>>
    BY <1>1, <2>2, <2>3
  <2>5. \A x, y : s # <<x>> /\ s # <<x, y>>
    BY <2>4, Ends
  <2>6. QED
    BY <2>1, <2>4, <2>5 DEF OpenOk
<1>7. t = Main /\ env.papi => MainEntered(evs)
  <2>1. InMain
    BY <1>1, <1>2, BeforeMainEnds, Assumptions DEF Threads
  <2>2. QED
    BY <1>3, <2>1 DEF InMain, MainLog
<1>8. \A k \in DOMAIN o : t = Main /\ o[k] \in {1, 2}
  <2>1. NamesOf(evs, o) = Base("papi", t)
    BY <1>5, <1>6
  <2>2. QED
    BY <1>5, <1>7, <2>1, ExitsPaired
<1>9. PairsOk(t)'
  <2>1. PairedAt(t, o)'
    BY <1>1, <1>3, <1>5, <1>8 DEF PairedAt
  <2>2. QED
    BY <1>1, <1>3, <1>5, <2>1 DEF PairsOk
<1>10. ASSUME NEW u \in Threads \ {t} PROVE PairsOk(u)'
  <2>1. u # exiter /\ u # exiter'
    BY <1>1, <1>2
  <2>2. PICK p : PairedAt(u, p) /\ IdsApart(u, events[u])
    BY DEF PairsInv, PairsOk
  <2>3. PairedAt(u, p)'
    BY <1>1, <2>1, <2>2 DEF PairedAt
  <2>4. QED
    BY <1>1, <2>2, <2>3 DEF PairsOk
<1>11. QED
  BY <1>9, <1>10 DEF PairsInv

(* Nothing else is recorded.                                               *)
LEMMA UnrecordedPaired ==
  ASSUME PairsInv, events' = events, exiter' = exiter
  PROVE  PairsInv'
<1>1. \A u \in Threads : PairsOk(u)'
  BY PairedStays DEF PairsInv
<1>2. QED
  BY <1>1 DEF PairsInv

(* Of the generator's steps, none by itself.                               *)
LEMMA GeneratorUnrecorded ==
  ASSUME RunGenerator
  PROVE  events' = events /\ exiter' = exiter
<1>1. CASE WakeUp
  BY <1>1 DEF WakeUp, tracing, papi, ending
<1>2. CASE TakeRequest
  BY <1>2 DEF TakeRequest, tracing, papi, ending
<1>3. CASE NoRequest
  BY <1>3 DEF NoRequest, tracing, papi, ending
<1>4. CASE Compile
  BY <1>4 DEF Compile, tracing, papi, ending
<1>5. CASE EndBatch
  BY <1>5 DEF EndBatch, tracing, papi, ending
<1>6. QED
  BY <1>1, <1>2, <1>3, <1>4, <1>5 DEF RunGenerator

(* Every step keeps logs nested.                                           *)
LEMMA NextPaired ==
  ASSUME TracingInv, PairsInv, [Next]_vars
  PROVE  PairsInv'
<1>1. CASE UNCHANGED vars
  BY <1>1, UnrecordedPaired DEF vars, tracing, papi, ending
<1>2. CASE RunGenerator
  BY <1>2, GeneratorUnrecorded, UnrecordedPaired
<1>3. ASSUME NEW t \in Threads, Run(t) PROVE PairsInv'
  <2>1. CASE Proceed(t)
    BY <2>1, UnrecordedPaired DEF Proceed, tracing, papi, ending
  <2>2. CASE Branch(t)
    BY <2>2, UnrecordedPaired DEF Branch, tracing, papi, ending
  <2>3. CASE ThreadInit(t)
    BY <2>3, UnrecordedPaired DEF ThreadInit, papi, ending
  <2>4. ASSUME NEW op \in LikwidCalls \cup TracerCalls, Trace(t, op) PROVE PairsInv'
    <3>1. CASE t = exiter
      BY <2>4, <3>1, TraceExiterPaired
    <3>2. CASE t # exiter
      BY <2>4, <3>2, TracePaired
    <3>3. QED
      BY <3>1, <3>2
  <2>5. QED
    BY <1>3, <2>1, <2>2, <2>3, <2>4 DEF Run
<1>4. ASSUME NEW t \in Apps, RunApp(t) PROVE PairsInv'
  <2>1. CASE RunVariant(t)
    BY <2>1, UnrecordedPaired DEF RunVariant, tracing, papi, ending
  <2>2. CASE CallSubFunction(t)
    BY <2>2, UnrecordedPaired DEF CallSubFunction, tracing, papi, ending
  <2>3. CASE Fork(t)
    BY <2>3, UnrecordedPaired DEF Fork, tracing, papi, ending
  <2>4. CASE Join(t)
    BY <2>4, UnrecordedPaired DEF Join, tracing, papi, ending
  <2>5. CASE ProcessExits(t)
    BY <2>5, ProcessExitsPaired
  <2>6. CASE RunHandler(t)
    BY <2>6, UnrecordedPaired DEF RunHandler, tracing, papi
  <2>7. CASE ShutDown(t)
    BY <2>7, UnrecordedPaired DEF ShutDown, tracing, papi, ending
  <2>8. CASE Finalize(t)
    BY <2>8, UnrecordedPaired DEF Finalize, papi, ending
  <2>9. CASE PapiAtexit(t)
    BY <2>9, PapiAtexitPaired
  <2>10. ASSUME NEW m, Call(t, m) PROVE PairsInv'
    BY <2>10, UnrecordedPaired DEF Call, tracing, papi, ending
  <2>11. QED
    BY <1>4, <2>1, <2>2, <2>3, <2>4, <2>5, <2>6, <2>7, <2>8, <2>9, <2>10 DEF RunApp
<1>5. QED
  BY <1>1, <1>2, <1>3, <1>4 DEF Next

(* Nothing is open in an empty log.                                        *)
LEMMA NestedEmpty ==
  ASSUME NEW evs, evs = <<>>, NEW o, o = <<>>
  PROVE  Nested(evs, o) /\ NamesOf(evs, o) = <<>>
<1>1. Len(evs) = 0 /\ DOMAIN o = {} /\ o \in Seq(1..0) /\ 1..0 = {}
  OBVIOUS
<1>2. Nested(evs, o)
  BY <1>1 DEF Nested
<1>3. NamesOf(evs, o) = [k \in {} |-> evs[o[k]].id]
  BY <1>1 DEF NamesOf
<1>4. [k \in {} |-> evs[o[k]].id] = <<>>
  OBVIOUS
<1>5. QED
  BY <1>2, <1>3, <1>4

(* Main's thread begins with two enters.                                   *)
LEMMA NestedTwo ==
  ASSUME NEW R, NEW a \in R, NEW b \in R, IsEnter(a), IsEnter(b), NEW two, two = <<a, b>>
  PROVE  \E o : Nested(two, o) /\ NamesOf(two, o) = <<a.id, b.id>>
<1>1. PICK none, o : none = <<>> /\ o = <<>>
  OBVIOUS
<1>2. none \in Seq(R) /\ Nested(none, o)
  <2>1. none \in Seq(R)
    BY <1>1
  <2>2. Nested(none, o)
    BY <1>1, NestedEmpty
  <2>3. QED
    BY <2>1, <2>2
<1>3. PICK one, p : one = Append(none, a) /\ p = Append(o, Len(none) + 1)
  OBVIOUS
<1>4. Nested(one, p) /\ NamesOf(one, p) = Append(NamesOf(none, o), a.id)
  <2>1. /\ Nested(Append(none, a), Append(o, Len(none) + 1))
        /\ NamesOf(Append(none, a), Append(o, Len(none) + 1)) = Append(NamesOf(none, o), a.id)
    BY <1>2, NestedEnter
  <2>2. QED
    BY <1>3, <2>1
<1>5. PICK q : Nested(two, q) /\ NamesOf(two, q) = Append(NamesOf(one, p), b.id)
  <2>1. one \in Seq(R)
    BY <1>2, <1>3
  <2>2. /\ Nested(Append(one, b), Append(p, Len(one) + 1))
        /\ NamesOf(Append(one, b), Append(p, Len(one) + 1)) = Append(NamesOf(one, p), b.id)
    BY <1>4, <2>1, NestedEnter
  <2>3. Append(one, b) = two
    <3>1. one = <<a>>
      BY <1>1, <1>3, Ends
    <3>2. Append(<<a>>, b) = <<a, b>>
      BY Ends
    <3>3. QED
      BY <3>1, <3>2
  <2>4. QED
    BY <2>2, <2>3
<1>6. PICK m, n : m = a.id /\ n = b.id
  OBVIOUS
<1>7. NamesOf(two, q) = <<m, n>>
  <2>1. NamesOf(none, o) = <<>>
    BY <1>1, NestedEmpty
  <2>2. NamesOf(one, p) = <<m>>
    BY <1>4, <1>6, <2>1, Ends
  <2>3. QED
    BY <1>5, <1>6, <2>2, Ends
<1>8. QED
  BY <1>5, <1>6, <1>7

(* In the beginning main's region is open, or nothing is.                  *)
LEMMA InitPaired ==
  ASSUME Init
  PROVE  PairsInv
<1>1. /\ exiter = None /\ Main \in Threads /\ None \notin Threads
      /\ \A t \in Threads : OpenMarks(events[t]) = Base("papi", t)
  <2>1. exiter = None /\ Main \in Threads /\ None \notin Threads
    BY Assumptions DEF Init, Threads
  <2>2. PICK lib \in Libs : lib = "papi"
    BY DEF Libs
  <2>3. \A t \in Threads : OpenMarks(Log(lib, t)) = Base(lib, t) /\ Log(lib, t) = events[t]
    BY <2>2, InitLogs DEF Log
  <2>4. QED
    BY <2>1, <2>2, <2>3
<1>2. PICK a, b : a = Event(Total, "RegionEnter", 0) /\ b = Event(PJIT_REGION_MAIN, "RegionEnter", 1)
  OBVIOUS
<1>3. PICK two : two = <<a, b>>
  OBVIOUS
<1>4. \A t \in Threads : events[t] = IF t = Main /\ env.papi THEN two ELSE <<>>
  <2>1. Tracer = "PapiTracer" <=> env.papi
    BY DEF Tracer
  <2>2. QED
    BY <1>2, <1>3, <2>1 DEF Init
<1>5. /\ a \in EventRecords /\ a.id = Total /\ a.type = "RegionEnter" /\ IsEnter(a)
      /\ b \in EventRecords /\ b.id = PJIT_REGION_MAIN /\ b.type = "RegionEnter" /\ IsEnter(b)
  BY <1>2 DEF Event, EventRecords, Total, PJIT_REGION_MAIN, EventTypes, IsEnter, Enters, ExitOf
<1>6. DOMAIN two = {1, 2} /\ two[1] = a /\ two[2] = b
  BY <1>3
<1>7. ASSUME NEW t \in Threads, t = Main, env.papi PROVE PairsOk(t)
  <2>1. PICK m, n : m = a.id /\ n = b.id
    OBVIOUS
  <2>2. PICK o : Nested(two, o) /\ NamesOf(two, o) = <<m, n>>
    BY <1>3, <1>5, <2>1, NestedTwo
  <2>3. Base("papi", t) = <<m, n>>
    BY <1>5, <1>7, <2>1 DEF Base
  <2>4. events[t] = two /\ t # exiter /\ OpenMarks(two) = NamesOf(two, o)
    BY <1>1, <1>4, <1>7, <2>2, <2>3
  <2>5. PairedAt(t, o)
    BY <2>2, <2>4 DEF PairedAt
  <2>6. IdsApart(t, two)
    BY <1>5, <1>6, <1>7 DEF IdsApart, PJIT_REGION_MAIN
  <2>7. QED
    BY <2>4, <2>5, <2>6 DEF PairsOk
<1>8. ASSUME NEW t \in Threads, ~(t = Main /\ env.papi) PROVE PairsOk(t)
  <2>1. PICK evs, o : evs = <<>> /\ o = <<>>
    OBVIOUS
  <2>2. Nested(evs, o) /\ NamesOf(evs, o) = <<>>
    BY <2>1, NestedEmpty
  <2>3. Base("papi", t) = <<>>
    BY <1>8 DEF Base
  <2>4. events[t] = evs /\ t # exiter /\ OpenMarks(evs) = NamesOf(evs, o)
    BY <1>1, <1>4, <1>8, <2>1, <2>2, <2>3
  <2>5. PairedAt(t, o)
    BY <2>2, <2>4 DEF PairedAt
  <2>6. IdsApart(t, evs)
    BY <2>1 DEF IdsApart
  <2>7. QED
    BY <2>4, <2>5, <2>6 DEF PairsOk
<1>9. QED
  BY <1>7, <1>8 DEF PairsInv

(* In every reachable state the enters of a thread's log that have not     *)
(* met their exits are those that are open, one inside the other.          *)
THEOREM LogsAreNested == Spec => []PairsInv
<1>1. Init => PairsInv
  BY InitPaired
<1>2. TracingInv /\ PairsInv /\ [Next]_vars => PairsInv'
  BY NextPaired
<1>3. QED
  BY <1>1, <1>2, TracingInvariant, PTL DEF Spec

(* When all is recorded, the exit that the analysis takes for an enter is  *)
(* its partner.                                                            *)
LEMMA ExitsFromInv ==
  ASSUME TypesOk, PairsInv
  PROVE  EntersMeetTheirExits
<1>1. SUFFICES ASSUME NEW t \in Threads, NEW i \in DOMAIN events[t], IsEnter(events[t][i])
               PROVE  MatchingExit(events[t], i) = Partner(events[t], i)
  BY DEF EntersMeetTheirExits
<1>2. PICK evs \in Seq(EventRecords) : evs = events[t]
  BY DEF TypesOk
<1>3. PICK o : Nested(evs, o)
  BY <1>2 DEF PairsInv, PairsOk, PairedAt
<1>4. i \in DOMAIN evs /\ IsEnter(evs[i])
  BY <1>1, <1>2
<1>5. MatchingExit(evs, i) = Partner(evs, i)
  BY <1>3, <1>4, NestedMeets
<1>6. QED
  BY <1>2, <1>5

(* The analysis of a log measures every region and every scop from an      *)
(* enter to the exit that its nesting gives it, although it looks for the  *)
(* id and the type alone, and takes the first that it meets.               *)
THEOREM ExitsAreMet == Spec => []EntersMeetTheirExits
<1>1. TracingInv /\ PairsInv => EntersMeetTheirExits
  BY ExitsFromInv DEF TracingInv
<1>2. QED
  BY <1>1, TracingInvariant, LogsAreNested, PTL

=============================================================================
