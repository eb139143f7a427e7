------------------------- MODULE TracingProperties -------------------------
(***************************************************************************)
(* What tracing promises.                                                  *)
(***************************************************************************)
EXTENDS Tracing

Functions == UNION {DOMAIN Modules[m] : m \in DOMAIN Modules}
RegionNames == {"polyjit.main", "polyjit.codegen", "polyjit.prototype.get",
                "polyjit.params.select"}

(* The types of the variables. Whoever has recorded an event has begun     *)
(* with an enter, which made its list, and only exiting can fault.         *)
TypeOK ==
  /\ env \in [papi : BOOLEAN, likwid : BOOLEAN]
  /\ \A t \in Threads : \A i \in DOMAIN stack[t] :
       /\ stack[t][i].mod \in DOMAIN Modules \cup {"runtime"}
       /\ stack[t][i].mod # "runtime" => stack[t][i].fn \in DOMAIN Modules[stack[t][i].mod]
  /\ calls \in [Apps -> Nat]
  /\ work \in Seq(DOMAIN Modules) /\ compiled \subseteq DOMAIN Modules
  /\ generator \in {"asleep", "busy", "told", "ending", "over"}
  /\ atexits \in Seq({"do_shutdown", "papi_atexit_handler", "~PolyJIT"})
  /\ exiter \in Apps \cup {None} /\ fault \in BOOLEAN
  /\ \A t \in Threads : \A i \in DOMAIN events[t] :
       events[t][i] \in [id : Int, type : EventTypes, at : Nat]
  /\ \A t \in Threads : events[t] # <<>> => events[t][1].type \in Enters
  /\ likwid \in {"off", "on", "closed"} /\ ready \subseteq Threads
  /\ \A t \in Threads : \A i \in DOMAIN marks[t] :
       marks[t][i] \in [id : Functions \cup RegionNames, type : EventTypes, at : Nat,
                        lib : {"off", "on", "closed"}, known : BOOLEAN]
  /\ fault => exiter \notin {Main, None}

-----------------------------------------------------------------------------
(* What has been entered and not left, innermost last.                     *)
IsEnter(e) == e.type \in Enters
Following(open, e) ==
  CASE IsEnter(e) -> Append(open, e.id)
    [] ~IsEnter(e) /\ open # <<>> -> Front(open)
    [] OTHER -> <<"unopened">>
OpenMarks(evs) ==
  LET open[n \in 0..Len(evs)] == IF n = 0 THEN <<>> ELSE Following(open[n - 1], evs[n])
  IN  open[Len(evs)]

(* "Place likwidMarker* calls in parallel regions", and in all functions   *)
(* where there is no parallel region. What a function with parallel loops  *)
(* does between them is not measured.                                      *)
Measured(m, f) == SubFunctions(Modules[m]) \in {{}, {f} \cup SubFunctions(Modules[m])}

(* While a thread works on a scop, what is open is the mark of the         *)
(* function it runs and that of main if it runs main, nothing else, with   *)
(* either library, whichever return the functions before have left by.     *)
(* Outside of the runtime and its variants only main's region is open.     *)
OpenIn(t) ==
  [papi |-> (IF t = Main THEN <<Total, PJIT_REGION_MAIN>> ELSE <<>>)
            \o (IF At(t, "work") /\ Measured(Top(t).mod, Top(t).fn)
                THEN <<Narrow(ScopId(Top(t).mod, Top(t).fn))>> ELSE <<>>),
   likwid |-> (IF t = Main /\ ~env.papi THEN <<"polyjit.main">> ELSE <<>>)
              \o (IF At(t, "work") /\ Measured(Top(t).mod, Top(t).fn)
                  THEN <<Top(t).fn>> ELSE <<>>)]
MarkersFollowCalls ==
  \A t \in Threads \ {exiter} : At(t, "work") \/ Idle(t) =>
    /\ env.papi => OpenMarks(events[t]) = OpenIn(t).papi
    /\ env.likwid => OpenMarks(marks[t]) = OpenIn(t).likwid

(* Functions share ids: all parallel ones have the address of one loop     *)
(* variable, and addresses are cut to the width of an id. Still the        *)
(* analysis pairs each enter with its own exit, the one before which as    *)
(* much is left as is entered after it.                                    *)
Partner(evs, i) ==
  LET entered(j) == {k \in i..j : IsEnter(evs[k])}
      closed == {j \in i..Len(evs) : Cardinality(entered(j)) * 2 = j - i + 1}
  IN  IF closed = {} THEN i ELSE Min(closed)
EntersMeetTheirExits ==
  Over => \A t \in Threads : \A i \in DOMAIN events[t] :
    IsEnter(events[t][i]) => MatchingExit(events[t], i) = Partner(events[t], i)

-----------------------------------------------------------------------------
(* LIKWID is asked to measure only while it is initialised, and threads    *)
(* announce themselves first. Known exceptions: when both variables are    *)
(* set, the tracer is libpprof's and nobody initialises LIKWID; a thread   *)
(* may go on while another one exits; threads other than main and the      *)
(* workers are never announced.                                            *)
LikwidReady ==
  \A t \in Threads : \A i \in DOMAIN marks[t] :
    LET mark == marks[t][i] IN
    /\ mark.lib = "off" => env.papi
    /\ mark.lib = "closed" => t # exiter
    /\ t \in Teams \/ (t = Main /\ ~env.papi) => mark.known

(* "Make sure to initialize tracing before planting the atexit handler."   *)
(* When the main thread exits, the region of main has ended before its     *)
(* tracer's data are stored, and encloses all that the thread has done.    *)
MainRegionMeasured ==
  Over /\ exiter = Main =>
    /\ env.papi =>
         /\ stored = <<events[Main]>>
         /\ MatchingExit(events[Main], 1) = Len(events[Main])
         /\ MatchingExit(events[Main], 2) = Len(events[Main]) - 1
    /\ env.likwid /\ ~env.papi =>
         /\ MatchingExit(marks[Main], 1) = Len(marks[Main])
         /\ Last(marks[Main]).lib = "on"
=============================================================================
