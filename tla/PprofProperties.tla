-------------------------- MODULE PprofProperties --------------------------
(***************************************************************************)
(* What the profiling runtime and the analysis of its runs promise.        *)
(***************************************************************************)
EXTENDS Pprof

AllIds == UNION {Ids[t] : t \in Threads}
EventType == [id : AllIds \cup {Total}, type : EventTypes, at : Nat]

(* The types of the variables. Every list in use exists, and a thread      *)
(* records only once it has one.                                           *)
TypeOK ==
  /\ began \in BOOLEAN /\ papiInit \in BOOLEAN
  /\ todo \in [Threads -> Seq({"flag", "search", "link", "register", "start", "record"})]
  /\ entering \in [Threads -> AllIds \cup {NoId}]
  /\ open \in [Threads -> Seq(AllIds)] /\ strays \in [Threads -> Nat]
  /\ seen \in [Threads -> [Threads -> 0..Len(lists)]]
  /\ threadInit \in [Threads -> BOOLEAN]
  /\ lists \in Seq(Seq(EventType))
  /\ node \in [Threads -> 0..Len(lists)] /\ local \in [Threads -> 0..Len(lists)]
  /\ atExit \in Seq({"handler", "destructor"}) /\ exiter \in Threads \cup {NoThread}
  /\ phase \in {"running", "exit", "copy", "store", "clear", "over", "fault", "closed"}
  /\ db \in {"none", "open", "closed"}
  /\ toDb \in Seq(Seq(EventType)) /\ toFile \in Seq(Seq(EventType))
  /\ log \in [Threads -> Seq(EventType)]
  /\ \A t \in Threads : log[t] # <<>> => local[t] # NoList

-----------------------------------------------------------------------------
(* A process whose only profiled thread is the one that exits stores all   *)
(* that was recorded, in order and as one run, wherever in a scop it       *)
(* exits. If the handler was registered twice, its second run ends the     *)
(* process on the closed connection, and only the STOP it has added is     *)
(* lost.                                                                   *)
Alone == {t \in Threads : local[t] # NoList \/ todo[t] # <<>>} = {exiter}
SingleThreadComplete ==
  UseDb /\ ExecuteAtexit /\ Alone =>
    /\ phase = "over" => FlattenSeq(toDb) = log[exiter]
    /\ phase = "closed" => FlattenSeq(toDb) = Front(log[exiter])
    /\ phase \in {"over", "closed"} => Len(toDb) <= 1

(* The runtime implements ProfileLog: what is stored are pieces of what    *)
(* the exiting thread has recorded, each without gaps and up to the last   *)
(* event, and no event twice, also when threads race for the map and when  *)
(* the handler runs more than once.                                        *)
Profile == INSTANCE ProfileLog WITH
  Threads <- Threads, Nobody <- NoThread, log <- log, exiter <- exiter, stored <- toDb
ImplementsProfileLog == Profile!Spec

-----------------------------------------------------------------------------
(* The analysis of a run.                                                  *)

(* The analysis of raw events deducts the time of inner scops from outer   *)
(* ones: the sum is the time in which at least one scop is open, also when *)
(* scops are entered recursively.                                          *)
RawTimeCovered ==
  phase = "over" => \A t \in Threads :
    WellNested(log[t]) => RawTime(log[t]) = Covered(log[t])

(* So does the analysis of simplified events, which counts outermost scops *)
(* only, as long as no scop is entered within one of its id.               *)
SimpleTimeCovered ==
  phase = "over" => \A i \in DOMAIN toDb :
    WellNested(toDb[i]) /\ ~Recursive(toDb[i]) =>
      SimpleTime(SimplifiedRun(toDb[i])) = Covered(toDb[i])

(* Whatever scops are left open, left by an exception or entered           *)
(* recursively: in a run that begins with its START the time in scops is   *)
(* at most the total. (A thread that has recorded before main sets up the  *)
(* library has its START later, and the scops before it are counted.)      *)
BeginsWithStart(evs) == evs # <<>> /\ evs[1].id = Total /\ evs[1].type = "RegionEnter"
ScopsWithinTotal ==
  phase = "over" => \A i \in DOMAIN toDb :
    LET run == SimplifiedRun(toDb[i])
    IN  BeginsWithStart(toDb[i]) => SimpleTime(run) <= SimpleTotal(run)

-----------------------------------------------------------------------------
(* "Persist all measurement data in the backend."                          *)
AllPersisted ==
  phase = "over" => \A t \in Threads :
    ToSet(log[t]) \subseteq ToSet(FlattenSeq(toDb)) \cup ToSet(FlattenSeq(toFile))
=============================================================================
