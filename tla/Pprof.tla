------------------------------- MODULE Pprof -------------------------------
(***************************************************************************)
(* The profiling runtime, lib/pprof/libpprof.cpp: threads of a profiled    *)
(* process record the scops they enter and leave, and an exit handler      *)
(* stores what was recorded.                                               *)
(***************************************************************************)
EXTENDS PprofAnalysis

CONSTANTS
  Threads, Main,      \* the threads, the one that runs main
  Ids,                \* the ids of the scops in the code each thread runs
  MainIsInstrumented, \* whether main calls papi_region_setup
  UseDb, UseFile,     \* the backends
  ExecuteAtexit,      \* PPROF_ENABLE
  Gaps,               \* the time between a thread's events, in turn
  MaxEnters           \* bound: how many scops each thread enters, or leaves
                      \*   without having entered them

ASSUME Assumptions ==
  /\ Main \in Threads /\ "none" \notin Threads
  /\ Ids \in [Threads -> SUBSET (Nat \ {Total})]
  /\ MainIsInstrumented \in BOOLEAN /\ ExecuteAtexit \in BOOLEAN
  /\ UseDb \in BOOLEAN /\ UseFile \in BOOLEAN
  /\ Gaps \in Seq(Nat \ {0}) /\ Gaps # <<>>
  /\ MaxEnters \in [Threads -> Nat]

VARIABLES
  began,      \* main has begun
  todo,       \* what is left of the call of libpprof a thread is in
  entering,   \* the scop it is about to enter
  open,       \* the scops it is in
  seen,       \* the map as it has seen it
  threadInit, \* papi_thread_init
  papiInit,   \* papi_init
  lists,      \* the event lists
  node,       \* PapiThreadedEvents, a thread's list or none
  local,      \* PapiLocalEvents, a thread's list or none
  strays,     \* exits it has met without an enter
  atExit,     \* what exit has to run, the last one first: the handler, and
              \*   the destructor of the DBConnection
  exiter,     \* the thread that exits
  phase,      \* where it is in exit and in the handler, or what ended the process
  db,         \* the static DBConnection
  toDb, toFile, \* the runs handed to the backends
  log         \* all a thread has recorded (for the properties)

calls == <<began, todo, entering, open, strays>>
init == <<seen, threadInit, papiInit, node, local>>
ending == <<atExit, exiter, phase, db, toDb, toFile>>
vars == <<calls, init, lists, ending, log>>

NoThread == "none"
NoList == 0
NoId == 0
Nothing == [t \in Threads |-> NoList]

Init ==
  /\ began = FALSE
  /\ todo = [t \in Threads |-> <<>>]
  /\ entering = [t \in Threads |-> NoId]
  /\ open = [t \in Threads |-> <<>>]
  /\ threadInit = [t \in Threads |-> FALSE]
  /\ papiInit = FALSE
  /\ lists = <<>>
  /\ node = Nothing
  /\ seen = [t \in Threads |-> Nothing]
  /\ local = Nothing
  /\ strays = [t \in Threads |-> 0]
  /\ atExit = <<>>
  /\ exiter = NoThread
  /\ phase = "running"
  /\ db = "none"
  /\ toDb = <<>>
  /\ toFile = <<>>
  /\ log = [t \in Threads |-> <<>>]

(* Threads run until the process is over, the one that exits does not.     *)
Runs(t) == phase \notin {"over", "fault", "closed"} /\ exiter # t
InUserCode(t) == Runs(t) /\ todo[t] = <<>>
At(t, step) == Runs(t) /\ todo[t] # <<>> /\ Head(todo[t]) = step
Advance(t) == todo' = [todo EXCEPT ![t] = Tail(@)]

Nodes == {t \in Threads : node[t] # NoList}

(* An event is appended through the thread's own pointer. Timestamps of a  *)
(* thread ascend, those of two threads are never compared.                 *)
Now(t) ==
  (IF log[t] = <<>> THEN 0 ELSE Last(log[t]).at) + Gaps[(Len(log[t]) % Len(Gaps)) + 1]
Push(t, id, type) ==
  LET e == Event(id, type, Now(t))
  IN  /\ lists' = [lists EXCEPT ![local[t]] = Append(@, e)]
      /\ log' = [log EXCEPT ![t] = Append(@, e)]

-----------------------------------------------------------------------------
(* Initialization.                                                         *)

Attach == <<"search", "link">>

(* papi_region_setup, and in it do_papi_thread_init_once.                  *)
Setup(t) ==
  <<"flag">> \o (IF threadInit[t] THEN <<>> ELSE Attach) \o <<"register", "start">>

(* do_papi_thread_init_once. After a setup it goes on where it was.        *)
\* mutant: one flag for the process
InitOnce(t) == IF papiInit THEN <<>> ELSE Setup(t)
ThreadInitOnce(t) ==
  CASE threadInit[t] -> <<>>
    [] ~threadInit[t] /\ papiInit -> Attach
    [] OTHER -> Setup(t) \o Attach

(* The code that the initialization pass puts into main. Static            *)
(* constructors may have recorded events before.                           *)
MainBegins ==
  /\ MainIsInstrumented /\ ~began
  /\ InUserCode(Main)
  /\ began' = TRUE
  /\ todo' = [todo EXCEPT ![Main] = Setup(Main)]
  /\ UNCHANGED <<entering, open, strays, init, lists, ending, log>>

SetFlag(t) ==
  /\ At(t, "flag")
  /\ papiInit' = TRUE
  /\ Advance(t)
  /\ UNCHANGED <<began, entering, open, strays, seen, threadInit, node, local, lists, ending, log>>

(* operator[] of the map looks for the thread's node,                      *)
Search(t) ==
  /\ At(t, "search")
  /\ seen' = [seen EXCEPT ![t] = node]
  /\ Advance(t)
  /\ UNCHANGED <<began, entering, open, strays, threadInit, papiInit, node, local, lists, ending, log>>

(* and links a new one where it found none. The nodes that other threads   *)
(* have linked in between are still in the map, or are not any more.       *)
NotFound(t) == NoList                    \* mutant: the thread's node is replaced
Found(t) == seen[t][t]
Undone(t) == [u \in Threads |-> IF seen[t][u] = NoList THEN NoList ELSE node[u]]
Link(t) ==
  /\ At(t, "link")
  /\ IF Found(t) # NoList
     THEN /\ local' = [local EXCEPT ![t] = Found(t)]
          /\ UNCHANGED <<node, lists>>
     ELSE /\ lists' = Append(lists, <<>>)
          /\ local' = [local EXCEPT ![t] = Len(lists')]
          /\ \E map \in {node, Undone(t)} : node' = [map EXCEPT ![t] = Len(lists')]
  /\ threadInit' = [threadInit EXCEPT ![t] = TRUE]
  /\ seen' = [seen EXCEPT ![t] = Nothing]
  /\ Advance(t)
  /\ UNCHANGED <<began, entering, open, strays, papiInit, ending, log>>

Register(t) ==
  /\ At(t, "register")
  /\ atExit' = Append(atExit, "handler")
  /\ Advance(t)
  /\ UNCHANGED <<began, entering, open, strays, init, lists, exiter, phase, db, toDb, toFile, log>>

Start(t) ==
  /\ At(t, "start")
  /\ Push(t, Total, "RegionEnter")
  /\ Advance(t)
  /\ UNCHANGED <<began, entering, open, strays, init, ending>>

-----------------------------------------------------------------------------
(* Recording.                                                              *)

Entered(t) == Cardinality({i \in DOMAIN log[t] : log[t][i].type = "ScopEnter"})
MayGoOn(t) == Entered(t) + strays[t] < MaxEnters[t]

(* papi_region_enter_scop                                                  *)
Enter(t, id) ==
  /\ InUserCode(t)
  /\ MayGoOn(t)
  /\ entering' = [entering EXCEPT ![t] = id]
  /\ todo' = [todo EXCEPT ![t] = ThreadInitOnce(t) \o <<"record">>]
  /\ UNCHANGED <<began, open, strays, init, lists, ending, log>>

Record(t) ==
  /\ At(t, "record")
  /\ Push(t, entering[t], "ScopEnter")
  /\ open' = [open EXCEPT ![t] = Append(@, entering[t])]
  /\ entering' = [entering EXCEPT ![t] = NoId]
  /\ Advance(t)
  /\ UNCHANGED <<began, strays, init, ending>>

(* papi_region_exit_scop, where control leaves a scop,                     *)
Exit(t) ==
  /\ InUserCode(t)
  /\ open[t] # <<>>
  /\ Push(t, Last(open[t]), "ScopExit")
  /\ open' = [open EXCEPT ![t] = Front(@)]
  /\ UNCHANGED <<began, todo, entering, strays, init, ending>>

(* unless it leaves by an exception or longjmp.                            *)
Unwind(t) ==
  /\ InUserCode(t)
  /\ open[t] # <<>>
  /\ open' = [open EXCEPT ![t] = Front(@)]
  /\ UNCHANGED <<began, todo, entering, strays, init, lists, ending, log>>

(* Control may come to an exit on a path on which no enter was put.        *)
Stray(t, id) ==
  /\ InUserCode(t) /\ local[t] # NoList
  /\ MayGoOn(t)
  /\ strays' = [strays EXCEPT ![t] = @ + 1]
  /\ Push(t, id, "ScopExit")
  /\ UNCHANGED <<began, todo, entering, open, init, ending>>

(* A thread that has recorded nothing has no list for it.                  *)
StrayFault(t) ==
  /\ InUserCode(t) /\ local[t] = NoList
  /\ MayGoOn(t)
  /\ phase' = "fault"
  /\ UNCHANGED <<calls, init, lists, atExit, exiter, db, toDb, toFile, log>>

-----------------------------------------------------------------------------
(* papi_atexit_handler. exit runs it once for each time it was registered. *)

ProcessExits(t) ==
  /\ InUserCode(t) /\ exiter = NoThread
  /\ exiter' = t
  /\ phase' = "exit"
  /\ UNCHANGED <<calls, init, lists, atExit, db, toDb, toFile, log>>

Handles(kind) == phase = "exit" /\ atExit # <<>> /\ Last(atExit) = kind /\ atExit' = Front(atExit)

(* The handler adds STOP, unless it has been disabled. A thread without    *)
(* events has no list for it.                                              *)
Stop ==
  /\ Handles("handler")
  /\ IF ~ExecuteAtexit THEN UNCHANGED <<phase, lists, log>>
     ELSE IF local[exiter] = NoList THEN phase' = "fault" /\ UNCHANGED <<lists, log>>
     ELSE phase' = "copy" /\ Push(exiter, Total, "RegionExit")
  /\ UNCHANGED <<calls, init, exiter, db, toDb, toFile>>

(* ~DBConnection. The handlers that were registered before the connection  *)
(* was made are still to run.                                              *)
Disconnect ==
  /\ Handles("destructor")
  /\ db' = "closed"
  /\ UNCHANGED <<calls, init, lists, exiter, phase, toDb, toFile, log>>

ProcessEnds ==
  /\ phase = "exit" /\ atExit = <<>>
  /\ phase' = "over"
  /\ UNCHANGED <<calls, init, lists, atExit, exiter, db, toDb, toFile, log>>

(* The sizes of all lists are summed up over copies of them.               *)
Copy ==
  /\ phase = "copy"
  /\ phase' = "store"
  /\ UNCHANGED <<calls, init, lists, atExit, exiter, db, toDb, toFile, log>>

(* A thread that records meanwhile may move its list, one that links its   *)
(* node may turn the map around.                                           *)
CopyFault(t) ==
  /\ phase = "copy"
  /\ Runs(t) /\ (t \in Nodes \/ At(t, "link"))
  /\ phase' = "fault"
  /\ UNCHANGED <<calls, init, lists, atExit, exiter, db, toDb, toFile, log>>

(* The file is appended to, unless the backend is off. What is appended is *)
(* PapiEvents, to which no thread ever adds an event.                      *)
PapiEvents == <<>>
FileStoreRun(run) == toFile' = IF UseFile THEN Append(toFile, run) ELSE toFile

(* The database gets the list the map has for the exiting thread.          *)
\* mutant: the first list of the map
FirstIn(map, t) == Min({map[u] : u \in Threads} \ {NoList})
ListIn(map, t) == map[t]
Connect == IF db = "none" THEN Append(atExit, "destructor") ELSE atExit
Store ==
  /\ phase = "store" /\ (UseDb => db # "closed")
  /\ IF UseDb /\ exiter \notin Nodes
     THEN /\ lists' = Append(lists, <<>>)
          /\ node' = [node EXCEPT ![exiter] = Len(lists')]
     ELSE UNCHANGED <<lists, node>>
  /\ IF UseDb
     THEN /\ toDb' = Append(toDb, lists'[ListIn(node', exiter)])
          /\ db' = "open"
          /\ atExit' = Connect
     ELSE UNCHANGED <<toDb, db, atExit>>
  /\ FileStoreRun(PapiEvents)
  /\ phase' = "clear"
  /\ UNCHANGED <<calls, seen, threadInit, papiInit, local, exiter, log>>

(* The database cannot be reached, or refuses the run: the exception ends  *)
(* the process.                                                            *)
StoreFault ==
  /\ phase = "store" /\ UseDb
  /\ phase' = "fault"
  /\ UNCHANGED <<calls, init, lists, atExit, exiter, db, toDb, toFile, log>>

(* The connection is closed for good: the handler that runs next trips     *)
(* over the null pointer.                                                  *)
NoConnection ==
  /\ phase = "store" /\ UseDb /\ db = "closed"
  /\ phase' = "closed"
  /\ UNCHANGED <<calls, init, lists, atExit, exiter, db, toDb, toFile, log>>

Clear ==
  /\ phase = "clear"
  /\ lists' = [lists EXCEPT ![local[exiter]] = <<>>]
  /\ phase' = "exit"
  /\ UNCHANGED <<calls, init, atExit, exiter, db, toDb, toFile, log>>

ThreadStep(t) ==
  \/ SetFlag(t) \/ Search(t) \/ Link(t) \/ Register(t) \/ Start(t)
  \/ Record(t) \/ Exit(t) \/ Unwind(t) \/ StrayFault(t) \/ ProcessExits(t) \/ CopyFault(t)
  \/ \E id \in Ids[t] : Enter(t, id) \/ Stray(t, id)
ExitStep ==
  \/ Disconnect \/ ProcessEnds
  \/ Stop \/ Copy \/ Store \/ StoreFault \/ NoConnection \/ Clear
Next == MainBegins \/ ExitStep \/ \E t \in Threads : ThreadStep(t)
Spec == Init /\ [][Next]_vars
=============================================================================
