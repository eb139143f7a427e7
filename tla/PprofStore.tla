----------------------------- MODULE PprofStore -----------------------------
(***************************************************************************)
(* The database of profiled runs: processes of one project store what      *)
(* Pprof hands to pgsql::StoreRun, and invocations of pprof-analyze turn   *)
(* runs into metrics. Every operation is a transaction of its own at the   *)
(* isolation level of pqxx::work, read committed: each statement sees what *)
(* has been committed before it.                                           *)
(***************************************************************************)
EXTENDS PprofAnalysis

CONSTANTS
  Processes, Recorded, \* profiled processes and the events each of them stores
  Analyses,            \* invocations of pprof-analyze
  RunIds               \* possible values of PPROF_DB_RUN_ID, 0 if it is not set

ASSUME Assumptions ==
  /\ IsFiniteSet(Processes)
  /\ Recorded \in [Processes -> Seq([id : Int, type : EventTypes, at : Int])]
  /\ RunIds \subseteq {0, 1}

VARIABLES
  runId,    \* PPROF_DB_RUN_ID
  stored,   \* the run each process has stored its events under
  project,  \* whether the project table has a row for the project
  found,    \* whether a process that is storing has found it: "yes" or "no"
  run,      \* the run table
  events,   \* the pprof_events table
  metrics,  \* the metrics table
  pc, todo, \* where an analysis is, the runs it has not looked at
  single,   \* SingleRun
  exists,   \* whether the run has metrics, as the analysis has seen it
  total     \* what it has aggregated

tables == <<run, events, metrics>>
projects == <<project, found>>
local == <<pc, todo, single, exists, total>>
vars == <<runId, stored, projects, tables, local>>

NoRun == 0
Nobody == [run |-> NoRun, events |-> {}]
NoTime == [runs |-> 0, scops |-> 0, total |-> 0]

Init ==
  /\ runId \in RunIds
  /\ stored = [p \in Processes |-> NoRun]
  /\ project \in BOOLEAN
  /\ found = [p \in Processes |-> "unasked"]
  /\ run = IF runId = NoRun THEN {} ELSE {runId}
  /\ events = {}
  /\ metrics = <<>>
  /\ pc = [a \in Analyses |-> "begin"]
  /\ todo = [a \in Analyses |-> {}]
  /\ single = [a \in Analyses |-> Nobody]
  /\ exists = [a \in Analyses |-> FALSE]
  /\ total = [a \in Analyses |-> NoTime]

Goto(a, step) == pc' = [pc EXCEPT ![a] = step]

-----------------------------------------------------------------------------
(* StoreRun looks for the project                                          *)
SearchProject(p) ==
  /\ stored[p] = NoRun /\ found[p] = "unasked"
  /\ found' = [found EXCEPT ![p] = IF project THEN "yes" ELSE "no"]
  /\ UNCHANGED <<runId, stored, project, tables, local>>

(* and enters the project, if it is missing, a new run, unless the         *)
(* environment names one, and its events.                                  *)
NewRun == Cardinality(run) + 1
Rows(p, r) ==
  {[run |-> r, by |-> p, event |-> Simplify(Recorded[p], i)] : i \in EntersIn(Recorded[p])}
NoRunRow(r) == run                       \* mutant: the run is not entered
WithRun(r) == IF runId = NoRun THEN run \cup {r} ELSE run
StoreRun(p) ==
  /\ stored[p] = NoRun /\ found[p] \in {"yes", "no"}
  /\ project' = TRUE
  /\ found' = [found EXCEPT ![p] = "unasked"]
  /\ LET r == IF runId = NoRun THEN NewRun ELSE runId
     IN  /\ run' = WithRun(r)
         /\ events' = events \cup Rows(p, r)
         /\ stored' = [stored EXCEPT ![p] = r]
  /\ UNCHANGED <<runId, metrics, local>>

(* If the names of projects are unique in the database, a project that     *)
(* another process has entered meanwhile cannot be entered: nobody catches *)
(* the exception, and the process ends without its run.                    *)
Refused(p) ==
  /\ stored[p] = NoRun /\ found[p] = "no" /\ project
  /\ found' = [found EXCEPT ![p] = "refused"]
  /\ UNCHANGED <<runId, stored, project, tables, local>>

-----------------------------------------------------------------------------
(* pprof-analyze.                                                          *)

ReadAvailableRunIDs(a) ==
  /\ pc[a] = "begin"
  /\ todo' = [todo EXCEPT ![a] = run]
  /\ Goto(a, "select")
  /\ UNCHANGED <<runId, stored, projects, tables, single, exists, total>>

(* ReadSimpleRun reads the events of a run                                 *)
Of(r) == {e \in events : e.run = r}
AllEvents(r) == events                   \* mutant: the condition on run_id is missing
Selected(r) == Of(r)
SelectRun(a) ==
  /\ pc[a] = "select"
  /\ \E r \in todo[a] :
       /\ single' = [single EXCEPT ![a] = [run |-> r, events |-> Selected(r)]]
       /\ todo' = [todo EXCEPT ![a] = @ \ {r}]
  /\ Goto(a, "delete")
  /\ UNCHANGED <<runId, stored, projects, tables, exists, total>>

(* and deletes them; GetMetrics and aggregate follow.                      *)
First(S) == {e \in S : \A f \in S : e.event.start <= f.event.start}
ByStart(rows) ==
  LET ordered[S \in SUBSET rows] ==
        IF S = {} THEN {<<>>}
        ELSE UNION {{<<e.event>> \o s : s \in ordered[S \ {e}]} : e \in First(S)}
  IN  ordered[rows]
GetMetrics(rows) ==
  {[scops |-> SimpleTime(s), total |-> SimpleTotal(s)] : s \in ByStart(rows)}
DeleteAll(r) == {}                       \* mutant: the condition on run_id is missing
Remaining(r) == events \ Of(r)
DeleteRun(a) ==
  /\ pc[a] = "delete"
  /\ events' = Remaining(single[a].run)
  /\ IF single[a].events = {}
     THEN Goto(a, "select") /\ UNCHANGED total
     ELSE /\ \E m \in GetMetrics(single[a].events) :
               total' = [total EXCEPT ![a] = [runs |-> @.runs + 1, scops |-> @.scops + m.scops,
                                              total |-> @.total + m.total]]
          /\ Goto(a, "check")
  /\ UNCHANGED <<runId, stored, projects, run, metrics, todo, single, exists>>

(* StoreRunMetrics looks for metrics of the run and stores its own if      *)
(* there are none.                                                         *)
HasMetrics(r) == \E i \in DOMAIN metrics : metrics[i].run = r
CheckMetrics(a) ==
  /\ pc[a] = "check"
  /\ exists' = [exists EXCEPT ![a] = HasMetrics(single[a].run)]
  /\ Goto(a, "insert")
  /\ UNCHANGED <<runId, stored, projects, tables, todo, single, total>>

NotYet(a) == ~exists[a]                  \* mutant: the condition is inverted
Skips(a) == exists[a]
InsertMetrics(a) ==
  /\ pc[a] = "insert"
  /\ IF Skips(a) THEN UNCHANGED metrics
     ELSE \E m \in GetMetrics(single[a].events) :
            metrics' = Append(metrics, [run |-> single[a].run, scops |-> m.scops, total |-> m.total])
  /\ single' = [single EXCEPT ![a] = Nobody]
  /\ Goto(a, "select")
  /\ UNCHANGED <<runId, stored, projects, run, events, todo, exists, total>>

Finish(a) ==
  /\ pc[a] = "select" /\ todo[a] = {}
  /\ Goto(a, "done")
  /\ UNCHANGED <<runId, stored, projects, tables, todo, single, exists, total>>

(* The process is killed. What it has not committed has not happened.      *)
Kill(a) ==
  /\ pc[a] \notin {"begin", "done", "killed"}
  /\ Goto(a, "killed")
  /\ UNCHANGED <<runId, stored, projects, tables, todo, single, exists, total>>

Step(a) ==
  \/ ReadAvailableRunIDs(a) \/ SelectRun(a) \/ DeleteRun(a)
  \/ CheckMetrics(a) \/ InsertMetrics(a) \/ Finish(a)
Store(p) == SearchProject(p) \/ StoreRun(p) \/ Refused(p)
Next ==
  \/ \E p \in Processes : Store(p)
  \/ \E a \in Analyses : Step(a) \/ Kill(a)
Spec == Init /\ [][Next]_vars

(* Processes and analyses that have begun and are not killed go on.        *)
FairSpec ==
  /\ Spec
  /\ \A p \in Processes : WF_vars(Store(p))
  /\ \A a \in Analyses : WF_vars(Step(a))
=============================================================================
