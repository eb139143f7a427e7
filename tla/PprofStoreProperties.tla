------------------------ MODULE PprofStoreProperties ------------------------
(***************************************************************************)
(* What happens to a stored run.                                           *)
(***************************************************************************)
EXTENDS PprofStore

RowType == [run : Nat \ {NoRun}, by : Processes,
            event : [id : Int, type : Enters, start : Int, duration : Int]]

(* The types of the variables. Tables refer to runs that exist.            *)
TypeOK ==
  /\ runId \in RunIds
  /\ stored \in [Processes -> run \cup {NoRun}]
  /\ project \in BOOLEAN /\ found \in [Processes -> {"unasked", "yes", "no", "refused"}]
  /\ run \subseteq 1..(Cardinality(Processes) + 1)
  /\ \A e \in events : e \in RowType /\ e.run \in run
  /\ \A i \in DOMAIN metrics : metrics[i] \in [run : run, scops : Int, total : Int]
  /\ pc \in [Analyses -> {"begin", "select", "delete", "check", "insert", "done", "killed"}]
  /\ todo \in [Analyses -> SUBSET run]
  /\ \A a \in Analyses : single[a].run \in run \cup {NoRun}
                           /\ \A e \in single[a].events : e \in RowType
  /\ exists \in [Analyses -> BOOLEAN]
  /\ total \in [Analyses -> [runs : Nat, scops : Int, total : Int]]

Holds(a, r) == single[a].run = r /\ single[a].events # {} /\ pc[a] # "select"
Measurement(i) == [scops |-> metrics[i].scops, total |-> metrics[i].total]
RowsOf(P, r) == UNION {Rows(p, r) : p \in P}
Alone(p) == runId = NoRun /\ stored[p] # NoRun /\ Rows(p, stored[p]) # {}

-----------------------------------------------------------------------------
(* A run of its own is never in part in the table: it is there as a whole  *)
(* until an analysis has it, and an analysis that has it measures it, or   *)
(* is killed between its transactions and takes it along. A process whose  *)
(* run is refused has been overtaken by another that has stored.           *)
RunKept ==
  /\ \A p \in Processes : Alone(p) =>
       \/ Rows(p, stored[p]) \subseteq events
       \/ /\ Of(stored[p]) = {}
          /\ \/ HasMetrics(stored[p])
             \/ \E a \in Analyses : Holds(a, stored[p])
  /\ \A p \in Processes : found[p] = "refused" =>
       \E q \in Processes \ {p} : stored[q] # NoRun

(* Processes that share a run: if all of them have stored, or have been    *)
(* refused, before the first analysis begins, their events are treated as  *)
(* one run, in the table or with an analysis or measured as a whole.       *)
(* (Events that come later may be deleted before they are read, or find    *)
(* that the run has metrics.)                                              *)
Storing(p) == stored[p] = NoRun /\ found[p] # "refused"
AllOf(r) == RowsOf({p \in Processes : stored[p] = r}, r)
StoredFirst == (\E p \in Processes : Storing(p)) => \A a \in Analyses : pc[a] = "begin"
GroupWhole ==
  runId # NoRun /\ (\A p \in Processes : ~Storing(p)) =>
    \/ Of(runId) = AllOf(runId)
    \/ /\ Of(runId) = {}
       /\ \/ \E i \in DOMAIN metrics :
               [scops |-> metrics[i].scops, total |-> metrics[i].total] \in GetMetrics(AllOf(runId))
          \/ \E a \in Analyses : single[a].events = AllOf(runId) /\ pc[a] # "select"
GroupKept == []StoredFirst => []GroupWhole

(* Whatever analyses run at the same time, and however often metrics of a  *)
(* run are stored: they are computed from all that its process has stored, *)
(* or, where processes share a run, from all of some of the processes.     *)
MetricsOfWholeProcesses ==
  \A i \in DOMAIN metrics :
    LET r == metrics[i].run IN
    \E P \in SUBSET {p \in Processes : stored[p] = r} :
      RowsOf(P, r) # {} /\ Measurement(i) \in GetMetrics(RowsOf(P, r))

(* An analysis that is not killed comes to an end, and then the runs it    *)
(* has looked at have metrics, unless an analysis that was killed has one  *)
(* in hand.                                                                *)
AnalysisEnds ==
  \A a \in Analyses :
    <>(\/ pc[a] = "killed"
       \/ /\ pc[a] = "done"
          /\ \A p \in Processes : Alone(p) =>
               \/ Rows(p, stored[p]) \subseteq events
               \/ HasMetrics(stored[p])
               \/ \E b \in Analyses : pc[b] = "killed" /\ Holds(b, stored[p]))
=============================================================================
