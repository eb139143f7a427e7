-------------------------- MODULE PprofStore_proofs --------------------------
(***************************************************************************)
(* Proofs about the database of profiled runs, for any processes and       *)
(* events, any number of concurrent analyses, and both ways to number      *)
(* runs.                                                                   *)
(***************************************************************************)
EXTENDS PprofStoreProperties, PprofAnalysis_proofs

(* Runs are numbered without gaps, one for each process that has stored,   *)
(* unless the environment names the only one.                              *)
StoredBy == {p \in Processes : stored[p] # NoRun}
RunsNumbered ==
  /\ runId = NoRun =>
       /\ run = 1..Cardinality(StoredBy)
       /\ \A p, q \in StoredBy : stored[p] = stored[q] => p = q
  /\ runId # NoRun => run = {runId}

(* The rows of a process are in the table all or none, and nothing else    *)
(* is.                                                                     *)
RowsWhole ==
  /\ events \subseteq UNION {Rows(p, stored[p]) : p \in StoredBy}
  /\ \A p \in StoredBy : Rows(p, stored[p]) \subseteq events \/ Rows(p, stored[p]) \cap events = {}

(* What an analysis has in hand is what some processes have stored under   *)
(* one run, and something unless it has yet to find out.                   *)
OfProcesses(r, rows) ==
  \E P \in SUBSET {p \in Processes : stored[p] = r} : rows = RowsOf(P, r)
HandsWhole ==
  \A a \in Analyses :
    /\ OfProcesses(single[a].run, single[a].events)
    /\ pc[a] \in {"delete", "check", "insert"} => single[a].run \in run
    /\ pc[a] \in {"begin", "select", "done"} => single[a].events = {}
    /\ pc[a] \in {"check", "insert"} => single[a].events # {}

(* An analysis that has found a run of its own empty is right for good, as *)
(* is one that has found metrics.                                          *)
FindingsLast ==
  \A a \in Analyses :
    /\ runId = NoRun /\ pc[a] = "delete" /\ single[a].events = {} => Of(single[a].run) = {}
    /\ pc[a] = "insert" /\ exists[a] => HasMetrics(single[a].run)

(* A process that has not found the project, and is storing or has been    *)
(* refused, has no run; the project has been entered by one that has.      *)
ProjectEntered ==
  \A p \in Processes :
    /\ found[p] \in {"no", "refused"} => stored[p] = NoRun /\ (project => StoredBy # {})
    /\ found[p] = "refused" => project

(* The types of what is counted and kept, apart from the measurements.     *)
Shape ==
  /\ runId \in RunIds
  /\ project \in BOOLEAN /\ found \in [Processes -> {"unasked", "yes", "no", "refused"}]
  /\ stored \in [Processes -> run \cup {NoRun}]
  /\ events \subseteq RowType
  /\ metrics \in Seq([run : run, scops : Int, total : Int])
  /\ pc \in [Analyses -> {"begin", "select", "delete", "check", "insert", "done", "killed"}]
  /\ todo \in [Analyses -> SUBSET run]
  /\ single \in [Analyses -> [run : run \cup {NoRun}, events : SUBSET RowType]]
  /\ exists \in [Analyses -> BOOLEAN]
  /\ total \in [Analyses -> [runs : Nat, scops : Int, total : Int]]

StoreInv == Shape /\ ProjectEntered /\ RunsNumbered /\ RowsWhole /\ HandsWhole /\ FindingsLast

-----------------------------------------------------------------------------
(* What a process stores: rows of the table under the given run.           *)
LEMMA RowsTyped ==
  ASSUME NEW p \in Processes, NEW r \in Nat \ {NoRun}
  PROVE  Rows(p, r) \subseteq RowType /\ \A e \in Rows(p, r) : e.run = r /\ e.by = p
<1> DEFINE evs == Recorded[p]
<1>1. evs \in Seq(RawEvent)
  BY Assumptions DEF RawEvent
<1>2. \A i \in EntersIn(evs) :
        Simplify(evs, i) \in [id : Int, type : Enters, start : Int, duration : Int]
  BY <1>1, SimplifyTyped DEF Simplified
<1>3. QED
  BY <1>2 DEF Rows, RowType

(* A process stores finitely many rows.                                    *)
LEMMA RowsFinite ==
  ASSUME NEW p \in Processes, NEW r
  PROVE  IsFiniteSet(Rows(p, r))
<1> DEFINE evs == Recorded[p]
           row(i) == [run |-> r, by |-> p, event |-> Simplify(evs, i)]
           f == [i \in EntersIn(evs) |-> row(i)]
<1>1. IsFiniteSet(EntersIn(evs))
  <2>1. evs \in Seq([id : Int, type : EventTypes, at : Int])
    BY Assumptions
  <2>2. Len(evs) \in Nat /\ DOMAIN evs = 1..Len(evs)
    BY <2>1
  <2>3. IsFiniteSet(1..Len(evs))
    BY <2>2, FS_Interval
  <2>4. QED
    BY <2>2, <2>3, FS_Subset DEF EntersIn
<1>2. f \in Surjection(EntersIn(evs), Rows(p, r))
  BY DEF Surjection, Rows
<1>3. QED
  BY <1>1, <1>2, FS_Surjection

(* What several processes have stored under a run.                         *)
LEMMA HandFinite ==
  ASSUME NEW r, NEW rows, OfProcesses(r, rows)
  PROVE  IsFiniteSet(rows)
<1>1. PICK P \in SUBSET {p \in Processes : stored[p] = r} : rows = RowsOf(P, r)
  BY DEF OfProcesses
<1> DEFINE all == {Rows(p, r) : p \in P}
           f == [p \in P |-> Rows(p, r)]
<1>2. IsFiniteSet(P)
  BY <1>1, Assumptions, FS_Subset
<1>3. f \in Surjection(P, all)
  BY DEF Surjection
<1>4. IsFiniteSet(all)
  BY <1>2, <1>3, FS_Surjection
<1>5. \A rs \in all : IsFiniteSet(rs)
  BY <1>1, RowsFinite
<1>6. QED
  BY <1>1, <1>4, <1>5, FS_UNION DEF RowsOf

(* The rows of a run, in an order of their starts, are a simplified run:   *)
(* what is defined by recursion on a finite set exists and is typed, or    *)
(* there would be a least number of rows for which it is not.              *)
LEMMA OrderTyped ==
  ASSUME NEW rows \in SUBSET RowType, IsFiniteSet(rows)
  PROVE  ByStart(rows) \subseteq Seq(Simplified)
<1> DEFINE Runs == SUBSET Seq(Simplified)
           Parts == SUBSET rows
           put(e, T) == {<<e.event>> \o s : s \in T}
           extend(f, S) == UNION {put(e, f[S \ {e}]) : e \in First(S)}
           next(f, S) == IF S = {} THEN {<<>>} ELSE extend(f, S)
           Upto(n) == {S \in Parts : Cardinality(S) <= n}
<1>1. \A S \in Parts : Cardinality(S) \in Nat /\ First(S) \subseteq S
        /\ \A e \in S : S \ {e} \in Parts /\ Cardinality(S \ {e}) < Cardinality(S)
  <2> TAKE S \in Parts
  <2>1. IsFiniteSet(S) /\ Cardinality(S) \in Nat
    BY FS_Subset, FS_CardinalityType
  <2>2. \A e \in S : Cardinality(S \ {e}) = Cardinality(S) - 1
    BY <2>1, FS_RemoveElement
  <2>3. QED
    BY <2>1, <2>2 DEF First
<1>2. ASSUME NEW f, NEW S \in Parts, \A e \in S : f[S \ {e}] \in Runs
      PROVE  next(f, S) \in Runs
  <2>1. ASSUME NEW e \in S, NEW s \in f[S \ {e}] PROVE <<e.event>> \o s \in Seq(Simplified)
    <3>1. s \in Seq(Simplified) /\ e.event \in Simplified
      BY <1>2, <2>1 DEF RowType, Simplified
    <3>2. QED
      BY <3>1
  <2>2. extend(f, S) \in Runs
    <3>1. \A e \in First(S) : put(e, f[S \ {e}]) \subseteq Seq(Simplified)
      BY <1>1, <2>1
    <3> HIDE DEF put
    <3>2. QED
      BY <3>1
  <2>3. <<>> \in Seq(Simplified)
    OBVIOUS
  <2>4. QED
    BY <2>2, <2>3
<1>3. \A n \in Nat : \E f : \A S \in Upto(n) : f[S] = next(f, S) /\ f[S] \in Runs
  <2> DEFINE bad == {n \in Nat : ~\E f : \A S \in Upto(n) : f[S] = next(f, S) /\ f[S] \in Runs}
  <2>1. SUFFICES ASSUME bad # {} PROVE FALSE
    OBVIOUS
  <2>2. PICK n \in bad : \A m \in bad : n <= m
    <3>1. bad \in SUBSET Nat
      OBVIOUS
    <3> HIDE DEF bad
    <3>2. QED
      BY <2>1, <3>1, MinOfNats
  <2>3. PICK f : \A S \in Upto(n) : Cardinality(S) < n => f[S] = next(f, S) /\ f[S] \in Runs
    <3> HIDE DEF next
    <3>1. CASE n = 0
      BY <1>1, <3>1
    <3>2. CASE n # 0
      <4>1. n - 1 \in Nat /\ ~ (n <= n - 1)
        BY <2>2, <3>2
      <4>2. n - 1 \notin bad
        BY <2>2, <4>1
      <4>3. PICK f : \A S \in Upto(n - 1) : f[S] = next(f, S) /\ f[S] \in Runs
        BY <4>1, <4>2
      <4>4. \A S \in Parts : Cardinality(S) < n => S \in Upto(n - 1)
        BY <1>1, <2>2
      <4>5. QED
        BY <4>3, <4>4
    <3>3. QED
      BY <3>1, <3>2
  <2> DEFINE g == [S \in Parts |-> IF Cardinality(S) < n THEN f[S] ELSE next(f, S)]
  <2>4. ASSUME NEW S \in Upto(n) PROVE g[S] = next(g, S) /\ g[S] \in Runs
    <3>1. \A e \in S : S \ {e} \in Upto(n) /\ Cardinality(S \ {e}) < n
      BY <1>1, <2>2, <2>4
    <3>2. \A e \in S : g[S \ {e}] = f[S \ {e}] /\ f[S \ {e}] \in Runs
      BY <2>3, <3>1
    <3>3. next(g, S) = next(f, S)
      <4>1. \A e \in First(S) : g[S \ {e}] = f[S \ {e}]
        BY <1>1, <3>2
      <4> HIDE DEF g, put
      <4>2. extend(g, S) = extend(f, S)
        BY <4>1
      <4>3. QED
        BY <4>2
    <3> HIDE DEF next
    <3>4. next(f, S) \in Runs
      BY <1>2, <3>2
    <3>5. g[S] = next(f, S)
      BY <2>3
    <3>6. QED
      BY <3>3, <3>4, <3>5
  <2>5. QED
    BY <2>2, <2>4
<1> DEFINE ordered[S \in Parts] ==
             IF S = {} THEN {<<>>}
             ELSE UNION {{<<e.event>> \o s : s \in ordered[S \ {e}]} : e \in First(S)}
<1>4. ByStart(rows) = ordered[rows]
  BY DEF ByStart
<1>5. \A S \in Parts : ordered[S] = next(ordered, S)
  <2>1. PICK f : \A S \in Parts : f[S] = next(f, S)
    <3> HIDE DEF next
    <3>1. \A S \in Parts : S \in Upto(Cardinality(rows))
      BY <1>1, FS_Subset
    <3>2. Cardinality(rows) \in Nat
      BY <1>1
    <3>3. \E f : \A S \in Upto(Cardinality(rows)) : f[S] = next(f, S) /\ f[S] \in Runs
      BY <1>3, <3>2
    <3>4. QED
      BY <3>1, <3>3
  <2> DEFINE g == [S \in Parts |-> f[S]]
  <2>2. \A S \in Parts : next(g, S) = next(f, S)
    <3> TAKE S \in Parts
    <3>1. \A e \in First(S) : g[S \ {e}] = f[S \ {e}]
      BY <1>1
    <3> HIDE DEF g
    <3>2. extend(g, S) = extend(f, S)
      BY <3>1
    <3>3. QED
      BY <3>2
  <2>3. g = [S \in Parts |-> next(g, S)]
    BY <2>1, <2>2
  <2>4. \E h : h = [S \in Parts |-> next(h, S)]
    BY <2>3
  <2>5. ordered = [S \in Parts |-> next(ordered, S)]
    BY <2>4
  <2> HIDE DEF ordered
  <2>6. QED
    BY <2>5
<1> HIDE DEF ordered
<1>6. \A n \in Nat : \A S \in Upto(n) : ordered[S] \in Runs
  <2> DEFINE bad == {n \in Nat : ~\A S \in Upto(n) : ordered[S] \in Runs}
  <2>1. SUFFICES ASSUME bad # {} PROVE FALSE
    OBVIOUS
  <2>2. PICK n \in bad : \A m \in bad : n <= m
    <3>1. bad \in SUBSET Nat
      OBVIOUS
    <3> HIDE DEF bad
    <3>2. QED
      BY <2>1, <3>1, MinOfNats
  <2>3. ASSUME NEW S \in Upto(n) PROVE ordered[S] \in Runs
    <3>1. ASSUME NEW e \in S PROVE ordered[S \ {e}] \in Runs
      <4>1. /\ S \ {e} \in Parts /\ Cardinality(S \ {e}) \in Nat
            /\ Cardinality(S \ {e}) < n
        BY <1>1, <2>2, <2>3, <3>1
      <4>2. ~ (n <= Cardinality(S \ {e}))
        BY <2>2, <4>1
      <4>3. Cardinality(S \ {e}) \notin bad
        BY <2>2, <4>2
      <4>4. S \ {e} \in Upto(Cardinality(S \ {e}))
        BY <4>1
      <4>5. QED
        BY <4>1, <4>3, <4>4
    <3> HIDE DEF next
    <3>2. next(ordered, S) \in Runs
      BY <1>2, <3>1
    <3>3. QED
      BY <1>5, <3>2
  <2>4. QED
    BY <2>2, <2>3
<1>7. QED
  BY <1>1, <1>4, <1>6

(* The metrics of a run are numbers.                                       *)
LEMMA MetricsTyped ==
  ASSUME NEW rows \in SUBSET RowType, IsFiniteSet(rows)
  PROVE  \A m \in GetMetrics(rows) : m.scops \in Int /\ m.total \in Int
<1> TAKE m \in GetMetrics(rows)
<1>1. PICK s \in ByStart(rows) : m = [scops |-> SimpleTime(s), total |-> SimpleTotal(s)]
  BY DEF GetMetrics
<1>2. s \in Seq(Simplified)
  BY OrderTyped
<1>3. SimpleTime(s) \in Int /\ SimpleTotal(s) \in Int
  BY <1>2, TimeTyped, TotalTyped
<1>4. QED
  BY <1>1, <1>3

-----------------------------------------------------------------------------
(* A process that stores under a run of its own takes a new number.        *)
RunFor == IF runId = NoRun THEN NewRun ELSE runId

(* StoreRun, seen from the invariant: which run the process gets, and the  *)
(* rows it adds.                                                           *)
LEMMA StoreRunEffect ==
  ASSUME StoreInv, NEW p \in Processes, StoreRun(p)
  PROVE  /\ RunFor \in Nat \ {NoRun} /\ run \in SUBSET (Nat \ {NoRun})
         /\ stored' = [stored EXCEPT ![p] = RunFor] /\ stored[p] = NoRun
         /\ StoredBy' = StoredBy \cup {p} /\ p \notin StoredBy
         /\ run \subseteq run' /\ RunFor \in run'
         /\ events' = events \cup Rows(p, RunFor)
         /\ runId = NoRun => RunFor \notin run /\ run' = 1..Cardinality(StoredBy')
         /\ runId # NoRun => RunFor = runId /\ run' = {runId}
         /\ UNCHANGED <<runId, metrics, pc, todo, single, exists, total>>
<1>1. runId \in {0, 1} /\ stored \in [Processes -> run \cup {NoRun}]
  BY Assumptions DEF StoreInv, Shape
<1>2. StoredBy \in SUBSET Processes /\ IsFiniteSet(StoredBy) /\ Cardinality(StoredBy) \in Nat
  BY Assumptions, FS_Subset, FS_CardinalityType DEF StoredBy
<1>3. p \notin StoredBy /\ stored[p] = NoRun
  BY DEF StoreRun, StoredBy
<1>4. UNCHANGED <<runId, metrics, pc, todo, single, exists, total>>
  BY DEF StoreRun, local
<1>5. /\ stored' = [stored EXCEPT ![p] = RunFor]
      /\ events' = events \cup Rows(p, RunFor)
      /\ run' = WithRun(RunFor)
  BY Zenon DEF StoreRun, RunFor
<1>6. RunFor # NoRun => StoredBy' = StoredBy \cup {p}
  BY <1>1, <1>5 DEF StoredBy
<1>7. CASE runId = NoRun
  <2> DEFINE n == Cardinality(StoredBy)
  <2>1. run = 1..n
    BY <1>7 DEF StoreInv, RunsNumbered
  <2>2. RunFor = n + 1
    <3>1. Cardinality(1..n) = n
      BY <1>2, FS_Interval
    <3>2. QED
      BY <1>7, <2>1, <3>1 DEF RunFor, NewRun
  <2>3. run' = run \cup {n + 1}
    BY <1>5, <1>7, <2>2 DEF WithRun
  <2>4. StoredBy' = StoredBy \cup {p}
    BY <1>2, <1>6, <2>2 DEF NoRun
  <2>5. Cardinality(StoredBy') = n + 1
    BY <1>2, <1>3, <2>4, FS_AddElement
  <2>6. run' = 1..(n + 1) /\ RunFor \notin run
    BY <1>2, <2>1, <2>2, <2>3
  <2>7. RunFor \in Nat \ {NoRun} /\ run \in SUBSET (Nat \ {NoRun})
    BY <1>2, <2>1, <2>2 DEF NoRun
  <2>8. QED
    BY <1>3, <1>4, <1>5, <1>7, <2>2, <2>3, <2>4, <2>5, <2>6, <2>7, Zenon
<1>8. CASE runId # NoRun
  <2>1. run = {runId} /\ runId \in Nat \ {NoRun} /\ RunFor = runId
    BY <1>1, <1>8 DEF StoreInv, RunsNumbered, RunFor
  <2>2. run' = run
    BY <1>5, <1>8 DEF WithRun
  <2>3. StoredBy' = StoredBy \cup {p}
    BY <1>6, <2>1
  <2>4. QED
    BY <1>3, <1>4, <1>5, <1>8, <2>1, <2>2, <2>3
<1>9. QED
  BY <1>7, <1>8

(* A process that looks for the project, or is refused, changes nothing    *)
(* else.                                                                   *)
Asks(p) == SearchProject(p) \/ Refused(p)
LEMMA AsksEffect ==
  ASSUME NEW p \in Processes, Asks(p)
  PROVE  /\ UNCHANGED <<runId, stored, project, run, events, metrics, pc, todo, single, exists, total>>
         /\ stored[p] = NoRun
         /\ \/ found[p] = "unasked" /\ found' = [found EXCEPT ![p] = IF project THEN "yes" ELSE "no"]
            \/ found[p] = "no" /\ project /\ found' = [found EXCEPT ![p] = "refused"]
  BY DEF Asks, SearchProject, Refused, tables, local

(* A row of the metrics table belongs to a run of the run table.           *)
LEMMA MetricsRow ==
  ASSUME Shape, NEW i \in DOMAIN metrics
  PROVE  metrics[i] \in [run : run, scops : Int, total : Int]
<1> DEFINE row == [run : run, scops : Int, total : Int]
<1>1. metrics \in Seq(row)
  BY DEF Shape
<1> HIDE DEF row
<1>2. DOMAIN metrics = 1..Len(metrics)
  BY <1>1
<1>3. metrics[i] \in row
  BY <1>1, <1>2, ElementOfSeq
<1>4. QED
  BY <1>3 DEF row

(* Every step keeps the shape of the tables.                               *)
LEMMA ShapeStep == StoreInv /\ [Next]_vars => Shape'
<1> SUFFICES ASSUME StoreInv, [Next]_vars PROVE Shape'
  OBVIOUS
<1> USE DEF Shape, tables, local, projects
<1>0. Shape /\ HandsWhole
  BY DEF StoreInv
<1>1. ASSUME NEW p \in Processes, StoreRun(p) PROVE Shape'
  <2>1. Rows(p, RunFor) \subseteq RowType
    BY <1>1, StoreRunEffect, RowsTyped
  <2>2. metrics' \in Seq([run : run', scops : Int, total : Int])
    <3>1. [run : run, scops : Int, total : Int] \subseteq [run : run', scops : Int, total : Int]
      BY <1>1, StoreRunEffect
    <3>2. metrics \in Seq([run : run', scops : Int, total : Int])
      BY <1>0, <3>1, SeqMonotonic
    <3>3. QED
      BY <1>1, <3>2, StoreRunEffect
  <2>3. /\ stored' = [stored EXCEPT ![p] = RunFor] /\ run \subseteq run' /\ RunFor \in run'
        /\ events' = events \cup Rows(p, RunFor)
        /\ UNCHANGED <<runId, pc, todo, single, exists, total>>
    BY <1>1, StoreRunEffect, Zenon
  <2>8. project' = TRUE /\ found' = [found EXCEPT ![p] = "unasked"]
    BY <1>1 DEF StoreRun
  <2>4. todo' \in [Analyses -> SUBSET run']
    BY <1>0, <2>3
  <2>5. single' \in [Analyses -> [run : run' \cup {NoRun}, events : SUBSET RowType]]
    BY <1>0, <2>3
  <2>6. stored' \in [Processes -> run' \cup {NoRun}] /\ events' \subseteq RowType
    BY <1>0, <2>1, <2>3
  <2>7. QED
    BY <1>0, <2>2, <2>3, <2>4, <2>5, <2>6, <2>8
<1>2. ASSUME NEW a \in Analyses, ReadAvailableRunIDs(a) PROVE Shape'
  BY <1>0, <1>2 DEF ReadAvailableRunIDs, Goto
<1>3. ASSUME NEW a \in Analyses, SelectRun(a) PROVE Shape'
  <2>1. PICK r \in todo[a] :
          /\ single' = [single EXCEPT ![a] = [run |-> r, events |-> Selected(r)]]
          /\ todo' = [todo EXCEPT ![a] = @ \ {r}]
    BY <1>3 DEF SelectRun
  <2>2. r \in run /\ Selected(r) \subseteq RowType
    BY <1>0 DEF Selected, Of
  <2>3. QED
    BY <1>0, <1>3, <2>1, <2>2 DEF SelectRun, Goto
<1>4. ASSUME NEW a \in Analyses, DeleteRun(a) PROVE Shape'
  <2>1. events' \subseteq RowType
    BY <1>0, <1>4 DEF DeleteRun, Remaining
  <2>2. total' \in [Analyses -> [runs : Nat, scops : Int, total : Int]]
    <3>1. CASE single[a].events = {}
      BY <1>0, <1>4, <3>1 DEF DeleteRun
    <3>2. CASE single[a].events # {}
      <4>1. PICK m \in GetMetrics(single[a].events) :
              total' = [total EXCEPT ![a] = [runs |-> @.runs + 1, scops |-> @.scops + m.scops,
                                             total |-> @.total + m.total]]
        BY <1>4, <3>2 DEF DeleteRun
      <4>2. single[a].events \in SUBSET RowType /\ IsFiniteSet(single[a].events)
        BY <1>0, HandFinite DEF HandsWhole
      <4>3. m.scops \in Int /\ m.total \in Int
        BY <4>2, MetricsTyped
      <4>4. QED
        BY <1>0, <4>1, <4>3
    <3>3. QED
      BY <3>1, <3>2
  <2>3. pc' \in [Analyses -> {"begin", "select", "delete", "check", "insert", "done", "killed"}]
    BY <1>0, <1>4 DEF DeleteRun, Goto
  <2>4. QED
    BY <1>0, <1>4, <2>1, <2>2, <2>3 DEF DeleteRun
<1>5. ASSUME NEW a \in Analyses, CheckMetrics(a) PROVE Shape'
  BY <1>0, <1>5 DEF CheckMetrics, HasMetrics, Goto
<1>6. ASSUME NEW a \in Analyses, InsertMetrics(a) PROVE Shape'
  <2>1. metrics' \in Seq([run : run, scops : Int, total : Int])
    <3>1. CASE Skips(a)
      BY <1>0, <1>6, <3>1 DEF InsertMetrics
    <3>2. CASE ~Skips(a)
      <4>1. PICK m \in GetMetrics(single[a].events) :
              metrics' = Append(metrics, [run |-> single[a].run, scops |-> m.scops, total |-> m.total])
        BY <1>6, <3>2 DEF InsertMetrics
      <4>2. single[a].events \in SUBSET RowType /\ IsFiniteSet(single[a].events)
        BY <1>0, HandFinite DEF HandsWhole
      <4>3. m.scops \in Int /\ m.total \in Int
        BY <4>2, MetricsTyped
      <4>4. single[a].run \in run
        BY <1>0, <1>6 DEF HandsWhole, InsertMetrics
      <4>5. QED
        BY <1>0, <4>1, <4>3, <4>4, AppendProperties
    <3>3. QED
      BY <3>1, <3>2
  <2>2. single' \in [Analyses -> [run : run \cup {NoRun}, events : SUBSET RowType]]
    BY <1>0, <1>6 DEF InsertMetrics, Nobody
  <2>3. QED
    BY <1>0, <1>6, <2>1, <2>2 DEF InsertMetrics, Goto
<1>7. ASSUME NEW a \in Analyses, Finish(a) PROVE Shape'
  BY <1>0, <1>7 DEF Finish, Goto
<1>8. ASSUME NEW a \in Analyses, Kill(a) PROVE Shape'
  BY <1>0, <1>8 DEF Kill, Goto
<1>9. CASE UNCHANGED vars
  BY <1>0, <1>9 DEF vars
<1>10. ASSUME NEW p \in Processes, Asks(p) PROVE Shape'
  BY <1>0, <1>10, AsksEffect
<1>11. QED
  BY <1>1, <1>2, <1>3, <1>4, <1>5, <1>6, <1>7, <1>8, <1>9, <1>10 DEF Next, Store, Asks, Step

(* Every step keeps the runs numbered one after the other, or all as the   *)
(* one given.                                                              *)
LEMMA NumberedStep == StoreInv /\ [Next]_vars => RunsNumbered'
<1> SUFFICES ASSUME StoreInv, [Next]_vars PROVE RunsNumbered'
  OBVIOUS
<1>1. RunsNumbered /\ Shape
  BY DEF StoreInv
<1>2. ASSUME NEW p \in Processes, StoreRun(p) PROVE RunsNumbered'
  <2>1. ASSUME runId' = NoRun, NEW q1 \in StoredBy', NEW q2 \in StoredBy', stored'[q1] = stored'[q2]
        PROVE  q1 = q2
    <3>1. runId = NoRun /\ RunFor \notin run
      BY <1>2, <2>1, StoreRunEffect
    <3>2. \A q \in StoredBy : stored[q] \in run /\ q \in Processes /\ q # p
      BY <1>1, <1>2, StoreRunEffect DEF StoredBy, Shape
    <3>3. q1 \in StoredBy \cup {p} /\ q2 \in StoredBy \cup {p}
      BY <1>2, StoreRunEffect
    <3>4. stored'[p] = RunFor /\ \A q \in StoredBy : stored'[q] = stored[q]
      BY <1>1, <1>2, <3>2, StoreRunEffect DEF Shape
    <3>5. QED
      BY <1>1, <2>1, <3>1, <3>2, <3>3, <3>4 DEF RunsNumbered
  <2>2. QED
    BY <1>2, <2>1, StoreRunEffect DEF RunsNumbered
<1>3. CASE UNCHANGED <<runId, stored, run>>
  BY <1>1, <1>3 DEF RunsNumbered, StoredBy
<1>4. QED
  BY <1>2, <1>3 DEF Next, Store, SearchProject, Refused, Step, vars, tables, ReadAvailableRunIDs,
     SelectRun, DeleteRun, CheckMetrics, InsertMetrics, Finish, Kill

(* The ids of runs are positive: none of them is NoRun.                    *)
LEMMA RunsPositive == StoreInv => run \in SUBSET (Nat \ {NoRun})
<1> SUFFICES ASSUME StoreInv PROVE run \in SUBSET (Nat \ {NoRun})
  OBVIOUS
<1>1. Cardinality(StoredBy) \in Nat
  BY Assumptions, FS_Subset, FS_CardinalityType DEF StoredBy
<1>2. QED
  BY <1>1, Assumptions DEF StoreInv, RunsNumbered, Shape, NoRun

(* Which steps change what.                                                *)
LEMMA Frames ==
  ASSUME [Next]_vars
  PROVE  /\ (\E p \in Processes : StoreRun(p)) \/ UNCHANGED <<stored, run>>
         /\ (\E p \in Processes : StoreRun(p)) \/ (\E a \in Analyses : DeleteRun(a)) \/ UNCHANGED events
         /\ (\E a \in Analyses : InsertMetrics(a)) \/ UNCHANGED metrics
         /\ UNCHANGED runId
         /\ \/ \E a \in Analyses : SelectRun(a) \/ InsertMetrics(a)
            \/ UNCHANGED single
         /\ (\E p \in Processes : Store(p)) \/ UNCHANGED projects
  BY DEF Next, Store, Step, vars, tables, local, projects, SearchProject, Refused, StoreRun,
     ReadAvailableRunIDs, SelectRun, DeleteRun, CheckMetrics, InsertMetrics, Finish, Kill

(* Every step keeps what processes know of the project.                    *)
LEMMA ProjectStep == StoreInv /\ [Next]_vars => ProjectEntered'
<1> SUFFICES ASSUME StoreInv, [Next]_vars PROVE ProjectEntered'
  OBVIOUS
<1>1. Shape /\ ProjectEntered
  BY DEF StoreInv
<1>2. ASSUME NEW p \in Processes, StoreRun(p) PROVE ProjectEntered'
  <2>1. /\ StoredBy' = StoredBy \cup {p} /\ stored' = [stored EXCEPT ![p] = RunFor]
        /\ project' = TRUE /\ found' = [found EXCEPT ![p] = "unasked"]
    BY <1>2, StoreRunEffect DEF StoreRun
  <2>2. \A q \in Processes : q # p => stored'[q] = stored[q] /\ found'[q] = found[q]
    BY <1>1, <2>1 DEF Shape
  <2>3. found'[p] = "unasked"
    BY <1>1, <2>1 DEF Shape
  <2>4. QED
    BY <1>1, <2>1, <2>2, <2>3 DEF ProjectEntered
<1>3. ASSUME NEW p \in Processes, Asks(p) PROVE ProjectEntered'
  <2>1. UNCHANGED <<stored, project>> /\ StoredBy' = StoredBy
    BY <1>3, AsksEffect DEF StoredBy
  <2>2. \A q \in Processes : q # p => found'[q] = found[q]
    BY <1>1, <1>3, AsksEffect DEF Shape
  <2>3. /\ found'[p] \in {"no", "refused"} => stored[p] = NoRun /\ (project => StoredBy # {})
        /\ found'[p] = "refused" => project
    BY <1>1, <1>3, AsksEffect DEF Shape, ProjectEntered
  <2>4. QED
    BY <1>1, <2>1, <2>2, <2>3 DEF ProjectEntered
<1>4. CASE UNCHANGED <<stored, projects>>
  BY <1>1, <1>4 DEF ProjectEntered, StoredBy, projects
<1>5. QED
  BY <1>2, <1>3, <1>4, Frames DEF Store, Asks

(* A process has one run, and keeps it.                                    *)
LEMMA StoredStays ==
  ASSUME StoreInv, [Next]_vars, NEW p \in Processes, stored[p] # NoRun
  PROVE  stored'[p] = stored[p]
<1>1. stored \in [Processes -> run \cup {NoRun}]
  BY DEF StoreInv, Shape
<1>2. ASSUME NEW q \in Processes, StoreRun(q) PROVE stored'[p] = stored[p]
  BY <1>1, <1>2, StoreRunEffect
<1>3. QED
  BY <1>2, Frames

(* The rows of two processes, or of two runs, have nothing in common.      *)
LEMMA RowsApart ==
  ASSUME NEW p \in Processes, NEW q \in Processes, NEW r, NEW s, p # q \/ r # s
  PROVE  Rows(p, r) \cap Rows(q, s) = {}
  BY DEF Rows

(* A row that a process stores tells its run and its process.              *)
LEMMA RowsRun ==
  ASSUME NEW p \in Processes, NEW r, NEW e \in Rows(p, r)
  PROVE  e.run = r /\ e.by = p
  BY DEF Rows

(* Every step keeps the rows of a process in the table all or none.        *)
LEMMA WholeStep == StoreInv /\ [Next]_vars => RowsWhole'
<1> SUFFICES ASSUME StoreInv, [Next]_vars PROVE RowsWhole'
  OBVIOUS
<1>1. RowsWhole /\ stored \in [Processes -> run \cup {NoRun}]
  BY DEF StoreInv, Shape
<1>2. ASSUME NEW p \in Processes, StoreRun(p) PROVE RowsWhole'
  <2>1. /\ StoredBy' = StoredBy \cup {p} /\ p \notin StoredBy
        /\ stored' = [stored EXCEPT ![p] = RunFor]
        /\ events' = events \cup Rows(p, RunFor)
    BY <1>2, StoreRunEffect
  <2>2. stored'[p] = RunFor /\ \A q \in StoredBy : q \in Processes /\ q # p /\ stored'[q] = stored[q]
    BY <1>1, <2>1 DEF StoredBy
  <2>3. events' \subseteq UNION {Rows(q, stored'[q]) : q \in StoredBy'}
    <3>1. SUFFICES ASSUME NEW e \in events'
                   PROVE  \E q \in StoredBy' : e \in Rows(q, stored'[q])
      OBVIOUS
    <3>2. CASE e \in events
      BY <1>1, <2>1, <2>2, <3>2 DEF RowsWhole
    <3>3. CASE e \in Rows(p, RunFor)
      BY <2>1, <2>2, <3>3
    <3>4. QED
      BY <2>1, <3>2, <3>3
  <2>4. ASSUME NEW q \in StoredBy'
        PROVE  Rows(q, stored'[q]) \subseteq events' \/ Rows(q, stored'[q]) \cap events' = {}
    <3>1. CASE q = p
      BY <2>1, <2>2, <3>1
    <3>2. CASE q \in StoredBy
      <4>1. Rows(q, stored[q]) \cap Rows(p, RunFor) = {}
        BY <2>2, <3>2, RowsApart
      <4>2. QED
        BY <1>1, <2>1, <2>2, <3>2, <4>1 DEF RowsWhole
    <3>3. QED
      BY <2>1, <3>1, <3>2
  <2>5. QED
    BY <2>3, <2>4 DEF RowsWhole
<1>3. ASSUME NEW a \in Analyses, DeleteRun(a) PROVE RowsWhole'
  <2> DEFINE r == single[a].run
  <2>1. events' = events \ Of(r) /\ UNCHANGED stored /\ StoredBy' = StoredBy
    BY <1>3 DEF DeleteRun, Remaining, StoredBy
  <2>2. ASSUME NEW q \in StoredBy
        PROVE  \/ Rows(q, stored[q]) \subseteq events'
               \/ Rows(q, stored[q]) \cap events' = {}
    <3>1. q \in Processes
      BY DEF StoredBy
    <3>2. CASE stored[q] = r
      BY <2>1, <3>1, <3>2, RowsRun DEF Of
    <3>3. CASE stored[q] # r
      <4>1. Rows(q, stored[q]) \cap Of(r) = {}
        BY <3>1, <3>3, RowsRun DEF Of
      <4>2. QED
        BY <1>1, <2>1, <4>1 DEF RowsWhole
    <3>4. QED
      BY <3>2, <3>3
  <2>3. QED
    BY <1>1, <2>1, <2>2 DEF RowsWhole
<1>4. CASE UNCHANGED <<stored, events>>
  BY <1>1, <1>4 DEF RowsWhole, StoredBy
<1>5. QED
  BY <1>2, <1>3, <1>4, Frames

(* What processes have stored stays what they have stored.                 *)
LEMMA HandStays ==
  ASSUME StoreInv, [Next]_vars, NEW r, NEW rows \in SUBSET RowType, OfProcesses(r, rows)
  PROVE  \E P \in SUBSET {p \in Processes : stored'[p] = r} : rows = RowsOf(P, r)
<1>1. PICK P \in SUBSET {p \in Processes : stored[p] = r} : rows = RowsOf(P, r)
  BY DEF OfProcesses
<1>2. CASE r = NoRun
  <2>1. rows = {}
    <3>1. SUFFICES ASSUME NEW e \in rows PROVE FALSE
      OBVIOUS
    <3>2. PICK p \in Processes : e \in Rows(p, r)
      BY <1>1 DEF RowsOf
    <3>3. e.run = NoRun
      BY <1>2, <3>2, RowsRun
    <3>4. QED
      BY <3>3 DEF RowType
  <2>2. {} \in SUBSET {p \in Processes : stored'[p] = r} /\ rows = RowsOf({}, r)
    BY <2>1 DEF RowsOf
  <2>3. QED
    BY <2>2
<1>3. CASE r # NoRun
  <2>1. P \in SUBSET {p \in Processes : stored'[p] = r}
    BY <1>1, <1>3, StoredStays
  <2>2. QED
    BY <1>1, <2>1
<1>4. QED
  BY <1>2, <1>3

(* What SelectRun reads is all that some processes have stored.            *)
LEMMA SelectedWhole ==
  ASSUME RowsWhole, stored \in [Processes -> run \cup {NoRun}], NEW r \in Nat \ {NoRun}
  PROVE  OfProcesses(r, Selected(r))
<1> DEFINE P == {p \in Processes : stored[p] = r /\ Rows(p, r) \subseteq events}
<1>1. Selected(r) = RowsOf(P, r)
  <2>1. ASSUME NEW e \in Selected(r) PROVE \E p \in P : e \in Rows(p, r)
    <3>1. e \in events /\ e.run = r
      BY DEF Selected, Of
    <3>2. PICK p \in StoredBy : e \in Rows(p, stored[p])
      BY <3>1 DEF RowsWhole
    <3>3. p \in Processes /\ stored[p] = r
      BY <3>1, <3>2, RowsRun DEF StoredBy
    <3>4. Rows(p, r) \subseteq events
      BY <3>1, <3>2, <3>3 DEF RowsWhole
    <3>5. QED
      BY <3>2, <3>3, <3>4
  <2>2. ASSUME NEW p \in P, NEW e \in Rows(p, r) PROVE e \in Selected(r)
    BY <2>2, RowsRun DEF Selected, Of
  <2>3. QED
    BY <2>1, <2>2 DEF RowsOf
<1>2. P \in SUBSET {p \in Processes : stored[p] = r}
  OBVIOUS
<1>3. QED
  BY <1>1, <1>2 DEF OfProcesses

(* Every step leaves an analysis with rows of whole processes in hand.     *)
LEMMA HandsStep == StoreInv /\ [Next]_vars => HandsWhole'
<1> SUFFICES ASSUME StoreInv, [Next]_vars, NEW a \in Analyses
             PROVE  /\ OfProcesses(single[a].run, single[a].events)'
                    /\ pc'[a] \in {"delete", "check", "insert"} => single'[a].run \in run'
                    /\ pc'[a] \in {"begin", "select", "done"} => single'[a].events = {}
                    /\ pc'[a] \in {"check", "insert"} => single'[a].events # {}
  BY DEF HandsWhole
<1> USE DEF tables, local
<1>1. HandsWhole /\ Shape
  BY DEF StoreInv
<1>2. run \subseteq run' /\ run \in SUBSET (Nat \ {NoRun})
  BY RunsPositive, StoreRunEffect, Frames
<1>3. single'[a] = single[a] => OfProcesses(single[a].run, single[a].events)'
  <2>1. single[a].events \in SUBSET RowType /\ OfProcesses(single[a].run, single[a].events)
    BY <1>1 DEF HandsWhole, Shape
  <2>2. \E P \in SUBSET {p \in Processes : stored'[p] = single[a].run} :
          single[a].events = RowsOf(P, single[a].run)
    BY <2>1, HandStays
  <2>3. QED
    BY <2>2 DEF OfProcesses
<1>4. CASE pc'[a] = pc[a] /\ single'[a] = single[a]
  BY <1>1, <1>2, <1>3, <1>4 DEF HandsWhole
<1>6. CASE ReadAvailableRunIDs(a)
  BY <1>1, <1>3, <1>6 DEF ReadAvailableRunIDs, Goto, Shape, HandsWhole
<1>7. CASE SelectRun(a)
  <2>1. PICK r \in todo[a] : single' = [single EXCEPT ![a] = [run |-> r, events |-> Selected(r)]]
    BY <1>7 DEF SelectRun
  <2>2. r \in run /\ single'[a].run = r /\ single'[a].events = Selected(r)
    BY <1>1, <2>1 DEF Shape
  <2>3. OfProcesses(r, Selected(r)) /\ UNCHANGED stored
    BY <1>1, <1>2, <1>7, <2>2, SelectedWhole DEF StoreInv, Shape, SelectRun
  <2>4. OfProcesses(single[a].run, single[a].events)'
    BY <2>2, <2>3 DEF OfProcesses
  <2>5. pc'[a] = "delete" /\ run' = run
    BY <1>1, <1>7 DEF SelectRun, Goto, Shape
  <2>6. QED
    BY <2>2, <2>4, <2>5
<1>8. CASE DeleteRun(a)
  <2>1. pc'[a] = (IF single[a].events = {} THEN "select" ELSE "check") /\ UNCHANGED <<single, run>>
    BY <1>1, <1>8 DEF DeleteRun, Goto, Shape
  <2>2. pc[a] = "delete"
    BY <1>8 DEF DeleteRun
  <2>3. QED
    BY <1>1, <1>3, <2>1, <2>2 DEF HandsWhole
<1>9. CASE CheckMetrics(a)
  <2>1. pc[a] = "check" /\ pc'[a] = "insert" /\ UNCHANGED <<single, run>>
    BY <1>1, <1>9 DEF CheckMetrics, Goto, Shape
  <2>2. QED
    BY <1>1, <1>3, <2>1 DEF HandsWhole
<1>10. CASE InsertMetrics(a)
  <2>1. pc'[a] = "select" /\ single'[a] = Nobody
    BY <1>1, <1>10 DEF InsertMetrics, Goto, Shape
  <2>2. {} \in SUBSET {p \in Processes : stored'[p] = NoRun} /\ {} = RowsOf({}, NoRun)
    BY DEF RowsOf
  <2>3. QED
    BY <2>1, <2>2 DEF OfProcesses, Nobody
<1>11. CASE Finish(a)
  <2>1. pc[a] = "select" /\ pc'[a] = "done" /\ UNCHANGED <<single, run>>
    BY <1>1, <1>11 DEF Finish, Goto, Shape
  <2>2. QED
    BY <1>1, <1>3, <2>1 DEF HandsWhole
<1>12. CASE Kill(a)
  <2>1. pc'[a] = "killed" /\ UNCHANGED <<single, run>>
    BY <1>1, <1>12 DEF Kill, Goto, Shape
  <2>2. QED
    BY <1>3, <2>1
<1>13. ASSUME NEW p \in Processes, Store(p) PROVE pc'[a] = pc[a] /\ single'[a] = single[a]
  BY <1>13 DEF Store, SearchProject, StoreRun, Refused
<1>14. ASSUME NEW b \in Analyses, a # b, Step(b) \/ Kill(b)
       PROVE  pc'[a] = pc[a] /\ single'[a] = single[a]
  BY <1>1, <1>14 DEF Step, ReadAvailableRunIDs, SelectRun, DeleteRun, CheckMetrics, InsertMetrics,
     Finish, Kill, Goto, Shape
<1>15. QED
  BY <1>4, <1>6, <1>7, <1>8, <1>9, <1>10, <1>11, <1>12, <1>13, <1>14 DEF Next, Step, vars

(* Metrics that have been stored stay.                                     *)
LEMMA MetricsStay ==
  ASSUME StoreInv, [Next]_vars
  PROVE  /\ \A i \in DOMAIN metrics : i \in DOMAIN metrics' /\ metrics'[i] = metrics[i]
         /\ \A r : HasMetrics(r) => HasMetrics(r)'
<1>1. metrics \in Seq([run : run, scops : Int, total : Int])
  BY DEF StoreInv, Shape
<1>2. ASSUME NEW a \in Analyses, InsertMetrics(a)
      PROVE  \A i \in DOMAIN metrics : i \in DOMAIN metrics' /\ metrics'[i] = metrics[i]
  <2>1. CASE UNCHANGED metrics
    BY <2>1
  <2>2. ASSUME NEW row, metrics' = Append(metrics, row)
        PROVE  \A i \in DOMAIN metrics : i \in DOMAIN metrics' /\ metrics'[i] = metrics[i]
    BY <1>1, <2>2
  <2>3. QED
    BY <1>2, <2>1, <2>2 DEF InsertMetrics
<1>3. \A i \in DOMAIN metrics : i \in DOMAIN metrics' /\ metrics'[i] = metrics[i]
  BY <1>2, Frames
<1>4. QED
  BY <1>3 DEF HasMetrics

(* What an analysis has found out stays right.                             *)
LEMMA FindingsStep == StoreInv /\ [Next]_vars => FindingsLast'
<1> SUFFICES ASSUME StoreInv, [Next]_vars, NEW a \in Analyses
             PROVE  /\ runId' = NoRun /\ pc'[a] = "delete" /\ single'[a].events = {} =>
                         Of(single[a].run)' = {}
                    /\ pc'[a] = "insert" /\ exists'[a] => HasMetrics(single[a].run)'
  BY DEF FindingsLast
<1> USE DEF tables, local
<1>1. HandsWhole /\ Shape /\ FindingsLast /\ RowsWhole
  BY DEF StoreInv
<1>2. ASSUME NEW b \in Analyses, b # a, Step(b) \/ Kill(b)
      PROVE  /\ pc'[a] = pc[a] /\ single'[a] = single[a] /\ exists'[a] = exists[a]
             /\ events' \subseteq events
  BY <1>1, <1>2 DEF Step, Kill, ReadAvailableRunIDs, SelectRun, DeleteRun, CheckMetrics,
     InsertMetrics, Finish, Goto, Shape, Remaining
<1>3. CASE pc'[a] = pc[a] /\ single'[a] = single[a] /\ exists'[a] = exists[a] /\ events' \subseteq events
  <2>1. pc[a] = "insert" /\ exists[a] => \E i \in DOMAIN metrics' : metrics'[i].run = single[a].run
    BY <1>1, MetricsStay DEF FindingsLast, HasMetrics
  <2>2. runId = NoRun /\ pc[a] = "delete" /\ single[a].events = {} =>
          {e \in events' : e.run = single[a].run} = {}
    BY <1>1, <1>3 DEF FindingsLast, Of
  <2>3. QED
    BY <1>3, <2>1, <2>2, Frames DEF HasMetrics, Of
<1>4. ASSUME NEW p \in Processes, StoreRun(p)
      PROVE  /\ runId' = NoRun /\ pc'[a] = "delete" /\ single'[a].events = {} =>
                  Of(single[a].run)' = {}
             /\ pc'[a] = "insert" /\ exists'[a] => HasMetrics(single[a].run)'
  <2>1. /\ UNCHANGED <<runId, metrics, pc, single, exists>> /\ events' = events \cup Rows(p, RunFor)
        /\ runId = NoRun => RunFor \notin run
    BY <1>4, StoreRunEffect
  <2>2. ASSUME runId = NoRun, pc[a] = "delete", single[a].events = {} PROVE Of(single[a].run)' = {}
    <3>1. single[a].run \in run /\ Of(single[a].run) = {}
      BY <1>1, <2>2 DEF HandsWhole, FindingsLast
    <3>2. \A e \in Rows(p, RunFor) : e.run # single[a].run
      BY <2>1, <2>2, <3>1, RowsRun
    <3>3. QED
      BY <2>1, <3>1, <3>2 DEF Of
  <2>3. QED
    BY <1>1, <2>1, <2>2 DEF FindingsLast, HasMetrics
<1>5. CASE SelectRun(a)
  <2>1. PICK r \in todo[a] : single' = [single EXCEPT ![a] = [run |-> r, events |-> Selected(r)]]
    BY <1>5 DEF SelectRun
  <2>2. single'[a].events = Of(single'[a].run) /\ UNCHANGED events
    BY <1>1, <1>5, <2>1 DEF SelectRun, Selected, Shape
  <2>3. pc'[a] = "delete"
    BY <1>1, <1>5 DEF SelectRun, Goto, Shape
  <2>4. QED
    BY <2>2, <2>3 DEF Of
<1>6. CASE CheckMetrics(a)
  <2>1. pc'[a] = "insert" /\ exists'[a] = HasMetrics(single[a].run) /\ UNCHANGED <<single, metrics>>
    BY <1>1, <1>6 DEF CheckMetrics, Goto, Shape
  <2>2. QED
    BY <2>1 DEF HasMetrics
<1>7. CASE ReadAvailableRunIDs(a) \/ DeleteRun(a) \/ InsertMetrics(a) \/ Finish(a) \/ Kill(a)
  <2>1. pc'[a] \notin {"delete", "insert"}
    BY <1>1, <1>7 DEF ReadAvailableRunIDs, DeleteRun, InsertMetrics, Finish, Kill, Goto, Shape
  <2>2. QED
    BY <2>1
<1>8. ASSUME NEW p \in Processes, Asks(p)
      PROVE  /\ pc'[a] = pc[a] /\ single'[a] = single[a] /\ exists'[a] = exists[a]
             /\ events' \subseteq events
  BY <1>8, AsksEffect
<1>9. QED
  BY <1>2, <1>3, <1>4, <1>5, <1>6, <1>7, <1>8 DEF Next, Store, Asks, Step, vars

-----------------------------------------------------------------------------
(* The invariant holds before anything has been stored.                    *)
LEMMA StoreInit == Init => StoreInv
<1> SUFFICES ASSUME Init PROVE StoreInv
  OBVIOUS
<1>1. runId \in {0, 1} /\ StoredBy = {}
  BY Assumptions DEF Init, StoredBy
<1>2. Cardinality(StoredBy) = 0
  BY <1>1, FS_EmptySet
<1>3. RunsNumbered
  BY <1>1, <1>2 DEF Init, RunsNumbered
<1>4. Shape
  BY <1>1 DEF Init, Shape, Nobody, NoTime, NoRun
<1>5. RowsWhole
  BY <1>1 DEF Init, RowsWhole
<1>6. HandsWhole
  <2>1. {} \in SUBSET {p \in Processes : stored[p] = NoRun} /\ {} = RowsOf({}, NoRun)
    BY DEF RowsOf
  <2>2. QED
    BY <2>1 DEF Init, HandsWhole, OfProcesses, Nobody
<1>7. FindingsLast
  BY DEF Init, FindingsLast
<1>8. ProjectEntered
  BY DEF Init, ProjectEntered
<1>9. QED
  BY <1>3, <1>4, <1>5, <1>6, <1>7, <1>8 DEF StoreInv

(* The inductive invariant of the database.                                *)
THEOREM StoreInvariant == Spec => []StoreInv
<1>1. StoreInv /\ [Next]_vars => StoreInv'
  BY ShapeStep, ProjectStep, NumberedStep, WholeStep, HandsStep, FindingsStep DEF StoreInv
<1>2. QED
  BY <1>1, StoreInit, PTL DEF Spec

(* Every variable has its type, and tables refer to runs that exist.       *)
THEOREM TypeCorrect == Spec => []TypeOK
<1>1. StoreInv => TypeOK
  <2> SUFFICES ASSUME StoreInv PROVE TypeOK
    OBVIOUS
  <2>1. Shape /\ RowsWhole
    BY DEF StoreInv
  <2>2. run \subseteq 1..(Cardinality(Processes) + 1)
    <3>1. /\ Cardinality(StoredBy) \in Nat /\ Cardinality(Processes) \in Nat
          /\ Cardinality(StoredBy) <= Cardinality(Processes)
      BY Assumptions, FS_Subset, FS_CardinalityType DEF StoredBy
    <3>2. runId \in {0, 1}
      BY <2>1, Assumptions DEF Shape
    <3>3. QED
      BY <3>1, <3>2 DEF StoreInv, RunsNumbered, NoRun
  <2>3. ASSUME NEW e \in events PROVE e \in RowType /\ e.run \in run
    <3>1. PICK p \in StoredBy : e \in Rows(p, stored[p])
      BY <2>1 DEF RowsWhole
    <3>2. stored[p] \in run /\ p \in Processes
      BY <2>1 DEF StoredBy, Shape
    <3>3. QED
      BY <2>1, <3>1, <3>2, RowsRun DEF Shape
  <2>4. \A i \in DOMAIN metrics : metrics[i] \in [run : run, scops : Int, total : Int]
    BY <2>1, MetricsRow
  <2>5. QED
    BY <2>1, <2>2, <2>3, <2>4 DEF TypeOK, Shape
<1>2. QED
  BY <1>1, StoreInvariant, PTL

(* An analysis that has rows in hand has them until it has stored metrics  *)
(* of their run, or for good if it is killed.                              *)
LEMMA HoldsStays ==
  ASSUME StoreInv, [Next]_vars, NEW a \in Analyses, NEW r, Holds(a, r)
  PROVE  Holds(a, r)' \/ HasMetrics(r)'
<1> USE DEF tables, local
<1>1. HandsWhole /\ Shape /\ FindingsLast
  BY DEF StoreInv
<1>2. single[a].run = r /\ single[a].events # {} /\ pc[a] \in {"delete", "check", "insert", "killed"}
  BY <1>1 DEF Holds, HandsWhole, Shape
<1>3. CASE single'[a] = single[a] /\ pc'[a] # "select"
  BY <1>2, <1>3 DEF Holds
<1>4. CASE DeleteRun(a) \/ CheckMetrics(a) \/ Kill(a)
  <2>1. single'[a] = single[a] /\ pc'[a] # "select"
    BY <1>1, <1>2, <1>4 DEF DeleteRun, CheckMetrics, Kill, Goto, Shape
  <2>2. QED
    BY <1>3, <2>1
<1>5. CASE InsertMetrics(a)
  <2>1. CASE exists[a]
    <3>1. HasMetrics(r)
      BY <1>1, <1>2, <1>5, <2>1 DEF InsertMetrics, FindingsLast
    <3>2. QED
      BY <3>1, MetricsStay
  <2>2. CASE ~exists[a]
    <3>1. PICK m \in GetMetrics(single[a].events) :
            metrics' = Append(metrics, [run |-> single[a].run, scops |-> m.scops, total |-> m.total])
      BY <1>5, <2>2 DEF InsertMetrics, Skips
    <3>2. Len(metrics) + 1 \in DOMAIN metrics' /\ metrics'[Len(metrics) + 1].run = r
      BY <1>1, <1>2, <3>1 DEF Shape
    <3>3. QED
      BY <3>2 DEF HasMetrics
  <2>3. QED
    BY <2>1, <2>2
<1>6. ASSUME NEW b \in Analyses, b # a, Step(b) \/ Kill(b)
      PROVE  single'[a] = single[a] /\ pc'[a] = pc[a]
  BY <1>1, <1>6 DEF Step, Kill, ReadAvailableRunIDs, SelectRun, DeleteRun, CheckMetrics,
     InsertMetrics, Finish, Goto, Shape
<1>7. ASSUME NEW p \in Processes, Store(p) PROVE single'[a] = single[a] /\ pc'[a] = pc[a]
  BY <1>7 DEF Store, SearchProject, StoreRun, Refused
<1>8. pc[a] \in {"delete", "check", "insert", "killed"} =>
        ~ (ReadAvailableRunIDs(a) \/ SelectRun(a) \/ Finish(a))
  BY DEF ReadAvailableRunIDs, SelectRun, Finish
<1>9. QED
  BY <1>2, <1>3, <1>4, <1>5, <1>6, <1>7, <1>8 DEF Next, Step, vars

(* A process that is refused is not the one that has entered the project.  *)
LEMMA RefusedOvertaken ==
  ASSUME StoreInv, NEW p \in Processes, found[p] = "refused"
  PROVE  \E q \in Processes \ {p} : stored[q] # NoRun
<1>1. stored[p] = NoRun /\ StoredBy # {}
  BY DEF StoreInv, ProjectEntered
<1>2. QED
  BY <1>1 DEF StoredBy

(* No step takes a stored run away, or gives one to two processes.         *)
Kept(p) ==
  Alone(p) =>
    \/ Rows(p, stored[p]) \subseteq events
    \/ /\ Of(stored[p]) = {}
       /\ \/ HasMetrics(stored[p])
          \/ \E a \in Analyses : Holds(a, stored[p])

(* Every step keeps a run of its own whole.                                *)
LEMMA RunKeptStep ==
  ASSUME StoreInv, [Next]_vars, NEW p \in Processes, Kept(p)
  PROVE  Kept(p)'
<1> SUFFICES ASSUME Alone(p)'
             PROVE  \/ Rows(p, stored'[p]) \subseteq events'
                    \/ /\ Of(stored[p])' = {}
                       /\ \/ HasMetrics(stored[p])'
                          \/ \E a \in Analyses : Holds(a, stored[p])'
  BY DEF Kept
<1>1. HandsWhole /\ Shape /\ FindingsLast /\ RowsWhole /\ RunsNumbered
  BY DEF StoreInv
<1>2. runId = NoRun /\ stored'[p] # NoRun /\ Rows(p, stored'[p]) # {}
  BY Frames DEF Alone
<1>3. CASE stored[p] = NoRun
  <2>1. PICK q \in Processes : StoreRun(q)
    BY <1>2, <1>3, Frames
  <2>2. q = p
    BY <1>1, <1>2, <1>3, <2>1, StoreRunEffect DEF Shape
  <2>3. events' = events \cup Rows(p, RunFor) /\ stored'[p] = RunFor
    BY <1>1, <2>1, <2>2, StoreRunEffect DEF Shape
  <2>4. QED
    BY <2>3
<1>4. CASE stored[p] # NoRun
  <2> PICK r \in run : r = stored[p]
    BY <1>1, <1>4 DEF Shape
  <2>1. stored'[p] = r /\ Alone(p) /\ r \in run
    BY <1>1, <1>2, <1>4, StoredStays DEF Alone
  <2>2. ASSUME Of(r) = {}, ~\E q \in Processes : StoreRun(q) PROVE {e \in events' : e.run = r} = {}
    BY <2>2, Frames DEF DeleteRun, Remaining, Of
  <2>3. ASSUME Of(r) = {}, NEW q \in Processes, StoreRun(q) PROVE {e \in events' : e.run = r} = {}
    <3>1. events' = events \cup Rows(q, RunFor) /\ RunFor # r
      BY <1>2, <2>1, <2>3, StoreRunEffect
    <3>2. QED
      BY <2>3, <3>1, RowsRun DEF Of
  <2>4. CASE Of(r) = {} /\ HasMetrics(r)
    <3>1. HasMetrics(r)'
      BY <2>4, MetricsStay
    <3>2. QED
      BY <2>1, <2>2, <2>3, <2>4, <3>1 DEF Of, HasMetrics
  <2>5. ASSUME Of(r) = {}, NEW a \in Analyses, Holds(a, r)
        PROVE  \/ Rows(p, stored'[p]) \subseteq events'
               \/ /\ Of(stored[p])' = {}
                  /\ \/ HasMetrics(stored[p])'
                     \/ \E b \in Analyses : Holds(b, stored[p])'
    <3>1. Holds(a, r)' \/ HasMetrics(r)'
      BY <2>5, HoldsStays
    <3>2. QED
      BY <2>1, <2>2, <2>3, <2>5, <3>1 DEF Of, HasMetrics, Holds
  <2>6. CASE Rows(p, r) \subseteq events
    <3>1. CASE events \subseteq events'
      BY <2>1, <2>6, <3>1
    <3>2. ASSUME NEW a \in Analyses, DeleteRun(a), single[a].run # r
          PROVE  Rows(p, r) \subseteq events'
      BY <2>6, <3>2, RowsRun DEF DeleteRun, Remaining, Of
    <3>3. ASSUME NEW a \in Analyses, DeleteRun(a), single[a].run = r
          PROVE  {e \in events' : e.run = r} = {} /\ single'[a].run = r /\ single'[a].events # {}
                   /\ pc'[a] # "select"
      <4>1. {e \in events' : e.run = r} = {} /\ UNCHANGED single /\ pc[a] = "delete"
        BY <3>3 DEF DeleteRun, Remaining, Of
      <4>2. single[a].events # {}
        <5>1. SUFFICES ASSUME single[a].events = {} PROVE FALSE
          OBVIOUS
        <5>2. Of(r) = {}
          BY <1>1, <1>2, <3>3, <4>1, <5>1 DEF FindingsLast
        <5>3. QED
          BY <1>2, <2>1, <2>6, <5>2, RowsRun DEF Of
      <4>3. pc'[a] = "check"
        BY <1>1, <3>3, <4>2 DEF DeleteRun, Goto, Shape
      <4>4. QED
        BY <3>3, <4>1, <4>2, <4>3
    <3>4. \/ events \subseteq events'
          \/ \E a \in Analyses : DeleteRun(a)
      BY StoreRunEffect, Frames
    <3>5. QED
      BY <2>1, <3>1, <3>2, <3>3, <3>4 DEF Of, Holds
  <2>7. QED
    BY <2>1, <2>4, <2>5, <2>6 DEF Kept
<1>5. QED
  BY <1>3, <1>4

(* A run of its own is in the table as a whole, or it is measured, or an   *)
(* analysis has it in hand, possibly one that was killed: however many     *)
(* analyses run at the same time, none loses a run on its way. A process   *)
(* loses its run only if another one enters the project before it.         *)
THEOREM RunKeptCorrect == Spec => []RunKept
<1> DEFINE AllKept == \A p \in Processes : Kept(p)
<1>1. Init => AllKept
  BY DEF Init, Kept, Alone
<1>2. StoreInv /\ AllKept /\ [Next]_vars => AllKept'
  BY RunKeptStep
<1>3. StoreInv /\ AllKept => RunKept
  BY RefusedOvertaken DEF RunKept, Kept
<1> HIDE DEF AllKept
<1>4. QED
  BY <1>1, <1>2, <1>3, StoreInvariant, PTL DEF Spec

(* Every step keeps the metrics those of whole processes.                  *)
LEMMA MetricsWholeStep ==
  StoreInv /\ MetricsOfWholeProcesses /\ [Next]_vars => MetricsOfWholeProcesses'
<1> SUFFICES ASSUME StoreInv, MetricsOfWholeProcesses, [Next]_vars, NEW i \in DOMAIN metrics'
             PROVE  \E P \in SUBSET {p \in Processes : stored'[p] = metrics'[i].run} :
                      /\ RowsOf(P, metrics'[i].run) # {}
                      /\ Measurement(i)' \in GetMetrics(RowsOf(P, metrics'[i].run))
  BY DEF MetricsOfWholeProcesses
<1>1. HandsWhole /\ Shape /\ metrics \in Seq([run : run, scops : Int, total : Int])
  BY DEF StoreInv, Shape
<1>2. CASE i \in DOMAIN metrics
  <2> PICK r : r = metrics[i].run
    OBVIOUS
  <2>1. metrics'[i] = metrics[i] /\ r \in run /\ r # NoRun
    BY <1>1, <1>2, MetricsStay, RunsPositive, MetricsRow
  <2>2. PICK P \in SUBSET {p \in Processes : stored[p] = r} :
          RowsOf(P, r) # {} /\ Measurement(i) \in GetMetrics(RowsOf(P, r))
    BY <1>2 DEF MetricsOfWholeProcesses
  <2>3. P \in SUBSET {p \in Processes : stored'[p] = r}
    BY <2>1, <2>2, StoredStays
  <2>4. metrics'[i].run = r /\ Measurement(i)' = Measurement(i)
    BY <2>1 DEF Measurement
  <2>5. QED
    BY <2>2, <2>3, <2>4
<1>3. CASE i \notin DOMAIN metrics
  <2>1. PICK a \in Analyses : InsertMetrics(a) /\ ~Skips(a)
    BY <1>3, Frames DEF InsertMetrics
  <2> PICK r : r = single[a].run
    OBVIOUS
  <2>2. PICK m \in GetMetrics(single[a].events) :
          metrics' = Append(metrics, [run |-> r, scops |-> m.scops, total |-> m.total])
    BY <2>1 DEF InsertMetrics
  <2>3. metrics'[i] = [run |-> r, scops |-> m.scops, total |-> m.total]
    BY <1>1, <1>3, <2>2
  <2>4. single[a].events # {} /\ OfProcesses(r, single[a].events) /\ UNCHANGED stored
    BY <1>1, <2>1 DEF HandsWhole, InsertMetrics
  <2>5. PICK P \in SUBSET {p \in Processes : stored[p] = r} : single[a].events = RowsOf(P, r)
    BY <2>4 DEF OfProcesses
  <2>6. m = [scops |-> m.scops, total |-> m.total]
    BY <2>2 DEF GetMetrics
  <2>7. metrics'[i].run = r /\ Measurement(i)' = m
    BY <2>3, <2>6 DEF Measurement
  <2>8. P \in SUBSET {p \in Processes : stored'[p] = r}
    BY <2>4, <2>5
  <2>9. RowsOf(P, r) # {} /\ m \in GetMetrics(RowsOf(P, r))
    BY <2>2, <2>4, <2>5
  <2>10. QED
    BY <2>7, <2>8, <2>9
<1>4. QED
  BY <1>2, <1>3

(* Whatever the interleaving, metrics are computed from all that some      *)
(* processes have stored under the run, never from a part of it.           *)
THEOREM MetricsCorrect == Spec => []MetricsOfWholeProcesses
<1>1. Init => MetricsOfWholeProcesses
  BY DEF Init, MetricsOfWholeProcesses
<1>2. QED
  BY <1>1, StoreInvariant, MetricsWholeStep, PTL DEF Spec

-----------------------------------------------------------------------------
(* Processes that share a run, where analyses begin after all have stored. *)
AllStored == \A p \in Processes : ~Storing(p)
GroupInv ==
  runId # NoRun =>
    /\ ~AllStored => metrics = <<>> /\ \A p \in StoredBy : Rows(p, runId) \subseteq events
    /\ AllStored =>
         /\ GroupWhole
         /\ \A a \in Analyses :
              /\ single[a].events \in {{}, AllOf(runId)}
              /\ pc[a] = "delete" /\ single[a].events = {} => Of(runId) = {}
         /\ \A i \in DOMAIN metrics : Measurement(i) \in GetMetrics(AllOf(runId))

(* Where no analysis selects a run, none goes on to delete one.            *)
LEMMA NoDelete ==
  ASSUME StoreInv, [Next]_vars, ~\E a \in Analyses : SelectRun(a),
         \A a \in Analyses : pc[a] # "delete"
  PROVE  \A a \in Analyses : pc'[a] # "delete"
<1> TAKE a \in Analyses
<1>1. pc \in [Analyses -> {"begin", "select", "delete", "check", "insert", "done", "killed"}]
  BY DEF StoreInv, Shape
<1>2. ASSUME NEW b \in Analyses, Step(b) \/ Kill(b) PROVE pc'[a] # "delete"
  BY <1>1, <1>2 DEF Step, Kill, ReadAvailableRunIDs, DeleteRun, CheckMetrics, InsertMetrics, Finish,
     Goto
<1>3. ASSUME NEW p \in Processes, Store(p) PROVE pc' = pc
  BY <1>3 DEF Store, SearchProject, StoreRun, Refused, local
<1>4. QED
  BY <1>2, <1>3 DEF Next, vars, local

(* The group's invariant, while some process has still to store.           *)
LEMMA GroupStoring ==
  ASSUME StoreInv, GroupInv, StoredFirst, [Next]_vars, runId # NoRun, ~AllStored
  PROVE  GroupInv'
<1>1. HandsWhole /\ Shape /\ RunsNumbered /\ RowsWhole /\ RowsWhole' /\ HandsWhole'
  BY WholeStep, HandsStep DEF StoreInv
<1>2. \A a \in Analyses : pc[a] = "begin" /\ single[a].events = {}
  BY <1>1 DEF StoredFirst, AllStored, HandsWhole
<1>3. metrics = <<>> /\ \A p \in StoredBy : Rows(p, runId) \subseteq events
  BY DEF GroupInv
<1>4. \A p \in Processes : stored[p] \in {NoRun, runId}
  BY <1>1 DEF Shape, RunsNumbered
<1>5. ASSUME NEW p \in Processes, StoreRun(p)
      PROVE  /\ \A q \in StoredBy' : stored'[q] = runId /\ Rows(q, runId) \subseteq events'
             /\ UNCHANGED <<runId, metrics, pc, single>>
  <2>1. /\ events' = events \cup Rows(p, runId) /\ stored' = [stored EXCEPT ![p] = runId]
        /\ StoredBy' = StoredBy \cup {p} /\ UNCHANGED <<runId, metrics, pc, single>>
    BY <1>5, StoreRunEffect
  <2>2. \A q \in StoredBy' : Rows(q, runId) \subseteq events'
    BY <1>3, <2>1
  <2>3. \A q \in StoredBy' : stored'[q] = runId
    BY <1>1, <1>4, <2>1 DEF StoredBy, Shape
  <2>4. QED
    BY <2>1, <2>2, <2>3
<1>6. ASSUME UNCHANGED <<runId, stored, events, metrics>>
      PROVE  \A q \in StoredBy' : stored'[q] = runId /\ Rows(q, runId) \subseteq events'
  BY <1>3, <1>4, <1>6 DEF StoredBy
<1>7. ~\E a \in Analyses : DeleteRun(a) \/ InsertMetrics(a) \/ SelectRun(a)
  BY <1>2 DEF DeleteRun, InsertMetrics, SelectRun
<1>8. /\ \A q \in StoredBy' : stored'[q] = runId /\ Rows(q, runId) \subseteq events'
      /\ UNCHANGED <<runId, metrics, single>>
  BY <1>5, <1>6, <1>7, Frames
<1>9. \A a \in Analyses : pc'[a] # "delete"
  BY <1>2, <1>7, NoDelete
<1>10. Of(runId)' = AllOf(runId)'
  <2>1. events' \subseteq UNION {Rows(q, stored'[q]) : q \in StoredBy'}
    BY <1>1 DEF RowsWhole
  <2>2. StoredBy' = {p \in Processes : stored'[p] = runId}
    BY <1>8 DEF StoredBy
  <2>3. ASSUME NEW e \in events'
        PROVE  e.run = runId /\ \E q \in StoredBy' : e \in Rows(q, runId)
    <3>1. PICK q \in StoredBy' : e \in Rows(q, stored'[q])
      BY <2>1
    <3>2. q \in Processes /\ stored'[q] = runId
      BY <1>8, <3>1, <2>2
    <3>3. QED
      BY <3>1, <3>2, RowsRun
  <2>4. \A q \in StoredBy' : Rows(q, runId) \subseteq events'
    BY <1>8
  <2>5. {e \in events' : e.run = runId} = UNION {Rows(q, runId) : q \in StoredBy'}
    BY <2>3, <2>4
  <2>6. QED
    BY <1>8, <2>2, <2>5 DEF Of, AllOf, RowsOf
<1>11. \A a \in Analyses : single'[a].events = {}
  BY <1>2, <1>8
<1>12. QED
  BY <1>3, <1>8, <1>9, <1>10, <1>11 DEF GroupInv, GroupWhole

(* The group's invariant, once all processes have stored.                  *)
LEMMA GroupStored ==
  ASSUME StoreInv, GroupInv, [Next]_vars, runId # NoRun, AllStored
  PROVE  GroupInv'
<1> USE DEF tables, local
<1> PICK r : r = runId
  OBVIOUS
<1>1. HandsWhole /\ Shape /\ RunsNumbered /\ FindingsLast
  BY DEF StoreInv
<1>2. /\ GroupWhole
      /\ \A a \in Analyses :
           /\ single[a].events \in {{}, AllOf(r)}
           /\ pc[a] = "delete" /\ single[a].events = {} => Of(r) = {}
      /\ \A i \in DOMAIN metrics : Measurement(i) \in GetMetrics(AllOf(r))
  BY DEF GroupInv
<1>3. UNCHANGED <<runId, stored, run>> /\ AllStored' /\ runId' = r /\ r # NoRun
  <2>1. ~\E p \in Processes : Store(p)
    BY DEF AllStored, Storing, Store, SearchProject, StoreRun, Refused
  <2>2. UNCHANGED <<runId, stored, run, found>>
    BY <2>1, Frames DEF Store, projects
  <2>3. QED
    BY <2>2 DEF AllStored, Storing
<1>4. \A a \in Analyses : pc[a] \in {"delete", "check", "insert"} => single[a].run = r
  BY <1>1 DEF HandsWhole, RunsNumbered
<1>6. Of(r) = AllOf(r)
      \/ /\ Of(r) = {}
         /\ \/ \E i \in DOMAIN metrics : Measurement(i) \in GetMetrics(AllOf(r))
            \/ \E a \in Analyses : single[a].events = AllOf(r) /\ pc[a] # "select"
  BY <1>2 DEF GroupWhole, AllStored
<1> DEFINE Goal ==
      /\ \/ Of(r)' = AllOf(r)
         \/ /\ Of(r)' = {}
            /\ \/ \E i \in DOMAIN metrics' : Measurement(i)' \in GetMetrics(AllOf(r))
               \/ \E a \in Analyses : single'[a].events = AllOf(r) /\ pc'[a] # "select"
      /\ \A a \in Analyses :
           /\ single'[a].events \in {{}, AllOf(r)}
           /\ pc'[a] = "delete" /\ single'[a].events = {} => Of(r)' = {}
      /\ \A i \in DOMAIN metrics' : Measurement(i)' \in GetMetrics(AllOf(r))
<1>7. ASSUME Goal PROVE GroupInv'
  <2>1. Of(runId)' = Of(r)' /\ AllOf(runId)' = AllOf(r)
    BY <1>3 DEF Of, AllOf, RowsOf
  <2>2. GroupWhole'
    BY <1>3, <1>7, <2>1 DEF GroupWhole, Measurement
  <2>3. QED
    BY <1>3, <1>7, <2>1, <2>2 DEF GroupInv
<1>8. ASSUME NEW a \in Analyses, ReadAvailableRunIDs(a) \/ CheckMetrics(a) \/ Finish(a) \/ Kill(a)
      PROVE  Goal
  <2>1. /\ UNCHANGED <<events, metrics, single>>
        /\ \A b \in Analyses : pc'[b] = "delete" => pc[b] = "delete"
        /\ \A b \in Analyses : pc'[b] = "select" => pc[b] = "select" \/ pc[b] = "begin"
    BY <1>1, <1>8 DEF ReadAvailableRunIDs, CheckMetrics, Finish, Kill, Goto, Shape
  <2>2. \A b \in Analyses : pc[b] = "begin" => single[b].events = {}
    BY <1>1 DEF HandsWhole
  <2>3. Of(r)' = Of(r)
    BY <2>1 DEF Of
  <2>4. \A i : Measurement(i)' = Measurement(i)
    BY <2>1 DEF Measurement
  <2>5. ASSUME NEW b \in Analyses, single[b].events = AllOf(r), pc[b] # "select",
               Of(r) # AllOf(r), Of(r) = {}
        PROVE  single'[b].events = AllOf(r) /\ pc'[b] # "select"
    BY <2>1, <2>2, <2>5
  <2>6. QED
    BY <1>2, <1>6, <2>1, <2>3, <2>4, <2>5
<1>9. ASSUME NEW a \in Analyses, SelectRun(a) PROVE Goal
  <2>1. PICK s \in todo[a] :
          single' = [single EXCEPT ![a] = [run |-> s, events |-> Selected(s)]]
    BY <1>9 DEF SelectRun
  <2>2. s = r
    BY <1>1, <2>1 DEF Shape, RunsNumbered
  <2>3. single' = [single EXCEPT ![a] = [run |-> r, events |-> Of(r)]]
    BY <2>1, <2>2 DEF Selected
  <2>4. pc[a] = "select" /\ pc' = [pc EXCEPT ![a] = "delete"] /\ UNCHANGED <<events, metrics>>
    BY <1>9 DEF SelectRun, Goto
  <2>5. Of(r)' = Of(r) /\ \A i : Measurement(i)' = Measurement(i)
    BY <2>4 DEF Of, Measurement
  <2>6. \A b \in Analyses : b # a => single'[b] = single[b] /\ pc'[b] = pc[b]
    BY <1>1, <2>3, <2>4 DEF Shape
  <2>7. single'[a].events = Of(r) /\ pc'[a] = "delete"
    BY <1>1, <2>3, <2>4 DEF Shape
  <2>8. Of(r) \in {{}, AllOf(r)}
    BY <1>6
  <2>9. QED
    BY <1>2, <1>6, <2>4, <2>5, <2>6, <2>7, <2>8
<1>10. ASSUME NEW a \in Analyses, DeleteRun(a) PROVE Goal
  <2>1. single[a].run = r /\ pc[a] = "delete" /\ UNCHANGED <<metrics, single>>
    BY <1>4, <1>10 DEF DeleteRun
  <2>2. Of(r)' = {}
    BY <1>10, <2>1 DEF DeleteRun, Remaining, Of
  <2>3. \A i : Measurement(i)' = Measurement(i)
    BY <2>1 DEF Measurement
  <2>4. \A b \in Analyses : b # a => pc'[b] = pc[b]
    BY <1>1, <1>10 DEF DeleteRun, Goto, Shape
  <2>5. CASE single[a].events = {}
    <3>1. Of(r) = {} /\ pc'[a] = "select"
      BY <1>1, <1>2, <1>10, <2>1, <2>5 DEF DeleteRun, Goto, Shape
    <3>2. CASE AllOf(r) = {}
      BY <1>2, <2>1, <2>2, <2>3, <3>2
    <3>3. CASE AllOf(r) # {}
      BY <1>2, <1>6, <2>1, <2>2, <2>3, <2>4, <2>5, <3>1, <3>3
    <3>4. QED
      BY <3>2, <3>3
  <2>6. CASE single[a].events # {}
    <3>1. single[a].events = AllOf(r) /\ pc'[a] = "check"
      BY <1>1, <1>2, <1>10, <2>1, <2>6 DEF DeleteRun, Goto, Shape
    <3>2. QED
      BY <1>2, <2>1, <2>2, <2>3, <3>1
  <2>7. QED
    BY <2>5, <2>6
<1>11. ASSUME NEW a \in Analyses, InsertMetrics(a) PROVE Goal
  <2>1. single[a].run = r /\ pc[a] = "insert" /\ UNCHANGED events
        /\ single[a].events = AllOf(r) /\ AllOf(r) # {}
    BY <1>1, <1>2, <1>4, <1>11 DEF InsertMetrics, HandsWhole
  <2>2. single' = [single EXCEPT ![a] = Nobody] /\ pc' = [pc EXCEPT ![a] = "select"]
    BY <1>11 DEF InsertMetrics, Goto
  <2>3. Of(r)' = Of(r)
    BY <2>1 DEF Of
  <2>4. /\ \A i \in DOMAIN metrics' : Measurement(i)' \in GetMetrics(AllOf(r))
        /\ \E i \in DOMAIN metrics' : Measurement(i)' \in GetMetrics(AllOf(r))
    <3>1. CASE Skips(a)
      <4>1. UNCHANGED metrics /\ DOMAIN metrics # {}
        BY <1>1, <1>11, <2>1, <3>1 DEF InsertMetrics, Skips, FindingsLast, HasMetrics
      <4>2. \A i : Measurement(i)' = Measurement(i)
        BY <4>1 DEF Measurement
      <4>3. QED
        BY <1>2, <4>1, <4>2
    <3>2. CASE ~Skips(a)
      <4>1. PICK m \in GetMetrics(AllOf(r)) :
              metrics' = Append(metrics, [run |-> r, scops |-> m.scops, total |-> m.total])
        BY <1>11, <2>1, <3>2 DEF InsertMetrics
      <4>2. metrics \in Seq([run : run, scops : Int, total : Int])
        BY <1>1 DEF Shape
      <4> PICK n : n = Len(metrics) + 1
        OBVIOUS
      <4>3. /\ DOMAIN metrics' = DOMAIN metrics \cup {n}
            /\ \A i \in DOMAIN metrics : metrics'[i] = metrics[i]
            /\ metrics'[n] = [run |-> r, scops |-> m.scops, total |-> m.total]
        BY <4>1, <4>2
      <4>4. m = [scops |-> m.scops, total |-> m.total]
        BY <4>1 DEF GetMetrics
      <4>5. Measurement(n)' = m
        BY <4>3, <4>4 DEF Measurement
      <4>6. \A i \in DOMAIN metrics : Measurement(i)' = Measurement(i)
        BY <4>3 DEF Measurement
      <4>7. ASSUME NEW i \in DOMAIN metrics' PROVE Measurement(i)' \in GetMetrics(AllOf(r))
        BY <1>2, <4>1, <4>3, <4>5, <4>6
      <4>8. QED
        BY <4>3, <4>7
    <3>3. QED
      BY <3>1, <3>2
  <2>5. \A b \in Analyses : single'[b].events \in {{}, AllOf(r)}
    BY <1>1, <1>2, <2>2 DEF Shape, Nobody
  <2>6. \A b \in Analyses : pc'[b] = "delete" => pc[b] = "delete" /\ single'[b] = single[b]
    BY <1>1, <2>2 DEF Shape
  <2>7. QED
    BY <1>2, <1>6, <2>3, <2>4, <2>5, <2>6
<1>12. ASSUME UNCHANGED vars PROVE Goal
  <2>1. Of(r)' = Of(r) /\ \A i : Measurement(i)' = Measurement(i)
    BY <1>12 DEF vars, Of, Measurement
  <2>2. QED
    BY <1>2, <1>6, <1>12, <2>1 DEF vars
<1>13. ~\E p \in Processes : Store(p)
  BY DEF AllStored, Storing, Store, SearchProject, StoreRun, Refused
<1>14. QED
  BY <1>7, <1>8, <1>9, <1>10, <1>11, <1>12, <1>13 DEF Next, Step

(* Processes that share a run and have all stored before the first         *)
(* analysis begins are measured as one run, or its events are at hand.     *)
THEOREM GroupKeptCorrect == Spec => GroupKept
<1>1. Init => GroupInv
  <2> SUFFICES ASSUME Init, runId # NoRun PROVE GroupInv
    BY DEF GroupInv
  <2>1. CASE Processes = {}
    <3>1. AllOf(runId) = {} /\ Of(runId) = {} /\ metrics = <<>>
      BY <2>1 DEF Init, AllOf, RowsOf, Of
    <3>2. \A a \in Analyses : single[a].events = {} /\ pc[a] # "delete"
      BY DEF Init, Nobody
    <3>3. QED
      BY <2>1, <3>1, <3>2 DEF GroupInv, GroupWhole, AllStored
  <2>2. CASE Processes # {}
    BY <2>2 DEF Init, GroupInv, AllStored, Storing, StoredBy
  <2>3. QED
    BY <2>1, <2>2
<1>2. StoreInv /\ GroupInv /\ StoredFirst /\ [Next]_vars => GroupInv'
  <2>1. runId = NoRun /\ [Next]_vars => GroupInv'
    BY Frames DEF GroupInv
  <2>2. QED
    BY <2>1, GroupStoring, GroupStored
<1>3. GroupInv => GroupWhole
  BY DEF GroupInv, GroupWhole, AllStored
<1>4. QED
  BY <1>1, <1>2, <1>3, StoreInvariant, PTL DEF Spec, GroupKept
=============================================================================
