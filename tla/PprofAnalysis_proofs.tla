------------------------ MODULE PprofAnalysis_proofs ------------------------
(***************************************************************************)
(* What the recursive definitions of PprofAnalysis compute, for all runs:  *)
(* sums that never exceed the total, and that are, over well-nested runs,  *)
(* the time in which a scop was open.                                      *)
(***************************************************************************)
EXTENDS PprofAnalysis, DataLemmas

RawEvent == [id : Int, type : EventTypes, at : Int]
Simplified == [id : Int, type : Enters, start : Int, duration : Int]

-----------------------------------------------------------------------------
(* SimpleTime counts event by event.                                       *)
Acc == [some : BOOLEAN, end : Int, time : Int]
Uncounted == [some |-> FALSE, end |-> 0, time |-> 0]

(* A step of SimpleTime's loop keeps its accumulator an accumulator.       *)
LEMMA CountTyped ==
  ASSUME NEW acc \in Acc, NEW e \in Simplified
  PROVE  Count(acc, e) \in Acc
<1>1. e.start + e.duration \in Int /\ acc.time + e.duration \in Int
  BY DEF Simplified, Acc
<1>2. QED
  BY <1>1 DEF Count, Acc

(* SimpleTime is what its loop over the run has counted at the end.        *)
LEMMA SimpleTimeSteps ==
  ASSUME NEW run \in Seq(Simplified)
  PROVE  \E c \in [0..Len(run) -> Acc] :
           /\ SimpleTime(run) = c[Len(run)].time
           /\ c[0] = Uncounted
           /\ \A n \in 1..Len(run) : c[n] = Count(c[n - 1], run[n])
<1> DEFINE N == 0..Len(run)
           counted[n \in N] == IF n = 0 THEN [some |-> FALSE, end |-> 0, time |-> 0]
                               ELSE Count(counted[n - 1], run[n])
           next(f, n) == IF n = 0 THEN Uncounted ELSE Count(f[n - 1], run[n])
           step == [n \in 1..Len(run) |-> [acc \in Acc |-> Count(acc, run[n])]]
<1>1. Len(run) \in Nat /\ \A n \in 1..Len(run) : run[n] \in Simplified
  <2>1. Len(run) \in Nat /\ DOMAIN run = 1..Len(run)
    OBVIOUS
  <2>2. QED
    BY <2>1, ElementOfSeq
<1>2. Uncounted \in Acc /\ step \in [1..Len(run) -> [Acc -> Acc]]
  <2>1. Uncounted \in Acc
    BY DEF Uncounted, Acc
  <2>2. ASSUME NEW n \in 1..Len(run) PROVE [acc \in Acc |-> Count(acc, run[n])] \in [Acc -> Acc]
    BY <1>1, CountTyped
  <2>3. QED
    BY <2>1, <2>2
<1>3. PICK c \in [N -> Acc] :
        c[0] = Uncounted /\ \A n \in 1..Len(run) : c[n] = step[n][c[n - 1]]
  <2> HIDE DEF step
  <2>1. Len(run) \in Nat
    BY <1>1
  <2>2. Uncounted \in Acc
    BY <1>2
  <2>3. step \in [1..Len(run) -> [Acc -> Acc]]
    BY <1>2
  <2>4. \E f \in [0..Len(run) -> Acc] : DefinedBy(f, Uncounted, Len(run), step)
    BY <2>1, <2>2, <2>3, RecursionTo
  <2>5. QED
    BY <2>4 DEF DefinedBy
<1>4. \A n \in 1..Len(run) : n - 1 \in N /\ step[n][c[n - 1]] = Count(c[n - 1], run[n])
  BY <1>1, <1>3
<1>5. c = [n \in N |-> next(c, n)]
  BY <1>1, <1>3, <1>4
<1>6. counted = [n \in N |-> next(counted, n)]
  <2>1. \E h : h = [n \in N |-> next(h, n)]
    BY <1>5
  <2>2. QED
    BY <2>1 DEF Uncounted
<1>7. SimpleTime(run) = counted[Len(run)].time
  BY DEF SimpleTime
<1> HIDE DEF counted
<1>8. \A n \in Nat : n \in {k \in Nat : k \in N => counted[k] = c[k]}
  <2> DEFINE S == {k \in Nat : k \in N => counted[k] = c[k]}
  <2>1. 0 \in S
    BY <1>3, <1>6
  <2>2. ASSUME NEW k \in Nat, k \in S PROVE k + 1 \in S
    <3>1. SUFFICES ASSUME k + 1 \in N PROVE counted[k + 1] = c[k + 1]
      OBVIOUS
    <3>2. k \in N /\ k + 1 \in 1..Len(run) /\ (k + 1) - 1 = k
      BY <1>1, <3>1
    <3>3. counted[k + 1] = Count(counted[k], run[k + 1])
      BY <1>6, <3>1, <3>2
    <3>4. c[k + 1] = Count(c[k], run[k + 1])
      BY <1>3, <1>4, <3>2
    <3>5. QED
      BY <2>2, <3>2, <3>3, <3>4
  <2> HIDE DEF S
  <2>3. QED
    BY <2>1, <2>2, SetInduction DEF S
<1>9. Len(run) \in N
  BY <1>1
<1>10. QED
  BY <1>1, <1>3, <1>4, <1>7, <1>8, <1>9

(* SimpleTime of a simplified run is an integer.                           *)
LEMMA TimeTyped ==
  ASSUME NEW run \in Seq(Simplified)
  PROVE  SimpleTime(run) \in Int
<1>1. Len(run) \in 0..Len(run)
  OBVIOUS
<1>2. QED
  BY <1>1, SimpleTimeSteps DEF Acc

(* The duration of the event of the whole run is a number.                 *)
LEMMA TotalTyped ==
  ASSUME NEW run \in Seq(Simplified)
  PROVE  SimpleTotal(run) \in Int
<1> DEFINE starts == {i \in DOMAIN run : run[i].id = Total}
<1>1. starts \in SUBSET Nat /\ starts \subseteq DOMAIN run
  OBVIOUS
<1> HIDE DEF starts
<1>2. CASE starts = {}
  BY <1>2 DEF SimpleTotal, starts
<1>3. CASE starts # {}
  <2>1. Min(starts) \in DOMAIN run
    BY <1>1, <1>3, MinOfNats
  <2>2. run[Min(starts)] \in Simplified
    <3>1. Len(run) \in Nat /\ DOMAIN run = 1..Len(run)
      OBVIOUS
    <3>2. QED
      BY <2>1, <3>1, ElementOfSeq
  <2>3. SimpleTotal(run) = run[Min(starts)].duration
    BY <1>3 DEF SimpleTotal, starts
  <2>4. QED
    BY <2>2, <2>3 DEF Simplified
<1>4. QED
  BY <1>2, <1>3

-----------------------------------------------------------------------------
(* Simplified events.                                                      *)
LEMMA RawRun ==
  ASSUME NEW evs \in Seq(RawEvent)
  PROVE  /\ Len(evs) \in Nat /\ DOMAIN evs = 1..Len(evs)
         /\ \A i \in 1..Len(evs) : evs[i] \in RawEvent
<1>1. Len(evs) \in Nat /\ DOMAIN evs = 1..Len(evs)
  OBVIOUS
<1>2. QED
  BY <1>1, ElementOfSeq

(* The exit of an event is one of its run and not before it: the next that *)
(* fits, or the event itself.                                              *)
LEMMA MatchingExitFits ==
  ASSUME NEW evs \in Seq(RawEvent), NEW i \in DOMAIN evs
  PROVE  /\ MatchingExit(evs, i) \in i..Len(evs)
         /\ \A j \in i..Len(evs) :
              evs[j].id = evs[i].id /\ evs[j].type = ExitOf[evs[i].type] =>
                /\ MatchingExit(evs, i) <= j
                /\ evs[MatchingExit(evs, i)].id = evs[i].id
                /\ evs[MatchingExit(evs, i)].type = ExitOf[evs[i].type]
<1> DEFINE exits == {j \in i..Len(evs) :
                       evs[j].id = evs[i].id /\ evs[j].type = ExitOf[evs[i].type]}
<1>1. i \in 1..Len(evs) /\ Len(evs) \in Nat
  BY RawRun
<1>2. exits \in SUBSET Nat
  BY <1>1
<1>3. MatchingExit(evs, i) = IF exits = {} THEN i ELSE Min(exits)
  BY DEF MatchingExit
<1>4. exits # {} => Min(exits) \in exits /\ \A j \in exits : Min(exits) <= j
  <2> HIDE DEF exits
  <2>1. QED
    BY <1>2, MinOfNats
<1>5. CASE exits = {}
  <2>1. MatchingExit(evs, i) = i
    BY <1>3, <1>5
  <2>2. QED
    BY <1>1, <1>5, <2>1
<1>6. CASE exits # {}
  <2>1. MatchingExit(evs, i) \in exits /\ \A j \in exits : MatchingExit(evs, i) <= j
    BY <1>3, <1>4, <1>6
  <2>2. QED
    BY <2>1
<1>7. QED
  BY <1>5, <1>6

(* What the database keeps of an enter is a row of the simplified run.     *)
LEMMA SimplifyTyped ==
  ASSUME NEW evs \in Seq(RawEvent), NEW i \in EntersIn(evs)
  PROVE  Simplify(evs, i) \in Simplified
<1>1. i \in 1..Len(evs) /\ evs[i].type \in Enters /\ 1 \in 1..Len(evs)
  BY RawRun DEF EntersIn
<1>2. MatchingExit(evs, i) \in 1..Len(evs)
  BY <1>1, RawRun, MatchingExitFits
<1>3. evs[i] \in RawEvent /\ evs[1] \in RawEvent /\ evs[MatchingExit(evs, i)] \in RawEvent
  BY <1>1, <1>2, RawRun
<1>4. QED
  BY <1>1, <1>3 DEF Simplify, Simplified, RawEvent

(* SimplifiedRun goes through the events in order.                         *)
LEMMA SimplifiedRunSteps ==
  ASSUME NEW evs \in Seq(RawEvent)
  PROVE  \E f \in [0..Len(evs) -> Seq(Simplified)] :
           /\ SimplifiedRun(evs) = f[Len(evs)]
           /\ f[0] = <<>>
           /\ \A n \in 1..Len(evs) :
                f[n] = f[n - 1] \o (IF n \in EntersIn(evs) THEN <<Simplify(evs, n)>> ELSE <<>>)
<1> DEFINE N == 0..Len(evs)
           Runs == Seq(Simplified)
           put(run, n) == run \o (IF n \in EntersIn(evs) THEN <<Simplify(evs, n)>> ELSE <<>>)
           simplified[n \in N] ==
             IF n = 0 THEN <<>>
             ELSE simplified[n - 1] \o (IF n \in EntersIn(evs) THEN <<Simplify(evs, n)>> ELSE <<>>)
           next(f, n) == IF n = 0 THEN <<>> ELSE put(f[n - 1], n)
           step == [n \in 1..Len(evs) |-> [run \in Runs |-> put(run, n)]]
<1>1. Len(evs) \in Nat
  BY RawRun
<1>2. \A n \in 1..Len(evs) : \A run \in Runs : put(run, n) \in Runs
  BY SimplifyTyped
<1>3. SimplifiedRun(evs) = simplified[Len(evs)]
  BY DEF SimplifiedRun
<1>4. (\E h : h = [n \in N |-> next(h, n)]) => simplified = [n \in N |-> next(simplified, n)]
  OBVIOUS
<1> HIDE DEF put, simplified
<1>5. <<>> \in Runs
  OBVIOUS
<1> HIDE DEF Runs
<1>6. step \in [1..Len(evs) -> [Runs -> Runs]]
  BY <1>2
<1>7. PICK f \in [0..Len(evs) -> Runs] :
        f[0] = <<>> /\ \A n \in 1..Len(evs) : f[n] = step[n][f[n - 1]]
  <2> HIDE DEF step
  <2>1. \E f \in [0..Len(evs) -> Runs] : DefinedBy(f, <<>>, Len(evs), step)
    BY <1>1, <1>5, <1>6, RecursionTo
  <2>2. QED
    BY <2>1 DEF DefinedBy
<1>8. \A n \in 1..Len(evs) : n - 1 \in N /\ step[n][f[n - 1]] = put(f[n - 1], n)
  BY <1>1, <1>7
<1>9. f = [n \in N |-> next(f, n)]
  BY <1>1, <1>7, <1>8
<1>10. simplified = [n \in N |-> next(simplified, n)]
  BY <1>4, <1>9
<1>11. \A n \in Nat : n \in {k \in Nat : k \in N => simplified[k] = f[k]}
  <2> DEFINE S == {k \in Nat : k \in N => simplified[k] = f[k]}
  <2>1. 0 \in S
    BY <1>7, <1>10
  <2>2. ASSUME NEW k \in Nat, k \in S PROVE k + 1 \in S
    <3>1. SUFFICES ASSUME k + 1 \in N PROVE simplified[k + 1] = f[k + 1]
      OBVIOUS
    <3>2. k \in N /\ k + 1 \in 1..Len(evs) /\ (k + 1) - 1 = k /\ simplified[k] = f[k]
      BY <1>1, <2>2, <3>1
    <3>3. simplified[k + 1] = put(simplified[k], k + 1)
      BY <1>10, <3>1, <3>2
    <3>4. f[k + 1] = put(f[k], k + 1)
      BY <1>7, <1>8, <3>2
    <3>5. QED
      BY <3>2, <3>3, <3>4
  <2> HIDE DEF S
  <2>3. QED
    BY <2>1, <2>2, SetInduction DEF S
<1>12. SimplifiedRun(evs) = f[Len(evs)]
  BY <1>1, <1>3, <1>11
<1>13. \A n \in 1..Len(evs) : f[n] = put(f[n - 1], n)
  BY <1>7, <1>8
<1>14. QED
  BY <1>7, <1>12, <1>13 DEF put, Runs

(* A simplified run consists of simplified events of the run, and begins   *)
(* as the run does.                                                        *)
LEMMA SimplifiedRunOf ==
  ASSUME NEW evs \in Seq(RawEvent), 1 \in EntersIn(evs)
  PROVE  /\ SimplifiedRun(evs) \in Seq(Simplified)
         /\ \A k \in 1..Len(SimplifiedRun(evs)) :
              \E i \in EntersIn(evs) : SimplifiedRun(evs)[k] = Simplify(evs, i)
         /\ 1 \in 1..Len(SimplifiedRun(evs)) /\ SimplifiedRun(evs)[1] = Simplify(evs, 1)
<1>1. PICK f \in [0..Len(evs) -> Seq(Simplified)] :
           /\ SimplifiedRun(evs) = f[Len(evs)]
           /\ f[0] = <<>>
           /\ \A n \in 1..Len(evs) :
                f[n] = f[n - 1] \o (IF n \in EntersIn(evs) THEN <<Simplify(evs, n)>> ELSE <<>>)
  BY SimplifiedRunSteps
<1>2. Len(evs) \in Nat /\ Len(evs) >= 1
  BY RawRun DEF EntersIn
<1> DEFINE Upto(n) ==
             /\ \A k \in 1..Len(f[n]) : \E i \in EntersIn(evs) : f[n][k] = Simplify(evs, i)
             /\ n # 0 => Len(f[n]) >= 1 /\ f[n][1] = Simplify(evs, 1)
           S == {n \in Nat : n \in 0..Len(evs) => Upto(n)}
<1>3. 0 \in S
  <2>1. Len(f[0]) = 0
    BY <1>1
  <2>2. QED
    BY <2>1
<1>4. ASSUME NEW n \in Nat, n \in S PROVE n + 1 \in S
  <2>1. SUFFICES ASSUME n + 1 \in 0..Len(evs) PROVE Upto(n + 1)
    OBVIOUS
  <2>2. n \in 0..Len(evs) /\ n + 1 \in 1..Len(evs) /\ (n + 1) - 1 = n
    BY <1>2, <2>1
  <2>3. Upto(n) /\ f[n] \in Seq(Simplified)
    BY <1>1, <1>4, <2>2
  <2>4. CASE n + 1 \in EntersIn(evs)
    <3> DEFINE e == Simplify(evs, n + 1)
    <3>1. f[n + 1] = f[n] \o <<e>> /\ e \in Simplified
      BY <1>1, <2>2, <2>4, SimplifyTyped
    <3> HIDE DEF e
    <3>2. Len(f[n + 1]) = Len(f[n]) + 1 /\ f[n + 1][Len(f[n]) + 1] = e
          /\ \A k \in 1..Len(f[n]) : f[n + 1][k] = f[n][k]
      BY <2>3, <3>1
    <3>3. Len(f[n]) \in Nat
      BY <2>3
    <3>4. \A k \in 1..Len(f[n + 1]) : \E i \in EntersIn(evs) : f[n + 1][k] = Simplify(evs, i)
      <4> TAKE k \in 1..Len(f[n + 1])
      <4>1. CASE k \in 1..Len(f[n])
        BY <2>3, <3>2, <4>1
      <4>2. CASE k = Len(f[n]) + 1
        BY <2>4, <3>2, <4>2 DEF e
      <4>3. QED
        BY <3>2, <3>3, <4>1, <4>2
    <3>5. f[n + 1][1] = Simplify(evs, 1)
      <4>1. CASE n = 0
        BY <1>1, <3>2, <4>1 DEF e
      <4>2. CASE n # 0
        BY <2>3, <3>2, <3>3, <4>2
      <4>3. QED
        BY <4>1, <4>2
    <3>6. QED
      BY <3>2, <3>3, <3>4, <3>5
  <2>5. CASE n + 1 \notin EntersIn(evs)
    <3>1. f[n + 1] = f[n] \o <<>>
      BY <1>1, <2>2, <2>5
    <3>2. f[n + 1] = f[n] /\ n # 0
      BY <2>3, <2>5, <3>1
    <3>3. QED
      BY <2>3, <3>2
  <2>6. QED
    BY <2>4, <2>5
<1> HIDE DEF S
<1>5. Len(evs) \in S
  BY <1>2, <1>3, <1>4, SetInduction
<1>6. Upto(Len(evs)) /\ f[Len(evs)] \in Seq(Simplified)
  BY <1>1, <1>2, <1>5 DEF S
<1>7. QED
  BY <1>1, <1>2, <1>6

(* Timestamps ascend.                                                      *)
Ascending(evs) == \A i, j \in 1..Len(evs) : i < j => evs[i].at < evs[j].at

(* In a run that begins with its START and ends with its only STOP, the    *)
(* time in scops is at most the total: what is counted ends where the next *)
(* counted event starts, or before.                                        *)
LEMMA TimeWithinTotal ==
  ASSUME NEW evs \in Seq(RawEvent), Ascending(evs), evs # <<>>,
         evs[1].id = Total, evs[1].type = "RegionEnter",
         evs[Len(evs)].id = Total, evs[Len(evs)].type = "RegionExit",
         \A i \in 1..(Len(evs) - 1) : ~ (evs[i].id = Total /\ evs[i].type = "RegionExit")
  PROVE  SimpleTime(SimplifiedRun(evs)) <= SimpleTotal(SimplifiedRun(evs))
<1> DEFINE run == SimplifiedRun(evs)
           all == evs[Len(evs)].at - evs[1].at
<1>1. /\ Len(evs) \in Nat /\ DOMAIN evs = 1..Len(evs) /\ 1 \in 1..Len(evs) /\ Len(evs) \in 1..Len(evs)
      /\ \A i \in 1..Len(evs) : evs[i] \in RawEvent
  BY RawRun
<1>2. 1 \in EntersIn(evs)
  BY <1>1 DEF EntersIn, Enters, ExitOf
<1>3. /\ run \in Seq(Simplified)
      /\ \A k \in 1..Len(run) : \E i \in EntersIn(evs) : run[k] = Simplify(evs, i)
      /\ 1 \in 1..Len(run) /\ run[1] = Simplify(evs, 1)
  BY <1>2, SimplifiedRunOf
<1> HIDE DEF run
<1>4. ASSUME NEW i \in EntersIn(evs)
      PROVE  /\ Simplify(evs, i) \in Simplified
             /\ Simplify(evs, i).start >= 0 /\ Simplify(evs, i).duration >= 0
             /\ Simplify(evs, i).start + Simplify(evs, i).duration <= all
  <2>1. i \in 1..Len(evs) /\ MatchingExit(evs, i) \in 1..Len(evs) /\ i <= MatchingExit(evs, i)
    BY <1>1, MatchingExitFits DEF EntersIn
  <2>2. \A j, k \in 1..Len(evs) : j <= k => evs[j].at <= evs[k].at
    BY <1>1 DEF Ascending, RawEvent
  <2>3. evs[1].at <= evs[i].at /\ evs[i].at <= evs[MatchingExit(evs, i)].at
        /\ evs[MatchingExit(evs, i)].at <= evs[Len(evs)].at
    BY <1>1, <2>1, <2>2
  <2>4. evs[1].at \in Int /\ evs[i].at \in Int /\ evs[MatchingExit(evs, i)].at \in Int
        /\ evs[Len(evs)].at \in Int
    BY <1>1, <2>1 DEF RawEvent
  <2>5. QED
    BY <2>3, <2>4, SimplifyTyped DEF Simplify
<1>5. Simplify(evs, 1).id = Total /\ Simplify(evs, 1).duration = all
  <2>1. MatchingExit(evs, 1) = Len(evs)
    <3>1. /\ MatchingExit(evs, 1) \in 1..Len(evs)
          /\ evs[MatchingExit(evs, 1)].id = Total
          /\ evs[MatchingExit(evs, 1)].type = "RegionExit"
      BY <1>1, MatchingExitFits DEF ExitOf
    <3>2. QED
      BY <1>1, <3>1
  <2>2. QED
    BY <2>1 DEF Simplify
<1>6. SimpleTotal(run) = all
  <2> DEFINE starts == {i \in DOMAIN run : run[i].id = Total}
  <2>1. 1 \in starts /\ starts \in SUBSET Nat /\ \A i \in starts : 1 <= i
    BY <1>3, <1>5
  <2>2. SimpleTotal(run) = run[Min(starts)].duration
    BY <2>1 DEF SimpleTotal
  <2> HIDE DEF starts
  <2>3. Min(starts) = 1
    <3>1. Min(starts) \in starts /\ \A i \in starts : Min(starts) <= i
      BY <2>1, MinOfNats
    <3>2. Min(starts) \in Nat /\ Min(starts) <= 1 /\ 1 <= Min(starts)
      BY <2>1, <3>1
    <3>3. QED
      BY <3>2
  <2>4. QED
    BY <1>3, <1>5, <2>2, <2>3
<1>7. PICK c \in [0..Len(run) -> Acc] :
           /\ SimpleTime(run) = c[Len(run)].time
           /\ c[0] = Uncounted
           /\ \A n \in 1..Len(run) : c[n] = Count(c[n - 1], run[n])
  BY <1>3, SimpleTimeSteps
<1> DEFINE Fits(acc) ==
             acc.time <= acc.end /\ acc.end <= all /\ (~acc.some => acc.time = 0 /\ acc.end = 0)
           S == {n \in Nat : n \in 0..Len(run) => Fits(c[n])}
<1>8. 0 \in S
  <2>1. Simplify(evs, 1) \in Simplified
        /\ Simplify(evs, 1).start >= 0 /\ Simplify(evs, 1).duration >= 0
    BY <1>2, <1>4
  <2>2. 0 <= all
    BY <1>5, <2>1
  <2>3. QED
    BY <1>7, <2>2 DEF Uncounted
<1>9. ASSUME NEW n \in Nat, n \in S PROVE n + 1 \in S
  <2>1. SUFFICES ASSUME n + 1 \in 0..Len(run) PROVE Fits(c[n + 1])
    OBVIOUS
  <2>2. n \in 0..Len(run) /\ n + 1 \in 1..Len(run) /\ (n + 1) - 1 = n
    BY <1>3, <2>1
  <2>3. Fits(c[n]) /\ c[n] \in Acc /\ c[n + 1] = Count(c[n], run[n + 1])
    BY <1>7, <1>9, <2>2
  <2>4. run[n + 1] \in Simplified /\ run[n + 1].start >= 0
        /\ run[n + 1].start + run[n + 1].duration <= all
    BY <1>3, <1>4, <2>2
  <2> HIDE DEF all
  <2>5. all \in Int
    BY <1>1 DEF all, RawEvent
  <2>6. QED
    BY <2>3, <2>4, <2>5 DEF Count, Within, Acc, Simplified
<1> HIDE DEF S
<1>10. Len(run) \in S /\ Len(run) \in Nat
  BY <1>3, <1>8, <1>9, SetInduction
<1>11. Fits(c[Len(run)]) /\ c[Len(run)] \in Acc
  BY <1>7, <1>10 DEF S
<1> HIDE DEF all
<1>12. all \in Int
  BY <1>1 DEF all, RawEvent
<1>13. QED
  BY <1>6, <1>7, <1>11, <1>12 DEF Acc, run

-----------------------------------------------------------------------------
(* RawTime's loop, one event at a time. It drops ids of its stack without  *)
(* dropping their times, never the other way round.                        *)
RawAcc ==
  {a \in [ids : Seq(Int), start : Seq(Int), sub : Seq(Int), time : Int] :
     Len(a.sub) = Len(a.start) + 1 /\ Len(a.ids) <= Len(a.start)}
RawBase == [ids |-> <<>>, start |-> <<>>, sub |-> <<0>>, time |-> 0]
RawEnter(acc, e) ==
  [acc EXCEPT !.ids = Append(@, e.id), !.start = Append(@, -e.at), !.sub = Append(@, 0)]
RawClose(acc, e) ==
  LET full == Last(acc.start) + e.at
  IN  [ids |-> Front(acc.ids), start |-> Front(acc.start), sub |-> Charge(acc.sub, full),
       time |-> acc.time + full - Last(acc.sub)]
RawOpen(acc, e) == [acc EXCEPT !.ids = IF @ = <<>> THEN @ ELSE Open(@, e.id)]
RawExit(acc, e) ==
  LET open == RawOpen(acc, e)
  IN  IF open.ids # <<>> /\ Last(open.ids) = e.id THEN RawClose(open, e) ELSE open
RawStep(acc, e) == CASE e.type = "ScopEnter" -> RawEnter(acc, e)
                     [] e.type = "ScopExit" -> RawExit(acc, e)
                     [] OTHER -> acc

(* What is left of a stack is a beginning of it, and not empty.            *)
LEMMA RawOpenIs ==
  ASSUME NEW s \in Seq(Int), s # <<>>, NEW id
  PROVE  \E n \in 1..Len(s) : Open(s, id) = SubSeq(s, 1, n) /\ (s[Len(s)] = id => n = Len(s))
<1>1. Len(s) \in Nat /\ DOMAIN s = 1..Len(s) /\ Len(s) >= 1
  BY EmptySeq
<1>2. PICK S : S = {1} \cup {k \in DOMAIN s : s[k] = id}
  OBVIOUS
<1>3. S \in SUBSET (1..Len(s)) /\ S # {} /\ (s[Len(s)] = id => Len(s) \in S)
  BY <1>1, <1>2
<1>4. PICK n : n = Max(S)
  OBVIOUS
<1>5. n \in S /\ \A x \in S : n >= x
  BY <1>1, <1>3, <1>4, MaxOfNats
<1>6. Open(s, id) = SubSeq(s, 1, n)
  BY <1>2, <1>4 DEF Open
<1>7. n \in 1..Len(s) /\ (s[Len(s)] = id => n = Len(s))
  <2>1. PICK L : L = Len(s)
    OBVIOUS
  <2>2. L \in Nat /\ n \in 1..L
    BY <1>1, <1>3, <1>5, <2>1
  <2>3. s[L] = id => n >= L
    BY <1>3, <1>5, <2>1
  <2>4. QED
    BY <2>1, <2>2, <2>3
<1>8. QED
  BY <1>6, <1>7

(* What charging the last of the stack to the one below gives.             *)
LEMMA ChargeIs ==
  ASSUME NEW s \in Seq(Int), Len(s) >= 2, NEW x \in Int
  PROVE  /\ Charge(s, x) \in Seq(Int) /\ Len(Charge(s, x)) = Len(s) - 1
         /\ \A k \in 1..(Len(s) - 1) :
              Charge(s, x)[k] = IF k = Len(s) - 1 THEN s[k] + x ELSE s[k]
<1>1. Len(s) \in Nat /\ Len(s) - 1 \in 1..(Len(s) - 1) /\ \A k \in 1..Len(s) : s[k] \in Int
  OBVIOUS
<1>2. PICK f : f = SubSeq(s, 1, Len(s) - 1)
  OBVIOUS
<1>3. f \in Seq(Int) /\ Len(f) = Len(s) - 1 /\ \A k \in 1..(Len(s) - 1) : f[k] = s[k]
  BY <1>1, <1>2
<1>4. Charge(s, x) = [f EXCEPT ![Len(s) - 1] = @ + x]
  BY <1>2 DEF Charge, Front
<1>5. QED
  BY <1>1, <1>3, <1>4

(* All but the last of a sequence.                                         *)
LEMMA FrontIs ==
  ASSUME NEW T, NEW s \in Seq(T), s # <<>>
  PROVE  /\ Front(s) \in Seq(T) /\ Len(Front(s)) = Len(s) - 1 /\ Last(s) = s[Len(s)] /\ Last(s) \in T
         /\ \A k \in 1..(Len(s) - 1) : Front(s)[k] = s[k]
<1>1. Len(s) \in Nat /\ Len(s) >= 1 /\ \A k \in 1..Len(s) : s[k] \in T
  BY EmptySeq
<1>2. PICK f : f = SubSeq(s, 1, Len(s) - 1)
  OBVIOUS
<1>3. f \in Seq(T) /\ Len(f) = Len(s) - 1 /\ \A k \in 1..(Len(s) - 1) : f[k] = s[k]
  <2>1. PICK n : n = Len(s) - 1
    OBVIOUS
  <2>2. n \in Nat /\ Len(s) = n + 1 /\ f = SubSeq(s, 1, n)
    BY <1>1, <1>2, <2>1
  <2>3. f \in Seq(T) /\ Len(f) = n /\ \A k \in 1..n : f[k] = s[k]
    BY <2>2
  <2>4. QED
    BY <2>1, <2>3
<1>4. QED
  BY <1>1, <1>2, <1>3 DEF Front, Last

(* Leaving a scop, when its id is the last on the stack.                   *)
LEMMA RawCloseTyped ==
  ASSUME NEW acc \in RawAcc, acc.ids # <<>>, NEW e \in RawEvent
  PROVE  /\ RawClose(acc, e) \in RawAcc /\ Len(acc.start) >= 1 /\ Len(acc.sub) >= 2
         /\ acc.start[Len(acc.start)] \in Int /\ acc.sub[Len(acc.sub)] \in Int
         /\ RawClose(acc, e).ids = Front(acc.ids) /\ RawClose(acc, e).start = Front(acc.start)
         /\ RawClose(acc, e).sub = Charge(acc.sub, acc.start[Len(acc.start)] + e.at)
         /\ RawClose(acc, e).time = acc.time + acc.start[Len(acc.start)] + e.at - acc.sub[Len(acc.sub)]
<1>1. PICK i, s, u : i = acc.ids /\ s = acc.start /\ u = acc.sub
  OBVIOUS
<1>2. /\ i \in Seq(Int) /\ s \in Seq(Int) /\ u \in Seq(Int) /\ acc.time \in Int /\ e.at \in Int
      /\ Len(u) = Len(s) + 1 /\ Len(i) <= Len(s) /\ i # <<>>
  BY <1>1 DEF RawAcc, RawEvent
<1>3. Len(i) >= 1 /\ Len(i) \in Nat /\ Len(s) \in Nat /\ Len(u) \in Nat
  BY <1>2, EmptySeq
<1>4. s # <<>> /\ u # <<>> /\ Len(s) >= 1 /\ Len(u) >= 2
  BY <1>2, <1>3
<1>5. Front(i) \in Seq(Int) /\ Len(Front(i)) = Len(i) - 1
  BY <1>2, FrontIs
<1>6. Front(s) \in Seq(Int) /\ Len(Front(s)) = Len(s) - 1 /\ Last(s) = s[Len(s)] /\ Last(s) \in Int
  BY <1>2, <1>4, FrontIs
<1>7. Last(u) = u[Len(u)] /\ Last(u) \in Int
  BY <1>2, <1>4, FrontIs
<1>8. PICK full : full = Last(s) + e.at
  OBVIOUS
<1>9. full \in Int
  BY <1>2, <1>6, <1>8
<1>10. Charge(u, full) \in Seq(Int) /\ Len(Charge(u, full)) = Len(u) - 1
  BY <1>2, <1>4, <1>9, ChargeIs
<1>11. PICK fi, fs, cu, t : fi = Front(i) /\ fs = Front(s) /\ cu = Charge(u, full) /\ t = acc.time + full - Last(u)
  OBVIOUS
<1>12. RawClose(acc, e) = [ids |-> fi, start |-> fs, sub |-> cu, time |-> t]
  BY <1>1, <1>8, <1>11 DEF RawClose
<1>13. t \in Int /\ t = acc.time + s[Len(s)] + e.at - u[Len(u)]
  <2>1. PICK x, y, z, w : x = acc.time /\ y = s[Len(s)] /\ z = e.at /\ w = u[Len(u)]
    OBVIOUS
  <2>2. x \in Int /\ y \in Int /\ z \in Int /\ w \in Int
    BY <1>2, <1>6, <1>7, <2>1
  <2>3. t = x + (y + z) - w
    BY <1>6, <1>7, <1>8, <1>11, <2>1
  <2>4. t \in Int /\ t = x + y + z - w
    BY <2>2, <2>3
  <2>5. QED
    BY <2>1, <2>4
<1>14. RawClose(acc, e) \in RawAcc
  <2>1. fi \in Seq(Int) /\ fs \in Seq(Int) /\ cu \in Seq(Int) /\ t \in Int
    BY <1>5, <1>6, <1>10, <1>11, <1>13
  <2>2. Len(cu) = Len(fs) + 1 /\ Len(fi) <= Len(fs)
    BY <1>2, <1>3, <1>5, <1>6, <1>10, <1>11
  <2>3. QED
    BY <1>12, <2>1, <2>2 DEF RawAcc
<1>15. QED
  BY <1>1, <1>4, <1>6, <1>7, <1>8, <1>11, <1>12, <1>13, <1>14

(* A step of the loop keeps its accumulator an accumulator.                *)
LEMMA RawStepTyped ==
  ASSUME NEW acc \in RawAcc, NEW e \in RawEvent
  PROVE  RawStep(acc, e) \in RawAcc
<1>1. PICK i, s, u, t : i = acc.ids /\ s = acc.start /\ u = acc.sub /\ t = acc.time
  OBVIOUS
<1>2. /\ i \in Seq(Int) /\ s \in Seq(Int) /\ u \in Seq(Int) /\ t \in Int /\ e.at \in Int /\ e.id \in Int
      /\ Len(u) = Len(s) + 1 /\ Len(i) <= Len(s)
      /\ acc = [ids |-> i, start |-> s, sub |-> u, time |-> t]
  BY <1>1 DEF RawAcc, RawEvent
<1>3. CASE e.type = "ScopEnter"
  <2>1. PICK i1, s1, u1, a : i1 = Append(i, e.id) /\ a = -e.at /\ s1 = Append(s, a) /\ u1 = Append(u, 0)
    OBVIOUS
  <2>2. a \in Int
    BY <1>2, <2>1
  <2>3. i1 \in Seq(Int) /\ s1 \in Seq(Int) /\ u1 \in Seq(Int)
        /\ Len(i1) = Len(i) + 1 /\ Len(s1) = Len(s) + 1 /\ Len(u1) = Len(u) + 1
    BY <1>2, <2>1, <2>2
  <2>4. RawStep(acc, e) = [ids |-> i1, start |-> s1, sub |-> u1, time |-> t]
    BY <1>2, <1>3, <2>1 DEF RawStep, RawEnter
  <2>5. Len(i) \in Nat /\ Len(s) \in Nat /\ Len(u) \in Nat
    BY <1>2
  <2>6. QED
    BY <1>2, <2>3, <2>4, <2>5 DEF RawAcc
<1>4. CASE e.type = "ScopExit"
  <2>1. PICK j : j = IF i = <<>> THEN i ELSE Open(i, e.id)
    OBVIOUS
  <2>2. j \in Seq(Int) /\ Len(j) <= Len(i)
    <3>1. CASE i = <<>>
      BY <1>2, <2>1, <3>1
    <3>2. CASE i # <<>>
      <4>1. PICK n \in 1..Len(i) : j = SubSeq(i, 1, n)
        BY <1>2, <2>1, <3>2, RawOpenIs
      <4>2. PICK L : L = Len(i)
        OBVIOUS
      <4>3. L \in Nat /\ n \in 1..L
        BY <1>2, <4>1, <4>2
      <4>4. n \in Nat /\ n <= L
        BY <4>3
      <4>5. j = SubSeq(i, 1, n) /\ i \in Seq(Int) /\ n <= Len(i)
        BY <1>2, <4>1, <4>2, <4>4
      <4>6. j \in Seq(Int) /\ Len(j) = n
        BY <4>4, <4>5
      <4>7. QED
        BY <4>2, <4>4, <4>6
    <3>3. QED
      BY <3>1, <3>2
  <2>3. PICK o : o = [ids |-> j, start |-> s, sub |-> u, time |-> t]
    OBVIOUS
  <2>4. o \in RawAcc
    BY <1>2, <2>2, <2>3 DEF RawAcc
  <2>5. RawOpen(acc, e) = o
    <3>1. RawOpen(acc, e) = [acc EXCEPT !.ids = j]
      BY <1>1, <2>1 DEF RawOpen
    <3>2. QED
      BY <1>2, <2>3, <3>1
  <2>6. o.ids # <<>> => RawClose(o, e) \in RawAcc
    BY <2>4, RawCloseTyped
  <2>7. RawStep(acc, e) = IF o.ids # <<>> /\ Last(o.ids) = e.id THEN RawClose(o, e) ELSE o
    BY <1>4, <2>5 DEF RawStep, RawExit
  <2>8. QED
    BY <2>4, <2>6, <2>7
<1>5. CASE e.type \notin {"ScopEnter", "ScopExit"}
  BY <1>5 DEF RawStep
<1>6. QED
  BY <1>3, <1>4, <1>5

(* RawTime is what its loop has added up at the end.                       *)
LEMMA RawTimeSteps ==
  ASSUME NEW s \in Seq(RawEvent)
  PROVE  \E c \in [0..Len(s) -> RawAcc] :
           /\ RawTime(s) = c[Len(s)].time
           /\ c[0] = RawBase
           /\ \A n \in 1..Len(s) : c[n] = RawStep(c[n - 1], s[n])
<1> DEFINE N == Len(s)
           A == RawAcc
           op(a, e) == RawStep(a, e)
           step == [n \in 1..N |-> [h \in A |-> op(h, s[n])]]
           it == CHOOSE it : it = [S \in SUBSET (1..N) |->
                   IF S = {} THEN RawBase ELSE op(it[S \ {Max(S)}], s[Max(S)])]
<1>1. N \in Nat /\ DOMAIN s = 1..N /\ (\A n \in 1..N : s[n] \in RawEvent) /\ RawBase \in A
  <2>1. RawBase \in A
    <3>1. PICK e, z : e = <<>> /\ z = <<0>>
      OBVIOUS
    <3>2. e \in Seq(Int) /\ Len(e) = 0 /\ z \in Seq(Int) /\ Len(z) = 1
      BY <3>1
    <3>3. Len(z) = Len(e) + 1 /\ Len(e) <= Len(e)
      BY <3>2
    <3>4. RawBase = [ids |-> e, start |-> e, sub |-> z, time |-> 0]
      BY <3>1 DEF RawBase
    <3>5. PICK r : r = RawBase
      OBVIOUS
    <3>6. r \in [ids : Seq(Int), start : Seq(Int), sub : Seq(Int), time : Int]
      BY <3>2, <3>4, <3>5
    <3>7. r.ids = e /\ r.start = e /\ r.sub = z
      BY <3>4, <3>5
    <3>8. QED
      BY <3>3, <3>5, <3>6, <3>7 DEF RawAcc
  <2>2. QED
    BY <2>1, RawRun
<1>2. RawTime(s) = it[1..N].time
  BY <1>1 DEF RawTime, FoldLeft, MapThenFoldSet, RawBase, RawStep, RawEnter, RawExit, RawOpen, RawClose
<1>3. step \in [1..N -> [A -> A]]
  <2>1. ASSUME NEW n \in 1..N, NEW h \in A PROVE op(h, s[n]) \in A
    BY <1>1, RawStepTyped
  <2> HIDE DEF op, A, N
  <2>2. QED
    BY <2>1
<1>4. PICK k \in [SUBSET (1..N) -> A] :
        \A S \in SUBSET (1..N) : k[S] = IF S = {} THEN RawBase ELSE step[Max(S)][k[S \ {Max(S)}]]
  <2> HIDE DEF step, A, N
  <2>1. PICK base : base = RawBase
    OBVIOUS
  <2>2. base \in A /\ N \in Nat
    BY <1>1, <2>1
  <2>3. \E k \in [SUBSET (1..N) -> A] : FoldedBy(k, base, N, step)
    BY <1>3, <2>2, FoldExists
  <2>4. QED
    BY <2>1, <2>3 DEF FoldedBy
<1>5. k = [S \in SUBSET (1..N) |-> IF S = {} THEN RawBase ELSE op(k[S \ {Max(S)}], s[Max(S)])]
  <2>1. ASSUME NEW S \in SUBSET (1..N), S # {}
        PROVE  k[S] = op(k[S \ {Max(S)}], s[Max(S)])
    <3>1. PICK m : m = Max(S)
      OBVIOUS
    <3>2. m \in 1..N
      BY <1>1, <2>1, <3>1, MaxOfNats
    <3>3. PICK h : h = k[S \ {m}]
      OBVIOUS
    <3>4. S \ {m} \in SUBSET (1..N)
      OBVIOUS
    <3>5. h \in A
      <4> HIDE DEF A, N
      <4>1. QED
        BY <1>4, <3>3, <3>4
    <3>6. step[m][h] = op(h, s[m])
      <4> HIDE DEF A, N, op
      <4>1. QED
        BY <3>2, <3>5
    <3>7. k[S] = step[m][h]
      <4> HIDE DEF A, N, op, step
      <4>1. QED
        BY <1>4, <2>1, <3>1, <3>3
    <3> HIDE DEF step, op
    <3>8. QED
      BY <3>1, <3>3, <3>6, <3>7
  <2> HIDE DEF op, A, N
  <2>2. QED
    BY <1>4, <2>1
<1>6. it = [S \in SUBSET (1..N) |-> IF S = {} THEN RawBase ELSE op(it[S \ {Max(S)}], s[Max(S)])]
  <2> HIDE DEF op, N
  <2>1. QED
    BY <1>5
<1> HIDE DEF it
<1>7. ASSUME NEW n \in 1..N, it[1..(n - 1)] \in A PROVE it[1..n] = step[n][it[1..(n - 1)]]
  <2>1. n \in Nat \ {0}
    BY <1>1
  <2>2. 1..n \in SUBSET (1..N) /\ 1..n # {} /\ Max(1..n) = n /\ (1..n) \ {n} = 1..(n - 1)
    BY <1>1, <2>1, MaxOfInterval
  <2>3. PICK h : h = it[1..(n - 1)]
    OBVIOUS
  <2>4. it[1..n] = op(h, s[n])
    <3> HIDE DEF op, N
    <3>1. QED
      BY <1>6, <2>2, <2>3
  <2>5. step[n][h] = op(h, s[n])
    <3> HIDE DEF A, N, op
    <3>1. QED
      BY <1>7, <2>3
  <2> HIDE DEF step, op
  <2>6. QED
    BY <2>3, <2>4, <2>5
<1>8. it[{}] = RawBase
  <2> HIDE DEF op, N
  <2>1. {} \in SUBSET (1..N)
    OBVIOUS
  <2>2. QED
    BY <1>6, <2>1
<1>9. PICK f \in [0..N -> A] : DefinedBy(f, RawBase, N, step) /\ f[N] = it[1..N]
  <2> HIDE DEF A, N, step
  <2>1. PICK base : base = RawBase
    OBVIOUS
  <2>2. base \in A /\ N \in Nat /\ StepsIn(it, A, base, N, step)
    BY <1>1, <1>7, <1>8, <2>1 DEF StepsIn
  <2>3. \E f \in [0..N -> A] : Computes(f, base, N, step, it[1..N])
    BY <1>3, <2>2, FoldsTo
  <2>4. QED
    BY <2>1, <2>3 DEF Computes
<1>10. ASSUME NEW n \in 1..N PROVE f[n] = RawStep(f[n - 1], s[n])
  <2>1. n - 1 \in 0..N
    BY <1>1
  <2>2. PICK h : h = f[n - 1]
    OBVIOUS
  <2>3. h \in A
    <3> HIDE DEF A, N
    <3>1. QED
      BY <2>1, <2>2
  <2>4. step[n][h] = op(h, s[n])
    <3> HIDE DEF A, N, op
    <3>1. QED
      BY <2>3
  <2>5. f[n] = step[n][h]
    <3> HIDE DEF A, N, op, step
    <3>1. QED
      BY <1>9, <2>2 DEF DefinedBy
  <2>6. QED
    BY <2>2, <2>4, <2>5
<1>11. f[0] = RawBase
  <2> HIDE DEF A, N, op, step
  <2>1. QED
    BY <1>9 DEF DefinedBy
<1> HIDE DEF op, step
<1>12. QED
  BY <1>2, <1>9, <1>10, <1>11

-----------------------------------------------------------------------------
(* How many scops one event opens.                                         *)
Opens(e) == IF e.type = "ScopEnter" THEN 1 ELSE IF e.type = "ScopExit" THEN -1 ELSE 0

(* One more event among those that satisfy a condition, or not.            *)
LEMMA CountOneMore ==
  ASSUME NEW S, NEW R, NEW n, IsFiniteSet(S), n \notin S, R \subseteq S \cup {n}, S \subseteq R
  PROVE  /\ Cardinality(S) \in Nat /\ IsFiniteSet(R)
         /\ Cardinality(R) = Cardinality(S) + (IF n \in R THEN 1 ELSE 0)
<1>1. Cardinality(S) \in Nat
  BY FS_CardinalityType
<1>2. CASE n \in R
  <2>1. R = S \cup {n}
    BY <1>2
  <2>2. QED
    BY <1>1, <1>2, <2>1, FS_AddElement
<1>3. CASE n \notin R
  <2>1. R = S
    BY <1>3
  <2>2. QED
    BY <1>1, <1>3, <2>1
<1>4. QED
  BY <1>2, <1>3

(* The depth changes with each event by what it opens.                     *)
LEMMA DepthSteps ==
  ASSUME NEW evs \in Seq(RawEvent)
  PROVE  /\ Depth(evs, 0) = 0
         /\ \A n \in 0..Len(evs) : Depth(evs, n) \in Int
         /\ \A n \in 1..Len(evs) : Depth(evs, n) = Depth(evs, n - 1) + Opens(evs[n])
<1> DEFINE E(n) == {i \in 1..n : evs[i].type = "ScopEnter"}
           X(n) == {i \in 1..n : evs[i].type = "ScopExit"}
           P == {n \in Nat : IsFiniteSet(E(n)) /\ IsFiniteSet(X(n))}
<1>1. \A n : Depth(evs, n) = Cardinality(E(n)) - Cardinality(X(n))
  BY DEF Depth
<1>2. ASSUME NEW n \in Nat, IsFiniteSet(E(n)), IsFiniteSet(X(n))
      PROVE  /\ Cardinality(E(n)) \in Nat /\ Cardinality(X(n)) \in Nat
             /\ IsFiniteSet(E(n + 1)) /\ IsFiniteSet(X(n + 1))
             /\ Cardinality(E(n + 1)) = Cardinality(E(n)) + (IF n + 1 \in E(n + 1) THEN 1 ELSE 0)
             /\ Cardinality(X(n + 1)) = Cardinality(X(n)) + (IF n + 1 \in X(n + 1) THEN 1 ELSE 0)
             /\ (n + 1 \in E(n + 1) <=> evs[n + 1].type = "ScopEnter")
             /\ (n + 1 \in X(n + 1) <=> evs[n + 1].type = "ScopExit")
  <2>1. PICK m : m = n + 1
    OBVIOUS
  <2>2. PICK S, R, U, V : S = E(n) /\ R = E(m) /\ U = X(n) /\ V = X(m)
    OBVIOUS
  <2>3. m \notin S /\ R \subseteq S \cup {m} /\ S \subseteq R /\ m \notin U /\ V \subseteq U \cup {m} /\ U \subseteq V
    BY <2>1, <2>2
  <2>4. (m \in R <=> evs[m].type = "ScopEnter") /\ (m \in V <=> evs[m].type = "ScopExit")
    BY <2>1, <2>2
  <2>5. IsFiniteSet(S) /\ IsFiniteSet(U)
    BY <1>2, <2>2
  <2> HIDE DEF E, X
  <2>6. /\ Cardinality(S) \in Nat /\ IsFiniteSet(R)
        /\ Cardinality(R) = Cardinality(S) + (IF m \in R THEN 1 ELSE 0)
    BY <2>3, <2>5, CountOneMore
  <2>7. /\ Cardinality(U) \in Nat /\ IsFiniteSet(V)
        /\ Cardinality(V) = Cardinality(U) + (IF m \in V THEN 1 ELSE 0)
    BY <2>3, <2>5, CountOneMore
  <2>8. QED
    BY <2>1, <2>2, <2>4, <2>6, <2>7
<1>3. E(0) = {} /\ X(0) = {}
  BY 1..0 = {}
<1>4. 0 \in P
  BY <1>3, FS_EmptySet
<1>5. \A n \in Nat : n \in P => n + 1 \in P
  <2> HIDE DEF E, X
  <2>1. QED
    BY <1>2
<1>6. \A n \in Nat : n \in P
  <2> HIDE DEF P
  <2>1. QED
    BY <1>4, <1>5, SetInduction
<1> HIDE DEF E, X
<1>7. Depth(evs, 0) = 0
  <2>1. PICK z : z = Cardinality({})
    OBVIOUS
  <2>2. z = 0
    BY <2>1, FS_EmptySet
  <2>3. Depth(evs, 0) = Cardinality(E(0)) - Cardinality(X(0))
    BY <1>1
  <2>4. Depth(evs, 0) = z - z
    BY <1>3, <2>1, <2>3
  <2>5. QED
    BY <2>2, <2>4
<1>8. \A n \in Nat : Depth(evs, n) \in Int
  <2>1. TAKE n \in Nat
  <2>2. PICK a, b : a = Cardinality(E(n)) /\ b = Cardinality(X(n))
    OBVIOUS
  <2>3. a \in Nat /\ b \in Nat
    BY <1>2, <1>6, <2>2
  <2>4. QED
    BY <1>1, <2>2, <2>3
<1>9. ASSUME NEW n \in Nat PROVE Depth(evs, n + 1) = Depth(evs, n) + Opens(evs[n + 1])
  <2>1. PICK a, b, c, d : a = Cardinality(E(n)) /\ b = Cardinality(X(n))
                          /\ c = Cardinality(E(n + 1)) /\ d = Cardinality(X(n + 1))
    OBVIOUS
  <2>2. /\ a \in Nat /\ b \in Nat
        /\ c = a + (IF evs[n + 1].type = "ScopEnter" THEN 1 ELSE 0)
        /\ d = b + (IF evs[n + 1].type = "ScopExit" THEN 1 ELSE 0)
    BY <1>2, <1>6, <2>1
  <2>3. Depth(evs, n) = a - b /\ Depth(evs, n + 1) = c - d
    BY <1>1, <2>1
  <2>4. QED
    BY <2>2, <2>3 DEF Opens
<1>10. ASSUME NEW n \in 1..Len(evs) PROVE Depth(evs, n) = Depth(evs, n - 1) + Opens(evs[n])
  <2>1. n - 1 \in Nat /\ n = (n - 1) + 1
    BY RawRun
  <2>2. PICK m : m = n - 1
    OBVIOUS
  <2>3. m \in Nat /\ n = m + 1
    BY <2>1, <2>2
  <2>4. Depth(evs, m + 1) = Depth(evs, m) + Opens(evs[m + 1])
    BY <1>9, <2>3
  <2>5. QED
    BY <2>2, <2>3, <2>4
<1>11. \A n \in 0..Len(evs) : Depth(evs, n) \in Int
  BY <1>8, RawRun
<1>12. QED
  BY <1>7, <1>10, <1>11

(* Covered adds up the spans in which a scop is open.                      *)
SpanTo(evs, n) ==
  IF n > 0 /\ Depth(evs, n) > 0 THEN evs[n + 1].at - evs[n].at ELSE 0

(* The time covered up to an event is the sum of such spans before it.     *)
LEMMA CoveredSums ==
  ASSUME NEW evs \in Seq(RawEvent), NEW N \in Nat, 1..(Len(evs) - 1) = 1..N
  PROVE  \E f \in [0..N -> Int] :
           /\ Covered(evs) = f[N] /\ f[0] = 0
           /\ \A n \in 1..N : f[n] = f[n - 1] + SpanTo(evs, n)
<1> DEFINE s == [i \in 1..(Len(evs) - 1) |-> i]
           open == {i \in 1..(Len(evs) - 1) : Depth(evs, i) > 0}
           A == Int
           op(a, i) == a + (IF i \in open THEN evs[i + 1].at - evs[i].at ELSE 0)
           step == [n \in 1..N |-> [h \in A |-> op(h, s[n])]]
           it == CHOOSE it : it = [S \in SUBSET (1..N) |->
                   IF S = {} THEN 0 ELSE op(it[S \ {Max(S)}], s[Max(S)])]
<1>1. N \in Nat /\ DOMAIN s = 1..N /\ (\A n \in 1..N : s[n] = n) /\ 0 \in A
  OBVIOUS
<1>2. Covered(evs) = it[1..N]
  BY <1>1 DEF Covered, FoldLeft, MapThenFoldSet
<1>3. step \in [1..N -> [A -> A]]
  <2>1. ASSUME NEW n \in 1..N, NEW h \in A PROVE op(h, s[n]) \in A
    <3>1. s[n] = n /\ n \in 1..Len(evs) /\ n + 1 \in 1..Len(evs)
      BY <1>1, RawRun
    <3>2. evs[n] \in RawEvent /\ evs[n + 1] \in RawEvent
      BY <3>1, RawRun
    <3>3. evs[n + 1].at \in Int /\ evs[n].at \in Int
      BY <3>2 DEF RawEvent
    <3> HIDE DEF s, open
    <3>4. QED
      BY <3>1, <3>3
  <2> HIDE DEF op, A
  <2>2. QED
    BY <2>1
<1>4. PICK k \in [SUBSET (1..N) -> A] :
        \A S \in SUBSET (1..N) : k[S] = IF S = {} THEN 0 ELSE step[Max(S)][k[S \ {Max(S)}]]
  <2> HIDE DEF step, A
  <2>1. PICK base : base = 0
    OBVIOUS
  <2>2. base \in A /\ N \in Nat
    BY <1>1, <2>1
  <2>3. \E k \in [SUBSET (1..N) -> A] : FoldedBy(k, base, N, step)
    BY <1>3, <2>2, FoldExists
  <2>4. QED
    BY <2>1, <2>3 DEF FoldedBy
<1>5. k = [S \in SUBSET (1..N) |-> IF S = {} THEN 0 ELSE op(k[S \ {Max(S)}], s[Max(S)])]
  <2>1. ASSUME NEW S \in SUBSET (1..N), S # {}
        PROVE  k[S] = op(k[S \ {Max(S)}], s[Max(S)])
    <3>1. PICK m : m = Max(S)
      OBVIOUS
    <3>2. m \in 1..N
      BY <1>1, <2>1, <3>1, MaxOfNats
    <3>3. PICK h : h = k[S \ {m}]
      OBVIOUS
    <3>4. S \ {m} \in SUBSET (1..N)
      OBVIOUS
    <3>5. h \in A
      <4> HIDE DEF A
      <4>1. QED
        BY <1>4, <3>3, <3>4
    <3>6. step[m][h] = op(h, s[m])
      <4> HIDE DEF A, op
      <4>1. QED
        BY <3>2, <3>5
    <3>7. k[S] = step[m][h]
      <4> HIDE DEF A, op, step
      <4>1. QED
        BY <1>4, <2>1, <3>1, <3>3
    <3> HIDE DEF step, op
    <3>8. QED
      BY <3>1, <3>3, <3>6, <3>7
  <2> HIDE DEF op, A
  <2>2. QED
    BY <1>4, <2>1
<1>6. it = [S \in SUBSET (1..N) |-> IF S = {} THEN 0 ELSE op(it[S \ {Max(S)}], s[Max(S)])]
  <2> HIDE DEF op
  <2>1. QED
    BY <1>5
<1> HIDE DEF it
<1>7. ASSUME NEW n \in 1..N, it[1..(n - 1)] \in A PROVE it[1..n] = step[n][it[1..(n - 1)]]
  <2>1. n \in Nat \ {0}
    BY <1>1
  <2>2. 1..n \in SUBSET (1..N) /\ 1..n # {} /\ Max(1..n) = n /\ (1..n) \ {n} = 1..(n - 1)
    <3>1. Max(1..n) = n /\ (1..n) \ {n} = 1..(n - 1) /\ 1..n # {}
      BY <2>1, MaxOfInterval
    <3>2. 1..n \in SUBSET (1..N)
      <4> HIDE DEF s, open, A, op, step
      <4>1. QED
        BY <2>1
    <3>3. QED
      BY <3>1, <3>2
  <2>3. PICK h : h = it[1..(n - 1)]
    OBVIOUS
  <2>4. it[1..n] = op(h, s[n])
    <3> HIDE DEF op
    <3>1. QED
      BY <1>6, <2>2, <2>3
  <2>5. step[n][h] = op(h, s[n])
    <3> HIDE DEF A, op
    <3>1. QED
      BY <1>7, <2>3
  <2> HIDE DEF step, op
  <2>6. QED
    BY <2>3, <2>4, <2>5
<1>8. it[{}] = 0
  <2> HIDE DEF op
  <2>1. {} \in SUBSET (1..N)
    OBVIOUS
  <2>2. QED
    BY <1>6, <2>1
<1>9. PICK f \in [0..N -> A] : DefinedBy(f, 0, N, step) /\ f[N] = it[1..N]
  <2> HIDE DEF A, step
  <2>1. PICK base : base = 0
    OBVIOUS
  <2>2. base \in A /\ N \in Nat /\ StepsIn(it, A, base, N, step)
    BY <1>1, <1>7, <1>8, <2>1 DEF StepsIn
  <2>3. \E f \in [0..N -> A] : Computes(f, base, N, step, it[1..N])
    BY <1>3, <2>2, FoldsTo
  <2>4. QED
    BY <2>1, <2>3 DEF Computes
<1>10. ASSUME NEW n \in 1..N PROVE f[n] = f[n - 1] + SpanTo(evs, n)
  <2>1. n - 1 \in 0..N
    BY <1>1
  <2>2. PICK h : h = f[n - 1]
    OBVIOUS
  <2>3. h \in A
    <3> HIDE DEF A
    <3>1. QED
      BY <2>1, <2>2
  <2>4. step[n][h] = op(h, s[n])
    <3> HIDE DEF A, op
    <3>1. QED
      BY <2>3
  <2>5. f[n] = step[n][h]
    <3> HIDE DEF A, op, step
    <3>1. QED
      BY <1>9, <2>2 DEF DefinedBy
  <2>6. op(h, s[n]) = h + SpanTo(evs, n)
    <3>1. s[n] = n /\ n > 0 /\ (n \in open <=> Depth(evs, n) > 0)
      BY <1>1
    <3> HIDE DEF s, open
    <3>2. QED
      BY <3>1 DEF SpanTo
  <2> HIDE DEF step, op
  <2>7. QED
    BY <2>2, <2>4, <2>5, <2>6
<1>11. f[0] = 0
  <2> HIDE DEF A, op, step
  <2>1. QED
    BY <1>9 DEF DefinedBy
<1> HIDE DEF op, step
<1>12. QED
  BY <1>2, <1>9, <1>10, <1>11

(* The same, from one event to the next.                                   *)
LEMMA CoveredSteps ==
  ASSUME NEW evs \in Seq(RawEvent)
  PROVE  \E g \in [0..Len(evs) -> Int] :
           /\ Covered(evs) = g[Len(evs)] /\ g[0] = 0
           /\ \A n \in 0..(Len(evs) - 1) : g[n + 1] = g[n] + SpanTo(evs, n)
<1>1. PICK L : L = Len(evs)
  OBVIOUS
<1>2. L \in Nat
  BY <1>1, RawRun
<1>3. PICK N : N = IF L = 0 THEN 0 ELSE L - 1
  OBVIOUS
<1>4. N \in Nat /\ 1..(L - 1) = 1..N
  BY <1>2, <1>3
<1>5. N \in Nat /\ 1..(Len(evs) - 1) = 1..N
  BY <1>1, <1>4
<1>6. PICK f \in [0..N -> Int] :
           /\ Covered(evs) = f[N] /\ f[0] = 0
           /\ \A n \in 1..N : f[n] = f[n - 1] + SpanTo(evs, n)
  BY <1>5, CoveredSums
<1> DEFINE g == [n \in 0..L |-> IF n = 0 THEN 0 ELSE f[n - 1]]
<1>7. \A n \in 0..L : n # 0 => n - 1 \in 0..N
  BY <1>2, <1>3
<1>8. g \in [0..L -> Int]
  BY <1>6, <1>7
<1>9. g[L] = f[N] /\ g[0] = 0
  BY <1>2, <1>3, <1>6
<1>10. ASSUME NEW n \in 0..(L - 1) PROVE g[n + 1] = g[n] + SpanTo(evs, n)
  <2>1. n + 1 \in 0..L /\ n \in 0..L /\ n + 1 # 0 /\ (n + 1) - 1 = n /\ n \in 0..N
    BY <1>2, <1>3
  <2>2. g[n + 1] = f[n]
    BY <2>1
  <2>3. CASE n = 0
    <3>1. g[n] = 0 /\ SpanTo(evs, n) = 0
      BY <2>1, <2>3 DEF SpanTo
    <3>2. f[n] = 0
      BY <1>6, <2>3
    <3>3. QED
      BY <2>2, <3>1, <3>2
  <2>4. CASE n # 0
    <3>1. g[n] = f[n - 1] /\ n \in 1..N
      BY <2>1, <2>4
    <3>2. QED
      BY <1>6, <2>2, <3>1
  <2>5. QED
    BY <2>3, <2>4
<1> HIDE DEF g
<1>11. QED
  BY <1>1, <1>6, <1>8, <1>9, <1>10

-----------------------------------------------------------------------------
(* o has the events that entered the scops open after the first n.         *)
OpenScops(evs, n, o) ==
  /\ o \in [1..Depth(evs, n) -> 1..n]
  /\ \A k \in 1..Depth(evs, n) :
       /\ evs[o[k]].type = "ScopEnter" /\ Depth(evs, o[k]) = k
       /\ \A m \in o[k]..n : Depth(evs, m) >= k

(* An exit is the end of the scop entered last.                            *)
LEMMA LastIsLeft ==
  ASSUME NEW evs \in Seq(RawEvent), WellNested(evs), NEW n \in 1..Len(evs),
         evs[n].type = "ScopExit", NEW o, OpenScops(evs, n - 1, o)
  PROVE  LET d == Depth(evs, n - 1)
         IN  /\ d \in Nat /\ d >= 1 /\ Depth(evs, n) = d - 1 /\ o[d] \in 1..(n - 1)
             /\ Pairs(evs, o[d], n) /\ evs[o[d]].id = evs[n].id
<1>1. PICK d, m : d = Depth(evs, n - 1) /\ m = n - 1
  OBVIOUS
<1>2. Len(evs) \in Nat /\ n \in Nat /\ m \in 0..Len(evs) /\ m \in Nat /\ n = m + 1 /\ n \in 0..Len(evs)
  BY <1>1, RawRun
<1>3. d \in Int /\ Depth(evs, n) = d - 1
  <2>1. Depth(evs, m) \in Int /\ Depth(evs, n) = Depth(evs, n - 1) + Opens(evs[n])
    BY <1>2, DepthSteps
  <2>2. Opens(evs[n]) = -1
    BY DEF Opens
  <2>3. QED
    BY <1>1, <2>1, <2>2
<1>4. d >= 1 /\ d \in Nat /\ d \in 1..d
  <2>1. Depth(evs, n) >= 0
    BY DEF WellNested
  <2>2. QED
    BY <1>3, <2>1
<1>5. PICK i : i = o[d]
  OBVIOUS
<1>6. i \in 1..m /\ evs[i].type = "ScopEnter" /\ Depth(evs, i) = d /\ \A k \in i..m : Depth(evs, k) >= d
  BY <1>1, <1>4, <1>5 DEF OpenScops
<1>7. i \in 1..Len(evs) /\ i < n /\ i..(n - 1) = i..m
  BY <1>2, <1>6
<1>8. Depth(evs, i - 1) = d - 1
  <2>1. Depth(evs, i) = Depth(evs, i - 1) + Opens(evs[i]) /\ i - 1 \in 0..Len(evs)
    BY <1>2, <1>7, DepthSteps
  <2>2. Depth(evs, i - 1) \in Int
    BY <2>1, DepthSteps
  <2>3. Opens(evs[i]) = 1
    BY <1>6 DEF Opens
  <2>4. QED
    BY <1>3, <1>6, <2>1, <2>2, <2>3
<1>9. \A k \in i..(n - 1) : Depth(evs, k) > Depth(evs, i - 1)
  <2>1. TAKE k \in i..(n - 1)
  <2>2. Depth(evs, k) >= d /\ k \in 0..Len(evs)
    BY <1>2, <1>6, <1>7
  <2>3. Depth(evs, k) \in Int
    BY <2>2, DepthSteps
  <2>4. QED
    BY <1>3, <1>8, <2>2, <2>3
<1>10. Pairs(evs, i, n)
  BY <1>3, <1>6, <1>7, <1>8, <1>9 DEF Pairs
<1>11. evs[i].id = evs[n].id
  BY <1>7, <1>10 DEF WellNested
<1>12. QED
  BY <1>1, <1>2, <1>3, <1>4, <1>5, <1>6, <1>10, <1>11

(* The open scops after one more event.                                    *)
OpenedBy(evs, n, o) ==
  CASE evs[n].type = "ScopEnter" ->
         [k \in 1..(Depth(evs, n - 1) + 1) |-> IF k = Depth(evs, n - 1) + 1 THEN n ELSE o[k]]
    [] evs[n].type = "ScopExit" -> [k \in 1..(Depth(evs, n - 1) - 1) |-> o[k]]
    [] OTHER -> o

(* One more event changes the open scops in just that way.                 *)
LEMMA OpenScopsStep ==
  ASSUME NEW evs \in Seq(RawEvent), NEW n \in 1..Len(evs), Depth(evs, n - 1) >= 0,
         NEW o, OpenScops(evs, n - 1, o)
  PROVE  OpenScops(evs, n, OpenedBy(evs, n, o))
<1>1. PICK d, e, m, q : d = Depth(evs, n - 1) /\ e = Depth(evs, n) /\ m = n - 1 /\ q = OpenedBy(evs, n, o)
  OBVIOUS
<1>2. Len(evs) \in Nat /\ n \in Nat /\ m \in 0..Len(evs) /\ m \in Nat /\ n = m + 1 /\ n \in 0..Len(evs)
  BY <1>1, RawRun
<1>3. d \in Int /\ d \in Nat /\ e = d + Opens(evs[n]) /\ e \in Int
  <2>1. Depth(evs, m) \in Int /\ Depth(evs, n) \in Int /\ Depth(evs, n) = Depth(evs, n - 1) + Opens(evs[n])
    BY <1>2, DepthSteps
  <2>2. QED
    BY <1>1, <2>1
<1>4. /\ o \in [1..d -> 1..m]
      /\ \A k \in 1..d : /\ evs[o[k]].type = "ScopEnter" /\ Depth(evs, o[k]) = k
                         /\ \A j \in o[k]..m : Depth(evs, j) >= k
  BY <1>1 DEF OpenScops
<1>5. \A k \in 1..d : o[k] \in 1..m /\ o[k] \in 1..n /\ k \in Int
                     /\ \A j \in o[k]..n : j \in o[k]..m \/ j = n
  BY <1>2, <1>4
<1>6. CASE evs[n].type = "ScopEnter"
  <2>1. e = d + 1
    BY <1>3, <1>6 DEF Opens
  <2>2. q = [k \in 1..(d + 1) |-> IF k = d + 1 THEN n ELSE o[k]]
    BY <1>1, <1>6 DEF OpenedBy
  <2>3. ASSUME NEW k \in 1..(d + 1)
        PROVE  /\ q[k] \in 1..n /\ evs[q[k]].type = "ScopEnter" /\ Depth(evs, q[k]) = k
               /\ \A j \in q[k]..n : Depth(evs, j) >= k
    <3>1. CASE k = d + 1
      <4>1. q[k] = n
        BY <2>2, <3>1
      <4>2. \A j \in n..n : j = n
        BY <1>2
      <4>3. n \in 1..n /\ k \in Int
        BY <1>2, <1>3
      <4>4. QED
        <5>1. Depth(evs, n) = k /\ k >= k
          BY <1>1, <2>1, <3>1, <4>3
        <5>2. \A j \in q[k]..n : Depth(evs, j) >= k
          BY <4>1, <4>2, <5>1
        <5>3. QED
          BY <1>6, <4>1, <4>3, <5>1, <5>2
    <3>2. CASE k # d + 1
      <4>1. k \in 1..d /\ q[k] = o[k] /\ e >= k
        BY <1>3, <2>1, <2>2, <3>2
      <4>2. QED
        BY <1>1, <1>4, <1>5, <4>1
    <3>3. QED
      BY <3>1, <3>2
  <2>4. q \in [1..(d + 1) -> 1..n]
    BY <2>2, <2>3
  <2>5. QED
    BY <1>1, <2>1, <2>3, <2>4 DEF OpenScops
<1>7. CASE evs[n].type = "ScopExit"
  <2>1. e = d - 1
    BY <1>3, <1>7 DEF Opens
  <2>2. q = [k \in 1..(d - 1) |-> o[k]]
    BY <1>1, <1>7 DEF OpenedBy
  <2>3. ASSUME NEW k \in 1..(d - 1)
        PROVE  /\ q[k] \in 1..n /\ evs[q[k]].type = "ScopEnter" /\ Depth(evs, q[k]) = k
               /\ \A j \in q[k]..n : Depth(evs, j) >= k
    <3>1. k \in 1..d /\ q[k] = o[k] /\ e >= k
      BY <1>3, <2>1, <2>2
    <3>2. QED
      BY <1>1, <1>4, <1>5, <3>1
  <2>4. q \in [1..(d - 1) -> 1..n]
    BY <2>2, <2>3
  <2>5. QED
    BY <1>1, <2>1, <2>3, <2>4 DEF OpenScops
<1>8. CASE evs[n].type \notin {"ScopEnter", "ScopExit"}
  <2>1. e = d
    BY <1>3, <1>8 DEF Opens
  <2>2. q = o
    BY <1>1, <1>8 DEF OpenedBy
  <2>3. ASSUME NEW k \in 1..d
        PROVE  /\ q[k] \in 1..n /\ evs[q[k]].type = "ScopEnter" /\ Depth(evs, q[k]) = k
               /\ \A j \in q[k]..n : Depth(evs, j) >= k
    <3>1. e >= k
      BY <1>3, <2>1
    <3>2. QED
      BY <1>1, <1>4, <1>5, <2>2, <3>1
  <2>4. q \in [1..d -> 1..n]
    BY <1>4, <2>2, <2>3
  <2>5. QED
    BY <1>1, <2>1, <2>3, <2>4 DEF OpenScops
<1>9. QED
  BY <1>6, <1>7, <1>8

-----------------------------------------------------------------------------
(* p adds up the times on the stack of subregions.                         *)
SumsTo(p, s, t) ==
  /\ p \in [0..Len(s) -> Int] /\ p[0] = 0 /\ p[Len(s)] = t
  /\ \A k \in 1..Len(s) : p[k] = p[k - 1] + s[k]

(* What RawTime has after n events of a well-nested run: the ids and the   *)
(* starts of the scops that are open; the time counted is all on the stack *)
(* of subregions, at whose bottom is what the outermost scops took, up to  *)
(* the one that is open.                                                   *)
RawFits(evs, n, acc, o, g) ==
  /\ Len(acc.ids) = Depth(evs, n) /\ Len(acc.start) = Depth(evs, n)
  /\ \A k \in 1..Depth(evs, n) : acc.ids[k] = evs[o[k]].id /\ acc.start[k] = -evs[o[k]].at
  /\ g[n] = acc.sub[1] + (IF Depth(evs, n) > 0 THEN evs[n].at - evs[o[1]].at ELSE 0)
  /\ \E p : SumsTo(p, acc.sub, acc.time)

(* A scop is entered.                                                      *)
LEMMA SumsEnter ==
  ASSUME NEW s \in Seq(Int), NEW t, NEW p, SumsTo(p, s, t)
  PROVE  \E q : SumsTo(q, Append(s, 0), t)
<1>1. PICK L, u : L = Len(s) /\ u = Append(s, 0)
  OBVIOUS
<1>2. L \in Nat /\ u \in Seq(Int) /\ Len(u) = L + 1 /\ u[L + 1] = 0 /\ \A k \in 1..L : u[k] = s[k] /\ s[k] \in Int
  BY <1>1
<1>3. p \in [0..L -> Int] /\ p[0] = 0 /\ p[L] = t /\ \A k \in 1..L : p[k] = p[k - 1] + s[k]
  BY <1>1 DEF SumsTo
<1> DEFINE q == [k \in 0..(L + 1) |-> IF k = L + 1 THEN t ELSE p[k]]
<1>4. t \in Int /\ q \in [0..(L + 1) -> Int] /\ q[0] = 0 /\ q[L + 1] = t
  BY <1>2, <1>3
<1>5. ASSUME NEW k \in 1..(L + 1) PROVE q[k] = q[k - 1] + u[k]
  <2>1. CASE k = L + 1
    <3>1. q[k] = t /\ q[k - 1] = p[L] /\ u[k] = 0
      BY <1>2, <2>1
    <3>2. QED
      BY <1>3, <1>4, <3>1
  <2>2. CASE k # L + 1
    <3>1. k \in 1..L /\ q[k] = p[k] /\ q[k - 1] = p[k - 1]
      BY <1>2, <2>2
    <3>2. QED
      BY <1>2, <1>3, <3>1
  <2>3. QED
    BY <2>1, <2>2
<1> HIDE DEF q
<1>6. SumsTo(q, u, t)
  BY <1>2, <1>4, <1>5 DEF SumsTo
<1>7. QED
  BY <1>1, <1>6

(* A scop is left.                                                         *)
LEMMA SumsClose ==
  ASSUME NEW s \in Seq(Int), Len(s) >= 2, NEW t, NEW x \in Int, NEW p, SumsTo(p, s, t)
  PROVE  \E q : SumsTo(q, Charge(s, x), t + x - s[Len(s)])
<1>1. PICK L, u, m, v : L = Len(s) /\ u = Charge(s, x) /\ m = L - 1 /\ v = t + x - s[L]
  OBVIOUS
<1>2. L \in Nat /\ m \in Nat /\ m >= 1 /\ L = m + 1 /\ \A k \in 1..L : s[k] \in Int
  BY <1>1
<1>3. u \in Seq(Int) /\ Len(u) = m /\ \A k \in 1..m : u[k] = IF k = m THEN s[k] + x ELSE s[k]
  BY <1>1, ChargeIs
<1>4. p \in [0..L -> Int] /\ p[0] = 0 /\ p[L] = t /\ \A k \in 1..L : p[k] = p[k - 1] + s[k]
  BY <1>1 DEF SumsTo
<1>5. t \in Int /\ v \in Int /\ s[L] \in Int /\ s[m] \in Int /\ p[m] \in Int /\ p[m - 1] \in Int
      /\ t = p[m] + s[L] /\ p[m] = p[m - 1] + s[m]
  <2>1. L \in 1..L /\ m \in 1..L /\ L \in 0..L /\ m \in 0..L /\ m - 1 \in 0..L /\ L - 1 = m
    BY <1>2
  <2>2. t \in Int /\ s[L] \in Int /\ s[m] \in Int /\ p[m] \in Int /\ p[m - 1] \in Int
    BY <1>2, <1>4, <2>1
  <2>3. p[L] = p[L - 1] + s[L] /\ p[m] = p[m - 1] + s[m]
    BY <1>4, <2>1
  <2>4. QED
    BY <1>1, <1>4, <2>1, <2>2, <2>3
<1> DEFINE q == [k \in 0..m |-> IF k = m THEN v ELSE p[k]]
<1>6. q \in [0..m -> Int] /\ q[0] = 0 /\ q[m] = v
  BY <1>2, <1>4, <1>5
<1>7. ASSUME NEW k \in 1..m PROVE q[k] = q[k - 1] + u[k]
  <2>1. CASE k = m
    <3>1. q[k] = v /\ q[k - 1] = p[m - 1] /\ u[k] = s[m] + x
      BY <1>2, <1>3, <2>1
    <3>2. v = p[m - 1] + (s[m] + x)
      <4>1. PICK a, b, c : a = p[m - 1] /\ b = s[m] /\ c = s[L]
        OBVIOUS
      <4>2. a \in Int /\ b \in Int /\ c \in Int /\ t = (a + b) + c
        BY <1>5, <4>1
      <4>3. v = t + x - c
        BY <1>1, <4>1
      <4>4. v = a + (b + x)
        BY <4>2, <4>3
      <4>5. QED
        BY <4>1, <4>4
    <3>3. QED
      BY <3>1, <3>2
  <2>2. CASE k # m
    <3>1. k \in 1..L /\ q[k] = p[k] /\ q[k - 1] = p[k - 1] /\ u[k] = s[k]
      BY <1>2, <1>3, <2>2
    <3>2. QED
      BY <1>4, <3>1
  <2>3. QED
    BY <2>1, <2>2
<1> HIDE DEF q
<1>8. SumsTo(q, u, v)
  BY <1>3, <1>6, <1>7 DEF SumsTo
<1>9. QED
  BY <1>1, <1>8

(* One event of a well-nested run.                                         *)
LEMMA RawFitsStep ==
  ASSUME NEW evs \in Seq(RawEvent), WellNested(evs), NEW n \in 1..Len(evs),
         NEW acc \in RawAcc, NEW o, OpenScops(evs, n - 1, o),
         NEW g, g \in [0..Len(evs) -> Int], g[n] = g[n - 1] + SpanTo(evs, n - 1),
         RawFits(evs, n - 1, acc, o, g)
  PROVE  RawFits(evs, n, RawStep(acc, evs[n]), OpenedBy(evs, n, o), g)
<1>1. PICK d, e, m, q, i, s, u, t, x :
        /\ d = Depth(evs, n - 1) /\ e = Depth(evs, n) /\ m = n - 1 /\ q = OpenedBy(evs, n, o)
        /\ i = acc.ids /\ s = acc.start /\ u = acc.sub /\ t = acc.time /\ x = evs[n]
  OBVIOUS
<1>2. Len(evs) \in Nat /\ n \in Nat /\ m \in 0..Len(evs) /\ m \in Nat /\ n = m + 1 /\ n \in 0..Len(evs) /\ m + 1 = n
  BY <1>1, RawRun
<1>3. d \in Nat /\ e = d + Opens(x) /\ e \in Int
  <2>1. Depth(evs, m) \in Int /\ Depth(evs, n) \in Int /\ Depth(evs, n) = Depth(evs, n - 1) + Opens(evs[n])
        /\ Depth(evs, 0) = 0
    BY <1>2, DepthSteps
  <2>2. m = 0 \/ m \in 1..Len(evs)
    BY <1>2
  <2>3. Depth(evs, m) >= 0
    BY <2>1, <2>2 DEF WellNested
  <2>4. QED
    BY <1>1, <2>1, <2>3
<1>4. x \in RawEvent /\ x.at \in Int /\ x.id \in Int /\ \A k \in 1..Len(evs) : evs[k].at \in Int
  BY <1>1, RawRun DEF RawEvent
<1>5. /\ i \in Seq(Int) /\ s \in Seq(Int) /\ u \in Seq(Int) /\ t \in Int
      /\ Len(i) = d /\ Len(s) = d /\ Len(u) = d + 1
      /\ acc = [ids |-> i, start |-> s, sub |-> u, time |-> t]
  BY <1>1 DEF RawAcc, RawFits
<1>6. /\ \A k \in 1..d : i[k] = evs[o[k]].id /\ s[k] = -evs[o[k]].at
      /\ g[m] = u[1] + (IF d > 0 THEN evs[m].at - evs[o[1]].at ELSE 0)
  BY <1>1 DEF RawFits
<1>7. PICK p : SumsTo(p, u, t)
  BY <1>1 DEF RawFits
<1>8. o \in [1..d -> 1..m]
  BY <1>1 DEF OpenScops
<1>9. g[m] \in Int /\ g[n] \in Int
      /\ g[n] = g[m] + (IF d > 0 THEN x.at - evs[m].at ELSE 0) /\ (d > 0 => m > 0)
  <2>1. d > 0 => m > 0
    BY <1>2, <1>3, <1>8
  <2>2. SpanTo(evs, m) = IF d > 0 THEN x.at - evs[m].at ELSE 0
    BY <1>1, <1>2, <2>1 DEF SpanTo
  <2>3. QED
    BY <1>1, <1>2, <2>1, <2>2
<1>10. d > 0 => o[1] \in 1..Len(evs) /\ evs[o[1]].at \in Int /\ evs[m].at \in Int
  BY <1>2, <1>3, <1>4, <1>8, <1>9
<1>11. u[1] \in Int
  BY <1>3, <1>5
(* So much have the outermost scops taken.                                 *)
<1>12. g[n] = u[1] + (IF d > 0 THEN x.at - evs[o[1]].at ELSE 0)
  <2>1. CASE d > 0
    <3>1. PICK a, b, c : a = x.at /\ b = evs[m].at /\ c = evs[o[1]].at
      OBVIOUS
    <3>2. a \in Int /\ b \in Int /\ c \in Int
      BY <1>4, <1>10, <2>1, <3>1
    <3>3. g[n] = g[m] + (a - b) /\ g[m] = u[1] + (b - c)
      BY <1>6, <1>9, <2>1, <3>1
    <3>4. g[n] = u[1] + (a - c)
      BY <1>11, <3>2, <3>3
    <3>5. QED
      BY <2>1, <3>1, <3>4
  <2>2. CASE ~ d > 0
    BY <1>6, <1>9, <1>11, <2>2
  <2>3. QED
    BY <2>1, <2>2
<1>13. CASE x.type = "ScopEnter"
  <2>1. e = d + 1
    BY <1>3, <1>13 DEF Opens
  <2>2. q = [k \in 1..(d + 1) |-> IF k = d + 1 THEN n ELSE o[k]]
    BY <1>1, <1>13 DEF OpenedBy
  <2>3. PICK j, r, v, a : j = Append(i, x.id) /\ a = -x.at /\ r = Append(s, a) /\ v = Append(u, 0)
    OBVIOUS
  <2>4. a \in Int
    BY <1>4, <2>3
  <2>5. /\ Len(j) = d + 1 /\ Len(r) = d + 1
        /\ j[d + 1] = x.id /\ r[d + 1] = a
        /\ \A k \in 1..d : j[k] = i[k] /\ r[k] = s[k]
        /\ v[1] = u[1]
    <3>1. x.id \in Int /\ d \in Nat /\ i \in Seq(Int) /\ s \in Seq(Int) /\ u \in Seq(Int)
          /\ Len(i) = d /\ Len(s) = d /\ Len(u) = d + 1 /\ 1 \in 1..Len(u)
      BY <1>3, <1>4, <1>5
    <3>2. Len(j) = d + 1 /\ j[d + 1] = x.id /\ \A k \in 1..d : j[k] = i[k]
      BY <2>3, <3>1
    <3>3. Len(r) = d + 1 /\ r[d + 1] = a /\ \A k \in 1..d : r[k] = s[k]
      BY <2>3, <2>4, <3>1
    <3>4. v[1] = u[1]
      BY <2>3, <3>1
    <3>5. QED
      BY <3>2, <3>3, <3>4
  <2>6. RawStep(acc, x) = [ids |-> j, start |-> r, sub |-> v, time |-> t]
    BY <1>5, <1>13, <2>3 DEF RawStep, RawEnter
  <2>7. ASSUME NEW k \in 1..e PROVE j[k] = evs[q[k]].id /\ r[k] = -evs[q[k]].at
    <3>1. CASE k = d + 1
      <4>1. q[k] = n
        BY <2>2, <3>1
      <4>2. QED
        BY <1>1, <2>3, <2>5, <3>1, <4>1
    <3>2. CASE k # d + 1
      <4>1. k \in 1..d /\ q[k] = o[k]
        BY <1>3, <2>1, <2>2, <3>2
      <4>2. QED
        BY <1>6, <2>5, <4>1
    <3>3. QED
      BY <3>1, <3>2
  <2>8. g[n] = v[1] + (IF e > 0 THEN x.at - evs[q[1]].at ELSE 0)
    <3>1. CASE d = 0
      <4>1. q[1] = n /\ e > 0
        BY <1>3, <2>1, <2>2, <3>1
      <4>2. evs[q[1]].at = x.at /\ x.at - x.at = 0
        BY <1>1, <1>4, <4>1
      <4>3. QED
        BY <1>12, <2>5, <3>1, <4>1, <4>2
    <3>2. CASE d > 0
      <4>1. q[1] = o[1] /\ e > 0
        BY <1>3, <2>1, <2>2, <3>2
      <4>2. QED
        BY <1>12, <2>5, <3>2, <4>1
    <3>3. QED
      BY <1>3, <3>1, <3>2
  <2>9. \E p1 : SumsTo(p1, v, t)
    BY <1>5, <1>7, <2>3, SumsEnter
  <2>10. QED
    BY <1>1, <2>1, <2>5, <2>6, <2>7, <2>8, <2>9 DEF RawFits
<1>14. CASE x.type = "ScopExit"
  <2>1. e = d - 1 /\ d >= 1 /\ evs[o[d]].id = x.id
    <3>1. evs[n].type = "ScopExit" /\ WellNested(evs) /\ OpenScops(evs, n - 1, o)
      BY <1>1, <1>14
    <3>2. QED
      BY <1>1, <3>1, LastIsLeft
  <2>2. q = [k \in 1..(d - 1) |-> o[k]]
    BY <1>1, <1>14 DEF OpenedBy
  <2>3. d \in 1..d /\ d \in 1..Len(i) /\ i[d] = x.id /\ s[d] = -evs[o[d]].at /\ i # <<>>
    <3>1. d \in 1..d /\ d \in 1..Len(i)
      BY <1>3, <1>5, <2>1
    <3>2. i # <<>>
      BY <3>1
    <3>3. QED
      BY <1>6, <2>1, <3>1, <3>2
  <2>4. Open(i, x.id) = i
    <3>1. PICK k \in 1..Len(i) : Open(i, x.id) = SubSeq(i, 1, k) /\ (i[Len(i)] = x.id => k = Len(i))
      BY <1>5, <2>3, RawOpenIs
    <3>2. k = Len(i)
      BY <1>5, <2>3, <3>1
    <3>3. SubSeq(i, 1, Len(i)) = i
      BY <1>5
    <3>4. QED
      BY <3>1, <3>2, <3>3
  <2>5. RawStep(acc, x) = RawClose(acc, x)
    <3>1. RawOpen(acc, x) = acc
      BY <1>1, <1>5, <2>3, <2>4 DEF RawOpen
    <3>2. Last(i) = x.id
      BY <1>5, <2>3 DEF Last
    <3>3. QED
      BY <1>1, <1>14, <2>3, <3>1, <3>2 DEF RawStep, RawExit
  <2>6. PICK full, w, j, r, v, t1 : /\ full = s[d] + x.at /\ w = u[d + 1] /\ j = Front(i) /\ r = Front(s)
                                    /\ v = Charge(u, full) /\ t1 = t + full - w
    OBVIOUS
  <2>7. full \in Int /\ w \in Int /\ s[d] \in Int
    <3>1. d + 1 \in 1..Len(u) /\ d \in 1..Len(s)
      BY <1>3, <1>5, <2>3
    <3>2. u[d + 1] \in Int /\ s[d] \in Int
      BY <1>5, <3>1
    <3>3. QED
      BY <1>4, <2>6, <3>2
  <2>8. PICK z : z = RawClose(acc, x)
    OBVIOUS
  <2>9. z.ids = j /\ z.start = r /\ z.sub = v /\ z.time = t1
    <3>1. /\ z.ids = Front(i) /\ z.start = Front(s)
          /\ z.sub = Charge(u, s[Len(s)] + x.at)
          /\ z.time = t + s[Len(s)] + x.at - u[Len(u)]
      BY <1>1, <1>4, <2>3, <2>8, RawCloseTyped
    <3>2. t + s[d] + x.at - w = t + full - w
      <4>1. PICK b, a : b = s[d] /\ a = x.at
        OBVIOUS
      <4>2. b \in Int /\ a \in Int /\ t \in Int /\ w \in Int /\ full = b + a
        BY <1>4, <1>5, <2>6, <2>7, <4>1
      <4>3. t + b + a - w = t + full - w
        BY <4>2
      <4>4. QED
        BY <4>1, <4>3
    <3>3. QED
      BY <1>5, <2>6, <3>1, <3>2
  <2>10. Len(j) = d - 1 /\ Len(r) = d - 1 /\ \A k \in 1..(d - 1) : j[k] = i[k] /\ r[k] = s[k]
    <3>1. s # <<>>
      BY <1>5, <2>1
    <3>2. QED
      BY <1>5, <2>3, <2>6, <3>1, FrontIs
  <2>11. ASSUME NEW k \in 1..e PROVE j[k] = evs[q[k]].id /\ r[k] = -evs[q[k]].at
    <3>1. k \in 1..(d - 1) /\ k \in 1..d
      BY <1>3, <2>1
    <3>2. q[k] = o[k]
      BY <2>2, <3>1
    <3>3. QED
      BY <1>6, <2>10, <3>1, <3>2
  <2>12. Len(u) >= 2 /\ 1 \in 1..(Len(u) - 1) /\ Len(u) - 1 = d
    BY <1>3, <1>5, <2>1
  <2>13. v[1] = IF d = 1 THEN u[1] + full ELSE u[1]
    <3>1. v[1] = IF 1 = Len(u) - 1 THEN u[1] + full ELSE u[1]
      BY <1>5, <2>6, <2>7, <2>12, ChargeIs
    <3>2. QED
      BY <2>12, <3>1
  <2>14. g[n] = v[1] + (IF e > 0 THEN x.at - evs[q[1]].at ELSE 0)
    <3>1. CASE d = 1
      <4>1. PICK a, b : a = x.at /\ b = evs[o[1]].at
        OBVIOUS
      <4>2. a \in Int /\ b \in Int
        BY <1>4, <1>10, <3>1, <4>1
      <4>3. v[1] = u[1] + (-b + a) /\ g[n] = u[1] + (a - b) /\ ~ e > 0
        BY <1>12, <2>1, <2>3, <2>6, <2>13, <3>1, <4>1
      <4>4. v[1] + 0 = u[1] + (a - b)
        BY <1>11, <4>2, <4>3
      <4>5. QED
        BY <4>3, <4>4
    <3>2. CASE d # 1
      <4>1. q[1] = o[1] /\ e > 0 /\ d > 0
        BY <1>3, <2>1, <2>2, <3>2
      <4>2. QED
        BY <1>12, <2>13, <3>2, <4>1
    <3>3. QED
      BY <3>1, <3>2
  <2>15. \E p1 : SumsTo(p1, v, t1)
    <3>1. \E p1 : SumsTo(p1, Charge(u, full), t + full - u[Len(u)])
      BY <1>5, <1>7, <2>7, <2>12, SumsClose
    <3>2. QED
      BY <1>5, <2>6, <3>1
  <2>16. QED
    BY <1>1, <2>1, <2>5, <2>8, <2>9, <2>10, <2>11, <2>14, <2>15 DEF RawFits
<1>15. CASE x.type \notin {"ScopEnter", "ScopExit"}
  <2>1. e = d
    BY <1>3, <1>15 DEF Opens
  <2>2. q = o
    BY <1>1, <1>15 DEF OpenedBy
  <2>3. RawStep(acc, x) = acc
    BY <1>15 DEF RawStep
  <2>4. QED
    BY <1>1, <1>5, <1>6, <1>7, <1>12, <2>1, <2>2, <2>3 DEF RawFits
<1>16. QED
  BY <1>13, <1>14, <1>15

(* In a well-nested run, RawTime is the time in which a scop is open.      *)
LEMMA RawTimeIsCovered ==
  ASSUME NEW evs \in Seq(RawEvent), WellNested(evs)
  PROVE  RawTime(evs) = Covered(evs)
<1>1. PICK L : L = Len(evs)
  OBVIOUS
<1>2. PICK c \in [0..L -> RawAcc] :
         RawTime(evs) = c[L].time /\ c[0] = RawBase /\ \A n \in 1..L : c[n] = RawStep(c[n - 1], evs[n])
  BY <1>1, RawTimeSteps
<1>3. PICK g \in [0..L -> Int] :
         Covered(evs) = g[L] /\ g[0] = 0 /\ \A n \in 0..(L - 1) : g[n + 1] = g[n] + SpanTo(evs, n)
  BY <1>1, CoveredSteps
<1>4. L \in Nat /\ Depth(evs, 0) = 0 /\ (\A n \in 0..L : Depth(evs, n) \in Int) /\ Depth(evs, L) = 0
      /\ \A n \in 0..L : Depth(evs, n) >= 0
  <2>1. L \in Nat /\ Depth(evs, 0) = 0 /\ \A n \in 0..L : Depth(evs, n) \in Int
    BY <1>1, RawRun, DepthSteps
  <2>2. \A n \in 0..L : n = 0 \/ n \in 1..L
    BY <2>1
  <2>3. QED
    BY <1>1, <2>1, <2>2 DEF WellNested
<1> DEFINE Good(n) == \E o : OpenScops(evs, n, o) /\ RawFits(evs, n, c[n], o, g)
           S == {n \in Nat : n <= L => Good(n)}
<1>5. Good(0)
  <2>1. PICK o : o = [k \in 1..0 |-> 0]
    OBVIOUS
  <2>2. OpenScops(evs, 0, o)
    BY <1>4, <2>1 DEF OpenScops
  <2>3. PICK e, z : e = <<>> /\ z = <<0>>
    OBVIOUS
  <2>4. Len(e) = 0 /\ Len(z) = 1 /\ z[1] = 0
    BY <2>3
  <2>5. c[0].ids = e /\ c[0].start = e /\ c[0].sub = z /\ c[0].time = 0
    BY <1>2, <2>3 DEF RawBase
  <2>6. SumsTo([k \in 0..1 |-> 0], z, 0)
    BY <2>4 DEF SumsTo
  <2>7. RawFits(evs, 0, c[0], o, g)
    BY <1>3, <1>4, <2>4, <2>5, <2>6 DEF RawFits
  <2>8. QED
    BY <2>2, <2>7
<1>6. ASSUME NEW n \in Nat, n \in S PROVE n + 1 \in S
  <2>1. SUFFICES ASSUME n + 1 <= L PROVE Good(n + 1)
    OBVIOUS
  <2>2. PICK m : m = n + 1
    OBVIOUS
  <2>3. m \in 1..Len(evs) /\ m - 1 = n /\ n \in 0..(L - 1) /\ n \in 0..L /\ n <= L
    BY <1>1, <1>4, <2>1, <2>2
  <2>4. Good(n)
    BY <1>6, <2>3
  <2>5. PICK o : OpenScops(evs, n, o) /\ RawFits(evs, n, c[n], o, g)
    BY <2>4
  <2>6. PICK acc : acc = c[n]
    OBVIOUS
  <2>7. acc \in RawAcc /\ c[m] = RawStep(acc, evs[m]) /\ g \in [0..Len(evs) -> Int]
        /\ g[m] = g[m - 1] + SpanTo(evs, m - 1)
    BY <1>1, <1>2, <1>3, <2>2, <2>3, <2>6
  <2>8. RawFits(evs, m, RawStep(acc, evs[m]), OpenedBy(evs, m, o), g)
    BY <2>3, <2>5, <2>6, <2>7, RawFitsStep
  <2>9. OpenScops(evs, m, OpenedBy(evs, m, o))
    <3>1. Depth(evs, m - 1) >= 0
      BY <1>4, <2>3
    <3>2. QED
      BY <2>3, <2>5, <3>1, OpenScopsStep
  <2>10. QED
    BY <2>2, <2>7, <2>8, <2>9
<1>7. L \in S
  <2> HIDE DEF Good
  <2>1. 0 \in S
    BY <1>5
  <2> HIDE DEF S
  <2>2. QED
    BY <1>4, <1>6, <2>1, SetInduction
<1>8. PICK o : RawFits(evs, L, c[L], o, g)
  BY <1>4, <1>7
<1>9. PICK a, u : a = c[L] /\ u = c[L].sub
  OBVIOUS
<1>10. a \in RawAcc /\ u \in Seq(Int) /\ Len(u) = 1 /\ u[1] \in Int /\ g[L] = u[1]
  <2>1. a \in RawAcc
    BY <1>2, <1>4, <1>9
  <2>2. Len(a.start) = 0 /\ g[L] = u[1] + 0
    BY <1>4, <1>8, <1>9 DEF RawFits
  <2>3. u \in Seq(Int) /\ Len(u) = 1
    <3>1. a.sub = u /\ a.sub \in Seq(Int) /\ Len(a.sub) = Len(a.start) + 1
      BY <1>9, <2>1 DEF RawAcc
    <3>2. QED
      BY <2>2, <3>1
  <2>4. u[1] \in Int
    <3>1. PICK n : n = 1
      OBVIOUS
    <3>2. n \in 1..Len(u)
      BY <2>3, <3>1
    <3>3. u[n] \in Int
      BY <2>3, <3>2, ElementOfSeq
    <3>4. QED
      BY <3>1, <3>3
  <2>5. QED
    BY <2>1, <2>2, <2>3, <2>4
<1>11. PICK p : SumsTo(p, u, a.time)
  BY <1>8, <1>9 DEF RawFits
<1>12. a.time = u[1]
  <2>1. p[0] = 0 /\ p[1] = a.time /\ \A k \in 1..1 : p[k] = p[k - 1] + u[k]
    BY <1>10, <1>11 DEF SumsTo
  <2>2. p[1] = p[0] + u[1]
    BY <2>1
  <2>3. QED
    BY <1>10, <2>1, <2>2
<1>13. QED
  BY <1>2, <1>3, <1>9, <1>10, <1>12

-----------------------------------------------------------------------------
(* SimpleTime of a simplified run, by the events of the run itself.        *)
Prefix(p, q) == Len(p) <= Len(q) /\ \A k \in 1..Len(p) : p[k] = q[k]

(* A simplified run grows at its end.                                      *)
LEMMA Grows ==
  ASSUME NEW T, NEW L \in Nat, NEW f, f \in [0..L -> Seq(T)],
         \A n \in 1..L : Prefix(f[n - 1], f[n])
  PROVE  \A n \in 0..L : Prefix(f[n], f[L])
<1> DEFINE S == {m \in Nat : m <= L => \A n \in 0..m : Prefix(f[n], f[m])}
<1>1. \A n \in 0..L : Len(f[n]) \in Nat
  OBVIOUS
<1>2. \A n \in 0..L : Prefix(f[n], f[n])
  BY <1>1 DEF Prefix
<1>3. 0 \in S
  BY <1>2
<1>4. ASSUME NEW m \in Nat, m \in S PROVE m + 1 \in S
  <2>1. SUFFICES ASSUME m + 1 <= L, NEW n \in 0..(m + 1) PROVE Prefix(f[n], f[m + 1])
    OBVIOUS
  <2>2. m \in 0..L /\ m + 1 \in 1..L /\ m + 1 \in 0..L /\ (m + 1) - 1 = m /\ n \in 0..L
    BY <2>1
  <2>3. Prefix(f[m], f[m + 1])
    BY <2>2
  <2>4. CASE n = m + 1
    BY <1>2, <2>2, <2>4
  <2>5. CASE n # m + 1
    <3>1. Prefix(f[n], f[m])
      BY <1>4, <2>1, <2>2, <2>5
    <3>2. PICK a, b, c : a = f[n] /\ b = f[m] /\ c = f[m + 1]
      OBVIOUS
    <3>3. Len(a) \in Nat /\ Len(b) \in Nat /\ Len(c) \in Nat /\ Prefix(a, b) /\ Prefix(b, c)
      BY <1>1, <2>2, <2>3, <3>1, <3>2
    <3>4. Prefix(a, c)
      BY <3>3 DEF Prefix
    <3>5. QED
      BY <3>2, <3>4
  <2>6. QED
    BY <2>4, <2>5
<1> HIDE DEF S
<1>5. L \in S
  BY <1>3, <1>4, SetInduction
<1>6. QED
  BY <1>5 DEF S

(* What an event of the run adds to the time.                              *)
CountEvent(acc, evs, n) == IF n \in EntersIn(evs) THEN Count(acc, Simplify(evs, n)) ELSE acc

(* The simplified run's time is that of its events, counted in this way.   *)
LEMMA SimpleTimeOfRun ==
  ASSUME NEW evs \in Seq(RawEvent)
  PROVE  \E c \in [0..Len(evs) -> Acc] :
           /\ SimpleTime(SimplifiedRun(evs)) = c[Len(evs)].time
           /\ c[0] = Uncounted
           /\ \A n \in 1..Len(evs) : c[n] = CountEvent(c[n - 1], evs, n)
<1>1. PICK L : L = Len(evs)
  OBVIOUS
<1>2. L \in Nat
  BY <1>1, RawRun
<1>3. PICK f \in [0..L -> Seq(Simplified)] :
           /\ SimplifiedRun(evs) = f[L]
           /\ f[0] = <<>>
           /\ \A n \in 1..L :
                f[n] = f[n - 1] \o (IF n \in EntersIn(evs) THEN <<Simplify(evs, n)>> ELSE <<>>)
  BY <1>1, SimplifiedRunSteps
<1>4. ASSUME NEW n \in 1..L
      PROVE  /\ Prefix(f[n - 1], f[n])
             /\ n \in EntersIn(evs) => /\ Len(f[n]) = Len(f[n - 1]) + 1
                                       /\ f[n][Len(f[n])] = Simplify(evs, n)
             /\ n \notin EntersIn(evs) => Len(f[n]) = Len(f[n - 1])
  <2>1. PICK p, q, e, z : p = f[n - 1] /\ q = f[n] /\ e = Simplify(evs, n) /\ z = <<>>
    OBVIOUS
  <2>2. n - 1 \in 0..L /\ p \in Seq(Simplified) /\ Len(p) \in Nat
    BY <1>2, <2>1
  <2>3. CASE n \in EntersIn(evs)
    <3>1. e \in Simplified
      BY <2>1, <2>3, SimplifyTyped
    <3>2. q = p \o <<e>>
      BY <1>3, <2>1, <2>3
    <3>3. Len(q) = Len(p) + 1 /\ q[Len(p) + 1] = e /\ \A k \in 1..Len(p) : q[k] = p[k]
      BY <2>2, <3>1, <3>2
    <3>4. QED
      BY <2>1, <2>2, <2>3, <3>3 DEF Prefix
  <2>4. CASE n \notin EntersIn(evs)
    <3>1. q = p \o z
      BY <1>3, <2>1, <2>4
    <3>2. q = p
      BY <2>1, <2>2, <3>1
    <3>3. QED
      BY <2>1, <2>2, <2>4, <3>2 DEF Prefix
  <2>5. QED
    BY <2>3, <2>4
<1>5. PICK run, M : run = f[L] /\ M = Len(run)
  OBVIOUS
<1>6. run \in Seq(Simplified) /\ M \in Nat
  BY <1>2, <1>3, <1>5
<1>7. PICK t \in [0..M -> Acc] :
         /\ SimpleTime(run) = t[M].time
         /\ t[0] = Uncounted
         /\ \A n \in 1..M : t[n] = Count(t[n - 1], run[n])
  BY <1>5, <1>6, SimpleTimeSteps
<1>8. \A n \in 0..L : Prefix(f[n], run)
  BY <1>2, <1>3, <1>4, <1>5, Grows
<1>9. \A n \in 0..L : Len(f[n]) \in Nat /\ Len(f[n]) \in 0..M
  <2>1. TAKE n \in 0..L
  <2>2. Len(f[n]) \in Nat /\ Len(f[n]) <= M
    BY <1>3, <1>5, <1>8 DEF Prefix
  <2>3. QED
    BY <1>6, <2>2
<1> DEFINE c == [n \in 0..L |-> t[Len(f[n])]]
<1>10. c \in [0..L -> Acc]
  BY <1>7, <1>9
<1>11. c[0] = Uncounted
  <2>1. Len(f[0]) = 0
    BY <1>3
  <2>2. QED
    BY <1>2, <1>7, <2>1
<1>12. c[L] = t[M]
  BY <1>2, <1>5
<1>13. ASSUME NEW n \in 1..L PROVE c[n] = CountEvent(c[n - 1], evs, n)
  <2>1. n - 1 \in 0..L /\ n \in 0..L
    BY <1>2
  <2>2. PICK a, b : a = Len(f[n - 1]) /\ b = Len(f[n])
    OBVIOUS
  <2>3. c[n] = t[b] /\ c[n - 1] = t[a] /\ a \in 0..M /\ b \in 0..M
    BY <1>9, <2>1, <2>2
  <2>4. CASE n \in EntersIn(evs)
    <3>1. b = a + 1 /\ f[n][b] = Simplify(evs, n)
      BY <1>4, <2>2, <2>4
    <3>2. b \in 1..M /\ b - 1 = a /\ b \in 1..b
      BY <1>6, <2>3, <3>1
    <3>3. run[b] = Simplify(evs, n)
      BY <1>8, <2>1, <2>2, <3>1, <3>2 DEF Prefix
    <3>4. t[b] = Count(t[a], run[b])
      BY <1>7, <3>2
    <3>5. QED
      BY <2>3, <2>4, <3>3, <3>4 DEF CountEvent
  <2>5. CASE n \notin EntersIn(evs)
    BY <1>4, <2>2, <2>3, <2>5 DEF CountEvent
  <2>6. QED
    BY <2>4, <2>5
<1> HIDE DEF c
<1>14. QED
  BY <1>1, <1>3, <1>5, <1>7, <1>10, <1>11, <1>12, <1>13

-----------------------------------------------------------------------------
(* The open scops of a well-nested run are known after any event.          *)
LEMMA OpenScopsAt ==
  ASSUME NEW evs \in Seq(RawEvent), WellNested(evs)
  PROVE  \A n \in 0..Len(evs) : /\ Depth(evs, n) \in Nat
                                /\ \E o : OpenScops(evs, n, o)
<1>1. PICK L : L = Len(evs)
  OBVIOUS
<1>2. L \in Nat /\ Depth(evs, 0) = 0 /\ (\A n \in 0..L : Depth(evs, n) \in Int)
      /\ \A n \in 0..L : Depth(evs, n) >= 0
  <2>1. L \in Nat /\ Depth(evs, 0) = 0 /\ \A n \in 0..L : Depth(evs, n) \in Int
    BY <1>1, RawRun, DepthSteps
  <2>2. \A n \in 0..L : n = 0 \/ n \in 1..L
    BY <2>1
  <2>3. QED
    BY <1>1, <2>1, <2>2 DEF WellNested
<1> DEFINE Good(n) == \E o : OpenScops(evs, n, o)
           S == {n \in Nat : n <= L => Good(n)}
<1>3. 0 \in S
  <2>1. PICK o : o = [k \in 1..0 |-> 0]
    OBVIOUS
  <2>2. OpenScops(evs, 0, o)
    BY <1>2, <2>1 DEF OpenScops
  <2>3. QED
    BY <2>2
<1>4. ASSUME NEW n \in Nat, n \in S PROVE n + 1 \in S
  <2>1. SUFFICES ASSUME n + 1 <= L PROVE Good(n + 1)
    OBVIOUS
  <2>2. PICK m : m = n + 1
    OBVIOUS
  <2>3. m \in 1..Len(evs) /\ m - 1 = n /\ n \in 0..L /\ n <= L
    BY <1>1, <1>2, <2>1, <2>2
  <2>4. PICK o : OpenScops(evs, n, o)
    BY <1>4, <2>3
  <2>5. Depth(evs, m - 1) >= 0
    BY <1>2, <2>3
  <2>6. OpenScops(evs, m, OpenedBy(evs, m, o))
    BY <2>3, <2>4, <2>5, OpenScopsStep
  <2>7. QED
    BY <2>2, <2>6
<1> HIDE DEF S
<1>5. \A n \in Nat : n \in S
  BY <1>3, <1>4, SetInduction
<1>6. \A n \in 0..L : Good(n)
  BY <1>2, <1>5 DEF S
<1>7. QED
  BY <1>1, <1>2, <1>6

(* Every scop of a well-nested run is left.                                *)
LEMMA ScopEnds ==
  ASSUME NEW evs \in Seq(RawEvent), WellNested(evs), NEW i \in 1..Len(evs), evs[i].type = "ScopEnter"
  PROVE  \E x \in (i + 1)..Len(evs) : Pairs(evs, i, x)
<1>1. PICK L, d : L = Len(evs) /\ d = Depth(evs, i - 1)
  OBVIOUS
<1>2. L \in Nat /\ i \in Nat /\ i <= L /\ i - 1 \in 0..L /\ i \in 0..L
  BY <1>1, RawRun
<1>3. d \in Nat /\ (\A n \in 0..L : Depth(evs, n) \in Nat) /\ Depth(evs, L) = 0
  BY <1>1, <1>2, OpenScopsAt DEF WellNested
<1>4. Depth(evs, i) = d + 1
  BY <1>1, <1>2, DepthSteps DEF Opens
<1> DEFINE S == {j \in (i + 1)..L : Depth(evs, j) <= d}
<1>5. L \in S /\ S \in SUBSET Nat
  <2>1. i # L
    BY <1>3, <1>4
  <2>2. QED
    BY <1>2, <1>3, <2>1
<1>6. PICK x : x = Min(S)
  OBVIOUS
<1>7. x \in S /\ \A j \in S : x <= j
  <2> HIDE DEF S
  <2>1. QED
    BY <1>5, <1>6, MinOfNats
<1>8. x \in (i + 1)..L /\ Depth(evs, x) <= d /\ x \in 1..L /\ x - 1 \in 0..L /\ x \in 0..L /\ i < x
  BY <1>2, <1>7
<1>9. \A k \in i..(x - 1) : Depth(evs, k) > d /\ k \in 0..L
  <2>1. TAKE k \in i..(x - 1)
  <2>2. k \in 0..L /\ k < x /\ k \in Nat
    BY <1>2, <1>8
  <2>3. k \notin S
    <3> HIDE DEF S
    <3>1. QED
      BY <1>7, <1>8, <2>2
  <2>4. k = i \/ k \in (i + 1)..L
    BY <1>2, <1>8
  <2>5. Depth(evs, k) \in Nat
    BY <1>3, <2>2
  <2>6. QED
    BY <1>3, <1>4, <2>2, <2>3, <2>4, <2>5
<1>10. Depth(evs, x) = Depth(evs, x - 1) + Opens(evs[x]) /\ Depth(evs, x - 1) > d
       /\ Depth(evs, x - 1) \in Nat /\ Depth(evs, x) \in Nat
  <2>1. x - 1 \in i..(x - 1)
    BY <1>2, <1>8
  <2>2. QED
    BY <1>1, <1>3, <1>8, <1>9, <2>1, DepthSteps
<1>11. Opens(evs[x]) = -1
  <2>1. Opens(evs[x]) \in {-1, 0, 1}
    BY DEF Opens
  <2>2. QED
    BY <1>3, <1>8, <1>10, <2>1
<1>12. evs[x].type = "ScopExit" /\ Depth(evs, x) = d
  <2>1. evs[x].type = "ScopExit"
    BY <1>11 DEF Opens
  <2>2. Depth(evs, x) = d
    BY <1>3, <1>8, <1>10, <1>11
  <2>3. QED
    BY <2>1, <2>2
<1>13. Pairs(evs, i, x)
  BY <1>1, <1>8, <1>9, <1>12 DEF Pairs
<1>14. QED
  BY <1>1, <1>8, <1>13

(* Where no scop is entered within one of its id, the next exit of its id  *)
(* is a scop's own.                                                        *)
LEMMA NextExitIsOwn ==
  ASSUME NEW evs \in Seq(RawEvent), WellNested(evs), ~Recursive(evs),
         NEW i \in 1..Len(evs), NEW x \in 1..Len(evs), Pairs(evs, i, x)
  PROVE  MatchingExit(evs, i) = x
<1>1. PICK L, M : L = Len(evs) /\ M = MatchingExit(evs, i)
  OBVIOUS
<1>2. L \in Nat /\ i \in 1..L /\ x \in 1..L /\ i \in DOMAIN evs
  BY <1>1, RawRun
<1>3. i < x /\ evs[i].type = "ScopEnter" /\ evs[x].type = "ScopExit" /\ evs[x].id = evs[i].id
      /\ \A k \in i..(x - 1) : Depth(evs, k) > Depth(evs, i - 1)
  BY <1>1, <1>2 DEF Pairs, WellNested
<1>4. ExitOf[evs[i].type] = "ScopExit" /\ x \in i..L
  BY <1>2, <1>3 DEF ExitOf
<1>5. M \in i..L /\ M <= x /\ evs[M].id = evs[i].id /\ evs[M].type = "ScopExit"
  BY <1>1, <1>2, <1>3, <1>4, MatchingExitFits
<1>6. SUFFICES ASSUME M < x PROVE FALSE
  BY <1>1, <1>2, <1>5
<1>7. M # i /\ M \in 1..L /\ M \in (i + 1)..(x - 1) /\ M - 1 \in 0..L /\ i - 1 \in 0..L /\ M \in 0..L
  BY <1>2, <1>3, <1>5, <1>6
<1>8. PICK o : OpenScops(evs, M - 1, o)
  BY <1>1, <1>7, OpenScopsAt
<1>9. PICK k : k = o[Depth(evs, M - 1)]
  OBVIOUS
<1>10. k \in 1..(M - 1) /\ Pairs(evs, k, M) /\ evs[k].id = evs[M].id
  BY <1>1, <1>5, <1>7, <1>8, <1>9, LastIsLeft
<1>11. evs[k].type = "ScopEnter" /\ Depth(evs, M) = Depth(evs, k - 1)
       /\ \A j \in k..(M - 1) : Depth(evs, j) > Depth(evs, k - 1)
  BY <1>10 DEF Pairs
<1>12. Depth(evs, M) > Depth(evs, i - 1) /\ Depth(evs, M) \in Int /\ Depth(evs, i - 1) \in Int
  <2>1. M \in i..(x - 1)
    BY <1>2, <1>5, <1>6
  <2>2. QED
    BY <1>1, <1>3, <1>7, <2>1, DepthSteps
<1>13. k # i
  BY <1>11, <1>12
<1>14. ~ k < i
  <2>1. SUFFICES ASSUME k < i PROVE FALSE
    OBVIOUS
  <2>2. i - 1 \in k..(M - 1)
    BY <1>2, <1>7, <1>10, <2>1
  <2>3. Depth(evs, i - 1) > Depth(evs, M)
    BY <1>11, <2>2
  <2>4. QED
    BY <1>12, <2>3
<1>15. k \in (i + 1)..(x - 1)
  BY <1>2, <1>7, <1>10, <1>13, <1>14
<1>16. QED
  BY <1>1, <1>2, <1>5, <1>10, <1>11, <1>15 DEF Recursive

-----------------------------------------------------------------------------
(* What SimpleTime has after n events of such a run: where no scop is open *)
(* the time covered; in a scop already the time until its end.             *)
SimpleFits(evs, n, acc, g) ==
  \/ /\ Depth(evs, n) = 0
     /\ acc.time = g[n]
     /\ acc.some => n > 0 /\ acc.end <= evs[n].at - evs[1].at
  \/ /\ Depth(evs, n) > 0
     /\ acc.some
     /\ \E x \in (n + 1)..Len(evs) :
          /\ Depth(evs, x) = 0 /\ \A j \in n..(x - 1) : Depth(evs, j) > 0
          /\ acc.end = evs[x].at - evs[1].at
          /\ acc.time = g[n] + (evs[x].at - evs[n].at)

(* One event of such a run.                                                *)
LEMMA SimpleFitsStep ==
  ASSUME NEW evs \in Seq(RawEvent), Ascending(evs), WellNested(evs), ~Recursive(evs),
         NEW n \in 1..Len(evs), NEW acc \in Acc,
         NEW g, g \in [0..Len(evs) -> Int], g[n] = g[n - 1] + SpanTo(evs, n - 1),
         SimpleFits(evs, n - 1, acc, g)
  PROVE  SimpleFits(evs, n, CountEvent(acc, evs, n), g)
<1>1. PICK L, m, d, e, a, z, b : /\ L = Len(evs) /\ m = n - 1 /\ d = Depth(evs, n - 1) /\ e = Depth(evs, n)
                                 /\ a = evs[n].at /\ z = evs[1].at /\ b = evs[n - 1].at
  OBVIOUS
<1>2. L \in Nat /\ n \in Nat /\ n \in 1..L /\ m \in 0..L /\ n = m + 1 /\ n \in 0..L /\ 1 \in 1..L /\ n > 0
  BY <1>1, RawRun
<1>3. d \in Nat /\ e \in Nat /\ e = d + Opens(evs[n]) /\ Depth(evs, 0) = 0
  BY <1>1, <1>2, DepthSteps, OpenScopsAt
<1>4. (\A k \in 1..L : evs[k] \in RawEvent /\ evs[k].at \in Int) /\ a \in Int /\ z \in Int
      /\ (m > 0 => m \in 1..L /\ b \in Int /\ b < a)
  <2>1. \A k \in 1..L : evs[k] \in RawEvent /\ evs[k].at \in Int
    BY <1>1, RawRun DEF RawEvent
  <2>2. m > 0 => m \in 1..L /\ m < n
    BY <1>2
  <2>3. QED
    BY <1>1, <1>2, <2>1, <2>2 DEF Ascending
<1>5. d > 0 => m > 0
  <2>1. m = 0 => d = 0
    BY <1>1, <1>3
  <2>2. QED
    BY <1>2, <1>3, <2>1
<1>6. acc.some \in BOOLEAN /\ acc.end \in Int /\ acc.time \in Int /\ g[m] \in Int /\ g[n] \in Int
      /\ g[n] = g[m] + (IF d > 0 THEN a - b ELSE 0)
  <2>1. SpanTo(evs, m) = IF d > 0 THEN a - b ELSE 0
    BY <1>1, <1>2, <1>5 DEF SpanTo
  <2>2. QED
    BY <1>1, <1>2, <2>1 DEF Acc
<1>7. PICK s, new : s = Simplify(evs, n) /\ new = CountEvent(acc, evs, n)
  OBVIOUS
<1>8. s.type = evs[n].type /\ s.start = a - z /\ s.duration = evs[MatchingExit(evs, n)].at - a
  BY <1>1, <1>7 DEF Simplify
<1>9. new = IF evs[n].type # "ScopEnter" \/ (acc.some /\ a - z < acc.end) THEN acc
            ELSE [some |-> TRUE, end |-> s.start + s.duration, time |-> acc.time + s.duration]
  <2>1. n \in EntersIn(evs) <=> evs[n].type \in {"ScopEnter", "RegionEnter"}
    BY <1>1, <1>2, RawRun DEF EntersIn, Enters, ExitOf
  <2>2. QED
    BY <1>7, <1>8, <2>1 DEF CountEvent, Count, Within
<1>10. CASE d = 0
  <2>1. acc.time = g[m] /\ (acc.some => m > 0 /\ acc.end <= b - z)
    BY <1>1, <1>10 DEF SimpleFits
  <2>2. g[n] = g[m]
    BY <1>6, <1>10
  <2>3. ~ (acc.some /\ a - z < acc.end)
    BY <1>4, <1>6, <2>1
  <2>4. CASE evs[n].type = "ScopEnter"
    <3>1. e = 1
      BY <1>3, <1>10, <2>4 DEF Opens
    <3>2. PICK x \in (n + 1)..Len(evs) : Pairs(evs, n, x)
      BY <1>1, <1>2, <2>4, ScopEnds
    <3>3. x \in 1..Len(evs) /\ x \in 1..L
      BY <1>1, <1>2, <3>2
    <3>4. MatchingExit(evs, n) = x
      BY <3>2, <3>3, NextExitIsOwn
    <3>5. Depth(evs, x) = 0 /\ \A j \in n..(x - 1) : Depth(evs, j) > 0
      BY <1>1, <1>10, <3>2 DEF Pairs
    <3>6. PICK c : c = evs[x].at
      OBVIOUS
    <3>7. c \in Int
      BY <1>4, <3>3, <3>6
    <3>8. new = [some |-> TRUE, end |-> (a - z) + (c - a), time |-> acc.time + (c - a)]
      BY <1>8, <1>9, <2>3, <2>4, <3>4, <3>6
    <3>9. (a - z) + (c - a) = c - z
      BY <1>4, <3>7
    <3>10. new.some /\ new.end = c - z /\ new.time = g[n] + (c - a)
      BY <2>1, <2>2, <3>8, <3>9
    <3>11. QED
      BY <1>1, <1>7, <3>1, <3>2, <3>5, <3>6, <3>10 DEF SimpleFits
  <2>5. CASE evs[n].type # "ScopEnter"
    <3>1. Opens(evs[n]) <= 0 /\ Opens(evs[n]) \in Int
      BY <2>5 DEF Opens
    <3>2. e = 0
      BY <1>3, <1>10, <3>1
    <3>3. new = acc
      BY <1>9, <2>5
    <3>4. acc.some => acc.end <= a - z
      BY <1>4, <1>6, <2>1
    <3>5. QED
      BY <1>1, <1>2, <1>7, <2>1, <2>2, <3>2, <3>3, <3>4 DEF SimpleFits
  <2>6. QED
    BY <2>4, <2>5
<1>11. CASE d > 0
  <2>1. PICK x \in n..L :
          /\ Depth(evs, x) = 0 /\ \A j \in m..(x - 1) : Depth(evs, j) > 0
          /\ acc.end = evs[x].at - z
          /\ acc.time = g[m] + (evs[x].at - b)
    BY <1>1, <1>2, <1>3, <1>11 DEF SimpleFits
  <2>2. acc.some
    BY <1>1, <1>3, <1>11 DEF SimpleFits
  <2>3. PICK c : c = evs[x].at
    OBVIOUS
  <2>4. x \in 1..L /\ c \in Int /\ b \in Int
    BY <1>2, <1>4, <1>5, <1>11, <2>1, <2>3
  <2>5. acc.time = g[n] + (c - a)
    <3>1. g[n] = g[m] + (a - b) /\ acc.time = g[m] + (c - b)
      BY <1>6, <1>11, <2>1, <2>3
    <3>2. QED
      BY <1>4, <1>6, <2>4, <3>1
  <2>6. CASE x = n
    <3>1. e = 0 /\ c = a
      BY <1>1, <2>1, <2>3, <2>6
    <3>2. evs[n].type # "ScopEnter"
      <4>1. Opens(evs[n]) # 1
        BY <1>3, <1>11, <3>1 DEF Opens
      <4>2. QED
        BY <4>1 DEF Opens
    <3>3. new = acc
      BY <1>9, <3>2
    <3>4. acc.time = g[n] /\ acc.end = a - z /\ a - z <= a - z
      BY <1>4, <1>6, <2>1, <2>3, <2>5, <3>1
    <3>5. acc.end <= a - z
      BY <3>4
    <3>6. QED
      BY <1>1, <1>2, <1>7, <3>1, <3>3, <3>4, <3>5 DEF SimpleFits
  <2>7. CASE x # n
    <3>1. x \in (n + 1)..L /\ n \in m..(x - 1) /\ n < x /\ n..(x - 1) \subseteq m..(x - 1)
      BY <1>2, <2>1, <2>7
    <3>2. e > 0
      BY <1>1, <2>1, <3>1
    <3>3. a - z < acc.end
      <4>1. a < c
        BY <1>1, <1>2, <2>3, <2>4, <3>1 DEF Ascending
      <4>2. QED
        BY <1>4, <2>1, <2>3, <2>4, <4>1
    <3>4. new = acc
      BY <1>9, <2>2, <3>3
    <3>5. \A j \in n..(x - 1) : Depth(evs, j) > 0
      BY <2>1, <3>1
    <3>6. x \in (n + 1)..Len(evs) /\ new.end = evs[x].at - evs[1].at
          /\ new.time = g[n] + (evs[x].at - evs[n].at)
      BY <1>1, <2>1, <2>3, <2>5, <3>1, <3>4
    <3>7. QED
      BY <1>1, <1>7, <2>1, <2>2, <3>2, <3>4, <3>5, <3>6 DEF SimpleFits
  <2>8. QED
    BY <2>6, <2>7
<1>12. QED
  BY <1>3, <1>10, <1>11

(* In a well-nested run whose timestamps ascend and where no scop is       *)
(* entered within one of its id, SimpleTime is the time in which a scop is *)
(* open.                                                                   *)
LEMMA SimpleTimeIsCovered ==
  ASSUME NEW evs \in Seq(RawEvent), Ascending(evs), WellNested(evs), ~Recursive(evs)
  PROVE  SimpleTime(SimplifiedRun(evs)) = Covered(evs)
<1>1. PICK L : L = Len(evs)
  OBVIOUS
<1>2. PICK c \in [0..L -> Acc] :
         /\ SimpleTime(SimplifiedRun(evs)) = c[L].time
         /\ c[0] = Uncounted
         /\ \A n \in 1..L : c[n] = CountEvent(c[n - 1], evs, n)
  BY <1>1, SimpleTimeOfRun
<1>3. PICK g \in [0..L -> Int] :
         Covered(evs) = g[L] /\ g[0] = 0 /\ \A n \in 0..(L - 1) : g[n + 1] = g[n] + SpanTo(evs, n)
  BY <1>1, CoveredSteps
<1>4. L \in Nat /\ Depth(evs, 0) = 0 /\ Depth(evs, L) = 0
  BY <1>1, RawRun, DepthSteps DEF WellNested
<1> DEFINE Good(n) == SimpleFits(evs, n, c[n], g)
           S == {n \in Nat : n <= L => Good(n)}
<1>5. 0 \in S
  <2>1. Good(0)
    BY <1>2, <1>3, <1>4 DEF SimpleFits, Uncounted
  <2>2. QED
    BY <2>1
<1>6. ASSUME NEW n \in Nat, n \in S PROVE n + 1 \in S
  <2>1. SUFFICES ASSUME n + 1 <= L PROVE Good(n + 1)
    OBVIOUS
  <2>2. PICK m : m = n + 1
    OBVIOUS
  <2>3. m \in 1..Len(evs) /\ m - 1 = n /\ n \in 0..(L - 1) /\ n \in 0..L /\ n <= L
    BY <1>1, <1>4, <2>1, <2>2
  <2>4. PICK acc : acc = c[n]
    OBVIOUS
  <2>5. SimpleFits(evs, m - 1, acc, g)
    BY <1>6, <2>3, <2>4
  <2>6. acc \in Acc /\ c[m] = CountEvent(acc, evs, m) /\ g \in [0..Len(evs) -> Int]
        /\ g[m] = g[m - 1] + SpanTo(evs, m - 1)
    BY <1>1, <1>2, <1>3, <2>2, <2>3, <2>4
  <2>7. SimpleFits(evs, m, CountEvent(acc, evs, m), g)
    BY <2>3, <2>5, <2>6, SimpleFitsStep
  <2>8. QED
    BY <2>2, <2>6, <2>7
<1> HIDE DEF S
<1>7. L \in S
  BY <1>4, <1>5, <1>6, SetInduction
<1>8. SimpleFits(evs, L, c[L], g)
  BY <1>4, <1>7 DEF S
<1>9. c[L].time = g[L]
  BY <1>4, <1>8 DEF SimpleFits
<1>10. QED
  BY <1>2, <1>3, <1>9
=============================================================================
