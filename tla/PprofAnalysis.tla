--------------------------- MODULE PprofAnalysis ---------------------------
(***************************************************************************)
(* What lib/pprof and pprof-analyze compute from the events of a thread. A *)
(* raw event has an id, a type and a timestamp; a simplified one has a     *)
(* start, relative to the first event of its run, and a duration.          *)
(***************************************************************************)
EXTENDS Integers, Sequences, FiniteSets, SequencesExt, FiniteSetsExt

Total == 0                               \* the id of START and STOP
ExitOf == [ScopEnter |-> "ScopExit", RegionEnter |-> "RegionExit"]
Enters == DOMAIN ExitOf
EventTypes == {"ScopEnter", "ScopExit", "RegionEnter", "RegionExit"}
Event(id, type, at) == [id |-> id, type |-> type, at |-> at]

-----------------------------------------------------------------------------
(* The exit of the enter event at i: the next one with its id, or i itself *)
(* (pprof.h promises the end of the run, the code returns the enter).      *)
\* mutant: the last event is not looked at
BeforeLast(evs, i) ==
  LET exits == {j \in i..(Len(evs) - 1) :
                  evs[j].id = evs[i].id /\ evs[j].type = ExitOf[evs[i].type]}
  IN  IF exits = {} THEN i ELSE Min(exits)
MatchingExit(evs, i) ==
  LET exits == {j \in i..Len(evs) :
                  evs[j].id = evs[i].id /\ evs[j].type = ExitOf[evs[i].type]}
  IN  IF exits = {} THEN i ELSE Min(exits)

Simplify(evs, i) ==
  [id |-> evs[i].id, type |-> evs[i].type, start |-> evs[i].at - evs[1].at,
   duration |-> evs[MatchingExit(evs, i)].at - evs[i].at]
EntersIn(evs) == {i \in DOMAIN evs : evs[i].type \in Enters}
SimplifiedRun(evs) ==
  LET simplified[n \in 0..Len(evs)] ==
        IF n = 0 THEN <<>>
        ELSE simplified[n - 1] \o (IF n \in EntersIn(evs) THEN <<Simplify(evs, n)>> ELSE <<>>)
  IN  simplified[Len(evs)]

(* Time in scops, from a simplified run: an event that starts before the   *)
(* last one counted has ended is taken to lie within it.                   *)
Never(acc, e) == FALSE                   \* mutant: nested scops count twice
Within(acc, e) == acc.some /\ e.start < acc.end
Count(acc, e) ==
  IF e.type # "ScopEnter" \/ Within(acc, e) THEN acc
  ELSE [some |-> TRUE, end |-> e.start + e.duration, time |-> acc.time + e.duration]
SimpleTime(run) ==
  LET counted[n \in 0..Len(run)] ==
        IF n = 0 THEN [some |-> FALSE, end |-> 0, time |-> 0]
        ELSE Count(counted[n - 1], run[n])
  IN  counted[Len(run)].time

SimpleTotal(run) ==
  LET starts == {i \in DOMAIN run : run[i].id = Total}
  IN  IF starts = {} THEN 0 ELSE run[Min(starts)].duration

(* Time in scops, from raw events: the open scops are on a stack, with the *)
(* negated time of their start and the time spent in the scops below them. *)
(* On an exit that does not fit, open scops are dropped from one of the    *)
(* three stacks.                                                           *)
Open(stack, id) == SubSeq(stack, 1, Max({1} \cup {k \in DOMAIN stack : stack[k] = id}))
NoCharge(sub, full) == Front(sub)        \* mutant: subregions are not deducted
Charge(sub, full) == [Front(sub) EXCEPT ![Len(sub) - 1] = @ + full]
RawTime(evs) ==
  LET enter(acc, e) == [acc EXCEPT !.ids = Append(@, e.id), !.start = Append(@, -e.at),
                                   !.sub = Append(@, 0)]
      close(acc, e) ==
        LET full == Last(acc.start) + e.at
        IN  [ids |-> Front(acc.ids), start |-> Front(acc.start), sub |-> Charge(acc.sub, full),
             time |-> acc.time + full - Last(acc.sub)]
      exit(acc, e) ==
        LET open == [acc EXCEPT !.ids = IF @ = <<>> THEN @ ELSE Open(@, e.id)]
        IN  IF open.ids # <<>> /\ Last(open.ids) = e.id THEN close(open, e) ELSE open
      step(acc, e) == CASE e.type = "ScopEnter" -> enter(acc, e)
                        [] e.type = "ScopExit" -> exit(acc, e)
                        [] OTHER -> acc
  IN  FoldLeft(step, [ids |-> <<>>, start |-> <<>>, sub |-> <<0>>, time |-> 0], evs).time

RawTotal(evs) ==
  LET add(sum, e) == CASE e.id = Total /\ e.type = "RegionEnter" -> sum - e.at
                       [] e.id = Total /\ e.type = "RegionExit" -> sum + e.at
                       [] OTHER -> sum
  IN  FoldLeft(add, 0, evs)

-----------------------------------------------------------------------------
(* Reference definitions.                                                  *)

(* How many scops are open after the first n events, if every exit closes  *)
(* the scop entered last.                                                  *)
Depth(evs, n) ==
  Cardinality({i \in 1..n : evs[i].type = "ScopEnter"})
    - Cardinality({i \in 1..n : evs[i].type = "ScopExit"})

(* i and j are the two ends of one scop.                                   *)
Pairs(evs, i, j) ==
  /\ i < j /\ evs[i].type = "ScopEnter" /\ evs[j].type = "ScopExit"
  /\ Depth(evs, j) = Depth(evs, i - 1)
  /\ \A k \in i..(j - 1) : Depth(evs, k) > Depth(evs, i - 1)

(* Every exit closes a scop of its id, and no scop is left open.           *)
WellNested(evs) ==
  /\ Depth(evs, Len(evs)) = 0
  /\ \A n \in 1..Len(evs) : Depth(evs, n) >= 0
  /\ \A i, j \in 1..Len(evs) : Pairs(evs, i, j) => evs[i].id = evs[j].id

(* A scop is entered within one of its id.                                 *)
Recursive(evs) ==
  \E i, j \in 1..Len(evs) :
    /\ Pairs(evs, i, j)
    /\ \E k \in (i + 1)..(j - 1) : evs[k].type = "ScopEnter" /\ evs[k].id = evs[i].id

(* The time between two events counts if a scop is open.                   *)
Covered(evs) ==
  LET open == {i \in 1..(Len(evs) - 1) : Depth(evs, i) > 0}
      span(i) == evs[i + 1].at - evs[i].at
  IN  FoldLeft(LAMBDA sum, i : sum + (IF i \in open THEN span(i) ELSE 0), 0,
               [i \in 1..(Len(evs) - 1) |-> i])
=============================================================================
