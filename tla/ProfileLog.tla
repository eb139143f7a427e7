----------------------------- MODULE ProfileLog ------------------------------
(***************************************************************************)
(* What the profiling runtime promises: threads record events, each event  *)
(* once; one thread exits, and from then on pieces of what this thread has *)
(* recorded may be stored. A piece has no gaps and reaches up to what was  *)
(* recorded last, and no event is stored twice.                            *)
(***************************************************************************)
EXTENDS Sequences, SequencesExt

CONSTANTS Threads, Nobody

VARIABLES
  log,     \* what each thread has recorded
  exiter,  \* the thread that exits
  stored   \* the pieces that have been stored

vars == <<log, exiter, stored>>

Init ==
  /\ log = [t \in Threads |-> <<>>]
  /\ exiter = Nobody
  /\ stored = <<>>

(* t records an event it has not recorded before.                          *)
Record(t) ==
  /\ Len(log'[t]) = Len(log[t]) + 1
  /\ Front(log'[t]) = log[t]
  /\ Last(log'[t]) \notin ToSet(log[t])
  /\ log' = [log EXCEPT ![t] = log'[t]]
  /\ UNCHANGED <<exiter, stored>>

Exit(t) ==
  /\ exiter = Nobody
  /\ exiter' = t
  /\ UNCHANGED <<log, stored>>

Stored == UNION {ToSet(stored[i]) : i \in DOMAIN stored}
Store(from) ==
  LET piece == SubSeq(log[exiter], from, Len(log[exiter]))
  IN  /\ ToSet(piece) \cap Stored = {}
      /\ stored' = Append(stored, piece)
      /\ UNCHANGED <<log, exiter>>

Next ==
  \/ \E t \in Threads : Record(t) \/ Exit(t)
  \/ exiter # Nobody /\ \E from \in 1..(Len(log[exiter]) + 1) : Store(from)
Spec == Init /\ [][Next]_vars
=============================================================================
