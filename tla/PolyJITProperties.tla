------------------------- MODULE PolyJITProperties -------------------------
(***************************************************************************)
(* What the runtime of PolyJIT guarantees, what it guarantees only under   *)
(* conditions, and what its comments claim and it does not do.             *)
(***************************************************************************)
EXTENDS PolyJIT

(* Safety.                                                                 *)

(* Code that may stand under a CacheKey: made from a prototype with the    *)
(* key's function name, for values with the key's hash.                    *)
Fits(k, c) ==
  /\ c # NoCode
  /\ NameOf[c.src] = NameOf[k[1]]
  /\ c.vals = Generic \/ Hash[c.vals] = k[2]

(* Whatever the generator reads through the addresses in a request, also   *)
(* when they dangle, the code it publishes under a key fits the key: key   *)
(* and code come from the same reading (libpjit.cpp, generator loop).      *)
CacheSound == \A k \in Keys : code[k] # NoCode => Fits(k, code[k])

(* No call ever runs a null pointer or code of another key, on whichever   *)
(* of the three ways through pjit_main it came to its code.                *)
RunsFittingCode ==
  \A c \in Callers : pc[c] = "return" => Fits(KeyOf(c), newF[c])

(* getEngine makes its engine the owner of the variant's module. Variants  *)
(* are cached, so a second engine for a cached variant would own a module  *)
(* that is owned already.                                                  *)
EngineOnce == \A k \in Keys : engines[k] <= 1

(* No request is queued without ShouldStart, and the generator does not    *)
(* sleep through a ShouldStart: someone is still about to notify it.       *)
StartNotLost ==
  /\ work # <<>> => shouldStart
  /\ gpc = "asleep" /\ shouldStart =>
       mpc = "notify" \/ \E c \in Callers : pc[c] = "notify"

(* A thread inside blocking_at whose key is missing still has its request  *)
(* in the queue, unless the destructor cleared it: the wait is never for   *)
(* something the generator has already passed by.                          *)
Blocked(c) == pc[c] \in {"find", "sleep", "asleep", "woken"}
BlockedIsServed ==
  \A c \in Callers : Blocked(c) /\ ~Present(c) =>
    shuttingDown \/ \E i \in DOMAIN work : work[i].owner = c

(* The generator works on a reference into the queue. Until it pops the    *)
(* request, nobody removes or replaces it, and its values change only by   *)
(* the caller's return.                                                    *)
Processing == gpc \in {"lock", "rehash", "link", "unlock", "signal", "read",
                       "compile", "pop"}
RequestSurvives ==
  [][Processing /\ gpc # "pop" =>
       work' # <<>> /\ Head(work').proto = Request.proto
                    /\ Head(work').vals \in {Request.vals, None}]_vars

(* Published code is never replaced or withdrawn: a call may keep and run  *)
(* the address it read (BlockingMap::insert does not overwrite).           *)
CacheStable ==
  [][/\ ir \subseteq ir'
     /\ \A k \in Keys : code[k] # NoCode => code'[k] = code[k]]_vars

-----------------------------------------------------------------------------
(* Liveness, under FairSpec. The generator is jammed when it waits for a   *)
(* WriteMutex that a thread took with it out of blocking_at.               *)
Jammed == gpc = "lock" /\ mutex[gmap] \in Callers
Down == fault # None \/ mpc = "exited"

(* Every queued request is dealt with, unless the generator jams for good. *)
QueueDrains == (work # <<>>) ~> (work = <<>> \/ Down \/ []Jammed)

(* The destructor terminates, unless the generator jams for good, which    *)
(* then owns GeneratorRequestMutex or is waited for by join.               *)
ShutdownCompletes == (mpc # "running") ~> (Down \/ []Jammed)

(* A call returns unless it hangs: in addRequest because the generator is  *)
(* jammed and keeps the request mutex, or in blocking_at. There the        *)
(* generator is jammed or gone, another thread left with the WriteMutex,   *)
(* or the call sleeps on a key that is there, because its notification     *)
(* came between predicate and wait or was spent on another thread. A call  *)
(* whose prototype is known when it asks hangs in addRequest only.         *)
MissedWakeup(c) == pc[c] = "asleep" /\ Present(c)
MutexTaken(c) == pc[c] = "woken" /\ mutex[on[c]] \in Callers \ {c}
Hangs(c) ==
  \/ pc[c] = "request" /\ Jammed
  \/ Blocked(c) /\ (shuttingDown \/ Jammed \/ MutexTaken(c) \/ MissedWakeup(c))
CallReturns ==
  \A c \in Callers : (pc[c] = "request") ~> (pc[c] = "idle" \/ Down \/ []Hangs(c))

-----------------------------------------------------------------------------
(* What the comments and assertions of the code claim and a run refutes.   *)

(* "We have never seen this prototype, so we block until the first version *)
(* can be delivered": a call that blocks is served (libpjit.cpp:507).      *)
BlockedIsDelivered ==
  \A c \in Callers : Blocked(c) ~> (pc[c] = "idle" \/ Down \/ shuttingDown)

(* "Wake up the generator to allow it to shut down": the destructor        *)
(* terminates (libpjit.cpp:464).                                           *)
ShutdownTerminates == (mpc # "running") ~> Down

-----------------------------------------------------------------------------
(* The runtime implements ScopCall when function names tell prototypes     *)
(* apart and hashes tell values apart.                                     *)
Meaning(c) == [proto |-> newF[c].src,
               vals  |-> IF newF[c].vals = Generic THEN call[c].vals ELSE newF[c].vals]
status == [c \in Callers |-> CASE pc[c] = "idle"   -> "idle"
                               [] pc[c] = "return" -> "executed"
                               [] OTHER            -> "called"]
did == [c \in Callers |-> IF pc[c] = "return" THEN Meaning(c) ELSE NoCall]

Scop == INSTANCE ScopCall WITH
  Callers <- Callers, Protos <- Protos, Vals <- Vals,
  status <- status, call <- call, did <- did

(* Each call runs its own function on its own arguments exactly once.      *)
ImplementsScopCall == Scop!Spec
=============================================================================
