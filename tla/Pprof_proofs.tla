---------------------------- MODULE Pprof_proofs -----------------------------
(***************************************************************************)
(* Proofs about the profiling runtime, for any threads, scops and gaps     *)
(* between events, with and without the backends, and whether or not main  *)
(* is instrumented: the types of its state, and what it stores. It         *)
(* implements ProfileLog, and the time in scops of a stored run is within  *)
(* its total.                                                              *)
(***************************************************************************)
EXTENDS PprofProperties, PprofAnalysis_proofs

(* A thread has a list of its own before it records or registers anything, *)
(* or is about to link one first.                                          *)
ReadyThread(t) ==
  /\ threadInit[t] <=> local[t] # NoList
  /\ threadInit[t] => papiInit
  /\ open[t] # <<>> \/ log[t] # <<>> => threadInit[t]
  /\ \A i \in DOMAIN todo[t] :
       /\ todo[t][i] \in {"register", "start", "record"} =>
            threadInit[t] \/ \E j \in 1..(i - 1) : todo[t][j] = "link"
       /\ todo[t][i] = "record" => entering[t] \in AllIds /\ i = Len(todo[t])
       /\ todo[t][i] = "flag" => i = 1
  /\ todo[t] # <<>> => Last(todo[t]) \in {"start", "record"}
  /\ todo[t] # <<>> /\ Head(todo[t]) # "flag" => papiInit
Ready == \A t \in Threads : ReadyThread(t)

(* The exiting thread is in the exit handler, or about to leave it, and in *)
(* no other call.                                                          *)
Exiting ==
  /\ phase = "running" => exiter = NoThread
  /\ exiter = NoThread => phase \in {"running", "fault"}
  /\ exiter # NoThread => todo[exiter] = <<>>
  /\ phase \in {"copy", "store", "clear"} => local[exiter] # NoList

StepNames == {"flag", "search", "link", "register", "start", "record"}

(* The types of the variables, but for the last conjunct of TypeOK, which  *)
(* Ready implies.                                                          *)
Typed ==
  /\ began \in BOOLEAN /\ papiInit \in BOOLEAN /\ strays \in [Threads -> Nat]
  /\ atExit \in Seq({"handler", "destructor"}) /\ db \in {"none", "open", "closed"}
  /\ todo \in [Threads -> Seq(StepNames)]
  /\ entering \in [Threads -> AllIds \cup {NoId}]
  /\ open \in [Threads -> Seq(AllIds)]
  /\ seen \in [Threads -> [Threads -> 0..Len(lists)]]
  /\ threadInit \in [Threads -> BOOLEAN]
  /\ lists \in Seq(Seq(EventType))
  /\ node \in [Threads -> 0..Len(lists)] /\ local \in [Threads -> 0..Len(lists)]
  /\ exiter \in Threads \cup {NoThread}
  /\ phase \in {"running", "exit", "copy", "store", "clear", "over", "fault", "closed"}
  /\ toDb \in Seq(Seq(EventType)) /\ toFile \in Seq(Seq(EventType))
  /\ log \in [Threads -> Seq(EventType)]

-----------------------------------------------------------------------------
(* Calls of the library: the steps of a setup, of an attachment and of an  *)
(* event.                                                                  *)
WellFormed(q, linked) ==
  /\ q \in Seq(StepNames)
  /\ \A i \in DOMAIN q :
       /\ q[i] \in {"register", "start", "record"} =>
            linked \/ \E j \in 1..(i - 1) : q[j] = "link"
       /\ q[i] = "flag" => i = 1
       /\ q[i] = "record" => i = Len(q)
       /\ q[i] = "link" => i # 1 /\ q[i - 1] = "search"
  /\ q # <<>> => Last(q) \in {"start", "record"}
Registers(q) ==
  \A i \in DOMAIN q : q[i] \in {"start", "record"} => \E j \in 1..(i - 1) : q[j] = "register"

(* The steps of the calls, one after the other.                            *)
LEMMA CallSteps ==
  /\ <<"flag">> \o <<"search", "link">> =
       <<"flag", "search", "link">>
  /\ <<"flag">> \o <<"register", "start">> =
       <<"flag", "register", "start">>
  /\ <<"flag", "search", "link">> \o <<"register", "start">> =
       <<"flag", "search", "link", "register", "start">>
  /\ <<"search", "link">> \o <<"record">> =
       <<"search", "link", "record">>
  /\ <<"flag", "search", "link", "register", "start">> \o <<"search", "link">> =
       <<"flag", "search", "link", "register", "start", "search", "link">>
  /\ <<"flag", "search", "link", "register", "start", "search", "link">> \o <<"record">> =
       <<"flag", "search", "link", "register", "start", "search", "link", "record">>
<1>1. <<"flag">> \o <<"search", "link">> =
        <<"flag", "search", "link">>
  <2> DEFINE q == <<"flag">>
             r == <<"search", "link">>
             u == <<"flag", "search", "link">>
  <2>1. q \in Seq(StepNames) /\ r \in Seq(StepNames) /\ u \in Seq(StepNames)
    BY DEF StepNames
  <2>2. Len(u) = Len(q) + Len(r)
    OBVIOUS
  <2>3. \A i \in 1..Len(q) : u[i] = q[i]
    OBVIOUS
  <2>4. \A i \in 1..Len(r) : u[Len(q) + i] = r[i]
    OBVIOUS
  <2> HIDE DEF q, r, u
  <2>5. q \o r = u
    BY <2>1, <2>2, <2>3, <2>4, ConcatIs
  <2>6. QED
    BY <2>5 DEF q, r, u
<1>2. <<"flag">> \o <<"register", "start">> =
        <<"flag", "register", "start">>
  <2> DEFINE q == <<"flag">>
             r == <<"register", "start">>
             u == <<"flag", "register", "start">>
  <2>1. q \in Seq(StepNames) /\ r \in Seq(StepNames) /\ u \in Seq(StepNames)
    BY DEF StepNames
  <2>2. Len(u) = Len(q) + Len(r)
    OBVIOUS
  <2>3. \A i \in 1..Len(q) : u[i] = q[i]
    OBVIOUS
  <2>4. \A i \in 1..Len(r) : u[Len(q) + i] = r[i]
    OBVIOUS
  <2> HIDE DEF q, r, u
  <2>5. q \o r = u
    BY <2>1, <2>2, <2>3, <2>4, ConcatIs
  <2>6. QED
    BY <2>5 DEF q, r, u
<1>3. <<"flag", "search", "link">> \o <<"register", "start">> =
        <<"flag", "search", "link", "register", "start">>
  <2> DEFINE q == <<"flag", "search", "link">>
             r == <<"register", "start">>
             u == <<"flag", "search", "link", "register", "start">>
  <2>1. q \in Seq(StepNames) /\ r \in Seq(StepNames) /\ u \in Seq(StepNames)
    BY DEF StepNames
  <2>2. Len(u) = Len(q) + Len(r)
    OBVIOUS
  <2>3. \A i \in 1..Len(q) : u[i] = q[i]
    OBVIOUS
  <2>4. \A i \in 1..Len(r) : u[Len(q) + i] = r[i]
    OBVIOUS
  <2> HIDE DEF q, r, u
  <2>5. q \o r = u
    BY <2>1, <2>2, <2>3, <2>4, ConcatIs
  <2>6. QED
    BY <2>5 DEF q, r, u
<1>4. <<"search", "link">> \o <<"record">> =
        <<"search", "link", "record">>
  <2> DEFINE q == <<"search", "link">>
             r == <<"record">>
             u == <<"search", "link", "record">>
  <2>1. q \in Seq(StepNames) /\ r \in Seq(StepNames) /\ u \in Seq(StepNames)
    BY DEF StepNames
  <2>2. Len(u) = Len(q) + Len(r)
    OBVIOUS
  <2>3. \A i \in 1..Len(q) : u[i] = q[i]
    OBVIOUS
  <2>4. \A i \in 1..Len(r) : u[Len(q) + i] = r[i]
    OBVIOUS
  <2> HIDE DEF q, r, u
  <2>5. q \o r = u
    BY <2>1, <2>2, <2>3, <2>4, ConcatIs
  <2>6. QED
    BY <2>5 DEF q, r, u
<1>5. <<"flag", "search", "link", "register", "start">> \o <<"search", "link">> =
        <<"flag", "search", "link", "register", "start", "search", "link">>
  <2> DEFINE q == <<"flag", "search", "link", "register", "start">>
             r == <<"search", "link">>
             u == <<"flag", "search", "link", "register", "start", "search", "link">>
  <2>1. q \in Seq(StepNames) /\ r \in Seq(StepNames) /\ u \in Seq(StepNames)
    BY DEF StepNames
  <2>2. Len(u) = Len(q) + Len(r)
    OBVIOUS
  <2>3. \A i \in 1..Len(q) : u[i] = q[i]
    OBVIOUS
  <2>4. \A i \in 1..Len(r) : u[Len(q) + i] = r[i]
    OBVIOUS
  <2> HIDE DEF q, r, u
  <2>5. q \o r = u
    BY <2>1, <2>2, <2>3, <2>4, ConcatIs
  <2>6. QED
    BY <2>5 DEF q, r, u
<1>6. <<"flag", "search", "link", "register", "start", "search", "link">> \o <<"record">> =
        <<"flag", "search", "link", "register", "start", "search", "link", "record">>
  <2> DEFINE q == <<"flag", "search", "link", "register", "start", "search", "link">>
             r == <<"record">>
             u == <<"flag", "search", "link", "register", "start", "search", "link", "record">>
  <2>1. q \in Seq(StepNames) /\ r \in Seq(StepNames) /\ u \in Seq(StepNames)
    BY DEF StepNames
  <2>2. Len(u) = Len(q) + Len(r)
    OBVIOUS
  <2>3. \A i \in 1..Len(q) : u[i] = q[i]
    OBVIOUS
  <2>4. \A i \in 1..Len(r) : u[Len(q) + i] = r[i]
    OBVIOUS
  <2> HIDE DEF q, r, u
  <2>5. q \o r = u
    BY <2>1, <2>2, <2>3, <2>4, ConcatIs
  <2>6. QED
    BY <2>5 DEF q, r, u
<1>7. QED
  BY <1>1, <1>2, <1>3, <1>4, <1>5, <1>6

(* The steps of SetupPAPI, written out.                                    *)
LEMMA SetupSteps ==
  ASSUME NEW t \in Threads
  PROVE  Setup(t) = IF threadInit[t] THEN <<"flag", "register", "start">>
                    ELSE <<"flag", "search", "link", "register", "start">>
<1>1. <<"flag">> \o <<>> = <<"flag">>
  OBVIOUS
<1>2. QED
  BY <1>1, CallSteps, Zenon DEF Setup, Attach

(* The steps of a call of an enter, written out for the three states of a  *)
(* thread.                                                                 *)
LEMMA EnterSteps ==
  ASSUME NEW t \in Threads, threadInit[t] => papiInit, papiInit \in BOOLEAN, threadInit[t] \in BOOLEAN
  PROVE  ThreadInitOnce(t) \o <<"record">> =
           IF threadInit[t] THEN <<"record">>
           ELSE IF papiInit THEN <<"search", "link", "record">>
           ELSE <<"flag", "search", "link", "register", "start", "search", "link", "record">>
<1>1. <<>> \o <<"record">> = <<"record">>
  OBVIOUS
<1>2. CASE threadInit[t]
  <2>1. ThreadInitOnce(t) = <<>>
    BY <1>2 DEF ThreadInitOnce
  <2>2. QED
    BY <1>1, <1>2, <2>1, Zenon
<1>3. CASE ~threadInit[t] /\ papiInit
  <2>1. ThreadInitOnce(t) = <<"search", "link">>
    BY <1>3 DEF ThreadInitOnce, Attach
  <2>2. QED
    BY <1>3, <2>1, CallSteps, Zenon
<1>4. CASE ~threadInit[t] /\ ~papiInit
  <2>1. ThreadInitOnce(t) = Setup(t) \o Attach
    BY <1>4 DEF ThreadInitOnce
  <2>2. Setup(t) = <<"flag", "search", "link", "register", "start">>
    BY <1>4, SetupSteps
  <2>3. Attach = <<"search", "link">>
    BY DEF Attach
  <2>4. ThreadInitOnce(t) =
          <<"flag", "search", "link", "register", "start", "search", "link">>
    BY <2>1, <2>2, <2>3, CallSteps, Zenon
  <2>5. QED
    BY <1>4, <2>4, CallSteps, Zenon
<1>5. QED
  BY <1>2, <1>3, <1>4

(* The steps of SetupPAPI are well formed.                                 *)
LEMMA SetupWellFormed ==
  ASSUME NEW t \in Threads
  PROVE  /\ WellFormed(Setup(t), threadInit[t]) /\ Registers(Setup(t)) /\ Setup(t) # <<>>
         /\ Head(Setup(t)) = "flag" /\ \A i \in DOMAIN Setup(t) : Setup(t)[i] # "record"
<1>1. ASSUME NEW q, q = <<"flag", "register", "start">>
      PROVE  WellFormed(q, TRUE) /\ Registers(q) /\ q # <<>>
  <2>1. /\ q \in Seq(StepNames) /\ Len(q) = 3 /\ DOMAIN q = 1..3
        /\ q[1] = "flag" /\ q[2] = "register" /\ q[3] = "start"
    BY <1>1 DEF StepNames
  <2>2. \A i \in DOMAIN q : i \in {1, 2, 3}
    BY <2>1
  <2>3. Last(q) = q[3]
    BY <2>1 DEF Last
  <2>4. QED
    BY <2>1, <2>2, <2>3 DEF WellFormed, Registers
<1>2. ASSUME NEW q, q = <<"flag", "search", "link", "register", "start">>
      PROVE  WellFormed(q, threadInit[t]) /\ Registers(q) /\ q # <<>>
  <2>1. /\ q \in Seq(StepNames) /\ Len(q) = 5 /\ DOMAIN q = 1..5
        /\ q[1] = "flag" /\ q[2] = "search" /\ q[3] = "link" /\ q[4] = "register" /\ q[5] = "start"
    BY <1>2 DEF StepNames
  <2>2. \A i \in DOMAIN q : i \in {1, 2, 3, 4, 5}
    BY <2>1
  <2>3. Last(q) = q[5]
    BY <2>1 DEF Last
  <2>4. \A i \in DOMAIN q : q[i] = "link" => i # 1 /\ q[i - 1] = "search"
    BY <2>1, <2>2
  <2>5. WellFormed(q, threadInit[t])
    BY <2>1, <2>2, <2>3, <2>4 DEF WellFormed
  <2>6. QED
    BY <2>1, <2>2, <2>5 DEF Registers
<1>3. CASE threadInit[t]
  <2>1. Setup(t) = <<"flag", "register", "start">>
    BY <1>3, SetupSteps
  <2>2. \A i \in DOMAIN Setup(t) : Setup(t)[i] # "record"
    BY <2>1
  <2>3. Head(Setup(t)) = "flag"
    BY <2>1
  <2>4. QED
    BY <1>1, <1>3, <2>1, <2>2, <2>3 DEF WellFormed
<1>4. CASE ~threadInit[t]
  <2>1. Setup(t) = <<"flag", "search", "link", "register", "start">>
    BY <1>4, SetupSteps
  <2>2. \A i \in DOMAIN Setup(t) : Setup(t)[i] # "record"
    BY <2>1
  <2>3. Head(Setup(t)) = "flag"
    BY <2>1
  <2>4. QED
    BY <1>2, <2>1, <2>2, <2>3
<1>5. QED
  BY <1>3, <1>4

(* The steps of an enter are well formed, and register before they start   *)
(* the clock.                                                              *)
LEMMA EnterWellFormed ==
  ASSUME NEW t \in Threads, threadInit[t] => papiInit, papiInit \in BOOLEAN, threadInit[t] \in BOOLEAN,
         NEW c, c = ThreadInitOnce(t) \o <<"record">>
  PROVE  /\ WellFormed(c, threadInit[t]) /\ c # <<>>
         /\ papiInit \/ (Head(c) = "flag" /\ Registers(c))
<1>1. ASSUME NEW q, q = <<"record">>
      PROVE  WellFormed(q, TRUE) /\ q # <<>>
  <2>1. /\ q \in Seq(StepNames) /\ Len(q) = 1 /\ DOMAIN q = 1..1
        /\ q[1] = "record"
    BY <1>1 DEF StepNames
  <2>2. \A i \in DOMAIN q : q[i] = "record"
    BY <2>1
  <2>3. Last(q) = "record" /\ q # <<>>
    <3>1. Last(q) = "record"
      BY <2>1, Zenon DEF Last
    <3>2. q # <<>>
      BY <1>1
    <3>3. QED
      BY <3>1, <3>2
  <2>4. WellFormed(q, TRUE)
    BY <2>1, <2>2, <2>3 DEF WellFormed
  <2>5. QED
    BY <2>3, <2>4
<1>2. ASSUME NEW q, q = <<"search", "link", "record">>
      PROVE  WellFormed(q, threadInit[t]) /\ q # <<>>
  <2>1. /\ q \in Seq(StepNames) /\ Len(q) = 3 /\ DOMAIN q = 1..3
        /\ q[1] = "search" /\ q[2] = "link" /\ q[3] = "record"
    BY <1>2 DEF StepNames
  <2>2. \A i \in DOMAIN q : i \in {1, 2, 3}
    BY <2>1
  <2>3. Last(q) = q[3]
    BY <2>1 DEF Last
  <2>4. QED
    BY <2>1, <2>2, <2>3 DEF WellFormed, Registers
<1>3. ASSUME NEW q, q = <<"flag", "search", "link", "register", "start", "search", "link", "record">>
      PROVE  Head(q) = "flag" /\ WellFormed(q, threadInit[t]) /\ Registers(q) /\ q # <<>>
  <2>1. /\ q \in Seq(StepNames) /\ Len(q) = 8 /\ DOMAIN q = 1..8 /\ Head(q) = "flag"
        /\ q[1] = "flag" /\ q[2] = "search" /\ q[3] = "link" /\ q[4] = "register"
        /\ q[5] = "start" /\ q[6] = "search" /\ q[7] = "link" /\ q[8] = "record"
    BY <1>3 DEF StepNames
  <2>2. \A i \in DOMAIN q : i \in {1, 2, 3, 4, 5, 6, 7, 8}
    BY <2>1
  <2>3. Last(q) = q[8]
    BY <2>1 DEF Last
  <2>4. QED
    BY <2>1, <2>2, <2>3 DEF WellFormed, Registers
<1>4. CASE threadInit[t]
  <2>1. c = <<"record">>
    BY <1>4, EnterSteps
  <2>2. QED
    BY <1>1, <1>4, <2>1 DEF WellFormed
<1>5. CASE ~threadInit[t] /\ papiInit
  <2>1. c = <<"search", "link", "record">>
    BY <1>5, EnterSteps
  <2>2. QED
    BY <1>2, <1>5, <2>1
<1>6. CASE ~threadInit[t] /\ ~papiInit
  <2>1. c = <<"flag", "search", "link", "register", "start", "search", "link", "record">>
    BY <1>6, EnterSteps
  <2>2. QED
    BY <1>3, <2>1
<1>7. QED
  BY <1>4, <1>5, <1>6

(* What is left after the first of some steps.                             *)
LEMMA TailSteps ==
  ASSUME NEW q \in Seq(StepNames), q # <<>>
  PROVE  /\ Tail(q) \in Seq(StepNames) /\ Len(q) \in Nat \ {0} /\ Len(Tail(q)) = Len(q) - 1
         /\ DOMAIN Tail(q) = 1..(Len(q) - 1) /\ DOMAIN q = 1..Len(q)
         /\ \A i \in 1..(Len(q) - 1) : Tail(q)[i] = q[i + 1]
         /\ Tail(q) # <<>> => Last(Tail(q)) = Last(q) /\ Head(Tail(q)) = q[2] /\ Len(q) >= 2
         /\ Tail(q) = <<>> => Last(q) = Head(q)
         /\ Head(q) = q[1]
<1>1. /\ Tail(q) \in Seq(StepNames) /\ Len(q) \in Nat \ {0} /\ Len(Tail(q)) = Len(q) - 1
      /\ DOMAIN Tail(q) = 1..(Len(q) - 1) /\ DOMAIN q = 1..Len(q)
      /\ \A i \in 1..(Len(q) - 1) : Tail(q)[i] = q[i + 1]
      /\ Head(q) = q[1]
  OBVIOUS
<1>2. ASSUME Tail(q) # <<>> PROVE Last(Tail(q)) = Last(q) /\ Head(Tail(q)) = q[2] /\ Len(q) >= 2
  <2>1. Len(Tail(q)) # 0
    BY <1>1, <1>2
  <2>2. Head(Tail(q)) = Tail(q)[1]
    BY <1>1, <1>2
  <2>3. Last(Tail(q)) = Tail(q)[Len(q) - 1] /\ Last(q) = q[Len(q)]
    BY <1>1, Zenon DEF Last
  <2>4. Len(q) - 1 \in 1..(Len(q) - 1) /\ 1 \in 1..(Len(q) - 1)
    BY <1>1, <2>1
  <2>5. Tail(q)[Len(q) - 1] = q[Len(q)] /\ Tail(q)[1] = q[2] /\ Len(q) >= 2
    BY <1>1, <2>4
  <2>6. QED
    BY <2>2, <2>3, <2>5
<1>3. ASSUME Tail(q) = <<>> PROVE Last(q) = Head(q)
  <2>1. PICK s : s = Tail(q)
    OBVIOUS
  <2>2. Len(s) = 0 /\ Len(s) = Len(q) - 1 /\ Len(q) \in Nat
    BY <1>1, <1>3, <2>1
  <2>3. Len(q) = 1
    BY <2>2
  <2>4. Last(q) = q[1]
    BY <2>3, Zenon DEF Last
  <2>5. QED
    BY <1>1, <2>4
<1>4. QED
  BY <1>1, <1>2, <1>3

(* A thread that is at a step has the rest of its call to do.              *)
LEMMA AdvanceStep ==
  ASSUME Typed, Ready, NEW t \in Threads, todo[t] # <<>>, Advance(t)
  PROVE  /\ todo' = [todo EXCEPT ![t] = Tail(todo[t])] /\ Tail(todo[t]) \in Seq(StepNames)
         /\ todo'[t] # <<>> => Last(todo'[t]) \in {"start", "record"} /\ Head(todo'[t]) # "flag"
         /\ todo'[t] = <<>> => Head(todo[t]) \in {"start", "record"}
         /\ Len(todo[t]) \in Nat /\ Len(todo'[t]) = Len(todo[t]) - 1
         /\ 1 \in DOMAIN todo[t] /\ todo[t][1] = Head(todo[t])
         /\ \A i \in DOMAIN todo'[t] :
              /\ i \in Nat /\ i + 1 \in DOMAIN todo[t] /\ i + 1 # 1 /\ todo'[t][i] = todo[t][i + 1]
              /\ \A j \in 1..i : j # 1 => j - 1 \in 1..(i - 1) /\ todo[t][j] = todo'[t][j - 1]
<1>1. todo[t] \in Seq(StepNames) /\ todo' = [todo EXCEPT ![t] = Tail(todo[t])]
  BY DEF Typed, Advance
<1>2. todo'[t] = Tail(todo[t])
  BY <1>1 DEF Typed
<1>3. ReadyThread(t)
  BY DEF Ready
<1>4. /\ Tail(todo[t]) \in Seq(StepNames) /\ DOMAIN Tail(todo[t]) = 1..(Len(todo[t]) - 1)
      /\ DOMAIN todo[t] = 1..Len(todo[t]) /\ Len(todo[t]) \in Nat \ {0}
      /\ Head(todo[t]) = todo[t][1] /\ Len(Tail(todo[t])) = Len(todo[t]) - 1
      /\ \A i \in 1..(Len(todo[t]) - 1) : Tail(todo[t])[i] = todo[t][i + 1]
      /\ Tail(todo[t]) # <<>> =>
           Last(Tail(todo[t])) = Last(todo[t]) /\ Head(Tail(todo[t])) = todo[t][2] /\ Len(todo[t]) >= 2
      /\ Tail(todo[t]) = <<>> => Last(todo[t]) = Head(todo[t])
  BY <1>1, TailSteps
<1>5. Last(todo[t]) \in {"start", "record"}
  BY <1>3, Zenon DEF ReadyThread
<1>6. ASSUME todo'[t] # <<>>
      PROVE  Last(todo'[t]) \in {"start", "record"} /\ Head(todo'[t]) # "flag"
  <2>1. 2 \in DOMAIN todo[t] /\ Head(todo'[t]) = todo[t][2]
    BY <1>2, <1>4, <1>6
  <2>2. todo[t][2] # "flag"
    BY <1>3, <2>1 DEF ReadyThread
  <2>3. QED
    BY <1>2, <1>4, <1>5, <1>6, <2>1, <2>2
<1>7. todo'[t] = <<>> => Head(todo[t]) \in {"start", "record"}
  BY <1>2, <1>4, <1>5
<1>8. ASSUME NEW i \in DOMAIN todo'[t]
      PROVE  /\ i \in Nat /\ i + 1 \in DOMAIN todo[t] /\ i + 1 # 1 /\ todo'[t][i] = todo[t][i + 1]
             /\ \A j \in 1..i : j # 1 => j - 1 \in 1..(i - 1) /\ todo[t][j] = todo'[t][j - 1]
  BY <1>2, <1>4
<1>9. Len(todo'[t]) = Len(todo[t]) - 1 /\ 1 \in DOMAIN todo[t]
  BY <1>2, <1>4
<1>10. QED
  BY <1>1, <1>4, <1>6, <1>7, <1>8, <1>9

(* What a thread pushes is an event, later than the ones before it.        *)
LEMMA PushStep ==
  ASSUME Typed, NEW t \in Threads, NEW id \in AllIds \cup {Total}, NEW type \in EventTypes,
         Push(t, id, type), local[t] # NoList
  PROVE  \E e \in EventType :
           /\ e = Event(id, type, Now(t)) /\ Now(t) \in Nat \ {0}
           /\ log[t] # <<>> => Last(log[t]).at < e.at
           /\ log' = [log EXCEPT ![t] = Append(log[t], e)]
           /\ lists' = [lists EXCEPT ![local[t]] = Append(lists[local[t]], e)]
           /\ log' \in [Threads -> Seq(EventType)]
           /\ lists' \in Seq(Seq(EventType)) /\ Len(lists') = Len(lists)
           /\ local[t] \in DOMAIN lists /\ lists[local[t]] \in Seq(EventType)
           /\ log[t] \in Seq(EventType)
<1>1. local[t] \in 1..Len(lists) /\ lists \in Seq(Seq(EventType)) /\ log[t] \in Seq(EventType)
      /\ Len(lists) \in Nat /\ DOMAIN lists = 1..Len(lists)
  BY DEF Typed, NoList
<1>2. lists[local[t]] \in Seq(EventType)
  BY <1>1, ElementOfSeq
<1>3. Gaps[(Len(log[t]) % Len(Gaps)) + 1] \in Nat \ {0}
  <2>1. Gaps \in Seq(Nat \ {0}) /\ Gaps # <<>>
    BY Assumptions
  <2>2. Len(Gaps) \in Nat \ {0} /\ DOMAIN Gaps = 1..Len(Gaps) /\ Len(log[t]) \in Nat
    BY <1>1, <2>1
  <2>3. (Len(log[t]) % Len(Gaps)) + 1 \in 1..Len(Gaps)
    <3>1. ASSUME NEW a \in Nat, NEW b \in Nat \ {0} PROVE (a % b) + 1 \in 1..b
      OBVIOUS
    <3>2. QED
      BY <2>2, <3>1
  <2>4. QED
    BY <2>1, <2>2, <2>3, ElementOfSeq
<1>4. log[t] # <<>> => Last(log[t]) \in EventType
  <2>1. ASSUME log[t] # <<>> PROVE Len(log[t]) \in 1..Len(log[t])
    BY <1>1, <2>1
  <2>2. QED
    BY <1>1, <2>1, ElementOfSeq DEF Last
<1>5. Now(t) \in Nat \ {0} /\ (log[t] # <<>> => Last(log[t]).at < Now(t))
  <2>1. CASE log[t] = <<>>
    <3>1. Now(t) = Gaps[(Len(log[t]) % Len(Gaps)) + 1]
      BY <1>3, <2>1 DEF Now
    <3>2. QED
      BY <1>3, <2>1, <3>1
  <2>2. CASE log[t] # <<>>
    <3>1. Now(t) = Last(log[t]).at + Gaps[(Len(log[t]) % Len(Gaps)) + 1]
      BY <2>2 DEF Now
    <3>2. Last(log[t]).at \in Nat
      BY <1>4, <2>2 DEF EventType
    <3>3. \A a \in Nat, b \in Nat \ {0} : a + b \in Nat \ {0} /\ a < a + b
      OBVIOUS
    <3>4. QED
      BY <1>3, <3>1, <3>2, <3>3
  <2>3. QED
    BY <2>1, <2>2
<1> DEFINE e == Event(id, type, Now(t))
<1>6. e \in EventType /\ e.at = Now(t)
  BY <1>5 DEF Event, EventType
<1>7. /\ log' = [log EXCEPT ![t] = Append(log[t], e)]
      /\ lists' = [lists EXCEPT ![local[t]] = Append(lists[local[t]], e)]
  BY DEF Push
<1> HIDE DEF e
<1>8. Append(log[t], e) \in Seq(EventType) /\ Append(lists[local[t]], e) \in Seq(EventType)
  BY <1>1, <1>2, <1>6
<1>9. log' \in [Threads -> Seq(EventType)]
  BY <1>7, <1>8 DEF Typed
<1>10. lists' \in Seq(Seq(EventType)) /\ Len(lists') = Len(lists)
  BY <1>1, <1>7, <1>8, ExceptSeq
<1>11. QED
  BY <1>1, <1>2, <1>5, <1>6, <1>7, <1>9, <1>10 DEF e

(* After a step of its call a thread is as ready for the rest of it.       *)
LEMMA AdvanceReady ==
  ASSUME Typed, Ready, Typed', NEW t \in Threads, todo[t] # <<>>, Advance(t),
         papiInit => papiInit', Head(todo[t]) = "flag" => papiInit',
         Head(todo[t]) = "link" \/ threadInit[t] => threadInit'[t],
         threadInit'[t] <=> local'[t] # NoList, threadInit'[t] => papiInit',
         open'[t] # <<>> \/ log'[t] # <<>> => threadInit'[t],
         entering'[t] = entering[t] \/ Head(todo[t]) = "record"
  PROVE  ReadyThread(t)'
<1>1. ReadyThread(t)
  BY DEF Ready
<1>2. /\ todo'[t] # <<>> => Last(todo'[t]) \in {"start", "record"} /\ Head(todo'[t]) # "flag"
      /\ Len(todo[t]) \in Nat /\ Len(todo'[t]) = Len(todo[t]) - 1
      /\ 1 \in DOMAIN todo[t] /\ todo[t][1] = Head(todo[t])
      /\ \A i \in DOMAIN todo'[t] :
           /\ i \in Nat /\ i + 1 \in DOMAIN todo[t] /\ i + 1 # 1 /\ todo'[t][i] = todo[t][i + 1]
           /\ \A j \in 1..i : j # 1 => j - 1 \in 1..(i - 1) /\ todo[t][j] = todo'[t][j - 1]
  BY AdvanceStep
<1>3. ASSUME NEW i \in DOMAIN todo'[t], todo'[t][i] \in {"register", "start", "record"},
             ~threadInit'[t]
      PROVE  \E j \in 1..(i - 1) : todo'[t][j] = "link"
  <2>1. ~threadInit[t] /\ todo[t][i + 1] \in {"register", "start", "record"}
    BY <1>2, <1>3
  <2>2. PICK k : k = i + 1
    OBVIOUS
  <2>3. k \in DOMAIN todo[t] /\ todo[t][k] \in {"register", "start", "record"} /\ k - 1 = i
    BY <1>2, <2>1, <2>2
  <2>4. \E j \in 1..(k - 1) : todo[t][j] = "link"
    BY <1>1, <2>1, <2>3, Zenon DEF ReadyThread
  <2>5. PICK j \in 1..i : todo[t][j] = "link"
    BY <2>3, <2>4
  <2>6. j # 1
    BY <1>2, <1>3, <2>5
  <2>7. QED
    BY <1>2, <2>5, <2>6
<1>4. ASSUME NEW i \in DOMAIN todo'[t], todo'[t][i] = "record"
      PROVE  entering'[t] \in AllIds /\ i = Len(todo'[t])
  <2>1. i \in Nat /\ i + 1 \in DOMAIN todo[t] /\ i + 1 # 1 /\ todo[t][i + 1] = "record"
    BY <1>2, <1>4
  <2>2. i + 1 = Len(todo[t]) /\ entering[t] \in AllIds
    BY <1>1, <2>1 DEF ReadyThread
  <2>3. Head(todo[t]) # "record"
    BY <1>1, <1>2, <2>1, <2>2 DEF ReadyThread
  <2>4. i = Len(todo'[t])
    BY <1>2, <2>1, <2>2
  <2>5. QED
    BY <2>2, <2>3, <2>4
<1>5. ASSUME NEW i \in DOMAIN todo'[t] PROVE todo'[t][i] # "flag"
  BY <1>1, <1>2 DEF ReadyThread
<1>6. ASSUME todo'[t] # <<>> PROVE papiInit'
  BY <1>1 DEF ReadyThread
<1>7. \A i \in DOMAIN todo'[t] :
        /\ todo'[t][i] \in {"register", "start", "record"} =>
             threadInit'[t] \/ \E j \in 1..(i - 1) : todo'[t][j] = "link"
        /\ todo'[t][i] = "record" => entering'[t] \in AllIds /\ i = Len(todo'[t])
        /\ todo'[t][i] = "flag" => i = 1
  BY <1>3, <1>4, <1>5, Zenon
<1>8. /\ todo'[t] # <<>> => Last(todo'[t]) \in {"start", "record"}
      /\ todo'[t] # <<>> /\ Head(todo'[t]) # "flag" => papiInit'
  BY <1>2, <1>6, Zenon
<1>9. QED
  BY <1>7, <1>8, Zenon DEF ReadyThread

(* Nothing that others do makes a thread less ready.                       *)
LEMMA OthersReady ==
  ASSUME Ready, NEW u \in Threads, papiInit => papiInit', todo'[u] = todo[u],
         entering'[u] = entering[u], open'[u] = open[u], log'[u] = log[u],
         threadInit'[u] = threadInit[u], local'[u] = local[u]
  PROVE  ReadyThread(u)'
<1>1. ReadyThread(u)
  BY DEF Ready
<1>2. QED
  BY <1>1 DEF ReadyThread

(* Every step of a thread keeps the types, and all threads ready.          *)
LEMMA SetFlagTyped ==
  ASSUME Typed, Ready, NEW t \in Threads, SetFlag(t)
  PROVE  Typed' /\ Ready'
<1>1. todo' = [todo EXCEPT ![t] = Tail(todo[t])] /\ Tail(todo[t]) \in Seq(StepNames)
  BY AdvanceStep DEF SetFlag, At
<1>2. Typed'
  <2>1. todo' \in [Threads -> Seq(StepNames)]
    BY <1>1 DEF Typed
  <2>2. papiInit' \in BOOLEAN
    BY DEF Typed, SetFlag
  <2>3. /\ began' = began /\ entering' = entering /\ open' = open /\ seen' = seen
        /\ threadInit' = threadInit /\ node' = node /\ local' = local
        /\ atExit' = atExit /\ db' = db /\ strays' = strays
        /\ lists' = lists /\ exiter' = exiter /\ phase' = phase /\ toDb' = toDb
        /\ toFile' = toFile /\ log' = log
    BY DEF SetFlag, ending
  <2>4. QED
    BY <2>1, <2>2, <2>3, Zenon DEF Typed
<1>3. ReadyThread(t)'
  <2>1. ReadyThread(t) /\ todo[t] # <<>> /\ Advance(t) /\ papiInit'
    BY DEF Ready, SetFlag, At
  <2>2. /\ threadInit[t] <=> local[t] # NoList
        /\ open[t] # <<>> \/ log[t] # <<>> => threadInit[t]
    BY <2>1 DEF ReadyThread
  <2>3. Head(todo[t]) # "link"
    BY DEF SetFlag, At
  <2>4. QED
    BY <1>2, <2>1, <2>2, <2>3, AdvanceReady DEF SetFlag
<1>4. ASSUME NEW u \in Threads, u # t PROVE ReadyThread(u)'
  <2>1. papiInit' /\ todo'[u] = todo[u]
    BY <1>1, <1>4 DEF SetFlag, Typed
  <2>2. QED
    BY <2>1, OthersReady DEF SetFlag
<1>5. QED
  BY <1>2, <1>3, <1>4 DEF Ready

(* Searching the list of a thread keeps the types.                         *)
LEMMA SearchTyped ==
  ASSUME Typed, Ready, NEW t \in Threads, Search(t)
  PROVE  Typed' /\ Ready'
<1>1. todo' = [todo EXCEPT ![t] = Tail(todo[t])] /\ Tail(todo[t]) \in Seq(StepNames)
  BY AdvanceStep DEF Search, At
<1>2. Typed'
  <2>1. todo' \in [Threads -> Seq(StepNames)]
    BY <1>1 DEF Typed
  <2>2. seen' \in [Threads -> [Threads -> 0..Len(lists)]]
    BY DEF Typed, Search
  <2>3. /\ began' = began /\ entering' = entering /\ open' = open /\ threadInit' = threadInit
        /\ papiInit' = papiInit /\ node' = node /\ local' = local
        /\ atExit' = atExit /\ db' = db /\ strays' = strays
        /\ lists' = lists /\ exiter' = exiter /\ phase' = phase /\ toDb' = toDb
        /\ toFile' = toFile /\ log' = log
    BY DEF Search, ending
  <2>4. QED
    BY <2>1, <2>2, <2>3, Zenon DEF Typed
<1>3. ReadyThread(t)'
  <2>1. ReadyThread(t) /\ todo[t] # <<>> /\ Advance(t) /\ Head(todo[t]) = "search"
    BY DEF Ready, Search, At
  <2>2. /\ threadInit[t] <=> local[t] # NoList
        /\ threadInit[t] => papiInit
        /\ open[t] # <<>> \/ log[t] # <<>> => threadInit[t]
    BY <2>1 DEF ReadyThread
  <2>3. QED
    BY <1>2, <2>1, <2>2, AdvanceReady DEF Search
<1>4. ASSUME NEW u \in Threads, u # t PROVE ReadyThread(u)'
  <2>1. todo'[u] = todo[u]
    BY <1>1, <1>4 DEF Typed
  <2>2. QED
    BY <2>1, OthersReady DEF Search
<1>5. QED
  BY <1>2, <1>3, <1>4 DEF Ready

(* Registering the handler keeps the types.                                *)
LEMMA RegisterTyped ==
  ASSUME Typed, Ready, NEW t \in Threads, Register(t)
  PROVE  Typed' /\ Ready'
<1>1. todo' = [todo EXCEPT ![t] = Tail(todo[t])] /\ Tail(todo[t]) \in Seq(StepNames)
  BY AdvanceStep DEF Register, At
<1>2. Typed'
  <2>1. todo' \in [Threads -> Seq(StepNames)]
    BY <1>1 DEF Typed
  <2>2. atExit' \in Seq({"handler", "destructor"})
    BY DEF Typed, Register
  <2>3. /\ began' = began /\ entering' = entering /\ open' = open /\ seen' = seen
        /\ threadInit' = threadInit /\ papiInit' = papiInit /\ node' = node /\ local' = local
        /\ strays' = strays /\ db' = db
        /\ lists' = lists /\ exiter' = exiter /\ phase' = phase /\ toDb' = toDb
        /\ toFile' = toFile /\ log' = log
    BY DEF Register, init
  <2>4. QED
    BY <2>1, <2>2, <2>3, Zenon DEF Typed
<1>3. ReadyThread(t)'
  <2>1. ReadyThread(t) /\ todo[t] # <<>> /\ Advance(t) /\ Head(todo[t]) = "register"
    BY DEF Ready, Register, At
  <2>2. /\ threadInit[t] <=> local[t] # NoList
        /\ threadInit[t] => papiInit
        /\ open[t] # <<>> \/ log[t] # <<>> => threadInit[t]
    BY <2>1 DEF ReadyThread
  <2>3. QED
    BY <1>2, <2>1, <2>2, AdvanceReady DEF Register, init
<1>4. ASSUME NEW u \in Threads, u # t PROVE ReadyThread(u)'
  <2>1. todo'[u] = todo[u]
    BY <1>1, <1>4 DEF Typed
  <2>2. QED
    BY <2>1, OthersReady DEF Register, init
<1>5. QED
  BY <1>2, <1>3, <1>4 DEF Ready

(* Link gives the thread a list: the one it has seen, or a new one.        *)
LEMMA LinkTyped ==
  ASSUME Typed, Ready, NEW t \in Threads, Link(t)
  PROVE  Typed' /\ Ready'
<1>1. todo' = [todo EXCEPT ![t] = Tail(todo[t])] /\ Tail(todo[t]) \in Seq(StepNames)
  BY AdvanceStep DEF Link, At
<1>2. Len(lists) \in Nat /\ Nothing \in [Threads -> 0..Len(lists)]
  BY DEF Typed, Nothing, NoList
<1>3. /\ lists' \in Seq(Seq(EventType)) /\ Len(lists') \in Nat /\ Len(lists) <= Len(lists')
      /\ node' \in [Threads -> 0..Len(lists')]
      /\ local' \in [Threads -> 0..Len(lists')] /\ local'[t] # NoList
      /\ \A u \in Threads : u # t => local'[u] = local[u]
  <2>1. CASE seen[t][t] # NoList
    <3>1. local' = [local EXCEPT ![t] = seen[t][t]] /\ lists' = lists /\ node' = node
      BY <2>1 DEF Link, Found
    <3>2. seen[t][t] \in 0..Len(lists)
      BY DEF Typed
    <3>3. QED
      BY <1>2, <2>1, <3>1, <3>2 DEF Typed
  <2>2. CASE seen[t][t] = NoList
    <3>1. /\ lists' = Append(lists, <<>>) /\ local' = [local EXCEPT ![t] = Len(lists')]
          /\ \E map \in {node, Undone(t)} : node' = [map EXCEPT ![t] = Len(lists')]
      BY <2>2 DEF Link, Found
    <3>2. lists' \in Seq(Seq(EventType)) /\ Len(lists') = Len(lists) + 1
      BY <3>1 DEF Typed
    <3>3. Undone(t) \in [Threads -> 0..Len(lists)] /\ node \in [Threads -> 0..Len(lists)]
      BY <1>2 DEF Typed, Undone, NoList
    <3>4. local' \in [Threads -> 0..Len(lists')] /\ local'[t] # NoList
          /\ \A u \in Threads : u # t => local'[u] = local[u]
      <4>1. Len(lists') # NoList /\ \A n \in 0..Len(lists) : n \in 0..Len(lists')
        BY <1>2, <3>2 DEF NoList
      <4>2. local \in [Threads -> 0..Len(lists)] /\ Len(lists') \in 0..Len(lists')
        BY <1>2, <3>2 DEF Typed
      <4>3. QED
        BY <3>1, <4>1, <4>2
    <3>5. node' \in [Threads -> 0..Len(lists')]
      BY <1>2, <3>1, <3>2, <3>3
    <3>6. QED
      BY <1>2, <3>2, <3>4, <3>5
  <2>3. QED
    BY <2>1, <2>2
<1>4. seen' \in [Threads -> [Threads -> 0..Len(lists')]]
  <2>1. seen' = [seen EXCEPT ![t] = Nothing]
    BY DEF Link, Found
  <2>2. Nothing \in [Threads -> 0..Len(lists')]
    BY <1>3 DEF Nothing, NoList
  <2>3. ASSUME NEW u \in Threads PROVE seen[u] \in [Threads -> 0..Len(lists')]
    <3>1. seen[u] \in [Threads -> 0..Len(lists)]
      BY DEF Typed
    <3>2. \A n \in 0..Len(lists) : n \in 0..Len(lists')
      BY <1>2, <1>3
    <3>3. QED
      BY <3>1, <3>2
  <2>4. QED
    BY <2>1, <2>2, <2>3 DEF Typed
<1>5. threadInit' = [threadInit EXCEPT ![t] = TRUE]
  BY DEF Link, Found
<1>6. Typed'
  <2>1. todo' \in [Threads -> Seq(StepNames)] /\ threadInit' \in [Threads -> BOOLEAN]
    BY <1>1, <1>5 DEF Typed
  <2>2. /\ began' = began /\ entering' = entering /\ open' = open /\ papiInit' = papiInit
        /\ atExit' = atExit /\ db' = db /\ strays' = strays /\ exiter' = exiter /\ phase' = phase /\ toDb' = toDb
        /\ toFile' = toFile /\ log' = log
    BY DEF Link, ending
  <2>3. QED
    BY <1>3, <1>4, <2>1, <2>2, Zenon DEF Typed
<1>7. ReadyThread(t)'
  <2>1. ReadyThread(t) /\ todo[t] # <<>> /\ Advance(t) /\ Head(todo[t]) = "link"
    BY DEF Ready, Link, At
  <2>2. papiInit /\ threadInit'[t]
    BY <1>5, <2>1 DEF ReadyThread, Typed
  <2>3. QED
    BY <1>3, <1>6, <2>1, <2>2, AdvanceReady DEF Link, Found
<1>8. ASSUME NEW u \in Threads, u # t PROVE ReadyThread(u)'
  <2>1. todo'[u] = todo[u] /\ threadInit'[u] = threadInit[u] /\ local'[u] = local[u]
    BY <1>1, <1>3, <1>5, <1>8 DEF Typed
  <2>2. QED
    BY <2>1, OthersReady DEF Link, Found
<1>9. QED
  BY <1>6, <1>7, <1>8 DEF Ready

(* A thread pushes START, and the scops it enters and leaves.              *)
LEMMA StartTyped ==
  ASSUME Typed, Ready, NEW t \in Threads, Start(t)
  PROVE  Typed' /\ Ready'
<1>1. todo' = [todo EXCEPT ![t] = Tail(todo[t])] /\ Tail(todo[t]) \in Seq(StepNames)
  BY AdvanceStep DEF Start, At
<1>2. ReadyThread(t) /\ todo[t] # <<>> /\ Advance(t) /\ Head(todo[t]) = "start"
  BY DEF Ready, Start, At
<1>3. threadInit[t] /\ local[t] # NoList /\ papiInit
  <2>1. 1 \in DOMAIN todo[t] /\ todo[t][1] = "start"
    BY <1>2, AdvanceStep
  <2>2. QED
    BY <1>2, <2>1 DEF ReadyThread
<1>4. Push(t, Total, "RegionEnter") /\ Total \in AllIds \cup {Total}
  BY DEF Start
<1>5. /\ log' \in [Threads -> Seq(EventType)] /\ \E e : log' = [log EXCEPT ![t] = Append(log[t], e)]
      /\ lists' \in Seq(Seq(EventType)) /\ Len(lists') = Len(lists)
  BY <1>3, <1>4, PushStep DEF EventTypes
<1>6. /\ began' = began /\ entering' = entering /\ open' = open /\ seen' = seen
      /\ threadInit' = threadInit /\ papiInit' = papiInit /\ node' = node /\ local' = local
      /\ atExit' = atExit /\ db' = db /\ strays' = strays /\ exiter' = exiter /\ phase' = phase /\ toDb' = toDb
      /\ toFile' = toFile
  BY DEF Start, init, ending
<1>7. Typed'
  <2>1. todo' \in [Threads -> Seq(StepNames)]
    BY <1>1 DEF Typed
  <2>2. QED
    BY <1>5, <1>6, <2>1, Zenon DEF Typed
<1>8. ReadyThread(t)'
  BY <1>2, <1>3, <1>6, <1>7, AdvanceReady
<1>9. ASSUME NEW u \in Threads, u # t PROVE ReadyThread(u)'
  <2>1. todo'[u] = todo[u] /\ log'[u] = log[u]
    BY <1>1, <1>5, <1>9 DEF Typed
  <2>2. QED
    BY <1>6, <2>1, OthersReady
<1>10. QED
  BY <1>7, <1>8, <1>9 DEF Ready

(* Recording an enter keeps the types.                                     *)
LEMMA RecordTyped ==
  ASSUME Typed, Ready, NEW t \in Threads, Record(t)
  PROVE  Typed' /\ Ready'
<1>1. todo' = [todo EXCEPT ![t] = Tail(todo[t])] /\ Tail(todo[t]) \in Seq(StepNames)
  BY AdvanceStep DEF Record, At
<1>2. ReadyThread(t) /\ todo[t] # <<>> /\ Advance(t) /\ Head(todo[t]) = "record"
  BY DEF Ready, Record, At
<1>3. threadInit[t] /\ local[t] # NoList /\ papiInit /\ entering[t] \in AllIds
  <2>1. 1 \in DOMAIN todo[t] /\ todo[t][1] = "record"
    BY <1>2, AdvanceStep
  <2>2. QED
    BY <1>2, <2>1 DEF ReadyThread
<1>4. Push(t, entering[t], "ScopEnter") /\ entering[t] \in AllIds \cup {Total}
  BY <1>3 DEF Record
<1>5. /\ log' \in [Threads -> Seq(EventType)] /\ \E e : log' = [log EXCEPT ![t] = Append(log[t], e)]
      /\ lists' \in Seq(Seq(EventType)) /\ Len(lists') = Len(lists)
  BY <1>3, <1>4, PushStep DEF EventTypes
<1>6. /\ began' = began /\ seen' = seen /\ threadInit' = threadInit /\ papiInit' = papiInit
      /\ node' = node /\ local' = local
      /\ atExit' = atExit /\ db' = db /\ strays' = strays /\ exiter' = exiter
      /\ phase' = phase /\ toDb' = toDb /\ toFile' = toFile
  BY DEF Record, init, ending
<1>7. /\ open' = [open EXCEPT ![t] = Append(open[t], entering[t])]
      /\ entering' = [entering EXCEPT ![t] = NoId]
  BY DEF Record
<1>8. Typed'
  <2>1. todo' \in [Threads -> Seq(StepNames)]
    BY <1>1 DEF Typed
  <2>2. open' \in [Threads -> Seq(AllIds)] /\ entering' \in [Threads -> AllIds \cup {NoId}]
    BY <1>3, <1>7 DEF Typed
  <2>3. QED
    BY <1>5, <1>6, <2>1, <2>2, Zenon DEF Typed
<1>9. ReadyThread(t)'
  BY <1>2, <1>3, <1>6, <1>8, AdvanceReady
<1>10. ASSUME NEW u \in Threads, u # t PROVE ReadyThread(u)'
  <2>1. todo'[u] = todo[u] /\ log'[u] = log[u] /\ open'[u] = open[u] /\ entering'[u] = entering[u]
    BY <1>1, <1>5, <1>7, <1>10 DEF Typed
  <2>2. QED
    BY <1>6, <2>1, OthersReady
<1>11. QED
  BY <1>8, <1>9, <1>10 DEF Ready

(* A thread that has nothing left to do in the library is as ready as      *)
(* before.                                                                 *)
LEMMA IdleReady ==
  ASSUME Ready, NEW t \in Threads, todo[t] = <<>>, todo'[t] = <<>>, papiInit' = papiInit,
         threadInit'[t] = threadInit[t], local'[t] = local[t],
         open[t] # <<>> \/ log[t] # <<>>
  PROVE  ReadyThread(t)'
<1>1. threadInit[t] /\ local[t] # NoList /\ papiInit
  BY DEF Ready, ReadyThread
<1>2. DOMAIN todo'[t] = {}
  OBVIOUS
<1>3. QED
  BY <1>1, <1>2 DEF ReadyThread

(* Recording an exit keeps the types.                                      *)
LEMMA ExitTyped ==
  ASSUME Typed, Ready, NEW t \in Threads, Exit(t)
  PROVE  Typed' /\ Ready'
<1>1. ReadyThread(t) /\ todo[t] = <<>> /\ open[t] # <<>>
  BY DEF Ready, Exit, InUserCode
<1>2. threadInit[t] /\ local[t] # NoList
  BY <1>1 DEF ReadyThread
<1>3. Last(open[t]) \in AllIds /\ Front(open[t]) \in Seq(AllIds)
  <2>1. open[t] \in Seq(AllIds) /\ Len(open[t]) \in 1..Len(open[t])
    BY <1>1 DEF Typed
  <2>2. QED
    BY <2>1, ElementOfSeq DEF Last, Front
<1>4. Push(t, Last(open[t]), "ScopExit") /\ Last(open[t]) \in AllIds \cup {Total}
  BY <1>3 DEF Exit
<1>5. /\ log' \in [Threads -> Seq(EventType)] /\ \E e : log' = [log EXCEPT ![t] = Append(log[t], e)]
      /\ lists' \in Seq(Seq(EventType)) /\ Len(lists') = Len(lists)
  BY <1>2, <1>4, PushStep DEF EventTypes
<1>6. /\ began' = began /\ todo' = todo /\ entering' = entering /\ seen' = seen
      /\ threadInit' = threadInit /\ papiInit' = papiInit /\ node' = node /\ local' = local
      /\ atExit' = atExit /\ db' = db /\ strays' = strays /\ exiter' = exiter /\ phase' = phase /\ toDb' = toDb
      /\ toFile' = toFile
  BY DEF Exit, init, ending
<1>7. open' = [open EXCEPT ![t] = Front(open[t])]
  BY DEF Exit
<1>8. Typed'
  <2>1. open' \in [Threads -> Seq(AllIds)]
    BY <1>3, <1>7 DEF Typed
  <2>2. QED
    BY <1>5, <1>6, <2>1, Zenon DEF Typed
<1>9. ReadyThread(t)'
  BY <1>1, <1>6, IdleReady
<1>10. ASSUME NEW u \in Threads, u # t PROVE ReadyThread(u)'
  <2>1. log'[u] = log[u] /\ open'[u] = open[u]
    BY <1>5, <1>7, <1>10 DEF Typed
  <2>2. QED
    BY <1>6, <2>1, OthersReady
<1>11. QED
  BY <1>8, <1>9, <1>10 DEF Ready

(* Recording an exit without an enter keeps the types.                     *)
LEMMA StrayTyped ==
  ASSUME Typed, Ready, NEW t \in Threads, NEW id \in Ids[t], Stray(t, id)
  PROVE  Typed' /\ Ready'
<1>1. ReadyThread(t) /\ todo[t] = <<>> /\ local[t] # NoList
  BY DEF Ready, Stray, InUserCode
<1>2. id \in AllIds
  BY Assumptions DEF AllIds
<1>3. Push(t, id, "ScopExit") /\ id \in AllIds \cup {Total}
  BY <1>2 DEF Stray
<1>4. /\ log' \in [Threads -> Seq(EventType)] /\ \E e : log' = [log EXCEPT ![t] = Append(log[t], e)]
      /\ lists' \in Seq(Seq(EventType)) /\ Len(lists') = Len(lists)
  BY <1>1, <1>3, PushStep DEF EventTypes
<1>5. /\ began' = began /\ todo' = todo /\ entering' = entering /\ open' = open /\ seen' = seen
      /\ threadInit' = threadInit /\ papiInit' = papiInit /\ node' = node /\ local' = local
      /\ atExit' = atExit /\ db' = db /\ exiter' = exiter /\ phase' = phase /\ toDb' = toDb
      /\ toFile' = toFile
  BY DEF Stray, init, ending
<1>6. Typed'
  <2>1. strays' \in [Threads -> Nat]
    BY DEF Stray, Typed
  <2>2. QED
    BY <1>4, <1>5, <2>1, Zenon DEF Typed
<1>7. ReadyThread(t)'
  <2>1. threadInit[t] /\ papiInit
    BY <1>1 DEF ReadyThread
  <2>2. DOMAIN todo[t] = {}
    BY <1>1
  <2>3. QED
    BY <1>1, <1>5, <2>1, <2>2 DEF ReadyThread
<1>8. ASSUME NEW u \in Threads, u # t PROVE ReadyThread(u)'
  <2>1. log'[u] = log[u]
    BY <1>4, <1>8 DEF Typed
  <2>2. QED
    BY <1>5, <2>1, OthersReady
<1>9. QED
  BY <1>6, <1>7, <1>8 DEF Ready

(* A thread that unwinds keeps the types.                                  *)
LEMMA UnwindTyped ==
  ASSUME Typed, Ready, NEW t \in Threads, Unwind(t)
  PROVE  Typed' /\ Ready'
<1>1. ReadyThread(t) /\ todo[t] = <<>> /\ open[t] # <<>>
  BY DEF Ready, Unwind, InUserCode
<1>2. Front(open[t]) \in Seq(AllIds)
  <2>1. open[t] \in Seq(AllIds) /\ Len(open[t]) \in 1..Len(open[t])
    BY <1>1 DEF Typed
  <2>2. QED
    BY <2>1, ElementOfSeq DEF Front
<1>3. /\ began' = began /\ todo' = todo /\ entering' = entering /\ seen' = seen
      /\ threadInit' = threadInit /\ papiInit' = papiInit /\ node' = node /\ local' = local
      /\ atExit' = atExit /\ db' = db /\ strays' = strays /\ lists' = lists /\ exiter' = exiter /\ phase' = phase
      /\ toDb' = toDb /\ toFile' = toFile /\ log' = log
  BY DEF Unwind, init, ending
<1>4. open' = [open EXCEPT ![t] = Front(open[t])]
  BY DEF Unwind
<1>5. Typed'
  <2>1. open' \in [Threads -> Seq(AllIds)]
    BY <1>2, <1>4 DEF Typed
  <2>2. QED
    BY <1>3, <2>1, Zenon DEF Typed
<1>6. ReadyThread(t)'
  BY <1>1, <1>3, IdleReady
<1>7. ASSUME NEW u \in Threads, u # t PROVE ReadyThread(u)'
  <2>1. open'[u] = open[u]
    BY <1>4, <1>7 DEF Typed
  <2>2. QED
    BY <1>3, <2>1, OthersReady
<1>8. QED
  BY <1>5, <1>6, <1>7 DEF Ready

(* A thread begins a call of the library.                                  *)
LEMMA EnterTyped ==
  ASSUME Typed, Ready, NEW t \in Threads, NEW id \in Ids[t], Enter(t, id)
  PROVE  Typed' /\ Ready'
<1>1. id \in AllIds
  BY Assumptions DEF AllIds
<1>2. PICK c : c = ThreadInitOnce(t) \o <<"record">>
  OBVIOUS
<1>3. /\ threadInit[t] <=> local[t] # NoList
      /\ threadInit[t] => papiInit
      /\ open[t] # <<>> \/ log[t] # <<>> => threadInit[t]
      /\ papiInit \in BOOLEAN /\ threadInit[t] \in BOOLEAN
  BY DEF Ready, ReadyThread, Typed
<1>4. WellFormed(c, threadInit[t]) /\ c # <<>> /\ (papiInit \/ Head(c) = "flag")
  BY <1>2, <1>3, EnterWellFormed
<1>5. todo' = [todo EXCEPT ![t] = c] /\ entering' = [entering EXCEPT ![t] = id]
  BY <1>2 DEF Enter
<1>6. /\ began' = began /\ open' = open /\ seen' = seen /\ threadInit' = threadInit
      /\ papiInit' = papiInit /\ node' = node /\ local' = local
      /\ atExit' = atExit /\ db' = db /\ strays' = strays
      /\ lists' = lists /\ exiter' = exiter /\ phase' = phase /\ toDb' = toDb /\ toFile' = toFile
      /\ log' = log
  BY DEF Enter, init, ending
<1>7. Typed'
  <2>1. todo' \in [Threads -> Seq(StepNames)] /\ entering' \in [Threads -> AllIds \cup {NoId}]
    BY <1>1, <1>4, <1>5 DEF Typed, WellFormed
  <2>2. QED
    BY <1>6, <2>1, Zenon DEF Typed
<1>8. ReadyThread(t)'
  <2>1. todo'[t] = c /\ entering'[t] = id
    BY <1>5 DEF Typed
  <2>2. QED
    BY <1>1, <1>3, <1>4, <1>6, <2>1 DEF ReadyThread, WellFormed
<1>9. ASSUME NEW u \in Threads, u # t PROVE ReadyThread(u)'
  <2>1. todo'[u] = todo[u] /\ entering'[u] = entering[u]
    BY <1>5, <1>9 DEF Typed
  <2>2. QED
    BY <1>6, <2>1, OthersReady
<1>10. QED
  BY <1>7, <1>8, <1>9 DEF Ready

(* The beginning of main keeps the types.                                  *)
LEMMA MainBeginsTyped ==
  ASSUME Typed, Ready, MainBegins
  PROVE  Typed' /\ Ready'
<1>1. Main \in Threads
  BY Assumptions
<1>2. PICK c : c = Setup(Main)
  OBVIOUS
<1>3. /\ threadInit[Main] <=> local[Main] # NoList
      /\ threadInit[Main] => papiInit
      /\ open[Main] # <<>> \/ log[Main] # <<>> => threadInit[Main]
  BY <1>1 DEF Ready, ReadyThread
<1>4. /\ WellFormed(c, threadInit[Main]) /\ c # <<>> /\ Head(c) = "flag"
      /\ \A i \in DOMAIN c : c[i] # "record"
  BY <1>1, <1>2, SetupWellFormed
<1>5. todo' = [todo EXCEPT ![Main] = c] /\ began' = TRUE
  BY <1>2 DEF MainBegins
<1>6. /\ entering' = entering /\ open' = open /\ seen' = seen /\ threadInit' = threadInit
      /\ papiInit' = papiInit /\ node' = node /\ local' = local
      /\ atExit' = atExit /\ db' = db /\ strays' = strays
      /\ lists' = lists /\ exiter' = exiter /\ phase' = phase /\ toDb' = toDb /\ toFile' = toFile
      /\ log' = log
  BY DEF MainBegins, init, ending
<1>7. Typed'
  <2>1. todo' \in [Threads -> Seq(StepNames)] /\ began' \in BOOLEAN
    BY <1>4, <1>5 DEF Typed, WellFormed
  <2>2. QED
    BY <1>6, <2>1, Zenon DEF Typed
<1>8. ReadyThread(Main)'
  <2>1. todo'[Main] = c
    BY <1>1, <1>5 DEF Typed
  <2>2. QED
    BY <1>3, <1>4, <1>6, <2>1 DEF ReadyThread, WellFormed
<1>9. ASSUME NEW u \in Threads, u # Main PROVE ReadyThread(u)'
  <2>1. todo'[u] = todo[u]
    BY <1>5, <1>9 DEF Typed
  <2>2. QED
    BY <1>6, <2>1, OthersReady
<1>10. QED
  BY <1>7, <1>8, <1>9 DEF Ready

(* The steps of exit that only change its own state, and the faults.       *)
LEMMA PhaseTyped ==
  ASSUME Typed, Ready, began' = began, todo' = todo, entering' = entering, open' = open,
         seen' = seen, threadInit' = threadInit, papiInit' = papiInit, node' = node,
         local' = local, strays' = strays, lists' = lists, toDb' = toDb, toFile' = toFile,
         log' = log, atExit' \in Seq({"handler", "destructor"}),
         db' \in {"none", "open", "closed"}, exiter' \in Threads \cup {NoThread},
         phase' \in {"running", "exit", "copy", "store", "clear", "over", "fault", "closed"}
  PROVE  Typed' /\ Ready'
<1>1. Typed'
  BY Zenon DEF Typed
<1>2. QED
  BY <1>1, OthersReady DEF Ready

(* Leaving the program, and the faults of other threads, change no list.   *)
LEMMA ExitsTyped ==
  ASSUME Typed, Ready, NEW t \in Threads, ProcessExits(t) \/ CopyFault(t) \/ StrayFault(t)
  PROVE  Typed' /\ Ready'
<1>1. exiter' \in {t, exiter} /\ phase' \in {"exit", "fault"} /\ atExit' = atExit /\ db' = db
  BY DEF ProcessExits, CopyFault, StrayFault
<1>2. /\ began' = began /\ todo' = todo /\ entering' = entering /\ open' = open /\ seen' = seen
      /\ threadInit' = threadInit /\ papiInit' = papiInit /\ node' = node /\ local' = local
      /\ strays' = strays /\ lists' = lists /\ toDb' = toDb /\ toFile' = toFile /\ log' = log
  BY DEF ProcessExits, CopyFault, StrayFault, calls, init
<1>3. exiter' \in Threads \cup {NoThread} /\ atExit' \in Seq({"handler", "destructor"})
      /\ db' \in {"none", "open", "closed"}
  BY <1>1 DEF Typed
<1>4. phase' \in {"running", "exit", "copy", "store", "clear", "over", "fault", "closed"}
  BY <1>1
<1>5. QED
  BY <1>2, <1>3, <1>4, PhaseTyped

(* What is left for exit to run.                                           *)
LEMMA FrontAtExit ==
  ASSUME Typed, atExit # <<>>
  PROVE  Front(atExit) \in Seq({"handler", "destructor"})
<1>1. atExit \in Seq({"handler", "destructor"})
  BY DEF Typed
<1>2. QED
  BY <1>1 DEF Front

(* The steps of exit that change no list only move on, the destructor closes *)
(* the connection.                                                         *)
LEMMA CopyTyped ==
  ASSUME Typed, Ready, Copy \/ Disconnect \/ ProcessEnds \/ StoreFault \/ NoConnection
  PROVE  Typed' /\ Ready'
<1>1. /\ began' = began /\ todo' = todo /\ entering' = entering /\ open' = open /\ seen' = seen
      /\ threadInit' = threadInit /\ papiInit' = papiInit /\ node' = node /\ local' = local
      /\ strays' = strays /\ lists' = lists /\ exiter' = exiter /\ toDb' = toDb
      /\ toFile' = toFile /\ log' = log
  BY DEF Copy, Disconnect, ProcessEnds, StoreFault, NoConnection, calls, init
<1>2. phase' \in {"running", "exit", "copy", "store", "clear", "over", "fault", "closed"}
  BY DEF Copy, Disconnect, ProcessEnds, StoreFault, NoConnection, Typed
<1>3. db' \in {"none", "open", "closed"}
  BY DEF Copy, Disconnect, ProcessEnds, StoreFault, NoConnection, Typed
<1>4. atExit' \in Seq({"handler", "destructor"})
  <2>1. atExit' = atExit \/ (atExit # <<>> /\ atExit' = Front(atExit))
    BY DEF Copy, Disconnect, ProcessEnds, StoreFault, NoConnection, Handles
  <2>2. QED
    BY <2>1, FrontAtExit DEF Typed
<1>5. exiter' \in Threads \cup {NoThread}
  BY <1>1 DEF Typed
<1>6. QED
  BY <1>1, <1>2, <1>3, <1>4, <1>5, PhaseTyped

(* The handler's exit of the total keeps the types.                        *)
LEMMA StopTyped ==
  ASSUME Typed, Ready, Exiting, Stop
  PROVE  Typed' /\ Ready'
<1>1. /\ began' = began /\ todo' = todo /\ entering' = entering /\ open' = open /\ seen' = seen
      /\ threadInit' = threadInit /\ papiInit' = papiInit /\ node' = node /\ local' = local
      /\ db' = db /\ strays' = strays /\ exiter' = exiter /\ toDb' = toDb /\ toFile' = toFile
  BY DEF Stop, calls, init
<1>2. atExit' \in Seq({"handler", "destructor"})
  BY FrontAtExit DEF Stop, Handles
<1>3. CASE ~ExecuteAtexit \/ local[exiter] = NoList
  <2>1. lists' = lists /\ log' = log /\ phase' \in {phase, "fault"}
    BY <1>3 DEF Stop
  <2>2. Typed'
    <3>1. phase' \in {"running", "exit", "copy", "store", "clear", "over", "fault", "closed"}
      BY <2>1 DEF Typed
    <3>2. QED
      BY <1>1, <1>2, <2>1, <3>1, Zenon DEF Typed
  <2>3. QED
    BY <1>1, <2>1, <2>2, OthersReady DEF Ready
<1>4. CASE ExecuteAtexit /\ local[exiter] # NoList
  <2>1. phase' = "copy" /\ Push(exiter, Total, "RegionExit") /\ Total \in AllIds \cup {Total}
    BY <1>4 DEF Stop
  <2>2. /\ log' \in [Threads -> Seq(EventType)]
        /\ \E e : log' = [log EXCEPT ![exiter] = Append(log[exiter], e)]
        /\ lists' \in Seq(Seq(EventType)) /\ Len(lists') = Len(lists)
    <3>1. exiter \in Threads
      BY DEF Typed, Exiting, Stop, Handles
    <3>2. QED
      BY <1>4, <2>1, <3>1, PushStep DEF EventTypes
  <2>3. Typed'
    BY <1>1, <1>2, <2>1, <2>2, Zenon DEF Typed
  <2>4. exiter \in Threads /\ todo[exiter] = <<>>
    BY DEF Typed, Exiting, Stop, Handles
  <2>5. ReadyThread(exiter)'
    <3>1. threadInit[exiter] /\ papiInit
      BY <1>4, <2>4 DEF Ready, ReadyThread
    <3>2. DOMAIN todo[exiter] = {}
      BY <2>4
    <3>3. QED
      BY <1>1, <1>4, <2>4, <3>1, <3>2 DEF ReadyThread
  <2>6. ASSUME NEW u \in Threads, u # exiter PROVE ReadyThread(u)'
    <3>1. log'[u] = log[u]
      BY <2>2, <2>6 DEF Typed
    <3>2. QED
      BY <1>1, <3>1, OthersReady
  <2>7. QED
    BY <1>1, <2>3, <2>5, <2>6 DEF Ready
<1>5. QED
  BY <1>3, <1>4

(* Storing a run keeps the types.                                          *)
LEMMA StoreTyped ==
  ASSUME Typed, Ready, Exiting, Store
  PROVE  Typed' /\ Ready'
<1>1. /\ began' = began /\ todo' = todo /\ entering' = entering /\ open' = open /\ seen' = seen
      /\ threadInit' = threadInit /\ papiInit' = papiInit /\ local' = local
      /\ strays' = strays /\ exiter' = exiter /\ log' = log /\ phase' = "clear"
  BY DEF Store, calls
<1>2. exiter \in Threads /\ Len(lists) \in Nat
  BY DEF Typed, Exiting, Store
<1>3. /\ lists' \in Seq(Seq(EventType)) /\ Len(lists') \in Nat /\ Len(lists) <= Len(lists')
      /\ node' \in [Threads -> 0..Len(lists')]
      /\ UseDb => node'[exiter] \in 1..Len(lists')
  <2>1. CASE UseDb /\ exiter \notin Nodes
    <3>1. lists' = Append(lists, <<>>) /\ node' = [node EXCEPT ![exiter] = Len(lists')]
      BY <2>1 DEF Store
    <3>2. lists' \in Seq(Seq(EventType)) /\ Len(lists') = Len(lists) + 1
      BY <3>1 DEF Typed
    <3>3. node' \in [Threads -> 0..Len(lists')]
      <4>1. /\ node \in [Threads -> 0..Len(lists)] /\ Len(lists') \in 0..Len(lists')
            /\ \A n \in 0..Len(lists) : n \in 0..Len(lists')
        BY <1>2, <3>2 DEF Typed
      <4>2. QED
        BY <3>1, <4>1
    <3>4. node'[exiter] = Len(lists')
      BY <1>2, <3>1 DEF Typed
    <3>5. QED
      BY <1>2, <3>2, <3>3, <3>4
  <2>2. CASE ~(UseDb /\ exiter \notin Nodes)
    <3>1. lists' = lists /\ node' = node
      BY <2>2 DEF Store
    <3>2. UseDb => node[exiter] # NoList
      BY <1>2, <2>2 DEF Nodes
    <3>3. QED
      BY <1>2, <3>1, <3>2 DEF Typed, NoList
  <2>3. QED
    BY <2>1, <2>2
<1>4. toDb' \in Seq(Seq(EventType))
  <2>1. CASE UseDb
    <3>1. toDb' = Append(toDb, lists'[node'[exiter]])
      BY <2>1 DEF Store, ListIn
    <3>2. lists'[node'[exiter]] \in Seq(EventType)
      BY <1>3, <2>1, ElementOfSeq
    <3>3. QED
      BY <3>1, <3>2 DEF Typed
  <2>2. CASE ~UseDb
    BY <2>2 DEF Store, Typed
  <2>3. QED
    BY <2>1, <2>2
<1>5. toFile' \in Seq(Seq(EventType))
  <2>1. <<>> \in Seq(EventType)
    OBVIOUS
  <2>2. QED
    BY <2>1 DEF Store, FileStoreRun, PapiEvents, Typed
<1>6. /\ seen' \in [Threads -> [Threads -> 0..Len(lists')]]
      /\ local' \in [Threads -> 0..Len(lists')]
  <2>1. \A n \in 0..Len(lists) : n \in 0..Len(lists')
    BY <1>2, <1>3
  <2>2. local \in [Threads -> 0..Len(lists')]
    BY <2>1 DEF Typed
  <2>3. ASSUME NEW u \in Threads PROVE seen[u] \in [Threads -> 0..Len(lists')]
    BY <2>1 DEF Typed
  <2>4. seen \in [Threads -> [Threads -> 0..Len(lists')]]
    BY <2>3 DEF Typed
  <2>5. QED
    BY <1>1, <2>2, <2>4
<1>7. atExit' \in Seq({"handler", "destructor"}) /\ db' \in {"none", "open", "closed"}
  <2>1. atExit \in Seq({"handler", "destructor"}) /\ "destructor" \in {"handler", "destructor"}
    BY DEF Typed
  <2>2. Append(atExit, "destructor") \in Seq({"handler", "destructor"})
    BY <2>1
  <2>3. atExit' \in {atExit, Append(atExit, "destructor")}
    BY DEF Store, Connect
  <2>4. db' \in {"none", "open", "closed"}
    BY DEF Store, Typed
  <2>5. QED
    BY <2>1, <2>2, <2>3, <2>4
<1>8. Typed'
  BY <1>1, <1>3, <1>4, <1>5, <1>6, <1>7, Zenon DEF Typed
<1>9. QED
  BY <1>1, <1>8, OthersReady DEF Ready

(* Clearing the list keeps the types.                                      *)
LEMMA ClearTyped ==
  ASSUME Typed, Ready, Exiting, Clear
  PROVE  Typed' /\ Ready'
<1>1. /\ began' = began /\ todo' = todo /\ entering' = entering /\ open' = open /\ seen' = seen
      /\ threadInit' = threadInit /\ papiInit' = papiInit /\ node' = node /\ local' = local
      /\ strays' = strays /\ atExit' = atExit /\ db' = db /\ exiter' = exiter
      /\ toDb' = toDb /\ toFile' = toFile /\ log' = log
  BY DEF Clear, calls, init
<1>2. phase' = "exit"
  BY DEF Clear
<1>3. lists' \in Seq(Seq(EventType)) /\ Len(lists') = Len(lists)
  <2>1. lists' = [lists EXCEPT ![local[exiter]] = <<>>]
    BY DEF Clear
  <2>2. <<>> \in Seq(EventType) /\ local[exiter] \in DOMAIN lists
    BY DEF Typed, Exiting, Clear, NoList
  <2>3. lists \in Seq(Seq(EventType))
    BY DEF Typed
  <2>4. QED
    BY <2>1, <2>2, <2>3, ExceptSeq
<1>4. Typed'
  BY <1>1, <1>2, <1>3, Zenon DEF Typed
<1>5. QED
  BY <1>1, <1>4, OthersReady DEF Ready

(* A list is never taken away from a thread, and the exiting thread stays  *)
(* in the handler.                                                         *)
LEMMA ExitingStep ==
  ASSUME Typed, Ready, Exiting, Typed', [Next]_vars
  PROVE  Exiting'
<1>1. CASE UNCHANGED vars
  BY <1>1 DEF Exiting, vars, calls, init, ending
<1>2. CASE MainBegins
  <2>1. Main \in Threads
    BY Assumptions
  <2>2. local' = local /\ exiter' = exiter /\ phase' = phase
    BY <1>2 DEF MainBegins, init, ending
  <2>3. exiter # Main /\ todo' = [todo EXCEPT ![Main] = Setup(Main)]
    BY <1>2 DEF MainBegins, InUserCode, Runs
  <2>4. exiter # NoThread => todo'[exiter] = todo[exiter]
    BY <2>3 DEF Typed
  <2>5. QED
    BY <2>2, <2>4 DEF Exiting
<1>3. CASE ExitStep
  <2>1. /\ todo' = todo /\ local' = local /\ exiter' = exiter
        /\ phase \in {"exit", "copy", "store", "clear"}
    BY <1>3 DEF ExitStep, Stop, Handles, Copy, Store, StoreFault, NoConnection, Clear, Disconnect,
                ProcessEnds, calls, init
  <2>2. /\ phase' \in {"exit", "copy", "store", "clear", "over", "fault", "closed"}
        /\ phase' \in {"copy", "store", "clear"} => local[exiter] # NoList
    <3>1. CASE Stop
      BY <3>1 DEF Stop, Handles
    <3>2. CASE Disconnect
      BY <3>2 DEF Disconnect, Handles
    <3>3. CASE ProcessEnds \/ Copy \/ Store \/ StoreFault \/ NoConnection \/ Clear
      BY <3>3 DEF ProcessEnds, Copy, Store, StoreFault, NoConnection, Clear, Exiting
    <3>4. QED
      BY <1>3, <3>1, <3>2, <3>3 DEF ExitStep
  <2>3. exiter # NoThread
    BY <2>1 DEF Exiting
  <2>4. QED
    BY <2>1, <2>2, <2>3 DEF Exiting
<1>4. ASSUME NEW t \in Threads, ThreadStep(t) PROVE Exiting'
  <2>1. CASE ProcessExits(t)
    <3>1. /\ todo' = todo /\ exiter' = t /\ todo[t] = <<>> /\ phase' = "exit"
      BY <2>1 DEF ProcessExits, InUserCode, calls
    <3>2. t # NoThread
      BY Assumptions DEF NoThread
    <3>3. QED
      BY <3>1, <3>2 DEF Exiting
  <2>2. CASE CopyFault(t) \/ StrayFault(t)
    BY <2>2 DEF CopyFault, StrayFault, Exiting, calls, init
  <2>3. CASE ~ProcessExits(t) /\ ~CopyFault(t) /\ ~StrayFault(t)
    <3>1. exiter # t /\ exiter' = exiter /\ phase' = phase
      BY <1>4, <2>3 DEF ThreadStep, SetFlag, Search, Link, Register, Start, Record, Exit, Unwind,
                     Stray, Enter, At, InUserCode, Runs, ending
    <3>2. exiter # NoThread => todo'[exiter] = todo[exiter]
      <4>1. todo' = todo \/ \E q : todo' = [todo EXCEPT ![t] = q]
        BY <1>4, <2>3 DEF ThreadStep, SetFlag, Search, Link, Register, Start, Record, Exit, Unwind,
                       Stray, Enter, Advance
      <4>2. QED
        BY <3>1, <4>1 DEF Typed
    <3>3. exiter # NoThread => local'[exiter] = local[exiter]
      <4>1. local' = local \/ \E l : local' = [local EXCEPT ![t] = l]
        BY <1>4, <2>3 DEF ThreadStep, SetFlag, Search, Link, Register, Start, Record, Exit, Unwind,
                       Stray, Enter, init
      <4>2. QED
        BY <3>1, <4>1 DEF Typed
    <3>4. exiter = NoThread => phase \in {"running", "fault"}
      BY DEF Exiting
    <3>5. QED
      BY <3>1, <3>2, <3>3, <3>4 DEF Exiting
  <2>4. QED
    BY <2>1, <2>2, <2>3
<1>5. QED
  BY <1>1, <1>2, <1>3, <1>4 DEF Next

(* The types hold in the beginning.                                        *)
LEMMA TypedInit ==
  ASSUME Init
  PROVE  Typed /\ Ready /\ Exiting
<1>1. Typed
  <2>1. Len(lists) = 0
    BY DEF Init
  <2>2. Nothing \in [Threads -> 0..Len(lists)]
    BY <2>1 DEF Nothing, NoList
  <2>3. /\ lists \in Seq(Seq(EventType)) /\ toDb \in Seq(Seq(EventType))
        /\ toFile \in Seq(Seq(EventType)) /\ began \in BOOLEAN /\ papiInit \in BOOLEAN
        /\ exiter \in Threads \cup {NoThread} /\ atExit \in Seq({"handler", "destructor"})
        /\ db \in {"none", "open", "closed"}
        /\ phase \in {"running", "exit", "copy", "store", "clear", "over", "fault", "closed"}
    <3>1. <<>> \in Seq(Seq(EventType))
      OBVIOUS
    <3>2. lists \in Seq(Seq(EventType)) /\ toDb \in Seq(Seq(EventType)) /\ toFile \in Seq(Seq(EventType))
      BY <3>1, Zenon DEF Init
    <3>3. /\ exiter \in Threads \cup {NoThread} /\ atExit \in Seq({"handler", "destructor"})
          /\ db \in {"none", "open", "closed"}
      BY DEF Init
    <3>4. began \in BOOLEAN /\ papiInit \in BOOLEAN
          /\ phase \in {"running", "exit", "copy", "store", "clear", "over", "fault", "closed"}
      BY Zenon DEF Init
    <3>5. QED
      BY <3>2, <3>3, <3>4, Zenon
  <2>4. /\ todo \in [Threads -> Seq(StepNames)] /\ entering \in [Threads -> AllIds \cup {NoId}]
        /\ open \in [Threads -> Seq(AllIds)] /\ threadInit \in [Threads -> BOOLEAN]
        /\ log \in [Threads -> Seq(EventType)] /\ strays \in [Threads -> Nat]
    BY DEF Init
  <2>5. /\ node \in [Threads -> 0..Len(lists)] /\ local \in [Threads -> 0..Len(lists)]
        /\ seen \in [Threads -> [Threads -> 0..Len(lists)]]
    BY <2>2 DEF Init
  <2>6. QED
    BY <2>3, <2>4, <2>5, Zenon DEF Typed
<1>2. Ready
  BY DEF Init, Ready, ReadyThread, Nothing, NoList
<1>3. Exiting
  BY DEF Init, Exiting
<1>4. QED
  BY <1>1, <1>2, <1>3

(* Every step keeps the types.                                             *)
LEMMA TypedStep ==
  ASSUME Typed, Ready, Exiting, [Next]_vars
  PROVE  Typed' /\ Ready' /\ Exiting'
<1>1. CASE UNCHANGED vars
  <2>1. /\ began' = began /\ todo' = todo /\ entering' = entering /\ open' = open /\ seen' = seen
        /\ threadInit' = threadInit /\ papiInit' = papiInit /\ node' = node /\ local' = local
        /\ atExit' = atExit /\ db' = db /\ strays' = strays /\ lists' = lists /\ exiter' = exiter /\ phase' = phase
        /\ toDb' = toDb /\ toFile' = toFile /\ log' = log
    BY <1>1 DEF vars, calls, init, ending
  <2>2. Typed'
    BY <2>1, Zenon DEF Typed
  <2>3. Ready'
    BY <2>1, OthersReady DEF Ready
  <2>4. QED
    BY <2>2, <2>3, ExitingStep
<1>2. ASSUME NEW t \in Threads, ThreadStep(t) PROVE Typed' /\ Ready'
  BY <1>2, SetFlagTyped, SearchTyped, LinkTyped, RegisterTyped, StartTyped, RecordTyped, ExitTyped,
     UnwindTyped, StrayTyped, ExitsTyped, EnterTyped DEF ThreadStep
<1>3. CASE Next
  <2>1. Typed' /\ Ready'
    BY <1>2, <1>3, MainBeginsTyped, StopTyped, CopyTyped, StoreTyped, ClearTyped
       DEF Next, ExitStep
  <2>2. QED
    BY <2>1, ExitingStep
<1>4. QED
  BY <1>1, <1>3

(***************************************************************************)
(* In every reachable state the variables have their types; in particular  *)
(* a thread that has recorded has a list of its own, whoever set up the    *)
(* library and whichever nodes of the map were lost in a race.             *)
(***************************************************************************)
THEOREM TypeCorrect == Spec => []TypeOK
<1>1. Init => Typed /\ Ready /\ Exiting
  BY TypedInit
<1>2. Typed /\ Ready /\ Exiting /\ [Next]_vars => (Typed /\ Ready /\ Exiting)'
  BY TypedStep
<1>3. Typed /\ Ready /\ Exiting => TypeOK
  <2>1. ASSUME Ready, NEW t \in Threads, log[t] # <<>> PROVE local[t] # NoList
    BY <2>1 DEF Ready, ReadyThread
  <2>2. QED
    BY <2>1 DEF Typed, TypeOK, StepNames
<1>4. QED
  BY <1>1, <1>2, <1>3, PTL DEF Spec

-----------------------------------------------------------------------------
List(t) == lists[local[t]]

(* No two threads have the same list. The map has a thread's own list or   *)
(* none, unless the exit handler has linked a spare one, to which nobody   *)
(* appends; and a thread about to link has seen its own list or none.      *)
Spare(t) ==
  /\ t = exiter /\ node[t] \in DOMAIN lists /\ lists[node[t]] = <<>>
  /\ \A u \in Threads : local[u] # node[t]
Own ==
  /\ \A t, u \in Threads : t # u /\ local[t] # NoList => local[t] # local[u]
  /\ \A t \in Threads : node[t] \in {NoList, local[t]} \/ Spare(t)
  /\ \A t \in Threads : seen[t][t] \in {NoList, local[t]}

(* Every list keeps its owner if no thread gets another list, and none is  *)
(* changed but some thread's own.                                          *)
LEMMA OwnKept ==
  ASSUME Typed, Own, local' = local, node' = node, exiter' = exiter \/ exiter = NoThread,
         \A t \in Threads : seen'[t][t] \in {NoList, local[t]},
         NEW t \in Threads, NEW l,
         lists' = lists \/ (local[t] # NoList /\ lists' = [lists EXCEPT ![local[t]] = l])
  PROVE  Own'
<1>1. NoThread \notin Threads
  BY Assumptions DEF NoThread
<1>2. ASSUME NEW u \in Threads, Spare(u) PROVE Spare(u)'
  <2>1. exiter' = exiter /\ u = exiter
    BY <1>1, <1>2 DEF Spare
  <2>2. node[u] \in DOMAIN lists /\ lists[node[u]] = <<>> /\ local[t] # node[u]
    BY <1>2 DEF Spare
  <2>3. DOMAIN lists' = DOMAIN lists /\ lists'[node[u]] = lists[node[u]]
    BY <2>2 DEF Typed
  <2>4. QED
    BY <1>2, <2>1, <2>2, <2>3 DEF Spare
<1>3. QED
  BY <1>2 DEF Own

(* A thread that links a list it has not seen gets a new one.              *)
LEMMA OwnLinked ==
  ASSUME Typed, Own, NEW t \in Threads, t # exiter, exiter' = exiter,
         lists' = Append(lists, <<>>), local' = [local EXCEPT ![t] = Len(lists')],
         NEW map, map \in {node, Undone(t)}, node' = [map EXCEPT ![t] = Len(lists')],
         seen' = [seen EXCEPT ![t] = Nothing]
  PROVE  Own'
<1>1. PICK n : n = Len(lists) + 1
  OBVIOUS
<1>2. /\ Len(lists') = n /\ Len(lists) \in Nat /\ n \in Nat /\ DOMAIN lists = 1..Len(lists)
      /\ DOMAIN lists' = 1..n /\ \A i \in 1..Len(lists) : lists'[i] = lists[i]
  BY <1>1 DEF Typed
<1>3. local' = [local EXCEPT ![t] = n] /\ node' = [map EXCEPT ![t] = n]
  BY <1>2
<1>4. ASSUME NEW u \in Threads PROVE local[u] \in 0..Len(lists) /\ local[u] # n
  BY <1>1, <1>2 DEF Typed
<1>5. ASSUME NEW u \in Threads, u # t PROVE node'[u] \in {NoList, node[u]} /\ node[u] \in 0..Len(lists)
  BY <1>3, <1>5 DEF Typed, Undone
<1>6. local'[t] = n /\ node'[t] = n /\ \A u \in Threads : u # t => local'[u] = local[u]
  BY <1>3 DEF Typed, Undone
<1>7. \A u, v \in Threads : u # v /\ local'[u] # NoList => local'[u] # local'[v]
  BY <1>4, <1>6 DEF Own
<1>8. ASSUME NEW u \in Threads PROVE node'[u] \in {NoList, local'[u]} \/ Spare(u)'
  <2>1. CASE u = t
    BY <1>6, <2>1
  <2>2. CASE u # t /\ node'[u] # NoList
    <3>1. node'[u] = node[u] /\ local'[u] = local[u] /\ node[u] \in 0..Len(lists)
      BY <1>5, <1>6, <2>2
    <3>2. CASE node[u] = local[u]
      BY <3>1, <3>2
    <3>3. CASE Spare(u)
      <4>1. node[u] \in 1..Len(lists) /\ lists'[node[u]] = <<>>
        BY <1>2, <3>3 DEF Spare
      <4>2. node[u] \in DOMAIN lists' /\ node[u] # n
        BY <1>1, <1>2, <4>1
      <4>3. \A v \in Threads : local'[v] # node[u]
        BY <1>6, <3>3, <4>2 DEF Spare
      <4>4. QED
        BY <3>1, <3>3, <4>1, <4>2, <4>3 DEF Spare
    <3>4. QED
      BY <2>2, <3>1, <3>2, <3>3 DEF Own
  <2>3. QED
    BY <2>1, <2>2
<1>9. ASSUME NEW u \in Threads PROVE seen'[u][u] \in {NoList, local'[u]}
  <2>1. CASE u = t
    BY <2>1 DEF Typed, Nothing
  <2>2. CASE u # t
    BY <1>6, <2>2 DEF Typed, Own
  <2>3. QED
    BY <2>1, <2>2
<1>10. QED
  BY <1>7, <1>8, <1>9 DEF Own

(* The exit handler links a spare list if the map has lost the thread's.   *)
LEMMA OwnStored ==
  ASSUME Typed, Own, exiter \in Threads, exiter' = exiter,
         lists' = Append(lists, <<>>), local' = local, seen' = seen,
         node' = [node EXCEPT ![exiter] = Len(lists')]
  PROVE  Own'
<1>1. PICK n : n = Len(lists) + 1
  OBVIOUS
<1>2. /\ Len(lists') = n /\ Len(lists) \in Nat /\ n \in Nat /\ DOMAIN lists' = 1..n
      /\ lists'[n] = <<>>
  BY <1>1 DEF Typed
<1>3. node'[exiter] = n /\ \A u \in Threads : u # exiter => node'[u] = node[u]
  BY <1>2 DEF Typed
<1>4. ASSUME NEW u \in Threads PROVE local[u] # n
  BY <1>1, <1>2 DEF Typed
<1>5. ASSUME NEW u \in Threads PROVE node'[u] \in {NoList, local'[u]} \/ Spare(u)'
  <2>1. CASE u = exiter
    BY <1>2, <1>3, <1>4, <2>1 DEF Spare
  <2>2. CASE u # exiter
    BY <1>3, <2>2 DEF Own, Spare
  <2>3. QED
    BY <2>1, <2>2
<1>6. QED
  BY <1>5 DEF Own

(* A thread that records has a list.                                       *)
LEMMA Pushing ==
  ASSUME Typed, Ready, NEW t \in Threads,
         Start(t) \/ Record(t) \/ Exit(t) \/ \E id \in Ids[t] : Stray(t, id)
  PROVE  local[t] # NoList
<1>1. ReadyThread(t)
  BY DEF Ready
<1>2. CASE Start(t) \/ Record(t)
  <2>1. todo[t] # <<>> /\ Advance(t) /\ Head(todo[t]) \in {"start", "record"}
    BY <1>2 DEF Start, Record, At
  <2>2. 1 \in DOMAIN todo[t] /\ todo[t][1] \in {"start", "record"}
    BY <2>1, AdvanceStep
  <2>3. QED
    BY <1>1, <2>2 DEF ReadyThread
<1>3. CASE Exit(t)
  BY <1>1, <1>3 DEF Exit, ReadyThread
<1>4. CASE \E id \in Ids[t] : Stray(t, id)
  BY <1>4 DEF Stray
<1>5. QED
  BY <1>2, <1>3, <1>4

(* In the beginning no thread has a list.                                  *)
LEMMA OwnInit ==
  ASSUME Init
  PROVE  Own
BY DEF Init, Own, Nothing, NoList

(* Every step leaves each thread a list of its own.                        *)
LEMMA OwnStep ==
  ASSUME Typed, Ready, Exiting, Own, [Next]_vars
  PROVE  Own'
<1>1. Main \in Threads
  BY Assumptions
<1>3. CASE UNCHANGED vars
  BY <1>1, <1>3, OwnKept DEF vars, calls, init, ending, Own
<1>4. CASE MainBegins
  BY <1>1, <1>4, OwnKept DEF MainBegins, init, ending, Own
<1>5. CASE Stop
  <2>1. local' = local /\ node' = node /\ seen' = seen /\ exiter' = exiter /\ exiter \in Threads
    BY <1>5 DEF Stop, Handles, init, Exiting, Typed
  <2>2. \/ lists' = lists
        \/ \E l : local[exiter] # NoList /\ lists' = [lists EXCEPT ![local[exiter]] = l]
    BY <1>5 DEF Stop, Push
  <2>3. QED
    BY <2>1, <2>2, OwnKept DEF Own
<1>6. CASE Copy \/ Disconnect \/ ProcessEnds \/ StoreFault \/ NoConnection
  BY <1>1, <1>6, OwnKept DEF Copy, Disconnect, ProcessEnds, StoreFault, NoConnection, init, Own
<1>7. CASE Store
  <2>1. local' = local /\ seen' = seen /\ exiter' = exiter /\ exiter \in Threads
    BY <1>7 DEF Store, Exiting, Typed
  <2>2. CASE UseDb /\ exiter \notin Nodes
    <3>1. lists' = Append(lists, <<>>) /\ node' = [node EXCEPT ![exiter] = Len(lists')]
      BY <1>7, <2>2 DEF Store
    <3>2. QED
      BY <2>1, <3>1, OwnStored
  <2>3. CASE ~(UseDb /\ exiter \notin Nodes)
    <3>1. lists' = lists /\ node' = node
      BY <1>7, <2>3 DEF Store
    <3>2. QED
      BY <2>1, <3>1, OwnKept DEF Own
  <2>4. QED
    BY <2>2, <2>3
<1>8. CASE Clear
  <2>1. local' = local /\ node' = node /\ seen' = seen /\ exiter' = exiter /\ exiter \in Threads
    BY <1>8 DEF Clear, init, Exiting, Typed
  <2>2. local[exiter] # NoList /\ lists' = [lists EXCEPT ![local[exiter]] = <<>>]
    BY <1>8 DEF Clear, Exiting
  <2>3. QED
    BY <2>1, <2>2, OwnKept DEF Own
<1>9. ASSUME NEW t \in Threads, ThreadStep(t) PROVE Own'
  <2>1. CASE Search(t)
    <3>1. seen' = [seen EXCEPT ![t] = node] /\ t # exiter
      BY <2>1 DEF Search, At, Runs
    <3>2. node[t] \in {NoList, local[t]}
      BY <3>1 DEF Own, Spare
    <3>3. \A u \in Threads : seen'[u][u] \in {NoList, local[u]}
      BY <3>1, <3>2 DEF Typed, Own
    <3>4. local' = local /\ node' = node /\ lists' = lists /\ exiter' = exiter
      BY <2>1 DEF Search, ending
    <3>5. QED
      BY <3>3, <3>4, OwnKept
  <2>2. CASE Link(t)
    <3>1. t # exiter /\ exiter' = exiter /\ seen' = [seen EXCEPT ![t] = Nothing]
      BY <2>2 DEF Link, At, Runs, ending
    <3>2. CASE Found(t) # NoList
      <4>1. local' = [local EXCEPT ![t] = Found(t)] /\ node' = node /\ lists' = lists
        BY <2>2, <3>2 DEF Link
      <4>2. local' = local
        BY <3>2, <4>1 DEF Own, Typed, Found
      <4>3. \A u \in Threads : seen'[u][u] \in {NoList, local[u]}
        BY <3>1 DEF Typed, Own, Nothing
      <4>4. QED
        BY <3>1, <4>1, <4>2, <4>3, OwnKept
    <3>3. CASE Found(t) = NoList
      <4>1. PICK map \in {node, Undone(t)} : node' = [map EXCEPT ![t] = Len(lists')]
        BY <2>2, <3>3 DEF Link
      <4>2. lists' = Append(lists, <<>>) /\ local' = [local EXCEPT ![t] = Len(lists')]
        BY <2>2, <3>3 DEF Link
      <4>3. QED
        BY <3>1, <4>1, <4>2, OwnLinked
    <3>4. QED
      BY <3>2, <3>3
  <2>3. CASE ProcessExits(t) \/ CopyFault(t) \/ StrayFault(t) \/ SetFlag(t) \/ Register(t)
             \/ Unwind(t) \/ \E id \in Ids[t] : Enter(t, id)
    <3>1. local' = local /\ node' = node /\ seen' = seen /\ lists' = lists
      BY <2>3 DEF ProcessExits, CopyFault, StrayFault, SetFlag, Register, Unwind,
                  Enter, init
    <3>2. exiter' = exiter \/ exiter = NoThread
      BY <2>3 DEF ProcessExits, CopyFault, StrayFault, SetFlag, Register, Unwind,
                  Enter, ending
    <3>3. QED
      BY <3>1, <3>2, OwnKept DEF Own
  <2>4. CASE Start(t) \/ Record(t) \/ Exit(t) \/ \E id \in Ids[t] : Stray(t, id)
    <3>1. local' = local /\ node' = node /\ seen' = seen /\ exiter' = exiter
      BY <2>4 DEF Start, Record, Exit, Stray, init, ending
    <3>2. local[t] # NoList
      BY <2>4, Pushing
    <3>3. PICK l : lists' = [lists EXCEPT ![local[t]] = l]
      BY <2>4 DEF Start, Record, Exit, Stray, Push
    <3>4. QED
      BY <3>1, <3>2, <3>3, OwnKept DEF Own
  <2>5. QED
    BY <1>9, <2>1, <2>2, <2>3, <2>4 DEF ThreadStep
<1>10. QED
  BY <1>3, <1>4, <1>5, <1>6, <1>7, <1>8, <1>9 DEF Next, ExitStep

-----------------------------------------------------------------------------
(* A list is the end of what its thread has recorded.                      *)
EndOf(p, q) == Len(p) <= Len(q) /\ \A i \in 1..Len(p) : p[i] = q[Len(q) - Len(p) + i]

(* The end of a log grows with the log.                                    *)
LEMMA EndAppend ==
  ASSUME NEW S, NEW p, p \in Seq(S), NEW q, q \in Seq(S), NEW e, e \in S, EndOf(p, q)
  PROVE  EndOf(Append(p, e), Append(q, e))
<1>1. PICK m, n : m = Len(p) /\ n = Len(q)
  OBVIOUS
<1>2. m \in Nat /\ n \in Nat /\ m <= n /\ \A i \in 1..m : p[i] = q[n - m + i]
  BY <1>1 DEF EndOf
<1>3. /\ Len(Append(p, e)) = m + 1 /\ Len(Append(q, e)) = n + 1
      /\ \A i \in 1..m : Append(p, e)[i] = p[i]
      /\ \A k \in 1..n : Append(q, e)[k] = q[k]
      /\ Append(p, e)[m + 1] = e /\ Append(q, e)[n + 1] = e
  BY <1>1
<1>4. ASSUME NEW i \in 1..(m + 1) PROVE Append(p, e)[i] = Append(q, e)[(n + 1) - (m + 1) + i]
  <2>1. CASE i \in 1..m
    <3>1. n - m + i \in 1..n /\ (n + 1) - (m + 1) + i = n - m + i
      BY <1>2, <2>1
    <3>2. QED
      BY <1>2, <1>3, <2>1, <3>1
  <2>2. CASE i = m + 1
    <3>1. (n + 1) - (m + 1) + i = n + 1
      BY <1>2, <2>2
    <3>2. QED
      BY <1>3, <2>2, <3>1
  <2>3. i \in 1..m \/ i = m + 1
    BY <1>2
  <2>4. QED
    BY <2>1, <2>2, <2>3
<1>5. PICK p1, q1 : p1 = Append(p, e) /\ q1 = Append(q, e)
  OBVIOUS
<1>6. Len(p1) = m + 1 /\ Len(q1) = n + 1 /\ m + 1 <= n + 1
  BY <1>2, <1>3, <1>5
<1>7. \A i \in 1..Len(p1) : p1[i] = q1[Len(q1) - Len(p1) + i]
  BY <1>4, <1>5, <1>6
<1>8. EndOf(p1, q1)
  BY <1>6, <1>7, Zenon DEF EndOf
<1>9. QED
  BY <1>5, <1>8

(* The empty list is the end of every log.                                 *)
LEMMA EndEmpty ==
  ASSUME NEW S, NEW q, q \in Seq(S)
  PROVE  EndOf(<<>>, q)
BY DEF EndOf

(* What is at the end of a log is in it, as one piece of it.               *)
LEMMA EndPiece ==
  ASSUME NEW S, NEW p, p \in Seq(S), NEW q, q \in Seq(S), EndOf(p, q)
  PROVE  /\ ToSet(p) \subseteq ToSet(q)
         /\ \E from \in 1..(Len(q) + 1) : p = SubSeq(q, from, Len(q))
<1>1. PICK m, n : m = Len(p) /\ n = Len(q)
  OBVIOUS
<1>2. m \in Nat /\ n \in Nat /\ m <= n /\ \A i \in 1..m : p[i] = q[n - m + i]
  BY <1>1 DEF EndOf
<1>3. ASSUME NEW i \in DOMAIN p PROVE n - m + i \in DOMAIN q /\ p[i] = q[n - m + i]
  <2>1. i \in 1..m /\ DOMAIN q = 1..n
    BY <1>1
  <2>2. n - m + i \in 1..n
    BY <1>2, <2>1
  <2>3. QED
    BY <1>2, <2>1, <2>2
<1>4. ToSet(p) \subseteq ToSet(q)
  BY <1>3 DEF ToSet
<1>5. PICK from : from = n - m + 1
  OBVIOUS
<1>6. from \in 1..(n + 1) /\ from \in Nat
  BY <1>2, <1>5
<1>7. p = SubSeq(q, from, n)
  <2>1. /\ SubSeq(q, from, n) \in Seq(S) /\ Len(SubSeq(q, from, n)) = m
        /\ \A i \in 1..m : SubSeq(q, from, n)[i] = q[from + i - 1]
    <3>1. n - from + 1 = m /\ from \in Int /\ n \in Int /\ \A i \in from..n : q[i] \in S
      BY <1>1, <1>2, <1>5, <1>6, ElementOfSeq
    <3>2. m = IF from <= n THEN n - from + 1 ELSE 0
      BY <1>2, <1>5
    <3>3. QED
      BY <3>1, <3>2, SubSeqProperties
  <2>2. ASSUME NEW i \in 1..m PROVE from + i - 1 = n - m + i
    BY <1>2, <1>5
  <2>3. \A i \in 1..m : SubSeq(q, from, n)[i] = p[i]
    BY <1>2, <2>1, <2>2
  <2>4. QED
    BY <1>1, <2>1, <2>3, SeqEqual
<1>8. QED
  BY <1>1, <1>4, <1>6, <1>7

(* What is appended later than all before it is new.                       *)
LEMMA AscendingAppend ==
  ASSUME NEW q, q \in Seq(EventType), Ascending(q), NEW e, e \in EventType,
         q # <<>> => Last(q).at < e.at
  PROVE  Ascending(Append(q, e)) /\ e \notin ToSet(q) /\ Append(q, e) \in Seq(EventType)
         /\ Len(Append(q, e)) = Len(q) + 1 /\ Front(Append(q, e)) = q /\ Last(Append(q, e)) = e
<1>1. PICK n : n = Len(q)
  OBVIOUS
<1>2. n \in Nat /\ DOMAIN q = 1..n /\ \A i \in 1..n : q[i] \in EventType
  BY <1>1, ElementOfSeq
<1>3. /\ Append(q, e) \in Seq(EventType) /\ Len(Append(q, e)) = n + 1 /\ Append(q, e)[n + 1] = e
      /\ \A i \in 1..n : Append(q, e)[i] = q[i]
  BY <1>1
<1>4. ASSUME NEW i \in 1..n PROVE q[i].at < e.at
  <2>1. q # <<>> /\ Last(q) = q[n] /\ n \in 1..n
    BY <1>1, <1>2 DEF Last
  <2>2. i = n \/ q[i].at < q[n].at
    BY <1>1, <1>2 DEF Ascending
  <2>3. q[i].at \in Nat /\ q[n].at \in Nat /\ e.at \in Nat
    BY <1>2, <2>1 DEF EventType
  <2>4. QED
    BY <2>1, <2>2, <2>3
<1>5. Ascending(Append(q, e))
  <2>1. ASSUME NEW i \in 1..(n + 1), NEW j \in 1..(n + 1), i < j
        PROVE  Append(q, e)[i].at < Append(q, e)[j].at
    <3>1. i \in 1..n /\ (j \in 1..n \/ j = n + 1)
      BY <1>2, <2>1
    <3>2. j \in 1..n => q[i].at < q[j].at
      BY <1>1, <2>1, <3>1 DEF Ascending
    <3>3. QED
      BY <1>3, <1>4, <3>1, <3>2
  <2>2. QED
    BY <1>3, <2>1 DEF Ascending
<1>6. e \notin ToSet(q)
  <2>1. ASSUME NEW i \in DOMAIN q PROVE e # q[i]
    <3>1. q[i].at < e.at /\ q[i].at \in Nat
      BY <1>2, <1>4 DEF EventType
    <3>2. QED
      BY <3>1
  <2>2. QED
    BY <2>1 DEF ToSet
<1>7. Front(Append(q, e)) = q /\ Last(Append(q, e)) = e
  <2>1. /\ \A s : Last(s) = s[Len(s)] /\ Front(s) = SubSeq(s, 1, Len(s) - 1)
    BY DEF Last, Front
  <2>2. PICK r : r = Append(q, e)
    OBVIOUS
  <2>3. Last(r) = e
    BY <1>2, <1>3, <2>1, <2>2
  <2>4. Front(r) = SubSeq(r, 1, n)
    <3>1. Len(r) - 1 = n
      BY <1>2, <1>3, <2>2
    <3>2. QED
      BY <2>1, <3>1, Zenon
  <2>5. SubSeq(r, 1, n) \in Seq(EventType) /\ Len(SubSeq(r, 1, n)) = n
        /\ \A i \in 1..n : SubSeq(r, 1, n)[i] = r[i]
    BY <1>2, <1>3, <2>2
  <2>6. SubSeq(r, 1, n) = q
    BY <1>1, <1>2, <1>3, <2>2, <2>5, SeqEqual
  <2>7. QED
    BY <2>2, <2>3, <2>4, <2>6
<1>8. QED
  BY <1>1, <1>3, <1>5, <1>6, <1>7

(* The end of an ascending sequence is ascending.                          *)
LEMMA AscendingEnd ==
  ASSUME NEW p, p \in Seq(EventType), NEW q, q \in Seq(EventType), Ascending(q), EndOf(p, q)
  PROVE  Ascending(p)
<1>1. PICK m, n : m = Len(p) /\ n = Len(q)
  OBVIOUS
<1>2. m \in Nat /\ n \in Nat /\ m <= n /\ \A i \in 1..m : p[i] = q[n - m + i]
  BY <1>1 DEF EndOf
<1>3. ASSUME NEW i \in 1..m, NEW j \in 1..m, i < j PROVE p[i].at < p[j].at
  <2>1. PICK k, l : k = n - m + i /\ l = n - m + j
    OBVIOUS
  <2>2. k \in 1..n /\ l \in 1..n /\ k < l
    BY <1>2, <1>3, <2>1
  <2>3. q[k].at < q[l].at
    BY <1>1, <2>2 DEF Ascending
  <2>4. p[i] = q[k] /\ p[j] = q[l]
    BY <1>2, <2>1
  <2>5. QED
    BY <2>3, <2>4
<1>4. QED
  BY <1>1, <1>3 DEF Ascending

(* Appending adds one element.                                             *)
LEMMA EventsAppend ==
  ASSUME NEW S, NEW q, q \in Seq(S), NEW e, e \in S
  PROVE  ToSet(Append(q, e)) = ToSet(q) \cup {e}
<1>1. PICK n : n = Len(q)
  OBVIOUS
<1>2. /\ n \in Nat /\ DOMAIN q = 1..n /\ DOMAIN Append(q, e) = 1..(n + 1) /\ Append(q, e)[n + 1] = e
      /\ \A i \in 1..n : Append(q, e)[i] = q[i]
  BY <1>1
<1>3. 1..(n + 1) = 1..n \cup {n + 1}
  BY <1>2
<1>4. QED
  BY <1>2, <1>3 DEF ToSet

-----------------------------------------------------------------------------
(* What is stored are events that the exiting thread has recorded; those   *)
(* still on its list are stored once the handler gets there, not before.   *)
StoredEvents == UNION {ToSet(toDb[i]) : i \in DOMAIN toDb}
Storing == phase \in {"exit", "copy", "store"}
Kept ==
  /\ \A t \in Threads : Ascending(log[t])
  /\ \A t \in Threads : local[t] # NoList => EndOf(List(t), log[t])
  /\ exiter = NoThread => toDb = <<>>
  /\ exiter # NoThread => StoredEvents \subseteq ToSet(log[exiter])
  /\ Storing /\ local[exiter] # NoList => StoredEvents \cap ToSet(List(exiter)) = {}

(* The list of a thread is one of the lists.                               *)
LEMMA ListTyped ==
  ASSUME Typed, NEW t \in Threads, local[t] # NoList
  PROVE  /\ local[t] \in DOMAIN lists /\ List(t) \in Seq(EventType) /\ log[t] \in Seq(EventType)
         /\ DOMAIN lists = 1..Len(lists)
<1>1. local[t] \in 1..Len(lists) /\ lists \in Seq(Seq(EventType)) /\ log[t] \in Seq(EventType)
  BY DEF Typed, NoList
<1>2. DOMAIN lists = 1..Len(lists)
  BY <1>1
<1>3. QED
  BY <1>1, <1>2, ElementOfSeq DEF List

(* A thread that pushes an event has it on its log and on its list, and    *)
(* nobody else has.                                                        *)
Pushed(t, e) ==
  /\ log[t] # <<>> => Last(log[t]).at < e.at
  /\ log' = [log EXCEPT ![t] = Append(log[t], e)]
  /\ local' = local /\ local[t] # NoList
  /\ List(t)' = Append(List(t), e)
  /\ \A u \in Threads : u # t /\ local[u] # NoList => List(u)' = List(u)

(* A push of libpprof appends one event to the thread's list and to its    *)
(* log.                                                                    *)
LEMMA PushedEvent ==
  ASSUME Typed, Own, NEW t \in Threads, NEW id, id \in AllIds \cup {Total},
         NEW type, type \in EventTypes, Push(t, id, type), local[t] # NoList, local' = local
  PROVE  \E e \in EventType : e.id = id /\ e.type = type /\ Pushed(t, e)
<1>1. PICK e \in EventType :
        /\ e = Event(id, type, Now(t))
        /\ log[t] # <<>> => Last(log[t]).at < e.at
        /\ log' = [log EXCEPT ![t] = Append(log[t], e)]
        /\ lists' = [lists EXCEPT ![local[t]] = Append(lists[local[t]], e)]
  BY PushStep
<1>2. e.id = id /\ e.type = type
  BY <1>1 DEF Event
<1>3. List(t)' = Append(List(t), e)
  BY <1>1, ListTyped DEF List
<1>4. ASSUME NEW u \in Threads, u # t, local[u] # NoList PROVE List(u)' = List(u)
  <2>1. local[u] # local[t] /\ local[u] \in DOMAIN lists
    BY <1>4, ListTyped DEF Own
  <2>2. QED
    BY <1>1, <2>1 DEF List
<1>5. QED
  BY <1>1, <1>2, <1>3, <1>4 DEF Pushed

(* A push keeps the lists the ends of the logs.                            *)
LEMMA KeptPushed ==
  ASSUME Typed, Kept, NEW t \in Threads, NEW e, e \in EventType, Pushed(t, e),
         toDb' = toDb, exiter' = exiter, exiter \in Threads \cup {NoThread},
         phase' = phase \/ (phase = "exit" /\ phase' = "copy")
  PROVE  Kept'
<1>1. NoThread \notin Threads
  BY Assumptions DEF NoThread
<1>2. /\ log[t] \in Seq(EventType) /\ List(t) \in Seq(EventType) /\ EndOf(List(t), log[t])
      /\ Ascending(log[t]) /\ local'[t] # NoList
  BY ListTyped DEF Pushed, Kept
<1>3. /\ log'[t] = Append(log[t], e) /\ \A u \in Threads : u # t => log'[u] = log[u]
  BY DEF Pushed, Typed
<1>4. Ascending(log'[t]) /\ e \notin ToSet(log[t])
  BY <1>2, <1>3, AscendingAppend DEF Pushed
<1>5. \A u \in Threads : Ascending(log'[u])
  BY <1>3, <1>4 DEF Kept
<1>6. EndOf(List(t)', log'[t])
  BY <1>2, <1>3, EndAppend DEF Pushed
<1>7. \A u \in Threads : local'[u] # NoList => EndOf(List(u)', log'[u])
  BY <1>3, <1>6 DEF Kept, Pushed
<1>8. /\ ToSet(log'[t]) = ToSet(log[t]) \cup {e}
      /\ ToSet(List(t)') = ToSet(List(t)) \cup {e}
  BY <1>2, <1>3, EventsAppend DEF Pushed
<1>9. ASSUME exiter # NoThread
      PROVE  /\ StoredEvents \subseteq ToSet(log'[exiter])
             /\ Storing' /\ local'[exiter] # NoList => StoredEvents \cap ToSet(List(exiter)') = {}
  <2>1. StoredEvents \subseteq ToSet(log[exiter])
    BY <1>9 DEF Kept
  <2>2. Storing' => Storing
    BY DEF Storing
  <2>3. CASE exiter = t
    BY <1>4, <1>8, <2>1, <2>2, <2>3 DEF Kept, Pushed
  <2>4. CASE exiter # t
    <3>1. log'[exiter] = log[exiter] /\ (local[exiter] # NoList => List(exiter)' = List(exiter))
      BY <1>3, <1>9, <2>4 DEF Pushed
    <3>2. QED
      BY <2>1, <2>2, <3>1 DEF Kept, Pushed
  <2>5. QED
    BY <2>3, <2>4
<1>10. exiter' = NoThread => toDb' = <<>>
  BY DEF Kept
<1>11. exiter' # NoThread => StoredEvents' \subseteq ToSet(log'[exiter'])
  BY <1>9 DEF StoredEvents
<1>12. Storing' /\ local'[exiter'] # NoList => StoredEvents' \cap ToSet(List(exiter)') = {}
  <2>1. exiter = NoThread => StoredEvents' = {}
    BY DEF Kept, StoredEvents
  <2>2. QED
    BY <1>9, <2>1 DEF StoredEvents
<1>13. QED
  BY <1>5, <1>7, <1>10, <1>11, <1>12 DEF Kept

(* Storing a list adds its events to those stored.                         *)
LEMMA StoredAppend ==
  ASSUME Typed, NEW p, p \in Seq(EventType), toDb' = Append(toDb, p)
  PROVE  StoredEvents' = StoredEvents \cup ToSet(p)
<1>1. PICK n : n = Len(toDb)
  OBVIOUS
<1>2. /\ n \in Nat /\ DOMAIN toDb = 1..n /\ DOMAIN toDb' = 1..(n + 1) /\ toDb'[n + 1] = p
      /\ \A i \in 1..n : toDb'[i] = toDb[i]
  BY <1>1 DEF Typed
<1>3. 1..(n + 1) = 1..n \cup {n + 1}
  BY <1>2
<1>4. QED
  BY <1>2, <1>3 DEF StoredEvents

(* Steps that push nothing leave every thread its list, or empty it.       *)
LEMMA KeptUnpushed ==
  ASSUME Typed, Kept, log' = log, toDb' = toDb, exiter' = exiter \/ exiter = NoThread,
         \A u \in Threads : local'[u] # NoList =>
           List(u)' = <<>> \/ (local[u] # NoList /\ List(u)' = List(u)),
         Storing' /\ toDb # <<>> => Storing \/ List(exiter)' = <<>>,
         exiter' \in Threads \cup {NoThread}
  PROVE  Kept'
<1>1. ASSUME NEW u \in Threads, local'[u] # NoList PROVE EndOf(List(u)', log'[u])
  <2>1. log[u] \in Seq(EventType)
    BY DEF Typed
  <2>2. QED
    BY <1>1, <2>1, EndEmpty DEF Kept
<1>2. exiter = NoThread => StoredEvents = {}
  BY DEF Kept, StoredEvents
<1>3. StoredEvents' = StoredEvents
  BY DEF StoredEvents
<1>4. exiter' # NoThread => StoredEvents' \subseteq ToSet(log'[exiter'])
  BY <1>2, <1>3 DEF Kept
<1>5. ASSUME Storing', local'[exiter'] # NoList
      PROVE  StoredEvents' \cap ToSet(List(exiter)') = {}
  <2>1. CASE toDb = <<>>
    BY <1>3, <2>1 DEF StoredEvents
  <2>2. CASE List(exiter)' = <<>>
    BY <2>2 DEF ToSet
  <2>3. CASE toDb # <<>> /\ List(exiter)' # <<>>
    <3>1. Storing /\ exiter' = exiter /\ exiter \in Threads
      <4>1. exiter # NoThread
        BY <2>3 DEF Kept
      <4>2. QED
        BY <1>5, <2>3, <4>1
    <3>2. local[exiter] # NoList /\ List(exiter)' = List(exiter)
      BY <1>5, <2>3, <3>1
    <3>3. QED
      BY <1>3, <3>1, <3>2 DEF Kept
  <2>4. QED
    BY <2>1, <2>2, <2>3
<1>6. QED
  BY <1>1, <1>4, <1>5 DEF Kept

(* What the handler stores is the end of the exiting thread's log, or      *)
(* nothing.                                                                *)
LEMMA StoredPiece ==
  ASSUME Typed, Exiting, Own, Kept, Store, UseDb
  PROVE  \E p \in Seq(EventType) :
           /\ toDb' = Append(toDb, p)
           /\ p = <<>> \/ p = List(exiter)
           /\ EndOf(p, log[exiter]) /\ ToSet(p) \cap StoredEvents = {}
<1>1. exiter \in Threads /\ local[exiter] # NoList /\ Storing
  BY DEF Store, Exiting, Typed, Storing
<1>2. toDb' = Append(toDb, lists'[node'[exiter]])
  BY DEF Store, ListIn
<1>3. lists'[node'[exiter]] = <<>> \/ lists'[node'[exiter]] = List(exiter)
  <2>1. CASE exiter \notin Nodes
    <3>1. lists' = Append(lists, <<>>) /\ node' = [node EXCEPT ![exiter] = Len(lists')]
      BY <2>1 DEF Store
    <3>2. node'[exiter] = Len(lists) + 1 /\ lists'[Len(lists) + 1] = <<>>
      BY <1>1, <3>1 DEF Typed
    <3>3. QED
      BY <3>2
  <2>2. CASE exiter \in Nodes
    <3>1. lists' = lists /\ node' = node /\ node[exiter] # NoList
      BY <2>2 DEF Store, Nodes
    <3>2. node[exiter] = local[exiter] \/ lists[node[exiter]] = <<>>
      BY <1>1, <3>1 DEF Own, Spare
    <3>3. QED
      BY <3>1, <3>2 DEF List
  <2>3. QED
    BY <2>1, <2>2
<1>4. PICK p : p = lists'[node'[exiter]]
  OBVIOUS
<1>5. log[exiter] \in Seq(EventType) /\ List(exiter) \in Seq(EventType)
  BY <1>1, ListTyped
<1>6. p \in Seq(EventType) /\ EndOf(p, log[exiter])
  <2>1. EndOf(List(exiter), log[exiter]) /\ EndOf(<<>>, log[exiter]) /\ <<>> \in Seq(EventType)
    BY <1>1, <1>5, EndEmpty DEF Kept
  <2>2. QED
    BY <1>3, <1>4, <1>5, <2>1, Zenon
<1>7. ToSet(p) \cap StoredEvents = {}
  <2>1. ToSet(<<>>) = {}
    BY DEF ToSet
  <2>2. QED
    BY <1>1, <1>3, <1>4, <2>1 DEF Kept
<1>8. QED
  BY <1>2, <1>3, <1>4, <1>6, <1>7

(* What Store needs and what it leaves alone.                              *)
LEMMA StoreStep ==
  ASSUME Typed, Exiting, Store
  PROVE  /\ exiter \in Threads /\ local[exiter] # NoList /\ phase = "store" /\ phase' = "clear"
         /\ exiter' = exiter /\ local' = local /\ log' = log
         /\ \A u \in Threads : local[u] # NoList => List(u)' = List(u)
<1>1. exiter \in Threads /\ local[exiter] # NoList /\ phase = "store" /\ phase' = "clear"
      /\ exiter' = exiter /\ local' = local /\ log' = log
  BY DEF Store, Exiting, Typed
<1>2. ASSUME NEW u \in Threads, local[u] # NoList PROVE List(u)' = List(u)
  <2>1. lists' = lists \/ lists' = Append(lists, <<>>)
    BY DEF Store
  <2>2. local[u] \in 1..Len(lists)
    BY <1>2, ListTyped
  <2>3. lists'[local[u]] = lists[local[u]]
    <3>1. \A k \in 1..Len(lists) : Append(lists, <<>>)[k] = lists[k]
      BY DEF Typed
    <3>2. CASE lists' = lists
      BY <3>2
    <3>3. CASE lists' = Append(lists, <<>>)
      BY <2>2, <3>1, <3>3
    <3>4. QED
      BY <2>1, <3>2, <3>3
  <2>4. QED
    BY <1>1, <2>3 DEF List
<1>3. QED
  BY <1>1, <1>2

(* Store keeps the lists the ends of the logs.                             *)
LEMMA KeptStored ==
  ASSUME Typed, Exiting, Own, Kept, Store
  PROVE  Kept'
<1>1. exiter \in Threads /\ local[exiter] # NoList /\ phase' = "clear"
      /\ exiter' = exiter /\ local' = local /\ log' = log
  BY StoreStep
<1>2. \A u \in Threads : local[u] # NoList => List(u)' = List(u)
  BY StoreStep
<1>3. StoredEvents' \subseteq ToSet(log[exiter])
  <2>1. CASE UseDb
    <3>1. PICK p \in Seq(EventType) :
            toDb' = Append(toDb, p) /\ EndOf(p, log[exiter])
      BY <2>1, StoredPiece
    <3>2. ToSet(p) \subseteq ToSet(log[exiter])
      BY <1>1, <3>1, EndPiece DEF Typed
    <3>3. StoredEvents' = StoredEvents \cup ToSet(p)
      BY <3>1, StoredAppend
    <3>4. QED
      BY <1>1, <3>2, <3>3, Assumptions DEF Kept, NoThread
  <2>2. CASE ~UseDb
    <3>1. StoredEvents' = StoredEvents
      BY <2>2 DEF Store, StoredEvents
    <3>2. QED
      BY <1>1, <3>1, Assumptions DEF Kept, NoThread
  <2>3. QED
    BY <2>1, <2>2
<1>4. exiter' # NoThread /\ ~Storing'
  BY <1>1, Assumptions DEF NoThread, Storing
<1>5. QED
  BY <1>1, <1>2, <1>3, <1>4 DEF Kept

(* Lists and logs agree in the beginning.                                  *)
LEMMA KeptInit ==
  ASSUME Init
  PROVE  Kept
BY DEF Init, Kept, Nothing, NoList, NoThread, Ascending, Storing

(* A thread pushes an event of a type.                                     *)
PushedAs(t, type) ==
  \E e \in EventType : e.type = type /\ (type = "RegionExit" => e.id = Total) /\ Pushed(t, e)

(* Start, Record, Exit and Stray push one event of a thread that does not  *)
(* exit.                                                                   *)
Pushes(t) == Start(t) \/ Record(t) \/ Exit(t) \/ \E id \in Ids[t] : Stray(t, id)
LEMMA RecordStep ==
  ASSUME Typed, Ready, Own, NEW t \in Threads, Pushes(t)
  PROVE  /\ \E type \in {"RegionEnter", "ScopEnter", "ScopExit"} : PushedAs(t, type)
         /\ toDb' = toDb /\ exiter' = exiter /\ phase' = phase /\ exiter # t
<1>1. local[t] # NoList
  BY Pushing DEF Pushes
<1>2. local' = local /\ toDb' = toDb /\ exiter' = exiter /\ phase' = phase /\ exiter # t
  BY DEF Pushes, Start, Record, Exit, Stray, init, ending, At, InUserCode, Runs
<1>3. CASE Start(t)
  <2>1. Push(t, Total, "RegionEnter") /\ Total \in AllIds \cup {Total}
    BY <1>3 DEF Start
  <2>2. PushedAs(t, "RegionEnter")
    BY <1>1, <1>2, <2>1, PushedEvent DEF EventTypes, PushedAs
  <2>3. QED
    BY <1>2, <2>2
<1>4. CASE Record(t)
  <2>1. Push(t, entering[t], "ScopEnter") /\ entering[t] \in AllIds \cup {Total}
    <3>1. todo[t] # <<>> /\ Advance(t) /\ Head(todo[t]) = "record"
      BY <1>4 DEF Record, At
    <3>2. 1 \in DOMAIN todo[t] /\ todo[t][1] = "record"
      BY <3>1, AdvanceStep
    <3>3. entering[t] \in AllIds
      BY <3>2 DEF Ready, ReadyThread
    <3>4. QED
      BY <1>4, <3>3 DEF Record
  <2>2. PushedAs(t, "ScopEnter")
    BY <1>1, <1>2, <2>1, PushedEvent DEF EventTypes, PushedAs
  <2>3. QED
    BY <1>2, <2>2
<1>5. CASE Exit(t)
  <2>1. Push(t, Last(open[t]), "ScopExit") /\ open[t] # <<>>
    BY <1>5 DEF Exit
  <2>2. Last(open[t]) \in AllIds \cup {Total}
    <3>1. open[t] \in Seq(AllIds) /\ Len(open[t]) \in 1..Len(open[t])
      BY <2>1 DEF Typed
    <3>2. QED
      BY <3>1, ElementOfSeq DEF Last
  <2>3. PushedAs(t, "ScopExit")
    BY <1>1, <1>2, <2>1, <2>2, PushedEvent DEF EventTypes, PushedAs
  <2>4. QED
    BY <1>2, <2>3
<1>6. ASSUME NEW id \in Ids[t], Stray(t, id)
      PROVE  \E type \in {"RegionEnter", "ScopEnter", "ScopExit"} : PushedAs(t, type)
  <2>1. Push(t, id, "ScopExit") /\ id \in AllIds \cup {Total}
    BY <1>6, Assumptions DEF Stray, AllIds
  <2>2. PushedAs(t, "ScopExit")
    BY <1>1, <1>2, <2>1, PushedEvent DEF EventTypes, PushedAs
  <2>3. QED
    BY <2>2
<1>7. QED
  BY <1>2, <1>3, <1>4, <1>5, <1>6 DEF Pushes

(* Stop pushes the exit of the total, does nothing or fails.               *)
LEMMA StopStep ==
  ASSUME Typed, Exiting, Own, Stop
  PROVE  /\ toDb' = toDb /\ exiter' = exiter /\ exiter \in Threads /\ phase = "exit"
         /\ \/ phase' = "copy" /\ local[exiter] # NoList /\ PushedAs(exiter, "RegionExit")
            \/ phase' \in {"exit", "fault"} /\ lists' = lists /\ log' = log /\ local' = local
         /\ phase' = "exit" => ~ExecuteAtexit
<1>1. toDb' = toDb /\ exiter' = exiter /\ exiter \in Threads /\ phase = "exit" /\ local' = local
  BY DEF Stop, Handles, Exiting, Typed, init
<1>2. CASE ~ExecuteAtexit \/ local[exiter] = NoList
  BY <1>1, <1>2 DEF Stop
<1>3. CASE ExecuteAtexit /\ local[exiter] # NoList
  <2>1. phase' = "copy" /\ Push(exiter, Total, "RegionExit") /\ Total \in AllIds \cup {Total}
    BY <1>3 DEF Stop
  <2>2. PushedAs(exiter, "RegionExit")
    BY <1>1, <1>3, <2>1, PushedEvent DEF EventTypes, PushedAs
  <2>3. QED
    BY <1>1, <1>3, <2>1, <2>2
<1>4. QED
  BY <1>2, <1>3

(* Link gives one thread an empty list.                                    *)
LEMMA LinkStep ==
  ASSUME Typed, Own, NEW t \in Threads, Link(t)
  PROVE  /\ log' = log /\ toDb' = toDb /\ exiter' = exiter /\ phase' = phase /\ exiter # t
         /\ \A u \in Threads : u # t => local'[u] = local[u]
         /\ \A u \in Threads : local'[u] # NoList =>
              (u = t /\ List(u)' = <<>>) \/ (local[u] # NoList /\ List(u)' = List(u))
<1>1. log' = log /\ toDb' = toDb /\ exiter' = exiter /\ phase' = phase /\ exiter # t
  BY DEF Link, ending, At, Runs
<1>2. CASE Found(t) # NoList
  <2>1. local' = [local EXCEPT ![t] = Found(t)] /\ lists' = lists
    BY <1>2 DEF Link
  <2>2. local' = local
    BY <1>2, <2>1 DEF Own, Typed, Found
  <2>3. QED
    BY <1>1, <2>1, <2>2 DEF List
<1>3. CASE Found(t) = NoList
  <2>1. lists' = Append(lists, <<>>) /\ local' = [local EXCEPT ![t] = Len(lists')]
    BY <1>3 DEF Link
  <2>2. PICK n : n = Len(lists) + 1
    OBVIOUS
  <2>3. Len(lists') = n /\ lists'[n] = <<>> /\ \A k \in 1..Len(lists) : lists'[k] = lists[k]
    BY <2>1, <2>2 DEF Typed
  <2>4. local'[t] = n /\ \A u \in Threads : u # t => local'[u] = local[u]
    BY <2>1, <2>3 DEF Typed
  <2>5. List(t)' = <<>>
    BY <2>3, <2>4 DEF List
  <2>6. ASSUME NEW u \in Threads, u # t, local'[u] # NoList
        PROVE  local[u] # NoList /\ List(u)' = List(u)
    <3>1. local'[u] = local[u] /\ local[u] \in 1..Len(lists)
      BY <2>4, <2>6, ListTyped
    <3>2. QED
      BY <2>3, <2>6, <3>1 DEF List
  <2>7. QED
    BY <1>1, <2>4, <2>5, <2>6
<1>4. QED
  BY <1>2, <1>3

(* Clear empties the list of the thread that exits.                        *)
LEMMA ClearStep ==
  ASSUME Typed, Exiting, Own, Clear
  PROVE  /\ log' = log /\ toDb' = toDb /\ exiter' = exiter /\ local' = local
         /\ exiter \in Threads /\ phase = "clear" /\ phase' = "exit"
         /\ local[exiter] # NoList /\ List(exiter)' = <<>>
         /\ \A u \in Threads : u # exiter /\ local[u] # NoList => List(u)' = List(u)
<1>1. /\ log' = log /\ toDb' = toDb /\ exiter' = exiter /\ local' = local
      /\ exiter \in Threads /\ phase = "clear" /\ phase' = "exit"
      /\ local[exiter] # NoList /\ lists' = [lists EXCEPT ![local[exiter]] = <<>>]
  BY DEF Clear, init, Exiting, Typed
<1>2. local[exiter] \in DOMAIN lists
  BY <1>1, ListTyped
<1>3. List(exiter)' = <<>>
  BY <1>1, <1>2 DEF List
<1>4. ASSUME NEW u \in Threads, u # exiter, local[u] # NoList PROVE List(u)' = List(u)
  BY <1>1, <1>4, ListTyped DEF List, Own
<1>5. QED
  BY <1>1, <1>3, <1>4

(* The other steps leave lists, logs and stored runs alone.                *)
QuietStep(t) ==
  \/ CopyFault(t) \/ StrayFault(t) \/ SetFlag(t) \/ Search(t) \/ Register(t) \/ Unwind(t)
  \/ \E id \in Ids[t] : Enter(t, id)
QuietExit == Copy \/ Disconnect \/ ProcessEnds \/ StoreFault \/ NoConnection
Quiet ==
  /\ log' = log /\ toDb' = toDb /\ exiter' = exiter /\ local' = local /\ lists' = lists
  /\ \/ phase' \in {phase, "fault"} \/ (phase = "copy" /\ phase' = "store")
     \/ (phase = "store" /\ phase' = "closed") \/ (phase = "exit" /\ phase' = "over")

(* All other steps neither record nor store anything.                      *)
LEMMA QuietSteps ==
  ASSUME UNCHANGED vars \/ MainBegins \/ QuietExit \/ \E t \in Threads : QuietStep(t)
  PROVE  Quiet
<1>1. CASE UNCHANGED vars \/ MainBegins
  BY <1>1 DEF MainBegins, vars, calls, init, ending, Quiet
<1>2. CASE QuietExit
  BY <1>2 DEF QuietExit, Copy, Disconnect, Handles, ProcessEnds, StoreFault, NoConnection, calls,
              init, Quiet
<1>3. ASSUME NEW t \in Threads, QuietStep(t) PROVE Quiet
  BY <1>3 DEF QuietStep, CopyFault, StrayFault, SetFlag, Search, Register, Unwind, Enter, calls,
              init, ending, Quiet
<1>4. QED
  BY <1>1, <1>2, <1>3

(* Every step keeps the lists the ends of the logs, and what is stored     *)
(* apart from them.                                                        *)
LEMMA KeptStep ==
  ASSUME Typed, Ready, Exiting, Own, Kept, Typed', [Next]_vars
  PROVE  Kept'
<1>1. exiter \in Threads \cup {NoThread} /\ exiter' \in Threads \cup {NoThread}
  BY DEF Typed
<1>2. CASE Quiet
  <2>1. \A u \in Threads : List(u)' = List(u)
    BY <1>2 DEF Quiet, List
  <2>2. Storing' => Storing
    BY <1>2 DEF Quiet, Storing
  <2>3. QED
    BY <1>1, <1>2, <2>1, <2>2, KeptUnpushed DEF Quiet
<1>3. CASE Stop
  <2>1. CASE phase' = "copy" /\ PushedAs(exiter, "RegionExit")
    BY <1>3, <2>1, StopStep, KeptPushed DEF PushedAs
  <2>2. CASE lists' = lists /\ log' = log /\ local' = local
    <3>1. toDb' = toDb /\ exiter' = exiter /\ Storing
      BY <1>3, <2>2, StopStep DEF Storing
    <3>2. \A u \in Threads : List(u)' = List(u)
      BY <2>2 DEF List
    <3>3. QED
      BY <1>1, <2>2, <3>1, <3>2, KeptUnpushed
  <2>3. QED
    BY <1>3, <2>1, <2>2, StopStep
<1>4. CASE Store
  BY <1>4, KeptStored
<1>5. CASE Clear
  <2>1. /\ log' = log /\ toDb' = toDb /\ exiter' = exiter
        /\ \A u \in Threads : local'[u] # NoList =>
             List(u)' = <<>> \/ (local[u] # NoList /\ List(u)' = List(u))
    BY <1>5, ClearStep
  <2>2. List(exiter)' = <<>>
    BY <1>5, ClearStep
  <2>3. QED
    BY <1>1, <2>1, <2>2, KeptUnpushed
<1>6. ASSUME NEW t \in Threads, ThreadStep(t), ~QuietStep(t) PROVE Kept'
  <2>1. CASE Pushes(t)
    BY <1>1, <2>1, RecordStep, KeptPushed DEF PushedAs
  <2>2. CASE Link(t)
    <3>1. Storing' => Storing
      BY <2>2, LinkStep DEF Storing
    <3>2. QED
      BY <1>1, <2>2, <3>1, LinkStep, KeptUnpushed
  <2>3. CASE ProcessExits(t)
    <3>1. log' = log /\ toDb' = toDb /\ exiter = NoThread /\ local' = local /\ lists' = lists
      BY <2>3 DEF ProcessExits, init
    <3>2. toDb = <<>> /\ \A u \in Threads : List(u)' = List(u)
      BY <3>1 DEF Kept, List
    <3>3. QED
      BY <1>1, <3>1, <3>2, KeptUnpushed
  <2>4. QED
    BY <1>6, <2>1, <2>2, <2>3 DEF ThreadStep, QuietStep, Pushes
<1>7. QED
  BY <1>2, <1>3, <1>4, <1>5, <1>6, QuietSteps DEF Next, ExitStep, QuietExit

-----------------------------------------------------------------------------
(* The inductive invariant behind the theorems about what is stored.       *)
LogInv == Typed /\ Ready /\ Exiting /\ Own /\ Kept

(* Every step keeps the invariant of the logs.                             *)
LEMMA LogInvStep ==
  ASSUME LogInv, [Next]_vars
  PROVE  LogInv'
<1>1. Typed' /\ Ready' /\ Exiting'
  BY TypedStep DEF LogInv
<1>2. Own'
  BY OwnStep DEF LogInv
<1>3. Kept'
  BY <1>1, KeptStep DEF LogInv
<1>4. QED
  BY <1>1, <1>2, <1>3 DEF LogInv

(* Types, order of calls, ownership of the lists, and what lists and       *)
(* stored runs keep of the logs hold in every reachable state.             *)
THEOREM LogInvariant == Spec => []LogInv
<1>1. Init => LogInv
  BY TypedInit, OwnInit, KeptInit DEF LogInv
<1>2. LogInv /\ [Next]_vars => LogInv'
  BY LogInvStep
<1>3. QED
  BY <1>1, <1>2, PTL DEF Spec

(* A push is an event of ProfileLog, the steps of the handler that store   *)
(* are its stores.                                                         *)
LEMMA PushRecords ==
  ASSUME Typed, Kept, NEW t \in Threads, NEW type, PushedAs(t, type), toDb' = toDb, exiter' = exiter
  PROVE  Profile!Record(t)
<1>1. PICK e \in EventType : Pushed(t, e)
  BY DEF PushedAs
<1>2. log[t] \in Seq(EventType) /\ Ascending(log[t]) /\ log'[t] = Append(log[t], e)
  BY <1>1 DEF Typed, Kept, Pushed
<1>3. /\ e \notin ToSet(log[t]) /\ Len(log'[t]) = Len(log[t]) + 1
      /\ Front(log'[t]) = log[t] /\ Last(log'[t]) = e
  BY <1>1, <1>2, AscendingAppend DEF Pushed
<1>4. log' = [log EXCEPT ![t] = log'[t]]
  BY <1>1, <1>2 DEF Pushed
<1>5. QED
  BY <1>3, <1>4, Zenon DEF Profile!Record, Profile!Front, Profile!Last, Profile!ToSet, Front, Last, ToSet

(* Storing a run of libpprof is storing the end of a log.                  *)
LEMMA StoreStores ==
  ASSUME LogInv, Store, UseDb
  PROVE  exiter # NoThread /\ \E from \in 1..(Len(log[exiter]) + 1) : Profile!Store(from)
<1>1. /\ exiter \in Threads /\ exiter # NoThread /\ log' = log /\ exiter' = exiter
      /\ log[exiter] \in Seq(EventType)
  BY Assumptions DEF Store, Exiting, LogInv, Typed, NoThread
<1>2. PICK p \in Seq(EventType) :
        toDb' = Append(toDb, p) /\ EndOf(p, log[exiter]) /\ ToSet(p) \cap StoredEvents = {}
  BY StoredPiece DEF LogInv
<1>3. PICK from \in 1..(Len(log[exiter]) + 1) : p = SubSeq(log[exiter], from, Len(log[exiter]))
  BY <1>1, <1>2, EndPiece
<1>4. Profile!Store(from)
  BY <1>1, <1>2, <1>3, Zenon
     DEF Profile!Store, Profile!Stored, Profile!ToSet, StoredEvents, ToSet
<1>5. QED
  BY <1>1, <1>4

(* Every step of libpprof is a step of the log or leaves it alone.         *)
LEMMA Implements ==
  ASSUME LogInv, [Next]_vars
  PROVE  [Profile!Next]_(Profile!vars)
<1>1. CASE Quiet
  BY <1>1 DEF Quiet, Profile!vars
<1>2. CASE Stop
  <2>1. toDb' = toDb /\ exiter' = exiter /\ exiter \in Threads
    BY <1>2, StopStep DEF LogInv
  <2>2. CASE PushedAs(exiter, "RegionExit")
    <3>1. Profile!Record(exiter)
      BY <2>1, <2>2, PushRecords DEF LogInv
    <3>2. QED
      BY <2>1, <3>1 DEF Profile!Next
  <2>3. CASE log' = log
    BY <2>1, <2>3 DEF Profile!vars
  <2>4. QED
    BY <1>2, <2>2, <2>3, StopStep DEF LogInv
<1>3. CASE Store
  <2>1. CASE UseDb
    BY <1>3, <2>1, StoreStores DEF Profile!Next
  <2>2. CASE ~UseDb
    BY <1>3, <2>2 DEF Store, Profile!vars
  <2>3. QED
    BY <2>1, <2>2
<1>4. CASE Clear
  BY <1>4, ClearStep DEF LogInv, Profile!vars
<1>5. ASSUME NEW t \in Threads, ThreadStep(t), ~QuietStep(t) PROVE [Profile!Next]_(Profile!vars)
  <2>1. CASE Pushes(t)
    <3>1. PICK type : PushedAs(t, type) /\ toDb' = toDb /\ exiter' = exiter
      BY <2>1, RecordStep DEF LogInv
    <3>2. Profile!Record(t)
      BY <3>1, PushRecords DEF LogInv
    <3>3. QED
      BY <3>2 DEF Profile!Next
  <2>2. CASE Link(t)
    BY <2>2, LinkStep DEF LogInv, Profile!vars
  <2>3. CASE ProcessExits(t)
    <3>1. Profile!Exit(t)
      BY <2>3 DEF ProcessExits, Profile!Exit
    <3>2. QED
      BY <3>1 DEF Profile!Next
  <2>4. QED
    BY <1>5, <2>1, <2>2, <2>3 DEF ThreadStep, QuietStep, Pushes
<1>6. QED
  BY <1>1, <1>2, <1>3, <1>4, <1>5, QuietSteps DEF Next, ExitStep, QuietExit

(***************************************************************************)
(* The runtime implements ProfileLog, for any threads that race for the    *)
(* map and however often the handler has been registered: what is stored   *)
(* are pieces of the exiting thread's log, each up to its end and without  *)
(* gaps, and no event is stored twice.                                     *)
(***************************************************************************)
THEOREM LogImplemented == Spec => ImplementsProfileLog
<1>1. Init => Profile!Init
  BY DEF Init, Profile!Init
<1>2. LogInv /\ [Next]_vars => [Profile!Next]_(Profile!vars)
  BY Implements
<1>3. QED
  BY <1>1, <1>2, LogInvariant, PTL DEF Spec, ImplementsProfileLog, Profile!Spec

-----------------------------------------------------------------------------
(* STOP is the last event of the list when the handler has come as far as  *)
(* to push it, and there is none on a list before: every piece that is     *)
(* stored ends with its only STOP.                                         *)
Unstopped(p) == \A i \in 1..Len(p) : p[i].type # "RegionExit"
Stopped(p) ==
  /\ p # <<>> /\ Last(p).type = "RegionExit" /\ Last(p).id = Total
  /\ \A i \in 1..(Len(p) - 1) : p[i].type # "RegionExit"
Stopping == phase \in {"copy", "store", "clear"}
Stops ==
  phase \notin {"fault", "closed"} =>
    /\ \A t \in Threads : local[t] # NoList =>
         IF t = exiter /\ Stopping THEN Stopped(List(t)) ELSE Unstopped(List(t))
    /\ \A i \in DOMAIN toDb : Ascending(toDb[i]) /\ (toDb[i] = <<>> \/ Stopped(toDb[i]))

(* Only the exit of the total stops a list.                                *)
LEMMA UnstoppedAppend ==
  ASSUME NEW p, p \in Seq(EventType), Unstopped(p), NEW e, e \in EventType
  PROVE  /\ e.type # "RegionExit" => Unstopped(Append(p, e))
         /\ e.type = "RegionExit" /\ e.id = Total => Stopped(Append(p, e))
<1>1. PICK n, r : n = Len(p) /\ r = Append(p, e)
  OBVIOUS
<1>2. n \in Nat /\ Len(r) = n + 1 /\ r[n + 1] = e /\ r # <<>> /\ \A i \in 1..n : r[i] = p[i]
  BY <1>1
<1>3. \A i \in 1..n : r[i].type # "RegionExit"
  BY <1>1, <1>2 DEF Unstopped
<1>4. 1..(n + 1) = 1..n \cup {n + 1} /\ (n + 1) - 1 = n
  BY <1>2
<1>5. e.type # "RegionExit" => Unstopped(r)
  BY <1>2, <1>3, <1>4 DEF Unstopped
<1>6. Last(r) = e
  BY <1>2, Zenon DEF Last
<1>7. e.type = "RegionExit" /\ e.id = Total => Stopped(r)
  BY <1>2, <1>3, <1>4, <1>6 DEF Stopped
<1>8. QED
  BY <1>1, <1>5, <1>7

(* A push keeps exits of the total at the ends of lists.                   *)
LEMMA StopsPushed ==
  ASSUME Typed, Stops, NEW t \in Threads, NEW type, PushedAs(t, type),
         toDb' = toDb, exiter' = exiter, phase \notin {"fault", "closed"},
         t = exiter => ~Stopping,
         \/ type # "RegionExit" /\ phase' = phase /\ t # exiter
         \/ type = "RegionExit" /\ phase = "exit" /\ phase' = "copy" /\ t = exiter
  PROVE  Stops'
<1>1. PICK e \in EventType :
        e.type = type /\ (type = "RegionExit" => e.id = Total) /\ Pushed(t, e)
  BY DEF PushedAs
<1>2. List(t) \in Seq(EventType) /\ List(t)' = Append(List(t), e) /\ local' = local
      /\ local[t] # NoList /\ \A u \in Threads : u # t /\ local[u] # NoList => List(u)' = List(u)
  BY <1>1, ListTyped DEF Pushed
<1>3. Unstopped(List(t))
  BY <1>2 DEF Stops
<1>4. /\ type # "RegionExit" => Unstopped(List(t)')
      /\ type = "RegionExit" => Stopped(List(t)')
  BY <1>1, <1>2, <1>3, UnstoppedAppend
<1>5. Stopping' <=> Stopping \/ type = "RegionExit"
  BY DEF Stopping
<1>6. ASSUME NEW u \in Threads, local'[u] # NoList
      PROVE  IF u = exiter /\ Stopping' THEN Stopped(List(u)') ELSE Unstopped(List(u)')
  <2>1. CASE u = t
    BY <1>4, <1>5, <2>1
  <2>2. CASE u # t
    <3>1. List(u)' = List(u) /\ local[u] # NoList
      BY <1>2, <1>6, <2>2
    <3>2. u = exiter => (Stopping' <=> Stopping)
      BY <1>5, <2>2
    <3>3. QED
      BY <3>1, <3>2 DEF Stops
  <2>3. QED
    BY <2>1, <2>2
<1>7. \A i \in DOMAIN toDb : Ascending(toDb[i]) /\ (toDb[i] = <<>> \/ Stopped(toDb[i]))
  BY DEF Stops
<1>8. QED
  BY <1>6, <1>7 DEF Stops

(* Every step keeps exits of the total at the ends of lists.               *)
LEMMA StopsStep ==
  ASSUME LogInv, Stops, [Next]_vars
  PROVE  Stops'
<1>1. Typed /\ Ready /\ Exiting /\ Own /\ Kept
  BY DEF LogInv
<1>2. CASE Quiet
  <2>1. /\ toDb' = toDb /\ exiter' = exiter /\ local' = local /\ \A u \in Threads : List(u)' = List(u)
    BY <1>2 DEF Quiet, List
  <2>2. phase' \notin {"fault", "closed"} => phase \notin {"fault", "closed"} /\ (Stopping' <=> Stopping)
    BY <1>2 DEF Quiet, Stopping
  <2>3. QED
    BY <2>1, <2>2 DEF Stops
<1>3. CASE Stop
  <2>1. CASE phase' = "copy" /\ PushedAs(exiter, "RegionExit")
    <3>1. toDb' = toDb /\ exiter' = exiter /\ exiter \in Threads /\ phase = "exit" /\ ~Stopping
      BY <1>1, <1>3, StopStep DEF Stopping
    <3>2. QED
      BY <1>1, <2>1, <3>1, StopsPushed
  <2>2. CASE phase' = "fault"
    BY <2>2 DEF Stops
  <2>3. CASE phase' = "exit" /\ lists' = lists /\ local' = local
    <3>1. toDb' = toDb /\ exiter' = exiter /\ phase = "exit" /\ \A u \in Threads : List(u)' = List(u)
      BY <1>1, <1>3, <2>3, StopStep DEF List
    <3>2. ~Stopping /\ ~Stopping' /\ phase \notin {"fault", "closed"}
      BY <2>3, <3>1 DEF Stopping
    <3>3. QED
      BY <2>3, <3>1, <3>2 DEF Stops
  <2>4. QED
    BY <1>1, <1>3, <2>1, <2>2, <2>3, StopStep
<1>4. CASE Store
  <2>1. /\ exiter \in Threads /\ local[exiter] # NoList /\ phase = "store" /\ phase' = "clear"
        /\ exiter' = exiter /\ local' = local
    BY <1>1, <1>4, StoreStep
  <2>2. \A u \in Threads : local[u] # NoList => List(u)' = List(u)
    BY <1>1, <1>4, StoreStep
  <2>3. Stopping /\ Stopping' /\ phase \notin {"fault", "closed"}
    BY <2>1 DEF Stopping
  <2>4. \A u \in Threads : local'[u] # NoList =>
          IF u = exiter' /\ Stopping' THEN Stopped(List(u)') ELSE Unstopped(List(u)')
    BY <2>1, <2>2, <2>3 DEF Stops
  <2>5. ASSUME NEW i \in DOMAIN toDb'
        PROVE  Ascending(toDb'[i]) /\ (toDb'[i] = <<>> \/ Stopped(toDb'[i]))
    <3>1. CASE UseDb
      <4>1. PICK p \in Seq(EventType) :
              toDb' = Append(toDb, p) /\ (p = <<>> \/ p = List(exiter)) /\ EndOf(p, log[exiter])
        BY <1>1, <1>4, <3>1, StoredPiece
      <4>2. Ascending(p)
        <5>1. log[exiter] \in Seq(EventType) /\ Ascending(log[exiter])
          BY <1>1, <2>1 DEF Typed, Kept
        <5>2. QED
          BY <4>1, <5>1, AscendingEnd
      <4>3. p = <<>> \/ Stopped(p)
        BY <2>1, <2>3, <4>1 DEF Stops
      <4>4. toDb'[i] = p \/ (i \in DOMAIN toDb /\ toDb'[i] = toDb[i])
        <5>1. PICK n : n = Len(toDb)
          OBVIOUS
        <5>2. /\ n \in Nat /\ DOMAIN toDb = 1..n /\ DOMAIN toDb' = 1..(n + 1) /\ toDb'[n + 1] = p
              /\ \A k \in 1..n : toDb'[k] = toDb[k]
          BY <1>1, <4>1, <5>1 DEF Typed
        <5>3. i \in 1..n \/ i = n + 1
          BY <2>5, <5>2
        <5>4. QED
          BY <5>2, <5>3
      <4>5. QED
        BY <2>3, <4>2, <4>3, <4>4 DEF Stops
    <3>2. CASE ~UseDb
      BY <1>4, <2>3, <2>5, <3>2 DEF Store, Stops
    <3>3. QED
      BY <3>1, <3>2
  <2>6. QED
    BY <2>4, <2>5 DEF Stops
<1>5. CASE Clear
  <2>1. /\ toDb' = toDb /\ exiter' = exiter /\ local' = local
        /\ exiter \in Threads /\ phase = "clear" /\ phase' = "exit"
        /\ local[exiter] # NoList /\ List(exiter)' = <<>>
        /\ \A u \in Threads : u # exiter /\ local[u] # NoList => List(u)' = List(u)
    BY <1>1, <1>5, ClearStep
  <2>2. ~Stopping' /\ phase \notin {"fault", "closed"} /\ Unstopped(<<>>)
    BY <2>1 DEF Stopping, Unstopped
  <2>3. QED
    BY <2>1, <2>2 DEF Stops
<1>6. ASSUME NEW t \in Threads, ThreadStep(t), ~QuietStep(t) PROVE Stops'
  <2>1. CASE Pushes(t)
    <3>1. PICK type \in {"RegionEnter", "ScopEnter", "ScopExit"} : PushedAs(t, type)
      BY <1>1, <2>1, RecordStep
    <3>2. toDb' = toDb /\ exiter' = exiter /\ phase' = phase /\ exiter # t
      BY <1>1, <2>1, RecordStep
    <3>3. phase \notin {"fault", "closed"}
      BY <2>1 DEF Pushes, Start, Record, Exit, Stray, At, InUserCode, Runs
    <3>4. QED
      BY <1>1, <3>1, <3>2, <3>3, StopsPushed
  <2>2. CASE Link(t)
    <3>1. /\ toDb' = toDb /\ exiter' = exiter /\ phase' = phase /\ exiter # t
          /\ \A u \in Threads : local'[u] # NoList =>
               (u = t /\ List(u)' = <<>>) \/ (local[u] # NoList /\ List(u)' = List(u))
      BY <1>1, <2>2, LinkStep
    <3>2. (Stopping' <=> Stopping) /\ Unstopped(<<>>)
      BY <3>1 DEF Stopping, Unstopped
    <3>3. QED
      BY <3>1, <3>2 DEF Stops
  <2>3. CASE ProcessExits(t)
    <3>1. /\ local' = local /\ toDb' = toDb /\ phase' = "exit" /\ phase \in {"running", "fault"}
          /\ \A u \in Threads : List(u)' = List(u)
      BY <1>1, <2>3 DEF ProcessExits, init, List, Exiting
    <3>2. ~Stopping' /\ ~Stopping /\ phase \notin {"fault", "closed"}
      BY <2>3, <3>1 DEF Stopping, ProcessExits, InUserCode, Runs
    <3>3. QED
      BY <3>1, <3>2 DEF Stops
  <2>4. QED
    BY <1>6, <2>1, <2>2, <2>3 DEF ThreadStep, QuietStep, Pushes
<1>7. QED
  BY <1>2, <1>3, <1>4, <1>5, <1>6, QuietSteps DEF Next, ExitStep, QuietExit

(* It always holds.                                                        *)
LEMMA StopsAlways == Spec => []Stops
<1>1. Init => Stops
  BY DEF Init, Stops, Nothing, NoList
<1>2. LogInv /\ Stops /\ [Next]_vars => Stops'
  BY StopsStep
<1>3. QED
  BY <1>1, <1>2, LogInvariant, PTL DEF Spec

(* Recorded events are events to the analysis.                             *)
LEMMA RecordedIsRaw ==
  ASSUME NEW p, p \in Seq(EventType)
  PROVE  p \in Seq(RawEvent)
<1>1. EventType \subseteq RawEvent
  <2>1. AllIds \cup {Total} \subseteq Int
    BY Assumptions DEF AllIds, Total
  <2>2. QED
    BY <2>1 DEF EventType, RawEvent
<1>2. QED
  BY <1>1

(* The property follows: events lie between the enter and the exit of the  *)
(* total.                                                                  *)
LEMMA WithinTotal ==
  ASSUME LogInv, Stops
  PROVE  ScopsWithinTotal
<1>1. SUFFICES ASSUME phase = "over", NEW i \in DOMAIN toDb, BeginsWithStart(toDb[i])
               PROVE  SimpleTime(SimplifiedRun(toDb[i])) <= SimpleTotal(SimplifiedRun(toDb[i]))
  BY DEF ScopsWithinTotal
<1>2. PICK p : p = toDb[i]
  OBVIOUS
<1>3. p \in Seq(RawEvent)
  <2>1. toDb \in Seq(Seq(EventType)) /\ DOMAIN toDb = 1..Len(toDb)
    BY DEF LogInv, Typed
  <2>2. p \in Seq(EventType)
    BY <1>1, <1>2, <2>1, ElementOfSeq
  <2>3. QED
    BY <2>2, RecordedIsRaw
<1>4. Ascending(p) /\ Stopped(p)
  BY <1>1, <1>2 DEF Stops, BeginsWithStart
<1>5. /\ p # <<>> /\ p[1].id = Total /\ p[1].type = "RegionEnter"
  BY <1>1, <1>2 DEF BeginsWithStart
<1>6. /\ p[Len(p)].id = Total /\ p[Len(p)].type = "RegionExit"
      /\ \A j \in 1..(Len(p) - 1) : ~ (p[j].id = Total /\ p[j].type = "RegionExit")
  BY <1>4 DEF Stopped, Last
<1>7. QED
  BY <1>2, <1>3, <1>4, <1>5, <1>6, TimeWithinTotal

(***************************************************************************)
(* Whatever scops a thread leaves open, leaves by an exception or enters   *)
(* recursively, and whatever the other threads do: in a stored run that    *)
(* begins with its START the time in scops is at most the total.           *)
(***************************************************************************)
THEOREM TimesWithinTotal == Spec => []ScopsWithinTotal
<1>1. LogInv /\ Stops => ScopsWithinTotal
  BY WithinTotal
<1>2. QED
  BY <1>1, LogInvariant, StopsAlways, PTL

(***************************************************************************)
(* What the analysis of raw events adds up over a well-nested log is the   *)
(* time in which a scop was open, recursive scops included: what is taken  *)
(* off a scop for those below it is what they took, whatever the ids.      *)
(***************************************************************************)
THEOREM RawTimesCovered == Spec => []RawTimeCovered
<1>1. TypeOK => RawTimeCovered
  <2>1. SUFFICES ASSUME TypeOK, NEW t \in Threads, WellNested(log[t])
                 PROVE  RawTime(log[t]) = Covered(log[t])
    BY DEF RawTimeCovered
  <2>2. PICK p : p = log[t]
    OBVIOUS
  <2>3. p \in Seq(EventType)
    BY <2>1, <2>2 DEF TypeOK
  <2>4. p \in Seq(RawEvent) /\ WellNested(p)
    BY <2>1, <2>2, <2>3, RecordedIsRaw
  <2>5. QED
    BY <2>2, <2>4, RawTimeIsCovered
<1>2. QED
  BY <1>1, TypeCorrect, PTL

(***************************************************************************)
(* What the analysis of simplified events adds up over a stored run that   *)
(* is well-nested, with no scop entered within one of its id, is the time  *)
(* in which a scop was open: the first scop that starts after the end of   *)
(* the last one counted is an outermost one, and the next exit of its id   *)
(* its own.                                                                *)
(***************************************************************************)
THEOREM SimpleTimesCovered == Spec => []SimpleTimeCovered
<1>1. TypeOK /\ Stops => SimpleTimeCovered
  <2>1. SUFFICES ASSUME TypeOK, Stops, phase = "over", NEW i \in DOMAIN toDb,
                        WellNested(toDb[i]), ~Recursive(toDb[i])
                 PROVE  SimpleTime(SimplifiedRun(toDb[i])) = Covered(toDb[i])
    BY DEF SimpleTimeCovered
  <2>2. PICK p : p = toDb[i]
    OBVIOUS
  <2>3. p \in Seq(EventType)
    <3>1. toDb \in Seq(Seq(EventType)) /\ DOMAIN toDb = 1..Len(toDb)
      BY <2>1 DEF TypeOK
    <3>2. QED
      BY <2>1, <2>2, <3>1, ElementOfSeq
  <2>4. p \in Seq(RawEvent) /\ Ascending(p) /\ WellNested(p) /\ ~Recursive(p)
    BY <2>1, <2>2, <2>3, RecordedIsRaw DEF Stops
  <2>5. QED
    BY <2>2, <2>4, SimpleTimeIsCovered
<1>2. QED
  BY <1>1, TypeCorrect, StopsAlways, PTL

-----------------------------------------------------------------------------
(* A process in which nobody but t has called the library, and nobody else *)
(* has exited.                                                             *)
Solo(t) ==
  /\ UseDb /\ ExecuteAtexit /\ exiter \in {NoThread, t}
  /\ \A u \in Threads : u # t => local[u] = NoList /\ todo[u] = <<>>

(* The map has its list, and it is about to link what it has just seen.    *)
Attached(t) ==
  /\ node[t] = local[t]
  /\ \A i \in DOMAIN todo[t] : todo[t][i] = "link" =>
       /\ i = 1 => seen[t][t] = local[t]
       /\ i # 1 => todo[t][i - 1] = "search"

(* It records nothing before it has registered the handler.                *)
Registered(t) ==
  exiter = NoThread /\ atExit = <<>> =>
    /\ Registers(todo[t])
    /\ papiInit => \E i \in DOMAIN todo[t] : todo[t][i] = "register"
    /\ log[t] = <<>> /\ open[t] = <<>>

(* The connection is made when the first run is stored, and closed before  *)
(* any other handler runs.                                                 *)
Connected(t) ==
  /\ exiter = NoThread => db = "none"
  /\ db = "none" <=> toDb = <<>>
  /\ db = "none" => \A i \in DOMAIN atExit : atExit[i] = "handler"
  /\ db = "open" => phase \in {"clear", "exit"} /\ atExit # <<>> /\ Last(atExit) = "destructor"
  /\ Len(toDb) <= 1

(* Before the first run is stored all it has recorded is on its list, and  *)
(* then in the database, but for the STOP of a second run of the handler.  *)
Whole(t) == IF local[t] = NoList THEN log[t] = <<>> ELSE List(t) = log[t]
Complete(t) ==
  IF toDb = <<>>
  THEN /\ phase \notin {"clear", "closed"} /\ Whole(t)
       /\ phase = "over" \/ (phase = "exit" /\ atExit = <<>>) => log[t] = <<>>
  ELSE /\ phase \in {"clear", "exit", "over"} => FlattenSeq(toDb) = log[t]
       /\ phase \in {"copy", "store", "closed"} => FlattenSeq(toDb) = Front(log[t])
SoloInv ==
  phase # "fault" =>
    \A t \in Threads : Solo(t) => Attached(t) /\ Registered(t) /\ Connected(t) /\ Complete(t)

(* A thread that has called the library stays one that has.                *)
LEMMA SoloBefore ==
  ASSUME LogInv, [Next]_vars, NEW t \in Threads, Solo(t)'
  PROVE  Solo(t)
<1>1. Typed /\ Ready /\ Exiting /\ Own
  BY DEF LogInv
<1>2. Main \in Threads
  BY Assumptions
<1>3. ASSUME NEW u \in Threads, local'[u] = NoList, todo'[u] = <<>>
      PROVE  local[u] = NoList /\ todo[u] = <<>>
  <2>1. CASE MainBegins
    <3>1. todo' = [todo EXCEPT ![Main] = Setup(Main)] /\ local' = local /\ Setup(Main) # <<>>
      BY <1>2, <2>1, SetupWellFormed DEF MainBegins, init
    <3>2. u # Main
      BY <1>1, <1>2, <1>3, <3>1 DEF Typed
    <3>3. QED
      BY <1>1, <1>3, <3>1, <3>2 DEF Typed
  <2>2. CASE ExitStep \/ UNCHANGED vars
    <3>1. todo' = todo /\ local' = local
      BY <2>2 DEF ExitStep, Disconnect, ProcessEnds, StoreFault, NoConnection, Stop, Copy, Store,
                  Clear, vars, calls, init
    <3>2. QED
      BY <1>3, <3>1
  <2>3. ASSUME NEW s \in Threads, ThreadStep(s) PROVE local[u] = NoList /\ todo[u] = <<>>
    <3>1. CASE SetFlag(s) \/ Search(s) \/ Link(s) \/ Register(s)
      <4>1. /\ todo[s] # <<>> /\ Advance(s) /\ Head(todo[s]) \notin {"start", "record"}
            /\ s # u => local'[u] = local[u]
        BY <1>1, <3>1, LinkStep DEF SetFlag, Search, Link, Register, At, init
      <4>2. todo'[s] # <<>> /\ todo' = [todo EXCEPT ![s] = Tail(todo[s])]
        BY <1>1, <4>1, AdvanceStep
      <4>3. QED
        BY <1>1, <1>3, <4>1, <4>2 DEF Typed
    <3>2. CASE Pushes(s)
      <4>1. local[s] # NoList /\ local' = local
        BY <1>1, <3>2, Pushing DEF Pushes, Start, Record, Exit, Stray, init
      <4>2. todo' = todo \/ todo' = [todo EXCEPT ![s] = Tail(todo[s])]
        BY <3>2 DEF Pushes, Start, Record, Exit, Stray, Advance
      <4>3. QED
        BY <1>1, <1>3, <4>1, <4>2 DEF Typed
    <3>3. CASE Unwind(s) \/ ProcessExits(s) \/ CopyFault(s) \/ StrayFault(s)
      BY <1>3, <3>3 DEF Unwind, ProcessExits, CopyFault, StrayFault, calls, init
    <3>4. CASE \E id \in Ids[s] : Enter(s, id)
      <4>1. PICK c : c = ThreadInitOnce(s) \o <<"record">>
        OBVIOUS
      <4>2. todo' = [todo EXCEPT ![s] = c] /\ local' = local
        BY <3>4, <4>1 DEF Enter, init
      <4>3. c # <<>>
        BY <1>1, <4>1, EnterWellFormed DEF Ready, ReadyThread, Typed
      <4>4. QED
        BY <1>1, <1>3, <4>2, <4>3 DEF Typed
    <3>5. QED
      BY <2>3, <3>1, <3>2, <3>3, <3>4 DEF ThreadStep, Pushes
  <2>4. QED
    BY <2>1, <2>2, <2>3 DEF Next
<1>4. exiter' = exiter \/ exiter = NoThread
  BY DEF Next, ThreadStep, ExitStep, MainBegins, Disconnect, ProcessEnds, StoreFault, NoConnection,
         Stop, Copy, Store, Clear, SetFlag, Search, Link, Register, Start, Record, Exit, Unwind,
         Stray, StrayFault, ProcessExits, CopyFault, Enter, vars, ending
<1>5. QED
  BY <1>3, <1>4 DEF Solo

(* In such a process only t, and the handler it is in, do anything.        *)
LEMMA SoloActs ==
  ASSUME LogInv, [Next]_vars, NEW t \in Threads, Solo(t)', phase' # "fault"
  PROVE  UNCHANGED vars \/ (t = Main /\ MainBegins) \/ ExitStep \/ ThreadStep(t)
<1>1. Typed /\ Ready /\ Exiting /\ Own /\ Solo(t)
  BY SoloBefore DEF LogInv
<1>2. Main \in Threads
  BY Assumptions
<1>3. CASE MainBegins
  <2>1. todo' = [todo EXCEPT ![Main] = Setup(Main)] /\ Setup(Main) # <<>>
    BY <1>2, <1>3, SetupWellFormed DEF MainBegins
  <2>2. todo'[Main] # <<>>
    BY <1>1, <1>2, <2>1 DEF Typed
  <2>3. QED
    BY <1>2, <1>3, <2>2 DEF Solo
<1>4. ASSUME NEW u \in Threads, ThreadStep(u), u # t PROVE FALSE
  <2>1. local[u] = NoList /\ todo[u] = <<>> /\ todo'[u] = <<>> /\ exiter' # u
    BY <1>1, <1>4, Assumptions DEF Solo, NoThread
  <2>2. open[u] = <<>>
    BY <1>1, <2>1 DEF Ready, ReadyThread
  <2>3. PICK id \in Ids[u] : Enter(u, id)
    BY <1>4, <2>1, <2>2 DEF ThreadStep, SetFlag, Search, Link, Register, Start, Record, Exit, Unwind,
                            Stray, StrayFault, At, ProcessExits, CopyFault
  <2>4. PICK c : c = ThreadInitOnce(u) \o <<"record">>
    OBVIOUS
  <2>5. c # <<>>
    BY <1>1, <2>4, EnterWellFormed DEF Ready, ReadyThread, Typed
  <2>6. QED
    BY <1>1, <2>1, <2>3, <2>4, <2>5 DEF Enter, Typed
<1>5. QED
  BY <1>3, <1>4 DEF Next

(* The steps of the calls of the library.                                  *)
CallStep(t) ==
  SetFlag(t) \/ Search(t) \/ Link(t) \/ Register(t) \/ Start(t) \/ Record(t)

(* A step of a call takes the first of its steps away.                     *)
LEMMA CallAdvances ==
  ASSUME LogInv, NEW t \in Threads, CallStep(t)
  PROVE  /\ todo[t] # <<>> /\ Advance(t) /\ t # exiter /\ todo'[t] \in Seq(StepNames)
         /\ todo'[t] # <<>> => Last(todo'[t]) \in {"start", "record"} /\ Head(todo'[t]) # "flag"
         /\ todo'[t] = <<>> => Head(todo[t]) \in {"start", "record"}
         /\ 1 \in DOMAIN todo[t] /\ todo[t][1] = Head(todo[t])
         /\ Len(todo[t]) \in Nat /\ Len(todo'[t]) = Len(todo[t]) - 1
         /\ \A i \in DOMAIN todo'[t] :
              /\ i \in Nat /\ i + 1 \in DOMAIN todo[t] /\ i + 1 # 1 /\ todo'[t][i] = todo[t][i + 1]
              /\ \A j \in 1..i : j # 1 => j - 1 \in 1..(i - 1) /\ todo[t][j] = todo'[t][j - 1]
<1>1. todo[t] # <<>> /\ Advance(t) /\ t # exiter
  BY DEF CallStep, SetFlag, Search, Link, Register, Start, Record, At, Runs
<1>2. todo'[t] \in Seq(StepNames)
  BY <1>1, AdvanceStep DEF LogInv, Typed
<1>3. QED
  BY <1>1, <1>2, AdvanceStep DEF LogInv

(* What is about to be linked next was looked up just now.                 *)
LEMMA AttachedAdvance ==
  ASSUME LogInv, NEW t \in Threads, CallStep(t), Attached(t), node'[t] = local'[t],
         Head(todo[t]) = "search" => seen'[t][t] = local'[t]
  PROVE  Attached(t)'
<1>1. /\ 1 \in DOMAIN todo[t] /\ todo[t][1] = Head(todo[t])
      /\ \A i \in DOMAIN todo'[t] :
           /\ i \in Nat /\ i + 1 \in DOMAIN todo[t] /\ i + 1 # 1 /\ todo'[t][i] = todo[t][i + 1]
           /\ \A j \in 1..i : j # 1 => j - 1 \in 1..(i - 1) /\ todo[t][j] = todo'[t][j - 1]
  BY CallAdvances
<1>2. ASSUME NEW i \in DOMAIN todo'[t], todo'[t][i] = "link"
      PROVE  /\ i = 1 => seen'[t][t] = local'[t]
             /\ i # 1 => todo'[t][i - 1] = "search"
  <2>1. PICK k : k = i + 1
    OBVIOUS
  <2>2. k \in DOMAIN todo[t] /\ k # 1 /\ todo[t][k] = "link" /\ k - 1 = i /\ i \in 1..i
    <3>1. i \in Nat /\ i \in 1..Len(todo'[t])
      BY <1>1, CallAdvances
    <3>2. QED
      BY <1>1, <1>2, <2>1, <3>1
  <2>3. todo[t][k - 1] = "search"
    BY <2>2 DEF Attached
  <2>4. QED
    BY <1>1, <2>2, <2>3
<1>3. QED
  BY <1>2 DEF Attached

(* While one thread is alone its list stays the one it has linked.         *)
LEMMA AttachedStep ==
  ASSUME LogInv, [Next]_vars, NEW t \in Threads, Solo(t), Solo(t)', Attached(t), phase' # "fault"
  PROVE  Attached(t)'
<1>1. Typed /\ Ready /\ Exiting /\ Own
  BY DEF LogInv
<1>2. CASE UNCHANGED vars \/ Stop \/ Clear \/ QuietExit
  BY <1>2 DEF Stop, Clear, QuietExit, Copy, Disconnect, ProcessEnds, StoreFault, NoConnection, vars,
              calls, init, Attached
<1>3. CASE t = Main /\ MainBegins
  <2>1. PICK c : c = Setup(Main)
    OBVIOUS
  <2>2. WellFormed(c, threadInit[t]) /\ todo'[t] = c
    BY <1>1, <1>3, <2>1, SetupWellFormed DEF MainBegins, Typed
  <2>3. node'[t] = local'[t]
    BY <1>3 DEF MainBegins, init, Attached
  <2>4. QED
    BY <2>2, <2>3 DEF Attached, WellFormed
<1>4. CASE Store
  <2>1. local[exiter] # NoList /\ exiter = t
    BY <1>1, <1>4, Assumptions DEF Store, Exiting, Solo, NoThread
  <2>2. exiter \in Nodes
    BY <1>1, <2>1 DEF Nodes, Attached, NoList
  <2>3. node' = node /\ local' = local /\ seen' = seen /\ todo' = todo
    BY <1>4, <2>2 DEF Store, calls
  <2>4. QED
    BY <2>3 DEF Attached
<1>5. CASE SetFlag(t) \/ Register(t) \/ Start(t) \/ Record(t)
  <2>1. node' = node /\ local' = local /\ CallStep(t) /\ Head(todo[t]) # "search"
    BY <1>5 DEF SetFlag, Register, Start, Record, At, init, CallStep
  <2>2. QED
    BY <2>1, AttachedAdvance DEF Attached
<1>6. CASE Search(t)
  <2>1. node' = node /\ local' = local /\ CallStep(t) /\ seen' = [seen EXCEPT ![t] = node]
    BY <1>6 DEF Search, CallStep
  <2>2. seen'[t][t] = local'[t] /\ node'[t] = local'[t]
    BY <1>1, <2>1 DEF Typed, Attached
  <2>3. QED
    BY <2>1, <2>2, AttachedAdvance
<1>7. CASE Link(t)
  <2>1. CallStep(t) /\ Head(todo[t]) = "link"
    BY <1>7 DEF Link, At, CallStep
  <2>2. node'[t] = local'[t]
    <3>1. CASE Found(t) # NoList
      <4>1. local' = [local EXCEPT ![t] = Found(t)] /\ node' = node
        BY <1>7, <3>1 DEF Link
      <4>2. local' = local
        BY <1>1, <3>1, <4>1 DEF Own, Typed, Found
      <4>3. QED
        BY <4>1, <4>2 DEF Attached
    <3>2. CASE Found(t) = NoList
      <4>1. PICK map \in {node, Undone(t)} : node' = [map EXCEPT ![t] = Len(lists')]
        BY <1>7, <3>2 DEF Link
      <4>2. local' = [local EXCEPT ![t] = Len(lists')]
        BY <1>7, <3>2 DEF Link
      <4>3. QED
        BY <1>1, <4>1, <4>2 DEF Typed, Undone
    <3>3. QED
      BY <3>1, <3>2
  <2>3. QED
    BY <2>1, <2>2, AttachedAdvance
<1>8. CASE \/ Exit(t) \/ Unwind(t) \/ ProcessExits(t) \/ CopyFault(t) \/ StrayFault(t)
           \/ \E id \in Ids[t] : Stray(t, id)
  BY <1>8 DEF Exit, Unwind, ProcessExits, CopyFault, Stray, StrayFault, calls, init, Attached
<1>9. ASSUME NEW id \in Ids[t], Enter(t, id) PROVE Attached(t)'
  <2>1. PICK c : c = ThreadInitOnce(t) \o <<"record">>
    OBVIOUS
  <2>2. todo'[t] = c /\ node' = node /\ local' = local
    BY <1>1, <1>9, <2>1 DEF Enter, init, Typed
  <2>3. WellFormed(c, threadInit[t])
    BY <1>1, <2>1, EnterWellFormed DEF Ready, ReadyThread, Typed
  <2>4. QED
    BY <2>2, <2>3 DEF Attached, WellFormed
<1>10. QED
  BY <1>2, <1>3, <1>4, <1>5, <1>6, <1>7, <1>8, <1>9, SoloActs
     DEF ThreadStep, ExitStep, QuietExit

(* As long as the handler is not registered, that is still to be done.     *)
LEMMA RegisteredAdvance ==
  ASSUME LogInv, NEW t \in Threads, CallStep(t), Registered(t), exiter' = exiter,
         atExit' = atExit, papiInit' = papiInit \/ Head(todo[t]) = "flag",
         Head(todo[t]) # "register", log' = log, open' = open
  PROVE  Registered(t)'
<1>1. SUFFICES ASSUME exiter = NoThread, atExit = <<>>
               PROVE  /\ Registers(todo'[t])
                      /\ \E i \in DOMAIN todo'[t] : todo'[t][i] = "register"
                      /\ log'[t] = <<>> /\ open'[t] = <<>>
  BY DEF Registered
<1>2. /\ 1 \in DOMAIN todo[t] /\ todo[t][1] = Head(todo[t])
      /\ Len(todo[t]) \in Nat /\ Len(todo'[t]) = Len(todo[t]) - 1
      /\ todo'[t] # <<>> => Last(todo'[t]) \in {"start", "record"}
      /\ todo'[t] = <<>> => Head(todo[t]) \in {"start", "record"}
      /\ \A i \in DOMAIN todo'[t] :
           /\ i \in Nat /\ i + 1 \in DOMAIN todo[t] /\ i + 1 # 1 /\ todo'[t][i] = todo[t][i + 1]
           /\ \A j \in 1..i : j # 1 => j - 1 \in 1..(i - 1) /\ todo[t][j] = todo'[t][j - 1]
  BY CallAdvances
<1>3. Registers(todo[t]) /\ log[t] = <<>> /\ open[t] = <<>>
  BY <1>1 DEF Registered
<1>4. ASSUME NEW i \in DOMAIN todo'[t], todo'[t][i] \in {"start", "record"}
      PROVE  \E j \in 1..(i - 1) : todo'[t][j] = "register"
  <2>1. PICK k : k = i + 1
    OBVIOUS
  <2>2. k \in DOMAIN todo[t] /\ todo[t][k] \in {"start", "record"} /\ k - 1 = i
    BY <1>2, <1>4, <2>1
  <2>3. PICK j \in 1..(k - 1) : todo[t][j] = "register"
    BY <1>3, <2>2 DEF Registers
  <2>4. j \in 1..i /\ j # 1
    BY <1>2, <2>2, <2>3
  <2>5. QED
    BY <1>2, <2>3, <2>4
<1>5. Registers(todo'[t])
  BY <1>4 DEF Registers
<1>6. Head(todo[t]) \notin {"start", "record"}
  BY <1>2, <1>3 DEF Registers
<1>7. \E i \in DOMAIN todo'[t] : todo'[t][i] = "register"
  <2>1. todo'[t] \in Seq(StepNames) /\ todo'[t] # <<>> /\ Last(todo'[t]) \in {"start", "record"}
    BY <1>2, <1>6, CallAdvances
  <2>2. PICK n : n = Len(todo'[t])
    OBVIOUS
  <2>3. n \in DOMAIN todo'[t] /\ DOMAIN todo'[t] = 1..n /\ n \in Nat
    BY <2>1, <2>2
  <2>4. todo'[t][n] \in {"start", "record"}
    BY <2>1, <2>2, Zenon DEF Last
  <2>5. PICK j \in 1..(n - 1) : todo'[t][j] = "register"
    BY <1>4, <2>3, <2>4
  <2>6. j \in DOMAIN todo'[t]
    BY <2>3, <2>5
  <2>7. QED
    BY <2>5, <2>6
<1>8. QED
  BY <1>3, <1>5, <1>7

(* While one thread is alone the handler stays registered before events    *)
(* are recorded.                                                           *)
LEMMA RegisteredStep ==
  ASSUME LogInv, [Next]_vars, NEW t \in Threads, Solo(t), Solo(t)', Registered(t), phase' # "fault"
  PROVE  Registered(t)'
<1>1. Typed /\ Ready /\ Exiting /\ Own
  BY DEF LogInv
<1>2. CASE UNCHANGED vars \/ ExitStep \/ ProcessExits(t) \/ CopyFault(t)
  <2>1. UNCHANGED vars \/ exiter' # NoThread
    BY <1>1, <1>2, Assumptions DEF ExitStep, Disconnect, Handles, ProcessEnds, StoreFault, NoConnection,
       Copy, Stop, Store, Clear, ProcessExits, CopyFault, Exiting, NoThread
  <2>2. QED
    BY <2>1 DEF Registered, vars, calls, init, ending
<1>3. ASSUME exiter = NoThread, atExit = <<>>, todo[t] = <<>>
      PROVE  papiInit = FALSE /\ log[t] = <<>> /\ open[t] = <<>>
  <2>1. DOMAIN todo[t] = {}
    BY <1>3
  <2>2. QED
    BY <1>1, <1>3, <2>1 DEF Registered, Typed
<1>4. CASE t = Main /\ MainBegins
  <2>1. PICK c : c = Setup(Main)
    OBVIOUS
  <2>2. Registers(c) /\ todo'[t] = c /\ todo[t] = <<>>
    BY <1>1, <1>4, <2>1, SetupWellFormed DEF MainBegins, Typed, InUserCode
  <2>3. exiter' = exiter /\ atExit' = atExit /\ papiInit' = papiInit /\ log' = log /\ open' = open
    BY <1>4 DEF MainBegins, init, ending
  <2>4. QED
    BY <1>3, <2>2, <2>3 DEF Registered
<1>5. CASE SetFlag(t) \/ Search(t) \/ Link(t)
  <2>1. CallStep(t) /\ Head(todo[t]) # "register" /\ exiter' = exiter /\ atExit' = atExit
        /\ log' = log /\ open' = open /\ (papiInit' = papiInit \/ Head(todo[t]) = "flag")
    BY <1>5 DEF SetFlag, Search, Link, CallStep, At, ending
  <2>2. QED
    BY <2>1, RegisteredAdvance
<1>6. CASE Register(t)
  <2>1. atExit' = Append(atExit, "handler") /\ atExit \in Seq({"handler", "destructor"})
    BY <1>1, <1>6 DEF Register, Typed
  <2>2. atExit' # <<>>
    BY <2>1
  <2>3. QED
    BY <2>2 DEF Registered
<1>7. CASE Start(t) \/ Record(t)
  <2>1. exiter' = exiter /\ atExit' = atExit /\ CallStep(t) /\ Head(todo[t]) \in {"start", "record"}
    BY <1>7 DEF Start, Record, At, CallStep, init, ending
  <2>2. ~ (exiter = NoThread /\ atExit = <<>>)
    BY <2>1, CallAdvances DEF Registered, Registers
  <2>3. QED
    BY <2>1, <2>2 DEF Registered
<1>8. CASE Exit(t) \/ Unwind(t)
  <2>1. exiter' = exiter /\ atExit' = atExit /\ open[t] # <<>>
    BY <1>8 DEF Exit, Unwind, init, ending
  <2>2. QED
    BY <2>1 DEF Registered
<1>9. ASSUME NEW id \in Ids[t], Enter(t, id) PROVE Registered(t)'
  <2>1. PICK c : c = ThreadInitOnce(t) \o <<"record">>
    OBVIOUS
  <2>2. /\ todo'[t] = c /\ todo[t] = <<>>
        /\ exiter' = exiter /\ atExit' = atExit /\ papiInit' = papiInit /\ log' = log /\ open' = open
    BY <1>1, <1>9, <2>1 DEF Enter, init, ending, Typed, InUserCode
  <2>3. papiInit \/ Registers(c)
    BY <1>1, <2>1, EnterWellFormed DEF Ready, ReadyThread, Typed
  <2>4. QED
    BY <1>3, <2>2, <2>3 DEF Registered
<1>10. CASE \E id \in Ids[t] : Stray(t, id)
  <2>1. exiter' = exiter /\ atExit' = atExit /\ local[t] # NoList /\ todo[t] = <<>>
    BY <1>10 DEF Stray, InUserCode, ending
  <2>2. ~ (exiter = NoThread /\ atExit = <<>>)
    BY <1>1, <1>3, <2>1 DEF Ready, ReadyThread
  <2>3. QED
    BY <2>1, <2>2 DEF Registered
<1>11. QED
  BY <1>2, <1>4, <1>5, <1>6, <1>7, <1>8, <1>9, <1>10, SoloActs DEF ThreadStep, StrayFault

(* Nothing flattened is nothing.                                           *)
LEMMA FlattenEmpty == FlattenSeq(<<>>) = <<>>
<1>1. PICK s : s = <<>> /\ s \in Seq(Seq({}))
  <2>1. \A T : <<>> \in Seq(T)
    OBVIOUS
  <2>2. QED
    BY <2>1, Zenon
<1>2. PICK f \in [0..Len(s) -> Seq({})] : FlattenSeq(s) = f[Len(s)] /\ f[0] = <<>>
  BY <1>1, FlattenSteps
<1>3. Len(s) = 0
  BY <1>1
<1>4. QED
  BY <1>1, <1>2, <1>3

(* What is left of what exit has to run.                                   *)
LEMMA FrontOf ==
  ASSUME NEW S, NEW q, q \in Seq(S), q # <<>>
  PROVE  /\ DOMAIN Front(q) \subseteq DOMAIN q /\ \A i \in DOMAIN Front(q) : Front(q)[i] = q[i]
         /\ Last(q) = q[Len(q)] /\ Len(q) \in DOMAIN q
<1>1. PICK n : n = Len(q)
  OBVIOUS
<1>2. n \in Nat \ {0} /\ DOMAIN q = 1..n
  BY <1>1
<1>3. PICK r : r = SubSeq(q, 1, n - 1)
  OBVIOUS
<1>4. Front(q) = r
  BY <1>1, <1>3 DEF Front
<1>5. /\ Len(r) = n - 1 /\ DOMAIN r = 1..(n - 1) /\ \A i \in 1..(n - 1) : r[i] = q[i]
  BY <1>1, <1>2, <1>3
<1>6. DOMAIN r \subseteq DOMAIN q
  BY <1>2, <1>5
<1>7. Last(q) = q[n] /\ n \in DOMAIN q
  BY <1>1, <1>2 DEF Last
<1>8. QED
  BY <1>1, <1>4, <1>5, <1>6, <1>7

(* While one thread is alone its runs find the connection as they left it. *)
LEMMA ConnectedStep ==
  ASSUME LogInv, [Next]_vars, NEW t \in Threads, Solo(t), Solo(t)', phase # "fault",
         phase' # "fault", Connected(t)
  PROVE  Connected(t)'
<1>1. Typed /\ Ready /\ Exiting /\ Own
  BY DEF LogInv
<1>2. /\ atExit \in Seq({"handler", "destructor"}) /\ toDb \in Seq(Seq(EventType))
      /\ t # NoThread /\ exiter \in {NoThread, t}
  BY <1>1, Assumptions DEF Typed, Solo, NoThread
<1>3. CASE UNCHANGED vars
  BY <1>3 DEF vars, ending, Connected
<1>4. CASE Stop \/ Disconnect
  <2>1. /\ toDb' = toDb /\ exiter' = exiter /\ exiter = t /\ phase = "exit" /\ atExit # <<>>
        /\ atExit' = Front(atExit)
    BY <1>1, <1>2, <1>4 DEF Stop, Disconnect, Handles, Exiting
  <2>2. \A i \in DOMAIN atExit' : i \in DOMAIN atExit /\ atExit'[i] = atExit[i]
    BY <1>2, <2>1, FrontOf
  <2>3. Last(atExit) = atExit[Len(atExit)] /\ Len(atExit) \in DOMAIN atExit
    BY <1>2, <2>1, FrontOf
  <2>4. CASE Stop
    <3>1. db' = db /\ Last(atExit) = "handler"
      BY <2>4 DEF Stop, Handles
    <3>2. db # "open"
      BY <3>1 DEF Connected
    <3>3. QED
      BY <1>2, <2>1, <2>2, <3>1, <3>2 DEF Connected
  <2>5. CASE Disconnect
    <3>1. db' = "closed" /\ Last(atExit) = "destructor"
      BY <2>5 DEF Disconnect, Handles
    <3>2. db # "none"
      BY <2>3, <3>1 DEF Connected
    <3>3. QED
      BY <1>2, <2>1, <3>1, <3>2 DEF Connected
  <2>6. QED
    BY <1>4, <2>4, <2>5
<1>5. CASE Copy \/ ProcessEnds \/ StoreFault \/ NoConnection \/ Clear
  <2>1. toDb' = toDb /\ exiter' = exiter /\ db' = db /\ atExit' = atExit
    BY <1>5 DEF Copy, ProcessEnds, StoreFault, NoConnection, Clear
  <2>2. db = "open" => phase' = "exit"
    BY <1>5 DEF Copy, ProcessEnds, StoreFault, NoConnection, Clear, Connected
  <2>3. QED
    BY <2>1, <2>2 DEF Connected
<1>6. CASE Store
  <2>1. db = "none" /\ phase' = "clear" /\ exiter' = exiter /\ exiter = t
    <3>1. db # "closed" /\ phase = "store" /\ phase' = "clear" /\ exiter' = exiter
      BY <1>6 DEF Store, Solo
    <3>2. db \in {"none", "open", "closed"}
      BY <1>1 DEF Typed
    <3>3. QED
      BY <1>1, <1>2, <3>1, <3>2 DEF Connected, Exiting
  <2>2. db' = "open" /\ atExit' = Append(atExit, "destructor") /\ \E p : toDb' = Append(toDb, p)
    BY <1>6, <2>1 DEF Store, Solo, Connect
  <2>3. PICK p : toDb' = Append(<<>>, p)
    BY <2>1, <2>2 DEF Connected
  <2>4. toDb' # <<>> /\ Len(toDb') <= 1
    BY <2>3
  <2>5. atExit' # <<>> /\ Last(atExit') = "destructor"
    <3>1. PICK q : q = Append(atExit, "destructor")
      OBVIOUS
    <3>2. q # <<>> /\ Len(q) = Len(atExit) + 1 /\ q[Len(atExit) + 1] = "destructor"
      BY <1>2, <3>1
    <3>3. Last(q) = q[Len(q)]
      BY DEF Last
    <3>4. QED
      BY <2>2, <3>1, <3>2, <3>3
  <2>6. QED
    BY <1>2, <2>1, <2>2, <2>4, <2>5 DEF Connected
<1>7. CASE (t = Main /\ MainBegins) \/ ThreadStep(t)
  <2>1. CASE Register(t)
    <3>1. /\ exiter # t /\ exiter' = exiter /\ db' = db /\ toDb' = toDb
          /\ atExit' = Append(atExit, "handler")
      BY <2>1 DEF Register, At, Runs
    <3>2. db = "none"
      BY <1>2, <3>1 DEF Connected
    <3>3. \A i \in DOMAIN atExit' : atExit'[i] = "handler"
      <4>1. PICK n : n = Len(atExit)
        OBVIOUS
      <4>2. /\ n \in Nat /\ DOMAIN atExit = 1..n /\ DOMAIN atExit' = 1..(n + 1)
            /\ atExit'[n + 1] = "handler" /\ \A i \in 1..n : atExit'[i] = atExit[i]
        BY <1>2, <3>1, <4>1
      <4>3. 1..(n + 1) = 1..n \cup {n + 1}
        BY <4>2
      <4>4. QED
        BY <3>2, <4>2, <4>3 DEF Connected
    <3>4. QED
      BY <3>1, <3>2, <3>3 DEF Connected
  <2>2. CASE ProcessExits(t)
    <3>1. exiter = NoThread /\ db' = db /\ toDb' = toDb /\ atExit' = atExit /\ phase' = "exit"
      BY <2>2 DEF ProcessExits
    <3>2. QED
      BY <3>1 DEF Connected
  <2>3. CASE ~Register(t) /\ ~ProcessExits(t)
    <3>1. exiter' = exiter /\ db' = db /\ toDb' = toDb /\ atExit' = atExit /\ phase' = phase
      BY <1>7, <2>3 DEF MainBegins, ThreadStep, SetFlag, Search, Link, Start, Record, Exit, Unwind,
                     Stray, StrayFault, CopyFault, Enter, ending
    <3>2. QED
      BY <3>1 DEF Connected
  <2>4. QED
    BY <2>1, <2>2, <2>3
<1>8. QED
  BY <1>3, <1>4, <1>5, <1>6, <1>7, SoloActs DEF ExitStep

(* A push keeps the list the whole log, and adds to it at its end.         *)
LEMMA WholePushed ==
  ASSUME LogInv, NEW t \in Threads, NEW type, PushedAs(t, type)
  PROVE  (Whole(t) => Whole(t)') /\ Front(log'[t]) = log[t]
<1>1. PICK e \in EventType : Pushed(t, e)
  BY DEF PushedAs
<1>2. /\ log'[t] = Append(log[t], e) /\ List(t)' = Append(List(t), e)
      /\ local'[t] = local[t] /\ local[t] # NoList
  BY <1>1 DEF Pushed, LogInv, Typed
<1>3. Whole(t) => Whole(t)'
  BY <1>2 DEF Whole
<1>4. Front(log'[t]) = log[t]
  <2>1. log[t] \in Seq(EventType) /\ Ascending(log[t]) /\ (log[t] # <<>> => Last(log[t]).at < e.at)
    BY <1>1 DEF LogInv, Typed, Kept, Pushed
  <2>2. Front(Append(log[t], e)) = log[t]
    BY <2>1, AscendingAppend
  <2>3. QED
    BY <1>2, <2>2
<1>5. QED
  BY <1>3, <1>4

(* While one thread is alone and does not exit, all it records is on its   *)
(* list.                                                                   *)
LEMMA WholeStep ==
  ASSUME LogInv, NEW t \in Threads, exiter = NoThread, phase # "fault", Attached(t), Complete(t),
         (t = Main /\ MainBegins) \/ (ThreadStep(t) /\ ~ProcessExits(t)), phase' # "fault"
  PROVE  Complete(t)'
<1>1. Typed /\ Ready /\ Exiting /\ Own /\ Kept
  BY DEF LogInv
<1>2. phase = "running" /\ toDb = <<>> /\ Whole(t)
  BY <1>1 DEF Exiting, Kept, Complete
<1>3. phase' = phase /\ toDb' = toDb
  BY DEF MainBegins, ThreadStep, SetFlag, Search, Link, Register, Start, Record, Exit, Unwind,
         Stray, StrayFault, CopyFault, Enter, ending
<1>4. CASE MainBegins \/ QuietStep(t)
  <2>1. log' = log /\ local' = local /\ List(t)' = List(t)
    BY <1>4, QuietSteps DEF Quiet, List
  <2>2. Whole(t)'
    BY <1>2, <2>1 DEF Whole
  <2>3. QED
    BY <1>2, <1>3, <2>2 DEF Complete
<1>5. CASE Pushes(t)
  <2>1. PICK type : PushedAs(t, type)
    BY <1>1, <1>5, RecordStep
  <2>2. Whole(t)'
    BY <1>2, <2>1, WholePushed
  <2>3. QED
    BY <1>2, <1>3, <2>2 DEF Complete
<1>6. CASE Link(t)
  <2>1. log' = log
    BY <1>1, <1>6, LinkStep
  <2>2. Head(todo[t]) = "link" /\ CallStep(t)
    BY <1>6 DEF Link, At, CallStep
  <2>3. Found(t) = local[t]
    BY <2>2, CallAdvances DEF Attached, Found
  <2>4. CASE local[t] # NoList
    <3>1. local' = [local EXCEPT ![t] = Found(t)] /\ lists' = lists
      BY <1>6, <2>3, <2>4 DEF Link
    <3>2. local' = local
      BY <1>1, <2>3, <3>1 DEF Typed
    <3>3. Whole(t)'
      BY <1>2, <2>1, <3>1, <3>2 DEF Whole, List
    <3>4. QED
      BY <1>2, <1>3, <3>3 DEF Complete
  <2>5. CASE local[t] = NoList
    <3>1. log[t] = <<>>
      BY <1>2, <2>5 DEF Whole
    <3>2. local'[t] # NoList => List(t)' = <<>>
      BY <1>1, <1>6, <2>5, LinkStep
    <3>3. Whole(t)'
      BY <2>1, <3>1, <3>2 DEF Whole
    <3>4. QED
      BY <1>2, <1>3, <3>3 DEF Complete
  <2>6. QED
    BY <2>4, <2>5
<1>7. QED
  BY <1>4, <1>5, <1>6 DEF ThreadStep, QuietStep, Pushes

(* Every step of a thread that is alone, and of the handler it is in,      *)
(* keeps all it has recorded.                                              *)
LEMMA CompleteStep ==
  ASSUME LogInv, [Next]_vars, NEW t \in Threads, Solo(t), Solo(t)', phase # "fault", phase' # "fault",
         Attached(t), Registered(t), Connected(t), Complete(t)
  PROVE  Complete(t)'
<1>1. Typed /\ Ready /\ Exiting /\ Own /\ Kept
  BY DEF LogInv
<1>2. /\ exiter \in {NoThread, t} /\ t # NoThread
      /\ atExit \in Seq({"handler", "destructor"}) /\ toDb \in Seq(Seq(EventType))
  BY <1>1, Assumptions DEF Solo, Typed, NoThread
<1>3. CASE UNCHANGED vars
  BY <1>3 DEF vars, calls, init, ending, Complete, Whole, List
<1>4. CASE Stop
  <2>1. /\ exiter = t /\ phase = "exit" /\ phase' = "copy" /\ PushedAs(t, "RegionExit")
        /\ toDb' = toDb
    <3>1. ExecuteAtexit /\ exiter \in Threads
      BY <1>1, <1>4, StopStep DEF Solo
    <3>2. exiter = t
      BY <1>2, <3>1, Assumptions DEF NoThread
    <3>3. phase' = "copy" /\ PushedAs(exiter, "RegionExit")
      BY <1>1, <1>4, <3>1, StopStep
    <3>4. phase = "exit" /\ toDb' = toDb
      BY <1>1, <1>4, StopStep
    <3>5. QED
      BY <3>2, <3>3, <3>4
  <2>2. (Whole(t) => Whole(t)') /\ Front(log'[t]) = log[t]
    BY <2>1, WholePushed
  <2>3. QED
    BY <2>1, <2>2 DEF Complete
<1>5. CASE Store
  <2>1. /\ exiter = t /\ local[t] # NoList /\ phase = "store" /\ phase' = "clear" /\ log' = log
    BY <1>1, <1>2, <1>5, StoreStep DEF Exiting
  <2>2. toDb = <<>>
    <3>1. db # "closed" /\ db # "open"
      BY <1>5, <2>1 DEF Store, Solo, Connected
    <3>2. QED
      BY <1>1, <3>1 DEF Typed, Connected
  <2>3. lists' = lists /\ node' = node
    BY <1>1, <1>5, <2>1 DEF Store, Nodes, Attached, NoList
  <2>4. toDb' = Append(toDb, List(t))
    BY <1>5, <2>1, <2>3 DEF Store, Solo, ListIn, Attached, List
  <2>5. List(t) = log[t] /\ List(t) \in Seq(EventType)
    BY <1>1, <2>1, <2>2, ListTyped DEF Complete, Whole
  <2>6. FlattenSeq(toDb') = FlattenSeq(toDb) \o List(t)
    BY <1>2, <2>4, <2>5, FlattenAppend
  <2>7. FlattenSeq(toDb') = log[t]
    <3>1. <<>> \o List(t) = List(t)
      BY <2>5
    <3>2. QED
      BY <2>2, <2>5, <2>6, <3>1, FlattenEmpty
  <2>8. toDb' # <<>>
    BY <1>2, <2>4
  <2>9. QED
    BY <2>1, <2>7, <2>8 DEF Complete
<1>6. CASE Clear \/ QuietExit
  <2>1. log' = log /\ toDb' = toDb
    BY <1>6 DEF Clear, QuietExit, Copy, Disconnect, ProcessEnds, StoreFault, NoConnection
  <2>2. CASE Clear
    <3>1. phase = "clear" /\ phase' = "exit"
      BY <2>2 DEF Clear
    <3>2. QED
      BY <2>1, <3>1 DEF Complete
  <2>3. CASE QuietExit
    <3>1. Whole(t)' = Whole(t)
      BY <2>3, QuietSteps DEF Quiet, Whole, List
    <3>2. CASE Disconnect
      <4>1. phase' = phase /\ phase = "exit" /\ atExit # <<>> /\ Last(atExit) = "destructor"
        BY <3>2 DEF Disconnect, Handles
      <4>2. db # "none"
        BY <1>2, <4>1, FrontOf DEF Connected
      <4>3. toDb # <<>>
        BY <4>2 DEF Connected
      <4>4. QED
        BY <2>1, <4>1, <4>3 DEF Complete
    <3>3. CASE ProcessEnds
      <4>1. phase = "exit" /\ phase' = "over" /\ atExit = <<>>
        BY <3>3 DEF ProcessEnds
      <4>2. QED
        BY <2>1, <3>1, <4>1 DEF Complete
    <3>4. CASE Copy
      <4>1. phase = "copy" /\ phase' = "store"
        BY <3>4 DEF Copy
      <4>2. QED
        BY <2>1, <3>1, <4>1 DEF Complete
    <3>5. CASE NoConnection
      <4>1. phase = "store" /\ phase' = "closed" /\ db = "closed"
        BY <3>5 DEF NoConnection
      <4>2. toDb # <<>>
        BY <4>1 DEF Connected
      <4>3. QED
        BY <2>1, <4>1, <4>2 DEF Complete
    <3>6. QED
      BY <2>3, <3>2, <3>3, <3>4, <3>5 DEF QuietExit, StoreFault
  <2>4. QED
    BY <1>6, <2>2, <2>3
<1>7. CASE ProcessExits(t)
  <2>1. /\ log' = log /\ toDb' = toDb /\ local' = local /\ lists' = lists /\ atExit' = atExit
        /\ exiter = NoThread /\ phase' = "exit"
    BY <1>7 DEF ProcessExits, init
  <2>2. toDb = <<>> /\ Whole(t) /\ Whole(t)' = Whole(t)
    BY <1>1, <2>1 DEF Kept, Complete, Whole, List
  <2>3. atExit = <<>> => log[t] = <<>>
    BY <2>1 DEF Registered
  <2>4. QED
    BY <2>1, <2>2, <2>3 DEF Complete
<1>8. CASE (t = Main /\ MainBegins) \/ (ThreadStep(t) /\ ~ProcessExits(t))
  <2>1. exiter # t
    BY <1>8 DEF MainBegins, ThreadStep, SetFlag, Search, Link, Register, Start, Record, Exit, Unwind,
                Stray, StrayFault, CopyFault, Enter, At, InUserCode, Runs
  <2>2. exiter = NoThread
    BY <1>2, <2>1
  <2>3. QED
    BY <1>8, <2>2, WholeStep
<1>9. QED
  BY <1>3, <1>4, <1>5, <1>6, <1>7, <1>8, SoloActs DEF ExitStep, QuietExit

(* Every step keeps the invariant of a thread that is alone.               *)
LEMMA SoloStep ==
  ASSUME LogInv, SoloInv, [Next]_vars
  PROVE  SoloInv'
<1>1. SUFFICES ASSUME phase' # "fault", NEW t \in Threads, Solo(t)'
               PROVE  Attached(t)' /\ Registered(t)' /\ Connected(t)' /\ Complete(t)'
  BY DEF SoloInv
<1>2. Solo(t)
  BY <1>1, SoloBefore
<1>3. phase # "fault"
  BY <1>1 DEF Next, ThreadStep, ExitStep, Disconnect, Handles, ProcessEnds, StoreFault, NoConnection,
              MainBegins, Stop, Copy, Store, Clear, SetFlag, Search, Link, Register,
              Start, Record, Exit, Unwind, Stray, StrayFault, ProcessExits, CopyFault, Enter, vars,
              ending, InUserCode, At, Runs
<1>4. Attached(t) /\ Registered(t) /\ Connected(t) /\ Complete(t)
  BY <1>2, <1>3 DEF SoloInv
<1>5. QED
  BY <1>1, <1>2, <1>3, <1>4, AttachedStep, RegisteredStep, ConnectedStep, CompleteStep

(***************************************************************************)
(* A process whose only profiled thread is the one that exits stores all   *)
(* that was recorded, in order and as one run: whatever it enters, leaves  *)
(* or leaves by an exception, and wherever it exits. Where both main and   *)
(* the first scop set up the library the handler runs twice: the second    *)
(* time it ends the process, on the connection that exit has closed, and   *)
(* only its own STOP is not stored.                                        *)
(***************************************************************************)
THEOREM SingleThreadStored == Spec => []SingleThreadComplete
<1>1. Init => SoloInv
  <2>1. ASSUME Init, NEW t \in Threads PROVE Attached(t) /\ Registered(t) /\ Complete(t)
    BY <2>1 DEF Init, Attached, Registered, Complete, Whole, Nothing, NoList, Registers
  <2>2. ASSUME Init, NEW t \in Threads PROVE Connected(t)
    BY <2>2 DEF Init, Connected
  <2>3. QED
    BY <2>1, <2>2 DEF SoloInv
<1>2. LogInv /\ SoloInv /\ [Next]_vars => SoloInv'
  BY SoloStep
<1>3. LogInv /\ SoloInv => SingleThreadComplete
  <2>1. ASSUME LogInv, SoloInv, UseDb, ExecuteAtexit, Alone, phase # "fault"
        PROVE  Connected(exiter) /\ Complete(exiter)
    <3>1. exiter \in Threads /\ \A u \in Threads : u # exiter => local[u] = NoList /\ todo[u] = <<>>
      BY <2>1 DEF Alone
    <3>2. Solo(exiter)
      BY <2>1, <3>1 DEF Solo
    <3>3. QED
      BY <2>1, <3>1, <3>2 DEF SoloInv
  <2>2. ASSUME LogInv, SoloInv, UseDb, ExecuteAtexit, Alone, phase = "over"
        PROVE  FlattenSeq(toDb) = log[exiter]
    <3>1. Complete(exiter)
      BY <2>1, <2>2
    <3>2. toDb = <<>> => FlattenSeq(toDb) = <<>>
      BY FlattenEmpty
    <3>3. QED
      BY <2>2, <3>1, <3>2 DEF Complete
  <2>3. ASSUME LogInv, SoloInv, UseDb, ExecuteAtexit, Alone, phase = "closed"
        PROVE  FlattenSeq(toDb) = Front(log[exiter])
    BY <2>1, <2>3 DEF Complete
  <2>4. ASSUME LogInv, SoloInv, UseDb, ExecuteAtexit, Alone, phase \in {"over", "closed"}
        PROVE  Len(toDb) <= 1
    BY <2>1, <2>4 DEF Connected
  <2>5. QED
    BY <2>2, <2>3, <2>4 DEF SingleThreadComplete
<1>4. QED
  BY <1>1, <1>2, <1>3, LogInvariant, PTL DEF Spec

=============================================================================
