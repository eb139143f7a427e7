------------------------------ MODULE ScopCall -----------------------------
(***************************************************************************)
(* What the runtime promises to the program it is linked into: a call of   *)
(* an instrumented function runs the code of that function on the          *)
(* arguments of that call, once, before it returns. Whether the code is    *)
(* the original or one specialized at run time cannot be told apart.       *)
(***************************************************************************)
CONSTANTS Callers, Protos, Vals

VARIABLES
  status,   \* what each thread is doing
  call,     \* the function and the arguments of its call
  did       \* the function and the arguments it ran

vars == <<status, call, did>>
None == "none"
NoCall == [proto |-> None, vals |-> None]

Init ==
  /\ status = [c \in Callers |-> "idle"]
  /\ call = [c \in Callers |-> NoCall]
  /\ did = [c \in Callers |-> NoCall]

Call(c) ==
  /\ status[c] = "idle"
  /\ \E p \in Protos, v \in Vals :
       call' = [call EXCEPT ![c] = [proto |-> p, vals |-> v]]
  /\ status' = [status EXCEPT ![c] = "called"]
  /\ UNCHANGED did

Execute(c) ==
  /\ status[c] = "called"
  /\ did' = [did EXCEPT ![c] = call[c]]
  /\ status' = [status EXCEPT ![c] = "executed"]
  /\ UNCHANGED call

Return(c) ==
  /\ status[c] = "executed"
  /\ call' = [call EXCEPT ![c] = NoCall]
  /\ did' = [did EXCEPT ![c] = NoCall]
  /\ status' = [status EXCEPT ![c] = "idle"]

Next == \E c \in Callers : Call(c) \/ Execute(c) \/ Return(c)

Spec == Init /\ [][Next]_vars
=============================================================================
