---------------------------- MODULE I2CService ----------------------------
(***************************************************************************)
(* What the I2C manager promises its users: a request is taken, stays      *)
(* pending while earlier ones are carried out, and is then answered once   *)
(* with its result, in the order in which requests were made.              *)
(***************************************************************************)
EXTENDS Sequences, FiniteSets

CONSTANTS
  Requests,   \* request blocks
  PENDING,    \* the status of a request that waits
  Results     \* the other statuses

VARIABLES
  queue,      \* requests waiting, in order
  status      \* request |-> its status

serviceVars == <<queue, status>>

Init == queue = <<>> /\ status \in [Requests -> Results]

Submit(r) ==
  /\ status[r] # PENDING
  /\ queue' = Append(queue, r)
  /\ status' = [status EXCEPT ![r] = PENDING]

\* Carried out, failed or timed out.
Answer ==
  /\ queue # <<>>
  /\ \E result \in Results : status' = [status EXCEPT ![Head(queue)] = result]
  /\ queue' = Tail(queue)

\* A blocking implementation answers at once.
Immediate(r) ==
  /\ queue = <<>>
  /\ \E result \in Results : status' = [status EXCEPT ![r] = result]
  /\ UNCHANGED queue

Next == Answer \/ \E r \in Requests : Submit(r) \/ Immediate(r)

Spec == Init /\ [][Next]_serviceVars
============================================================================
