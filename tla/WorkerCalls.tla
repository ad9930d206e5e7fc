------------------------------ MODULE WorkerCalls ------------------------------
(***************************************************************************)
(* What WorkerClient.request promises to a thread that calls it            *)
(* (src/screen2xyz_m2/worker.py): a call that returns a reply was carried  *)
(* out by the worker, during that call; a call that fails may or may not   *)
(* have been.  Nothing is said of pipes, queues, identifiers or time.      *)
(***************************************************************************)
CONSTANT Threads

VARIABLES
  call,    \* per thread: "none", "sent" to the worker, or "done" by it
  answer   \* per thread: what its last call returned, until it is used

Init ==
  /\ call = [th \in Threads |-> "none"]
  /\ answer = [th \in Threads |-> "none"]

Send(th) ==
  /\ call[th] = "none"
  /\ call' = [call EXCEPT ![th] = "sent"]
  /\ answer' = [answer EXCEPT ![th] = "none"]

Perform(th) ==
  /\ call[th] = "sent"
  /\ call' = [call EXCEPT ![th] = "done"]
  /\ UNCHANGED answer

Return(th) ==
  /\ call[th] = "done"
  /\ call' = [call EXCEPT ![th] = "none"]
  /\ \E reply \in {"OK", "REFUSED"} : answer' = [answer EXCEPT ![th] = reply]

(* A refusal to overlap, a dead worker, a closed stream or a timeout. *)
Fail(th) ==
  /\ call' = [call EXCEPT ![th] = "none"]
  /\ answer' = [answer EXCEPT ![th] = "ERROR"]

(* The thread has used the answer. *)
Drop(th) ==
  /\ call[th] = "none"
  /\ answer' = [answer EXCEPT ![th] = "none"]
  /\ UNCHANGED call

Next ==
  \E th \in Threads : Send(th) \/ Perform(th) \/ Return(th) \/ Fail(th) \/ Drop(th)

Spec == Init /\ [][Next]_<<call, answer>>
=============================================================================
