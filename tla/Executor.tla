------------------------------ MODULE Executor ------------------------------
(***************************************************************************)
(* What Scheduler (src/wheel/scheduler/scheduler.h) promises its users, as *)
(* far as post() and run_blocking() go.  UvScheduler implements it: see    *)
(* Refines in module UvScheduler.  WsClient and LlmChat are built on it.   *)
(*                                                                         *)
(* Posted callbacks are numbered in the order of post() and called in that *)
(* order, each once.  A callback is called only once it is due: post()     *)
(* makes everything posted so far due while the executor is on; what was   *)
(* posted while it was off waits for the next post(), or for a signal of a *)
(* thread that was still inside post() when the executor was turned on.    *)
(* stop() makes nothing new due and takes back what no turn of the loop    *)
(* has taken from the queue.  A blocking job is done whether the executor  *)
(* is on or off.                                                           *)
(***************************************************************************)
EXTENDS Naturals

CONSTANT Works     \* blocking jobs

VARIABLES
  on,       \* the executor has been started and not stopped
  posted,   \* number of callbacks posted
  called,   \* number of callbacks called
  due,      \* the callbacks up to this one are going to be called
  job       \* where each blocking job is

execVars == <<on, posted, called, due, job>>

ExecTypeOK ==
  /\ on \in BOOLEAN
  /\ posted \in Nat /\ called \in Nat /\ due \in Nat
  /\ called <= due /\ due <= posted
  /\ job \in [Works -> {"none", "queued", "working", "finished"}]

ExecInit ==
  /\ on = FALSE
  /\ posted = 0 /\ called = 0 /\ due = 0
  /\ job = [w \in Works |-> "none"]

ExecStart ==
  /\ ~on
  /\ on' = TRUE
  /\ UNCHANGED <<posted, called, due, job>>

(* The callbacks up to n have been taken from the queue by the turn of the
   loop that calls stop() from one of them; outside a turn n = called. *)
ExecStop(n) ==
  /\ on
  /\ n \in called..due
  /\ on' = FALSE
  /\ due' = n
  /\ UNCHANGED <<posted, called, job>>

Post ==
  /\ posted' = posted + 1
  /\ due' = IF on THEN posted + 1 ELSE due
  /\ UNCHANGED <<on, called, job>>

(* A late signal makes due what was posted before the executor was on. *)
Wake ==
  /\ on
  /\ due' = posted
  /\ UNCHANGED <<on, posted, called, job>>

(* Mutant of Call: the whole queue is called, due or not. *)
Call_Undue ==
  /\ called < posted
  /\ called' = called + 1
  /\ UNCHANGED <<on, posted, due, job>>

Call ==
  /\ called < due
  /\ called' = called + 1
  /\ UNCHANGED <<on, posted, due, job>>

Move(w, from, to) ==
  /\ job[w] = from
  /\ job' = [job EXCEPT ![w] = to]
  /\ UNCHANGED <<on, posted, called, due>>

Submit(w) == Move(w, "none", "queued")
Begin(w)  == Move(w, "queued", "working")
Finish(w) == Move(w, "working", "finished")
OnDone(w) == Move(w, "finished", "none")

ExecNext ==
  \/ ExecStart
  \/ \E n \in called..due : ExecStop(n)
  \/ Post \/ Wake \/ Call
  \/ \E w \in Works : Submit(w) \/ Begin(w) \/ Finish(w) \/ OnDone(w)

ExecSpec == ExecInit /\ [][ExecNext]_execVars
=============================================================================
