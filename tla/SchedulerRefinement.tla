------------------------ MODULE SchedulerRefinement ------------------------
(***************************************************************************)
(* UvScheduler implements Executor, for every set of threads, timers and   *)
(* requests: what its users rely on does not depend on how post(), the     *)
(* eventfd and the turns of the loop interleave.                           *)
(***************************************************************************)
EXTENDS UvSchedulerProofs

USE DEF vars, postVars, timerVars, workVars, loopVars, lifeVars

(* Leftovers are never newer than the last callback, and the loop swaps the
   queue of a started scheduler only, with no callback running. *)
DrainInv ==
  /\ staleId <= npost
  /\ "post" \in todo \/ phase = "drain" => started
  /\ phase = "drain" => running = "none"

(* stop() takes async_handle_ from the ones uv__async_io has still to look at. *)
LEMMA DrainNext == TypeOK /\ WakeInv /\ DrainInv /\ [Next]_vars => DrainInv'
<1> SUFFICES ASSUME TypeOK, WakeInv, DrainInv, [Next]_vars PROVE DrainInv'
  OBVIOUS
<1> USE BoundAssumption
    DEF TypeOK, TypeLife, TypePost, TypeLoop, WakeInv, StartedActive, DrainInv
<1>1. CASE start BY <1>1 DEF start, AppRuns, InCallback
<1>2. CASE stop BY <1>2 DEF stop, StopEffect, AppRuns, InCallback
<1>3. CASE destroy BY <1>3 DEF destroy, StopEffect
<1>4. CASE post BY <1>4 DEF post, Push
<1>5. ASSUME NEW p \in Posters, PostPush(p) PROVE DrainInv' BY <1>5 DEF PostPush, Push
<1>6. CASE Drive BY <1>6 DEF Drive, step, run
<1>7. CASE PollWake BY <1>7 DEF PollWake
<1>8. CASE AsyncWork BY <1>8 DEF AsyncWork, AtAsync
<1>9. CASE AsyncPost BY <1>9 DEF AsyncPost, AtAsync
<1>10. CASE drain_post_queue BY <1>10 DEF drain_post_queue
<1>11. CASE RunPosted BY <1>11 DEF RunPosted, AtAsync
<1>12. ASSUME NEW w \in Works, after_work_cb(w) PROVE DrainInv'
  BY <1>12 DEF after_work_cb, AtAsync
<1>13. CASE TimersEnd BY <1>13 DEF TimersEnd, AtTimers
<1>14. ASSUME NEW t \in Ctxs, FireTimer(t) PROVE DrainInv' BY <1>14 DEF FireTimer, AtTimers
<1>15. ASSUME NEW due, RunClosing(due) PROVE DrainInv' BY <1>15 DEF RunClosing
<1>16. QED
  BY <1>1, <1>2, <1>3, <1>4, <1>5, <1>6, <1>7, <1>8, <1>9, <1>10, <1>11, <1>12,
     <1>13, <1>14, <1>15
  DEF Next, App, Loop, Send, Pool, add_job, after, remove_job, run_blocking, PollTimeout,
      AsyncEnd, CallbackReturn, OneshotReturn, SendLoad, SendExchange, SendWrite,
      WorkBegin, WorkEnd

LEMMA DrainSafe == Spec => [](TypeOK /\ FifoExactlyOnce /\ DrainInv)
<1>1. Init => WakeInv /\ DrainInv
  BY DEF Init, WakeInv, StartedActive, PendingSeen, NoLostWakeup, DrainInv
<1>2. QED BY <1>1, WakeNext, DrainNext, TypeCorrect, PostsFifoExactlyOnce, PTL DEF Spec

-----------------------------------------------------------------------------
Job == [w \in Works |-> JobOf(wstate[w])]

JobMoves(w, a, b) == Job[w] = a /\ Job' = [Job EXCEPT ![w] = b]

(* The numbers of the callbacks, as Due sees them. *)
LEMMA DueBounds ==
  ASSUME TypeOK, FifoExactlyOnce
  PROVE  /\ ran \in Nat /\ npost \in Nat /\ Due \in Nat /\ Len(batch) \in Nat
         /\ ran + Len(batch) <= Due /\ Due <= npost
<1>1. Len(batch) \in Nat /\ Len(post_queue) \in Nat /\ npost \in Nat
  BY BoundAssumption DEF TypeOK, TypePost
<1>2. QED BY <1>1 DEF TypeOK, TypePost, FifoExactlyOnce, Due

(* The steps of a request are those of a job, or none of its business. *)
LEMMA JobFrame ==
  ASSUME TypeOK, [Next]_vars
  PROVE  \/ UNCHANGED Job
         \/ /\ UNCHANGED <<started, npost, ran, batch, staleId>>
            /\ \E w \in Works : \/ JobMoves(w, "none", "queued")
                                \/ JobMoves(w, "queued", "working")
                                \/ JobMoves(w, "working", "finished")
                                \/ JobMoves(w, "finished", "none")
<1> USE DEF TypeOK, TypeWork, Job, JobOf, JobMoves
<1>1. ASSUME NEW w \in Works, run_blocking(w)
      PROVE  JobMoves(w, "none", "queued")
  BY <1>1 DEF run_blocking
<1>2. ASSUME NEW w \in Works, WorkBegin(w)
      PROVE  JobMoves(w, "queued", "working")
  BY <1>2 DEF WorkBegin
<1>3. ASSUME NEW w \in Works, WorkEnd(w)
      PROVE  JobMoves(w, "working", "finished")
  BY <1>3 DEF WorkEnd
<1>4. ASSUME NEW w \in Works, after_work_cb(w)
      PROVE  JobMoves(w, "finished", "none")
  BY <1>4 DEF after_work_cb
<1>5. CASE AsyncWork BY <1>5 DEF AsyncWork
<1>6. ASSUME NEW w \in Works,
             run_blocking(w) \/ WorkBegin(w) \/ WorkEnd(w) \/ after_work_cb(w)
      PROVE  UNCHANGED <<started, npost, ran, batch, staleId>>
  BY <1>6 DEF run_blocking, WorkBegin, WorkEnd, after_work_cb
<1>7. CASE UNCHANGED wstate BY <1>7
<1>8. \/ UNCHANGED wstate \/ AsyncWork
      \/ \E w \in Works : run_blocking(w) \/ WorkBegin(w) \/ WorkEnd(w) \/ after_work_cb(w)
  BY DEF Next, App, Drive, Loop, Send, Pool, start, stop, destroy, post, add_job, after,
         remove_job, step, run, PollWake, PollTimeout, AsyncPost, drain_post_queue, RunPosted,
         AsyncEnd, RunClosing, FireTimer, TimersEnd, CallbackReturn, OneshotReturn,
         PostPush, SendLoad, SendExchange, SendWrite
<1>9. QED BY <1>1, <1>2, <1>3, <1>4, <1>5, <1>6, <1>7, <1>8

(* The callbacks and the life of the scheduler change in five ways, none of
   which touches the requests. *)
LEMMA LifeFrame ==
  ASSUME [Next]_vars
  PROVE  \/ UNCHANGED <<started, npost, ran, batch, staleId>>
         \/ /\ UNCHANGED wstate
            /\ \/ start
               \/ StopEffect /\ started /\ UNCHANGED <<npost, ran, batch, staleId>>
               \/ Push /\ UNCHANGED <<started, batch, ran, staleId>>
               \/ drain_post_queue
               \/ RunPosted
<1>1. CASE App
  <2>1. CASE start BY <2>1 DEF start
  <2>2. CASE stop \/ destroy BY <2>2 DEF stop, destroy, StopEffect
  <2>3. CASE post BY <2>3 DEF post
  <2>4. QED BY <1>1, <2>1, <2>2, <2>3 DEF App, add_job, after, remove_job, run_blocking
<1>2. CASE Drive BY <1>2 DEF Drive, step, run
<1>3. CASE Loop
  <2>1. CASE drain_post_queue BY <2>1 DEF drain_post_queue
  <2>2. CASE RunPosted BY <2>2 DEF RunPosted
  <2>3. QED
    BY <1>3, <2>1, <2>2
    DEF Loop, PollWake, PollTimeout, AsyncWork, AsyncPost, after_work_cb,
        AsyncEnd, RunClosing, FireTimer, TimersEnd, CallbackReturn, OneshotReturn
<1>4. ASSUME NEW p \in Posters, PostPush(p) \/ Send(p)
      PROVE  \/ UNCHANGED <<started, npost, ran, batch, staleId>>
             \/ UNCHANGED wstate /\ Push /\ UNCHANGED <<started, batch, ran, staleId>>
  BY <1>4 DEF PostPush, Send, SendLoad, SendExchange, SendWrite
<1>5. ASSUME NEW w \in Works, Pool(w) PROVE UNCHANGED <<started, npost, ran, batch, staleId>>
  BY <1>5 DEF Pool, WorkBegin, WorkEnd
<1>6. QED BY <1>1, <1>2, <1>3, <1>4, <1>5 DEF Next

(* Every step maps to a step of Executor or to a stutter. *)
LEMMA StepRefines ==
  ASSUME TypeOK, FifoExactlyOnce, DrainInv, FifoExactlyOnce', [Next]_vars
  PROVE  [Abstract!ExecNext]_(Abstract!execVars)
<1> USE DEF Abstract!execVars
<1>0. /\ ran \in Nat /\ npost \in Nat /\ Due \in Nat /\ Len(batch) \in Nat
      /\ ran + Len(batch) <= Due /\ Due <= npost
  BY DueBounds
<1>1. ASSUME UNCHANGED wstate PROVE UNCHANGED Job BY <1>1 DEF Job
<1>2. CASE UNCHANGED <<started, npost, ran, batch, staleId>>
  <2>1. UNCHANGED Due BY <1>2 DEF Due
  <2>2. CASE UNCHANGED Job BY <1>2, <2>1, <2>2 DEF Job
  <2>3. ASSUME NEW w \in Works, NEW a, NEW b, JobMoves(w, a, b)
        PROVE  Abstract!Move(w, a, b)
    BY <1>2, <2>1, <2>3 DEF Abstract!Move, Job, JobMoves
  <2>4. ASSUME NEW w \in Works,
               \/ JobMoves(w, "none", "queued") \/ JobMoves(w, "queued", "working")
               \/ JobMoves(w, "working", "finished") \/ JobMoves(w, "finished", "none")
        PROVE  Abstract!ExecNext
    <3>1. Abstract!Submit(w) \/ Abstract!Begin(w) \/ Abstract!Finish(w) \/ Abstract!OnDone(w)
      BY <2>3, <2>4
      DEF Abstract!Submit, Abstract!Begin, Abstract!Finish, Abstract!OnDone
    <3>2. QED BY <3>1 DEF Abstract!ExecNext
  <2>5. QED BY <2>2, <2>4, JobFrame
<1>3. ASSUME start, UNCHANGED wstate PROVE Abstract!ExecStart
  BY <1>0, <1>1, <1>3 DEF start, Due, Abstract!ExecStart, Job
<1>4. ASSUME StopEffect, started, UNCHANGED <<npost, ran, batch, staleId>>, UNCHANGED wstate
      PROVE  \E n \in ran..Due : Abstract!ExecStop(n)
  <2>1. ran + Len(batch) \in ran..Due BY <1>0
  <2>2. Due' = ran + Len(batch) BY <1>4 DEF StopEffect, Due
  <2>3. Abstract!ExecStop(ran + Len(batch))
    BY <1>1, <1>4, <2>1, <2>2 DEF StopEffect, Abstract!ExecStop, Job
  <2>4. QED BY <2>1, <2>3
<1>5. ASSUME Push, UNCHANGED <<started, batch, ran, staleId>>, UNCHANGED wstate
      PROVE  Abstract!Post
  <2>1. Due' = IF started THEN npost + 1 ELSE Due
    BY <1>0, <1>5 DEF Push, Due, DrainInv, TypeOK, TypePost
  <2>2. QED BY <1>1, <1>5, <2>1 DEF Push, Abstract!Post, Job
<1>6. ASSUME drain_post_queue, UNCHANGED wstate PROVE Abstract!Wake
  <2>1. started /\ UNCHANGED <<started, npost, ran>>
    BY <1>6 DEF drain_post_queue, DrainInv
  <2>2. Due' = npost
    <3>1. ran + Len(post_queue) = npost
      BY <1>6 DEF drain_post_queue, TypeOK, TypeLoop, TypePost, FifoExactlyOnce
    <3>2. QED BY <1>6, <3>1 DEF drain_post_queue, Due
  <2>3. QED BY <1>1, <1>6, <2>1, <2>2 DEF Abstract!Wake, Job
<1>7. ASSUME RunPosted, UNCHANGED wstate PROVE Abstract!Call
  <2>1. ran' = ran + 1 /\ Len(batch) > 0 /\ Len(batch') = Len(batch) - 1
    BY <1>7 DEF RunPosted, FifoExactlyOnce, TypeOK, TypePost
  <2>2. UNCHANGED <<started, npost, staleId>> BY <1>7 DEF RunPosted
  <2>3. Due' = Due BY <1>0, <2>1, <2>2 DEF Due
  <2>4. QED BY <1>0, <1>1, <1>7, <2>1, <2>2, <2>3 DEF Abstract!Call, Job
<1>8. QED
  BY <1>2, <1>3, <1>4, <1>5, <1>6, <1>7, LifeFrame DEF Abstract!ExecNext

(* The scheduler implements Executor: posted callbacks are called in order,
   once, and only when they are due; stop() takes back what no turn has taken;
   every blocking job goes its way whether or not the scheduler is started. *)
THEOREM SchedulerImplementsExecutor == Spec => Refines
<1>1. Init => Abstract!ExecInit
  BY DEF Init, Abstract!ExecInit, Due, JobOf
<1>2. QED
  BY <1>1, StepRefines, DrainSafe, PTL DEF Spec, Refines, Abstract!ExecSpec
=============================================================================
