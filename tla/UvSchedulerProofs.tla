------------------------- MODULE UvSchedulerProofs -------------------------
(***************************************************************************)
(* The safety properties of UvScheduler, for every set of threads, timers  *)
(* and requests.                                                           *)
(***************************************************************************)
EXTENDS UvScheduler, TLAPS

(* The definitions that only group variables or name a set of states. *)
USE DEF vars, postVars, timerVars, workVars, loopVars, lifeVars

(* The constructor leaves every variable in its type. *)
LEMMA TypeInit == Init => TypeOK
<1> SUFFICES ASSUME Init PROVE TypeOK
  OBVIOUS
<1>1. TypeLife /\ TypeWork BY DEF Init, TypeLife, TypeWork
<1>2. TypePost
  <2>1. pending \in BOOLEAN /\ wakeup \in BOOLEAN BY DEF Init
  <2>2. post_queue \in Seq(Nat) /\ batch \in Seq(Nat) BY DEF Init
  <2>3. npost \in 0..MaxPosts /\ ran \in Nat /\ staleId \in 0..MaxPosts
    BY BoundAssumption DEF Init
  <2>4. ppc \in [Posters -> {"idle", "load", "xchg", "write"}] BY DEF Init
  <2>5. QED BY <2>1, <2>2, <2>3, <2>4 DEF TypePost
<1>3. TypeTimer BY DEF Init, TypeTimer, Names
<1>4. TypeLoop BY DEF Init, TypeLoop
<1>5. QED BY <1>1, <1>2, <1>3, <1>4 DEF TypeOK

(* Every step of every thread keeps the types. *)
LEMMA TypeNext == TypeOK /\ [Next]_vars => TypeOK'
<1> SUFFICES ASSUME TypeOK, [Next]_vars PROVE TypeOK'
  OBVIOUS
<1> USE BoundAssumption DEF TypeOK, TypeLife, TypePost, TypeTimer, TypeWork, TypeLoop, Names
<1>1. CASE start
  <2>1. TypeLife' /\ TypeTimer' /\ TypeWork' BY <1>1 DEF start
  <2>2. TypePost' BY <1>1 DEF start
  <2>3. TypeLoop' BY <1>1 DEF start
  <2>4. QED BY <2>1, <2>2, <2>3
<1>2. ASSUME StopEffect, UNCHANGED <<phase, batch>>
      PROVE  /\ started' \in BOOLEAN /\ pending' \in BOOLEAN
             /\ asyncH' \in {"none", "active", "closing", "closed"}
             /\ timers' \in [Names -> Ctxs \cup {NoCtx}]
             /\ tstate' \in [Ctxs -> {"none", "active", "ready", "inactive", "closing"}]
             /\ kind' \in [Ctxs -> {"job", "job0", "oneshot"}]
             /\ owner' \in [Ctxs -> BOOLEAN]
             /\ todo' \subseteq {"wq", "post"}
             /\ fault' \in {"none", "close_closing", "init_closing", "freed_handle"}
             /\ phase \notin {"async", "drain"} => todo' = {}
  <2>1. started' \in BOOLEAN /\ pending' \in BOOLEAN
    BY <1>2 DEF StopEffect
  <2>2. asyncH' \in {"none", "active", "closing", "closed"} BY <1>2 DEF StopEffect
  <2>3. timers' \in [Names -> Ctxs \cup {NoCtx}] BY <1>2 DEF StopEffect
  <2>4. tstate' \in [Ctxs -> {"none", "active", "ready", "inactive", "closing"}]
    BY <1>2 DEF StopEffect, CloseTimers
  <2>5. kind' \in [Ctxs -> {"job", "job0", "oneshot"}] /\ owner' \in [Ctxs -> BOOLEAN]
    BY <1>2 DEF StopEffect, CloseTimers
  <2>6. /\ todo' \subseteq {"wq", "post"}
        /\ phase \notin {"async", "drain"} => todo' = {}
    BY <1>2 DEF StopEffect
  <2>7. fault' \in {"none", "close_closing", "init_closing", "freed_handle"}
    BY <1>2 DEF StopEffect, CloseTimers
  <2>8. QED BY <2>1, <2>2, <2>3, <2>4, <2>5, <2>6, <2>7
<1>3. CASE stop BY <1>2, <1>3 DEF stop
<1>4. CASE destroy BY <1>2, <1>4 DEF destroy
<1>5. CASE post
  <2>1. TypeLife' /\ TypeTimer' /\ TypeWork' BY <1>5 DEF post, Push
  <2>2. TypePost'
    <3>1. pending' \in BOOLEAN /\ wakeup' \in BOOLEAN BY <1>5 DEF post
    <3>2. npost' \in 0..MaxPosts /\ post_queue' \in Seq(Nat) BY <1>5 DEF post, Push
    <3>3. UNCHANGED <<batch, ran, staleId, ppc>> BY <1>5 DEF post
    <3>4. QED BY <3>1, <3>2, <3>3
  <2>3. TypeLoop' BY <1>5 DEF post, Push
  <2>4. QED BY <2>1, <2>2, <2>3
<1>6. ASSUME NEW n \in Jobs, NEW t \in Ctxs, NEW k \in {"job", "job0"}, add_job(n, t, k)
      PROVE TypeOK'
  BY <1>6 DEF add_job, MayAddTimer, StartTimer
<1>7. ASSUME NEW t \in Ctxs, after(t) PROVE TypeOK'
  BY <1>7 DEF after, MayAddTimer, StartTimer
<1>8. ASSUME NEW n \in Jobs, remove_job(n) PROVE TypeOK'
  BY <1>8 DEF remove_job, CloseTimers
<1>9. ASSUME NEW w \in Works, run_blocking(w) PROVE TypeOK'
  BY <1>9 DEF run_blocking
<1>10. CASE step BY <1>10 DEF step
<1>27. ASSUME NEW due, run(due) PROVE TypeOK' BY <1>27 DEF run, Collect
<1>11. CASE PollWake
  <2>1. TypeLife' /\ TypeTimer' /\ TypeWork' BY <1>11 DEF PollWake
  <2>2. TypePost' BY <1>11 DEF PollWake
  <2>3. TypeLoop' BY <1>11 DEF PollWake
  <2>4. QED BY <2>1, <2>2, <2>3
<1>28. CASE PollTimeout
  <2>1. TypeLife' /\ TypeTimer' /\ TypeWork' BY <1>28 DEF PollTimeout
  <2>2. TypePost' BY <1>28 DEF PollTimeout
  <2>3. TypeLoop' BY <1>28 DEF PollTimeout
  <2>4. QED BY <2>1, <2>2, <2>3
<1>12. CASE AsyncWork
  <2>1. TypeLife' /\ TypeTimer' BY <1>12 DEF AsyncWork, AtAsync
  <2>2. TypeWork' BY <1>12 DEF AsyncWork, AtAsync
  <2>3. TypePost' BY <1>12 DEF AsyncWork, AtAsync
  <2>4. TypeLoop' BY <1>12 DEF AsyncWork, AtAsync
  <2>5. QED BY <2>1, <2>2, <2>3, <2>4
<1>13. CASE AsyncPost
  <2>1. TypeLife' /\ TypeTimer' /\ TypeWork' BY <1>13 DEF AsyncPost, AtAsync, NothingTaken
  <2>2. TypePost' BY <1>13 DEF AsyncPost, AtAsync, NothingTaken
  <2>3. TypeLoop' BY <1>13 DEF AsyncPost, AtAsync, NothingTaken
  <2>4. QED BY <2>1, <2>2, <2>3
<1>14. CASE drain_post_queue BY <1>14 DEF drain_post_queue
<1>15. CASE RunPosted BY <1>15 DEF RunPosted, AtAsync
<1>16. ASSUME NEW w \in Works, after_work_cb(w) PROVE TypeOK'
  BY <1>16 DEF after_work_cb, AtAsync
<1>17. CASE AsyncEnd BY <1>17 DEF AsyncEnd, AtAsync, NothingTaken
<1>18. ASSUME NEW due, RunClosing(due) PROVE TypeOK'
  BY <1>18 DEF RunClosing, Collect, TimersIn
<1>19. ASSUME NEW t \in Ctxs, FireTimer(t) PROVE TypeOK'
  BY <1>19 DEF FireTimer
<1>20. CASE TimersEnd BY <1>20 DEF TimersEnd, AtTimers
<1>21. CASE CallbackReturn BY <1>21 DEF CallbackReturn
<1>22. CASE OneshotReturn
  <2>1. TypeLife' /\ TypeTimer' /\ TypeWork' BY <1>22 DEF OneshotReturn
  <2>2. TypePost' BY <1>22 DEF OneshotReturn
  <2>3. TypeLoop' BY <1>22 DEF OneshotReturn
  <2>4. QED BY <2>1, <2>2, <2>3
<1>23. ASSUME NEW p \in Posters, PostPush(p) PROVE TypeOK'
  BY <1>23 DEF PostPush, Push
<1>29. ASSUME NEW p \in Posters, SendLoad(p) PROVE TypeOK' BY <1>29 DEF SendLoad
<1>30. ASSUME NEW p \in Posters, SendExchange(p) PROVE TypeOK' BY <1>30 DEF SendExchange
<1>31. ASSUME NEW p \in Posters, SendWrite(p) PROVE TypeOK' BY <1>31 DEF SendWrite
<1>24. ASSUME NEW w \in Works, WorkBegin(w) PROVE TypeOK' BY <1>24 DEF WorkBegin
<1>32. ASSUME NEW w \in Works, WorkEnd(w) PROVE TypeOK'
  <2>1. TypeLife' /\ TypeTimer' /\ TypeWork' BY <1>32 DEF WorkEnd
  <2>2. TypePost' BY <1>32 DEF WorkEnd
  <2>3. TypeLoop' BY <1>32 DEF WorkEnd
  <2>4. QED BY <2>1, <2>2, <2>3
<1>25. CASE UNCHANGED vars BY <1>25
<1>26. QED
  BY <1>1, <1>3, <1>4, <1>5, <1>6, <1>7, <1>8, <1>9, <1>10, <1>11, <1>12, <1>13,
     <1>14, <1>15, <1>16, <1>17, <1>18, <1>19, <1>20, <1>21, <1>22, <1>23, <1>24,
     <1>25, <1>27, <1>28, <1>29, <1>30, <1>31, <1>32
  DEF Next, App, Drive, Loop, Send, Pool

(* Type correctness of every reachable state. *)
THEOREM TypeCorrect == Spec => []TypeOK
  BY TypeInit, TypeNext, PTL DEF Spec

-----------------------------------------------------------------------------
(* Only four kinds of steps touch the callbacks. *)
LEMMA PostFrame ==
  ASSUME [Next]_vars
  PROVE  \/ UNCHANGED <<post_queue, batch, npost, ran>>
         \/ Push /\ UNCHANGED <<batch, ran>>
         \/ drain_post_queue
         \/ RunPosted
<1>1. CASE App
  BY <1>1 DEF App, start, stop, destroy, post, add_job, after, remove_job, run_blocking
<1>2. CASE Drive BY <1>2 DEF Drive, step, run
<1>3. CASE Loop
  BY <1>3 DEF Loop, PollWake, PollTimeout, AsyncWork, AsyncPost, after_work_cb,
              AsyncEnd, RunClosing, FireTimer, TimersEnd, CallbackReturn, OneshotReturn
<1>4. ASSUME NEW p \in Posters, PostPush(p) \/ Send(p)
      PROVE  UNCHANGED <<post_queue, batch, npost, ran>> \/ (Push /\ UNCHANGED <<batch, ran>>)
  BY <1>4 DEF PostPush, Send, SendLoad, SendExchange, SendWrite
<1>5. ASSUME NEW w \in Works, Pool(w) PROVE UNCHANGED <<post_queue, batch, npost, ran>>
  BY <1>5 DEF Pool, WorkBegin, WorkEnd
<1>6. QED BY <1>1, <1>2, <1>3, <1>4, <1>5 DEF Next

(* post(), the swap of drain_post_queue() and each call keep the numbers of
   the waiting callbacks consecutive. *)
LEMMA FifoNext == TypeOK /\ FifoExactlyOnce /\ [Next]_vars => FifoExactlyOnce'
<1> SUFFICES ASSUME TypeOK, FifoExactlyOnce, [Next]_vars PROVE FifoExactlyOnce'
  OBVIOUS
<1> USE BoundAssumption DEF TypeOK, TypePost, FifoExactlyOnce
<1>0. Len(post_queue) \in Nat /\ Len(batch) \in Nat /\ npost \in Nat
  OBVIOUS
<1>1. CASE UNCHANGED <<post_queue, batch, npost, ran>> BY <1>1
<1>2. CASE Push /\ UNCHANGED <<batch, ran>>
  <2>1. /\ Len(post_queue') = Len(post_queue) + 1
        /\ \A i \in 1..Len(post_queue) : post_queue'[i] = post_queue[i]
        /\ post_queue'[Len(post_queue) + 1] = npost + 1
        /\ npost' = npost + 1
    BY <1>2 DEF Push
  <2>2. \A i \in 1..Len(post_queue') : post_queue'[i] = ran + Len(batch) + i
    <3> TAKE i \in 1..Len(post_queue')
    <3>1. CASE i \in 1..Len(post_queue) BY <3>1, <2>1
    <3>2. CASE i = Len(post_queue) + 1
      <4>1. post_queue'[i] = npost + 1 BY <3>2, <2>1
      <4>2. npost + 1 = ran + Len(batch) + i BY <3>2, <1>0
      <4>3. QED BY <4>1, <4>2
    <3>3. QED BY <3>1, <3>2, <2>1, <1>0
  <2>3. QED BY <1>2, <2>1, <2>2
<1>3. CASE drain_post_queue BY <1>3 DEF drain_post_queue, TypeLoop
<1>4. CASE RunPosted
  <2>1. /\ Len(batch) > 0
        /\ ran' = batch[1]
        /\ Len(batch') = Len(batch) - 1
        /\ \A i \in 1..Len(batch') : batch'[i] = batch[i + 1]
    BY <1>4 DEF RunPosted
  <2>2. ran' = ran + 1 BY <2>1
  <2>3. \A i \in 1..Len(batch') : batch'[i] = ran' + i BY <2>1, <2>2
  <2>4. UNCHANGED <<post_queue, npost>> BY <1>4 DEF RunPosted
  <2>5. ran' + Len(batch') = ran + Len(batch) BY <2>1, <2>2, <1>0
  <2>6. \A i \in 1..Len(post_queue) : post_queue[i] = ran' + Len(batch') + i
    BY <2>5, <1>0
  <2>7. ran' + Len(batch') + Len(post_queue) = npost BY <2>5, <1>0
  <2>8. QED BY <2>3, <2>4, <2>6, <2>7
<1>5. QED BY <1>1, <1>2, <1>3, <1>4, PostFrame

(* Posted callbacks are called in order and exactly once, whatever the threads
   do. *)
THEOREM PostsFifoExactlyOnce == Spec => []FifoExactlyOnce
<1>1. Init => FifoExactlyOnce BY DEF Init, FifoExactlyOnce
<1>2. QED BY <1>1, FifoNext, TypeCorrect, PTL DEF Spec

-----------------------------------------------------------------------------
(* What makes NoLostWakeup inductive: while the handle is open, a pending flag
   that is set has a reason to be seen. *)
PendingSeen ==
  asyncH = "active" /\ pending =>
    wakeup \/ "post" \in todo \/ \E p \in Posters : ppc[p] = "write"

StartedActive == started <=> asyncH = "active"

WakeInv == StartedActive /\ PendingSeen /\ NoLostWakeup

(* Pushing, signalling, clearing the flag and swapping the queue hand the
   responsibility for the queue on, and never drop it. *)
LEMMA WakeNext == TypeOK /\ WakeInv /\ [Next]_vars => WakeInv'
<1> SUFFICES ASSUME TypeOK, WakeInv, [Next]_vars PROVE WakeInv'
  OBVIOUS
<1> USE DEF TypeOK, TypeLife, TypePost, TypeLoop, WakeInv, StartedActive,
            PendingSeen, NoLostWakeup, PostSignalled
<1>1. CASE start BY <1>1 DEF start
<1>2. CASE stop BY <1>2 DEF stop, StopEffect
<1>3. CASE destroy BY <1>3 DEF destroy, StopEffect
<1>4. CASE post BY <1>4 DEF post, Push
<1>5. ASSUME UNCHANGED <<postVars, started, asyncH, phase, todo>> PROVE WakeInv'
  BY <1>5
<1>6. CASE step BY <1>6 DEF step
<1>7. ASSUME NEW due, run(due) PROVE WakeInv' BY <1>7 DEF run
<1>8. CASE PollWake BY <1>8 DEF PollWake
<1>9. CASE PollTimeout BY <1>9 DEF PollTimeout
<1>10. CASE AsyncWork BY <1>10 DEF AsyncWork
<1>11. CASE AsyncPost BY <1>11 DEF AsyncPost, AtAsync
<1>12. CASE drain_post_queue BY <1>12 DEF drain_post_queue
<1>13. CASE RunPosted BY <1>13 DEF RunPosted
<1>14. CASE AsyncEnd BY <1>14 DEF AsyncEnd, AtAsync
<1>15. ASSUME NEW due, RunClosing(due) PROVE WakeInv' BY <1>15 DEF RunClosing, AsyncClosing
<1>16. CASE TimersEnd BY <1>16 DEF TimersEnd, AtTimers
<1>17. ASSUME NEW p \in Posters, PostPush(p) PROVE WakeInv' BY <1>17 DEF PostPush, Push
<1>18. ASSUME NEW p \in Posters, SendLoad(p) PROVE WakeInv' BY <1>18 DEF SendLoad
<1>19. ASSUME NEW p \in Posters, SendExchange(p) PROVE WakeInv' BY <1>19 DEF SendExchange
<1>20. ASSUME NEW p \in Posters, SendWrite(p) PROVE WakeInv' BY <1>20 DEF SendWrite
<1>21. ASSUME NEW w \in Works, WorkEnd(w) PROVE WakeInv' BY <1>21 DEF WorkEnd
<1>22. QED
  BY <1>1, <1>2, <1>3, <1>4, <1>5, <1>6, <1>7, <1>8, <1>9, <1>10, <1>11, <1>12, <1>13,
     <1>14, <1>15, <1>16, <1>17, <1>18, <1>19, <1>20, <1>21
  DEF Next, App, Drive, Loop, Send, Pool, add_job, after, remove_job, run_blocking,
      after_work_cb, FireTimer, CallbackReturn, OneshotReturn, WorkBegin

(* No wake-up is lost, for any number of posting threads. *)
THEOREM WakeupNeverLost == Spec => []NoLostWakeup
<1>1. Init => WakeInv
  BY DEF Init, WakeInv, StartedActive, PendingSeen, NoLostWakeup
<1>2. QED BY <1>1, WakeNext, TypeCorrect, PTL DEF Spec, WakeInv

-----------------------------------------------------------------------------
(* Callbacks are called from their own phase of the loop, so no context is
   freed (phase "closing") while one runs. *)
RunningPhase ==
  /\ running \in {"post", "done"} => phase = "async"
  /\ running = "timer" => /\ phase \in {"timers", "timers0"}
                          /\ cur \in Ctxs
                          /\ tstate[cur] \in {"active", "inactive", "closing"}

(* The names of one-shot timers and of jobs do not mix. *)
NamesApart ==
  \A n \in Names : timers[n] # NoCtx =>
    IF n \in Ctxs THEN timers[n] = n /\ kind[n] = "oneshot"
                  ELSE kind[timers[n]] # "oneshot"

TimerInv == TimerMapConsistent /\ RunningPhase /\ NamesApart

(* Adding, removing, firing and closing timers keep the map in step. *)
LEMMA TimerNext == TypeOK /\ TimerInv /\ [Next]_vars => TimerInv'
<1> SUFFICES ASSUME TypeOK, TimerInv, [Next]_vars PROVE TimerInv'
  OBVIOUS
<1> USE CtxAssumption, NameAssumption
    DEF TypeOK, TypeTimer, TypeLoop, TimerInv, TimerMapConsistent, RunningPhase,
        NamesApart, Live, Registered, Names
<1>1. ASSUME StopEffect, UNCHANGED <<phase, running, cur>> PROVE TimerInv'
  BY <1>1 DEF StopEffect, CloseTimers
<1>2. CASE stop BY <1>1, <1>2 DEF stop
<1>3. CASE destroy BY <1>1, <1>3 DEF destroy
<1>4. ASSUME NEW n \in Jobs, NEW t \in Ctxs, NEW k \in {"job", "job0"}, add_job(n, t, k)
      PROVE TimerInv'
  <2>1. /\ tstate[t] = "none"
        /\ timers' = [timers EXCEPT ![n] = t]
        /\ kind' = [kind EXCEPT ![t] = k]
        /\ UNCHANGED <<phase, running, cur>>
    BY <1>4 DEF add_job, MayAddTimer, StartTimer
  <2>6. ASSUME NEW x \in Ctxs
        PROVE  tstate'[x] = IF x = t THEN "active"
                            ELSE IF x = timers[n] THEN "closing" ELSE tstate[x]
    BY <1>4 DEF add_job, StartTimer
  <2>7. ASSUME NEW x \in Ctxs
        PROVE  owner'[x] <=> x = t \/ (owner[x] /\ x # timers[n])
    BY <1>4 DEF add_job
  <2>8. n \notin Ctxs /\ \A m \in Names : timers[m] # t BY <2>1
  <2>2. TimerMapConsistent'
    <3>1. \A m \in Names : timers'[m] # NoCtx => (Live(timers[m])' /\ owner'[timers'[m]])
      BY <2>1, <2>6, <2>7, <2>8
    <3>2. \A l, m \in Names : timers'[l] = timers'[m] /\ timers'[m] # NoCtx => l = m
      BY <2>1, <2>8
    <3>3. ASSUME NEW x \in Ctxs, Live(x)' PROVE x \in Registered'
      <4>1. CASE x = t BY <4>1, <2>1
      <4>2. CASE x # t
        <5>1. Live(x) /\ x # timers[n] BY <4>2, <3>3, <2>6
        <5>2. PICK m \in Names : timers[m] = x BY <5>1
        <5>3. QED BY <5>1, <5>2, <2>1
      <4>3. QED BY <4>1, <4>2
    <3>4. QED BY <3>1, <3>2, <3>3
  <2>3. RunningPhase' BY <2>1, <2>6
  <2>4. NamesApart' BY <2>1, <2>8
  <2>5. QED BY <2>2, <2>3, <2>4
<1>5. ASSUME NEW t \in Ctxs, after(t) PROVE TimerInv'
  BY <1>5 DEF after, MayAddTimer, StartTimer
<1>6. ASSUME NEW n \in Jobs, remove_job(n) PROVE TimerInv'
  BY <1>6 DEF remove_job, CloseTimers
<1>7. ASSUME UNCHANGED <<timerVars, phase, running, cur>> PROVE TimerInv'
  BY <1>7
<1>8. ASSUME UNCHANGED timerVars, running = "none", running' = "none" PROVE TimerInv'
  BY <1>8
<1>9. CASE step BY <1>9 DEF step
<1>10. ASSUME NEW due, run(due) PROVE TimerInv' BY <1>10 DEF run, Collect, TimersIn
<1>11. ASSUME NEW due, RunClosing(due) PROVE TimerInv'
  BY <1>11 DEF RunClosing, Collect, TimersIn
<1>12. ASSUME NEW t \in Ctxs, FireTimer(t) PROVE TimerInv' BY <1>12 DEF FireTimer, AtTimers
<1>13. CASE OneshotReturn BY <1>13 DEF OneshotReturn
<1>14. CASE CallbackReturn BY <1>14 DEF CallbackReturn
<1>15. CASE PollWake \/ PollTimeout BY <1>15 DEF PollWake, PollTimeout
<1>16. CASE AsyncWork \/ AsyncPost \/ drain_post_queue \/ AsyncEnd \/ TimersEnd
  BY <1>7, <1>8, <1>16 DEF AsyncWork, AsyncPost, drain_post_queue, AsyncEnd, AtAsync,
                          TimersEnd, AtTimers
<1>17. CASE RunPosted BY <1>17 DEF RunPosted, AtAsync
<1>18. ASSUME NEW w \in Works, after_work_cb(w) PROVE TimerInv'
  BY <1>18 DEF after_work_cb, AtAsync
<1> HIDE DEF TypeOK, TimerInv
<1>19. QED
  BY <1>2, <1>3, <1>4, <1>5, <1>6, <1>7, <1>9, <1>10, <1>11, <1>12, <1>13, <1>14, <1>15,
     <1>16, <1>17, <1>18
  DEF Next, App, Drive, Loop, Send, Pool, start, post, run_blocking, PostPush,
      SendLoad, SendExchange, SendWrite, WorkBegin, WorkEnd

(* TimerInv holds in every reachable state. *)
LEMMA TimerSafe == Spec => []TimerInv
<1>1. Init => TimerInv
  BY CtxAssumption DEF Init, TimerInv, TimerMapConsistent, RunningPhase, NamesApart, Live,
     Registered, Names
<1>2. QED BY <1>1, TimerNext, TypeCorrect, PTL DEF Spec

(* The map of timers and libuv's handles agree in every reachable state. *)
THEOREM TimerMapAgrees == Spec => []TimerMapConsistent
  BY TimerSafe, PTL DEF TimerInv

(* No callback outlives its context. *)
THEOREM CtxOutlivesCallback == Spec => []RunningCtxAllocated
<1>1. TimerInv => RunningCtxAllocated
  BY DEF TimerInv, RunningPhase, RunningCtxAllocated
<1>2. QED BY <1>1, TimerSafe, PTL

(* A timer that was removed, replaced or stopped never fires. *)
THEOREM RemovedNeverFires == Spec => FiresOnlyRegistered
<1>1. TypeOK /\ TimerInv /\ [Next]_vars
        => [running = "none" /\ running' = "timer" => cur' \in Registered]_vars
  <2> SUFFICES ASSUME TimerInv, Next, running = "none", running' = "timer"
               PROVE  cur' \in Registered
    OBVIOUS
  <2>1. PICK t \in Ctxs : FireTimer(t)
    BY DEF Next, App, Drive, Loop, Send, Pool, start, stop, destroy, post, add_job, after,
       remove_job, run_blocking, step, run, PollWake, PollTimeout, AsyncWork, AsyncPost,
       drain_post_queue, RunPosted, after_work_cb, AsyncEnd, RunClosing, TimersEnd,
       CallbackReturn, OneshotReturn, PostPush, SendLoad, SendExchange, SendWrite,
       WorkBegin, WorkEnd
  <2>2. QED BY <2>1 DEF FireTimer, TimerInv, TimerMapConsistent, Live
<1>2. QED BY <1>1, TypeCorrect, TimerSafe, PTL DEF Spec, FiresOnlyRegistered

-----------------------------------------------------------------------------
(* While an after() callback runs its timer is stopped and still registered,
   so that oneshot_timer_cb closes it for the first time. *)
FaultInv ==
  /\ NoFault
  /\ running = "timer" /\ kind[cur] = "oneshot" => Live(cur)

(* Without the two misuses no step closes or initialises a closing handle. *)
LEMMA FaultNext ==
  ASSUME AppMay \cap {"stop_in_after", "early_restart"} = {}
  PROVE  TypeOK /\ TimerInv /\ FaultInv /\ [Next]_vars => FaultInv'
<1> SUFFICES ASSUME TypeOK, TimerInv, FaultInv, [Next]_vars PROVE FaultInv'
  OBVIOUS
<1> USE CtxAssumption, NameAssumption
    DEF TypeOK, TypeLife, TypeTimer, TypeLoop, TimerInv, TimerMapConsistent, RunningPhase,
        NamesApart, Live, Registered, Names, FaultInv, NoFault, ClosingTwice
<1>1. CASE start BY <1>1 DEF start
<1>2. ASSUME StopEffect PROVE fault' = fault
  BY <1>2 DEF StopEffect
<1>3. CASE stop BY <1>2, <1>3 DEF stop, StopEffect
<1>4. CASE destroy BY <1>2, <1>4 DEF destroy
<1>5. ASSUME NEW n \in Jobs, NEW t \in Ctxs, NEW k \in {"job", "job0"}, add_job(n, t, k)
      PROVE FaultInv'
  <2>1. fault' = fault BY <1>5 DEF add_job
  <2>2. ASSUME NEW x \in Ctxs, Live(x), kind[x] = "oneshot"
        PROVE  Live(x)'
    <3>1. x # timers[n] BY <2>2
    <3>2. QED BY <3>1, <2>2, <1>5 DEF add_job, StartTimer
  <2>3. /\ UNCHANGED <<running, cur>>
        /\ running = "timer" => cur # t /\ kind'[cur] = kind[cur]
    BY <1>5 DEF add_job, MayAddTimer, StartTimer
  <2>4. QED BY <2>1, <2>2, <2>3
<1>6. ASSUME NEW t \in Ctxs, after(t) PROVE FaultInv'
  BY <1>6 DEF after, MayAddTimer, StartTimer
<1>7. ASSUME NEW n \in Jobs, remove_job(n) PROVE FaultInv'
  BY <1>7 DEF remove_job, CloseTimers
<1>8. ASSUME UNCHANGED <<timerVars, running, cur, fault>> PROVE FaultInv'
  BY <1>8
<1>9. ASSUME fault' = fault, running' # "timer" PROVE FaultInv' BY <1>9
<1>10. ASSUME NEW due, run(due) PROVE FaultInv' BY <1>10 DEF run, Collect
<1>11. ASSUME NEW due, RunClosing(due) PROVE FaultInv' BY <1>11 DEF RunClosing
<1>12. ASSUME NEW t \in Ctxs, FireTimer(t) PROVE FaultInv' BY <1>12 DEF FireTimer
<1>13. CASE OneshotReturn BY <1>13 DEF OneshotReturn
<1> HIDE DEF TypeOK, TimerInv, FaultInv, NoFault
<1>14. QED
  BY <1>1, <1>3, <1>4, <1>5, <1>6, <1>7, <1>8, <1>9, <1>10, <1>11, <1>12, <1>13
  DEF Next, App, Drive, Loop, Send, Pool, post, run_blocking, step, PollWake, PollTimeout,
      AsyncWork, AsyncPost, drain_post_queue, RunPosted, after_work_cb, AsyncEnd, TimersEnd,
      CallbackReturn, PostPush, SendLoad, SendExchange, SendWrite, WorkBegin, WorkEnd

(* No assertion of libuv fails as long as stop() is not called from an after()
   callback and start() not before the previous stop() is complete: these two
   uses, in which TLC finds a failing assertion, are the only ones. *)
THEOREM AssertionsHold ==
  ASSUME AppMay \cap {"stop_in_after", "early_restart"} = {}
  PROVE  Spec => []NoFault
<1>1. Init => FaultInv BY DEF Init, FaultInv, NoFault
<1>2. FaultInv => NoFault BY DEF FaultInv
<1>3. QED BY <1>1, <1>2, FaultNext, TypeCorrect, TimerSafe, PTL DEF Spec

-----------------------------------------------------------------------------
(* A scheduler that is not started has no timer, and one that is deleted is not
   started and left behind no callback that the loop was about to call. *)
SettledInv ==
  /\ started <=> asyncH = "active"
  /\ ~started => \A n \in Names : timers[n] = NoCtx
  /\ destroyed => /\ ~started /\ running \notin {"post", "timer"}
                  /\ batch = <<>> /\ "post" \notin todo /\ phase # "drain"

(* If no timer is added while the scheduler is stopped it stays without. *)
LEMMA SettledNext ==
  ASSUME "unstarted_timer" \notin AppMay
  PROVE  TypeOK /\ TimerInv /\ SettledInv /\ [Next]_vars => SettledInv'
<1> SUFFICES ASSUME TypeOK, TimerInv, SettledInv, [Next]_vars PROVE SettledInv'
  OBVIOUS
<1> USE CtxAssumption DEF TypeOK, TypeLife, TypeTimer, TypeLoop, SettledInv
<1>1. CASE start BY <1>1 DEF start
<1>2. CASE stop BY <1>2 DEF stop, StopEffect
<1>3. CASE destroy
  <2>1. running = "none" BY <1>3 DEF destroy, TimerInv, RunningPhase
  <2>2. batch = <<>> /\ todo = {} BY <1>3 DEF destroy
  <2>3. QED BY <1>3, <2>1, <2>2 DEF destroy, StopEffect
<1>4. ASSUME NEW n \in Jobs, NEW t \in Ctxs, NEW k \in {"job", "job0"}, add_job(n, t, k)
      PROVE SettledInv'
  BY <1>4 DEF add_job, MayAddTimer
<1>5. ASSUME NEW t \in Ctxs, after(t) PROVE SettledInv' BY <1>5 DEF after, MayAddTimer
<1>6. ASSUME NEW n \in Jobs, remove_job(n) PROVE SettledInv' BY <1>6 DEF remove_job
<1>7. ASSUME UNCHANGED <<started, asyncH, destroyed, timers, batch>>,
             running' \in {running, "none"}, todo' \subseteq todo,
             phase' = "drain" => phase = "drain" \/ "post" \in todo
      PROVE SettledInv'
  BY <1>7
<1>8. CASE PollWake BY <1>8 DEF PollWake
<1>9. CASE drain_post_queue
  <2>1. ~destroyed BY <1>9 DEF drain_post_queue
  <2>2. QED BY <1>9, <2>1 DEF drain_post_queue
<1>10. CASE RunPosted BY <1>10 DEF RunPosted
<1>11. ASSUME NEW w \in Works, after_work_cb(w) PROVE SettledInv' BY <1>11 DEF after_work_cb
<1>12. ASSUME NEW due, RunClosing(due) PROVE SettledInv'
  BY <1>12 DEF RunClosing, AsyncClosing
<1>13. ASSUME NEW t \in Ctxs, FireTimer(t) PROVE SettledInv'
  <2>1. t \in Registered BY <1>13 DEF FireTimer, TimerInv, TimerMapConsistent, Live
  <2>2. ~destroyed BY <2>1 DEF Registered
  <2>3. QED BY <1>13, <2>2 DEF FireTimer
<1>14. CASE OneshotReturn BY <1>14 DEF OneshotReturn
<1> HIDE DEF TypeOK, SettledInv
<1>15. QED
  BY <1>1, <1>2, <1>3, <1>4, <1>5, <1>6, <1>7, <1>8, <1>9, <1>10, <1>11, <1>12, <1>13, <1>14
  DEF Next, App, Drive, Loop, Send, Pool, post, Push, run_blocking, step, run, PollTimeout,
      AsyncWork, AsyncPost, AsyncEnd, TimersEnd,
      CallbackReturn, PostPush, SendLoad, SendExchange, SendWrite, WorkBegin, WorkEnd

(* Whenever the scheduler is deleted, also while it is started and with timers due
   and callbacks posted, none of its callbacks is called after it, and only
   async_handle_ can still be on libuv's closing list. *)
THEOREM DestroyIsSafe ==
  ASSUME "unstarted_timer" \notin AppMay
  PROVE  Spec => []DestroyedIsSilent
<1>1. Init => SettledInv BY DEF Init, SettledInv
<1>2. SettledInv /\ TimerInv => DestroyedIsSilent
  BY DEF SettledInv, TimerInv, TimerMapConsistent, Registered, DestroyedIsSilent
<1>3. QED BY <1>1, <1>2, SettledNext, TypeCorrect, TimerSafe, PTL DEF Spec

-----------------------------------------------------------------------------
(* What makes CompletionSignalled inductive: a pending flag of the pool's async
   handle has a reason to be seen. *)
PoolInv == (wqPending => wakeup \/ "wq" \in todo) /\ CompletionSignalled

(* Only uv__work_done clears the flag, and it takes every finished request. *)
LEMMA PoolNext == TypeOK /\ PoolInv /\ [Next]_vars => PoolInv'
<1> SUFFICES ASSUME TypeOK, PoolInv, [Next]_vars PROVE PoolInv'
  OBVIOUS
<1> USE DEF TypeOK, TypePost, TypeWork, TypeLoop, PoolInv, CompletionSignalled
<1>1. ASSUME UNCHANGED <<wstate, wqPending>>, wakeup => wakeup',
             "wq" \in todo => "wq" \in todo'
      PROVE  PoolInv'
  BY <1>1
<1>2. CASE stop \/ destroy BY <1>1, <1>2 DEF stop, destroy, StopEffect
<1>3. CASE post BY <1>1, <1>3 DEF post
<1>4. ASSUME NEW w \in Works, run_blocking(w) PROVE PoolInv' BY <1>4 DEF run_blocking
<1>5. CASE PollWake BY <1>5 DEF PollWake
<1>6. CASE AsyncWork BY <1>6 DEF AsyncWork
<1>7. CASE AsyncPost BY <1>1, <1>7 DEF AsyncPost
<1>8. ASSUME NEW w \in Works, after_work_cb(w) PROVE PoolInv' BY <1>8 DEF after_work_cb
<1>9. ASSUME NEW w \in Works, WorkBegin(w) PROVE PoolInv' BY <1>9 DEF WorkBegin
<1>10. ASSUME NEW w \in Works, WorkEnd(w) PROVE PoolInv' BY <1>10 DEF WorkEnd
<1>11. ASSUME NEW p \in Posters, SendWrite(p) PROVE PoolInv' BY <1>1, <1>11 DEF SendWrite
<1>12. ASSUME UNCHANGED <<wstate, wqPending, wakeup, todo>> PROVE PoolInv' BY <1>1, <1>12
<1>13. QED
  BY <1>2, <1>3, <1>4, <1>5, <1>6, <1>7, <1>8, <1>9, <1>10, <1>11, <1>12
  DEF Next, App, Drive, Loop, Send, Pool, start, add_job, after, remove_job, step, run,
      PollTimeout, drain_post_queue, RunPosted, AsyncEnd, RunClosing, FireTimer, TimersEnd,
      CallbackReturn, OneshotReturn, PostPush, SendLoad, SendExchange

(* A finished request never waits unsignalled, for any size of the pool. *)
THEOREM CompletionNeverLost == Spec => []CompletionSignalled
<1>1. Init => PoolInv BY DEF Init, PoolInv, CompletionSignalled
<1>2. QED BY <1>1, PoolNext, TypeCorrect, PTL DEF Spec, PoolInv
=============================================================================
