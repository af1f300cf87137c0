---------------------------- MODULE UvScheduler ----------------------------
(***************************************************************************)
(* The scheduler of src/wheel/scheduler (class UvScheduler) on top of the  *)
(* libuv loop it drives: a queue of callbacks posted from any thread, a    *)
(* map of named timers, and blocking work handed to libuv's thread pool.   *)
(*                                                                         *)
(* Three kinds of threads take steps.  The main thread runs application    *)
(* code, either outside uv_run (phase = "out") or inside a callback the    *)
(* loop has called (running # "none"); between those it is inside uv_run.  *)
(* Poster threads (the IXWebSocket thread in this program) call post().    *)
(* Pool threads run the work of run_blocking().                            *)
(*                                                                         *)
(* Time is abstract: whenever the loop looks at its timers, any set of the *)
(* running ones may be due.  An allocated TimerCtx or uv_work_t is a       *)
(* member of Ctxs or Works; a freed one may be allocated again.            *)
(***************************************************************************)
EXTENDS Naturals, Sequences, FiniteSets

CONSTANTS
  Posters,   \* threads other than the main one that call post()
  Ctxs,      \* addresses a TimerCtx can have
  Jobs,      \* names given to add_job()
  Works,     \* addresses a uv_work_t can have
  NoCtx,     \* the null TimerCtx*
  PoolSize,  \* threads of libuv's pool
  MaxPosts,  \* bound on the number of calls of post()
  AppMay     \* what the application may do against the scheduler's usage
             \* rules: see Misuse

(* What the usage rules that the callers in the repository follow exclude:
   "stop_in_after"  calling stop() from an after() callback;
   "early_restart"  calling start() again before a complete step() or run()
                    that follows stop();
   "unstarted_timer" adding a timer while the scheduler is not started. *)
Misuse == {"stop_in_after", "early_restart", "unstarted_timer"}

ASSUME MisuseAssumption == AppMay \subseteq Misuse
ASSUME CtxAssumption    == NoCtx \notin Ctxs
ASSUME NameAssumption   == Jobs \cap Ctxs = {}
ASSUME BoundAssumption  == MaxPosts \in Nat /\ PoolSize \in Nat

VARIABLES
  started,     \* started_ (and async_inited_, which always equals it)
  asyncH,      \* state of async_handle_ in libuv
  pending,     \* async_handle_.pending
  wakeup,      \* the loop's eventfd is readable
  post_queue,  \* post_queue_, callbacks numbered in the order of post()
  batch,       \* drain_post_queue()'s local vector, what is left of it
  npost,       \* number of callbacks posted so far
  ran,         \* number of the last posted callback called
  staleId,     \* npost when start() last ran: older callbacks are leftovers
  ppc,         \* where each poster thread is in post()
  timers,      \* timers_: name -> TimerCtx*
  tstate,      \* state of each TimerCtx's uv_timer_t
  kind,        \* which callback the timer has, and whether it repeats
  owner,       \* TimerCtx::owner is not null
  wstate,      \* where each blocking request is
  wqPending,   \* the pending flag of the pool's own async handle
  phase,       \* where the main thread is in uv_run
  mode,        \* uv_run's mode: "once" for step(), "default" for run()
  todo,        \* async handles uv__async_io has still to look at
  running,     \* kind of callback the main thread is in
  cur,         \* the TimerCtx whose callback that is
  destroyed,   \* the UvScheduler has been deleted
  fault        \* what ended the program: a libuv assertion that failed, or the
               \* loop's use of a handle in memory that was freed

postVars  == <<pending, wakeup, post_queue, batch, npost, ran, staleId, ppc>>
timerVars == <<timers, tstate, kind, owner>>
workVars  == <<wstate, wqPending>>
loopVars  == <<phase, mode, todo, running, cur>>
lifeVars  == <<started, asyncH, destroyed, fault>>
vars == <<postVars, timerVars, workVars, loopVars, lifeVars>>

(* A one-shot timer is named "_a_<n>" with a fresh n: its context stands for
   that name. *)
Names == Jobs \cup Ctxs

TypeLife ==
  /\ started \in BOOLEAN /\ destroyed \in BOOLEAN
  /\ asyncH \in {"none", "active", "closing", "closed"}
  /\ fault \in {"none", "close_closing", "init_closing", "freed_handle"}

TypePost ==
  /\ pending \in BOOLEAN /\ wakeup \in BOOLEAN
  /\ post_queue \in Seq(Nat) /\ batch \in Seq(Nat)
  /\ npost \in 0..MaxPosts /\ ran \in Nat /\ staleId \in 0..MaxPosts
  /\ ppc \in [Posters -> {"idle", "load", "xchg", "write"}]

TypeTimer ==
  /\ timers \in [Names -> Ctxs \cup {NoCtx}]
  /\ tstate \in [Ctxs -> {"none", "active", "ready", "inactive", "closing"}]
  /\ kind \in [Ctxs -> {"job", "job0", "oneshot"}]
  /\ owner \in [Ctxs -> BOOLEAN]

TypeWork ==
  /\ wstate \in [Works -> {"none", "queued", "working", "finished", "taken"}]
  /\ wqPending \in BOOLEAN

TypeLoop ==
  /\ phase \in {"out", "timers0", "poll", "async", "drain", "closing", "timers"}
  /\ mode \in {"once", "default"}
  /\ todo \subseteq {"wq", "post"}
  /\ running \in {"none", "post", "timer", "done"}
  /\ cur \in Ctxs \cup {NoCtx}
  /\ phase # "async" => batch = <<>>
  /\ phase \notin {"async", "drain"} => todo = {}

(* Every variable has its type, and what is local to a function of the loop is
   empty outside it: drain_post_queue() has called its whole batch, and
   uv__async_io has looked at every handle, before uv_run goes on. *)
TypeOK == TypeLife /\ TypePost /\ TypeTimer /\ TypeWork /\ TypeLoop

Init ==
  /\ started = FALSE /\ asyncH = "none"
  /\ destroyed = FALSE /\ fault = "none"
  /\ pending = FALSE /\ wakeup = FALSE
  /\ post_queue = <<>> /\ batch = <<>> /\ npost = 0 /\ ran = 0 /\ staleId = 0
  /\ ppc = [p \in Posters |-> "idle"]
  /\ timers = [n \in Names |-> NoCtx]
  /\ tstate = [t \in Ctxs |-> "none"]
  /\ kind = [t \in Ctxs |-> "oneshot"]
  /\ owner = [t \in Ctxs |-> FALSE]
  /\ wstate = [w \in Works |-> "none"] /\ wqPending = FALSE
  /\ phase = "out" /\ mode = "once" /\ todo = {}
  /\ running = "none" /\ cur = NoCtx

(***************************************************************************)
(* Application code on the main thread.                                    *)
(***************************************************************************)
InCallback == running # "none"
AppRuns == phase = "out" \/ InCallback

Registered == {timers[n] : n \in Names} \ {NoCtx}
Live(t) == tstate[t] \in {"active", "ready", "inactive"}

(* uv_close asserts that the handle is not closing already. *)
ClosingTwice(S) == \E t \in S : ~Live(t)

(* Mutants of CloseTimers: the context is deleted at once instead of in
   timer_close_cb; a timer that is due already stays in the ready queue. *)
CloseTimers_DeleteNow(S) ==
  /\ tstate' = [t \in Ctxs |-> IF t \in S THEN "none" ELSE tstate[t]]
  /\ owner' = [t \in Ctxs |-> owner[t] /\ t \notin S]

CloseTimers_LeaveReady(S) ==
  /\ tstate' = [t \in Ctxs |-> IF t \in S /\ tstate[t] # "ready"
                               THEN "closing" ELSE tstate[t]]
  /\ owner' = [t \in Ctxs |-> owner[t] /\ t \notin S]

(* uv_timer_stop + uv_close of the contexts in S: the timer leaves the heap
   or the ready queue, and its handle joins the closing list. *)
CloseTimers(S) ==
  /\ tstate' = [t \in Ctxs |-> IF t \in S THEN "closing" ELSE tstate[t]]
  /\ owner' = [t \in Ctxs |-> owner[t] /\ t \notin S]

(* uv__async_close: uv__async_spin sets pending, so that later senders go
   away, and waits for those that are writing to the eventfd. *)
SendersOut == \A p \in Posters : ppc[p] # "write"

start ==
  /\ AppRuns /\ ~destroyed
  /\ ~started
  /\ asyncH # "closing" \/ "early_restart" \in AppMay
  /\ started' = TRUE
  /\ fault' = IF asyncH = "closing" THEN "init_closing" ELSE fault
  /\ asyncH' = "active"
  /\ pending' = FALSE
  /\ staleId' = npost
  /\ UNCHANGED <<wakeup, post_queue, batch, npost, ran, ppc, destroyed,
                 timerVars, workVars, loopVars>>

(* Mutant of StopEffect: the async handle is not closed. *)
StopEffect_LeaveAsync ==
  IF ~started
  THEN UNCHANGED <<started, asyncH, pending, todo, timerVars, fault>>
  ELSE /\ started' = FALSE
       /\ CloseTimers(Registered)
       /\ timers' = [n \in Names |-> NoCtx]
       /\ UNCHANGED <<asyncH, pending, todo, kind, fault>>

StopEffect ==
  IF ~started
  THEN UNCHANGED <<started, asyncH, pending, todo, timerVars, fault>>
  ELSE /\ SendersOut
       /\ started' = FALSE
       /\ fault' = IF ClosingTwice(Registered) THEN "close_closing" ELSE fault
       /\ CloseTimers(Registered)
       /\ timers' = [n \in Names |-> NoCtx]
       /\ asyncH' = "closing"
       /\ pending' = TRUE
       /\ todo' = todo \ {"post"}
       /\ UNCHANGED kind

stop ==
  /\ AppRuns /\ ~destroyed
  /\ (running = "timer" => kind[cur] # "oneshot") \/ "stop_in_after" \in AppMay
  /\ StopEffect
  /\ UNCHANGED <<wakeup, post_queue, batch, npost, ran, staleId, ppc, workVars,
                 phase, mode, running, cur, destroyed>>

(* ~UvScheduler: stop(), then the memory that holds async_handle_, timers_ and
   post_queue_ is gone, whether or not a turn of the loop has closed the handle.
   It is deleted between two calls of uv_run, with no thread in post(). *)
destroy ==
  /\ phase = "out" /\ ~destroyed
  /\ \A p \in Posters : ppc[p] = "idle"
  /\ StopEffect
  /\ destroyed' = TRUE
  /\ UNCHANGED <<wakeup, post_queue, batch, npost, ran, staleId, ppc, workVars,
                 phase, mode, running, cur>>

(* The rest of add_job() and after(): a new context, its timer started and
   put in the map under name n. *)
StartTimer(t, n, k, ts, tm) ==
  /\ tstate' = [ts EXCEPT ![t] = "active"]
  /\ timers' = [tm EXCEPT ![n] = t]
  /\ kind' = [kind EXCEPT ![t] = k]

MayAddTimer(t) ==
  /\ AppRuns /\ ~destroyed
  /\ started \/ "unstarted_timer" \in AppMay
  /\ tstate[t] = "none"

(* add_job() closes the job of the same name first.  An interval of zero
   makes a timer that does not repeat ("job0"). *)
add_job(n, t, k) ==
  /\ MayAddTimer(t)
  /\ LET old == {timers[n]} \ {NoCtx}
     IN /\ fault' = IF ClosingTwice(old) THEN "close_closing" ELSE fault
        /\ StartTimer(t, n, k,
                      [x \in Ctxs |-> IF x \in old THEN "closing" ELSE tstate[x]],
                      timers)
        /\ owner' = [x \in Ctxs |-> x = t \/ (owner[x] /\ x \notin old)]
  /\ UNCHANGED <<postVars, workVars, loopVars, started, asyncH, destroyed>>

after(t) ==
  /\ MayAddTimer(t)
  /\ StartTimer(t, t, "oneshot", tstate, timers)
  /\ owner' = [owner EXCEPT ![t] = TRUE]
  /\ UNCHANGED <<postVars, workVars, loopVars, lifeVars>>

(* Mutant of remove_job: the name stays in the map. *)
remove_job_NoErase(n) ==
  /\ AppRuns /\ ~destroyed
  /\ timers[n] # NoCtx
  /\ fault' = IF ClosingTwice({timers[n]}) THEN "close_closing" ELSE fault
  /\ CloseTimers({timers[n]})
  /\ UNCHANGED <<postVars, workVars, loopVars, timers, kind, started, asyncH, destroyed>>

remove_job(n) ==
  /\ AppRuns /\ ~destroyed
  /\ timers[n] # NoCtx
  /\ timers' = [timers EXCEPT ![n] = NoCtx]
  /\ fault' = IF ClosingTwice({timers[n]}) THEN "close_closing" ELSE fault
  /\ CloseTimers({timers[n]})
  /\ UNCHANGED <<postVars, workVars, loopVars, kind, started, asyncH, destroyed>>

run_blocking(w) ==
  /\ AppRuns /\ ~destroyed
  /\ wstate[w] = "none"
  /\ wstate' = [wstate EXCEPT ![w] = "queued"]
  /\ UNCHANGED <<postVars, timerVars, loopVars, lifeVars, wqPending>>

(***************************************************************************)
(* post().  async_handle_ is uninitialised memory before the first start() *)
(* and gone after destroy: nobody posts then.                              *)
(***************************************************************************)
Push ==
  /\ asyncH # "none" /\ ~destroyed
  /\ npost < MaxPosts
  /\ npost' = npost + 1
  /\ post_queue' = Append(post_queue, npost + 1)

(* On the main thread no step of the loop comes between the push and the
   signal. *)
post ==
  /\ AppRuns
  /\ Push
  /\ pending' = TRUE
  /\ wakeup' = IF pending THEN wakeup ELSE TRUE
  /\ UNCHANGED <<batch, ran, staleId, ppc, timerVars, workVars, loopVars, lifeVars>>

(* Mutant of PostPush: signal only when the queue was empty. *)
PostPush_SignalIfEmpty(p) ==
  /\ ppc[p] = "idle"
  /\ Push
  /\ ppc' = [ppc EXCEPT ![p] = IF post_queue = <<>> THEN "load" ELSE "idle"]
  /\ UNCHANGED <<pending, wakeup, batch, ran, staleId,
                 timerVars, workVars, loopVars, lifeVars>>

(* On another thread post() is the push under post_mutex_ followed by the
   steps of uv_async_send. *)
PostPush(p) ==
  /\ ppc[p] = "idle"
  /\ Push
  /\ ppc' = [ppc EXCEPT ![p] = "load"]
  /\ UNCHANGED <<pending, wakeup, batch, ran, staleId,
                 timerVars, workVars, loopVars, lifeVars>>

SendLoad(p) ==
  /\ ppc[p] = "load"
  /\ ppc' = [ppc EXCEPT ![p] = IF pending THEN "idle" ELSE "xchg"]
  /\ UNCHANGED <<pending, wakeup, post_queue, batch, npost, ran, staleId,
                 timerVars, workVars, loopVars, lifeVars>>

(* Mutant of SendExchange: pending is set and the eventfd is not written. *)
SendExchange_NoWrite(p) ==
  /\ ppc[p] = "xchg"
  /\ pending' = TRUE
  /\ ppc' = [ppc EXCEPT ![p] = "idle"]
  /\ UNCHANGED <<wakeup, post_queue, batch, npost, ran, staleId,
                 timerVars, workVars, loopVars, lifeVars>>

SendExchange(p) ==
  /\ ppc[p] = "xchg"
  /\ pending' = TRUE
  /\ ppc' = [ppc EXCEPT ![p] = IF pending THEN "idle" ELSE "write"]
  /\ UNCHANGED <<wakeup, post_queue, batch, npost, ran, staleId,
                 timerVars, workVars, loopVars, lifeVars>>

SendWrite(p) ==
  /\ ppc[p] = "write"
  /\ wakeup' = TRUE
  /\ ppc' = [ppc EXCEPT ![p] = "idle"]
  /\ UNCHANGED <<pending, post_queue, batch, npost, ran, staleId,
                 timerVars, workVars, loopVars, lifeVars>>

(***************************************************************************)
(* The thread pool.  A pool thread appends the finished request to the     *)
(* loop's queue and signals the pool's async handle under wq_mutex.        *)
(***************************************************************************)
WorkBegin(w) ==
  /\ wstate[w] = "queued"
  /\ Cardinality({x \in Works : wstate[x] = "working"}) < PoolSize
  /\ wstate' = [wstate EXCEPT ![w] = "working"]
  /\ UNCHANGED <<postVars, timerVars, loopVars, lifeVars, wqPending>>

(* Mutant of WorkEnd: the loop is not woken. *)
WorkEnd_NoSignal(w) ==
  /\ wstate[w] = "working"
  /\ wstate' = [wstate EXCEPT ![w] = "finished"]
  /\ wqPending' = TRUE
  /\ UNCHANGED <<postVars, timerVars, loopVars, lifeVars>>

WorkEnd(w) ==
  /\ wstate[w] = "working"
  /\ wstate' = [wstate EXCEPT ![w] = "finished"]
  /\ wqPending' = TRUE
  /\ wakeup' = IF wqPending THEN wakeup ELSE TRUE
  /\ UNCHANGED <<pending, post_queue, batch, npost, ran, staleId, ppc,
                 timerVars, loopVars, lifeVars>>

(***************************************************************************)
(* uv_run.                                                                 *)
(***************************************************************************)
TimersIn(s) == {t \in Ctxs : tstate[t] = s}
AsyncClosing == asyncH = "closing"
ClosingHandles == AsyncClosing \/ TimersIn("closing") # {}
ActiveHandlesOrReqs ==
  \/ asyncH = "active"
  \/ TimersIn("active") # {}
  \/ \E w \in Works : wstate[w] # "none"
(* Mutant of LoopAlive: closing handles do not keep the loop alive. *)
LoopAlive_NoClosing == ActiveHandlesOrReqs

LoopAlive == ActiveHandlesOrReqs \/ ClosingHandles

(* uv__run_timers first moves the timers that are due to a ready queue. *)
Collect(due, ts) == [t \in Ctxs |-> IF t \in due THEN "ready" ELSE ts[t]]

(* step(): uv_run with UV_RUN_ONCE.  (The loop is uv_default_loop(), which other
   schedulers run when this one is deleted.) *)
step ==
  /\ phase = "out"
  /\ mode' = "once"
  /\ phase' = IF LoopAlive THEN "poll" ELSE "out"
  /\ UNCHANGED <<postVars, timerVars, workVars, todo, running, cur,
                 started, asyncH, destroyed, fault>>

(* run(): uv_run with UV_RUN_DEFAULT, which runs the timers once before it
   enters its loop. *)
run(due) ==
  /\ phase = "out"
  /\ due \subseteq (IF LoopAlive THEN TimersIn("active") ELSE {})
  /\ mode' = "default"
  /\ phase' = IF LoopAlive THEN "timers0" ELSE "out"
  /\ tstate' = Collect(due, tstate)
  /\ UNCHANGED <<postVars, timers, kind, owner, workVars, todo, running, cur,
                 started, asyncH, destroyed, fault>>

(* uv__io_poll returns because the eventfd is readable: uv__async_io reads
   it and goes through the async handles registered at that moment. *)
PollWake ==
  /\ phase = "poll"
  /\ wakeup
  /\ wakeup' = FALSE
  /\ todo' = IF asyncH = "active" THEN {"wq", "post"} ELSE {"wq"}
  /\ phase' = "async"
  /\ UNCHANGED <<pending, post_queue, batch, npost, ran, staleId, ppc,
                 timerVars, workVars, mode, running, cur, lifeVars>>

(* It returns without an event when the timeout of uv__backend_timeout is
   zero or the next timer expires. *)
PollTimeout ==
  /\ phase = "poll"
  /\ ~wakeup
  /\ ~ActiveHandlesOrReqs \/ ClosingHandles \/ TimersIn("active") # {}
  /\ phase' = "closing"
  /\ UNCHANGED <<postVars, timerVars, workVars, mode, todo, running, cur, lifeVars>>

NothingTaken == batch = <<>> /\ \A w \in Works : wstate[w] # "taken"
AtAsync == phase = "async" /\ running = "none"

(* Mutant of AsyncWork: one finished request is taken per signal. *)
AsyncWork_TakeOne ==
  /\ AtAsync /\ NothingTaken
  /\ "wq" \in todo
  /\ todo' = todo \ {"wq"}
  /\ wqPending' = FALSE
  /\ \E w \in Works :
       wstate' = IF wqPending /\ wstate[w] = "finished"
                 THEN [wstate EXCEPT ![w] = "taken"] ELSE wstate
  /\ UNCHANGED <<postVars, timerVars, phase, mode, running, cur, lifeVars>>

(* The pool's handle comes first in the loop's queue.  uv__work_done takes
   every finished request at once. *)
AsyncWork ==
  /\ AtAsync /\ NothingTaken
  /\ "wq" \in todo
  /\ todo' = todo \ {"wq"}
  /\ wqPending' = FALSE
  /\ wstate' = [w \in Works |-> IF wqPending /\ wstate[w] = "finished"
                                THEN "taken" ELSE wstate[w]]
  /\ UNCHANGED <<postVars, timerVars, phase, mode, running, cur, lifeVars>>

(* async_handle_: clear pending, call async_cb if it was set. *)
AsyncPost ==
  /\ AtAsync /\ NothingTaken
  /\ "wq" \notin todo /\ "post" \in todo
  /\ todo' = todo \ {"post"}
  /\ pending' = FALSE
  /\ phase' = IF pending THEN "drain" ELSE "async"
  /\ UNCHANGED <<wakeup, post_queue, batch, npost, ran, staleId, ppc,
                 timerVars, workVars, mode, running, cur, lifeVars>>

(* Mutant of drain_post_queue: the queue is copied and not cleared. *)
drain_post_queue_Copy ==
  /\ phase = "drain"
  /\ batch' = post_queue
  /\ phase' = "async"
  /\ UNCHANGED <<pending, wakeup, post_queue, npost, ran, staleId, ppc,
                 timerVars, workVars, mode, todo, running, cur, lifeVars>>

(* drain_post_queue(): the swap under post_mutex_ ... *)
drain_post_queue ==
  /\ phase = "drain"
  /\ batch' = post_queue
  /\ post_queue' = <<>>
  /\ phase' = "async"
  /\ UNCHANGED <<pending, wakeup, npost, ran, staleId, ppc,
                 timerVars, workVars, mode, todo, running, cur, lifeVars>>

(* ... and the calls, outside the mutex. *)
RunPosted ==
  /\ AtAsync
  /\ batch # <<>>
  /\ ran' = Head(batch)
  /\ batch' = Tail(batch)
  /\ running' = "post"
  /\ UNCHANGED <<pending, wakeup, post_queue, npost, staleId, ppc,
                 timerVars, workVars, phase, mode, todo, cur, lifeVars>>

after_work_cb(w) ==
  /\ AtAsync
  /\ wstate[w] = "taken"
  /\ wstate' = [wstate EXCEPT ![w] = "none"]
  /\ running' = "done"
  /\ UNCHANGED <<postVars, timerVars, wqPending, phase, mode, todo, cur, lifeVars>>

(* Mutant of AsyncEnd: one call per turn of the loop. *)
AsyncEnd_OneCall ==
  /\ AtAsync
  /\ todo = {}
  /\ phase' = "closing"
  /\ UNCHANGED <<postVars, timerVars, workVars, mode, todo, running, cur, lifeVars>>

AsyncEnd ==
  /\ AtAsync /\ NothingTaken
  /\ todo = {}
  /\ phase' = "closing"
  /\ UNCHANGED <<postVars, timerVars, workVars, mode, todo, running, cur, lifeVars>>

(* uv__run_closing_handles: timer_close_cb deletes each closed context; then
   the timers that are due are collected.  The closing list goes through the
   handles themselves, so through async_handle_ in a deleted scheduler too. *)
RunClosing(due) ==
  /\ phase = "closing"
  /\ due \subseteq TimersIn("active")
  /\ fault' = IF destroyed /\ AsyncClosing THEN "freed_handle" ELSE fault
  /\ asyncH' = IF AsyncClosing THEN "closed" ELSE asyncH
  /\ tstate' = Collect(due, [t \in Ctxs |-> IF tstate[t] = "closing"
                                            THEN "none" ELSE tstate[t]])
  /\ phase' = "timers"
  /\ UNCHANGED <<postVars, timers, kind, owner, workVars, mode, todo, running, cur,
                 started, destroyed>>

AtTimers == phase \in {"timers", "timers0"} /\ running = "none"

(* uv_timer_again restarts a repeating timer before its callback is called. *)
FireTimer(t) ==
  /\ AtTimers
  /\ tstate[t] = "ready"
  /\ tstate' = [tstate EXCEPT ![t] = IF kind[t] = "job" THEN "active" ELSE "inactive"]
  /\ running' = "timer"
  /\ cur' = t
  /\ UNCHANGED <<postVars, timers, kind, owner, workVars, phase, mode, todo, lifeVars>>

TimersEnd ==
  /\ AtTimers
  /\ TimersIn("ready") = {}
  /\ phase' = IF phase = "timers0" \/ (mode = "default" /\ LoopAlive)
              THEN "poll" ELSE "out"
  /\ UNCHANGED <<postVars, timerVars, workVars, mode, todo, running, cur,
                 started, asyncH, destroyed, fault>>

(* A posted callback, an on_done or a job's callback returns (or throws,
   which is the same: the exception is swallowed). *)
CallbackReturn ==
  /\ InCallback
  /\ running = "timer" => kind[cur] # "oneshot"
  /\ running' = "none"
  /\ cur' = NoCtx
  /\ UNCHANGED <<postVars, timerVars, workVars, phase, mode, todo, lifeVars>>

(* Mutant of OneshotReturn: the map keeps the fired timer. *)
OneshotReturn_NoErase ==
  /\ running = "timer" /\ kind[cur] = "oneshot"
  /\ running' = "none"
  /\ cur' = NoCtx
  /\ fault' = IF ClosingTwice({cur}) THEN "close_closing" ELSE fault
  /\ tstate' = [tstate EXCEPT ![cur] = "closing"]
  /\ UNCHANGED <<postVars, timers, kind, owner, workVars, phase, mode, todo,
                 started, asyncH, destroyed>>

(* An after() callback returns to oneshot_timer_cb, which removes the timer. *)
OneshotReturn ==
  /\ running = "timer" /\ kind[cur] = "oneshot"
  /\ running' = "none"
  /\ cur' = NoCtx
  /\ timers' = IF owner[cur] THEN [timers EXCEPT ![cur] = NoCtx] ELSE timers
  /\ fault' = IF ClosingTwice({cur}) THEN "close_closing" ELSE fault
  /\ tstate' = [tstate EXCEPT ![cur] = "closing"]
  /\ UNCHANGED <<postVars, kind, owner, workVars, phase, mode, todo,
                 started, asyncH, destroyed>>

-----------------------------------------------------------------------------
App ==
  \/ start \/ stop \/ destroy \/ post
  \/ \E n \in Jobs, t \in Ctxs, k \in {"job", "job0"} : add_job(n, t, k)
  \/ \E t \in Ctxs : after(t)
  \/ \E n \in Jobs : remove_job(n)
  \/ \E w \in Works : run_blocking(w)

Drive == step \/ \E due \in SUBSET Ctxs : run(due)

Loop ==
  \/ PollWake \/ PollTimeout
  \/ AsyncWork \/ AsyncPost \/ drain_post_queue \/ RunPosted
  \/ \E w \in Works : after_work_cb(w)
  \/ AsyncEnd
  \/ \E due \in SUBSET Ctxs : RunClosing(due)
  \/ \E t \in Ctxs : FireTimer(t)
  \/ TimersEnd \/ CallbackReturn \/ OneshotReturn

Send(p) == SendLoad(p) \/ SendExchange(p) \/ SendWrite(p)
Pool(w) == WorkBegin(w) \/ WorkEnd(w)

(* A failed assertion aborts the program; after a use of freed memory nothing is
   said of it any more. *)
Next ==
  /\ fault = "none"
  /\ \/ App \/ Drive \/ Loop
     \/ \E p \in Posters : PostPush(p) \/ Send(p)
     \/ \E w \in Works : Pool(w)

Spec == Init /\ [][Next]_vars

(* The main thread keeps calling step() or run(), as the programs in tests/
   do, its callbacks return, and the operating system runs every thread. *)
Fairness ==
  /\ WF_vars(fault = "none" /\ Drive)
  /\ WF_vars(fault = "none" /\ Loop)
  /\ \A p \in Posters : WF_vars(fault = "none" /\ Send(p))
  /\ \A w \in Works : SF_vars(fault = "none" /\ Pool(w))

FairSpec == Spec /\ Fairness

-----------------------------------------------------------------------------
(* Whoever is responsible for the callbacks in post_queue_ has not finished:
   the loop is about to swap the queue, a sender is inside uv_async_send, or
   pending is set and the loop will see it. *)
PostSignalled ==
  \/ phase = "drain"
  \/ \E p \in Posters : ppc[p] \in {"load", "xchg"}
  \/ /\ pending
     /\ wakeup \/ "post" \in todo \/ \E p \in Posters : ppc[p] = "write"

(* No lost wake-up: while the scheduler is started, post_queue_ never holds a
   callback posted since start() that nothing will make the loop look at.
   (post() pushes first and signals after, uv__async_io clears pending before
   async_cb swaps the queue.)  Callbacks left over from before a stop() are
   excluded: start() clears pending and nobody signals for them. *)
NoLostWakeup ==
  started /\ post_queue # <<>> /\ npost > staleId => PostSignalled

(* Posted callbacks are called in the order of the calls of post(), each
   exactly once: what drain_post_queue() has still to call and what
   post_queue_ holds are, in this order, exactly the callbacks after the last
   one called. *)
FifoExactlyOnce ==
  /\ ran + Len(batch) + Len(post_queue) = npost
  /\ \A i \in 1..Len(batch) : batch[i] = ran + i
  /\ \A i \in 1..Len(post_queue) : post_queue[i] = ran + Len(batch) + i

(* timers_ holds exactly the contexts whose handle is not closing or closed,
   each under one name, and those point back to the map: add_job(),
   remove_job(), stop() and oneshot_timer_cb keep the map and libuv's handles
   in step. *)
TimerMapConsistent ==
  /\ \A n \in Names : timers[n] # NoCtx => Live(timers[n]) /\ owner[timers[n]]
  /\ \A m, n \in Names : timers[m] = timers[n] /\ timers[n] # NoCtx => m = n
  /\ \A t \in Ctxs : Live(t) => t \in Registered

(* A timer fires only while it is registered: no callback starts after
   remove_job(), after it was replaced by add_job(), or after stop(), even
   when its timer was due and already in the ready queue. *)
FiresOnlyRegistered ==
  [][running = "none" /\ running' = "timer" => cur' \in Registered]_vars

(* The context whose callback is being called is not deleted under it, also
   when the callback removes or replaces its own job or stops the scheduler. *)
RunningCtxAllocated == running = "timer" => tstate[cur] # "none"

(* A deleted scheduler is silent, whenever it is deleted: none of its posted
   callbacks and timers is called any more, each timer that pointed into its map
   is closing or closed, and of its own memory libuv holds at most async_handle_,
   on the closing list. *)
DestroyedIsSilent ==
  destroyed => /\ running \notin {"post", "timer"} /\ batch = <<>> /\ "post" \notin todo
               /\ asyncH # "active"
               /\ \A t \in Ctxs : ~Live(t)

(* The loop never touches async_handle_ in a scheduler that is deleted: the
   destructor may be called at any time, because it calls stop(). *)
NoFreedHandle == fault # "freed_handle"

(* libuv's assertions hold: uv_close is never called on a closing handle
   (core.c:148), and no handle is initialised again while it is closing
   (core.c:302). *)
NoFault == fault \notin {"close_closing", "init_closing"}

(* A finished request never waits in the loop's queue unsignalled. *)
CompletionSignalled ==
  (\E w \in Works : wstate[w] = "finished") => wqPending /\ (wakeup \/ "wq" \in todo)

(* What the users of the scheduler see of it, as a state of module Executor.
   Everything in post_queue_ is due when something was posted since start();
   otherwise only the batch that drain_post_queue() has swapped out is. *)
Due == IF started /\ npost > staleId THEN npost ELSE ran + Len(batch)
JobOf(s) == IF s = "taken" THEN "finished" ELSE s

Abstract == INSTANCE Executor WITH
  on <- started, posted <- npost, called <- ran, due <- Due,
  job <- [w \in Works |-> JobOf(wstate[w])]

(* The scheduler implements Executor: seen through Due and JobOf, each of its
   steps is a step of Executor or changes nothing there. *)
Refines == Abstract!ExecSpec

(* A callback posted while the scheduler is started is called, unless the
   scheduler is stopped or deleted first. *)
PostedRuns ==
  \A i \in 1..MaxPosts :
    (started /\ npost >= i /\ i > staleId) ~> (ran >= i \/ ~started)

(* on_done of every run_blocking() is called, also after stop(), unless a
   scheduler deleted too early ends the program (see NoFreedHandle). *)
OnDoneRuns ==
  \A w \in Works : (wstate[w] = "queued") ~> (wstate[w] = "none" \/ ~NoFreedHandle)

(* stop() completes: the async handle is closed in the end. *)
StopCompletes == (asyncH = "closing") ~> (asyncH = "closed")
=============================================================================
