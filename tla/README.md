# Verification of lynne-social's runtime

TLA+ models of the runtime of lynne-social (`src/`): the libuv scheduler every
module runs on, the manager that launches and talks to Chrome, the browser
contexts handed to the application, the WebSocket client, the LLM engine and the
storage. TLC checks them on small instances;
TLAPS proves the main safety properties for every value of the constants.

Paths below are relative to the repository; `uv_scheduler.cpp` is
`src/wheel/scheduler/imp/uv_scheduler.cpp`, `cdp_browser_manager.cpp` is
`src/wheel/browser/imp/cdp_browser_manager.cpp`.

## 1. Inventory

The program is single-threaded at heart: application code, and every callback,
runs on the main thread, which turns libuv's default loop with `step()` or
`run()`. Three other kinds of threads feed it: libuv's pool, the thread of each
`ix::WebSocket`, and (as a process) Chrome.

| Component | State it keeps | Operations | What makes it correct |
|---|---|---|---|
| **scheduler** (`wheel/scheduler`) | `started_`, `async_handle_`, `post_queue_` (mutex), `timers_`; libuv's timer heap, ready queue, closing list, eventfd, pool queue | `start stop add_job after remove_job run_blocking post step run`, destructor; `async_cb work_cb after_work_cb timer_cb oneshot_timer_cb timer_close_cb` | posted callbacks run once, in order, and are never forgotten; removed timers do not fire; no handle is closed twice, freed early or left behind |
| **browser manager** (`wheel/browser`, `CdpBrowserManager`) | `started_`, `chrome_pid_`, `ws_ready_`, `chrome_crashed_`, `cmd_id_`, `pending_`, `pending_commands_` | `start stop health_check send_command`, `launch_chrome` (pool), `on_ws_message`, WebSocket callback | each reply reaches its own command's callback, once; commands are sent in order; no Chrome is left behind |
| **browser contexts** (`CdpBrowserContext`, and the manager's `contexts_`) | `contexts_`, `closed_`, `after_guards_`, the `done` flag of a wait | `get_context save_session restore_session close`, page operations, `press_key wait_for_selector after` | the pointer handed out stays valid; callbacks use no deleted context; each call calls back once |
| **ws_client** (`wheel/ws_client`) | `state_`, `on_message_`, `on_error_`, `started_`, its scheduler, the WebSocket's thread and transport | `start stop connect disconnect send step run`, destructor, the four events | `ready_state()` is Open only on an open connection; no thread outlives `stop()`; a failed connection reports one error; every `connect()` ends in Open or Closed |
| **llm** (`wheel/llm`) | `started_`, its scheduler, one `ChatCtx` per call | `start stop chat step run`, destructor, `parse_base_url` | every chat is answered once, truthfully; nothing is called once the engine is gone |
| **storage** (`wheel/storage`) | files per day | `save_items save_report save_summary`, the loads, `list_dates` | what was saved is loaded again, whatever was cut elsewhere; nothing is lost silently |
| config, logger, common | a parsed file; a registered spdlog logger; plain data | `load`, `log`, JSON conversions | sequential; not modelled (section 6) |
| core: adapters, agent, main program | - | - | described in `doc/design` only; the repository has no source for them |

Interactions. The manager, the WebSocket client and the LLM engine each own a
scheduler, all on the same default loop. The manager's `start()` hands
`launch_chrome()` to `run_blocking`; its `on_done` starts the WebSocket; the
WebSocket's thread posts Open and Message events with `post()`; posted callbacks
run `on_ws_message`, which calls what `send_command` has put into `pending_`.
Contexts call `send_command`, `post` and `after` of the manager they belong to.

What is hard: a signal to the loop racing its reset; handles that live on after
`uv_close`; callbacks that remove, stop or delete what they run in; a launch
that takes half a minute during which `start()` and `stop()` may be called;
replies that arrive after `stop()`, or after their context was deleted;
commands given before the connection is open; a write to a file that stops
halfway. The full list, line by line, is
`hazards` in `PROJECT.json`.

## 2. The modules

```
Executor  <== implemented by ==  UvScheduler           CdpContext    JsonlStorage
   |  EXTENDS
   +-- WsClient                  CommandChannel  <== implemented by ==  CdpManager
   +-- LlmChat
```

### Executor

What `Scheduler` promises for `post()` and `run_blocking()`: five variables, one
action per operation. Posted callbacks are called in order; `due` says up to
which one they will be. `stop()` takes back what no turn of the loop has taken,
and what was posted while stopped waits for a signal after the next `start()`.
A blocking job goes from queued to working, finished and done, started or not.
`UvScheduler!Refines` says that the code over libuv implements it, with `due`
computed from the queue, the batch and the signals in flight (`Due`) and `job`
from the pool's queues (`JobOf`). WsClient and LlmChat extend Executor, so that
they rest on what is proved of the scheduler.

### UvScheduler

Models `uv_scheduler.cpp` whole, with the parts of libuv it uses
(`third_party/libuv/src/unix/{core,async}.c`, `timer.c`, `threadpool.c`).

* `uv_run` is a walk through `phase`: `timers0` (only for `run()`), `poll`,
  `async`, `drain`, `closing`, `timers`, and back or `out`. A callback is a pair
  of steps: the one that calls it sets `running`, and `CallbackReturn` or
  `OneshotReturn` ends it. In between the application may call any operation,
  so every re-entrant use is covered.
* `post()` from another thread takes four steps: `PostPush` (under the mutex),
  `SendLoad`, `SendExchange`, `SendWrite` (the three steps of `uv_async_send`).
  `PollWake` reads the eventfd, `AsyncPost` clears `pending`, and
  `drain_post_queue` swaps the queue, `RunPosted` calls the callbacks.
* Posted callbacks are numbered; `ran` is the last one called.
* Time is left out: whenever the loop looks at its timers, any subset of the
  active ones is due. A job with interval 0 is the kind `job0`, which does not
  repeat.
* `fault` records the libuv assertion that would abort the program, and a turn of
  the loop that touches `async_handle_` of a deleted scheduler.
* The destructor may be called whenever the main thread is outside the loop and
  no thread is in `post()`: on a stopped scheduler, right after `stop()`, or on
  one that is still started, as `test_scheduler_ta.cpp:276` does.
* `AppMay` lists uses that the callers in the repository avoid (`Misuse`):
  stopping inside an `after()` callback, restarting the scheduler before the turn
  of the loop that completes `stop()`, adding timers while not started.

### CdpManager

Models `CdpBrowserManager` without the contexts. The scheduler is reduced to
what UvScheduler shows of it: `posts` is its queue, called in order while
`schedOn` and `signalled`; what `stop()` leaves in the queue is still there
after the next `start()` and runs once something new is posted.

* Launch, Chrome process and session share a number. `launch_chrome()` on the
  pool thread is `LaunchNoProcess`, or `LaunchFork` followed by `LaunchUrl` or
  `LaunchGiveUp`; `LaunchDone` is its `on_done` on the main thread.
* `conn` is the WebSocket: no thread, in the handshake, open, ended (a thread
  that has returned and not been joined: `ws_.start()` then does nothing), or
  left open by a `stop()` that hit the handshake.
* Every command has a token besides its id, so that a reply delivered to the
  wrong callback would show: `calls[t]` lists the replies the callback of
  command `t` was given. An Open event in the post queue carries the launch whose
  socket posted it.
* `stop()` is one step on the main thread, with the loop turn at its end
  (`AfterLastTurn`). It may come at any time after the launch, the handshake
  included. `AppMay` adds `start()` and `stop()` during a launch.

### CommandChannel

What `CdpBrowserManager` promises the callers of `send_command()`, in four variables:
how many commands were issued, which ones wait, which were sent, and the replies each
callback has had. There are no ids, no `pending_`, no socket, no sessions.
`CdpManager!RefinesChannel` says that the manager implements it.

### CdpContext

Models the contexts, across sessions. A call of the application is a member
of `Calls`, and `pc` says which reply, posted check or timer it waits for.
Replies come in any order, with a result or an error. That a reply reaches the
callback of its own command, once, is what CdpManager shows. `Use(c, x)` marks
the places where call `c`, or one of its callbacks, dereferences the context
`x`; `fault` records the call that used a deleted one, and the program ends
there. `close()` may come at any time, also under a `press_key()` or
`wait_for_selector()` of the same context.

`stop()` deletes the cached contexts and drops the timers. `pending_` and the
post queue stay: `stale` is the set of calls whose reply or posted check is in
the queue, and after the next `start()` these are handled first, before anything
of the new session, as CdpManager shows. A call that waits and is not stale is
lost. `home` and `era` number the session whose Chrome knows the target of a
context or call; the Chrome of another session answers with an error
(`CanSucceed`), so that an old `createTarget` does not become a usable context.

What pages and session files contain is reduced to the
outcome of the command; the eleven operations that send one command and call
back with its reply are one action (`OneCommand`), with or without the check of
`closed_`.

### WsClient

Models `IxWsClient` (`ix_ws_client.cpp`) with the thread of `ix::WebSocket`. The
main thread's `stop()`, `disconnect()` and destructor are two steps each, since
`ws_.stop()` waits for the other thread, which goes on delivering events
meanwhile (`mpc` names the operation that waits). `conn` is thread and
transport together: idle, connecting, open, closing, ended (finished and not
joined: `ws_.start()` does nothing), or left open or closing without a thread,
by a `ws_.stop()` that came during the handshake. `log` says what each posted
callback carries. The client's `started_` is the executor's `on`.

### LlmChat

Models `DeepSeekEngine` (`deepseek_engine.cpp`). A `chat()` is one blocking job;
`WorkEnd` has the five outcomes of the request that the code tells apart. `turn`
and `inCb` follow the loop, which other modules also turn after the engine is
gone. `parse_base_url` is an operator over a scheme and a sequence of letters,
digits, `:` and `/`; `std::stoi` is the digits a text begins with, and throws
when there are none. A `std::stoi` out of range, which throws too, and the
exception of `body.dump()` are the same outcome, `"thrown"`.

### JsonlStorage

Models `jsonl_storage.cpp`. `items.jsonl` is a sequence of pieces: whole lines, lines
without their newline, and halves, which a crash, a full disk (no stream is
asked for errors) or an exception of `dump()` leaves behind. `load_items` throws
where a line is not one JSON text: a half followed by a line, or two texts on
one line, never parse, because a cut object lacks its closing brace and every
line begins with one. Reports and summaries are overwritten, and can be empty or
half. `load_items` without a platform (`NoPlatform`) keeps every item. A save
makes the directory of its date before it writes, also for an empty batch, which
leaves an empty file (`test_storage_ta.cpp:289` saves one): `named` is the set of
dates a save was called for. Losing written data with the machine is left out.

`MCUvScheduler`, `MCCdpManager` and `MCCdpContext` instantiate the modules for
TLC and define the symmetry sets; the other modules are checked as they are.
`UvSchedulerProofs`, `SchedulerRefinement`, `CdpManagerProofs`,
`CdpCommandProofs`, `CdpContextProofs`, `WsClientProofs`, `LlmChatProofs` and
`JsonlStorageProofs` hold the theorems. Definitions whose name has a suffix
(`CloseTimers_DeleteNow`) are mutants: plausible mistakes that the property
named in `PROJECT.json` is known to catch.

## 3. The runs

Deadlock checking is off throughout: a loop without anything to do sleeps for
ever, and an application may stop calling.

| Run | Bounds | What it shows |
|---|---|---|
| `scheduler_post` | 2 posting threads and the main thread, 2 posts, 1 timer, 1 blocking job | no lost wake-up (`NoLostWakeup`), order and exactly-once (`FifoExactlyOnce`), across stop and restart; every step is a step of Executor (`Refines`); posted callbacks run (`PostedRuns`), `on_done` runs, also after `stop()` (`OnDoneRuns`), `stop()` completes (`StopCompletes`) |
| `scheduler_life` | 3 timer contexts, 2 job names, 2 blocking jobs, 1 post | map and handles agree (`TimerMapConsistent`), nothing removed fires (`FiresOnlyRegistered`), no context freed under its callback (`RunningCtxAllocated`), no libuv assertion fails (`NoFault`), a scheduler destroyed at any time, started or not, calls nothing any more (`DestroyedIsSilent`), finished work is signalled (`CompletionSignalled`) |
| `manager` | 3 launches, 3 commands | `CallbacksOwnOnce`, `SentInOrder`, `ReadyMeansOpened`, `NoOrphan`, `StopEndsAll`; every step is a step of CommandChannel (`RefinesChannel`); every launch ends (`LaunchEnds`), a started manager whose socket talks to its own Chrome becomes ready or reports the failure, also after a stop in the handshake (`OwnConnects`), commands are answered while the connection lasts (`CommandAnswered`) |
| `context` | 1 platform, 3 calls, 2 contexts, 2 sessions | `HeldAlive`, `DanglesOnlyClosed`, `CallsBackOnce`, `AfterGuarded`; every call calls back (`Answered`) |
| `ws_client` | 3 connects, 3 messages | Open only on an open connection (`OpenMeansConnected`), no thread after `stop()` (`StoppedIsQuiet`), one error and nothing after it (`ErrorIsFinal`), a handshake under way ends (`HandshakeResolves`) |
| `llm_chat` | 2 chats, URLs of up to 3 characters after the scheme | every chat that does not throw is answered (`ChatAnswered`), once and truthfully (`AnsweredOnceTruly`), nothing is called after deletion (`NothingAfterDelete`), `parse_base_url` takes a URL apart without loss (`ParseRoundTrip`) |
| `storage_crash` | 2 dates, 3 items in batches of up to 2, 2 documents | what was saved is loaded again unless a save of that very file was cut (`RoundTrip`), a load that returns has every saved item (`NeverSilentlyLost`), `list_dates` names the dates a save was called for, and no other date holds anything (`DatesListed`) |
| `scheduler_destroy` | violation of `NoFreedHandle` | see section 5 |
| `manager_restart` | violation of `StartConnects` | see section 5 |
| `context_concurrent_get` | violation of `HeldAlive` | see section 5 |
| `context_close_busy` | violation of `NoDanglingThis` | see section 5 |
| `ws_reconnect` | violation of `RetryEnds` | see section 5 |

Why the bounds are enough. A lost wake-up needs one sender that skips the write
and one that has set the flag: two threads. Order across a swap needs callbacks
in the batch and in the queue: two posts, from two threads or from a thread and a
callback. A timer can be replaced while another is ready and a third is
running: three contexts. Two finished jobs share one signal: two blocking jobs.
A leftover of one session can meet the next and the one after it: three
launches. A context is created by one call, closed by a second, and used or asked
for again by a third while that close is under way: three calls. A call of one session can be answered in the
next, before and after a call of that one: two sessions. A connection can fail, be tried again, and a
third one meet the events of both: three connects. A chat can be in the pool
while the other one's callback stops the engine: two chats; `:8/` after the
scheme has each of host, port and path empty or present, and every order of the
separators. A line can be cut, continued by the next append and followed by
another: three items. The proofs remove the bounds for all
properties they cover.

Fairness. The specifications with fairness assume what the programs in `tests/`
and the code ensure:

* the main thread keeps calling `step()` or `run()`, and callbacks return (weak
  fairness on `Drive`, `Loop`, and on the posted callbacks of the manager);
* the operating system runs every thread (weak fairness on senders). Pool work
  has strong fairness, since a request in the pool's FIFO queue reaches its head
  although other requests repeatedly keep the threads busy;
* a launch gives up after 60 polls, or sooner (`LaunchGiveUp`); nothing assumes
  that Chrome ever prints its address;
* a handshake ends, one way or the other, and the thread notices a dead peer; a
  live and connected Chrome answers each command it has received;
* the WebSocket's handshake and its closing have timeouts (`Thread` of WsClient
  while not open), and `ws_.stop()` returns once the thread is gone; no server is
  assumed to send or to close;
* an HTTPS request ends (the client sets its timeouts), and a loop that is
  turned again and again calls the `on_done` of a finished request (strong
  fairness, since a turn may end before the request does);
* time passes: a wait that goes on finds itself late in the end
  (`EvalAgain(c, TRUE)`).

## 4. What is proved

All theorems are for any sets of threads, timers, platforms, calls and contexts
and any bounds. Every safety property that a passing run checks is proved.

**UvSchedulerProofs.** `TypeCorrect` is inductive with the two facts that a
batch is empty outside the async phase and that no handle is left to look at.
`PostsFifoExactlyOnce`: `FifoExactlyOnce` is inductive, because only `post()`,
the swap and the calls touch the queue (`PostFrame`). `WakeupNeverLost` needs
`PendingSeen` (a set flag has a reason to be seen: the eventfd is readable, the
loop is about to look, or a sender is about to write) and that `started_` means
an open handle. `TimerMapAgrees`, `CtxOutlivesCallback` and `RemovedNeverFires`
rest on `TimerInv`, which adds `RunningPhase` (callbacks run in their own phase,
contexts are freed in another) and `NamesApart` (names of jobs and of one-shot
timers do not mix). `AssertionsHold` assumes no stop in an `after()` callback
and no early restart; `FaultInv` says that a one-shot timer is still open while
its callback runs. `DestroyIsSafe` (`DestroyedIsSilent`) is for a destructor at
any time, and assumes that no timer is added while stopped; `SettledInv` says
that a scheduler which is not started has no open timer, and that a destroyed one
has no batch and no callback in hand. That the loop does not touch the freed
handle is not so, see run `scheduler_destroy`.
`CompletionNeverLost` rests on `PoolInv`: a set flag of the pool's own async
handle has a reason to be seen, and only `uv__work_done`, which takes every
finished request, clears it.

**SchedulerRefinement.** `SchedulerImplementsExecutor` (`Spec => Refines`). Every
step of UvScheduler is a step of Executor or leaves its variables alone
(`StepRefines`). What needs an invariant is `due`: it must stay between what was
called and what was posted (`FifoExactlyOnce`, `DueBounds`), and the swap of the
queue, which makes leftovers of an earlier start due, must be a `Wake` of an
executor that is on (`DrainInv`: the loop swaps the queue of a started scheduler
only, with no callback running).

**CdpManagerProofs.** `ProcessesAccounted` (`NoOrphan`), `StopIsFinal`
(`StopEndsAll`) and `ReadyOnOpenSocket` (`ReadyMeansOpened`) follow from
`ManagerInv`: at most the last launch is under way and none once `started_`
(`OneLaunch`), `chrome_pid_` names a process only for such a launch or a started
manager (`PidKnown`), the socket's thread and its posts belong to a started
manager (`SessionOnly`). They assume `Patient`: the application calls neither
`start()` nor `stop()` while Chrome is being launched. `ReadyOnOpenSocket` is
the one that is not obvious: an Open event of an earlier session may still be in
the post queue, and it is harmless only because the queue is not looked at until
the new socket's own Open event has been posted.

**CdpCommandProofs.** `ManagerTyped` (`TypeOK`), `RepliesMatched`
(`CallbacksOwnOnce`) and `CommandsInOrder` (`SentInOrder`) follow from
`CommandInv`, on top of `ManagerInv` and under `Patient` as well. Its parts:

* `IssuedOnly`: whatever is on the wire, in `pending_commands_` or in a posted
  message carries the id of a command that was issued. `cmd_id_` only grows, so
  ids name commands across sessions.
* `UncalledPending`: an entry of `pending_` is that of its own id, and its
  callback has not been called; no callback has been called for an id not yet
  issued. With `IssuedOnly` this is why a reply of an old session finds its own
  entry or none.
* `QueuedAfterSent`: what waits for the connection was issued after all that was
  sent, nothing waits in a ready manager, and a command of this session has been
  sent or waits. The last part is needed for the flush in the Open event.
* `OpensOfLaunches`: posted Open events are of successive launches, none handled
  before. It is needed for types only, and not obvious: each Open event issues a
  `Page.enable`, so the count of commands is bounded only if no launch has two
  Open events, stale ones of stopped sessions included.

`ManagerImplementsChannel` (`Spec => RefinesChannel`) goes step by step: `start()` is
`Forget`, `send_command()` is `Issue` (sent past the queue only when nothing waits, by
`QueuedAfterSent`), the Open callback is `Open`, and a reply is `Reply` of its own
command, possibly with an `Issue`, or nothing (`ReplyStep`). It needs one more
invariant, `RepliesToSent`: what Chrome has, and what is posted of its replies, was
handed to `ws_.sendText()`. Hence commands that `start()` dropped are never answered,
although their callbacks stay in `pending_`.

**CdpContextProofs.** `HeldStaysAlive`, `NothingDangles`, `OneCallback` and
`TimersGuarded`, and with them `ContextTypes` and `ContextsConsistent`, follow
from `TypeOK` and `ContextInv`: cache and objects agree (`CacheInv`); stale calls
are of an earlier session, and while there are any so is every context
(`SessionInv`); a context under construction belongs to one call, and what is
cached for its platform is of an earlier session (`CreateInv`); what a pending
callback of this session will use is cached or closed, and what is being closed
is cached and closed by exactly one call (`UseInv`); and a call has not called
back before its end (`CallInv`). `SessionInv` is what keeps the leftovers of a
session away from the contexts of the next: a stale reply to `close()` would
delete whatever is cached for the platform, and it can do so only before
anything of the new session is cached. The theorems assume `Careful`: one
creation per platform and session at a time. `NothingDangles` says where a
deleted context can be used, `DanglesOnlyClosed`, and nowhere else; that it is
used there is what `context_close_busy` shows.

**WsClientProofs.** `WsTyped`, `OpenIsConnected`, `StopLeavesNoThread` and
`ErrorEndsConnection` follow from `WsInv`, which adds `Operations` (the main
thread waits in `ws_.stop()` only for an operation that was allowed to begin) and
`Sessions`: nothing that is posted is of a later connection than the transport's,
nothing was posted for a connection in its handshake, and one that has posted an
error is over. Without it, `ErrorIsFinal` is not inductive: a state with an error
posted and the same connection still open would allow a message after it. The
module extends Executor, so these hold for any scheduler that implements it, and
`SchedulerImplementsExecutor` says that the one in the repository does.

**LlmChatProofs.** `ChatsAnsweredOnce` follows from `ChatInv`: a chat with a job
under way was asked and has no answer yet (`OneAnswerEach`), so the one `on_done`
gives the first. `DeletedIsSilent` assumes that the application does not delete the
engine early, and adds `IdleWhenDeleted`: when `run()` has come back no job is
left. `UrlsParsed` is for URLs of any length: `ParsedUrl` follows `parse_base_url`
case by case with four lemmas about its operators (`FindFirst` for `find`, `Cut` and
`Regroup` for `substr`, `StoiPrefix` for `stoi`). An earlier version of
`parse_base_url` chose the port with a `CASE` whose guards overlap, which TLA+ leaves
open; it now tests in the order of the code.

**JsonlStorageProofs.** `SavedIsLoaded` (`RoundTrip`), `NothingSilentlyLost`
(`NeverSilentlyLost`) and `DatesSorted` (`DatesListed`) follow from `StorageInv`. Its
core is `FileOk`, which relates the pieces of a file to what was given and what was
saved: pieces are of given items, in increasing order, every saved item has a piece,
and a file no save of which was cut has exactly the saved items, all whole.
`DocInv` says the same of reports and summaries, `DirInv` that there is a directory
for each date a save was called for, and for no other. That they can be listed in order (`OrderExists`) places each date by the number
of dates not before it, and so needs no induction over the sort. That a load which
returns loses nothing takes one more step: it returns only if every piece is a whole
line, or the last one lacks no more than its newline.

**Only model-checked.** Everything under fairness, which is out of the prover's
reach: `PostedRuns`, `OnDoneRuns`, `StopCompletes`, `LaunchEnds`, `OwnConnects`,
`CommandAnswered`, `Answered`, `HandshakeResolves` and `ChatAnswered`.

## 5. Where the code and its documents disagree

* `context_concurrent_get`: `get_context()` is documented to return the same
  pointer for a platform (`BROWSER_MANAGER.md:214`). Two calls before the first
  is answered create two contexts, and the second deletes the first, already
  handed out.
* `ws_reconnect`: after a connection that failed, or that the server closed,
  `disconnect()` returns early and `ws_` keeps its finished thread, so the next
  `connect()` starts nothing: `state_` stays Connecting and `on_error`, which
  `tests/wheel/ws_client/test_ws_client_ta.cpp:143` expects of a connection
  error, is not called. Only `stop()` and `start()` of the client help.
* `scheduler_destroy`: the destructor calls `stop()`, which only queues the close
  of `async_handle_`, a member of the object that is about to be freed; the next
  turn of the loop touches it. `test_scheduler_ta.cpp:276` deletes a started
  scheduler under the heading "Destructor calls stop safely", and
  `~CdpBrowserManager` does so after a launch that failed.
* `manager_restart`: `stop()` during the handshake can leave the transport open,
  and the next `start()` then connects to nothing: a manager that is healthy and
  never ready. `stop()` is documented to close the connection
  (`BROWSER_MANAGER.md:303`), and `StartStopStart` of `test_browser_ta.cpp:91`
  expects the restart to work.
* `context_close_busy`: the callbacks of `press_key()` and `wait_for_selector()`
  use the context after the reply to `close()` has deleted it, the test of
  `closed_` at `cdp_browser_manager.cpp:389` included. The caller has kept to
  `BROWSER_MANAGER.md:216`.

Adding a member to `AppMay` in a configuration shows more of the kind:

* `"stop_in_after"` or `"early_restart"` in `scheduler_life.cfg` (`NoFault`): an
  assertion of libuv fails.
* `"early_delete"` in `llm_chat.cfg` (`NothingAfterDelete`): an engine deleted
  with a chat under way calls its callback later, on a turn another module makes.
* `"start_while_launching"` in `manager.cfg` (`NoOrphan`): `start()` is documented
  as idempotent (`BROWSER_MANAGER.md:213`), but looks at `started_`, which is set
  only when the launch has ended. A second call forks a second Chrome, and
  `chrome_pid_` forgets one of them.
* `"stop_while_launching"` in `manager.cfg` (`StopEndsAll`): `stop()` is documented
  to kill Chrome (`BROWSER_MANAGER.md:75`), but returns at once while the launch is
  under way; Chrome comes up after it has returned.

So does the invariant `CachedOfSession` in `context.cfg`: a reply that was in the
post queue at `stop()` puts a context of the killed Chrome into the cache of the
next session, against `BROWSER_MANAGER.md:219`.

Further observations that need no search: commands have no timeout, and the loss
of the connection resolves none (`BROWSER_MANAGER.md:414` promises
`on_error("timeout")`); `health_check()` takes a zombie for a running Chrome;
`save_session()` for a platform without a context creates one
(`BROWSER_MANAGER.md:411` promises an error), and reports success when
`sessions_dir`, which nothing creates, does not exist; a reply in the post queue
at `stop()` of the manager still calls the old session's callback after the next
`start()`; a base URL with `http://` is talked to with TLS on port 80; an exception
of `std::stoi` leaves `chat()` without a callback; `load_items` throws for a whole
day after one cut line.

## 6. What is not modelled

* `on_event` and `remove_event` of the manager, which nothing in the repository
  calls.
* Exceptions thrown by application callbacks, other than that the scheduler
  swallows them.
* `stop()` of the manager from inside a callback, which turns the loop from
  within a turn.
* config: `load()` reads and parses one file into one variable, and the rest is
  field-by-field conversion; it is sequential and has no history. (`loaded_` is
  set before the file is parsed, so a loader whose parse threw counts as loaded.)
* logger: one name in spdlog's registry, with `start`, `stop` and `log`. (`start()`
  truncates the log file; a second logger's `start()` does so and then throws.)
* `llm_models`, `storage_models`, `common/models` and the factories: plain data
  and constructor calls.
* The content of pages, cookies, session files and log lines; base64 (whose
  accumulator wraps around in the bits that are not used) and JavaScript escaping.
* Several schedulers on the one default loop: each has its own handles and
  queue, so that they share only the turns of the loop.
* The vendored libraries beyond what is named above.

## 7. Plan

Done: every component with concurrent or persistent state, the abstract
executor and command channel with the proofs that the scheduler and the manager
implement them, and proofs of all safety properties. Next:

1. `CdpSession`: CdpContext's calls over CommandChannel, so that `stale` and the
   order of replies are those of the manager's own post queue.
2. The other half of the promise to the callers of CdpContext: an abstract
   specification of one call, which CdpContext implements.
