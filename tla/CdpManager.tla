----------------------------- MODULE CdpManager -----------------------------
(***************************************************************************)
(* CdpBrowserManager of src/wheel/browser: it launches a Chrome process on *)
(* a pool thread, connects a WebSocket to it, and sends it DevTools        *)
(* commands whose replies call the callbacks kept in pending_.             *)
(*                                                                         *)
(* Four kinds of threads take steps: the main thread (application calls,   *)
(* and the callbacks its loop runs), the pool threads inside               *)
(* launch_chrome(), the thread of ix::WebSocket, and Chrome itself.  The   *)
(* application calls the manager from the loop's callbacks or between two  *)
(* turns of the loop; it calls start() and stop() between turns only.      *)
(*                                                                         *)
(* The scheduler appears as what module UvScheduler shows it to be: posts  *)
(* is its post queue, called in order on the main thread once something    *)
(* was posted after its start(); what stop() leaves in the queue is still  *)
(* there after the next start().                                           *)
(*                                                                         *)
(* The l-th launch, its Chrome process and its session share the number l. *)
(* The t-th command ever issued is the token t; tokens tell apart commands *)
(* the code knows by id only.                                              *)
(***************************************************************************)
EXTENDS Naturals, Sequences, FiniteSets

CONSTANTS
  MaxLaunches,  \* bound on the launches of Chrome
  MaxCmds,      \* bound on the commands issued by the application
  AppMay        \* what the application may do: see Liberties

(* "start_while_launching"  start() before the previous launch has ended;
   "stop_while_launching"   stop() before the launch has ended. *)
Liberties == {"start_while_launching", "stop_while_launching"}

ASSUME BoundAssumption   == MaxLaunches \in Nat /\ MaxCmds \in Nat
ASSUME LibertyAssumption == AppMay \subseteq Liberties

NoProc   == 0
Launches == 1..MaxLaunches
Tokens   == 1..(MaxCmds + MaxLaunches)
Cmds     == [id : Nat, tok : Tokens]

VARIABLES
  started,    \* started_
  schedOn,    \* the scheduler is started
  pid,        \* chrome_pid_: the launch whose process it names, or NoProc
  ws_ready,   \* ws_ready_
  crashed,    \* chrome_crashed_
  cmd_id,     \* cmd_id_
  pending,    \* pending_: id -> token of the command whose callbacks it holds
  queued,     \* pending_commands_
  launch,     \* where each launch is
  nlaunch,    \* number of launches so far
  proc,       \* each Chrome process as the kernel sees it
  conn,       \* the WebSocket and its thread
  peer,       \* the process it is, or was last, connected to
  wire,       \* commands Chrome has received and not answered
  posts,      \* the scheduler's post queue
  signalled,  \* something was posted since the scheduler was started
  \* History.
  ntok,       \* commands issued so far
  nopen,      \* Page.enable commands among them issued by the manager itself
  born,       \* the launch in whose session each command was issued
  sent,       \* commands handed to ws_.sendText(), in order
  calls,      \* the replies each command's callback was called with
  wanted      \* the application's last call of start() or stop() was start()

lifeVars == <<started, schedOn, pid, crashed, launch, nlaunch, proc, wanted>>
connVars == <<conn, peer, posts, signalled>>
cmdVars  == <<ws_ready, cmd_id, pending, queued, wire, ntok, nopen, born, sent, calls>>
vars == <<lifeVars, connVars, cmdVars>>

(* What the WebSocket's thread posts: the Open event of the connection of a
   launch (history: the callback does not know it), or a reply. *)
Events == [kind : {"open"}, of : Launches] \cup [kind : {"msg"}, cmd : Cmds]

TypeLife ==
  /\ started \in BOOLEAN /\ schedOn \in BOOLEAN
  /\ crashed \in BOOLEAN /\ wanted \in BOOLEAN
  /\ pid \in Launches \cup {NoProc}
  /\ nlaunch \in 0..MaxLaunches
  /\ launch \in [Launches -> {"none", "queued", "waiting", "ok", "failed", "done"}]
  /\ proc \in [Launches -> {"none", "alive", "zombie", "reaped"}]

TypeConn ==
  /\ conn \in {"idle", "connecting", "open", "ended", "left"}
  /\ peer \in Launches \cup {NoProc}
  /\ posts \in Seq(Events)
  /\ signalled \in BOOLEAN

TypeCmd ==
  /\ ws_ready \in BOOLEAN
  /\ cmd_id \in Nat
  /\ pending \in [0..(MaxCmds + MaxLaunches) -> Tokens \cup {0}]
  /\ queued \in Seq(Cmds)
  /\ wire \subseteq Cmds
  /\ ntok \in 0..(MaxCmds + MaxLaunches) /\ nopen \in 0..MaxLaunches
  /\ born \in [Tokens -> Launches \cup {0}]
  /\ sent \in Seq(Tokens)
  /\ calls \in [Tokens -> Seq(Tokens)]

(* Every variable has its type. *)
TypeOK == TypeLife /\ TypeConn /\ TypeCmd

Init ==
  /\ started = FALSE /\ schedOn = FALSE /\ crashed = FALSE /\ wanted = FALSE
  /\ pid = NoProc /\ nlaunch = 0
  /\ launch = [l \in Launches |-> "none"]
  /\ proc = [l \in Launches |-> "none"]
  /\ conn = "idle" /\ peer = NoProc /\ posts = <<>> /\ signalled = FALSE
  /\ ws_ready = FALSE /\ cmd_id = 0
  /\ pending = [i \in 0..(MaxCmds + MaxLaunches) |-> 0]
  /\ queued = <<>> /\ wire = {}
  /\ ntok = 0 /\ nopen = 0 /\ born = [t \in Tokens |-> 0]
  /\ sent = <<>> /\ calls = [t \in Tokens |-> <<>>]

(***************************************************************************)
(* start(): queue a launch.                                                *)
(***************************************************************************)
Launching == {l \in Launches : launch[l] \in {"queued", "waiting", "ok", "failed"}}
Finished  == {l \in Launches : launch[l] \in {"ok", "failed"}}
Unreaped  == {l \in Launches : proc[l] \in {"alive", "zombie"}}

(* Mutant of KillChrome: the process is only forgotten. *)
KillChrome_Forget ==
  /\ UNCHANGED proc
  /\ pid' = NoProc

(* kill() and waitpid() of chrome_pid_, if there is one. *)
KillChrome ==
  /\ proc' = [l \in Launches |-> IF l = pid THEN "reaped" ELSE proc[l]]
  /\ pid' = NoProc

(* Mutants of ResetChannel: ids begin at 0 again; ws_ready_ is not cleared. *)
ResetChannel_ResetIds ==
  /\ ws_ready' = FALSE
  /\ queued' = <<>>
  /\ cmd_id' = 0

ResetChannel_KeepReady ==
  /\ queued' = <<>>
  /\ UNCHANGED <<ws_ready, cmd_id>>

(* What start() resets: the entries of pending_ stay, and so does cmd_id_. *)
ResetChannel ==
  /\ ws_ready' = FALSE
  /\ queued' = <<>>
  /\ UNCHANGED cmd_id

(* A call while started_ is set returns at once. *)
start ==
  /\ ~started
  /\ nlaunch < MaxLaunches
  /\ Launching = {} \/ "start_while_launching" \in AppMay
  /\ KillChrome
  /\ ResetChannel
  /\ crashed' = FALSE
  /\ schedOn' = TRUE
  /\ signalled' = (signalled /\ schedOn)
  /\ nlaunch' = nlaunch + 1
  /\ launch' = [launch EXCEPT ![nlaunch + 1] = "queued"]
  /\ wanted' = TRUE
  /\ UNCHANGED <<started, conn, peer, posts, pending, wire, ntok, nopen,
                 born, sent, calls>>

(***************************************************************************)
(* launch_chrome() on a pool thread.                                       *)
(***************************************************************************)
(* No Chrome executable, or pipe() or fork() fails. *)
LaunchNoProcess(l) ==
  /\ launch[l] = "queued"
  /\ launch' = [launch EXCEPT ![l] = "failed"]
  /\ UNCHANGED <<started, schedOn, pid, crashed, nlaunch, proc, wanted,
                 connVars, cmdVars>>

LaunchFork(l) ==
  /\ launch[l] = "queued"
  /\ launch' = [launch EXCEPT ![l] = "waiting"]
  /\ proc' = [proc EXCEPT ![l] = "alive"]
  /\ pid' = l
  /\ UNCHANGED <<started, schedOn, crashed, nlaunch, wanted, connVars, cmdVars>>

(* The URL was read from Chrome's output; the wait for its HTTP service
   changes nothing, whatever it finds. *)
LaunchUrl(l) ==
  /\ launch[l] = "waiting"
  /\ launch' = [launch EXCEPT ![l] = "ok"]
  /\ UNCHANGED <<started, schedOn, pid, crashed, nlaunch, proc, wanted,
                 connVars, cmdVars>>

(* Mutant of LaunchGiveUp: the process is left running. *)
LaunchGiveUp_NoKill(l) ==
  /\ launch[l] = "waiting"
  /\ launch' = [launch EXCEPT ![l] = "failed"]
  /\ pid' = NoProc
  /\ UNCHANGED <<started, schedOn, crashed, nlaunch, proc, wanted, connVars, cmdVars>>

(* Mutant of LaunchGiveUp: a poll() that times out is retried for ever. *)
LaunchGiveUp_NoTimeout(l) ==
  /\ launch[l] = "waiting"
  /\ proc[l] # "alive"
  /\ launch' = [launch EXCEPT ![l] = "failed"]
  /\ proc' = [proc EXCEPT ![l] = "reaped"]
  /\ pid' = NoProc
  /\ UNCHANGED <<started, schedOn, crashed, nlaunch, wanted, connVars, cmdVars>>

(* No URL: Chrome closed its output, poll() failed, or 60 polls timed out. *)
LaunchGiveUp(l) ==
  /\ launch[l] = "waiting"
  /\ launch' = [launch EXCEPT ![l] = "failed"]
  /\ proc' = [proc EXCEPT ![l] = "reaped"]
  /\ pid' = NoProc
  /\ UNCHANGED <<started, schedOn, crashed, nlaunch, wanted, connVars, cmdVars>>

(* ws_.start() with the URL of launch l, the socket being in state c.  It does
   nothing while a thread exists, an ended one included.  A transport that
   stop() left open is taken for connected: no handshake, no Open event. *)
AfterWsStart(c, l) ==
  CASE c = "idle" -> <<"connecting", l>>
    [] c = "left" -> <<"open", peer>>
    [] OTHER      -> <<c, peer>>

(* The on_done callback of start(), called by the loop. *)
LaunchDone(l) ==
  /\ l \in Finished
  /\ launch' = [launch EXCEPT ![l] = "done"]
  /\ IF launch[l] = "ok"
     THEN /\ conn' = AfterWsStart(conn, l)[1]
          /\ peer' = AfterWsStart(conn, l)[2]
          /\ started' = TRUE
     ELSE UNCHANGED <<conn, peer, started>>
  /\ UNCHANGED <<schedOn, pid, crashed, nlaunch, proc, wanted, posts, signalled, cmdVars>>

(***************************************************************************)
(* The thread of ix::WebSocket, and Chrome.                                *)
(***************************************************************************)
PeerAlive == peer # NoProc /\ proc[peer] = "alive"

Post(e) ==
  /\ posts' = Append(posts, e)
  /\ signalled' = (signalled \/ schedOn)

(* Mutant of WsOpen: the Open event is delivered again and again. *)
WsOpen_Repeated ==
  /\ conn = "connecting" /\ PeerAlive
  /\ Post([kind |-> "open", of |-> peer])
  /\ UNCHANGED <<lifeVars, conn, peer, cmdVars>>

WsOpen ==
  /\ conn = "connecting" /\ PeerAlive
  /\ conn' = "open"
  /\ Post([kind |-> "open", of |-> peer])
  /\ UNCHANGED <<lifeVars, peer, cmdVars>>

(* Mutant of WsFail: the Error event is not looked at. *)
WsFail_Unnoticed ==
  /\ conn = "connecting"
  /\ conn' = "ended"
  /\ UNCHANGED <<lifeVars, peer, posts, signalled, cmdVars>>

(* The handshake fails; the thread sets chrome_crashed_ itself, and ends. *)
WsFail ==
  /\ conn = "connecting"
  /\ conn' = "ended"
  /\ crashed' = TRUE
  /\ UNCHANGED <<started, schedOn, pid, launch, nlaunch, proc, wanted,
                 peer, posts, signalled, cmdVars>>

(* The connection is lost.  Only a Close event is delivered, which the manager
   does not look at; automatic reconnection is disabled, so the thread ends. *)
WsDrop ==
  /\ conn = "open"
  /\ conn' = "ended"
  /\ wire' = {}
  /\ UNCHANGED <<lifeVars, peer, posts, signalled, ws_ready, cmd_id, pending,
                 queued, ntok, nopen, born, sent, calls>>

(* Chrome answers some command it has received, and the WebSocket's thread
   posts the reply. *)
ChromeReply(c) ==
  /\ conn = "open" /\ PeerAlive
  /\ c \in wire
  /\ wire' = wire \ {c}
  /\ Post([kind |-> "msg", cmd |-> c])
  /\ UNCHANGED <<lifeVars, conn, peer, ws_ready, cmd_id, pending, queued,
                 ntok, nopen, born, sent, calls>>

(* Chrome exits; being a child nobody waits for, it stays as a zombie. *)
ChromeDies(l) ==
  /\ proc[l] = "alive"
  /\ proc' = [proc EXCEPT ![l] = "zombie"]
  /\ wire' = IF l = peer THEN {} ELSE wire
  /\ UNCHANGED <<started, schedOn, pid, crashed, launch, nlaunch, wanted,
                 connVars, ws_ready, cmd_id, pending, queued, ntok, nopen,
                 born, sent, calls>>

(***************************************************************************)
(* Commands, on the main thread.                                           *)
(***************************************************************************)
Toks(s) == [i \in DOMAIN s |-> s[i].tok]

(* ws_.sendText() of each command of s: without a connection the text is
   dropped, which the manager does not notice. *)
SendText(s) ==
  /\ sent' = sent \o Toks(s)
  /\ wire' = IF conn = "open" /\ PeerAlive
             THEN wire \cup {s[i] : i \in DOMAIN s} ELSE wire

(* The next command: its id is cmd_id_. *)
NextCmd == [id |-> cmd_id, tok |-> ntok + 1]

Register(c) ==
  /\ cmd_id' = cmd_id + 1
  /\ ntok' = ntok + 1
  /\ born' = [born EXCEPT ![c.tok] = nlaunch]

(* Mutant of QueueOrSend: a command issued too early is not kept. *)
QueueOrSend_Drop(c) ==
  IF ws_ready
  THEN SendText(<<c>>) /\ UNCHANGED queued
  ELSE UNCHANGED <<queued, sent, wire>>

(* Mutant of QueueOrSend: no return after the command was put into the queue. *)
QueueOrSend_NoReturn(c) ==
  /\ queued' = IF ws_ready THEN queued ELSE Append(queued, c)
  /\ SendText(<<c>>)

QueueOrSend(c) ==
  IF ws_ready
  THEN SendText(<<c>>) /\ UNCHANGED queued
  ELSE queued' = Append(queued, c) /\ UNCHANGED <<sent, wire>>

MoreCmds == ntok - nopen < MaxCmds

(* send_command(), called for get_context(), which checks started_, or through
   a context, which exists only while started_. *)
send_command ==
  /\ started
  /\ MoreCmds
  /\ Register(NextCmd)
  /\ pending' = [pending EXCEPT ![cmd_id] = NextCmd.tok]
  /\ QueueOrSend(NextCmd)
  /\ UNCHANGED <<lifeVars, connVars, ws_ready, nopen, calls>>

PopPost ==
  /\ posts' = Tail(posts)
  /\ signalled' = (Len(posts) > 1)

NextPost(kind) == schedOn /\ signalled /\ posts # <<>> /\ Head(posts).kind = kind

(* Mutant of OnOpenSends: Page.enable is sent before the waiting commands. *)
OnOpenSends_EnableFirst == <<NextCmd>> \o queued

(* What the Open callback sends: the waiting commands, then Page.enable. *)
OnOpenSends == Append(queued, NextCmd)

(* The callback posted for the Open event. *)
RunOpen ==
  /\ NextPost("open")
  /\ PopPost
  /\ ws_ready' = TRUE
  /\ queued' = <<>>
  /\ Register(NextCmd)
  /\ nopen' = nopen + 1
  /\ pending' = [pending EXCEPT ![cmd_id] = NextCmd.tok]
  /\ SendText(OnOpenSends)
  /\ UNCHANGED <<lifeVars, conn, peer, calls>>

(* on_ws_message() with a reply: one with an unknown id (t = 0) is ignored; else
   on_ok or on_error is called, then the entry is erased.  The callback may
   issue another command (more), as the steps of get_context() and of
   press_key() do, without looking at started_. *)
RunReply(more) ==
  /\ NextPost("msg")
  /\ PopPost
  /\ LET c == Head(posts).cmd
         t == pending[c.id]
     IN /\ calls' = [u \in Tokens |-> IF u = t THEN Append(calls[u], c.tok) ELSE calls[u]]
        /\ IF more /\ t # 0
           THEN /\ MoreCmds
                /\ Register(NextCmd)
                /\ pending' = [pending EXCEPT ![cmd_id] = NextCmd.tok, ![c.id] = 0]
                /\ QueueOrSend(NextCmd)
           ELSE /\ pending' = [pending EXCEPT ![c.id] = 0]
                /\ UNCHANGED <<cmd_id, ntok, born, queued, sent, wire>>
  /\ UNCHANGED <<lifeVars, conn, peer, ws_ready, nopen>>

(***************************************************************************)
(* stop() and health_check().                                              *)
(***************************************************************************)
(* Mutant of WsStopped: the WebSocket is stopped only if it is connected. *)
WsStopped_OnlyOpen(c) == IF c = "open" THEN {"idle"} ELSE {c}

(* ws_.stop() joins the thread.  During a handshake close() finds the transport
   closed and only asks for cancellation; if the handshake succeeds
   nevertheless, Open is posted and the thread leaves with the transport open. *)
WsStopped(c) ==
  CASE c = "left"       -> {"left"}
    [] c = "connecting" -> {"idle"} \cup (IF PeerAlive THEN {"left"} ELSE {})
    [] OTHER            -> {"idle"}

(* The socket and its peer once stop() has turned the loop, c being the state
   ws_.stop() left: on_done of a launch that has finished may have started it
   again. *)
AfterLastTurn(c) ==
  LET ok == {l \in Launches : launch[l] = "ok"}
  IN IF ok = {} THEN {<<c, peer>>} ELSE {AfterWsStart(c, l) : l \in ok}

(* Contexts, the WebSocket and Chrome go first; then the scheduler is stopped
   and the loop turned once.  Neither ws_ready_ nor pending_ nor the post queue
   is reset. *)
stop ==
  /\ started
  /\ Launching = {} \/ "stop_while_launching" \in AppMay
  /\ \E c \in WsStopped(conn) : \E w \in AfterLastTurn(c) :
       /\ conn' = w[1] /\ peer' = w[2]
       /\ posts' = IF conn = "connecting" /\ c = "left"
                   THEN Append(posts, [kind |-> "open", of |-> peer]) ELSE posts
  /\ launch' = [l \in Launches |-> IF l \in Finished THEN "done" ELSE launch[l]]
  /\ wire' = {}
  /\ KillChrome
  /\ schedOn' = FALSE
  /\ signalled' = FALSE
  /\ started' = FALSE
  /\ crashed' = FALSE
  /\ wanted' = FALSE
  /\ UNCHANGED <<nlaunch, ws_ready, cmd_id, pending, queued, ntok, nopen, born,
                 sent, calls>>

(* stop() when started_ is not set: it returns at once. *)
StopIgnored ==
  /\ ~started /\ wanted
  /\ Launching = {} \/ "stop_while_launching" \in AppMay
  /\ wanted' = FALSE
  /\ UNCHANGED <<started, schedOn, pid, crashed, launch, nlaunch, proc,
                 connVars, cmdVars>>

(* kill(pid, 0) fails only for a process that has been waited for. *)
ProcessGone == pid # NoProc /\ proc[pid] = "reaped"

(* What health_check() returns. *)
Healthy == started /\ ~crashed /\ ~ProcessGone

health_check ==
  /\ started
  /\ crashed' = (crashed \/ ProcessGone)
  /\ UNCHANGED <<started, schedOn, pid, launch, nlaunch, proc, wanted,
                 connVars, cmdVars>>

(***************************************************************************)
(* The specification.                                                      *)
(***************************************************************************)
Next ==
  \/ start \/ stop \/ StopIgnored \/ health_check
  \/ send_command \/ RunOpen \/ (\E more \in BOOLEAN : RunReply(more))
  \/ WsOpen \/ WsFail \/ WsDrop
  \/ (\E c \in wire : ChromeReply(c))
  \/ (\E l \in Launches :
        \/ LaunchNoProcess(l) \/ LaunchFork(l) \/ LaunchUrl(l)
        \/ LaunchGiveUp(l) \/ LaunchDone(l) \/ ChromeDies(l))

Spec == Init /\ [][Next]_vars

(* The main thread keeps turning the loop; the pool threads are scheduled and
   give up after 60 polls, for Chrome need not print its URL; the WebSocket's
   thread ends its handshake and notices a dead peer; a live, connected Chrome
   answers each command. *)
Fairness ==
  /\ WF_vars(RunOpen) /\ WF_vars(\E more \in BOOLEAN : RunReply(more))
  /\ \A l \in Launches : /\ WF_vars(LaunchNoProcess(l) \/ LaunchFork(l))
                         /\ WF_vars(LaunchGiveUp(l))
                         /\ WF_vars(LaunchDone(l))
  /\ WF_vars(WsOpen \/ WsFail)
  /\ WF_vars(~PeerAlive /\ WsDrop)
  /\ \A t \in Tokens : WF_vars(\E c \in wire : c.tok = t /\ ChromeReply(c))

FairSpec == Spec /\ Fairness

(***************************************************************************)
(* Properties.                                                             *)
(***************************************************************************)
(* on_ws_message(): the callback of a command is called with the reply to that
   very command, and at most once, across stop() and start(). *)
CallbacksOwnOnce == \A t \in Tokens : calls[t] \in {<<>>, <<t>>}

(* send_command() and the Open callback: commands reach ws_.sendText() in the
   order they were issued, those that waited in pending_commands_ included, and
   once the manager is ready none of this session's is left behind. *)
SentInOrder ==
  /\ \A i, j \in DOMAIN sent : i < j => sent[i] < sent[j]
  /\ started /\ ws_ready =>
       \A t \in 1..ntok : born[t] = nlaunch => \E i \in DOMAIN sent : sent[i] = t

(* start(), stop() and ws_ready_: commands are written to the socket directly
   only after it was opened; a leftover of an earlier session never makes the
   manager ready during the handshake. *)
ReadyMeansOpened == started /\ ws_ready => conn \in {"open", "ended"}

(* chrome_pid_ names every Chrome process that has not been waited for: none is
   out of the reach of stop(). *)
NoOrphan == \A l \in Unreaped : pid = l

(* After stop(), and until start() is called, there is no Chrome process and no
   thread of the WebSocket, and none comes up. *)
StopEndsAll == ~wanted => Unreaped = {} /\ ~started /\ conn \in {"idle", "left"}

(* The inductive invariant behind the three theorems of CdpManagerProofs, for an
   application that calls neither start() nor stop() while Chrome is being
   launched: at most the last launch is under way, and none once started_ is
   set; chrome_pid_ holds a process only for a launch that has forked or a
   manager that is started. *)
OneLaunch ==
  /\ \A l \in Launches : launch[l] # "none" => l <= nlaunch
  /\ \A l \in Launching : l = nlaunch
  /\ started => Launching = {}

PidKnown ==
  /\ NoOrphan
  /\ pid # NoProc => \/ launch[pid] \in {"waiting", "ok"}
                     \/ started /\ launch[pid] = "done"
  /\ \A l \in Launches : launch[l] \in {"none", "queued"} => proc[l] = "none"

(* The socket runs only for a started manager, and a session's posts begin with
   its Open event. *)
SessionOnly ==
  /\ started \/ Launching # {} => wanted
  /\ conn \notin {"idle", "left"} => started
  /\ signalled => started /\ conn \in {"open", "ended"}
  /\ Launching # {} => ~ws_ready

ManagerType ==
  /\ TypeLife
  /\ conn \in {"idle", "connecting", "open", "ended", "left"}
  /\ peer \in Launches \cup {NoProc}
  /\ signalled \in BOOLEAN /\ ws_ready \in BOOLEAN

ManagerInv ==
  ManagerType /\ OneLaunch /\ PidKnown /\ SessionOnly /\ ReadyMeansOpened /\ StopEndsAll

(* The inductive invariant behind the theorems about commands, on top of
   ManagerInv.  Each connection attempt of a launch posts one Open event at most,
   so the posted ones are of successive launches, none handled yet: this bounds
   the commands the manager issues itself. *)
OpensOfLaunches ==
  /\ nopen <= nlaunch /\ nopen <= ntok /\ ntok <= MaxCmds + nopen
  /\ Launching # {} => nopen < nlaunch
  /\ conn = "connecting" => nopen < nlaunch /\ peer = nlaunch
  /\ \A i \in DOMAIN posts : posts[i].kind = "open" =>
       /\ nopen < posts[i].of /\ posts[i].of <= nlaunch
       /\ Launching # {} \/ conn = "connecting" => posts[i].of < nlaunch
  /\ \A i, j \in DOMAIN posts :
       i < j /\ posts[i].kind = "open" /\ posts[j].kind = "open"
         => posts[i].of < posts[j].of

(* Ids are never used twice: c is the command that was given its id. *)
Issued(c) == c.tok = c.id + 1 /\ c.id < cmd_id

IssuedOnly ==
  /\ cmd_id = ntok
  /\ \A c \in wire : Issued(c)
  /\ \A i \in DOMAIN queued : Issued(queued[i])
  /\ \A i \in DOMAIN posts : posts[i].kind = "msg" => Issued(posts[i].cmd)

(* pending_ holds the callbacks of a command under its own id, until they are
   called. *)
UncalledPending ==
  \A i \in DOMAIN pending :
    /\ pending[i] \in {0, i + 1}
    /\ pending[i] # 0 => i < cmd_id /\ calls[i + 1] = <<>>
    /\ i >= cmd_id /\ i + 1 \in Tokens => calls[i + 1] = <<>>

(* What is still in pending_commands_ was issued after all that was sent; a
   command of this session is in one or the other. *)
QueuedAfterSent ==
  /\ \A i \in DOMAIN sent : sent[i] <= ntok
  /\ \A i, j \in DOMAIN sent : i < j => sent[i] < sent[j]
  /\ \A i, j \in DOMAIN queued : i < j => queued[i].tok < queued[j].tok
  /\ \A i \in DOMAIN sent, j \in DOMAIN queued : sent[i] < queued[j].tok
  /\ ws_ready => queued = <<>>
  /\ \A t \in Tokens :
       /\ born[t] <= nlaunch
       /\ t <= ntok /\ born[t] = nlaunch =>
            \/ \E i \in DOMAIN sent : sent[i] = t
            \/ \E i \in DOMAIN queued : queued[i].tok = t

(* Chrome has, and answers, only what was handed to ws_.sendText(). *)
WasSent(c) == \E i \in DOMAIN sent : sent[i] = c.tok

RepliesToSent ==
  /\ \A c \in wire : WasSent(c)
  /\ \A i \in DOMAIN posts : posts[i].kind = "msg" => WasSent(posts[i].cmd)

CommandInv ==
  /\ TypeConn /\ TypeCmd
  /\ OpensOfLaunches /\ IssuedOnly /\ UncalledPending /\ CallbacksOwnOnce
  /\ QueuedAfterSent

(* A launch comes to an end: on_done is called whatever Chrome does. *)
LaunchEnds == \A l \in Launches : l \in Launching ~> launch[l] = "done"

(* Once on_done has set started_, the manager becomes ready, unless the
   connection fails, which health_check() reports, or stop() is called. *)
StartConnects == started ~> ws_ready \/ ~Healthy

(* The same for a session with a connection of its own, also after any number of
   stop() calls during a handshake: only a ws_.start() that took over the
   transport of an earlier launch can leave the manager waiting unreported. *)
OwnConnects == started /\ peer = nlaunch ~> ws_ready \/ ~Healthy

Waiting(t) == \E i \in DOMAIN pending : pending[i] = t

(* A command of this session is answered as long as the connection lasts and
   stop() is not called. *)
CommandAnswered ==
  \A t \in Tokens :
    Waiting(t) /\ born[t] = nlaunch ~> ~Waiting(t) \/ ~started \/ conn = "ended"

-----------------------------------------------------------------------------
(* What the callers of send_command() see of the manager, as a state of module
   CommandChannel. *)
Channel == INSTANCE CommandChannel WITH
  Commands <- Tokens, issued <- ntok, waiting <- Toks(queued), dispatched <- sent,
  replies <- calls

(* Whatever becomes of Chrome, its socket and the sessions, each step of the
   manager is a step of CommandChannel or changes nothing there: in particular, a
   command that start() has dropped from pending_commands_ is never answered,
   although its callbacks stay in pending_. *)
RefinesChannel == Channel!ChannelSpec
=============================================================================
