------------------------------ MODULE WsClient ------------------------------
(***************************************************************************)
(* IxWsClient of src/wheel/ws_client: a WebSocket whose events arrive on   *)
(* the thread of ix::WebSocket and reach the application through post().   *)
(* The scheduler is Executor, which UvScheduler implements; the client is  *)
(* started exactly while its scheduler is, so `on' is also started_.       *)
(*                                                                         *)
(* The main thread makes the calls of the application and runs the posted  *)
(* callbacks; ws_.stop() makes it wait until the WebSocket thread is gone, *)
(* and that thread may still deliver events meanwhile.  The application    *)
(* calls connect() on a started client only (post() needs the scheduler's  *)
(* handle), and stop() or the destructor outside callbacks.  No thread is  *)
(* inside post() when the scheduler is started: Wake never happens.        *)
(***************************************************************************)
EXTENDS Executor, Sequences

CONSTANTS
  MaxConnects,  \* bound on the calls of connect()
  MaxMessages   \* bound on the messages received

ASSUME WsBounds == MaxConnects \in Nat /\ MaxMessages \in Nat

VARIABLES
  state,   \* state_
  conn,    \* ix::WebSocket, its thread and its transport
  peer,    \* the connect() that started the thread
  gen,     \* the connect() whose on_message_ and on_error_ are stored
  mpc,     \* "app", or the operation that is inside ws_.stop()
  gone,    \* the client has been deleted
  log      \* what each posted callback carries

wsVars == <<state, conn, peer, gen, mpc, gone, log>>
vars == <<execVars, wsVars>>

Item == [kind : {"message", "error"}, conn : 1..MaxConnects]

(* "ended": the thread has finished and was not joined; "left" and
   "leftclosing": no thread, and a transport that was left open, or closing. *)
Conns == {"idle", "connecting", "open", "closing", "ended", "left", "leftclosing"}
Threadless == {"idle", "left", "leftclosing"}

(* Every variable has its type, and each posted callback carries an item. *)
TypeOK ==
  /\ ExecTypeOK
  /\ state \in {"Connecting", "Open", "Closed"}
  /\ conn \in Conns
  /\ peer \in 0..MaxConnects /\ gen \in 0..MaxConnects
  /\ mpc \in {"app", "stop", "disconnect", "destroy"}
  /\ gone \in BOOLEAN
  /\ log \in Seq(Item) /\ Len(log) = posted

Init ==
  /\ ExecInit
  /\ state = "Closed" /\ conn = "idle" /\ peer = 0 /\ gen = 0
  /\ mpc = "app" /\ gone = FALSE /\ log = <<>>

AppRuns == mpc = "app" /\ ~gone

start == AppRuns /\ ExecStart /\ UNCHANGED wsVars

(* ws_.start(): nothing when there is a thread, finished or not.  The thread
   takes a transport that was left open for connected, and no Open event
   comes; one that was left closing it finishes closing. *)
WsStart ==
  /\ conn' = CASE conn = "idle" -> "connecting"
               [] conn = "left" -> "open"
               [] conn = "leftclosing" -> "closing"
               [] OTHER -> conn
  /\ peer' = IF conn = "idle" THEN gen' ELSE peer

connect ==
  /\ AppRuns /\ on
  /\ gen < MaxConnects
  /\ gen' = gen + 1
  /\ state' = "Connecting"
  /\ WsStart
  /\ UNCHANGED <<execVars, mpc, gone, log>>

(* The callbacks of the WebSocket thread. *)
PostItem(k) == Post /\ log' = Append(log, [kind |-> k, conn |-> peer])

OnOpen ==
  /\ conn = "connecting"
  /\ conn' = "open"
  /\ state' = "Open"
  /\ UNCHANGED <<execVars, peer, gen, mpc, gone, log>>

(* Mutant of OnError: automatic reconnection stays enabled. *)
OnError_Reconnect ==
  /\ conn = "connecting"
  /\ posted < MaxConnects + MaxMessages
  /\ state' = "Closed"
  /\ PostItem("error")
  /\ UNCHANGED <<conn, peer, gen, mpc, gone>>

(* Mutant of OnError: state_ is not assigned. *)
OnError_KeepState ==
  /\ conn = "connecting"
  /\ conn' = "ended"
  /\ PostItem("error")
  /\ UNCHANGED <<state, peer, gen, mpc, gone>>

(* The handshake failed, timed out or was cancelled by ws_.stop(). *)
OnError ==
  /\ conn = "connecting"
  /\ conn' = "ended"
  /\ state' = "Closed"
  /\ PostItem("error")
  /\ UNCHANGED <<peer, gen, mpc, gone>>

OnMessage ==
  /\ conn \in {"open", "closing"}
  /\ Len(SelectSeq(log, LAMBDA x : x.kind = "message")) < MaxMessages
  /\ PostItem("message")
  /\ UNCHANGED <<state, conn, peer, gen, mpc, gone>>

OnClose ==
  /\ conn \in {"open", "closing"}
  /\ conn' = "ended"
  /\ state' = "Closed"
  /\ UNCHANGED <<execVars, peer, gen, mpc, gone, log>>

(* The thread sees _stop: before it has tried to connect, or after a handshake
   that close() came too early for. *)
ThreadSeesStop ==
  /\ mpc # "app"
  /\ conn \in {"connecting", "open"}
  /\ conn' = IF conn = "open" THEN "left" ELSE "ended"
  /\ UNCHANGED <<execVars, state, peer, gen, mpc, gone, log>>

(* ws_.stop(): close() on an open transport, then the thread is joined. *)
WsStop(op) ==
  /\ AppRuns
  /\ mpc' = op
  /\ conn' = CASE conn = "open" -> "closing"
               [] conn = "left" -> "leftclosing"
               [] OTHER -> conn
  /\ UNCHANGED <<execVars, peer, gen, gone, log>>

Joined(op) ==
  /\ mpc = op
  /\ conn \in Threadless \cup {"ended"}
  /\ conn' = IF conn = "ended" THEN "idle" ELSE conn
  /\ mpc' = "app"
  /\ UNCHANGED <<peer, gen, log>>

disconnect ==
  /\ state # "Closed"
  /\ WsStop("disconnect")
  /\ UNCHANGED state

(* Mutant of disconnectReturn: state_ was assigned before ws_.stop(), and not
   after it. *)
disconnectReturn_Early == Joined("disconnect") /\ UNCHANGED <<execVars, state, gone>>

disconnectReturn ==
  /\ Joined("disconnect")
  /\ state' = "Closed"
  /\ UNCHANGED <<execVars, gone>>

stop == on /\ WsStop("stop") /\ UNCHANGED state

(* Mutant of stopReturn: the WebSocket is stopped after the scheduler is. *)
stopReturn_NoJoin ==
  /\ mpc = "stop"
  /\ mpc' = "app"
  /\ state' = "Closed"
  /\ ExecStop(called)
  /\ UNCHANGED <<conn, peer, gen, gone, log>>

(* stop() after ws_.stop(): outside a turn of the loop the scheduler has no
   callback in hand, and its last step() calls none. *)
stopReturn ==
  /\ Joined("stop")
  /\ state' = "Closed"
  /\ ExecStop(called)
  /\ UNCHANGED gone

destroy == WsStop("destroy") /\ UNCHANGED state

destroyReturn ==
  /\ Joined("destroy")
  /\ gone' = TRUE
  /\ IF on THEN ExecStop(called) ELSE UNCHANGED execVars
  /\ UNCHANGED state

(* step() and run() call what was posted. *)
Deliver == AppRuns /\ Call /\ UNCHANGED wsVars

Thread == OnOpen \/ OnError \/ OnClose \/ ThreadSeesStop

Next ==
  \/ start \/ connect \/ disconnect \/ stop \/ destroy
  \/ disconnectReturn \/ stopReturn \/ destroyReturn
  \/ Thread \/ OnMessage \/ Deliver

Spec == Init /\ [][Next]_vars

(* The application keeps turning the loop, a handshake ends (it has a timeout),
   a closing transport closes (it has a timeout too) and ws_.stop() returns;
   nothing makes a server send, or close an open connection. *)
Fairness ==
  /\ WF_vars(Deliver)
  /\ WF_vars(Thread /\ conn # "open")
  /\ WF_vars(ThreadSeesStop)
  /\ WF_vars(disconnectReturn \/ stopReturn \/ destroyReturn)

FairSpec == Spec /\ Fairness

-----------------------------------------------------------------------------
(* Whenever the application can look, ready_state() is Open only on an open
   connection, although both threads write state_: an Open event that comes
   while the main thread is inside ws_.stop() does not survive it. *)
OpenMeansConnected == AppRuns /\ state = "Open" => conn = "open"

(* A client that is stopped or deleted has no WebSocket thread left that could
   post to its scheduler. *)
StoppedIsQuiet == ~on \/ gone => conn \in Threadless

(* A connection that fails reports one error and nothing else: no message
   before it and nothing after it, in particular no second attempt. *)
ErrorIsFinal ==
  \A i, j \in 1..Len(log) :
    i # j /\ log[i].kind = "error" => log[j].conn # log[i].conn

(* The inductive invariant behind the theorems of WsClientProofs.  An operation
   inside ws_.stop() began on a client that allows it; the thread and the transport
   are those of some connect(); what a connection posts comes after all that
   earlier ones posted, nothing precedes its handshake, and its error, if any,
   ends it. *)
Operations ==
  /\ mpc = "stop" => on
  /\ gone => mpc = "app"

Sessions ==
  /\ peer <= gen
  /\ conn # "idle" => peer > 0
  /\ \A i \in DOMAIN log : log[i].conn <= peer
  /\ conn = "connecting" => \A i \in DOMAIN log : log[i].conn < peer
  /\ conn \notin {"idle", "ended"} =>
       \A i \in DOMAIN log : log[i].kind = "error" => log[i].conn < peer

WsInv ==
  TypeOK /\ Operations /\ Sessions /\ StoppedIsQuiet /\ OpenMeansConnected /\ ErrorIsFinal

(* A handshake under way always ends in Open or Closed, also when connect() is
   called again meanwhile. *)
HandshakeResolves ==
  (conn = "connecting" /\ state = "Connecting") ~> (state # "Connecting" \/ gone)

(* A connect() made when the previous connection has failed, or was closed by
   the server, ends in Open or Closed.  It is not so: ws_ still holds the
   finished thread, and ws_.start() does nothing. *)
RetryEnds ==
  (state = "Connecting" /\ conn = "ended") ~> (state # "Connecting" \/ gone)
=============================================================================
