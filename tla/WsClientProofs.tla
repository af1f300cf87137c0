--------------------------- MODULE WsClientProofs ---------------------------
(***************************************************************************)
(* IxWsClient, for any number of calls of connect() and of messages:       *)
(* ready_state() is Open only on an open connection, a client that is      *)
(* stopped or deleted has no WebSocket thread, and a connection that fails *)
(* reports one error and nothing else.                                     *)
(***************************************************************************)
EXTENDS WsClient, TLAPS

USE DEF vars, wsVars, execVars

(* Nothing is connected or posted yet. *)
LEMMA WsInit == Init => WsInv
<1> SUFFICES ASSUME Init PROVE WsInv OBVIOUS
<1> USE WsBounds DEF Init, ExecInit
<1>1. TypeOK
  <2>1. ExecTypeOK
    <3>1. called <= due /\ due <= posted OBVIOUS
    <3>2. job \in [Works -> {"none", "queued", "working", "finished"}] OBVIOUS
    <3>3. QED BY <3>1, <3>2 DEF ExecTypeOK
  <2>2. peer \in 0..MaxConnects /\ gen \in 0..MaxConnects OBVIOUS
  <2>3. log \in Seq(Item) /\ Len(log) = posted OBVIOUS
  <2>4. QED BY <2>1, <2>2, <2>3 DEF TypeOK, Conns
<1>2. Operations /\ Sessions BY DEF Operations, Sessions
<1>3. StoppedIsQuiet /\ OpenMeansConnected /\ ErrorIsFinal
  BY DEF StoppedIsQuiet, Threadless, OpenMeansConnected, ErrorIsFinal
<1>4. QED BY <1>1, <1>2, <1>3 DEF WsInv

(* What a callback of the WebSocket thread adds to the log. *)
LEMMA ItemPosted ==
  ASSUME TypeOK, NEW k \in {"message", "error"}, peer > 0, PostItem(k)
  PROVE  /\ log' \in Seq(Item) /\ Len(log') = posted' /\ ExecTypeOK'
         /\ \A i \in DOMAIN log : i \in Nat /\ i < Len(log) + 1
         /\ \A i \in DOMAIN log' :
              \/ i \in DOMAIN log /\ log'[i] = log[i]
              \/ i = Len(log) + 1 /\ log'[i].kind = k /\ log'[i].conn = peer
         /\ DOMAIN log' = 1..Len(log')
<1>1. [kind |-> k, conn |-> peer] \in Item BY WsBounds DEF TypeOK, Item
<1>2. PICK e \in Item : e = [kind |-> k, conn |-> peer] BY <1>1
<1>3. log \in Seq(Item) /\ log' = Append(log, e) BY <1>2 DEF TypeOK, PostItem
<1>4. log' \in Seq(Item) /\ Len(log') = Len(log) + 1 BY <1>3
<1>5. ExecTypeOK' /\ posted' = posted + 1 BY DEF TypeOK, ExecTypeOK, PostItem, Post
<1>6. Len(log) = posted BY DEF TypeOK
<1>7. \A i \in DOMAIN log : i \in Nat /\ i < Len(log) + 1 BY <1>3
<1>8. \A i \in DOMAIN log' : \/ i \in DOMAIN log /\ log'[i] = log[i]
                             \/ i = Len(log) + 1 /\ log'[i] = e
  BY <1>3
<1>9. e.kind = k /\ e.conn = peer BY <1>2
<1>10. QED BY <1>4, <1>5, <1>6, <1>7, <1>8, <1>9

(* Every call, every return from ws_.stop() and every event of the WebSocket
   thread preserves WsInv. *)
LEMMA WsNext == WsInv /\ [Next]_vars => WsInv'
<1> SUFFICES ASSUME WsInv, [Next]_vars PROVE WsInv' OBVIOUS
<1> USE WsBounds
<1>0. /\ TypeOK /\ ExecTypeOK /\ peer \in Nat /\ gen \in Nat
      /\ \A i \in DOMAIN log : log[i].conn \in Nat
      /\ DOMAIN log = 1..Len(log)
  <2>1. TypeOK /\ ExecTypeOK /\ peer \in Nat /\ gen \in Nat BY DEF WsInv, TypeOK
  <2>2. \A i \in DOMAIN log : log[i] \in Item BY <2>1 DEF TypeOK
  <2>3. QED BY <2>1, <2>2 DEF TypeOK, Item
<1>1. CASE start
  <2>1. UNCHANGED wsVars /\ ExecTypeOK' /\ posted' = posted /\ on'
    BY <1>0, <1>1 DEF start, ExecStart, ExecTypeOK
  <2>2. conn \in Threadless BY <1>1 DEF start, ExecStart, WsInv, StoppedIsQuiet
  <2>3. TypeOK' BY <1>0, <2>1 DEF TypeOK
  <2>4. Operations' /\ Sessions' BY <2>1 DEF WsInv, Operations, Sessions
  <2>5. StoppedIsQuiet' /\ OpenMeansConnected' /\ ErrorIsFinal'
    BY <2>1, <2>2 DEF WsInv, StoppedIsQuiet, OpenMeansConnected, ErrorIsFinal, AppRuns
  <2>6. QED BY <2>3, <2>4, <2>5 DEF WsInv
<1>2. CASE connect
  <2>1. /\ mpc = "app" /\ ~gone /\ on /\ gen < MaxConnects /\ gen' = gen + 1
        /\ state' = "Connecting" /\ UNCHANGED <<execVars, mpc, gone, log>>
    BY <1>2 DEF connect, AppRuns
  <2>2. conn' \in Conns /\ (conn' # "idle") /\ (conn' = "connecting" => conn \in {"idle", "connecting"})
        /\ (conn' = "ended" <=> conn = "ended")
    BY <1>0, <1>2 DEF connect, WsStart, TypeOK, Conns
  <2>3. peer' = IF conn = "idle" THEN gen + 1 ELSE peer BY <1>2, <2>1 DEF connect, WsStart
  <2>4. gen' \in 0..MaxConnects /\ peer' \in 0..MaxConnects
    BY <1>0, <2>1, <2>3 DEF TypeOK
  <2>5. TypeOK' BY <1>0, <2>1, <2>2, <2>4 DEF TypeOK, ExecTypeOK
  <2>6. Sessions'
    <3>1. CASE conn = "idle"
      <4>1. peer' = gen + 1 /\ \A i \in DOMAIN log : log[i].conn < gen + 1
        BY <1>0, <2>3, <3>1 DEF WsInv, Sessions
      <4>2. QED BY <1>0, <2>1, <2>2, <4>1 DEF Sessions
    <3>2. CASE conn # "idle"
      <4>1. peer' = peer /\ peer <= gen' /\ peer > 0
        BY <1>0, <2>1, <2>3, <3>2 DEF WsInv, Sessions
      <4>2. QED BY <2>1, <2>2, <3>2, <4>1 DEF WsInv, Sessions
    <3>3. QED BY <3>1, <3>2
  <2>7. Operations' /\ StoppedIsQuiet' /\ OpenMeansConnected' /\ ErrorIsFinal'
    BY <2>1 DEF WsInv, Operations, StoppedIsQuiet, OpenMeansConnected, ErrorIsFinal
  <2>8. QED BY <2>5, <2>6, <2>7 DEF WsInv
<1>3. ASSUME NEW op \in {"stop", "disconnect", "destroy"}, WsStop(op), state' = state,
             op = "stop" => on
      PROVE  WsInv'
  <2>1. /\ mpc = "app" /\ ~gone /\ mpc' = op
        /\ UNCHANGED <<execVars, peer, gen, gone, log>>
    BY <1>3 DEF WsStop, AppRuns
  <2>2. /\ conn' \in Conns
        /\ conn' \in Threadless <=> conn \in Threadless
        /\ conn' = "connecting" <=> conn = "connecting"
        /\ conn' = "idle" <=> conn = "idle" /\ (conn' = "ended" <=> conn = "ended")
    BY <1>0, <1>3 DEF WsStop, TypeOK, Conns, Threadless
  <2>3. TypeOK' BY <1>0, <1>3, <2>1, <2>2 DEF TypeOK, ExecTypeOK
  <2>4. Operations' BY <1>3, <2>1 DEF Operations
  <2>5. Sessions'
    <3>1. conn' = "idle" <=> conn = "idle" BY <1>3 DEF WsStop
    <3>2. conn' = "ended" <=> conn = "ended" BY <1>3 DEF WsStop
    <3>3. QED BY <2>1, <2>2, <3>1, <3>2 DEF WsInv, Sessions
  <2>6. OpenMeansConnected' BY <1>3, <2>1 DEF OpenMeansConnected, AppRuns
  <2>7. StoppedIsQuiet' /\ ErrorIsFinal'
    BY <2>1, <2>2 DEF WsInv, StoppedIsQuiet, ErrorIsFinal
  <2>8. QED BY <2>3, <2>4, <2>5, <2>6, <2>7 DEF WsInv
<1>4. ASSUME NEW op \in {"stop", "disconnect", "destroy"}, Joined(op),
             ExecTypeOK', posted' = posted, on' \in {on, FALSE},
             op = "destroy" => gone' /\ state' = state,
             op # "destroy" => state' = "Closed" /\ gone' = gone
      PROVE  WsInv'
  <2>1. mpc = op /\ mpc' = "app" /\ UNCHANGED <<peer, gen, log>> BY <1>4 DEF Joined
  <2>2. ~gone /\ gone' \in BOOLEAN /\ state' \in {state, "Closed"}
    BY <1>4, <2>1 DEF WsInv, Operations, TypeOK
  <2>3. conn' \in Threadless /\ conn' \in {conn, "idle"}
    BY <1>4 DEF Joined, Threadless
  <2>4. TypeOK' BY <1>0, <1>4, <2>1, <2>2, <2>3 DEF TypeOK, Conns, Threadless
  <2>5. Sessions' BY <2>1, <2>3 DEF WsInv, Sessions, Threadless
  <2>6. Operations' /\ StoppedIsQuiet' /\ ErrorIsFinal'
    BY <2>1, <2>3 DEF WsInv, Operations, StoppedIsQuiet, ErrorIsFinal
  <2>7. OpenMeansConnected' BY <1>4 DEF OpenMeansConnected, AppRuns
  <2>8. QED BY <2>4, <2>5, <2>6, <2>7 DEF WsInv
<1>5. ASSUME ExecStop(called) PROVE ExecTypeOK' /\ posted' = posted /\ on' = FALSE
  <2>1. \A a, b, c \in Nat : a <= a /\ (a <= b /\ b <= c => a <= c) OBVIOUS
  <2>2. called <= called /\ called <= posted BY <1>0, <2>1 DEF ExecTypeOK
  <2>3. due' = called /\ UNCHANGED <<posted, called, job>> /\ on' = FALSE BY <1>5 DEF ExecStop
  <2>4. QED BY <1>0, <2>2, <2>3 DEF ExecTypeOK
<1>6. CASE stop BY <1>3, <1>6 DEF stop
<1>7. CASE disconnect BY <1>3, <1>7 DEF disconnect
<1>8. CASE destroy BY <1>3, <1>8 DEF destroy
<1>9. CASE stopReturn BY <1>4, <1>5, <1>9 DEF stopReturn
<1>10. CASE disconnectReturn
  <2>1. ExecTypeOK' BY <1>0, <1>10 DEF disconnectReturn, ExecTypeOK
  <2>2. QED BY <1>4, <1>10, <2>1 DEF disconnectReturn
<1>11. CASE destroyReturn
  <2>1. ExecTypeOK' /\ posted' = posted /\ on' \in {on, FALSE}
    BY <1>0, <1>5, <1>11 DEF destroyReturn, ExecTypeOK
  <2>2. QED BY <1>4, <1>11, <2>1 DEF destroyReturn
<1>12. CASE OnOpen
  <2>1. /\ conn = "connecting" /\ conn' = "open" /\ state' = "Open"
        /\ UNCHANGED <<execVars, peer, gen, mpc, gone, log>>
    BY <1>12 DEF OnOpen
  <2>2. on /\ ~gone BY <2>1 DEF WsInv, StoppedIsQuiet, Threadless
  <2>3. TypeOK' BY <1>0, <2>1 DEF TypeOK, ExecTypeOK, Conns
  <2>4. Operations' /\ Sessions' BY <2>1 DEF WsInv, Operations, Sessions
  <2>5. StoppedIsQuiet' /\ OpenMeansConnected' /\ ErrorIsFinal'
    BY <2>1, <2>2 DEF WsInv, StoppedIsQuiet, OpenMeansConnected, ErrorIsFinal
  <2>6. QED BY <2>3, <2>4, <2>5 DEF WsInv
<1>13. CASE OnError
  <2>1. /\ conn = "connecting" /\ conn' = "ended" /\ state' = "Closed" /\ PostItem("error")
        /\ UNCHANGED <<peer, gen, mpc, gone, on>>
    BY <1>13 DEF OnError, PostItem, Post
  <2>2. on /\ ~gone /\ peer > 0 BY <2>1 DEF WsInv, StoppedIsQuiet, Threadless, Sessions
  <2>3. /\ log' \in Seq(Item) /\ Len(log') = posted' /\ ExecTypeOK'
        /\ \A i \in DOMAIN log' :
             \/ i \in DOMAIN log /\ log'[i] = log[i]
             \/ i = Len(log) + 1 /\ log'[i].kind = "error" /\ log'[i].conn = peer
        /\ DOMAIN log' = 1..Len(log')
    BY <1>0, <2>1, <2>2, ItemPosted
  <2>4. TypeOK' BY <1>0, <2>1, <2>3 DEF TypeOK, Conns
  <2>5. Operations' /\ StoppedIsQuiet' /\ OpenMeansConnected'
    BY <2>1, <2>2 DEF WsInv, Operations, StoppedIsQuiet, OpenMeansConnected
  <2>6. \A i \in DOMAIN log : log[i].conn < peer BY <2>1 DEF WsInv, Sessions
  <2>7. Sessions' BY <1>0, <2>1, <2>2, <2>3, <2>6 DEF WsInv, Sessions
  <2>8. ErrorIsFinal'
    <3> SUFFICES ASSUME NEW i \in DOMAIN log', NEW j \in DOMAIN log', i # j,
                        log'[i].kind = "error"
                 PROVE  log'[j].conn # log'[i].conn
      BY <2>3 DEF ErrorIsFinal
    <3>1. CASE i \in DOMAIN log /\ log'[i] = log[i] /\ j \in DOMAIN log /\ log'[j] = log[j]
      BY <1>0, <3>1 DEF WsInv, ErrorIsFinal
    <3>2. QED BY <1>0, <2>3, <2>6, <3>1
  <2>9. QED BY <2>4, <2>5, <2>7, <2>8 DEF WsInv
<1>14. CASE OnMessage
  <2>1. /\ conn \in {"open", "closing"} /\ PostItem("message")
        /\ UNCHANGED <<state, conn, peer, gen, mpc, gone, on>>
    BY <1>14 DEF OnMessage, PostItem, Post
  <2>2. peer > 0 BY <2>1 DEF WsInv, Sessions
  <2>3. /\ log' \in Seq(Item) /\ Len(log') = posted' /\ ExecTypeOK'
        /\ \A i \in DOMAIN log' :
             \/ i \in DOMAIN log /\ log'[i] = log[i]
             \/ i = Len(log) + 1 /\ log'[i].kind = "message" /\ log'[i].conn = peer
        /\ DOMAIN log' = 1..Len(log')
    BY <1>0, <2>1, <2>2, ItemPosted
  <2>4. TypeOK' BY <1>0, <2>1, <2>3 DEF TypeOK
  <2>5. Operations' /\ StoppedIsQuiet' /\ OpenMeansConnected'
    BY <2>1 DEF WsInv, Operations, StoppedIsQuiet, OpenMeansConnected, AppRuns
  <2>6. \A i \in DOMAIN log : log[i].kind = "error" => log[i].conn < peer
    BY <2>1 DEF WsInv, Sessions
  <2>7. Sessions' BY <1>0, <2>1, <2>2, <2>3, <2>6 DEF WsInv, Sessions
  <2>8. ErrorIsFinal'
    <3> SUFFICES ASSUME NEW i \in DOMAIN log', NEW j \in DOMAIN log', i # j,
                        log'[i].kind = "error"
                 PROVE  log'[j].conn # log'[i].conn
      BY <2>3 DEF ErrorIsFinal
    <3>1. i \in DOMAIN log /\ log'[i] = log[i] /\ log[i].conn < peer BY <2>3, <2>6
    <3>2. CASE j \in DOMAIN log /\ log'[j] = log[j]
      BY <1>0, <3>1, <3>2 DEF WsInv, ErrorIsFinal
    <3>3. QED BY <1>0, <2>3, <3>1, <3>2
  <2>9. QED BY <2>4, <2>5, <2>7, <2>8 DEF WsInv
<1>15. CASE OnClose \/ ThreadSeesStop
  <2>1. /\ conn' \in {"ended", "left"} /\ conn \in {"connecting", "open", "closing"}
        /\ state' = "Closed" \/ (state' = state /\ mpc # "app")
        /\ UNCHANGED <<execVars, peer, gen, mpc, gone, log>>
    BY <1>15 DEF OnClose, ThreadSeesStop
  <2>2. on /\ ~gone BY <2>1 DEF WsInv, StoppedIsQuiet, Threadless
  <2>3. TypeOK' BY <1>0, <2>1 DEF TypeOK, ExecTypeOK, Conns
  <2>4. Operations' /\ Sessions' BY <2>1 DEF WsInv, Operations, Sessions
  <2>5. StoppedIsQuiet' /\ OpenMeansConnected' /\ ErrorIsFinal'
    BY <2>1, <2>2 DEF WsInv, StoppedIsQuiet, OpenMeansConnected, ErrorIsFinal, AppRuns
  <2>6. QED BY <2>3, <2>4, <2>5 DEF WsInv
<1>16. CASE Deliver
  <2>1. UNCHANGED wsVars /\ ExecTypeOK' /\ posted' = posted /\ on' = on
    BY <1>0, <1>16 DEF Deliver, Call, ExecTypeOK
  <2>2. TypeOK' BY <1>0, <2>1 DEF TypeOK
  <2>3. Operations' /\ Sessions' BY <2>1 DEF WsInv, Operations, Sessions
  <2>4. StoppedIsQuiet' /\ OpenMeansConnected' /\ ErrorIsFinal'
    BY <2>1 DEF WsInv, StoppedIsQuiet, OpenMeansConnected, ErrorIsFinal, AppRuns
  <2>5. QED BY <2>2, <2>3, <2>4 DEF WsInv
<1>17. CASE UNCHANGED vars
  <2>1. TypeOK' BY <1>0, <1>17 DEF TypeOK, ExecTypeOK
  <2>2. Operations' /\ Sessions' BY <1>17 DEF WsInv, Operations, Sessions
  <2>3. StoppedIsQuiet' /\ OpenMeansConnected' /\ ErrorIsFinal'
    BY <1>17 DEF WsInv, StoppedIsQuiet, OpenMeansConnected, ErrorIsFinal, AppRuns
  <2>4. QED BY <2>1, <2>2, <2>3 DEF WsInv
<1>18. QED
  BY <1>1, <1>2, <1>6, <1>7, <1>8, <1>9, <1>10, <1>11, <1>12, <1>13, <1>14, <1>15, <1>16,
     <1>17 DEF Next, Thread

(* WsInv is an invariant of the client. *)
THEOREM WsInvariant == Spec => []WsInv
<1>1. WsInv /\ [Next]_vars => WsInv' BY WsNext
<1>2. QED BY <1>1, WsInit, PTL DEF Spec

(* Every variable keeps its type, and each posted callback carries one item. *)
THEOREM WsTyped == Spec => []TypeOK
<1>1. WsInv => TypeOK BY DEF WsInv
<1>2. QED BY <1>1, WsInvariant, PTL

(* Whenever the application can look, ready_state() is Open only on an open
   connection, for every interleaving of the two threads that write state_. *)
THEOREM OpenIsConnected == Spec => []OpenMeansConnected
<1>1. WsInv => OpenMeansConnected BY DEF WsInv
<1>2. QED BY <1>1, WsInvariant, PTL

(* stop() and the destructor leave no WebSocket thread behind, whatever the
   connection was doing when they were called. *)
THEOREM StopLeavesNoThread == Spec => []StoppedIsQuiet
<1>1. WsInv => StoppedIsQuiet BY DEF WsInv
<1>2. QED BY <1>1, WsInvariant, PTL

(* on_error is posted at most once for a connection, and then nothing else is,
   across any number of calls of connect(), disconnect() and stop(). *)
THEOREM ErrorEndsConnection == Spec => []ErrorIsFinal
<1>1. WsInv => ErrorIsFinal BY DEF WsInv
<1>2. QED BY <1>1, WsInvariant, PTL
=============================================================================
