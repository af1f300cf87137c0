-------------------------- MODULE CdpContextProofs --------------------------
(***************************************************************************)
(* The contexts of CdpBrowserManager, for any sets of platforms, calls and *)
(* context objects: what the application holds stays allocated, callbacks  *)
(* use a deleted context only where its session is over or, as the run     *)
(* context_close_busy shows, where close() overtakes them, and each call   *)
(* calls back at most once.  The theorems hold for an application without  *)
(* the liberty concurrent_get; the run context_concurrent_get shows that   *)
(* they need it.                                                           *)
(***************************************************************************)
EXTENDS CdpContext, TLAPS

USE DEF vars, sessVars, cacheVars, callVars

(* The application creates one context at a time per platform. *)
Careful == "concurrent_get" \notin AppMay

(* What is shown to be inductive. *)
Inv == TypeOK /\ ContextInv

(* A manager that has just started has no contexts and no calls. *)
LEMMA ContextInit == Init => Inv
<1> SUFFICES ASSUME Init PROVE Inv
  OBVIOUS
<1> USE DEF Init
<1>1. TypeOK
  <2>1. closed \in [Ctxs -> BOOLEAN] /\ alive \in [Calls -> BOOLEAN]
    OBVIOUS
  <2>2. started \in BOOLEAN /\ contexts \in [Platforms -> Ctxs \cup {Null}] OBVIOUS
  <2>3. object \in [Ctxs -> {"none", "raw", "cached", "deleted"}] OBVIOUS
  <2>4. cbs \in [Calls -> 0..2] OBVIOUS
  <2>5. session \in 1..MaxSessions /\ home \in [Ctxs -> 0..MaxSessions]
        /\ era \in [Calls -> 0..MaxSessions]
    BY BoundAssumption
  <2>6. QED BY <2>1, <2>2, <2>3, <2>4, <2>5 DEF TypeOK, Ops, Gets
<1>2. CacheInv /\ CreateInv BY NullAssumption DEF CacheInv, CreateInv
<1>3. UseInv /\ CallInv BY DEF UseInv, CallInv
<1>4. HeldAlive /\ DanglesOnlyClosed BY DEF HeldAlive, DanglesOnlyClosed
<1>5. SessionInv BY DEF SessionInv, Waiting
<1>6. QED BY <1>1, <1>2, <1>3, <1>4, <1>5 DEF Inv, ContextInv

(* A context that the application holds and that was deleted is of an earlier
   session. *)
LEMMA HeldBefore ==
  ASSUME Inv, NEW x \in held, object[x] = "deleted" PROVE home[x] < session
<1>1. x \in Ctxs /\ home[x] \in Nat /\ session \in Nat BY DEF Inv, TypeOK
<1>2. home[x] <= session BY <1>1 DEF Inv, ContextInv, SessionInv
<1>3. home[x] # session BY DEF Inv, ContextInv, HeldAlive
<1>4. QED BY <1>1, <1>2, <1>3

(* A context under a press_key() or wait_for_selector() that was deleted is of an
   earlier session, or was closed. *)
LEMMA UsedBefore ==
  ASSUME Inv, started, NEW c \in Calls, pc[c] \in {"down", "check", "eval"},
         object[on[c]] = "deleted"
  PROVE  home[on[c]] < session \/ closed[on[c]]
<1>1. on[c] \in Ctxs /\ era[c] = home[on[c]] BY DEF Inv, ContextInv, UseInv
<1>2. home[on[c]] \in Nat /\ session \in Nat BY <1>1 DEF Inv, TypeOK
<1>3. home[on[c]] <= session BY <1>1 DEF Inv, ContextInv, SessionInv
<1>4. home[on[c]] = session => closed[on[c]] BY <1>1 DEF Inv, ContextInv, UseInv
<1>5. QED BY <1>2, <1>3, <1>4

(* stop() changes a call only if it waits: then it is lost. *)
LEMMA StopCalls ==
  stop => \A d \in Calls : \/ pc'[d] = pc[d] /\ pc[d] # "timer"
                           \/ pc'[d] = "lost" /\ pc[d] \notin {"idle", "end"}
<1> SUFFICES ASSUME stop, NEW d \in Calls
             PROVE  \/ pc'[d] = pc[d] /\ pc[d] # "timer"
                    \/ pc'[d] = "lost" /\ pc[d] \notin {"idle", "end"}
  OBVIOUS
<1>1. PICK S \in SUBSET Waiting :
        pc' = [c \in Calls |-> IF pc[c] = "timer" \/ c \in Waiting \ S THEN "lost" ELSE pc[c]]
  BY DEF stop
<1>2. d \in Waiting => pc[d] \notin {"idle", "end"} BY DEF Waiting
<1>3. QED BY <1>1, <1>2

(* Each call, reply and timer preserves the invariant. *)
LEMMA ContextNext == Careful /\ Inv /\ [Next]_vars => Inv'
<1> SUFFICES ASSUME Careful, Inv, [Next]_vars PROVE Inv'
  OBVIOUS
<1> USE NullAssumption, BoundAssumption
<1> USE DEF Inv, ContextInv, TypeOK, CacheInv, SessionInv, CreateInv, UseInv, CallInv, HeldAlive,
            DanglesOnlyClosed, Ops, Gets, Goto, CallBack, Running, Awaits, Waiting
<1>1. ASSUME NEW c \in Calls, NEW k \in Gets, NEW p \in Platforms, do_get_context(c, k, p)
      PROVE  Inv'
  <2>1. TypeOK' BY <1>1 DEF do_get_context, Creating, Cached, OnContext, Careful
  <2>2. CacheInv' BY <1>1 DEF do_get_context, Creating, Cached, OnContext, Careful
  <2>3. SessionInv' BY <1>1 DEF do_get_context, Creating, Cached, OnContext, Careful
  <2>4. CreateInv' BY <1>1 DEF do_get_context, Creating, Cached, OnContext, Careful
  <2>5. UseInv' BY <1>1 DEF do_get_context, Creating, Cached, OnContext, Careful
  <2>6. CallInv' BY <1>1 DEF do_get_context, Creating, Cached, OnContext, Careful
  <2>7. HeldAlive' BY <1>1 DEF do_get_context, Creating, Cached, OnContext, Careful
  <2>8. DanglesOnlyClosed' BY <1>1 DEF do_get_context, Creating, Cached, OnContext, Careful
  <2> HIDE DEF TypeOK, CacheInv, SessionInv, CreateInv, UseInv, CallInv, HeldAlive, DanglesOnlyClosed
  <2>9. QED BY <2>1, <2>2, <2>3, <2>4, <2>5, <2>6, <2>7, <2>8
<1>2. ASSUME NEW c \in Calls, RestoreNothing(c) PROVE Inv'
  BY <1>2 DEF RestoreNothing
<1>3. ASSUME NEW c \in Calls, NEW ok \in BOOLEAN, CreateReply(c, ok) PROVE Inv'
  BY <1>3 DEF CreateReply
<1>4. ASSUME NEW c \in Calls, NEW ok \in BOOLEAN, AttachReply(c, ok)
      PROVE  Inv'
  <2>1. CASE ~ok BY <1>4, <2>1 DEF AttachReply
  <2>2. CASE ok
    <3>0. /\ Awaits(c, "attach") /\ CanSucceed(c)
          /\ UNCHANGED <<sessVars, contexts, closed, alive, op, plat, era, held, refused, fault>>
      BY <1>4, <2>2 DEF AttachReply
    <3>1. PICK x \in Ctxs :
            /\ object[x] = "none"
            /\ object' = [object EXCEPT ![x] = "raw"]
            /\ platform' = [platform EXCEPT ![x] = plat[c]]
            /\ home' = [home EXCEPT ![x] = era[c]]
            /\ on' = [on EXCEPT ![c] = x]
            /\ Goto(c, "script")
      BY <1>4, <2>2 DEF AttachReply
    <3>2. TypeOK' BY <3>0, <3>1 DEF CanSucceed
    <3>3. CacheInv' BY <3>0, <3>1 DEF CanSucceed
    <3>4. SessionInv' BY <3>0, <3>1 DEF CanSucceed
    <3>5. CreateInv' BY <3>0, <3>1 DEF CanSucceed
    <3>6. UseInv' BY <3>0, <3>1 DEF CanSucceed
    <3>7. CallInv' BY <3>0, <3>1 DEF CanSucceed
    <3>8. HeldAlive' BY <3>0, <3>1 DEF CanSucceed
    <3>9. DanglesOnlyClosed' BY <3>0, <3>1 DEF CanSucceed
    <3> HIDE DEF TypeOK, CacheInv, SessionInv, CreateInv, UseInv, CallInv, HeldAlive, DanglesOnlyClosed
    <3>10. QED BY <3>2, <3>3, <3>4, <3>5, <3>6, <3>7, <3>8, <3>9
  <2>3. QED BY <2>1, <2>2
<1>5. ASSUME NEW c \in Calls, ScriptReply(c)
      PROVE  Inv'
  <2>1. TypeOK' BY <1>5 DEF ScriptReply, CanSucceed, Cached, OnContext
  <2>2. CacheInv' BY <1>5 DEF ScriptReply, CanSucceed, Cached, OnContext
  <2>3. SessionInv' BY <1>5 DEF ScriptReply, CanSucceed, Cached, OnContext
  <2>4. CreateInv' BY <1>5 DEF ScriptReply, CanSucceed, Cached, OnContext
  <2>5. UseInv' BY <1>5 DEF ScriptReply, CanSucceed, Cached, OnContext
  <2>6. CallInv' BY <1>5 DEF ScriptReply, CanSucceed, Cached, OnContext
  <2>7. HeldAlive' BY <1>5 DEF ScriptReply, CanSucceed, Cached, OnContext
  <2>8. DanglesOnlyClosed' BY <1>5 DEF ScriptReply, CanSucceed, Cached, OnContext
  <2> HIDE DEF TypeOK, CacheInv, SessionInv, CreateInv, UseInv, CallInv, HeldAlive, DanglesOnlyClosed
  <2>9. QED BY <2>1, <2>2, <2>3, <2>4, <2>5, <2>6, <2>7, <2>8
<1>6. ASSUME NEW c \in Calls, ScriptRefused(c)
      PROVE  Inv'
  <2>1. TypeOK' BY <1>6 DEF ScriptRefused, Destroy
  <2>2. CacheInv' BY <1>6 DEF ScriptRefused, Destroy
  <2>3. SessionInv' BY <1>6 DEF ScriptRefused, Destroy
  <2>4. CreateInv' BY <1>6 DEF ScriptRefused, Destroy
  <2>5. UseInv' BY <1>6 DEF ScriptRefused, Destroy
  <2>6. CallInv' BY <1>6 DEF ScriptRefused, Destroy
  <2>7. HeldAlive' BY <1>6 DEF ScriptRefused, Destroy
  <2>8. DanglesOnlyClosed' BY <1>6 DEF ScriptRefused, Destroy
  <2> HIDE DEF TypeOK, CacheInv, SessionInv, CreateInv, UseInv, CallInv, HeldAlive, DanglesOnlyClosed
  <2>9. QED BY <2>1, <2>2, <2>3, <2>4, <2>5, <2>6, <2>7, <2>8
<1>7. ASSUME NEW c \in Calls, CookiesReply(c) PROVE Inv'
  BY <1>7 DEF CookiesReply
<1>8. ASSUME NEW c \in Calls, NEW x \in held, close(c, x)
      PROVE  Inv'
  <2>1. TypeOK' BY <1>8 DEF close, Begin, Use
  <2>2. CacheInv' BY <1>8 DEF close, Begin, Use
  <2>3. SessionInv' BY <1>8 DEF close, Begin, Use
  <2>4. CreateInv' BY <1>8 DEF close, Begin, Use
  <2>5. UseInv' BY <1>8 DEF close, Begin, Use
  <2>6. CallInv' BY <1>8 DEF close, Begin, Use
  <2>7. HeldAlive' BY <1>8 DEF close, Begin, Use
  <2>8. DanglesOnlyClosed'
    <3>1. object[x] = "deleted" => home[x] < session BY HeldBefore
    <3>2. fault' = (IF object[x] = "deleted" THEN c ELSE Null) /\ on'[c] = x
          /\ home' = home /\ session' = session
      BY <1>8 DEF close, Begin, Use
    <3>3. QED BY <3>1, <3>2
  <2> HIDE DEF TypeOK, CacheInv, SessionInv, CreateInv, UseInv, CallInv, HeldAlive, DanglesOnlyClosed
  <2>9. QED BY <2>1, <2>2, <2>3, <2>4, <2>5, <2>6, <2>7, <2>8
<1>9. ASSUME NEW c \in Calls, NEW ok \in BOOLEAN, CloseReply(c, ok)
      PROVE  Inv'
  <2>1. TypeOK' BY <1>9 DEF CloseReply, CanSucceed, Destroy, Cached, Use
  <2>2. CacheInv' BY <1>9 DEF CloseReply, CanSucceed, Destroy, Cached, Use
  <2>3. SessionInv' BY <1>9 DEF CloseReply, CanSucceed, Destroy, Cached, Use
  <2>4. CreateInv' BY <1>9 DEF CloseReply, CanSucceed, Destroy, Cached, Use
  <2>5. UseInv' BY <1>9 DEF CloseReply, CanSucceed, Destroy, Cached, Use
  <2>6. CallInv' BY <1>9 DEF CloseReply, CanSucceed, Destroy, Cached, Use
  <2>7. HeldAlive' BY <1>9 DEF CloseReply, CanSucceed, Destroy, Cached, Use
  <2>8. DanglesOnlyClosed' BY <1>9 DEF CloseReply, CanSucceed, Destroy, Cached, Use
  <2> HIDE DEF TypeOK, CacheInv, SessionInv, CreateInv, UseInv, CallInv, HeldAlive, DanglesOnlyClosed
  <2>9. QED BY <2>1, <2>2, <2>3, <2>4, <2>5, <2>6, <2>7, <2>8
<1>10. ASSUME NEW c \in Calls, NEW x \in held, NEW checks \in BOOLEAN, OneCommand(c, x, checks)
      PROVE  Inv'
  <2>1. TypeOK' BY <1>10 DEF OneCommand, Begin, Use
  <2>2. CacheInv' BY <1>10 DEF OneCommand, Begin, Use
  <2>3. SessionInv' BY <1>10 DEF OneCommand, Begin, Use
  <2>4. CreateInv' BY <1>10 DEF OneCommand, Begin, Use
  <2>5. UseInv' BY <1>10 DEF OneCommand, Begin, Use
  <2>6. CallInv' BY <1>10 DEF OneCommand, Begin, Use
  <2>7. HeldAlive' BY <1>10 DEF OneCommand, Begin, Use
  <2>8. DanglesOnlyClosed'
    <3>1. object[x] = "deleted" => home[x] < session BY HeldBefore
    <3>2. fault' = (IF object[x] = "deleted" THEN c ELSE Null) /\ on'[c] = x
          /\ home' = home /\ session' = session
      BY <1>10 DEF OneCommand, Begin, Use
    <3>3. QED BY <3>1, <3>2
  <2> HIDE DEF TypeOK, CacheInv, SessionInv, CreateInv, UseInv, CallInv, HeldAlive, DanglesOnlyClosed
  <2>9. QED BY <2>1, <2>2, <2>3, <2>4, <2>5, <2>6, <2>7, <2>8
<1>11. ASSUME NEW c \in Calls, OneCommandReply(c) PROVE Inv'
  BY <1>11 DEF OneCommandReply
<1>12. ASSUME NEW c \in Calls, NEW x \in held, press_key(c, x)
      PROVE  Inv'
  <2>1. TypeOK' BY <1>12 DEF press_key, Begin, Use
  <2>2. CacheInv' BY <1>12 DEF press_key, Begin, Use
  <2>3. SessionInv' BY <1>12 DEF press_key, Begin, Use
  <2>4. CreateInv' BY <1>12 DEF press_key, Begin, Use
  <2>5. UseInv' BY <1>12 DEF press_key, Begin, Use
  <2>6. CallInv' BY <1>12 DEF press_key, Begin, Use
  <2>7. HeldAlive' BY <1>12 DEF press_key, Begin, Use
  <2>8. DanglesOnlyClosed'
    <3>1. object[x] = "deleted" => home[x] < session BY HeldBefore
    <3>2. fault' = (IF object[x] = "deleted" THEN c ELSE Null) /\ on'[c] = x
          /\ home' = home /\ session' = session
      BY <1>12 DEF press_key, Begin, Use
    <3>3. QED BY <3>1, <3>2
  <2> HIDE DEF TypeOK, CacheInv, SessionInv, CreateInv, UseInv, CallInv, HeldAlive, DanglesOnlyClosed
  <2>9. QED BY <2>1, <2>2, <2>3, <2>4, <2>5, <2>6, <2>7, <2>8
<1>13. ASSUME NEW c \in Calls, NEW ok \in BOOLEAN, KeyDownReply(c, ok)
      PROVE  Inv'
  <2>1. TypeOK' BY <1>13 DEF KeyDownReply, Use
  <2>2. CacheInv' BY <1>13 DEF KeyDownReply, Use
  <2>3. SessionInv' BY <1>13 DEF KeyDownReply, Use
  <2>4. CreateInv' BY <1>13 DEF KeyDownReply, Use
  <2>5. UseInv' BY <1>13 DEF KeyDownReply, Use
  <2>6. CallInv' BY <1>13 DEF KeyDownReply, Use
  <2>7. HeldAlive' BY <1>13 DEF KeyDownReply, Use
  <2>8. DanglesOnlyClosed'
    <3>1. fault' \in {fault, IF object[on[c]] = "deleted" THEN c ELSE Null}
      BY <1>13 DEF KeyDownReply, Use
    <3>2. UNCHANGED <<on, op, home, session, closed>> BY <1>13 DEF KeyDownReply
    <3>3. object[on[c]] = "deleted" => home[on[c]] < session \/ closed[on[c]]
      BY <1>13, UsedBefore DEF KeyDownReply
    <3>4. op[c] = "press_key" BY <1>13 DEF KeyDownReply
    <3>5. fault = Null BY <1>13 DEF KeyDownReply
    <3>6. QED BY <3>1, <3>2, <3>3, <3>4, <3>5
  <2> HIDE DEF TypeOK, CacheInv, SessionInv, CreateInv, UseInv, CallInv, HeldAlive, DanglesOnlyClosed
  <2>9. QED BY <2>1, <2>2, <2>3, <2>4, <2>5, <2>6, <2>7, <2>8
<1>14. ASSUME NEW c \in Calls, KeyUpReply(c) PROVE Inv'
  BY <1>14 DEF KeyUpReply
<1>15. ASSUME NEW c \in Calls, NEW x \in held, wait_for_selector(c, x)
      PROVE  Inv'
  <2>1. TypeOK' BY <1>15 DEF wait_for_selector, Begin, Use
  <2>2. CacheInv' BY <1>15 DEF wait_for_selector, Begin, Use
  <2>3. SessionInv' BY <1>15 DEF wait_for_selector, Begin, Use
  <2>4. CreateInv' BY <1>15 DEF wait_for_selector, Begin, Use
  <2>5. UseInv' BY <1>15 DEF wait_for_selector, Begin, Use
  <2>6. CallInv' BY <1>15 DEF wait_for_selector, Begin, Use
  <2>7. HeldAlive' BY <1>15 DEF wait_for_selector, Begin, Use
  <2>8. DanglesOnlyClosed'
    <3>1. object[x] = "deleted" => home[x] < session BY HeldBefore
    <3>2. fault' = (IF object[x] = "deleted" THEN c ELSE Null) /\ on'[c] = x
          /\ home' = home /\ session' = session
      BY <1>15 DEF wait_for_selector, Begin, Use
    <3>3. QED BY <3>1, <3>2
  <2> HIDE DEF TypeOK, CacheInv, SessionInv, CreateInv, UseInv, CallInv, HeldAlive, DanglesOnlyClosed
  <2>9. QED BY <2>1, <2>2, <2>3, <2>4, <2>5, <2>6, <2>7, <2>8
<1>16. ASSUME NEW c \in Calls, NEW late \in BOOLEAN, RunCheck(c, late)
      PROVE  Inv'
  <2>1. TypeOK' BY <1>16 DEF RunCheck, Check, Use
  <2>2. CacheInv' BY <1>16 DEF RunCheck, Check, Use
  <2>3. SessionInv' BY <1>16 DEF RunCheck, Check, Use
  <2>4. CreateInv' BY <1>16 DEF RunCheck, Check, Use
  <2>5. UseInv' BY <1>16 DEF RunCheck, Check, Use
  <2>6. CallInv' BY <1>16 DEF RunCheck, Check, Use
  <2>7. HeldAlive' BY <1>16 DEF RunCheck, Check, Use
  <2>8. DanglesOnlyClosed'
    <3>1. fault' = IF object[on[c]] = "deleted" THEN c ELSE Null BY <1>16 DEF RunCheck, Check, Use
    <3>2. UNCHANGED <<on, op, home, session, closed>> BY <1>16 DEF RunCheck
    <3>3. object[on[c]] = "deleted" => home[on[c]] < session \/ closed[on[c]]
      BY <1>16, UsedBefore DEF RunCheck
    <3>4. op[c] = "wait_for_selector" BY <1>16 DEF RunCheck
    <3>5. QED BY <3>1, <3>2, <3>3, <3>4
  <2> HIDE DEF TypeOK, CacheInv, SessionInv, CreateInv, UseInv, CallInv, HeldAlive, DanglesOnlyClosed
  <2>9. QED BY <2>1, <2>2, <2>3, <2>4, <2>5, <2>6, <2>7, <2>8
<1>17. ASSUME NEW c \in Calls, EvalFound(c) PROVE Inv'
  BY <1>17 DEF EvalFound
<1>18. ASSUME NEW c \in Calls, NEW late \in BOOLEAN, EvalAgain(c, late)
      PROVE  Inv'
  <2>1. TypeOK' BY <1>18 DEF EvalAgain, Check, Use
  <2>2. CacheInv' BY <1>18 DEF EvalAgain, Check, Use
  <2>3. SessionInv' BY <1>18 DEF EvalAgain, Check, Use
  <2>4. CreateInv' BY <1>18 DEF EvalAgain, Check, Use
  <2>5. UseInv' BY <1>18 DEF EvalAgain, Check, Use
  <2>6. CallInv' BY <1>18 DEF EvalAgain, Check, Use
  <2>7. HeldAlive' BY <1>18 DEF EvalAgain, Check, Use
  <2>8. DanglesOnlyClosed'
    <3>1. fault' = IF object[on[c]] = "deleted" THEN c ELSE Null BY <1>18 DEF EvalAgain, Check, Use
    <3>2. UNCHANGED <<on, op, home, session, closed>> BY <1>18 DEF EvalAgain
    <3>3. object[on[c]] = "deleted" => home[on[c]] < session \/ closed[on[c]]
      BY <1>18, UsedBefore DEF EvalAgain
    <3>4. op[c] = "wait_for_selector" BY <1>18 DEF EvalAgain
    <3>5. QED BY <3>1, <3>2, <3>3, <3>4
  <2> HIDE DEF TypeOK, CacheInv, SessionInv, CreateInv, UseInv, CallInv, HeldAlive, DanglesOnlyClosed
  <2>9. QED BY <2>1, <2>2, <2>3, <2>4, <2>5, <2>6, <2>7, <2>8
<1>19. ASSUME NEW c \in Calls, NEW x \in held, after(c, x)
      PROVE  Inv'
  <2>1. TypeOK' BY <1>19 DEF after, Begin, Use
  <2>2. CacheInv' BY <1>19 DEF after, Begin, Use
  <2>3. SessionInv' BY <1>19 DEF after, Begin, Use
  <2>4. CreateInv' BY <1>19 DEF after, Begin, Use
  <2>5. UseInv' BY <1>19 DEF after, Begin, Use
  <2>6. CallInv' BY <1>19 DEF after, Begin, Use
  <2>7. HeldAlive' BY <1>19 DEF after, Begin, Use
  <2>8. DanglesOnlyClosed' BY <1>19 DEF after, Begin, Use
  <2> HIDE DEF TypeOK, CacheInv, SessionInv, CreateInv, UseInv, CallInv, HeldAlive, DanglesOnlyClosed
  <2>9. QED BY <2>1, <2>2, <2>3, <2>4, <2>5, <2>6, <2>7, <2>8
<1>20. ASSUME NEW c \in Calls, AfterFires(c) PROVE Inv'
  BY <1>20 DEF AfterFires
<1>21. CASE stop
  <2>0. UNION {Cached(p) : p \in Platforms} = {x \in Ctxs : object[x] = "cached"}
    BY DEF Cached
  <2>1. TypeOK'
    <3>1. alive' \in [Calls -> BOOLEAN] BY <1>21 DEF stop, Destroy
    <3>2. object' \in [Ctxs -> {"none", "raw", "cached", "deleted"}]
      BY <1>21 DEF stop, Destroy
    <3>3. contexts' \in [Platforms -> Ctxs \cup {Null}] BY <1>21 DEF stop
    <3>4. started' \in BOOLEAN /\ held' \subseteq Ctxs
      <4>1. started' = FALSE /\ held' = {} BY <1>21 DEF stop
      <4>2. QED BY <4>1
    <3>7. stale' \subseteq Calls BY <1>21 DEF stop
    <3>5. pc' \in [Calls -> {"idle", "create", "attach", "script", "cookies", "close", "simple",
                       "down", "up", "check", "eval", "timer", "end", "lost"}]
      BY <1>21 DEF stop
    <3>6. QED BY <1>21, <3>1, <3>2, <3>3, <3>4, <3>5, <3>7 DEF stop
  <2>2. CacheInv' BY <1>21, <2>0 DEF stop, Destroy, Cached
  <2>3. SessionInv' BY <1>21, <2>0 DEF stop, Destroy, Cached
  <2>4. CreateInv' BY <1>21, <2>0 DEF stop, Destroy, Cached
  <2>5. UseInv' BY <1>21, <2>0 DEF stop, Destroy, Cached
  <2>6. CallInv'
    <3>1. \A x \in Ctxs : object'[x] = IF object[x] = "cached" THEN "deleted" ELSE object[x]
      BY <1>21, <2>0 DEF stop, Destroy
    <3>2. \A d \in Calls : ~alive'[d] BY <1>21, <2>0 DEF stop, Destroy
    <3>3. \A d \in Calls : \/ pc'[d] = pc[d] /\ pc[d] # "timer"
                           \/ pc'[d] = "lost" /\ pc[d] \notin {"idle", "end"}
      BY <1>21, StopCalls
    <3>4. UNCHANGED <<op, cbs, closed>> /\ held' = {} BY <1>21 DEF stop
    <3>5. QED BY <3>1, <3>2, <3>3, <3>4
  <2>7. HeldAlive' BY <1>21, <2>0 DEF stop, Destroy, Cached
  <2>8. DanglesOnlyClosed' BY <1>21, <2>0 DEF stop, Destroy, Cached
  <2> HIDE DEF TypeOK, CacheInv, SessionInv, CreateInv, UseInv, CallInv, HeldAlive, DanglesOnlyClosed
  <2>9. QED BY <2>1, <2>2, <2>3, <2>4, <2>5, <2>6, <2>7, <2>8
<1>22. CASE start
  <2>1. TypeOK' BY <1>22 DEF start
  <2>2. CacheInv' BY <1>22 DEF start
  <2>3. SessionInv' BY <1>22 DEF start
  <2>4. CreateInv' BY <1>22 DEF start
  <2>5. UseInv' BY <1>22 DEF start
  <2>6. CallInv' BY <1>22 DEF start
  <2>7. HeldAlive' BY <1>22 DEF start
  <2>8. DanglesOnlyClosed' BY <1>22 DEF start
  <2> HIDE DEF TypeOK, CacheInv, SessionInv, CreateInv, UseInv, CallInv, HeldAlive, DanglesOnlyClosed
  <2>9. QED BY <2>1, <2>2, <2>3, <2>4, <2>5, <2>6, <2>7, <2>8
<1>23. CASE UNCHANGED vars
  BY <1>23
<1> HIDE DEF Inv
<1>24. QED
  BY <1>1, <1>2, <1>3, <1>4, <1>5, <1>6, <1>7, <1>8, <1>9, <1>10, <1>11, <1>12, <1>13, <1>14, <1>15, <1>16, <1>17, <1>18, <1>19, <1>20, <1>21, <1>22, <1>23 DEF Next, Reply

(* Inv is an invariant of the contexts. *)
THEOREM ContextInvariant == ASSUME Careful PROVE Spec => []Inv
<1>1. Init => Inv BY ContextInit
<1>2. Inv /\ [Next]_vars => Inv' BY Careful, ContextNext
<1>3. QED BY <1>1, <1>2, PTL DEF Spec

(* Type correctness, for any platforms, calls and contexts. *)
THEOREM ContextTypes == ASSUME Careful PROVE Spec => []TypeOK
<1>1. Inv => TypeOK BY DEF Inv
<1>2. QED BY <1>1, ContextInvariant, PTL

(* The cache, the objects, what pending callbacks will use and what calls have
   called back agree, across sessions. *)
THEOREM ContextsConsistent == ASSUME Careful PROVE Spec => []ContextInv
<1>1. Inv => ContextInv BY DEF Inv
<1>2. QED BY <1>1, ContextInvariant, PTL

(* A context the application holds stays allocated and cached, whatever the
   order of replies, and until its own close() is answered or stop(). *)
THEOREM HeldStaysAlive == ASSUME Careful PROVE Spec => []HeldAlive
<1>1. Inv => HeldAlive BY DEF Inv, ContextInv
<1>2. QED BY <1>1, ContextInvariant, PTL

(* No call, reply, posted check or timer uses a deleted context, but for the
   contexts of an earlier session and for the press_key() and
   wait_for_selector() that a close() overtakes. *)
THEOREM NothingDangles == ASSUME Careful PROVE Spec => []DanglesOnlyClosed
<1>1. Inv => DanglesOnlyClosed BY DEF Inv, ContextInv
<1>2. QED BY <1>1, ContextInvariant, PTL

(* on_done and on_error, on_found and on_timeout exclude each other. *)
THEOREM OneCallback == ASSUME Careful PROVE Spec => []CallsBackOnce
<1>1. Inv => CallsBackOnce BY DEF Inv, ContextInv, CallInv, CallsBackOnce
<1>2. QED BY <1>1, ContextInvariant, PTL

(* The guard of after(): a context's timers call back only while it lives. *)
THEOREM TimersGuarded == ASSUME Careful PROVE Spec => AfterGuarded
<1>1. Inv /\ [Next]_vars =>
        [\A c \in Calls : op[c] = "after" /\ cbs'[c] # cbs[c] => object[on[c]] = "cached"]_vars
  <2> SUFFICES ASSUME Inv, Next, NEW c \in Calls, op[c] = "after", cbs'[c] # cbs[c]
               PROVE  object[on[c]] = "cached"
    BY DEF vars
  <2>1. pc[c] \in {"timer", "end", "lost"} BY DEF Inv, ContextInv, CallInv
  <2>2. alive[c] /\ fault = Null
    <3> USE <2>1 DEF Inv, TypeOK, Goto, CallBack
    <3>1. ASSUME NEW d \in Calls, NEW k \in Gets, NEW p \in Platforms, do_get_context(d, k, p) PROVE alive[c] /\ fault = Null
      BY <3>1 DEF do_get_context, OnContext
    <3>2. ASSUME NEW d \in Calls, RestoreNothing(d) PROVE alive[c] /\ fault = Null
      BY <3>2 DEF RestoreNothing
    <3>3. ASSUME NEW d \in Calls, NEW ok \in BOOLEAN, CreateReply(d, ok) PROVE alive[c] /\ fault = Null
      BY <3>3 DEF CreateReply, Awaits
    <3>4. ASSUME NEW d \in Calls, NEW ok \in BOOLEAN, AttachReply(d, ok) PROVE alive[c] /\ fault = Null
      BY <3>4 DEF AttachReply, Awaits
    <3>5. ASSUME NEW d \in Calls, ScriptReply(d) PROVE alive[c] /\ fault = Null
      BY <3>5 DEF ScriptReply, Awaits, OnContext
    <3>6. ASSUME NEW d \in Calls, ScriptRefused(d) PROVE alive[c] /\ fault = Null
      BY <3>6 DEF ScriptRefused, Awaits
    <3>7. ASSUME NEW d \in Calls, CookiesReply(d) PROVE alive[c] /\ fault = Null
      BY <3>7 DEF CookiesReply, Awaits
    <3>8. ASSUME NEW d \in Calls, NEW x \in held, close(d, x) PROVE alive[c] /\ fault = Null
      BY <3>8 DEF close, Begin
    <3>9. ASSUME NEW d \in Calls, NEW ok \in BOOLEAN, CloseReply(d, ok) PROVE alive[c] /\ fault = Null
      BY <3>9 DEF CloseReply, Awaits
    <3>10. ASSUME NEW d \in Calls, NEW x \in held, NEW checks \in BOOLEAN, OneCommand(d, x, checks) PROVE alive[c] /\ fault = Null
      BY <3>10 DEF OneCommand, Begin
    <3>11. ASSUME NEW d \in Calls, OneCommandReply(d) PROVE alive[c] /\ fault = Null
      BY <3>11 DEF OneCommandReply, Awaits
    <3>12. ASSUME NEW d \in Calls, NEW x \in held, press_key(d, x) PROVE alive[c] /\ fault = Null
      BY <3>12 DEF press_key, Begin
    <3>13. ASSUME NEW d \in Calls, NEW ok \in BOOLEAN, KeyDownReply(d, ok) PROVE alive[c] /\ fault = Null
      BY <3>13 DEF KeyDownReply, Awaits
    <3>14. ASSUME NEW d \in Calls, KeyUpReply(d) PROVE alive[c] /\ fault = Null
      BY <3>14 DEF KeyUpReply, Awaits
    <3>15. ASSUME NEW d \in Calls, NEW x \in held, wait_for_selector(d, x) PROVE alive[c] /\ fault = Null
      BY <3>15 DEF wait_for_selector, Begin
    <3>16. ASSUME NEW d \in Calls, NEW late \in BOOLEAN, RunCheck(d, late) PROVE alive[c] /\ fault = Null
      BY <3>16 DEF RunCheck, Awaits, Check
    <3>17. ASSUME NEW d \in Calls, EvalFound(d) PROVE alive[c] /\ fault = Null
      BY <3>17 DEF EvalFound, Awaits
    <3>18. ASSUME NEW d \in Calls, NEW late \in BOOLEAN, EvalAgain(d, late) PROVE alive[c] /\ fault = Null
      BY <3>18 DEF EvalAgain, Awaits, Check
    <3>19. ASSUME NEW d \in Calls, NEW x \in held, after(d, x) PROVE alive[c] /\ fault = Null
      BY <3>19 DEF after, Begin
    <3>20. ASSUME NEW d \in Calls, AfterFires(d) PROVE alive[c] /\ fault = Null
      BY <3>20 DEF AfterFires, Awaits, Running
    <3>21. CASE stop BY <3>21 DEF stop
    <3>22. CASE start BY <3>22 DEF start
    <3> HIDE DEF Inv
    <3>23. QED
      BY <3>1, <3>2, <3>3, <3>4, <3>5, <3>6, <3>7, <3>8, <3>9, <3>10, <3>11, <3>12, <3>13, <3>14, <3>15, <3>16, <3>17, <3>18, <3>19, <3>20, <3>21, <3>22 DEF Next, Reply
  <2>3. QED BY <2>2 DEF Inv, ContextInv, CallInv
<1>2. QED BY <1>1, ContextInvariant, PTL DEF Spec, AfterGuarded
=============================================================================
