----------------------------- MODULE CdpContext -----------------------------
(***************************************************************************)
(* The contexts of CdpBrowserManager (class CdpBrowserContext): the cache  *)
(* contexts_, the chain of commands behind get_context(), save_session()   *)
(* and restore_session(), and the operations of a context, each of which   *)
(* ends in a callback of the application.                                  *)
(*                                                                         *)
(* A call of the application is a member of Calls; pc says which reply,    *)
(* posted check or timer it waits for.  Replies come in any order, with a  *)
(* result or an error; module CdpManager shows that a reply reaches the    *)
(* callback of its own command, once.  Everything here runs on the main    *)
(* thread, one callback at a time; the calls interleave.                   *)
(*                                                                         *)
(* stop() deletes every cached context and closes the timers, but keeps    *)
(* pending_ and the scheduler's post queue: the replies and checks already *)
(* posted (stale) are handled after the next start(), before anything of   *)
(* the new session.  The Chrome of the new session knows none of the       *)
(* targets of the old one, and answers commands about them with an error.  *)
(***************************************************************************)
EXTENDS Naturals

CONSTANTS
  MaxSessions,  \* bound on the sessions, from a start() to a stop()
  Platforms,    \* names of platforms
  Calls,        \* calls the application makes
  Ctxs,         \* CdpBrowserContext objects
  Null,         \* no context, no platform, no call
  AppMay        \* what the application may do: see Liberties

(* "concurrent_get"  get_context(), save_session() or restore_session() for a
                     platform while another one creates its context. *)
Liberties == {"concurrent_get"}

ASSUME LibertyAssumption == AppMay \subseteq Liberties
ASSUME NullAssumption    == Null \notin Ctxs \cup Platforms \cup Calls
ASSUME BoundAssumption   == MaxSessions \in Nat \ {0}

VARIABLES
  started,   \* the manager's started_
  contexts,  \* contexts_: platform -> context
  object,    \* each context object: not yet created, owned by a raw pointer
             \* of get_context(), cached, or deleted
  platform,  \* platform_
  closed,    \* closed_
  op,        \* the operation of each call
  pc,        \* what the call waits for
  on,        \* the context the call is about
  plat,      \* the platform get_context() was called for
  alive,     \* after(): the guard shared with the context
  stale,     \* calls whose reply or check an earlier session left in the post queue
  \* History.
  session,   \* the number of the session
  era,       \* the session whose Chrome knows the call's target
  home,      \* the session whose Chrome knows the context's target
  cbs,       \* how often each call has called back
  held,      \* contexts handed to the application that it may use
  refused,   \* calls whose context was discarded: the script was refused
  fault      \* the call that has used a deleted context, or Null

sessVars  == <<started, session>>
cacheVars == <<contexts, object, platform, home, closed, alive>>
callVars  == <<op, pc, on, plat, era, cbs, stale>>
vars == <<sessVars, cacheVars, callVars, held, refused, fault>>

Gets == {"get_context", "save_session", "restore_session"}
Ops  == Gets \cup {"none", "close", "simple", "press_key", "wait_for_selector", "after"}

(* Every variable has its type; an operation's call names its context. *)
TypeOK ==
  /\ started \in BOOLEAN /\ session \in 1..MaxSessions
  /\ fault \in Calls \cup {Null}
  /\ contexts \in [Platforms -> Ctxs \cup {Null}]
  /\ object \in [Ctxs -> {"none", "raw", "cached", "deleted"}]
  /\ platform \in [Ctxs -> Platforms \cup {Null}]
  /\ home \in [Ctxs -> 0..MaxSessions] /\ era \in [Calls -> 0..MaxSessions]
  /\ closed \in [Ctxs -> BOOLEAN]
  /\ op \in [Calls -> Ops]
  /\ pc \in [Calls -> {"idle", "create", "attach", "script", "cookies", "close", "simple",
                       "down", "up", "check", "eval", "timer", "end", "lost"}]
  /\ on \in [Calls -> Ctxs \cup {Null}]
  /\ plat \in [Calls -> Platforms \cup {Null}]
  /\ alive \in [Calls -> BOOLEAN]
  /\ cbs \in [Calls -> 0..2]
  /\ held \subseteq Ctxs /\ refused \subseteq Calls /\ stale \subseteq Calls
  /\ \A c \in Calls :
       op[c] \in {"close", "simple", "press_key", "wait_for_selector", "after"} => on[c] # Null

Init ==
  /\ started = TRUE /\ session = 1
  /\ contexts = [p \in Platforms |-> Null]
  /\ object = [x \in Ctxs |-> "none"]
  /\ platform = [x \in Ctxs |-> Null]
  /\ home = [x \in Ctxs |-> 0] /\ era = [c \in Calls |-> 0]
  /\ closed = [x \in Ctxs |-> FALSE]
  /\ op = [c \in Calls |-> "none"]
  /\ pc = [c \in Calls |-> "idle"]
  /\ on = [c \in Calls |-> Null]
  /\ plat = [c \in Calls |-> Null]
  /\ alive = [c \in Calls |-> FALSE]
  /\ cbs = [c \in Calls |-> 0]
  /\ held = {} /\ refused = {} /\ stale = {} /\ fault = Null

(***************************************************************************)
(* Helpers.                                                                *)
(***************************************************************************)
(* The call goes on to wait for s. *)
Goto(c, s) ==
  /\ pc' = [pc EXCEPT ![c] = s]
  /\ stale' = stale \ {c}
  /\ UNCHANGED cbs

(* One of the application's callbacks is called, and the call is over. *)
CallBack(c) ==
  /\ pc' = [pc EXCEPT ![c] = "end"]
  /\ stale' = stale \ {c}
  /\ cbs' = [cbs EXCEPT ![c] = @ + 1]

(* The use of a deleted context is undefined: the program ends there. *)
Running == fault = Null

(* Call c, or its callback, reads or writes *x. *)
Use(c, x) == fault' = IF object[x] = "deleted" THEN c ELSE fault

(* Mutant of Destroy: the destructor forgets the guards. *)
Destroy_KeepGuards(S) ==
  /\ object' = [x \in Ctxs |-> IF x \in S THEN "deleted" ELSE object[x]]
  /\ UNCHANGED alive

(* ~CdpBrowserContext of the contexts in S: it clears their guards. *)
Destroy(S) ==
  /\ object' = [x \in Ctxs |-> IF x \in S THEN "deleted" ELSE object[x]]
  /\ alive' = [c \in Calls |-> alive[c] /\ on[c] \notin S]

Cached(p) == {contexts[p]} \ {Null}

(* on_ok(x) of do_get_context(): the context is handed to the application, or
   save_session() or restore_session() sends its command for the cookies. *)
OnContext(c, k, x) ==
  IF k = "get_context"
  THEN CallBack(c) /\ held' = held \cup {x}
  ELSE Goto(c, "cookies") /\ UNCHANGED held

(***************************************************************************)
(* get_context(), save_session(), restore_session() and their replies.     *)
(***************************************************************************)
(* A call of this session is creating p's context. *)
Creating(p) ==
  \E c \in Calls : plat[c] = p /\ era[c] = session /\ pc[c] \in {"create", "attach", "script"}

(* do_get_context(): without a session on_error is called at once; a cached
   context is handed out at once, closed or not; else Target.createTarget is
   sent. *)
do_get_context(c, k, p) ==
  /\ Running /\ pc[c] = "idle"
  /\ ~Creating(p) \/ "concurrent_get" \in AppMay
  /\ op' = [op EXCEPT ![c] = k]
  /\ plat' = [plat EXCEPT ![c] = p]
  /\ era' = [era EXCEPT ![c] = session]
  /\ IF ~started
     THEN CallBack(c) /\ UNCHANGED <<on, held>>
     ELSE IF Cached(p) # {}
     THEN on' = [on EXCEPT ![c] = contexts[p]] /\ OnContext(c, k, contexts[p])
     ELSE Goto(c, "create") /\ UNCHANGED <<on, held>>
  /\ UNCHANGED <<sessVars, cacheVars, refused, fault>>

(* restore_session() without a readable session file: on_done(false). *)
RestoreNothing(c) ==
  /\ Running /\ pc[c] = "idle"
  /\ op' = [op EXCEPT ![c] = "restore_session"]
  /\ CallBack(c)
  /\ UNCHANGED <<sessVars, cacheVars, on, plat, era, held, refused, fault>>

(* Replies, checks and timers are handled only in a session.  Whatever is left
   of an earlier one is handled first, in one turn of the loop. *)
Awaits(c, s) ==
  /\ Running /\ started
  /\ pc[c] = s
  /\ c \in stale \/ stale = {}

(* The reply comes from the Chrome that knows the call's target. *)
CanSucceed(c) == c \in stale \/ era[c] = session

(* Mutant of CreateReply: an error is only logged. *)
CreateReply_Silent(c, ok) ==
  /\ Awaits(c, "create")
  /\ ok => CanSucceed(c)
  /\ IF ok THEN Goto(c, "attach") ELSE Goto(c, "end")
  /\ UNCHANGED <<sessVars, cacheVars, op, on, plat, era, held, refused, fault>>

CreateReply(c, ok) ==
  /\ Awaits(c, "create")
  /\ ok => CanSucceed(c)
  /\ IF ok THEN Goto(c, "attach") ELSE CallBack(c)
  /\ UNCHANGED <<sessVars, cacheVars, op, on, plat, era, held, refused, fault>>

(* The reply to Target.attachToTarget: the context is created, owned by the
   raw pointer in the callbacks of the next command. *)
AttachReply(c, ok) ==
  /\ Awaits(c, "attach")
  /\ ok => CanSucceed(c)
  /\ IF ok
     THEN \E x \in Ctxs :
            /\ object[x] = "none"
            /\ object' = [object EXCEPT ![x] = "raw"]
            /\ platform' = [platform EXCEPT ![x] = plat[c]]
            /\ home' = [home EXCEPT ![x] = era[c]]
            /\ on' = [on EXCEPT ![c] = x]
            /\ Goto(c, "script")
     ELSE CallBack(c) /\ UNCHANGED <<object, platform, home, on>>
  /\ UNCHANGED <<sessVars, contexts, closed, alive, op, plat, era, held, refused, fault>>

(* The stealth script is accepted: the context replaces, and so deletes, what
   is cached for the platform. *)
ScriptReply(c) ==
  /\ Awaits(c, "script")
  /\ CanSucceed(c)
  /\ LET x == on[c]
         old == Cached(plat[c])
     IN /\ contexts' = [contexts EXCEPT ![plat[c]] = x]
        /\ object' = [y \in Ctxs |-> IF y = x THEN "cached"
                                    ELSE IF y \in old THEN "deleted" ELSE object[y]]
        /\ alive' = [d \in Calls |-> alive[d] /\ on[d] \notin old]
        /\ OnContext(c, op[c], x)
  /\ UNCHANGED <<sessVars, platform, home, closed, op, on, plat, era, refused, fault>>

(* It is refused: the context is deleted, and nobody is told. *)
ScriptRefused(c) ==
  /\ Awaits(c, "script")
  /\ Destroy({on[c]})
  /\ refused' = refused \cup {c}
  /\ Goto(c, "end")
  /\ UNCHANGED <<sessVars, contexts, platform, home, closed, op, on, plat, era, held, fault>>

(* Storage.getCookies, whose result is written to the session file, or
   Storage.setCookies: on_done or on_error. *)
CookiesReply(c) ==
  /\ Awaits(c, "cookies")
  /\ CallBack(c)
  /\ UNCHANGED <<sessVars, cacheVars, op, on, plat, era, held, refused, fault>>

(***************************************************************************)
(* Operations of a context the application holds.                          *)
(***************************************************************************)
Begin(c, k, x) ==
  /\ Running /\ pc[c] = "idle" /\ x \in held
  /\ op' = [op EXCEPT ![c] = k]
  /\ on' = [on EXCEPT ![c] = x]
  /\ era' = [era EXCEPT ![c] = home[x]]
  /\ Use(c, x)

(* Mutant of close: closed_ is not looked at. *)
close_Again(c, x) ==
  /\ Begin(c, "close", x)
  /\ Goto(c, "close")
  /\ closed' = [closed EXCEPT ![x] = TRUE]
  /\ UNCHANGED <<sessVars, contexts, object, platform, home, alive, plat, held, refused>>

close(c, x) ==
  /\ Begin(c, "close", x)
  /\ IF closed[x] THEN CallBack(c) ELSE Goto(c, "close")
  /\ closed' = [closed EXCEPT ![x] = TRUE]
  /\ UNCHANGED <<sessVars, contexts, object, platform, home, alive, plat, held, refused>>

(* Mutant of CloseReply: the context is removed although Chrome kept it. *)
CloseReply_AlwaysRemove(c, ok) ==
  /\ Awaits(c, "close")
  /\ ok => CanSucceed(c)
  /\ LET p == platform[on[c]]
     IN /\ contexts' = [contexts EXCEPT ![p] = Null]
        /\ Destroy(Cached(p))
  /\ held' = IF ok THEN held \ {on[c]} ELSE held
  /\ Use(c, on[c])
  /\ CallBack(c)
  /\ UNCHANGED <<sessVars, platform, home, closed, op, on, plat, era, refused>>

(* Target.closeTarget answered: remove_context() deletes whatever is cached for
   the platform.  After an error the context stays, closed. *)
CloseReply(c, ok) ==
  /\ Awaits(c, "close")
  /\ ok => CanSucceed(c)
  /\ IF ok
     THEN LET p == platform[on[c]]
          IN /\ contexts' = [contexts EXCEPT ![p] = Null]
             /\ Destroy(Cached(p))
             /\ held' = held \ {on[c]}
             /\ Use(c, on[c])
     ELSE UNCHANGED <<contexts, object, alive, held, fault>>
  /\ CallBack(c)
  /\ UNCHANGED <<sessVars, platform, home, closed, op, on, plat, era, refused>>

(* The operations of one command.  click(), type(), scroll(), hover() and
   exists() look at closed_; navigate(), evaluate(), add_init_script(),
   current_url(), screenshot() and send_command() do not. *)
OneCommand(c, x, checks) ==
  /\ Begin(c, "simple", x)
  /\ IF checks /\ closed[x] THEN CallBack(c) ELSE Goto(c, "simple")
  /\ UNCHANGED <<sessVars, cacheVars, plat, held, refused>>

OneCommandReply(c) ==
  /\ Awaits(c, "simple")
  /\ CallBack(c)
  /\ UNCHANGED <<sessVars, cacheVars, op, on, plat, era, held, refused, fault>>

press_key(c, x) ==
  /\ Begin(c, "press_key", x)
  /\ IF closed[x] THEN CallBack(c) ELSE Goto(c, "down")
  /\ UNCHANGED <<sessVars, cacheVars, plat, held, refused>>

(* keyDown is answered: keyUp is sent through this->manager_. *)
KeyDownReply(c, ok) ==
  /\ Awaits(c, "down")
  /\ ok => CanSucceed(c)
  /\ IF ok THEN Use(c, on[c]) /\ Goto(c, "up")
           ELSE CallBack(c) /\ UNCHANGED fault
  /\ UNCHANGED <<sessVars, cacheVars, op, on, plat, era, held, refused>>

KeyUpReply(c) ==
  /\ Awaits(c, "up")
  /\ CallBack(c)
  /\ UNCHANGED <<sessVars, cacheVars, op, on, plat, era, held, refused, fault>>

wait_for_selector(c, x) ==
  /\ Begin(c, "wait_for_selector", x)
  /\ IF closed[x] THEN CallBack(c) ELSE Goto(c, "check")
  /\ UNCHANGED <<sessVars, cacheVars, plat, held, refused>>

(* *check: it reads closed_ of its context, then the clock.  A closed context
   ends the wait without a callback. *)
Check(c, late) ==
  /\ Use(c, on[c])
  /\ IF closed[on[c]] THEN Goto(c, "end")
     ELSE IF late THEN CallBack(c) ELSE Goto(c, "eval")

(* The posted check. *)
RunCheck(c, late) ==
  /\ Awaits(c, "check")
  /\ Check(c, late)
  /\ UNCHANGED <<sessVars, cacheVars, op, on, plat, era, held, refused>>

(* Mutant of EvalFound: the wait goes on after on_found. *)
EvalFound_GoOn(c) ==
  /\ Awaits(c, "eval")
  /\ CanSucceed(c)
  /\ cbs' = [cbs EXCEPT ![c] = @ + 1]
  /\ UNCHANGED <<sessVars, cacheVars, op, pc, on, plat, era, stale, held, refused, fault>>

EvalFound(c) ==
  /\ Awaits(c, "eval")
  /\ CanSucceed(c)
  /\ CallBack(c)
  /\ UNCHANGED <<sessVars, cacheVars, op, on, plat, era, held, refused, fault>>

(* The element is not there yet, or the command failed: check again. *)
EvalAgain(c, late) ==
  /\ Awaits(c, "eval")
  /\ Check(c, late)
  /\ UNCHANGED <<sessVars, cacheVars, op, on, plat, era, held, refused>>

after(c, x) ==
  /\ Begin(c, "after", x)
  /\ alive' = [alive EXCEPT ![c] = TRUE]
  /\ Goto(c, "timer")
  /\ UNCHANGED <<sessVars, contexts, object, platform, home, closed, plat, held, refused>>

(* The timer fires: the callback is called only if the guard is up. *)
AfterFires(c) ==
  /\ Awaits(c, "timer")
  /\ IF alive[c] THEN CallBack(c) ELSE Goto(c, "end")
  /\ UNCHANGED <<sessVars, cacheVars, op, on, plat, era, held, refused, fault>>

(***************************************************************************)
(* stop() and the next start().                                            *)
(***************************************************************************)
(* Calls that wait for a reply or a posted check. *)
Waiting == {c \in Calls : pc[c] \notin {"idle", "timer", "end", "lost"}}

(* contexts_.clear(), and the scheduler closes the timers.  Of the calls that
   wait, those in S have their check or their reply in the post queue, which
   stays; the others will not be answered. *)
stop ==
  /\ Running /\ started
  /\ started' = FALSE
  /\ contexts' = [p \in Platforms |-> Null]
  /\ Destroy(UNION {Cached(p) : p \in Platforms})
  /\ held' = {}
  /\ \E S \in SUBSET Waiting :
       /\ stale \cup {c \in Calls : pc[c] = "check"} \subseteq S
       /\ stale' = S
       /\ pc' = [c \in Calls |-> IF pc[c] = "timer" \/ c \in Waiting \ S THEN "lost" ELSE pc[c]]
  /\ UNCHANGED <<session, platform, home, closed, op, on, plat, era, cbs, refused, fault>>

(* start(), up to the end of a launch that succeeds: nothing of the contexts,
   of pending_ or of the post queue is reset. *)
start ==
  /\ Running /\ ~started
  /\ session < MaxSessions
  /\ started' = TRUE
  /\ session' = session + 1
  /\ UNCHANGED <<cacheVars, callVars, held, refused, fault>>

(***************************************************************************)
(* The specification.                                                      *)
(***************************************************************************)
Reply(c) ==
  \/ (\E ok \in BOOLEAN : CreateReply(c, ok) \/ AttachReply(c, ok)
                          \/ CloseReply(c, ok) \/ KeyDownReply(c, ok))
  \/ ScriptReply(c) \/ ScriptRefused(c) \/ CookiesReply(c)
  \/ OneCommandReply(c) \/ KeyUpReply(c) \/ EvalFound(c)
  \/ (\E late \in BOOLEAN : RunCheck(c, late) \/ EvalAgain(c, late))
  \/ AfterFires(c)

Next ==
  \/ stop \/ start
  \/ (\E c \in Calls :
        \/ (\E p \in Platforms, k \in Gets : do_get_context(c, k, p))
        \/ RestoreNothing(c)
        \/ Reply(c)
        \/ (\E x \in held :
              \/ close(c, x) \/ press_key(c, x) \/ wait_for_selector(c, x) \/ after(c, x)
              \/ (\E checks \in BOOLEAN : OneCommand(c, x, checks))))

Spec == Init /\ [][Next]_vars

(* Chrome answers every command, the loop is turned, timers fire, and time
   passes: a wait that goes on is late in the end. *)
FairSpec ==
  /\ Spec
  /\ \A c \in Calls : WF_vars(Reply(c)) /\ WF_vars(EvalAgain(c, TRUE))

(***************************************************************************)
(* Properties.                                                             *)
(***************************************************************************)
(* get_context() and close(): a context of this session the application was
   given is the one cached for its platform, and is not deleted behind its back,
   until a close() of it has succeeded or stop() is called. *)
HeldAlive ==
  \A x \in held : home[x] = session => object[x] = "cached" /\ contexts[platform[x]] = x

(* No call, and no callback that press_key(), wait_for_selector() or close() has
   left with the manager or the scheduler, uses a context that was deleted. *)
NoDanglingThis == fault = Null

(* Where *this dangles: only in a context of an earlier session, or in the
   callback of a press_key() or wait_for_selector() that was pending when its
   context was closed.  Within a session neither the application's own calls,
   nor two close() of one context, nor close() and get_context() together use a
   deleted context. *)
DanglesOnlyClosed ==
  fault # Null =>
    \/ home[on[fault]] < session
    \/ closed[on[fault]] /\ op[fault] \in {"press_key", "wait_for_selector"}

(* contexts_ holds contexts of the current session only: what stop() made
   invalid does not come back. *)
CachedOfSession == \A p \in Platforms : contexts[p] # Null => home[contexts[p]] = session

(* A call calls back at most once: on_done and on_error, on_found and
   on_timeout exclude each other. *)
CallsBackOnce == \A c \in Calls : cbs[c] <= 1

(* after(): the callback is not called once the context has been deleted. *)
AfterGuarded ==
  [][\A c \in Calls : op[c] = "after" /\ cbs'[c] # cbs[c] => object[on[c]] = "cached"]_vars

(* The inductive invariant behind the theorems of CdpContextProofs, for an
   application without the liberty "concurrent_get".  The cache and the objects
   agree. *)
CacheInv ==
  /\ \A p \in Platforms : contexts[p] # Null =>
       object[contexts[p]] = "cached" /\ platform[contexts[p]] = p
  /\ \A x \in Ctxs : object[x] # "none" => platform[x] \in Platforms
  /\ \A x \in Ctxs : object[x] = "cached" => contexts[platform[x]] = x

(* Contexts and calls belong to this session or an earlier one; stale calls to
   an earlier one, and while there are any, every context does too. *)
SessionInv ==
  /\ \A x \in Ctxs : home[x] <= session
  /\ \A c \in Calls : era[c] <= session
  /\ stale \subseteq Waiting
  /\ started => \A c \in stale : era[c] < session
  /\ started /\ stale # {} => \A x \in Ctxs : home[x] < session
  /\ ~started => held = {} /\ Waiting \subseteq stale

(* A context under construction belongs to one call.  In this session, nothing
   of this session is cached for its platform until the call is through. *)
CreateInv ==
  /\ \A c \in Calls : pc[c] \in {"create", "attach", "script"} =>
       plat[c] \in Platforms /\ op[c] \in Gets
  /\ \A c \in Calls :
       started /\ era[c] = session /\ pc[c] \in {"create", "attach", "script"} =>
         /\ contexts[plat[c]] # Null => home[contexts[plat[c]]] < session
         /\ \A d \in Calls : /\ pc[d] \in {"create", "attach", "script"}
                             /\ era[d] = session /\ plat[d] = plat[c]
                             => d = c
  /\ \A c \in Calls : pc[c] = "script" =>
       /\ on[c] \in Ctxs /\ object[on[c]] = "raw" /\ platform[on[c]] = plat[c]
       /\ home[on[c]] = era[c]
       /\ \A d \in Calls : pc[d] = "script" /\ on[d] = on[c] => d = c

(* A context of this session that a callback will use is cached or, under a
   press_key() or wait_for_selector(), closed; one that is being closed is cached,
   and is closed by one call only. *)
UseInv ==
  /\ \A c \in Calls : pc[c] \in {"down", "check", "eval", "close"} =>
       /\ on[c] \in Ctxs /\ object[on[c]] \in {"cached", "deleted"}
       /\ era[c] = home[on[c]]
  /\ \A c \in Calls : pc[c] = "down" => op[c] = "press_key"
  /\ \A c \in Calls : pc[c] \in {"check", "eval"} => op[c] = "wait_for_selector"
  /\ \A c \in Calls :
       started /\ era[c] = session /\ pc[c] \in {"down", "check", "eval"} =>
         object[on[c]] = "cached" \/ closed[on[c]]
  /\ \A c \in Calls : started /\ era[c] = session /\ pc[c] = "close" =>
       /\ object[on[c]] = "cached" /\ closed[on[c]]
       /\ \A d \in Calls : pc[d] = "close" /\ on[d] = on[c] => d = c

(* A call has not called back before its end; a guard is up only while its
   context is cached, up to the use of a deleted context, where the program
   ends; an object under construction is neither closed nor
   handed out. *)
CallInv ==
  /\ \A c \in Calls : cbs[c] <= 1 /\ (pc[c] # "end" => cbs[c] = 0)
  /\ \A c \in Calls : pc[c] = "idle" => op[c] = "none"
  /\ \A c \in Calls : alive[c] /\ fault = Null =>
       op[c] = "after" /\ on[c] \in Ctxs /\ object[on[c]] = "cached"
  /\ \A c \in Calls : op[c] = "after" => pc[c] \in {"timer", "end", "lost"}
  /\ \A c \in Calls : pc[c] = "timer" => op[c] = "after"
  /\ \A x \in Ctxs : closed[x] \/ x \in held => object[x] \in {"cached", "deleted"}

ContextInv ==
  /\ CacheInv /\ SessionInv /\ CreateInv /\ UseInv /\ CallInv
  /\ HeldAlive /\ DanglesOnlyClosed

(* Every call calls back, unless stop() is called, or the application's context
   is deleted under its timer or closed under its wait, or Chrome refuses the
   stealth script. *)
Answered ==
  \A c \in Calls :
    pc[c] \notin {"idle", "end", "lost"} ~>
      \/ cbs[c] = 1 \/ ~started \/ fault # Null \/ c \in refused
      \/ op[c] = "after" /\ object[on[c]] = "deleted"
      \/ op[c] = "wait_for_selector" /\ closed[on[c]]
=============================================================================
