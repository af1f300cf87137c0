-------------------------- MODULE CdpManagerProofs --------------------------
(***************************************************************************)
(* The life cycle of CdpBrowserManager, for any number of launches and     *)
(* commands: no Chrome process is orphaned, stop() is final, and the       *)
(* manager is ready only on an opened connection.  The theorems hold for   *)
(* an application that waits for a launch to end before it calls start()   *)
(* or stop() again: a second start() while a launch is under way forgets   *)
(* the process of the first.                                               *)
(***************************************************************************)
EXTENDS CdpManager, TLAPS

USE DEF vars, lifeVars, connVars, cmdVars

(* The application leaves a launch alone. *)
Patient == {"start_while_launching", "stop_while_launching"} \cap AppMay = {}

(* Nothing is launched or connected yet. *)
LEMMA ManagerInit == Init => ManagerInv
<1> SUFFICES ASSUME Init PROVE ManagerInv
  OBVIOUS
<1> USE BoundAssumption DEF Init, NoProc, Launching, Unreaped
<1>1. ManagerType BY DEF ManagerType, TypeLife, Launches
<1>2. OneLaunch /\ PidKnown BY DEF OneLaunch, PidKnown, NoOrphan
<1>3. SessionOnly /\ ReadyMeansOpened /\ StopEndsAll
  BY DEF SessionOnly, ReadyMeansOpened, StopEndsAll
<1>4. QED BY <1>1, <1>2, <1>3 DEF ManagerInv

(* Each action of the specification preserves ManagerInv; most leave alone the
   state it is about. *)
LEMMA ManagerNext == Patient /\ ManagerInv /\ [Next]_vars => ManagerInv'
<1> SUFFICES ASSUME Patient, ManagerInv, [Next]_vars PROVE ManagerInv'
  OBVIOUS
<1> USE BoundAssumption DEF NoProc, Launches
<1> USE DEF ManagerInv, ManagerType, TypeLife, OneLaunch, PidKnown, NoOrphan,
            SessionOnly, ReadyMeansOpened, StopEndsAll, Launching, Unreaped
<1>1. CASE start
  <2>1. Launching = {} BY <1>1 DEF start, Patient
  <2>2. pid = NoProc /\ Unreaped = {} BY <1>1, <2>1 DEF start
  <2>3. ManagerType'
    <3>1. signalled' \in BOOLEAN /\ ws_ready' \in BOOLEAN
      BY <1>1 DEF start, ResetChannel
    <3>2. /\ proc' \in [Launches -> {"none", "alive", "zombie", "reaped"}]
          /\ pid' \in Launches \cup {NoProc}
      BY <1>1 DEF start, KillChrome
    <3>3. nlaunch' \in 0..MaxLaunches /\ nlaunch + 1 \in Launches BY <1>1 DEF start
    <3>4. launch' \in [Launches -> {"none", "queued", "waiting", "ok", "failed", "done"}]
      BY <1>1, <3>3 DEF start
    <3>5. QED BY <1>1, <3>1, <3>2, <3>3, <3>4 DEF start
  <2>4. OneLaunch' BY <1>1, <2>1 DEF start
  <2>5. PidKnown' BY <1>1, <2>1, <2>2 DEF start, KillChrome
  <2>6. SessionOnly' BY <1>1, <2>1 DEF start, ResetChannel
  <2>7. ReadyMeansOpened' /\ StopEndsAll' BY <1>1 DEF start
  <2>8. QED BY <2>3, <2>4, <2>5, <2>6, <2>7
<1>2. CASE stop
  <2>1. Launching = {} BY <1>2 DEF stop, Patient
  <2>2. Finished = {} /\ launch' = launch BY <1>2, <2>1 DEF stop, Finished
  <2>3. conn' \in {"idle", "left"} /\ peer' = peer
    BY <1>2, <2>1 DEF stop, WsStopped, AfterLastTurn
  <2>4. pid' = NoProc /\ Unreaped' = {} BY <1>2 DEF stop, KillChrome
  <2>5. ManagerType'
    <3>1. /\ proc' \in [Launches -> {"none", "alive", "zombie", "reaped"}]
          /\ pid' \in Launches \cup {NoProc}
      BY <1>2 DEF stop, KillChrome
    <3>2. QED BY <1>2, <2>2, <2>3, <3>1 DEF stop
  <2>6. OneLaunch' BY <1>2, <2>1, <2>2 DEF stop
  <2>7. PidKnown' BY <1>2, <2>2, <2>4 DEF stop, KillChrome
  <2>8. SessionOnly' BY <1>2, <2>1, <2>2, <2>3 DEF stop
  <2>9. ReadyMeansOpened' /\ StopEndsAll' BY <1>2, <2>3, <2>4 DEF stop
  <2>10. QED BY <2>5, <2>6, <2>7, <2>8, <2>9
<1>3. CASE StopIgnored
  <2>1. Launching = {} BY <1>3 DEF StopIgnored, Patient
  <2>2. ~started /\ pid = NoProc /\ Unreaped = {} BY <1>3, <2>1 DEF StopIgnored
  <2>3. ManagerType' /\ OneLaunch' /\ PidKnown' BY <1>3 DEF StopIgnored
  <2>4. SessionOnly' /\ ReadyMeansOpened' /\ StopEndsAll'
    BY <1>3, <2>1, <2>2 DEF StopIgnored
  <2>5. QED BY <2>3, <2>4
<1>4. CASE health_check BY <1>4 DEF health_check
<1>5. CASE send_command BY <1>5 DEF send_command
<1>6. CASE RunOpen BY <1>6 DEF RunOpen, NextPost, PopPost
<1>7. ASSUME NEW more \in BOOLEAN, RunReply(more) PROVE ManagerInv'
  BY <1>7 DEF RunReply, NextPost, PopPost
<1>8. CASE WsOpen BY <1>8 DEF WsOpen, Post
<1>9. CASE WsFail BY <1>9 DEF WsFail
<1>10. CASE WsDrop BY <1>10 DEF WsDrop
<1>11. ASSUME NEW c \in wire, ChromeReply(c) PROVE ManagerInv'
  BY <1>11 DEF ChromeReply, Post
<1>12. ASSUME NEW l \in Launches, LaunchNoProcess(l) PROVE ManagerInv'
  BY <1>12 DEF LaunchNoProcess
<1>13. ASSUME NEW l \in Launches, LaunchFork(l) PROVE ManagerInv'
  <2>1. ~started /\ pid = NoProc /\ Unreaped = {} BY <1>13 DEF LaunchFork
  <2>2. QED BY <1>13, <2>1 DEF LaunchFork
<1>14. ASSUME NEW l \in Launches, LaunchUrl(l) PROVE ManagerInv'
  BY <1>14 DEF LaunchUrl
<1>15. ASSUME NEW l \in Launches, LaunchGiveUp(l) PROVE ManagerInv'
  BY <1>15 DEF LaunchGiveUp
<1>16. ASSUME NEW l \in Launches, LaunchDone(l) PROVE ManagerInv'
  <2>1. ~started /\ conn \in {"idle", "left"} /\ l = nlaunch /\ wanted
    BY <1>16 DEF LaunchDone, Finished
  <2>2. Launching' = {} BY <1>16, <2>1 DEF LaunchDone
  <2>3. conn' \in {"idle", "left", "connecting", "open"} /\ peer' \in Launches \cup {NoProc}
    BY <1>16, <2>1 DEF LaunchDone, AfterWsStart
  <2>4. launch[l] = "failed" => conn' = conn /\ started' = started /\ pid = NoProc
    BY <1>16, <2>1 DEF LaunchDone
  <2>5. launch[l] = "ok" => started' BY <1>16 DEF LaunchDone
  <2>6. QED BY <1>16, <2>1, <2>2, <2>3, <2>4, <2>5 DEF LaunchDone, Finished
<1>17. ASSUME NEW l \in Launches, ChromeDies(l) PROVE ManagerInv'
  BY <1>17 DEF ChromeDies
<1>18. CASE UNCHANGED vars BY <1>18
<1> HIDE DEF ManagerInv
<1>19. QED
  BY <1>1, <1>2, <1>3, <1>4, <1>5, <1>6, <1>7, <1>8, <1>9, <1>10, <1>11, <1>12, <1>13,
     <1>14, <1>15, <1>16, <1>17, <1>18 DEF Next

(* ManagerInv is an invariant of the manager. *)
THEOREM ManagerInvariant == ASSUME Patient PROVE Spec => []ManagerInv
<1>1. Init => ManagerInv BY ManagerInit
<1>2. ManagerInv /\ [Next]_vars => ManagerInv' BY Patient, ManagerNext
<1>3. QED BY <1>1, <1>2, PTL DEF Spec

(* chrome_pid_ names every Chrome process that was started and not waited for,
   through failed launches, crashes, stop() and restart. *)
THEOREM ProcessesAccounted == ASSUME Patient PROVE Spec => []NoOrphan
<1>1. ManagerInv => NoOrphan BY DEF ManagerInv, PidKnown
<1>2. QED BY <1>1, ManagerInvariant, PTL

(* stop() is final: no Chrome and no WebSocket thread runs until start(). *)
THEOREM StopIsFinal == ASSUME Patient PROVE Spec => []StopEndsAll
<1>1. ManagerInv => StopEndsAll BY DEF ManagerInv
<1>2. QED BY <1>1, ManagerInvariant, PTL

(* Commands are written to the socket directly only after it was opened, stale
   Open callbacks left in the post queue by an earlier session included. *)
THEOREM ReadyOnOpenSocket == ASSUME Patient PROVE Spec => []ReadyMeansOpened
<1>1. ManagerInv => ReadyMeansOpened BY DEF ManagerInv
<1>2. QED BY <1>1, ManagerInvariant, PTL
=============================================================================
