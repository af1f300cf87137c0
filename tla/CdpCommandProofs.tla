-------------------------- MODULE CdpCommandProofs --------------------------
(***************************************************************************)
(* The commands of CdpBrowserManager, for any number of launches and       *)
(* commands: each callback is called with its own reply and at most once,  *)
(* commands are sent in the order in which they were issued, and the       *)
(* manager implements CommandChannel.  Like the theorems of                *)
(* CdpManagerProofs, whose invariant they rest on, these are about an      *)
(* application that leaves a launch alone until it has ended.              *)
(***************************************************************************)
EXTENDS CdpManagerProofs

USE DEF vars, lifeVars, connVars, cmdVars

(***************************************************************************)
(* What the sequences of the model hold after Append, Tail and \o.         *)
(***************************************************************************)
(* Append adds one element, at the end. *)
LEMMA AppendElems ==
  ASSUME NEW S, NEW s \in Seq(S), NEW e \in S
  PROVE  /\ Append(s, e) \in Seq(S)
         /\ \A i \in DOMAIN s : i \in DOMAIN Append(s, e) /\ Append(s, e)[i] = s[i]
         /\ Len(s) + 1 \in DOMAIN Append(s, e) /\ Append(s, e)[Len(s) + 1] = e
         /\ \A i \in DOMAIN Append(s, e) : i \in Nat /\ (i \in DOMAIN s \/ i = Len(s) + 1)
         /\ \A i \in DOMAIN s : i \in Nat /\ i < Len(s) + 1
OBVIOUS

(* Tail drops the head and keeps the order of the rest. *)
LEMMA TailElems ==
  ASSUME NEW S, NEW s \in Seq(S), s # <<>>
  PROVE  /\ Tail(s) \in Seq(S)
         /\ Head(s) = s[1] /\ 1 \in DOMAIN s /\ Head(s) \in S
         /\ \A i \in DOMAIN Tail(s) :
              i \in Nat /\ i > 0 /\ i + 1 \in DOMAIN s /\ Tail(s)[i] = s[i + 1]
OBVIOUS

(* s \o t is s followed by t. *)
LEMMA ConcatElems ==
  ASSUME NEW S, NEW s \in Seq(S), NEW t \in Seq(S)
  PROVE  /\ s \o t \in Seq(S) /\ Len(s) \in Nat
         /\ \A i \in DOMAIN s : i \in Nat /\ i \in DOMAIN (s \o t) /\ (s \o t)[i] = s[i]
         /\ \A i \in DOMAIN s : i <= Len(s)
         /\ \A i \in DOMAIN t :
              /\ i \in Nat /\ i > 0
              /\ Len(s) + i \in DOMAIN (s \o t) /\ (s \o t)[Len(s) + i] = t[i]
         /\ \A i \in DOMAIN (s \o t) : i \in Nat /\
              (i \in DOMAIN s \/ (i - Len(s) \in DOMAIN t /\ i = Len(s) + (i - Len(s))))
<1>1. /\ s \o t \in Seq(S) /\ Len(s \o t) = Len(s) + Len(t)
      /\ Len(s) \in Nat /\ Len(t) \in Nat
  OBVIOUS
<1>2. /\ DOMAIN s = 1..Len(s) /\ DOMAIN t = 1..Len(t)
      /\ DOMAIN (s \o t) = 1..(Len(s) + Len(t))
  BY <1>1
<1>3. \A i \in 1..(Len(s) + Len(t)) :
        (s \o t)[i] = IF i <= Len(s) THEN s[i] ELSE t[i - Len(s)]
  OBVIOUS
<1>4. \A i \in 1..Len(t) : (s \o t)[Len(s) + i] = t[i] BY <1>1, <1>3
<1>5. QED BY <1>1, <1>2, <1>3, <1>4

(* The tokens of a sequence of commands. *)
LEMMA TokenElems ==
  ASSUME NEW s \in Seq(Cmds)
  PROVE  /\ [i \in DOMAIN s |-> s[i].tok] \in Seq(Tokens)
         /\ DOMAIN [i \in DOMAIN s |-> s[i].tok] = DOMAIN s
         /\ \A i \in DOMAIN s : [j \in DOMAIN s |-> s[j].tok][i] = s[i].tok
<1>1. DOMAIN s = 1..Len(s) /\ Len(s) \in Nat OBVIOUS
<1>2. \A i \in 1..Len(s) : s[i] \in Cmds OBVIOUS
<1>3. \A i \in 1..Len(s) : s[i].tok \in Tokens BY <1>2 DEF Cmds
<1>4. QED BY <1>1, <1>3

(* What ws_.sendText() of the commands of s adds to sent: their tokens, in the
   order of s. *)
LEMMA SentElems ==
  ASSUME NEW s \in Seq(Cmds), sent \in Seq(Tokens), SendText(s)
  PROVE  /\ sent' \in Seq(Tokens) /\ Len(sent) \in Nat
         /\ \A i \in DOMAIN sent : i \in Nat /\ i \in DOMAIN sent' /\ sent'[i] = sent[i]
         /\ \A i \in DOMAIN sent : i <= Len(sent)
         /\ \A i \in DOMAIN s :
              /\ i \in Nat /\ i > 0
              /\ Len(sent) + i \in DOMAIN sent' /\ sent'[Len(sent) + i] = s[i].tok
         /\ \A i \in DOMAIN sent' : i \in Nat /\
              (i \in DOMAIN sent \/ \E k \in DOMAIN s : i = Len(sent) + k)
<1> DEFINE t == [i \in DOMAIN s |-> s[i].tok]
<1>1. t \in Seq(Tokens) /\ DOMAIN t = DOMAIN s /\ \A i \in DOMAIN s : t[i] = s[i].tok
  BY TokenElems
<1>2. sent' = sent \o t BY DEF SendText, Toks
<1> HIDE DEF t
<1>3. QED BY <1>1, <1>2, ConcatElems

(***************************************************************************)
(* The inductive step.                                                     *)
(***************************************************************************)
(* A step of a launch, of Chrome or of the socket that posts nothing and issues
   no command. *)
Aside ==
  /\ UNCHANGED <<nlaunch, posts, signalled, ws_ready, cmd_id, pending, queued, ntok,
                 nopen, born, sent, calls, peer>>
  /\ wire' \subseteq wire
  /\ Launching' \subseteq Launching
  /\ conn' \in {conn, "ended"}

(* The actions that touch commands or posts, and the rest. *)
LEMMA Steps ==
  ASSUME TypeLife, [Next]_vars
  PROVE  \/ start \/ stop \/ send_command \/ RunOpen \/ WsOpen
         \/ \E more \in BOOLEAN : RunReply(more)
         \/ \E c \in wire : ChromeReply(c)
         \/ \E l \in Launches : LaunchDone(l)
         \/ Aside
<1> USE DEF Aside, Launching
<1>1. CASE StopIgnored BY <1>1 DEF StopIgnored
<1>2. CASE health_check BY <1>2 DEF health_check
<1>3. CASE WsFail BY <1>3 DEF WsFail
<1>4. CASE WsDrop BY <1>4 DEF WsDrop
<1>5. ASSUME NEW l \in Launches, LaunchNoProcess(l) PROVE Aside
  BY <1>5 DEF LaunchNoProcess, TypeLife
<1>6. ASSUME NEW l \in Launches, LaunchFork(l) PROVE Aside
  BY <1>6 DEF LaunchFork, TypeLife
<1>7. ASSUME NEW l \in Launches, LaunchUrl(l) PROVE Aside
  BY <1>7 DEF LaunchUrl, TypeLife
<1>8. ASSUME NEW l \in Launches, LaunchGiveUp(l) PROVE Aside
  BY <1>8 DEF LaunchGiveUp, TypeLife
<1>9. ASSUME NEW l \in Launches, ChromeDies(l) PROVE Aside
  BY <1>9 DEF ChromeDies
<1>10. CASE UNCHANGED vars BY <1>10
<1> HIDE DEF Aside
<1>11. QED
  BY <1>1, <1>2, <1>3, <1>4, <1>5, <1>6, <1>7, <1>8, <1>9, <1>10 DEF Next

(* Nothing is issued or posted yet. *)
LEMMA CommandInit == Init => CommandInv
<1> SUFFICES ASSUME Init PROVE CommandInv OBVIOUS
<1> USE BoundAssumption DEF Init, NoProc
<1>1. TypeConn /\ TypeCmd BY DEF TypeConn, TypeCmd, Tokens
<1>2. OpensOfLaunches BY DEF OpensOfLaunches, Launching
<1>3. IssuedOnly BY DEF IssuedOnly
<1>4. UncalledPending BY DEF UncalledPending
<1>5. CallbacksOwnOnce BY DEF CallbacksOwnOnce
<1>6. QueuedAfterSent BY DEF QueuedAfterSent, Tokens
<1>7. QED BY <1>1, <1>2, <1>3, <1>4, <1>5, <1>6 DEF CommandInv

(* The next command is within the bounds, whoever issues it. *)
LEMMA NextCmdTyped ==
  ASSUME CommandInv, nopen < MaxLaunches \/ MoreCmds, nlaunch \in 0..MaxLaunches
  PROVE  /\ NextCmd \in Cmds /\ NextCmd.id = cmd_id /\ NextCmd.tok = ntok + 1
         /\ ntok + 1 \in Tokens /\ ntok \in Nat /\ cmd_id = ntok
         /\ cmd_id \in DOMAIN pending /\ cmd_id + 1 \in 0..(MaxCmds + MaxLaunches)
<1>1. /\ ntok \in Nat /\ nopen \in Nat /\ cmd_id = ntok
      /\ ntok <= MaxCmds + nopen /\ nopen <= nlaunch
  BY BoundAssumption DEF CommandInv, TypeCmd, OpensOfLaunches, IssuedOnly
<1>2. ntok + 1 \in 1..(MaxCmds + MaxLaunches) BY <1>1, BoundAssumption DEF MoreCmds
<1>3. DOMAIN pending = 0..(MaxCmds + MaxLaunches) BY DEF CommandInv, TypeCmd
<1>4. QED BY <1>1, <1>2, <1>3, BoundAssumption DEF NextCmd, Cmds, Tokens

(* The first post, and what is left of the queue when it has been taken. *)
LEMMA PostTaken ==
  ASSUME TypeConn, NEW k, NextPost(k), PopPost
  PROVE  /\ posts' \in Seq(Events)
         /\ 1 \in DOMAIN posts /\ posts[1] \in Events /\ posts[1].kind = k
         /\ Head(posts) = posts[1]
         /\ \A i \in DOMAIN posts' :
              i \in Nat /\ i > 0 /\ i + 1 \in DOMAIN posts /\ posts'[i] = posts[i + 1]
         /\ signalled' \in BOOLEAN
<1>1. posts \in Seq(Events) /\ posts # <<>> BY DEF TypeConn, NextPost
<1>2. QED BY <1>1, TailElems DEF NextPost, PopPost

(* What a post adds to the queue. *)
LEMMA PostAdded ==
  ASSUME TypeConn, NEW e \in Events, posts' = Append(posts, e)
  PROVE  /\ posts' \in Seq(Events)
         /\ \A i \in DOMAIN posts : i \in Nat /\ i < Len(posts) + 1
         /\ \A i \in DOMAIN posts' :
              \/ i \in DOMAIN posts /\ posts'[i] = posts[i]
              \/ i = Len(posts) + 1 /\ posts'[i] = e
         /\ Len(posts) + 1 \in Nat
BY AppendElems DEF TypeConn

(* The counters and the issued commands, when NextCmd is issued. *)
CommandIssued == /\ cmd_id' = ntok' /\ ntok' = ntok + 1
                 /\ ntok' \in Tokens /\ ntok \in Nat
                 /\ born' \in [Tokens -> Launches \cup {0}]
                 /\ \A t \in Tokens : born'[t] = IF t = ntok + 1 THEN nlaunch ELSE born[t]

LEMMA Registered ==
  ASSUME CommandInv, nopen < MaxLaunches \/ MoreCmds, nlaunch \in 0..MaxLaunches,
         Register(NextCmd)
  PROVE  CommandIssued
<1>1. ntok + 1 \in Tokens /\ ntok \in Nat /\ cmd_id = ntok /\ NextCmd.tok = ntok + 1
  BY NextCmdTyped
<1>2. nlaunch \in Launches \cup {0} BY BoundAssumption DEF Launches
<1>3. born \in [Tokens -> Launches \cup {0}] BY DEF CommandInv, TypeCmd
<1>4. QED BY <1>1, <1>2, <1>3 DEF Register, CommandIssued

(* What was sent was issued. *)
LEMMA SentBounded ==
  ASSUME CommandInv PROVE \A i \in DOMAIN sent : sent[i] \in Nat /\ sent[i] <= ntok
<1>1. sent \in Seq(Tokens) BY DEF CommandInv, TypeCmd
<1>2. \A i \in DOMAIN sent : sent[i] \in Tokens BY <1>1
<1>3. Tokens \subseteq Nat BY BoundAssumption DEF Tokens
<1>4. QED BY <1>2, <1>3 DEF CommandInv, QueuedAfterSent

(* No command is of a launch to come. *)
LEMMA BornBounded ==
  ASSUME CommandInv, CommandIssued, nlaunch \in Nat
  PROVE  \A t \in Tokens : born'[t] <= nlaunch
<1>1. \A t \in Tokens : born[t] <= nlaunch BY DEF CommandInv, QueuedAfterSent
<1>2. nlaunch <= nlaunch OBVIOUS
<1>3. QED BY <1>1, <1>2 DEF CommandIssued

(* send_command() when the socket is ready, and when it is not. *)
LEMMA CommandQueued ==
  ASSUME CommandInv, MoreCmds, nlaunch \in 0..MaxLaunches,
         Register(NextCmd), QueueOrSend(NextCmd), UNCHANGED <<ws_ready, nlaunch>>
  PROVE  /\ queued' \in Seq(Cmds) /\ wire' \subseteq Cmds /\ sent' \in Seq(Tokens)
         /\ \A c \in wire' : Issued(c)'
         /\ \A i \in DOMAIN queued' : Issued(queued[i])'
         /\ QueuedAfterSent'
<1>0. PICK c \in Cmds : c = NextCmd BY NextCmdTyped
<1>1. c \in Cmds /\ c.id = cmd_id /\ c.tok = ntok + 1 /\ cmd_id = ntok BY <1>0, NextCmdTyped
<1>2. CommandIssued BY Registered
<1>3. /\ queued \in Seq(Cmds) /\ wire \subseteq Cmds /\ sent \in Seq(Tokens)
      /\ nlaunch \in Nat
  BY DEF CommandInv, TypeCmd
<1>4. \A d \in Cmds : Issued(d) => Issued(d)'
  BY <1>1, <1>2 DEF Issued, CommandIssued, Cmds
<1>5. Issued(c)' BY <1>1, <1>2 DEF Issued, CommandIssued
<1>6. CASE ws_ready
  <2>1. SendText(<<c>>) /\ queued' = queued /\ queued = <<>>
    BY <1>0, <1>6 DEF QueueOrSend, CommandInv, QueuedAfterSent
  <2>2. <<c>> \in Seq(Cmds) /\ DOMAIN <<c>> = {1} /\ <<c>>[1] = c BY <1>1
  <2>3. /\ sent' \in Seq(Tokens) /\ Len(sent) \in Nat
        /\ \A i \in DOMAIN sent : i \in Nat /\ i \in DOMAIN sent' /\ sent'[i] = sent[i]
        /\ \A i \in DOMAIN sent : i <= Len(sent)
        /\ Len(sent) + 1 \in DOMAIN sent' /\ sent'[Len(sent) + 1] = ntok + 1
        /\ \A i \in DOMAIN sent' : i \in Nat /\ (i \in DOMAIN sent \/ i = Len(sent) + 1)
    <3>1. PICK s \in Seq(Cmds) : s = <<c>> BY <2>2
    <3>2. SendText(s) /\ DOMAIN s = {1} /\ s[1].tok = ntok + 1 BY <1>1, <2>1, <2>2, <3>1
    <3>3. QED BY <1>3, <3>2, SentElems
  <2>4. wire' \subseteq wire \cup {c} BY <2>1, <2>2 DEF SendText
  <2>5. /\ \A d \in wire' : Issued(d)'
        /\ \A i \in DOMAIN queued' : Issued(queued[i])'
    BY <1>1, <1>3, <1>4, <1>5, <2>1, <2>4 DEF CommandInv, IssuedOnly
  <2>6. QueuedAfterSent'
    <3>1. \A i \in DOMAIN sent : sent[i] <= ntok /\ sent[i] \in Nat
      BY SentBounded
    <3>2. /\ \A i \in DOMAIN sent' : sent'[i] <= ntok'
          /\ \A i, j \in DOMAIN sent' : i < j => sent'[i] < sent'[j]
      BY <1>2, <2>3, <3>1 DEF CommandInv, QueuedAfterSent, CommandIssued
    <3>3. \A t \in Tokens : born'[t] <= nlaunch
      BY <1>2, <1>3, BornBounded
    <3>4. ASSUME NEW t \in Tokens, t <= ntok', born'[t] = nlaunch
          PROVE  \E i \in DOMAIN sent' : sent'[i] = t
      <4>1. CASE t = ntok + 1 BY <4>1, <2>3
      <4>2. CASE t # ntok + 1
        BY <4>2, <3>4, <1>2, <2>1, <2>3 DEF CommandInv, QueuedAfterSent, CommandIssued, Tokens
      <4>3. QED BY <4>1, <4>2
    <3>5. QED BY <2>1, <3>2, <3>3, <3>4 DEF QueuedAfterSent
  <2>7. QED BY <1>1, <1>3, <2>1, <2>3, <2>4, <2>5, <2>6
<1>7. CASE ~ws_ready
  <2>1. queued' = Append(queued, c) /\ sent' = sent /\ wire' = wire
    BY <1>0, <1>7 DEF QueueOrSend
  <2>2. /\ queued' \in Seq(Cmds) /\ Len(queued) \in Nat
        /\ \A i \in DOMAIN queued : i \in DOMAIN queued' /\ queued'[i] = queued[i]
        /\ \A i \in DOMAIN queued : i \in Nat /\ i < Len(queued) + 1
        /\ Len(queued) + 1 \in DOMAIN queued' /\ queued'[Len(queued) + 1] = c
        /\ \A i \in DOMAIN queued' : i \in Nat /\ (i \in DOMAIN queued \/ i = Len(queued) + 1)
    <3>1. queued' \in Seq(Cmds) /\ Len(queued) \in Nat BY <1>1, <1>3, <2>1
    <3>2. QED BY <1>1, <1>3, <2>1, <3>1, AppendElems
  <2>3. \A i \in DOMAIN queued : queued[i] \in Cmds BY <1>3
  <2>4. /\ \A d \in wire' : Issued(d)'
        /\ \A i \in DOMAIN queued' : Issued(queued[i])'
    BY <1>3, <1>4, <1>5, <2>1, <2>2, <2>3 DEF CommandInv, IssuedOnly
  <2>5. QueuedAfterSent'
    <3>1. \A i \in DOMAIN queued : queued[i].tok <= ntok /\ queued[i].tok \in Nat
      BY <1>1, <1>2, <2>3 DEF CommandInv, IssuedOnly, Issued, Cmds, CommandIssued
    <3>2. \A i, j \in DOMAIN queued' : i < j => queued'[i].tok < queued'[j].tok
      BY <1>1, <1>2, <2>2, <3>1 DEF CommandInv, QueuedAfterSent, CommandIssued
    <3>3. \A i \in DOMAIN sent : sent[i] <= ntok /\ sent[i] \in Nat
      BY SentBounded
    <3>4. \A i \in DOMAIN sent, j \in DOMAIN queued' : sent[i] < queued'[j].tok
      BY <1>1, <1>2, <2>2, <3>3 DEF CommandInv, QueuedAfterSent, CommandIssued
    <3>5. \A t \in Tokens : born'[t] <= nlaunch
      BY <1>2, <1>3, BornBounded
    <3>6. ASSUME NEW t \in Tokens, t <= ntok', born'[t] = nlaunch
          PROVE  \/ \E i \in DOMAIN sent : sent[i] = t
                 \/ \E i \in DOMAIN queued' : queued'[i].tok = t
      <4>1. CASE t = ntok + 1 BY <4>1, <1>1, <2>2
      <4>2. CASE t # ntok + 1
        <5>1. t <= ntok /\ born[t] = nlaunch
          BY <4>2, <3>6, <1>2 DEF CommandIssued, Tokens
        <5>2. QED BY <5>1, <2>2 DEF CommandInv, QueuedAfterSent
      <4>3. QED BY <4>1, <4>2
    <3>7. \A i \in DOMAIN sent : sent[i] <= ntok' BY <1>2, <3>3 DEF CommandIssued
    <3>8. QED BY <1>7, <2>1, <3>2, <3>4, <3>5, <3>6, <3>7 DEF QueuedAfterSent, CommandInv
  <2>6. QED BY <1>3, <2>1, <2>2, <2>4, <2>5
<1>8. QED BY <1>6, <1>7 DEF CommandInv, TypeCmd

(* The Open callback: the waiting commands are sent, then Page.enable. *)
LEMMA OpenSent ==
  ASSUME CommandInv, nopen < MaxLaunches, nlaunch \in 0..MaxLaunches, nlaunch' = nlaunch,
         Register(NextCmd), SendText(OnOpenSends), queued' = <<>>
  PROVE  /\ wire' \subseteq Cmds /\ sent' \in Seq(Tokens)
         /\ \A c \in wire' : Issued(c)'
         /\ QueuedAfterSent'
<1>0. PICK c \in Cmds : c = NextCmd BY NextCmdTyped
<1>1. c \in Cmds /\ c.id = cmd_id /\ c.tok = ntok + 1 /\ cmd_id = ntok
  BY <1>0, NextCmdTyped
<1>2. CommandIssued BY Registered
<1>3. /\ queued \in Seq(Cmds) /\ wire \subseteq Cmds /\ sent \in Seq(Tokens)
      /\ nlaunch \in Nat
  BY DEF CommandInv, TypeCmd
<1>4. \A d \in Cmds : Issued(d) => Issued(d)'
  BY <1>1, <1>2 DEF Issued, CommandIssued, Cmds
<1>5. Issued(c)' BY <1>1, <1>2 DEF Issued, CommandIssued
<1>6. PICK s : s = Append(queued, c) OBVIOUS
<1>7. s \in Seq(Cmds) /\ SendText(s) BY <1>0, <1>3, <1>6 DEF OnOpenSends
<1>8. /\ \A i \in DOMAIN queued : i \in DOMAIN s /\ s[i] = queued[i]
      /\ Len(queued) + 1 \in DOMAIN s /\ s[Len(queued) + 1] = c
      /\ \A i \in DOMAIN s : i \in Nat /\ (i \in DOMAIN queued \/ i = Len(queued) + 1)
      /\ \A i \in DOMAIN queued : i \in Nat /\ i < Len(queued) + 1
  BY <1>1, <1>3, <1>6, AppendElems
<1>9. \A i \in DOMAIN queued : /\ queued[i] \in Cmds /\ Issued(queued[i])
                               /\ queued[i].tok <= ntok /\ queued[i].tok \in Nat
  <2>1. \A i \in DOMAIN queued : queued[i] \in Cmds BY <1>3
  <2>2. QED BY <1>1, <1>2, <2>1 DEF CommandInv, IssuedOnly, Issued, Cmds, CommandIssued
<1>10. /\ sent' \in Seq(Tokens) /\ Len(sent) \in Nat
       /\ \A i \in DOMAIN sent : i \in Nat /\ i \in DOMAIN sent' /\ sent'[i] = sent[i]
       /\ \A i \in DOMAIN sent : i <= Len(sent)
       /\ \A i \in DOMAIN s :
            /\ i \in Nat /\ i > 0
            /\ Len(sent) + i \in DOMAIN sent' /\ sent'[Len(sent) + i] = s[i].tok
       /\ \A i \in DOMAIN sent' : i \in Nat /\
            (i \in DOMAIN sent \/ \E k \in DOMAIN s : i = Len(sent) + k)
  BY <1>3, <1>7, SentElems
<1>11. wire' \subseteq Cmds /\ \A d \in wire' : Issued(d)'
  <2>1. wire' \subseteq wire \cup {s[i] : i \in DOMAIN s} BY <1>7 DEF SendText
  <2>2. \A i \in DOMAIN s : s[i] \in Cmds /\ Issued(s[i])' BY <1>1, <1>4, <1>5, <1>8, <1>9
  <2>3. \A d \in wire : Issued(d)' BY <1>3, <1>4 DEF CommandInv, IssuedOnly
  <2>4. QED BY <1>3, <2>1, <2>2, <2>3
<1>12. /\ \A i, j \in DOMAIN s : i < j => s[i].tok < s[j].tok
       /\ \A i \in DOMAIN s : s[i].tok <= ntok + 1 /\ s[i].tok \in Nat
       /\ \A i \in DOMAIN sent, j \in DOMAIN s : sent[i] < s[j].tok
  <2>1. ntok \in Nat BY <1>2 DEF CommandIssued
  <2>2. \A i \in DOMAIN s : s[i].tok <= ntok + 1 /\ s[i].tok \in Nat
    BY <1>1, <1>8, <1>9, <2>1
  <2>3. \A i, j \in DOMAIN s : i < j => s[i].tok < s[j].tok
    BY <1>1, <1>8, <1>9, <2>1 DEF CommandInv, QueuedAfterSent
  <2>4. \A i \in DOMAIN sent, j \in DOMAIN s : sent[i] < s[j].tok
    BY <1>1, <1>8, <2>1, SentBounded DEF CommandInv, QueuedAfterSent
  <2>5. QED BY <2>2, <2>3, <2>4
<1>13. QueuedAfterSent'
  <2>1. \A i \in DOMAIN sent' : sent'[i] <= ntok'
    BY <1>2, <1>10, <1>12, SentBounded DEF CommandIssued
  <2>2. ASSUME NEW i \in DOMAIN sent', NEW j \in DOMAIN sent', i < j
        PROVE  sent'[i] < sent'[j]
    <3>1. CASE j \in DOMAIN sent
      <4>1. i \in DOMAIN sent BY <2>2, <3>1, <1>10
      <4>2. QED BY <2>2, <3>1, <4>1, <1>10 DEF CommandInv, QueuedAfterSent
    <3>2. CASE j \notin DOMAIN sent
      <4>1. PICK m \in DOMAIN s : j = Len(sent) + m BY <3>2, <1>10
      <4>2. CASE i \in DOMAIN sent BY <4>1, <4>2, <1>10, <1>12
      <4>3. CASE i \notin DOMAIN sent
        <5>1. PICK k \in DOMAIN s : i = Len(sent) + k BY <4>3, <1>10
        <5>2. k < m BY <2>2, <4>1, <5>1, <1>10
        <5>3. QED BY <4>1, <5>1, <5>2, <1>10, <1>12
      <4>4. QED BY <4>2, <4>3
    <3>3. QED BY <3>1, <3>2
  <2>3. \A t \in Tokens : born'[t] <= nlaunch
    BY <1>2, <1>3, BornBounded
  <2>4. ASSUME NEW t \in Tokens, t <= ntok', born'[t] = nlaunch
        PROVE  \E i \in DOMAIN sent' : sent'[i] = t
    <3>1. CASE t = ntok + 1 BY <3>1, <1>1, <1>8, <1>10
    <3>2. CASE t # ntok + 1
      <4>1. t <= ntok /\ born[t] = nlaunch
        BY <3>2, <2>4, <1>2 DEF CommandIssued, Tokens
      <4>2. CASE \E i \in DOMAIN sent : sent[i] = t BY <4>2, <1>10
      <4>3. ASSUME NEW i \in DOMAIN queued, queued[i].tok = t
            PROVE  \E k \in DOMAIN sent' : sent'[k] = t
        BY <4>3, <1>8, <1>10
      <4>4. QED BY <4>1, <4>2, <4>3 DEF CommandInv, QueuedAfterSent
    <3>3. QED BY <3>1, <3>2
  <2>5. QED BY <2>1, <2>2, <2>3, <2>4 DEF QueuedAfterSent
<1>14. QED BY <1>10, <1>11, <1>13

(* An Open event that is about to be handled belongs to a launch, so there are
   fewer Page.enable commands than launches. *)
LEMMA OpenWithinBounds ==
  ASSUME ManagerInv, CommandInv, RunOpen
  PROVE  nopen < MaxLaunches /\ nlaunch \in 0..MaxLaunches /\ nopen < nlaunch
<1>1. /\ nlaunch \in 0..MaxLaunches /\ nopen \in Nat
      /\ TypeConn /\ NextPost("open") /\ PopPost
  BY BoundAssumption DEF ManagerInv, ManagerType, TypeLife, CommandInv, TypeCmd, RunOpen
<1>2. 1 \in DOMAIN posts /\ posts[1].kind = "open" /\ posts[1] \in Events
  BY <1>1, PostTaken
<1>3. posts[1].of \in Launches BY <1>2 DEF Events
<1>4. nopen < posts[1].of /\ posts[1].of <= nlaunch
  BY <1>2 DEF CommandInv, OpensOfLaunches
<1>5. QED BY <1>1, <1>3, <1>4, BoundAssumption DEF Launches

(* Each launch posts at most one Open event, in the order of the launches. *)
LEMMA OpensNext ==
  ASSUME Patient, ManagerInv, CommandInv, [Next]_vars
  PROVE  OpensOfLaunches'
<1> USE BoundAssumption DEF NoProc
<1>1. /\ nlaunch \in 0..MaxLaunches /\ nopen \in Nat /\ ntok \in Nat /\ nlaunch \in Nat
      /\ TypeLife /\ TypeConn /\ OpensOfLaunches
      /\ peer \in Launches \cup {0}
  BY DEF ManagerInv, ManagerType, TypeLife, TypeConn, CommandInv, TypeCmd
<1>2. \A i \in DOMAIN posts : posts[i].kind = "open" => posts[i].of \in Nat
  <2>1. \A i \in DOMAIN posts : posts[i] \in Events BY <1>1 DEF TypeConn
  <2>2. QED BY <2>1 DEF Events, Launches, Cmds
<1>3. CASE start
  <2>1. nlaunch' = nlaunch + 1 /\ UNCHANGED <<nopen, ntok, posts, conn>> BY <1>3 DEF start
  <2>2. conn # "connecting" BY <1>3 DEF start, ManagerInv, SessionOnly
  <2>3. QED BY <1>1, <1>2, <2>1, <2>2 DEF OpensOfLaunches
<1>4. CASE stop
  <2>1. Launching = {} BY <1>4 DEF stop, Patient
  <2>2. Launching' = {} /\ nlaunch' = nlaunch /\ nopen' = nopen /\ ntok' = ntok
    BY <1>1, <1>4, <2>1 DEF stop, Launching, Finished
  <2>3. conn' \in {"idle", "left"}
    BY <1>4, <2>1 DEF stop, WsStopped, AfterLastTurn, Launching
  <2>4. CASE posts' = posts BY <1>1, <1>2, <2>2, <2>3, <2>4 DEF OpensOfLaunches
  <2>5. CASE posts' # posts
    <3>1. conn = "connecting" /\ PeerAlive /\ posts' = Append(posts, [kind |-> "open", of |-> peer])
      BY <1>4, <2>5 DEF stop, WsStopped
    <3>2. peer = nlaunch /\ peer \in Launches BY <1>1, <3>1 DEF OpensOfLaunches, PeerAlive
    <3>3. PICK e \in Events : e = [kind |-> "open", of |-> peer] BY <3>2 DEF Events
    <3>4. e.kind = "open" /\ e.of = nlaunch BY <3>2, <3>3
    <3>5. /\ \A i \in DOMAIN posts : i \in Nat /\ i < Len(posts) + 1
          /\ \A i \in DOMAIN posts' :
               \/ i \in DOMAIN posts /\ posts'[i] = posts[i]
               \/ i = Len(posts) + 1 /\ posts'[i] = e
          /\ Len(posts) + 1 \in Nat
      BY <1>1, <3>1, <3>3, PostAdded
    <3>6. QED BY <1>1, <1>2, <2>2, <2>3, <3>1, <3>4, <3>5 DEF OpensOfLaunches
  <2>6. QED BY <2>4, <2>5
<1>5. CASE send_command
  <2>1. ntok' = ntok + 1 /\ MoreCmds /\ UNCHANGED <<nopen, nlaunch, launch, posts, conn, peer>>
    BY <1>5 DEF send_command, Register
  <2>2. QED BY <1>1, <1>2, <2>1 DEF OpensOfLaunches, MoreCmds, Launching
<1>6. CASE RunOpen
  <2>1. /\ ntok' = ntok + 1 /\ nopen' = nopen + 1
        /\ UNCHANGED <<nlaunch, launch, conn, peer>>
        /\ NextPost("open") /\ PopPost
    BY <1>6 DEF RunOpen, Register
  <2>2. /\ 1 \in DOMAIN posts /\ posts[1].kind = "open"
        /\ \A i \in DOMAIN posts' :
             i \in Nat /\ i > 0 /\ i + 1 \in DOMAIN posts /\ posts'[i] = posts[i + 1]
    BY <1>1, <2>1, PostTaken
  <2>3. conn # "connecting" /\ Launching = {} /\ nopen < nlaunch
    <3>1. signalled BY <2>1 DEF NextPost
    <3>2. QED BY <3>1, <1>6, OpenWithinBounds DEF ManagerInv, SessionOnly, OneLaunch
  <2>4. nopen + 1 <= posts[1].of /\ posts[1].of \in Nat
    BY <1>1, <1>2, <2>2 DEF OpensOfLaunches
  <2>5. ASSUME NEW i \in DOMAIN posts', posts'[i].kind = "open"
        PROVE  nopen' < posts'[i].of /\ posts'[i].of <= nlaunch
    <3>1. posts[1].of < posts[i + 1].of BY <1>1, <2>2, <2>5 DEF OpensOfLaunches
    <3>2. QED BY <1>1, <1>2, <2>1, <2>2, <2>4, <2>5, <3>1 DEF OpensOfLaunches
  <2>6. \A i, j \in DOMAIN posts' :
          i < j /\ posts'[i].kind = "open" /\ posts'[j].kind = "open"
            => posts'[i].of < posts'[j].of
    BY <1>1, <2>2 DEF OpensOfLaunches
  <2>7. Launching' = Launching BY <2>1 DEF Launching
  <2>8. nopen' <= nlaunch' /\ nopen' <= ntok' /\ ntok' <= MaxCmds + nopen'
    BY <1>1, <2>1, <2>3 DEF OpensOfLaunches
  <2>9. QED BY <2>1, <2>3, <2>5, <2>6, <2>7, <2>8 DEF OpensOfLaunches
<1>7. ASSUME NEW more \in BOOLEAN, RunReply(more) PROVE OpensOfLaunches'
  <2>1. /\ ntok' = ntok \/ (MoreCmds /\ ntok' = ntok + 1)
        /\ UNCHANGED <<nopen, nlaunch, launch, conn, peer>>
        /\ NextPost("msg") /\ PopPost
    BY <1>7 DEF RunReply, Register
  <2>2. \A i \in DOMAIN posts' :
          i \in Nat /\ i > 0 /\ i + 1 \in DOMAIN posts /\ posts'[i] = posts[i + 1]
    BY <1>1, <2>1, PostTaken
  <2>3. QED BY <1>1, <1>2, <2>1, <2>2 DEF OpensOfLaunches, MoreCmds, Launching
<1>8. CASE WsOpen
  <2>1. /\ conn = "connecting" /\ PeerAlive /\ conn' = "open"
        /\ posts' = Append(posts, [kind |-> "open", of |-> peer])
        /\ UNCHANGED <<nopen, nlaunch, launch, ntok, peer>>
    BY <1>8 DEF WsOpen, Post
  <2>2. peer = nlaunch /\ peer \in Launches BY <1>1, <2>1 DEF OpensOfLaunches, PeerAlive
  <2>3. PICK e \in Events : e = [kind |-> "open", of |-> peer] BY <2>2 DEF Events
  <2>4. e.kind = "open" /\ e.of = nlaunch BY <2>2, <2>3
  <2>5. /\ \A i \in DOMAIN posts : i \in Nat /\ i < Len(posts) + 1
        /\ \A i \in DOMAIN posts' :
             \/ i \in DOMAIN posts /\ posts'[i] = posts[i]
             \/ i = Len(posts) + 1 /\ posts'[i] = e
        /\ Len(posts) + 1 \in Nat
    BY <1>1, <2>1, <2>3, PostAdded
  <2>6. Launching' = {}
    BY <2>1 DEF Launching, ManagerInv, SessionOnly, OneLaunch
  <2>7. QED BY <1>1, <1>2, <2>1, <2>4, <2>5, <2>6 DEF OpensOfLaunches
<1>9. ASSUME NEW c \in wire, ChromeReply(c) PROVE OpensOfLaunches'
  <2>1. /\ posts' = Append(posts, [kind |-> "msg", cmd |-> c])
        /\ conn = "open"
        /\ UNCHANGED <<nopen, nlaunch, launch, ntok, peer, conn>>
    BY <1>9 DEF ChromeReply, Post
  <2>2. [kind |-> "msg", cmd |-> c] \in Events
    BY DEF Events, CommandInv, TypeCmd
  <2>3. /\ \A i \in DOMAIN posts : i \in Nat /\ i < Len(posts) + 1
        /\ \A i \in DOMAIN posts' :
             \/ i \in DOMAIN posts /\ posts'[i] = posts[i]
             \/ i = Len(posts) + 1 /\ posts'[i].kind = "msg"
    BY <1>1, <2>1, <2>2, PostAdded
  <2>4. QED BY <1>1, <1>2, <2>1, <2>3 DEF OpensOfLaunches, Launching
<1>10. ASSUME NEW l \in Launches, LaunchDone(l) PROVE OpensOfLaunches'
  <2>1. /\ ~started /\ conn \in {"idle", "left"} /\ l = nlaunch /\ Launching # {}
    BY <1>10 DEF LaunchDone, Finished, Launching, ManagerInv, OneLaunch, SessionOnly
  <2>2. conn' = "connecting" => peer' = nlaunch
    BY <1>10, <2>1 DEF LaunchDone, AfterWsStart
  <2>3. UNCHANGED <<nopen, nlaunch, ntok, posts>> BY <1>10 DEF LaunchDone
  <2>4. QED BY <1>1, <1>2, <2>1, <2>2, <2>3 DEF OpensOfLaunches
<1>11. CASE Aside
  <2>1. /\ UNCHANGED <<nopen, nlaunch, ntok, posts, peer>> /\ conn' \in {conn, "ended"}
        /\ Launching # {} \/ Launching' = {}
    BY <1>11 DEF Aside
  <2>2. QED BY <1>1, <2>1 DEF OpensOfLaunches
<1>12. QED BY <1>1, <1>3, <1>4, <1>5, <1>6, <1>7, <1>8, <1>9, <1>10, <1>11, Steps

(* cmd_id_ is never reset: what was issued stays issued. *)
LEMMA IdsGrow ==
  ASSUME Patient, ManagerInv, CommandInv, [Next]_vars
  PROVE  /\ cmd_id' = ntok' /\ ntok' \in Nat /\ ntok \in Nat /\ ntok <= ntok'
         /\ born' \in [Tokens -> Launches \cup {0}]
         /\ \A c \in Cmds : Issued(c) => Issued(c)'
<1>1. /\ cmd_id = ntok /\ ntok \in Nat /\ nlaunch \in 0..MaxLaunches
      /\ born \in [Tokens -> Launches \cup {0}] /\ TypeLife
  BY BoundAssumption DEF CommandInv, IssuedOnly, TypeCmd, ManagerInv, ManagerType, TypeLife
<1>2. \/ CommandIssued
      \/ UNCHANGED <<cmd_id, ntok, born>>
  <2>1. CASE start BY <2>1 DEF start, ResetChannel
  <2>2. CASE stop BY <2>2 DEF stop
  <2>3. CASE send_command BY <1>1, <2>3, Registered DEF send_command
  <2>4. CASE RunOpen BY <1>1, <2>4, OpenWithinBounds, Registered DEF RunOpen
  <2>5. CASE WsOpen BY <2>5 DEF WsOpen
  <2>6. ASSUME NEW more \in BOOLEAN, RunReply(more)
        PROVE  CommandIssued \/ UNCHANGED <<cmd_id, ntok, born>>
    BY <1>1, <2>6, Registered DEF RunReply
  <2>7. ASSUME NEW c \in wire, ChromeReply(c) PROVE UNCHANGED <<cmd_id, ntok, born>>
    BY <2>7 DEF ChromeReply
  <2>8. ASSUME NEW l \in Launches, LaunchDone(l) PROVE UNCHANGED <<cmd_id, ntok, born>>
    BY <2>8 DEF LaunchDone
  <2>9. CASE Aside BY <2>9 DEF Aside
  <2>10. QED
    BY <1>1, <2>1, <2>2, <2>3, <2>4, <2>5, <2>6, <2>7, <2>8, <2>9, Steps
<1>3. cmd_id' = ntok' /\ ntok' \in Nat /\ ntok <= ntok' BY <1>1, <1>2 DEF CommandIssued
<1>4. \A c \in Cmds : Issued(c) => Issued(c)' BY <1>1, <1>3 DEF Issued, Cmds
<1>5. QED BY <1>1, <1>2, <1>3, <1>4 DEF CommandIssued

(* The replies in the post queue answer issued commands. *)
LEMMA PostsNext ==
  ASSUME Patient, ManagerInv, CommandInv, [Next]_vars
  PROVE  /\ posts' \in Seq(Events)
         /\ \A i \in DOMAIN posts' : posts'[i].kind = "msg" => Issued(posts[i].cmd)'
<1>1. TypeConn /\ TypeLife /\ posts \in Seq(Events)
  BY DEF CommandInv, ManagerInv, ManagerType, TypeConn
<1>2. /\ wire \subseteq Cmds /\ \A c \in wire : Issued(c)'
  BY IdsGrow DEF CommandInv, IssuedOnly, TypeCmd
<1>3. \A i \in DOMAIN posts : posts[i] \in Events BY <1>1
<1>4. \A i \in DOMAIN posts : posts[i].kind = "msg" => posts[i].cmd \in Cmds
  BY <1>3 DEF Events
<1>5. \A i \in DOMAIN posts : posts[i].kind = "msg" => posts[i].cmd.id \in Nat
  BY <1>4 DEF Cmds
<1>6. \A i \in DOMAIN posts : posts[i].kind = "msg" =>
        posts[i].cmd.tok = posts[i].cmd.id + 1 /\ posts[i].cmd.id < cmd_id'
  BY <1>5, IdsGrow DEF CommandInv, IssuedOnly, Issued
<1>7. CASE posts' = posts
  BY <1>1, <1>6, <1>7 DEF Issued
<1>8. ASSUME NEW k, NextPost(k), PopPost
      PROVE  /\ posts' \in Seq(Events)
             /\ \A i \in DOMAIN posts' : posts'[i].kind = "msg" => Issued(posts[i].cmd)'
  <2>1. /\ posts' \in Seq(Events)
        /\ \A i \in DOMAIN posts' :
             i \in Nat /\ i > 0 /\ i + 1 \in DOMAIN posts /\ posts'[i] = posts[i + 1]
    BY <1>1, <1>8, PostTaken
  <2>2. QED BY <1>6, <2>1 DEF Issued
<1>9. ASSUME NEW e \in Events, posts' = Append(posts, e),
             e.kind = "msg" => Issued(e.cmd)'
      PROVE  /\ posts' \in Seq(Events)
             /\ \A i \in DOMAIN posts' : posts'[i].kind = "msg" => Issued(posts[i].cmd)'
  <2>1. /\ posts' \in Seq(Events)
        /\ \A i \in DOMAIN posts' :
             \/ i \in DOMAIN posts /\ posts'[i] = posts[i]
             \/ i = Len(posts) + 1 /\ posts'[i] = e
    BY <1>1, <1>9, PostAdded
  <2>2. ASSUME NEW i \in DOMAIN posts', posts'[i].kind = "msg"
        PROVE  Issued(posts[i].cmd)'
    <3>1. CASE i \in DOMAIN posts /\ posts'[i] = posts[i]
      BY <1>6, <2>2, <3>1 DEF Issued
    <3>2. CASE posts'[i] = e BY <1>9, <2>2, <3>2 DEF Issued
    <3>3. QED BY <2>1, <3>1, <3>2
  <2>3. QED BY <2>1, <2>2
<1>10. peer \in Launches \cup {NoProc} BY <1>1 DEF TypeConn
<1>11. CASE stop
  <2>1. CASE posts' # posts
    <3>1. PeerAlive /\ posts' = Append(posts, [kind |-> "open", of |-> peer])
      BY <1>11, <2>1 DEF stop, WsStopped
    <3>2. PICK e \in Events : e = [kind |-> "open", of |-> peer]
      BY <1>10, <3>1 DEF PeerAlive, Events
    <3>3. e.kind # "msg" BY <3>2
    <3>4. QED BY <1>9, <3>1, <3>2, <3>3
  <2>2. QED BY <1>7, <2>1
<1>12. CASE WsOpen
  <2>1. PeerAlive /\ posts' = Append(posts, [kind |-> "open", of |-> peer])
    BY <1>12 DEF WsOpen, Post
  <2>2. PICK e \in Events : e = [kind |-> "open", of |-> peer]
    BY <1>10, <2>1 DEF PeerAlive, Events
  <2>3. e.kind # "msg" BY <2>2
  <2>4. QED BY <1>9, <2>1, <2>2, <2>3
<1>13. ASSUME NEW c \in wire, ChromeReply(c)
       PROVE  /\ posts' \in Seq(Events)
              /\ \A i \in DOMAIN posts' : posts'[i].kind = "msg" => Issued(posts[i].cmd)'
  <2>1. posts' = Append(posts, [kind |-> "msg", cmd |-> c]) BY <1>13 DEF ChromeReply, Post
  <2>2. PICK e \in Events : e = [kind |-> "msg", cmd |-> c] BY <1>2 DEF Events
  <2>3. Issued(e.cmd)' BY <1>2, <2>2 DEF Issued
  <2>4. QED BY <1>9, <2>1, <2>2, <2>3
<1>14. CASE start BY <1>7, <1>14 DEF start
<1>15. CASE send_command BY <1>7, <1>15 DEF send_command
<1>16. CASE RunOpen BY <1>8, <1>16 DEF RunOpen
<1>17. CASE \E more \in BOOLEAN : RunReply(more) BY <1>8, <1>17 DEF RunReply
<1>18. CASE \E l \in Launches : LaunchDone(l) BY <1>7, <1>18 DEF LaunchDone
<1>19. CASE Aside BY <1>7, <1>19 DEF Aside
<1>20. QED
  BY <1>1, <1>11, <1>12, <1>13, <1>14, <1>15, <1>16, <1>17, <1>18, <1>19, Steps

(* Commands wait, are sent and travel in the order in which they were issued. *)
CommandsOrdered ==
  /\ queued \in Seq(Cmds) /\ wire \subseteq Cmds /\ sent \in Seq(Tokens)
  /\ \A c \in wire : Issued(c)
  /\ \A i \in DOMAIN queued : Issued(queued[i])
  /\ QueuedAfterSent

LEMMA OrderNext ==
  ASSUME Patient, ManagerInv, CommandInv, [Next]_vars
  PROVE  CommandsOrdered'
<1>1. /\ nlaunch \in 0..MaxLaunches /\ nlaunch \in Nat /\ TypeLife
      /\ CommandsOrdered /\ cmd_id = ntok /\ ntok \in Nat
  BY BoundAssumption
     DEF ManagerInv, ManagerType, TypeLife, CommandInv, TypeCmd, CommandsOrdered, IssuedOnly
<1>2. CASE start
  <2>1. /\ queued' = <<>> /\ ws_ready' = FALSE /\ nlaunch' = nlaunch + 1
        /\ UNCHANGED <<cmd_id, wire, sent, ntok, born>>
    BY <1>2 DEF start, ResetChannel
  <2>2. queued' \in Seq(Cmds) /\ DOMAIN queued' = {} BY <2>1
  <2>3. \A t \in Tokens : born[t] <= nlaunch /\ born[t] \in Nat
    BY DEF CommandInv, QueuedAfterSent, TypeCmd, Launches
  <2>4. \A t \in Tokens : born[t] <= nlaunch' /\ born[t] # nlaunch' BY <1>1, <2>1, <2>3
  <2>5. QueuedAfterSent' BY <1>1, <2>1, <2>2, <2>4 DEF QueuedAfterSent, CommandsOrdered
  <2>6. QED BY <1>1, <2>1, <2>2, <2>5 DEF CommandsOrdered, Issued
<1>3. CASE send_command
  <2>1. /\ MoreCmds /\ Register(NextCmd) /\ QueueOrSend(NextCmd)
        /\ UNCHANGED <<ws_ready, nlaunch>>
    BY <1>3 DEF send_command
  <2>2. QED BY <1>1, <2>1, CommandQueued DEF CommandsOrdered
<1>4. CASE RunOpen
  <2>1. /\ Register(NextCmd) /\ SendText(OnOpenSends) /\ queued' = <<>> /\ nlaunch' = nlaunch
    BY <1>4 DEF RunOpen
  <2>2. queued' \in Seq(Cmds) /\ DOMAIN queued' = {} BY <2>1
  <2>3. QED BY <1>1, <1>4, <2>1, <2>2, OpenWithinBounds, OpenSent DEF CommandsOrdered
<1>5. CASE /\ UNCHANGED <<nlaunch, ws_ready, queued, ntok, born, sent, cmd_id>>
           /\ wire' \subseteq wire
  <2>1. QueuedAfterSent' BY <1>1, <1>5 DEF QueuedAfterSent, CommandsOrdered
  <2>2. QED BY <1>1, <1>5, <2>1 DEF CommandsOrdered, Issued
<1>6. ASSUME NEW more \in BOOLEAN, RunReply(more) PROVE CommandsOrdered'
  <2>1. CASE /\ MoreCmds /\ Register(NextCmd) /\ QueueOrSend(NextCmd)
             /\ UNCHANGED <<ws_ready, nlaunch>>
    BY <1>1, <2>1, CommandQueued DEF CommandsOrdered
  <2>2. QED BY <1>5, <1>6, <2>1 DEF RunReply
<1>7. CASE stop BY <1>5, <1>7 DEF stop
<1>8. CASE WsOpen BY <1>5, <1>8 DEF WsOpen
<1>9. CASE \E c \in wire : ChromeReply(c) BY <1>5, <1>9 DEF ChromeReply
<1>10. CASE \E l \in Launches : LaunchDone(l) BY <1>5, <1>10 DEF LaunchDone
<1>11. CASE Aside BY <1>5, <1>11 DEF Aside
<1>12. QED
  BY <1>1, <1>2, <1>3, <1>4, <1>6, <1>7, <1>8, <1>9, <1>10, <1>11, Steps

(* pending_ and the calls made from it. *)
CallsMatched ==
  /\ pending \in [0..(MaxCmds + MaxLaunches) -> Tokens \cup {0}]
  /\ calls \in [Tokens -> Seq(Tokens)]
  /\ UncalledPending /\ CallbacksOwnOnce

(* A command that is issued is put in pending_ under an id that nothing used. *)
LEMMA PendingIssued ==
  ASSUME CommandInv, nopen < MaxLaunches \/ MoreCmds, nlaunch \in 0..MaxLaunches,
         Register(NextCmd), pending' = [pending EXCEPT ![cmd_id] = NextCmd.tok],
         calls' = calls
  PROVE  CallsMatched'
<1>1. /\ NextCmd.tok = ntok + 1 /\ ntok + 1 \in Tokens /\ ntok \in Nat
      /\ cmd_id = ntok /\ cmd_id \in DOMAIN pending
  BY NextCmdTyped
<1>2. cmd_id' = ntok + 1 BY Registered DEF CommandIssued
<1>3. /\ pending \in [0..(MaxCmds + MaxLaunches) -> Tokens \cup {0}]
      /\ calls \in [Tokens -> Seq(Tokens)] /\ UncalledPending /\ CallbacksOwnOnce
  BY DEF CommandInv, TypeCmd
<1>4. pending' \in [0..(MaxCmds + MaxLaunches) -> Tokens \cup {0}] BY <1>1, <1>3
<1>5. \A i \in DOMAIN pending : pending'[i] = IF i = ntok THEN ntok + 1 ELSE pending[i]
  BY <1>1, <1>3
<1>6. DOMAIN pending' = DOMAIN pending /\ DOMAIN pending \subseteq Nat
  BY <1>3, <1>4, BoundAssumption
<1>7. calls[ntok + 1] = <<>> BY <1>1, <1>3 DEF UncalledPending
<1>8. UncalledPending'
  BY <1>1, <1>2, <1>3, <1>5, <1>6, <1>7 DEF UncalledPending
<1>9. QED BY <1>3, <1>4, <1>8 DEF CallsMatched, CallbacksOwnOnce

(* A reply calls the callbacks found under its id, which are its command's own,
   and they are then gone; one whose id is not found calls nothing. *)
LEMMA ReplyCalls ==
  ASSUME ManagerInv, CommandInv, NEW more \in BOOLEAN, RunReply(more)
  PROVE  CallsMatched'
<1> DEFINE Ids == 0..(MaxCmds + MaxLaunches)
<1>1. /\ pending \in [Ids -> Tokens \cup {0}] /\ calls \in [Tokens -> Seq(Tokens)]
      /\ UncalledPending /\ CallbacksOwnOnce /\ TypeConn
      /\ cmd_id = ntok /\ ntok \in Nat /\ ntok \in Ids /\ nlaunch \in 0..MaxLaunches
      /\ Ids \subseteq Nat /\ Tokens \subseteq Nat
  BY BoundAssumption DEF CommandInv, TypeCmd, IssuedOnly, ManagerInv, ManagerType, TypeLife, Tokens
<1>2. PICK c : c = Head(posts).cmd OBVIOUS
<1>3. c \in Cmds /\ Issued(c)
  <2>1. /\ 1 \in DOMAIN posts /\ posts[1] \in Events /\ posts[1].kind = "msg"
        /\ Head(posts) = posts[1]
    BY <1>1, PostTaken DEF RunReply
  <2>2. QED BY <1>2, <2>1 DEF Events, CommandInv, IssuedOnly
<1>4. PICK t : t = pending[c.id] OBVIOUS
<1>5. c.id \in Ids /\ c.id < cmd_id /\ c.tok = c.id + 1 /\ c.tok \in Tokens /\ t \in {0, c.tok}
  BY <1>1, <1>3, <1>4, BoundAssumption DEF Cmds, Issued, UncalledPending
<1>6. /\ calls' = [u \in Tokens |-> IF u = t THEN Append(calls[u], c.tok) ELSE calls[u]]
      /\ \/ /\ MoreCmds /\ Register(NextCmd)
            /\ pending' = [pending EXCEPT ![cmd_id] = NextCmd.tok, ![c.id] = 0]
         \/ pending' = [pending EXCEPT ![c.id] = 0] /\ cmd_id' = cmd_id
  BY <1>2, <1>4 DEF RunReply
<1>7. t # 0 => calls[t] = <<>> BY <1>1, <1>4, <1>5 DEF UncalledPending
<1>8. /\ \A u \in Tokens : calls'[u] = IF t # 0 /\ u = c.tok THEN <<u>> ELSE calls[u]
      /\ calls' \in [Tokens -> Seq(Tokens)]
  <2>1. CASE t = 0
    <3>1. \A u \in Tokens : u # 0 BY BoundAssumption DEF Tokens
    <3>2. calls' = calls BY <1>1, <1>6, <2>1, <3>1
    <3>3. QED BY <1>1, <2>1, <3>2
  <2>2. CASE t # 0
    <3>1. t = c.tok BY <1>5, <2>2
    <3>2. Append(calls[t], c.tok) = <<c.tok>>
      <4>1. Append(<<>>, c.tok) = <<c.tok>> BY <1>5
      <4>2. QED BY <1>7, <2>2, <4>1
    <3>3. \A u \in Tokens : calls'[u] = IF u = c.tok THEN <<u>> ELSE calls[u]
      BY <1>6, <3>1, <3>2
    <3>4. \A u \in Tokens : <<u>> \in Seq(Tokens) OBVIOUS
    <3>5. calls' = [u \in Tokens |-> IF u = c.tok THEN <<u>> ELSE calls[u]]
      BY <1>6, <3>1, <3>2
    <3>6. QED BY <1>1, <2>2, <3>3, <3>4, <3>5
  <2>3. QED BY <2>1, <2>2
<1>9. CallbacksOwnOnce' BY <1>1, <1>8 DEF CallbacksOwnOnce
<1>10. CASE pending' = [pending EXCEPT ![c.id] = 0] /\ cmd_id' = cmd_id
  <2>1. pending' \in [Ids -> Tokens \cup {0}] BY <1>1, <1>10
  <2>2. \A i \in Ids : pending'[i] = IF i = c.id THEN 0 ELSE pending[i] BY <1>1, <1>10
  <2>3. UncalledPending'
    <3> SUFFICES ASSUME NEW i \in Ids
                 PROVE  /\ pending'[i] \in {0, i + 1}
                        /\ pending'[i] # 0 => i < cmd_id' /\ calls'[i + 1] = <<>>
                        /\ i >= cmd_id' /\ i + 1 \in Tokens => calls'[i + 1] = <<>>
      BY <2>1 DEF UncalledPending
    <3>1. pending'[i] \in {0, i + 1} BY <1>1, <2>2 DEF UncalledPending
    <3>2. CASE i = c.id BY <1>1, <1>5, <1>10, <2>2, <3>1, <3>2
    <3>3. CASE i # c.id
      <4>1. i + 1 # c.tok BY <1>1, <1>5, <3>3
      <4>2. i + 1 \in Tokens => calls'[i + 1] = calls[i + 1] BY <1>8, <4>1
      <4>3. pending[i] # 0 => i + 1 \in Tokens BY <1>1 DEF UncalledPending
      <4>4. QED BY <1>1, <1>10, <2>2, <3>1, <3>3, <4>2, <4>3 DEF UncalledPending
    <3>4. QED BY <3>2, <3>3
  <2>4. QED BY <1>8, <1>9, <2>1, <2>3 DEF CallsMatched
<1>11. CASE /\ MoreCmds /\ Register(NextCmd)
            /\ pending' = [pending EXCEPT ![cmd_id] = NextCmd.tok, ![c.id] = 0]
  <2>1. NextCmd.tok = ntok + 1 /\ ntok + 1 \in Tokens BY <1>1, <1>11, NextCmdTyped
  <2>2. cmd_id' = ntok + 1 BY <1>1, <1>11, Registered DEF CommandIssued
  <2>3. pending' \in [Ids -> Tokens \cup {0}] BY <1>1, <1>11, <2>1
  <2>4. \A i \in Ids : pending'[i] = IF i = c.id THEN 0
                                     ELSE IF i = ntok THEN ntok + 1 ELSE pending[i]
    BY <1>1, <1>5, <1>11, <2>1
  <2>5. calls'[ntok + 1] = <<>>
    <3>1. calls[ntok + 1] = <<>> BY <1>1, <2>1 DEF UncalledPending
    <3>2. ntok + 1 # c.tok BY <1>1, <1>5
    <3>3. QED BY <1>8, <2>1, <3>1, <3>2
  <2>6. UncalledPending'
    <3> SUFFICES ASSUME NEW i \in Ids
                 PROVE  /\ pending'[i] \in {0, i + 1}
                        /\ pending'[i] # 0 => i < cmd_id' /\ calls'[i + 1] = <<>>
                        /\ i >= cmd_id' /\ i + 1 \in Tokens => calls'[i + 1] = <<>>
      BY <2>3 DEF UncalledPending
    <3>1. pending'[i] \in {0, i + 1} BY <1>1, <2>4 DEF UncalledPending
    <3>2. CASE i = c.id BY <1>1, <1>5, <2>2, <2>4, <3>1, <3>2
    <3>3. CASE i # c.id /\ i = ntok BY <1>1, <2>2, <2>4, <2>5, <3>3
    <3>4. CASE i # c.id /\ i # ntok
      <4>1. i + 1 # c.tok BY <1>1, <1>5, <3>4
      <4>2. i + 1 \in Tokens => calls'[i + 1] = calls[i + 1] BY <1>8, <4>1
      <4>3. pending[i] # 0 => i + 1 \in Tokens BY <1>1 DEF UncalledPending
      <4>4. QED BY <1>1, <2>2, <2>4, <3>1, <3>4, <4>2, <4>3 DEF UncalledPending
    <3>5. QED BY <3>2, <3>3, <3>4
  <2>7. QED BY <1>8, <1>9, <2>3, <2>6 DEF CallsMatched
<1>12. QED BY <1>6, <1>10, <1>11

LEMMA CallsNext ==
  ASSUME Patient, ManagerInv, CommandInv, [Next]_vars
  PROVE  CallsMatched'
<1>1. CallsMatched /\ TypeLife /\ nlaunch \in 0..MaxLaunches
  BY DEF CommandInv, TypeCmd, CallsMatched, ManagerInv, ManagerType, TypeLife
<1>2. CASE UNCHANGED <<pending, calls, cmd_id>>
  BY <1>1, <1>2 DEF CallsMatched, UncalledPending, CallbacksOwnOnce
<1>3. CASE start BY <1>2, <1>3 DEF start, ResetChannel
<1>4. CASE stop BY <1>2, <1>4 DEF stop
<1>5. CASE send_command BY <1>1, <1>5, PendingIssued DEF send_command
<1>6. CASE RunOpen BY <1>1, <1>6, OpenWithinBounds, PendingIssued DEF RunOpen
<1>7. CASE \E more \in BOOLEAN : RunReply(more) BY <1>7, ReplyCalls
<1>8. CASE WsOpen BY <1>2, <1>8 DEF WsOpen
<1>9. CASE \E c \in wire : ChromeReply(c) BY <1>2, <1>9 DEF ChromeReply
<1>10. CASE \E l \in Launches : LaunchDone(l) BY <1>2, <1>10 DEF LaunchDone
<1>11. CASE Aside BY <1>2, <1>11 DEF Aside
<1>12. QED
  BY <1>1, <1>3, <1>4, <1>5, <1>6, <1>7, <1>8, <1>9, <1>10, <1>11, Steps

LEMMA CommandNext ==
  ASSUME Patient, ManagerInv, ManagerInv', CommandInv, [Next]_vars
  PROVE  CommandInv'
<1>1. /\ OpensOfLaunches' /\ CommandsOrdered' /\ CallsMatched'
      /\ posts' \in Seq(Events)
      /\ \A i \in DOMAIN posts' : posts'[i].kind = "msg" => Issued(posts[i].cmd)'
  BY OpensNext, OrderNext, CallsNext, PostsNext
<1>2. cmd_id' = ntok' /\ ntok' \in Nat /\ born' \in [Tokens -> Launches \cup {0}]
  BY IdsGrow
<1>3. IssuedOnly' BY <1>1, <1>2 DEF IssuedOnly, CommandsOrdered
<1>4. TypeConn' BY <1>1 DEF TypeConn, ManagerInv, ManagerType
<1>5. nopen' \in Nat
  <2>1. nopen \in Nat BY BoundAssumption DEF CommandInv, TypeCmd
  <2>2. nopen' \in {nopen, nopen + 1}
    BY DEF Next, start, stop, StopIgnored, health_check, send_command, RunOpen, RunReply,
           WsOpen, WsFail, WsDrop, ChromeReply, LaunchNoProcess, LaunchFork, LaunchUrl,
           LaunchGiveUp, LaunchDone, ChromeDies
  <2>3. QED BY <2>1, <2>2
<1>6. nlaunch' \in 0..MaxLaunches BY DEF ManagerInv, ManagerType, TypeLife
<1>7. nopen' \in 0..MaxLaunches /\ ntok' \in 0..(MaxCmds + MaxLaunches)
  <2>1. nopen' <= nlaunch' /\ ntok' <= MaxCmds + nopen' BY <1>1 DEF OpensOfLaunches
  <2>2. ntok' \in Nat BY <1>2
  <2>3. nopen' <= MaxLaunches BY <1>5, <1>6, <2>1, BoundAssumption
  <2>4. \A a, b, c, d \in Nat : c <= a /\ d <= b + c => d <= b + a OBVIOUS
  <2>5. ntok' <= MaxCmds + MaxLaunches BY <1>5, <2>1, <2>2, <2>3, <2>4, BoundAssumption
  <2>6. QED BY <1>5, <2>2, <2>3, <2>5, BoundAssumption
<1>8. ws_ready' \in BOOLEAN BY DEF ManagerInv, ManagerType
<1>9. TypeCmd' BY <1>1, <1>2, <1>7, <1>8 DEF TypeCmd, CommandsOrdered, CallsMatched
<1>10. QED
  BY <1>1, <1>3, <1>4, <1>9 DEF CommandInv, CommandsOrdered, CallsMatched

(***************************************************************************)
(* The theorems.                                                           *)
(***************************************************************************)
(* CommandInv is an invariant of the manager. *)
THEOREM CommandInvariant == ASSUME Patient PROVE Spec => [](ManagerInv /\ CommandInv)
<1>1. Init => ManagerInv /\ CommandInv BY ManagerInit, CommandInit
<1>2. ManagerInv /\ CommandInv /\ [Next]_vars => (ManagerInv /\ CommandInv)'
  BY Patient, ManagerNext, CommandNext
<1>3. QED BY <1>1, <1>2, PTL DEF Spec

(* Every variable of the manager keeps its type; in particular the manager issues
   at most one Page.enable for each launch, stale Open events of earlier sessions
   included. *)
THEOREM ManagerTyped == ASSUME Patient PROVE Spec => []TypeOK
<1>1. ManagerInv /\ CommandInv => TypeOK BY DEF ManagerInv, ManagerType, CommandInv, TypeOK
<1>2. QED BY <1>1, CommandInvariant, PTL

(* on_ws_message() calls the callback of a command with the reply to that very
   command and at most once: ids are not reused, neither stop() nor start() resets
   cmd_id_, and the replies of an earlier session that are still in the post queue
   find the entry of their own command or none. *)
THEOREM RepliesMatched == ASSUME Patient PROVE Spec => []CallbacksOwnOnce
<1>1. ManagerInv /\ CommandInv => CallbacksOwnOnce BY DEF CommandInv
<1>2. QED BY <1>1, CommandInvariant, PTL

(* Commands are handed to ws_.sendText() in the order they were issued, the ones
   that waited for the connection included, and a manager that is ready has left
   none of its session's behind. *)
THEOREM CommandsInOrder == ASSUME Patient PROVE Spec => []SentInOrder
<1>1. ManagerInv /\ CommandInv => SentInOrder
  <2> SUFFICES ASSUME CommandInv PROVE SentInOrder OBVIOUS
  <2>1. 1..ntok \subseteq Tokens BY BoundAssumption DEF CommandInv, TypeCmd, Tokens
  <2>2. ws_ready => DOMAIN queued = {} BY DEF CommandInv, QueuedAfterSent
  <2>3. \A t \in 1..ntok : t <= ntok BY DEF CommandInv, TypeCmd
  <2>4. QED BY <2>1, <2>2, <2>3 DEF CommandInv, QueuedAfterSent, SentInOrder
<1>2. QED BY <1>1, CommandInvariant, PTL

(***************************************************************************)
(* The manager implements CommandChannel.                                  *)
(***************************************************************************)
(* What is sent stays sent, and what ws_.sendText() gives to Chrome is. *)
LEMMA SendGrows ==
  ASSUME NEW s \in Seq(Cmds), sent \in Seq(Tokens), SendText(s)
  PROVE  /\ \A d : WasSent(d) => WasSent(d)'
         /\ \A d \in wire' : d \in wire \/ WasSent(d)'
<1>1. /\ \A i \in DOMAIN sent : i \in DOMAIN sent' /\ sent'[i] = sent[i]
      /\ \A i \in DOMAIN s : Len(sent) + i \in DOMAIN sent' /\ sent'[Len(sent) + i] = s[i].tok
  BY SentElems
<1>2. ASSUME NEW d, WasSent(d) PROVE WasSent(d)' BY <1>1, <1>2 DEF WasSent
<1>3. ASSUME NEW d \in wire', d \notin wire PROVE WasSent(d)'
  <2>1. PICK i \in DOMAIN s : s[i] = d BY <1>3 DEF SendText
  <2>2. sent'[Len(sent) + i] = d.tok /\ Len(sent) + i \in DOMAIN sent' BY <1>1, <2>1
  <2>3. QED BY <2>2 DEF WasSent
<1>4. QED BY <1>2, <1>3

(* The ways in which a step touches the channel to Chrome. *)
LEMMA SendSteps ==
  ASSUME Patient, ManagerInv, CommandInv, [Next]_vars
  PROVE  \/ sent' = sent /\ wire' \subseteq wire
         \/ \E s \in Seq(Cmds) : SendText(s)
<1>1. /\ nlaunch \in 0..MaxLaunches /\ TypeLife /\ queued \in Seq(Cmds)
  BY DEF ManagerInv, ManagerType, TypeLife, CommandInv, TypeCmd
<1> DEFINE Goal == \/ sent' = sent /\ wire' \subseteq wire
                   \/ \E s \in Seq(Cmds) : SendText(s)
<1>2. CASE MoreCmds /\ QueueOrSend(NextCmd)
  <2>1. NextCmd \in Cmds BY <1>1, <1>2, NextCmdTyped
  <2>2. <<NextCmd>> \in Seq(Cmds) BY <2>1
  <2>3. QED BY <1>2, <2>2 DEF QueueOrSend
<1>3. CASE RunOpen
  <2>1. NextCmd \in Cmds BY <1>1, <1>3, OpenWithinBounds, NextCmdTyped
  <2>2. OnOpenSends \in Seq(Cmds) BY <1>1, <2>1 DEF OnOpenSends
  <2>3. QED BY <1>3, <2>2 DEF RunOpen
<1>4. CASE start BY <1>4 DEF start
<1>5. CASE stop BY <1>5 DEF stop
<1>6. CASE send_command BY <1>2, <1>6 DEF send_command
<1>7. ASSUME NEW more \in BOOLEAN, RunReply(more) PROVE Goal BY <1>2, <1>7 DEF RunReply
<1>8. CASE WsOpen BY <1>8 DEF WsOpen
<1>9. CASE \E c \in wire : ChromeReply(c) BY <1>9 DEF ChromeReply
<1>10. CASE \E l \in Launches : LaunchDone(l) BY <1>10 DEF LaunchDone
<1>11. CASE Aside BY <1>11 DEF Aside
<1>12. QED
  BY <1>1, <1>3, <1>4, <1>5, <1>6, <1>7, <1>8, <1>9, <1>10, <1>11, Steps

(* A reply in the post queue is to a command that was sent, in whichever session. *)
LEMMA SentNext ==
  ASSUME Patient, ManagerInv, CommandInv, RepliesToSent, [Next]_vars
  PROVE  RepliesToSent'
<1>1. TypeLife /\ TypeConn /\ posts \in Seq(Events) /\ sent \in Seq(Tokens)
  BY DEF ManagerInv, ManagerType, CommandInv, TypeConn, TypeCmd
<1>2. /\ \A d : WasSent(d) => WasSent(d)'
      /\ \A d \in wire' : WasSent(d)'
  <2>1. CASE sent' = sent /\ wire' \subseteq wire
    BY <2>1 DEF WasSent, RepliesToSent
  <2>2. ASSUME NEW s \in Seq(Cmds), SendText(s)
        PROVE  /\ \A d : WasSent(d) => WasSent(d)'
               /\ \A d \in wire' : WasSent(d)'
    BY <1>1, <2>2, SendGrows DEF RepliesToSent
  <2>3. QED BY <2>1, <2>2, SendSteps
<1> DEFINE Sent == \A i \in DOMAIN posts' : posts'[i].kind = "msg" => WasSent(posts[i].cmd)'
<1>3. \A i \in DOMAIN posts : posts[i].kind = "msg" => WasSent(posts[i].cmd)
  BY DEF RepliesToSent
<1>4. ASSUME posts' = posts PROVE Sent BY <1>2, <1>3, <1>4
<1>5. ASSUME NEW k, NextPost(k), PopPost PROVE Sent
  <2>1. \A i \in DOMAIN posts' : i + 1 \in DOMAIN posts /\ posts'[i] = posts[i + 1]
    BY <1>1, <1>5, PostTaken
  <2>2. QED BY <1>2, <1>3, <2>1
<1>6. ASSUME NEW e \in Events, e.kind = "msg" => WasSent(e.cmd), posts' = Append(posts, e)
      PROVE  Sent
  <2>1. \A i \in DOMAIN posts' : \/ i \in DOMAIN posts /\ posts'[i] = posts[i]
                                 \/ posts'[i] = e
    BY <1>1, <1>6, PostAdded
  <2>2. QED BY <1>2, <1>3, <1>6, <2>1
<1>7. Sent
  <2>1. CASE start BY <1>4, <2>1 DEF start
  <2>2. \A l \in Launches : /\ [kind |-> "open", of |-> l] \in Events
                            /\ [kind |-> "open", of |-> l].kind # "msg"
    BY DEF Events
  <2>3. CASE stop
    <3>1. CASE posts' = Append(posts, [kind |-> "open", of |-> peer]) /\ peer \in Launches
      <4>1. PICK e \in Events : e = [kind |-> "open", of |-> peer] /\ e.kind # "msg"
        BY <2>2, <3>1
      <4>2. QED BY <1>6, <3>1, <4>1
    <3>2. peer \in Launches \/ posts' = posts
      BY <2>3 DEF stop, WsStopped, PeerAlive, CommandInv, TypeConn
    <3>3. QED BY <1>4, <2>3, <3>1, <3>2 DEF stop
  <2>4. CASE send_command BY <1>4, <2>4 DEF send_command
  <2>5. CASE RunOpen BY <1>5, <2>5 DEF RunOpen
  <2>6. CASE WsOpen
    <3>1. peer \in Launches BY <1>1, <2>6 DEF WsOpen, PeerAlive, TypeConn
    <3>2. PICK e \in Events : e = [kind |-> "open", of |-> peer] /\ e.kind # "msg"
      BY <2>2, <3>1
    <3>3. QED BY <1>6, <2>6, <3>2 DEF WsOpen, Post
  <2>7. CASE \E more \in BOOLEAN : RunReply(more) BY <1>5, <2>7 DEF RunReply
  <2>8. ASSUME NEW c \in wire, ChromeReply(c) PROVE Sent
    <3>1. c \in Cmds /\ WasSent(c) BY DEF CommandInv, TypeCmd, RepliesToSent
    <3>2. PICK e : e = [kind |-> "msg", cmd |-> c] OBVIOUS
    <3>3. e \in Events /\ e.cmd = c BY <3>1, <3>2 DEF Events
    <3>4. QED BY <1>6, <2>8, <3>1, <3>2, <3>3 DEF ChromeReply, Post
  <2>9. CASE \E l \in Launches : LaunchDone(l) BY <1>4, <2>9 DEF LaunchDone
  <2>10. CASE Aside BY <1>4, <2>10 DEF Aside
  <2>11. QED
    BY <1>1, <2>1, <2>3, <2>4, <2>5, <2>6, <2>7, <2>8, <2>9, <2>10, Steps
<1>8. QED BY <1>2, <1>7 DEF RepliesToSent

(* The tokens of a sequence of commands, of one more and of none. *)
LEMMA TokensAdded ==
  ASSUME NEW s \in Seq(Cmds), NEW c \in Cmds
  PROVE  /\ Toks(Append(s, c)) = Append(Toks(s), c.tok)
         /\ Toks(<<c>>) = <<c.tok>>
         /\ Toks(<<>>) = <<>>
<1>1. s \in Seq(Cmds) /\ Len(s) \in Nat /\ DOMAIN s = 1..Len(s) OBVIOUS
<1>2. Toks(s) \in Seq(Tokens) /\ DOMAIN Toks(s) = DOMAIN s
  BY TokenElems DEF Toks
<1>3. Len(Toks(s)) = Len(s) BY <1>1, <1>2
<1>4. PICK a : a = Append(s, c) OBVIOUS
<1>5. /\ a \in Seq(Cmds) /\ DOMAIN a = 1..(Len(s) + 1)
      /\ \A i \in 1..(Len(s) + 1) : a[i] = IF i \in 1..Len(s) THEN s[i] ELSE c
  BY <1>1, <1>4
<1>6. PICK b : b = Append(Toks(s), c.tok) OBVIOUS
<1>7. c.tok \in Tokens BY DEF Cmds
<1>8. /\ b \in Seq(Tokens) /\ DOMAIN b = 1..(Len(s) + 1)
      /\ \A i \in 1..(Len(s) + 1) : b[i] = IF i \in 1..Len(s) THEN Toks(s)[i] ELSE c.tok
  BY <1>2, <1>3, <1>1, <1>6, <1>7
<1>9. Toks(a) = b
  <2>1. Toks(a) = [i \in 1..(Len(s) + 1) |-> a[i].tok] BY <1>5 DEF Toks
  <2>2. \A i \in 1..Len(s) : Toks(s)[i] = s[i].tok BY <1>1 DEF Toks
  <2>3. \A i \in 1..(Len(s) + 1) : a[i].tok = b[i] BY <1>5, <1>8, <2>2
  <2>4. b = [i \in 1..(Len(s) + 1) |-> b[i]] BY <1>8
  <2>5. QED BY <2>1, <2>3, <2>4
<1>10. Toks(<<c>>) = <<c.tok>>
  <2>1. DOMAIN <<c>> = {1} /\ <<c>>[1] = c OBVIOUS
  <2>2. Toks(<<c>>) = [i \in {1} |-> c.tok] BY <2>1 DEF Toks
  <2>3. <<c.tok>> = [i \in {1} |-> c.tok] OBVIOUS
  <2>4. QED BY <2>2, <2>3
<1>11. Toks(<<>>) = <<>> BY DEF Toks
<1>12. QED BY <1>4, <1>6, <1>9, <1>10, <1>11

(* send_command() is Issue: when the manager is ready, nothing waits. *)
LEMMA IssueStep ==
  ASSUME CommandInv, MoreCmds, nlaunch \in 0..MaxLaunches,
         Register(NextCmd), QueueOrSend(NextCmd)
  PROVE  Channel!Issue
<1>1. PICK c \in Cmds : c = NextCmd BY NextCmdTyped
<1>2. /\ c.tok = ntok + 1 /\ ntok' = ntok + 1
      /\ queued \in Seq(Cmds) /\ sent \in Seq(Tokens) /\ ntok + 1 \in Tokens
  BY <1>1, NextCmdTyped DEF Register, CommandInv, TypeCmd
<1>3. /\ Toks(Append(queued, c)) = Append(Toks(queued), ntok + 1)
      /\ Toks(<<c>>) = <<ntok + 1>> /\ Toks(<<>>) = <<>>
  BY <1>1, <1>2, TokensAdded
<1>4. CASE ws_ready
  <2>1. queued = <<>> /\ queued' = queued /\ sent' = sent \o Toks(<<c>>)
    BY <1>1, <1>4 DEF CommandInv, QueuedAfterSent, QueueOrSend, SendText
  <2>2. sent \o <<ntok + 1>> = Append(sent, ntok + 1) BY <1>2
  <2>3. QED BY <1>2, <1>3, <2>1, <2>2 DEF Channel!Issue
<1>5. CASE ~ws_ready
  <2>1. queued' = Append(queued, c) /\ sent' = sent BY <1>1, <1>5 DEF QueueOrSend
  <2>2. QED BY <1>2, <1>3, <2>1 DEF Channel!Issue
<1>6. QED BY <1>4, <1>5

(* A reply whose id is in pending_ is Reply of its own command; any other changes
   nothing. *)
LEMMA ReplyStep ==
  ASSUME ManagerInv, CommandInv, RepliesToSent, NEW more \in BOOLEAN, RunReply(more)
  PROVE  [Channel!ChannelNext]_(Channel!channelVars)
<1>1. /\ pending \in [0..(MaxCmds + MaxLaunches) -> Tokens \cup {0}] /\ UncalledPending
      /\ calls \in [Tokens -> Seq(Tokens)] /\ TypeConn /\ nlaunch \in 0..MaxLaunches
      /\ ntok \in 0..(MaxCmds + MaxLaunches) /\ cmd_id = ntok
  BY DEF CommandInv, TypeCmd, IssuedOnly, ManagerInv, ManagerType, TypeLife
<1>2. PICK c : c = Head(posts).cmd OBVIOUS
<1>3. c \in Cmds /\ Issued(c) /\ WasSent(c)
  <2>1. /\ 1 \in DOMAIN posts /\ posts[1] \in Events /\ posts[1].kind = "msg"
        /\ Head(posts) = posts[1]
    BY <1>1, PostTaken DEF RunReply
  <2>2. QED BY <1>2, <2>1 DEF Events, CommandInv, IssuedOnly, RepliesToSent
<1>4. PICK t : t = pending[c.id] OBVIOUS
<1>5. /\ c.id \in 0..(MaxCmds + MaxLaunches) /\ c.tok = c.id + 1 /\ c.tok \in Tokens
      /\ t \in {0, c.tok} /\ (t # 0 => calls[c.tok] = <<>>)
  BY <1>1, <1>3, <1>4, BoundAssumption DEF Cmds, Issued, UncalledPending
<1>6. /\ calls' = [u \in Tokens |-> IF u = t THEN Append(calls[u], c.tok) ELSE calls[u]]
      /\ \/ /\ t # 0 /\ MoreCmds /\ Register(NextCmd) /\ QueueOrSend(NextCmd)
         \/ UNCHANGED <<ntok, queued, sent>>
      /\ t = 0 => UNCHANGED <<ntok, queued, sent>>
  BY <1>2, <1>4 DEF RunReply
<1>7. CASE t = 0
  <2>1. \A u \in Tokens : u # 0 BY BoundAssumption DEF Tokens
  <2>2. calls' = calls BY <1>1, <1>6, <1>7, <2>1
  <2>3. QED BY <1>6, <1>7, <2>2 DEF Channel!channelVars
<1>8. CASE t # 0
  <2>1. t = c.tok /\ calls[c.tok] = <<>> BY <1>5, <1>8
  <2>2. Append(<<>>, c.tok) = <<c.tok>> BY <1>5
  <2>3. calls' = [calls EXCEPT ![c.tok] = <<c.tok>>] BY <1>1, <1>6, <2>1, <2>2
  <2>4. Channel!Reply(c.tok) BY <1>3, <2>1, <2>3 DEF Channel!Reply, WasSent
  <2>5. Channel!Issue \/ UNCHANGED <<ntok, Toks(queued), sent>>
    BY <1>1, <1>6, IssueStep
  <2>6. QED BY <1>5, <2>4, <2>5 DEF Channel!ChannelNext
<1>9. QED BY <1>7, <1>8

(* Each step of the manager is a step of the channel, or leaves it alone. *)
LEMMA ChannelStep ==
  ASSUME Patient, ManagerInv, CommandInv, RepliesToSent, [Next]_vars
  PROVE  [Channel!ChannelNext]_(Channel!channelVars)
<1>1. /\ TypeLife /\ nlaunch \in 0..MaxLaunches /\ queued \in Seq(Cmds)
      /\ ntok \in Nat /\ sent \in Seq(Tokens)
  BY DEF ManagerInv, ManagerType, TypeLife, CommandInv, TypeCmd
<1>2. ASSUME UNCHANGED <<ntok, queued, sent, calls>>
      PROVE  [Channel!ChannelNext]_(Channel!channelVars)
  BY <1>2 DEF Channel!channelVars
<1>3. CASE start
  <2>1. queued' = <<>> /\ UNCHANGED <<ntok, sent, calls>> BY <1>3 DEF start, ResetChannel
  <2>2. Toks(queued)' = <<>> BY <2>1 DEF Toks
  <2>3. QED BY <2>1, <2>2 DEF Channel!ChannelNext, Channel!Forget
<1>4. CASE send_command
  <2>1. /\ MoreCmds /\ Register(NextCmd) /\ QueueOrSend(NextCmd) /\ calls' = calls
    BY <1>4 DEF send_command
  <2>2. QED BY <1>1, <2>1, IssueStep DEF Channel!ChannelNext
<1>5. CASE RunOpen
  <2>1. PICK c \in Cmds : c = NextCmd /\ c.tok = ntok + 1
    BY <1>1, <1>5, OpenWithinBounds, NextCmdTyped
  <2>2. /\ ntok' = ntok + 1 /\ queued' = <<>> /\ calls' = calls
        /\ sent' = sent \o Toks(Append(queued, c))
    BY <1>5, <2>1 DEF RunOpen, Register, SendText, OnOpenSends
  <2>3. Toks(Append(queued, c)) = Append(Toks(queued), ntok + 1) BY <1>1, <2>1, TokensAdded
  <2>4. Toks(queued)' = <<>> BY <2>2 DEF Toks
  <2>5. QED BY <2>2, <2>3, <2>4 DEF Channel!ChannelNext, Channel!Open
<1>6. CASE \E more \in BOOLEAN : RunReply(more) BY <1>6, ReplyStep
<1>7. CASE stop BY <1>2, <1>7 DEF stop
<1>8. CASE WsOpen BY <1>2, <1>8 DEF WsOpen
<1>9. CASE \E c \in wire : ChromeReply(c) BY <1>2, <1>9 DEF ChromeReply
<1>10. CASE \E l \in Launches : LaunchDone(l) BY <1>2, <1>10 DEF LaunchDone
<1>11. CASE Aside BY <1>2, <1>11 DEF Aside
<1>12. QED
  BY <1>1, <1>3, <1>4, <1>5, <1>6, <1>7, <1>8, <1>9, <1>10, <1>11, Steps

(* For any number of launches and commands, what the callers of send_command() see
   is a behaviour of CommandChannel: whatever replies and Open events of earlier
   sessions are handled late, only commands that were sent are answered, once and
   with their own reply, and the ones that start() has dropped never are. *)
THEOREM ManagerImplementsChannel == ASSUME Patient PROVE Spec => RefinesChannel
<1>1. Init => Channel!ChannelInit /\ RepliesToSent
  BY DEF Init, Channel!ChannelInit, RepliesToSent, Toks
<1>2. ManagerInv /\ CommandInv /\ RepliesToSent /\ [Next]_vars => RepliesToSent'
  BY Patient, SentNext
<1>3. ManagerInv /\ CommandInv /\ RepliesToSent /\ [Next]_vars
        => [Channel!ChannelNext]_(Channel!channelVars)
  BY Patient, ChannelStep
<1>4. QED
  BY <1>1, <1>2, <1>3, CommandInvariant, PTL DEF Spec, RefinesChannel, Channel!ChannelSpec
=============================================================================
