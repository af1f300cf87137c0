--------------------------- MODULE CommandChannel ---------------------------
(***************************************************************************)
(* What CdpBrowserManager promises the callers of send_command(), without  *)
(* the ids, the map pending_, the sockets and the post queue it does it    *)
(* with.  Commands are numbered as they are issued.  A command is sent at  *)
(* once, or waits for the connection behind the ones that wait already;    *)
(* the connection, once open, takes all that wait and then one command of  *)
(* the manager's own.  A restart forgets the ones that wait.  Only what    *)
(* was sent is ever answered, once, and with the reply to it: this may be  *)
(* in a later session, and may never happen.  CdpManager implements it:    *)
(* see RefinesChannel there.                                               *)
(***************************************************************************)
EXTENDS Naturals, Sequences

CONSTANT Commands    \* the numbers of commands

VARIABLES
  issued,     \* number of commands issued
  waiting,    \* commands that wait for the connection
  dispatched, \* commands sent, in order
  replies     \* the replies each command's callback was called with

channelVars == <<issued, waiting, dispatched, replies>>

ChannelInit ==
  /\ issued = 0 /\ waiting = <<>> /\ dispatched = <<>>
  /\ replies = [c \in Commands |-> <<>>]

(* A command is sent past the queue only if nothing waits in it. *)
Issue ==
  /\ issued' = issued + 1
  /\ \/ /\ waiting = <<>>
        /\ dispatched' = Append(dispatched, issued')
        /\ UNCHANGED waiting
     \/ /\ waiting' = Append(waiting, issued')
        /\ UNCHANGED dispatched

Open ==
  /\ issued' = issued + 1
  /\ dispatched' = dispatched \o Append(waiting, issued')
  /\ waiting' = <<>>
  /\ UNCHANGED replies

Forget ==
  /\ waiting' = <<>>
  /\ UNCHANGED <<issued, dispatched, replies>>

Reply(c) ==
  /\ \E i \in DOMAIN dispatched : dispatched[i] = c
  /\ replies[c] = <<>>
  /\ replies' = [replies EXCEPT ![c] = <<c>>]

(* The callback of a command may issue another one. *)
ChannelNext ==
  \/ Issue /\ UNCHANGED replies
  \/ Open
  \/ Forget
  \/ \E c \in Commands :
       Reply(c) /\ (Issue \/ UNCHANGED <<issued, waiting, dispatched>>)

ChannelSpec == ChannelInit /\ [][ChannelNext]_channelVars
=============================================================================
