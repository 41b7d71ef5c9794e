------------------------------ MODULE Protocol ------------------------------
(***************************************************************************)
(* protocol.c: the command pipeline between the machines of one game.      *)
(*                                                                         *)
(* Every machine makes one command per tic and must run every tic with     *)
(* the commands of all players.  Commands travel in windows: a packet      *)
(* repeats every command its receiver has not acknowledged, starting at    *)
(* tic number `start', and acknowledges what its sender has received.      *)
(* Lost packets are repaired by a resend once per second.                  *)
(*                                                                         *)
(* A machine is named by its player number (doomcom->consoleplayer, which  *)
(* the network driver assigns uniquely).  nodes[i] of the code, seen on    *)
(* machine m, is the entry [m][n] of the functions below, where n is the   *)
(* machine behind node i; nodes[0] is the entry [m][m].                    *)
(*                                                                         *)
(* Definitions named Mut... are wrong on purpose: each is the definition   *)
(* that follows it with a fault a programmer could make.  Nothing uses     *)
(* them but the tests that a property notices the fault.                   *)
(***************************************************************************)
EXTENDS Integers, Sequences, FiniteSets

CONSTANTS
  NumNodes,     \* doomcom->numnodes
  MAX_PLAYERS,  \* protocol.h: 4
  DELAY,        \* protocol.c: 4
  MAX_DELAY,    \* protocol.c: 16
  Cmd,          \* the commands (key bit sets) a player can give; 0 is none
  MayQuit,      \* the machines whose player or driver may end the game
  MaxTic,       \* bound: tics played
  MaxInFlight   \* bound: [Node -> Nat], packets of m on the way to one node

\* What InitProtocol asserts about the driver's numbers.
ASSUME NodesAssumption ==
  /\ MAX_PLAYERS \in Nat
  /\ NumNodes \in Nat
  /\ NumNodes > 1
  /\ NumNodes <= MAX_PLAYERS

\* A pipeline of DELAY commands fits twice into a window (4 and 16).
ASSUME DelayAssumption ==
  /\ DELAY \in Nat \ {0}
  /\ MAX_DELAY \in Nat
  /\ 2 * DELAY <= MAX_DELAY

ASSUME CmdAssumption == 0 \in Cmd

Node == 0 .. NumNodes - 1

ASSUME BoundAssumption ==
  /\ MaxTic \in Nat
  /\ MaxInFlight \in [Node -> Nat]

Player == 0 .. MAX_PLAYERS - 1
Slot == 0 .. MAX_DELAY - 1
Other(m) == Node \ {m}

VARIABLES
  maketic,      \* [Node -> Nat], the next tic to make a command for, plus 1
  gametic,      \* [Node -> Nat], tics run so far
  send_window,  \* [m][n]: commands of m that n has not acknowledged to m
  recv_window,  \* [m][n]: commands of n that m has received and not run
  player,       \* [m][n]: the player number of n as m knows it, -1 unknown
  due,          \* [m]: the nodes to which m last sent in an earlier second
  pc,           \* [m]: where m is in this code
  cmd_buf,      \* [m]: what SwapCommand last returned (WriteData's buffer)
  net,          \* [m][n]: packets on their way from m to n
  made          \* history, [m]: every command of m, in tic order

vars == <<maketic, gametic, send_window, recv_window, player, due, pc,
          cmd_buf, net, made>>

-----------------------------------------------------------------------------
(* struct window: tics start .. start+len-1 of one player, in an array.    *)

Window == [start : Nat, len : 0 .. MAX_DELAY, cmds : [Slot -> Cmd]]

EmptyArray == [j \in Slot |-> 0]

\* memmove(cmds, cmds + cnt, keep): slots from `keep' on keep their value.
MemMove(cmds, cnt, keep) ==
  [j \in Slot |-> IF j < keep THEN cmds[j + cnt] ELSE cmds[j]]

\* The tic after the last one in the window.
End(w) == w.start + w.len

\* Does the window lack the command of tic tics - 1?
Lacks(w, tics) == tics - w.start > w.len

\* SwapCommand's loop body: grow the window to end at tic `tics'.
Register(w, tics, cmd) ==
  IF Lacks(w, tics)
  THEN [start |-> w.start,
        len   |-> tics - w.start,
        cmds  |-> [w.cmds EXCEPT ![tics - w.start - 1] = cmd]]
  ELSE w

\* The commands are not moved down.
MutAcknowledgeNoMove(w, ack) ==
  IF ack > w.start /\ ack <= End(w)
  THEN [w EXCEPT !.start = ack, !.len = End(w) - ack]
  ELSE w

\* Any acknowledgement empties the window.
MutAcknowledgeAll(w, ack) ==
  IF ack > w.start /\ ack <= End(w)
  THEN [w EXCEPT !.start = End(w), !.len = 0]
  ELSE w

\* Acknowledgements are ignored.
MutAcknowledgeNever(w, ack) == w

\* ReceivePacket: drop the commands the peer confirms to have.
Acknowledge(w, ack) ==
  IF ack > w.start /\ ack <= End(w)
  THEN [start |-> ack,
        len   |-> End(w) - ack,
        cmds  |-> MemMove(w.cmds, ack - w.start, End(w) - ack)]
  ELSE w

\* The length is that of the latest packet, not the longest.
MutStoreShrinks(w, pkt) ==
  LET start_index == pkt.start - w.start
  IN  [start |-> w.start,
       len   |-> start_index + pkt.num_cmds,
       cmds  |-> [j \in Slot |->
                   IF j >= start_index /\ j < start_index + pkt.num_cmds
                   THEN pkt.cmds[j - start_index]
                   ELSE w.cmds[j]]]

\* ReceivePacket: copy the packet's commands into the window, as far as
\* the array reaches.
Store(w, pkt) ==
  LET start_index == pkt.start - w.start
      copied == {j \in Slot : j >= start_index
                              /\ j < start_index + pkt.num_cmds}
      last == IF start_index + pkt.num_cmds <= MAX_DELAY
              THEN start_index + pkt.num_cmds ELSE MAX_DELAY
  IN  [start |-> w.start,
       len   |-> IF copied # {} /\ last > w.len THEN last ELSE w.len,
       cmds  |-> [j \in Slot |-> IF j \in copied
                                 THEN pkt.cmds[j - start_index]
                                 ELSE w.cmds[j]]]

\* SwapCommand: consume the first command of a receive window.
Pop(w) == [start |-> w.start + 1,
           len   |-> w.len - 1,
           cmds  |-> MemMove(w.cmds, 1, w.len - 1)]

-----------------------------------------------------------------------------
(* struct packet, and the driver that carries it.                          *)

Packet == [start : Nat, ack : Nat, player : Player,
           num_cmds : 0 .. MAX_DELAY, cmds : [Slot -> Cmd]]

\* The acknowledgement counts one command too many.
MutAckTooFar(m, sw, rw) ==
  [start    |-> sw.start,
   ack      |-> End(rw) + 1,
   player   |-> player[m][m],
   num_cmds |-> sw.len,
   cmds     |-> [j \in Slot |-> IF j < sw.len THEN sw.cmds[j] ELSE 0]]

\* SendPacket's message from m to n, given m's windows for n.  datalength
\* cuts the array off after num_cmds commands; 0 stands for the rest.
MakePacket(m, sw, rw) ==
  [start    |-> sw.start,
   ack      |-> End(rw),
   player   |-> player[m][m],
   num_cmds |-> sw.len,
   cmds     |-> [j \in Slot |-> IF j < sw.len THEN sw.cmds[j] ELSE 0]]

\* A driver whose queue is full drops the packet; one that is not, holds it.
NetSendPacket(m, n, pkt) ==
  IF Cardinality(net[m][n]) < MaxInFlight[m] THEN net[m][n] \cup {pkt}
  ELSE net[m][n]

\* SendPacket for every node in dests, out of the windows sw[n].  A sent
\* node's last_send_time is now.
SendPacket(m, dests, sw) ==
  /\ net' = [net EXCEPT ![m] = [n \in Node |->
               IF n \in dests
               THEN NetSendPacket(m, n,
                                  MakePacket(m, sw[n], recv_window[m][n]))
               ELSE net[m][n]]]
  /\ due' = [due EXCEPT ![m] = @ \ dests]

-----------------------------------------------------------------------------
\* The zero commands every player runs before the first one it made counts.
NoCmds == [t \in 1 .. DELAY - 1 |-> 0]

\* InitProtocol.  The arrays, gametic, last_send_time and the windows'
\* unassigned fields are zeroed statics.
Init ==
  /\ maketic = [m \in Node |-> DELAY]
  /\ gametic = [m \in Node |-> 0]
  /\ send_window = [m \in Node |-> [n \in Node |->
                     [start |-> 0, len |-> DELAY - 1, cmds |-> EmptyArray]]]
  /\ recv_window = [m \in Node |-> [n \in Node |->
                     [start |-> 0, len |-> 0, cmds |-> EmptyArray]]]
  /\ player = [m \in Node |-> [n \in Node |-> IF n = m THEN m ELSE -1]]
  /\ due = [m \in Node |-> Other(m)]
  /\ pc = [m \in Node |-> "idle"]
  /\ cmd_buf = [m \in Node |-> [p \in Player |-> 0]]
  /\ net = [m \in Node |-> [n \in Node |-> {}]]
  /\ made = [m \in Node |-> NoCmds]

\* Somebody's command is enough.
MutAnyoneReady(m) == \E n \in Node : recv_window[m][n].len > 0

\* There is a command of every player to run.
NewTicReady(m) == \A n \in Node : recv_window[m][n].len > 0

\* SwapCommand up to its loop: the command joins every window and goes out.
\* (Were maketic - gametic to reach MAX_DELAY it would return false here,
\* having changed nothing.)
SwapCommand(m, cmd) ==
  LET sw == [n \in Node |-> IF n = m THEN send_window[m][n]
                            ELSE Register(send_window[m][n], maketic[m], cmd)]
      dests == {n \in Other(m) : Lacks(send_window[m][n], maketic[m])}
  IN  /\ pc[m] = "idle"
      /\ gametic[m] < MaxTic
      /\ maketic[m] - gametic[m] < MAX_DELAY
      /\ recv_window' = [recv_window EXCEPT
                          ![m][m] = Register(@, maketic[m], cmd)]
      /\ send_window' = [send_window EXCEPT ![m] = sw]
      /\ SendPacket(m, dests, sw)
      /\ pc' = [pc EXCEPT ![m] = "wait"]
      /\ made' = [made EXCEPT ![m] = Append(@, cmd)]
      /\ UNCHANGED <<maketic, gametic, player, cmd_buf>>

\* The latest command, not the oldest.
MutNewestCommand(m, p) ==
  LET nodes == {n \in Node : player[m][n] = p}
      w == recv_window[m][CHOOSE n \in nodes : TRUE]
  IN  IF nodes = {} THEN 0 ELSE w.cmds[w.len - 1]

\* The command SwapCommand finds for player p (0 for a player nobody is).
CommandOf(m, p) ==
  LET nodes == {n \in Node : player[m][n] = p}
  IN  IF nodes = {} THEN 0
      ELSE recv_window[m][CHOOSE n \in nodes : TRUE].cmds[0]

\* SwapCommand after its loop: hand out one tic and advance.
SwapReturn(m) ==
  /\ pc[m] = "wait"
  /\ NewTicReady(m)
  /\ cmd_buf' = [cmd_buf EXCEPT ![m] = [p \in Player |-> CommandOf(m, p)]]
  /\ recv_window' = [recv_window EXCEPT ![m] = [n \in Node |->
                       IF player[m][n] = -1 THEN recv_window[m][n]
                       ELSE Pop(recv_window[m][n])]]
  /\ maketic' = [maketic EXCEPT ![m] = @ + 1]
  /\ gametic' = [gametic EXCEPT ![m] = @ + 1]
  /\ pc' = [pc EXCEPT ![m] = "idle"]
  /\ UNCHANGED <<send_window, player, due, net, made>>

\* Send again to every node that was sent nothing for a second, with or
\* without commands: the packet also acknowledges.
CheckResends(m) == SendPacket(m, due[m], send_window[m])

\* ReceivePackets up to its loop, called by RealInt13 or by SwapCommand while
\* it waits.
ReceivePackets(m) ==
  /\ \/ pc[m] = "idle" /\ pc' = [pc EXCEPT ![m] = "poll"]
     \/ /\ pc[m] = "wait"
        /\ ~NewTicReady(m)
        /\ pc' = [pc EXCEPT ![m] = "waitpoll"]
  /\ CheckResends(m)
  /\ UNCHANGED <<maketic, gametic, send_window, recv_window, player, cmd_buf,
                 made>>

Polling(m) == pc[m] \in {"poll", "waitpoll"}

\* The driver hands m a packet from n and keeps a copy, or does not.
NetGetPacket(m, n, pkt) ==
  /\ Polling(m)
  /\ pkt \in net[n][m]
  /\ \/ net' = net
     \/ net' = [net EXCEPT ![n][m] = @ \ {pkt}]

\* An old packet is dropped before its acknowledgement is looked at.
MutReceiveOldFirst(m, n, pkt) ==
  /\ NetGetPacket(m, n, pkt)
  /\ IF pkt.start < recv_window[m][n].start
     THEN UNCHANGED <<send_window, recv_window, player>>
     ELSE /\ send_window' = [send_window EXCEPT
                              ![m][n] = Acknowledge(@, pkt.ack)]
          /\ recv_window' = [recv_window EXCEPT ![m][n] = Store(@, pkt)]
          /\ player' = [player EXCEPT ![m][n] = pkt.player]
  /\ UNCHANGED <<maketic, gametic, due, pc, cmd_buf, made>>

\* ReceivePacket on an intact packet: its ack counts even when its commands
\* are too old to be of use.
ReceivePacket(m, n, pkt) ==
  /\ NetGetPacket(m, n, pkt)
  /\ send_window' = [send_window EXCEPT ![m][n] = Acknowledge(@, pkt.ack)]
  /\ IF pkt.start < recv_window[m][n].start
     THEN UNCHANGED <<recv_window, player>>
     ELSE /\ recv_window' = [recv_window EXCEPT ![m][n] = Store(@, pkt)]
          /\ player' = [player EXCEPT ![m][n] = pkt.player]
  /\ UNCHANGED <<maketic, gametic, due, pc, cmd_buf, made>>

\* ReceivePacket on a packet that is short or fails its checksum.
DiscardPacket(m, n, pkt) ==
  /\ Polling(m)
  /\ pkt \in net[n][m]
  /\ net' = [net EXCEPT ![n][m] = @ \ {pkt}]
  /\ UNCHANGED <<maketic, gametic, send_window, recv_window, player, due, pc,
                 cmd_buf, made>>

\* ReceivePackets ends: NetGetPacket had no (more) packets to give.
PollEnd(m) ==
  /\ Polling(m)
  /\ pc' = [pc EXCEPT ![m] = IF @ = "poll" THEN "idle" ELSE "wait"]
  /\ UNCHANGED <<maketic, gametic, send_window, recv_window, player, due,
                 cmd_buf, net, made>>

\* The driver names a node that the game does not have.  The assertion in
\* ReceivePackets ends the process that DOS knows, which is Sopwith, and with it
\* the game, wherever Sopwith was; nothing more is sent or received.
AbortPoll(m) ==
  /\ m \in MayQuit
  /\ Polling(m)
  /\ pc' = [pc EXCEPT ![m] = IF @ = "poll" THEN "gone" ELSE "aborted"]
  /\ UNCHANGED <<maketic, gametic, send_window, recv_window, player, due,
                 cmd_buf, net, made>>

\* m has left the game; "aborted" is that it was in SwapCommand.
Gone(m) == pc[m] \in {"gone", "aborted"}

\* time(NULL) advances: every earlier send of m is now more than 0 s old.
ClockTick(m) ==
  /\ ~Gone(m)
  /\ due[m] # Other(m)
  /\ due' = [due EXCEPT ![m] = Other(m)]
  /\ UNCHANGED <<maketic, gametic, send_window, recv_window, player, pc,
                 cmd_buf, net, made>>

\* The network loses a packet.
LosePacket(m, n, pkt) ==
  /\ pkt \in net[m][n]
  /\ net' = [net EXCEPT ![m][n] = @ \ {pkt}]
  /\ UNCHANGED <<maketic, gametic, send_window, recv_window, player, due, pc,
                 cmd_buf, made>>

\* Sopwith exits and main() returns: nothing more is sent or received.
Quit(m) ==
  /\ m \in MayQuit
  /\ pc[m] = "idle"
  /\ pc' = [pc EXCEPT ![m] = "gone"]
  /\ UNCHANGED <<maketic, gametic, send_window, recv_window, player, due,
                 cmd_buf, net, made>>

Next ==
  \/ \E m \in Node :
       \/ \E cmd \in Cmd : SwapCommand(m, cmd)
       \/ SwapReturn(m)
       \/ ReceivePackets(m)
       \/ PollEnd(m)
       \/ AbortPoll(m)
       \/ ClockTick(m)
       \/ Quit(m)
  \/ \E m, n \in Node : \E pkt \in net[n][m] :
       \/ ReceivePacket(m, n, pkt)
       \/ DiscardPacket(m, n, pkt)
       \/ LosePacket(n, m, pkt)

Spec == Init /\ [][Next]_vars

\* m sends n its packet again, after a second in which it sent none.
Resend(m, n) == n \in due[m] /\ n \notin due'[m]

\* m gets a packet of n that the network does not repeat any more.
Deliver(m, n) ==
  \E pkt \in net[n][m] : ReceivePacket(m, n, pkt) /\ pkt \notin net'[n][m]

\* The clocks run, no machine stops inside this code, Sopwith's main loop
\* keeps polling the disk and keeps playing, and a packet that is sent again
\* and again to a machine that is still there gets through again and again.
Fairness ==
  /\ \A m \in Node :
       /\ WF_vars(ClockTick(m))
       /\ WF_vars(ReceivePackets(m))
       /\ WF_vars(PollEnd(m))
       /\ WF_vars(SwapReturn(m))
       /\ SF_vars(\E cmd \in Cmd : SwapCommand(m, cmd))
  /\ \A m \in Node : \A n \in Other(m) :
       []<><<Resend(n, m)>>_vars =>
         []<><<Deliver(m, n)>>_vars \/ <>Gone(m)

FairSpec == Spec /\ Fairness
-----------------------------------------------------------------------------
(* Properties.                                                             *)

\* Every variable has its type; windows never leave their arrays.
TypeOK ==
  /\ maketic \in [Node -> Nat]
  /\ gametic \in [Node -> Nat]
  /\ send_window \in [Node -> [Node -> Window]]
  /\ recv_window \in [Node -> [Node -> Window]]
  /\ player \in [Node -> [Node -> Player \cup {-1}]]
  /\ due \in [Node -> SUBSET Node]
  /\ pc \in [Node -> {"idle", "poll", "wait", "waitpoll", "gone", "aborted"}]
  /\ cmd_buf \in [Node -> [Player -> Cmd]]
  /\ net \in [Node -> [Node -> SUBSET Packet]]
  /\ made \in [Node -> Seq(Cmd)]

\* The game stays synchronised: the commands a machine ran its latest tic
\* with are the ones the players made for that tic, and nothing for the
\* player numbers nobody has.  (SwapCommand's cmds[] after any mixture of
\* lost, repeated and reordered packets.)
RanWhatWasMade ==
  \A m \in Node, p \in Player :
    gametic[m] > 0 =>
      cmd_buf[m][p] = IF p \in Node THEN made[p][gametic[m]] ELSE 0

\* No window ever outgrows its array, and so neither SwapCommand's
\* cmds[new_len - 1] is out of bounds nor does ReceivePacket's `break'
\* throw away a command; two pipelines is in fact the most a window holds.
WindowsFit ==
  \A m, n \in Node : /\ recv_window[m][n].len <= 2 * DELAY
                     /\ m # n => send_window[m][n].len <= 2 * DELAY

\* What m would have of n's commands, had a packet of m reached n and then
\* one of n reached m.
AfterExchange(m, n) ==
  LET rw == recv_window[m][n]
      sw == Acknowledge(send_window[n][m], End(rw))
      pkt == MakePacket(n, sw, recv_window[n][m])
  IN  IF pkt.start < rw.start THEN rw ELSE Store(rw, pkt)

\* A sender forgets a command (ReceivePacket's ack handling) only when the
\* receiver has it: the oldest command it can still send is never beyond
\* the first one the receiver lacks.  And so whatever was lost, one packet
\* each way brings every machine all that any other has made.
NothingForgotten ==
  \A m \in Node : \A n \in Other(m) :
    LET w == AfterExchange(m, n)
    IN  /\ send_window[n][m].start <= End(recv_window[m][n])
        /\ End(w) = Len(made[n])
        /\ \A j \in 0 .. w.len - 1 : w.cmds[j] = made[n][w.start + j + 1]

\* No packet on its way would leave a hole of unwritten slots in the
\* receive window that ReceivePacket's `len = max(...)' would expose.
NoHole ==
  \A m, n \in Node : \A pkt \in net[m][n] :
    pkt.start <= End(recv_window[n][m])

\* The pipeline bounds how far one machine can run ahead of another.
BoundedSkew == \A m, n \in Node : gametic[m] <= gametic[n] + DELAY

\* A command once received for a tic is never replaced by another one, and
\* neither acknowledgements nor received commands are ever taken back.
NeverTakenBack ==
  [][\A m, n \in Node :
       LET w == recv_window[m][n]
           v == recv_window'[m][n]
       IN  /\ End(w) <= End(v)
           /\ send_window[m][n].start <= send_window'[m][n].start
           /\ \A t \in v.start .. End(w) - 1 :
                v.cmds[t - v.start] = w.cmds[t - w.start]]_vars

\* What protocol.h says of SwapCommand, that it hands control back to its
\* caller (with false, if the commands have not been received), unless the game
\* ends in it.
SwapCommandReturns ==
  \A m \in Node :
    pc[m] \in {"wait", "waitpoll"} ~> pc[m] = "idle" \/ Gone(m)

\* The game goes on: every machine runs every tic.
GameGoesOn ==
  \A m \in Node :
    <>(gametic[m] = MaxTic \/ \E n \in Node : Gone(n))

\* The pipeline implements the lockstep the game relies on.
Abstract == INSTANCE Lockstep WITH log <- made, tic <- gametic, out <- cmd_buf
ImplementsLockstep == Abstract!Spec

=============================================================================
