--------------------------- MODULE ProtocolProofs ---------------------------
(***************************************************************************)
(* Proofs about protocol.c for any number of machines, any DELAY and any   *)
(* MAX_DELAY of at least twice DELAY, any game length and any network: its *)
(* invariant, what follows from it, and that it implements Lockstep.       *)
(***************************************************************************)
EXTENDS Protocol, WellFoundedInduction, TLAPS

-----------------------------------------------------------------------------
(* The inductive invariant.                                                *)

\* In SwapCommand, or ended there.
Swapping(m) == pc[m] \in {"wait", "waitpoll", "aborted"}

\* The first len entries of the array cmds are the commands of the log s for
\* the tics from `start' on.
Carries(start, len, cmds, s) ==
  /\ start + len <= Len(s)
  /\ \A j \in Slot : j < len => cmds[j] = s[start + j + 1]

Holds(w, s) == Carries(w.start, w.len, w.cmds, s)

\* A machine has made the commands up to maketic - 1, and the one for
\* maketic while it is in SwapCommand.
Pipeline ==
  \A m \in Node :
    /\ maketic[m] = gametic[m] + DELAY
    /\ Swapping(m) => Len(made[m]) = gametic[m] + DELAY
    /\ ~Swapping(m) => Len(made[m]) = gametic[m] + DELAY - 1

\* nodes[0]: empty up to the first SwapCommand, which finds the zeroes of
\* the static array below its command; complete from then on.
OwnWindow ==
  \A m \in Node :
    LET w == recv_window[m][m]
    IN  /\ w.start = gametic[m]
        /\ player[m][m] = m
        /\ \/ w.start + w.len = Len(made[m]) /\ Holds(w, made[m])
           \/ /\ ~Swapping(m)
              /\ w.start = 0
              /\ w.len = 0
              /\ w.cmds = EmptyArray
              /\ made[m] = NoCmds

\* What m keeps to send to n: all of its log that n has not acknowledged.
\* The acknowledgements lag at most DELAY tics behind n's own commands.
SendWindows ==
  \A m, n \in Node :
    LET w == send_window[m][n]
    IN  m # n =>
        /\ w.start + w.len = Len(made[m])
        /\ Holds(w, made[m])
        /\ w.start <= recv_window[n][m].start + recv_window[n][m].len
        /\ recv_window[m][n].start + recv_window[m][n].len
             <= w.start + DELAY

\* What m has of n's log, from the next tic it runs on.
RecvWindows ==
  \A m, n \in Node :
    LET w == recv_window[m][n]
    IN  m # n =>
        /\ w.start = gametic[m]
        /\ Holds(w, made[n])
        /\ player[m][n] \in {-1, n}
        /\ w.len > 0 => player[m][n] = n

\* A packet that m once sent n, however old.
Sound(m, n, pkt) ==
  /\ m # n
  /\ Carries(pkt.start, pkt.num_cmds, pkt.cmds, made[m])
  /\ pkt.start <= recv_window[n][m].start + recv_window[n][m].len
  /\ pkt.ack <= recv_window[m][n].start + recv_window[m][n].len
  /\ pkt.start + pkt.num_cmds <= pkt.ack + DELAY
  /\ pkt.player = m

Packets == \A m, n \in Node : \A pkt \in net[m][n] : Sound(m, n, pkt)

Destinations == \A m \in Node : due[m] \subseteq Other(m)

Inv ==
  /\ TypeOK
  /\ Pipeline
  /\ OwnWindow
  /\ SendWindows
  /\ RecvWindows
  /\ Packets
  /\ Destinations
  /\ RanWhatWasMade

-----------------------------------------------------------------------------
(* The window operations.                                                  *)

\* A window or packet that carries part of a log carries it when the log
\* has grown.
LEMMA CarriesGrown ==
  ASSUME NEW start \in Nat, NEW len \in 0 .. MAX_DELAY,
         NEW cmds, NEW s \in Seq(Cmd), NEW cmd \in Cmd,
         Carries(start, len, cmds, s)
  PROVE  Carries(start, len, cmds, Append(s, cmd))
<1>1. Append(s, cmd) \in Seq(Cmd) /\ Len(Append(s, cmd)) = Len(s) + 1
  OBVIOUS
<1>2. \A i \in 1 .. Len(s) : Append(s, cmd)[i] = s[i]
  OBVIOUS
<1>3. \A j \in Slot : j < len => start + j + 1 \in 1 .. Len(s)
  BY DelayAssumption DEF Carries, Slot
<1> QED
  BY <1>1, <1>2, <1>3, DelayAssumption DEF Carries, Slot

\* Register adds the command for the tic after the window's last.
LEMMA RegisterHolds ==
  ASSUME NEW w \in Window, NEW s \in Seq(Cmd), NEW cmd \in Cmd,
         Holds(w, s), w.start + w.len = Len(s), w.len < MAX_DELAY
  PROVE  LET v == Register(w, Len(s) + 1, cmd)
         IN  /\ Lacks(w, Len(s) + 1)
             /\ v \in Window
             /\ v.start = w.start
             /\ v.len = w.len + 1
             /\ Holds(v, Append(s, cmd))
<1> DEFINE v == Register(w, Len(s) + 1, cmd)
<1>1. /\ w.start \in Nat /\ w.len \in 0 .. MAX_DELAY
      /\ w.cmds \in [Slot -> Cmd] /\ Len(s) \in Nat
  BY DEF Window
<1>2. /\ Lacks(w, Len(s) + 1)
      /\ Len(s) + 1 - w.start = w.len + 1
      /\ Len(s) + 1 - w.start - 1 = w.len
  BY SMTT(30), <1>1 DEF Lacks
<1>3. v = [start |-> w.start, len |-> w.len + 1,
           cmds |-> [w.cmds EXCEPT ![w.len] = cmd]]
  <2>1. \A tics : Lacks(w, tics) =>
          Register(w, tics, cmd) =
            [start |-> w.start, len |-> tics - w.start,
             cmds |-> [w.cmds EXCEPT ![tics - w.start - 1] = cmd]]
    BY DEF Register
  <2> DEFINE tics == Len(s) + 1
  <2>2. v = Register(w, tics, cmd) /\ Lacks(w, tics)
    BY <1>2
  <2>3. tics - w.start = w.len + 1 /\ tics - w.start - 1 = w.len
    BY <1>1
  <2> HIDE DEF v, tics
  <2> QED
    BY <2>1, <2>2, <2>3
<1>4. w.len \in Slot
  BY <1>1, DelayAssumption DEF Slot
<1>5. v \in Window /\ v.start = w.start /\ v.len = w.len + 1
  BY <1>1, <1>3, DelayAssumption DEF Window
<1>6. Carries(w.start, w.len, w.cmds, Append(s, cmd))
  BY <1>1, CarriesGrown DEF Holds
<1>7. Len(Append(s, cmd)) = Len(s) + 1 /\ Append(s, cmd)[Len(s) + 1] = cmd
  OBVIOUS
<1>8. \A j \in Slot : j < w.len + 1 =>
        v.cmds[j] = Append(s, cmd)[w.start + j + 1]
  <2> SUFFICES ASSUME NEW j \in Slot, j < w.len + 1
               PROVE  v.cmds[j] = Append(s, cmd)[w.start + j + 1]
    OBVIOUS
  <2>1. v.cmds = [w.cmds EXCEPT ![w.len] = cmd]
    BY <1>3
  <2>2. CASE j = w.len
    BY <1>1, <1>4, <1>7, <2>1, <2>2
  <2>3. CASE j # w.len
    <3>1. j < w.len
      BY <1>1, <2>3, DelayAssumption DEF Slot
    <3> QED
      BY <1>1, <1>6, <2>1, <2>3, <3>1 DEF Carries
  <2> QED
    BY <2>2, <2>3
<1>9. Holds(v, Append(s, cmd))
  <2> HIDE DEF v
  <2>1. v.start + v.len <= Len(Append(s, cmd))
    BY <1>1, <1>5, <1>7
  <2> QED
    BY <1>5, <1>8, <2>1 DEF Holds, Carries
<1> QED
  BY <1>2, <1>5, <1>9

\* The commands of the tics before the first command.
LEMMA NoCmdsSeq == NoCmds \in Seq(Cmd) /\ Len(NoCmds) = DELAY - 1
<1>1. NoCmds \in [1 .. DELAY - 1 -> Cmd] /\ DELAY - 1 \in Nat
  BY DelayAssumption, CmdAssumption DEF NoCmds
<1> QED
  BY <1>1

\* The first Register of nodes[0] exposes DELAY - 1 zeroes.
LEMMA RegisterFirst ==
  ASSUME NEW w \in Window, NEW cmd \in Cmd,
         w.start = 0, w.len = 0, w.cmds = EmptyArray
  PROVE  LET v == Register(w, DELAY, cmd)
         IN  /\ v \in Window
             /\ v.start = 0
             /\ v.len = DELAY
             /\ Holds(v, Append(NoCmds, cmd))
<1> DEFINE v == Register(w, DELAY, cmd)
<1>1. Lacks(w, DELAY) /\ DELAY - w.start = DELAY
  BY DelayAssumption DEF Lacks
<1>2. v = [start |-> 0, len |-> DELAY,
           cmds |-> [EmptyArray EXCEPT ![DELAY - 1] = cmd]]
  BY <1>1, DelayAssumption DEF Register
<1>3. EmptyArray \in [Slot -> Cmd] /\ DELAY - 1 \in Slot
  BY DelayAssumption, CmdAssumption DEF EmptyArray, Slot
<1>4. v \in Window /\ v.start = 0 /\ v.len = DELAY
  BY <1>2, <1>3, DelayAssumption DEF Window
<1>5. NoCmds \in Seq(Cmd) /\ Len(NoCmds) = DELAY - 1
  BY NoCmdsSeq
<1>6. /\ Len(Append(NoCmds, cmd)) = DELAY
      /\ Append(NoCmds, cmd)[DELAY] = cmd
      /\ \A i \in 1 .. DELAY - 1 : Append(NoCmds, cmd)[i] = 0
  <2>1. Len(NoCmds) + 1 = DELAY
    BY <1>5, DelayAssumption
  <2>2. \A i \in 1 .. DELAY - 1 : NoCmds[i] = 0
    BY DEF NoCmds
  <2> QED
    BY <1>5, <2>1, <2>2
<1>7. \A j \in Slot : j < DELAY => v.cmds[j] = Append(NoCmds, cmd)[0 + j + 1]
  BY <1>2, <1>3, <1>6, DelayAssumption DEF EmptyArray, Slot
<1> HIDE DEF v
<1>8. Holds(v, Append(NoCmds, cmd))
  <2>1. v.start + v.len <= Len(Append(NoCmds, cmd))
    BY <1>4, <1>6, DelayAssumption
  <2> QED
    BY <1>4, <1>7, <2>1 DEF Holds, Carries
<1> QED
  BY <1>4, <1>8 DEF v

\* Where a window that starts at b and is l long is cut when c is acknowledged.
LEMMA CutPoint ==
  ASSUME NEW b \in Nat, NEW l \in Nat, NEW c \in Nat, NEW M \in Nat,
         l <= M, c > b, c <= b + l
  PROVE  b + l - c \in 0 .. M /\ c - b \in Nat /\ (b + l - c) + (c - b) = l
OBVIOUS

\* Acknowledge moves the start of the window and leaves its end.
LEMMA AcknowledgeHolds ==
  ASSUME NEW w \in Window, NEW s \in Seq(Cmd), NEW ack \in Nat,
         Holds(w, s), ack <= w.start + w.len
  PROVE  LET v == Acknowledge(w, ack)
         IN  /\ v \in Window
             /\ w.start <= v.start
             /\ ack <= v.start
             /\ v.start = w.start \/ v.start = ack
             /\ v.start + v.len = w.start + w.len
             /\ Holds(v, s)
<1> DEFINE v == Acknowledge(w, ack)
<1>1. /\ w.start \in Nat /\ w.len \in 0 .. MAX_DELAY
      /\ w.cmds \in [Slot -> Cmd] /\ Len(s) \in Nat
  BY DEF Window
<1>2. CASE ~(ack > w.start)
  <2>1. v = w
    BY <1>2 DEF Acknowledge
  <2> QED
    BY <1>1, <1>2, <2>1
<1>3. CASE ack > w.start
  <2> DEFINE keep == w.start + w.len - ack
             cnt == ack - w.start
             moved == MemMove(w.cmds, cnt, keep)
  <2>1. v = [start |-> ack, len |-> keep, cmds |-> moved]
    BY <1>1, <1>3 DEF Acknowledge, End
  <2>2. /\ keep \in 0 .. MAX_DELAY
        /\ cnt \in Nat
        /\ \A j \in Slot : j < keep => j + cnt \in Slot /\ j + cnt < w.len
    <3>1. /\ MAX_DELAY \in Nat /\ w.start \in Nat /\ w.len \in Nat
          /\ w.len <= MAX_DELAY /\ ack \in Nat
          /\ ack <= w.start + w.len /\ ack > w.start
      BY <1>1, <1>3, DelayAssumption
    <3>2. keep \in 0 .. MAX_DELAY /\ cnt \in Nat /\ keep + cnt = w.len
      BY <3>1, CutPoint
    <3> HIDE DEF keep, cnt
    <3>3. ASSUME NEW j \in Slot, j < keep
          PROVE  j + cnt \in Slot /\ j + cnt < w.len
      <4>1. j \in Nat /\ keep \in Nat
        BY <3>2 DEF Slot
      <4>2. j + cnt \in Nat /\ j + cnt < w.len /\ j + cnt < MAX_DELAY
        BY <3>1, <3>2, <3>3, <4>1
      <4> QED
        BY <3>1, <4>2 DEF Slot
    <3> QED
      BY <3>2, <3>3
  <2>3. moved \in [Slot -> Cmd]
    BY <1>1, <2>2 DEF MemMove
  <2>4. v \in Window /\ v.start = ack /\ v.len = keep /\ v.cmds = moved
    BY <2>1, <2>2, <2>3 DEF Window
  <2>5. \A j \in Slot : j < keep => moved[j] = s[ack + j + 1]
    <3> SUFFICES ASSUME NEW j \in Slot, j < keep
                 PROVE  moved[j] = s[ack + j + 1]
      OBVIOUS
    <3>1. moved[j] = w.cmds[j + cnt]
      BY DEF MemMove
    <3>2. w.cmds[j + cnt] = s[w.start + (j + cnt) + 1]
      BY <2>2 DEF Holds, Carries
    <3>3. w.start + (j + cnt) + 1 = ack + j + 1
      BY SMTT(30), <1>1, DelayAssumption DEF Slot
    <3> QED
      BY <3>1, <3>2, <3>3
  <2>6. ack + keep <= Len(s)
    BY <1>1 DEF Holds, Carries
  <2>7. Holds(v, s)
    BY <2>4, <2>5, <2>6 DEF Holds, Carries
  <2> QED
    BY <1>1, <1>3, <2>4, <2>7
<1> QED
  BY <1>2, <1>3

\* Store, of a packet that leaves no hole and ends within the array, makes
\* the window carry what either carried.
LEMMA StoreHolds ==
  ASSUME NEW w \in Window, NEW pkt \in Packet, NEW s \in Seq(Cmd),
         Holds(w, s),
         Carries(pkt.start, pkt.num_cmds, pkt.cmds, s),
         w.start <= pkt.start, pkt.start <= w.start + w.len,
         Len(s) <= w.start + MAX_DELAY
  PROVE  LET v == Store(w, pkt)
         IN  /\ v \in Window
             /\ v.start = w.start
             /\ w.len <= v.len
             /\ pkt.start + pkt.num_cmds <= v.start + v.len
             /\ \/ v.len = w.len
                \/ v.start + v.len = pkt.start + pkt.num_cmds
             /\ Holds(v, s)
             /\ \A j \in Slot : j < w.len => v.cmds[j] = w.cmds[j]
<1> DEFINE v == Store(w, pkt)
           si == pkt.start - w.start
           copied == {j \in Slot : j >= si /\ j < si + pkt.num_cmds}
<1>1. /\ w.start \in Nat /\ w.len \in 0 .. MAX_DELAY
      /\ w.cmds \in [Slot -> Cmd] /\ Len(s) \in Nat
      /\ pkt.start \in Nat /\ pkt.num_cmds \in 0 .. MAX_DELAY
      /\ pkt.cmds \in [Slot -> Cmd]
      /\ MAX_DELAY \in Nat
  BY DelayAssumption DEF Window, Packet
<1>2. si \in Nat /\ si <= w.len /\ si + pkt.num_cmds <= MAX_DELAY
  BY SMTT(30), <1>1 DEF Carries
<1>3. v.start = w.start
  BY DEF Store
<1>4. v.len = IF copied # {} /\ si + pkt.num_cmds > w.len
              THEN si + pkt.num_cmds ELSE w.len
  BY <1>1, <1>2 DEF Store
<1>5. v.cmds = [j \in Slot |-> IF j \in copied THEN pkt.cmds[j - si]
                              ELSE w.cmds[j]]
  BY DEF Store
<1>6. si + pkt.num_cmds > w.len => copied # {}
  <2> SUFFICES ASSUME si + pkt.num_cmds > w.len
               PROVE  si \in copied
    OBVIOUS
  <2> QED
    BY SMTT(30), <1>1, <1>2 DEF Slot
<1>7. /\ v.len \in 0 .. MAX_DELAY
      /\ w.len <= v.len
      /\ si + pkt.num_cmds <= v.len
      /\ v.len = w.len \/ v.len = si + pkt.num_cmds
  BY SMTT(30), <1>1, <1>2, <1>4, <1>6
<1>8. \A j \in copied : j - si \in Slot /\ j - si < pkt.num_cmds
  <2> SUFFICES ASSUME NEW j \in copied
               PROVE  j - si \in Slot /\ j - si < pkt.num_cmds
    OBVIOUS
  <2>1. /\ j \in Nat /\ j >= si /\ j < si + pkt.num_cmds
        /\ pkt.num_cmds \in Nat /\ pkt.num_cmds <= MAX_DELAY
    BY <1>1 DEF Slot
  <2> HIDE DEF si
  <2> QED
    BY SMTT(30), <1>1, <1>2, <2>1 DEF Slot
<1>9. v.cmds \in [Slot -> Cmd]
  BY <1>1, <1>5, <1>8
<1>10. v \in Window
  <2>1. v = [start |-> v.start, len |-> v.len, cmds |-> v.cmds]
    BY DEF Store
  <2> QED
    BY <2>1, <1>1, <1>3, <1>7, <1>9 DEF Window
<1>11. \A j \in copied : v.cmds[j] = s[w.start + j + 1]
  <2> SUFFICES ASSUME NEW j \in copied
               PROVE  v.cmds[j] = s[w.start + j + 1]
    OBVIOUS
  <2>1. v.cmds[j] = pkt.cmds[j - si]
    BY <1>5
  <2>2. pkt.cmds[j - si] = s[pkt.start + (j - si) + 1]
    BY <1>8 DEF Carries
  <2>3. pkt.start + (j - si) + 1 = w.start + j + 1
    BY SMTT(30), <1>1 DEF Slot
  <2> QED
    BY <2>1, <2>2, <2>3
<1>12. \A j \in Slot : j < w.len => w.cmds[j] = s[w.start + j + 1]
  BY DEF Holds, Carries
<1>13. \A j \in Slot : j \notin copied => v.cmds[j] = w.cmds[j]
  BY <1>5
<1>14. \A j \in Slot : j < v.len => j \in copied \/ j < w.len
  <2> SUFFICES ASSUME NEW j \in Slot, j < v.len, j >= w.len
               PROVE  j >= si /\ j < si + pkt.num_cmds
    BY <1>1 DEF Slot
  <2>1. /\ j \in Nat /\ w.len \in Nat /\ v.len = si + pkt.num_cmds
        /\ pkt.num_cmds \in Nat
    BY <1>1, <1>7 DEF Slot
  <2> HIDE DEF si, v
  <2> QED
    BY <1>2, <2>1
<1>15. w.start + v.len <= Len(s)
  BY SMTT(30), <1>1, <1>2, <1>7 DEF Holds, Carries
<1>16. Holds(v, s)
  BY <1>3, <1>11, <1>12, <1>13, <1>14, <1>15 DEF Holds, Carries
<1>17. \A j \in Slot : j < w.len => v.cmds[j] = w.cmds[j]
  BY <1>11, <1>12, <1>13
<1>18. pkt.start + pkt.num_cmds <= v.start + v.len
  BY SMTT(30), <1>1, <1>3, <1>7
<1>19. v.len = w.len \/ v.start + v.len = pkt.start + pkt.num_cmds
  BY SMTT(30), <1>1, <1>3, <1>7
<1> QED
  BY <1>3, <1>7, <1>10, <1>16, <1>17, <1>18, <1>19

\* Pop removes the first command.
LEMMA PopHolds ==
  ASSUME NEW w \in Window, NEW s \in Seq(Cmd), Holds(w, s), w.len > 0
  PROVE  LET v == Pop(w)
         IN  /\ v \in Window
             /\ v.start = w.start + 1
             /\ v.len = w.len - 1
             /\ Holds(v, s)
             /\ w.cmds[0] = s[w.start + 1]
<1> DEFINE v == Pop(w)
           moved == MemMove(w.cmds, 1, w.len - 1)
<1>1. /\ w.start \in Nat /\ w.len \in 1 .. MAX_DELAY
      /\ w.cmds \in [Slot -> Cmd] /\ Len(s) \in Nat /\ MAX_DELAY \in Nat
  BY DelayAssumption DEF Window
<1>2. v = [start |-> w.start + 1, len |-> w.len - 1, cmds |-> moved]
  BY DEF Pop
<1>3. \A j \in Slot : j < w.len - 1 => j + 1 \in Slot /\ j + 1 < w.len
  BY <1>1 DEF Slot
<1>4. moved \in [Slot -> Cmd]
  BY <1>1, <1>3 DEF MemMove
<1>5. v \in Window /\ v.start = w.start + 1 /\ v.len = w.len - 1
  BY <1>1, <1>2, <1>4 DEF Window
<1>6. \A j \in Slot : j < w.len - 1 => moved[j] = s[(w.start + 1) + j + 1]
  <2> SUFFICES ASSUME NEW j \in Slot, j < w.len - 1
               PROVE  moved[j] = s[(w.start + 1) + j + 1]
    OBVIOUS
  <2>1. moved[j] = w.cmds[j + 1]
    BY DEF MemMove
  <2>2. w.cmds[j + 1] = s[w.start + (j + 1) + 1]
    BY <1>3 DEF Holds, Carries
  <2>3. w.start \in Int /\ j \in Int
    BY <1>1 DEF Slot
  <2>4. w.start + (j + 1) + 1 = (w.start + 1) + j + 1
    BY SMTT(30), <2>3
  <2> QED
    BY <2>1, <2>2, <2>4
<1>7. Holds(v, s)
  BY <1>1, <1>2, <1>6 DEF Holds, Carries
<1>8. w.cmds[0] = s[w.start + 1]
  <2>1. 0 \in Slot /\ w.start + 0 + 1 = w.start + 1
    BY <1>1 DEF Slot
  <2> QED
    BY <1>1, <2>1 DEF Holds, Carries
<1> QED
  BY <1>5, <1>7, <1>8

-----------------------------------------------------------------------------
(* Consequences of the invariant.                                          *)

\* The constants are numbers, and machines are players.
LEMMA NodeFacts ==
  /\ \A m \in Node : m \in Nat /\ m \in Player /\ m # -1
  /\ DELAY \in Nat /\ DELAY > 0 /\ MAX_DELAY \in Nat
  /\ 2 * DELAY <= MAX_DELAY
BY NodesAssumption, DelayAssumption DEF Node, Player

\* The numbers in a state that satisfies the invariant.
LEMMA Numbers ==
  ASSUME Inv, NEW m \in Node, NEW n \in Node
  PROVE  /\ gametic[m] \in Nat /\ maketic[m] \in Nat
         /\ made[m] \in Seq(Cmd) /\ Len(made[m]) \in Nat
         /\ send_window[m][n] \in Window
         /\ send_window[m][n].start \in Nat
         /\ send_window[m][n].len \in 0 .. MAX_DELAY
         /\ recv_window[m][n] \in Window
         /\ recv_window[m][n].start \in Nat
         /\ recv_window[m][n].len \in 0 .. MAX_DELAY
         /\ net[m][n] \subseteq Packet
         /\ player[m][n] \in Player \cup {-1}
<1>1. /\ gametic[m] \in Nat /\ maketic[m] \in Nat
      /\ made[m] \in Seq(Cmd)
      /\ send_window[m][n] \in Window
      /\ recv_window[m][n] \in Window
      /\ net[m][n] \subseteq Packet
      /\ player[m][n] \in Player \cup {-1}
  BY DEF Inv, TypeOK
<1> QED
  BY SMTT(30), <1>1 DEF Window

\* The pipelines of two machines are at most two DELAYs apart.
LEMMA Bounds ==
  ASSUME Inv, NEW m \in Node, NEW n \in Node, m # n
  PROVE  /\ gametic[m] <= gametic[n] + DELAY
         /\ Len(made[n]) <= gametic[m] + 2 * DELAY
         /\ Len(made[n]) <= gametic[n] + DELAY
         /\ recv_window[m][n].start = gametic[m]
         /\ gametic[m] <= Len(made[n])
         /\ recv_window[m][n].len <= 2 * DELAY
         /\ send_window[m][n].len <= 2 * DELAY
         /\ send_window[m][n].len + gametic[m]
              <= Len(made[m]) + DELAY
<1>1. \A a \in Node : gametic[a] \in Nat /\ Len(made[a]) \in Nat
                      /\ Len(made[a]) <= gametic[a] + DELAY
                      /\ Len(made[a]) >= gametic[a] + DELAY - 1
  <2> TAKE a \in Node
  <2>1. gametic[a] \in Nat /\ Len(made[a]) \in Nat
    BY Numbers
  <2>2. Len(made[a]) = gametic[a] + DELAY
        \/ Len(made[a]) = gametic[a] + DELAY - 1
    BY Zenon DEF Inv, Pipeline
  <2> QED
    BY <2>1, <2>2, NodeFacts
<1>2. \A a, b \in Node : a # b =>
        /\ recv_window[a][b].start = gametic[a]
        /\ recv_window[a][b].start + recv_window[a][b].len <= Len(made[b])
        /\ recv_window[a][b].len \in Nat
  BY Numbers, NodeFacts DEF Inv, RecvWindows, Holds, Carries
<1>3. /\ send_window[m][n].start \in Nat
      /\ send_window[m][n].len \in Nat
      /\ send_window[m][n].start + send_window[m][n].len = Len(made[m])
      /\ recv_window[m][n].start + recv_window[m][n].len
           <= send_window[m][n].start + DELAY
  BY SMTT(30), Numbers, NodeFacts DEF Inv, SendWindows
<1> DEFINE gm == gametic[m]
           gn == gametic[n]
           lm == Len(made[m])
           ln == Len(made[n])
           rm == recv_window[m][n].len
           rn == recv_window[n][m].len
           ss == send_window[m][n].start
           sl == send_window[m][n].len
<1>4. /\ gm \in Nat /\ gn \in Nat /\ lm \in Nat /\ ln \in Nat
      /\ rm \in Nat /\ rn \in Nat /\ ss \in Nat /\ sl \in Nat
      /\ lm <= gm + DELAY /\ ln <= gn + DELAY
      /\ gm + rm <= ln /\ gn + rn <= lm
      /\ ss + sl = lm /\ gm + rm <= ss + DELAY
      /\ recv_window[m][n].start = gm
  BY <1>1, <1>2, <1>3
<1> HIDE DEF gm, gn, lm, ln, rm, rn, ss, sl
<1>5. /\ gm <= gn + DELAY /\ ln <= gm + 2 * DELAY /\ gm <= ln
      /\ rm <= 2 * DELAY /\ sl <= 2 * DELAY /\ sl + gm <= lm + DELAY
  BY <1>4, NodeFacts
<1> QED
  BY <1>4, <1>5 DEF gm, gn, lm, ln, rm, rn, ss, sl

-----------------------------------------------------------------------------
(* Every step preserves the invariant.                                     *)

\* What SendPacket puts into a packet.
LEMMA PacketMade ==
  ASSUME NEW m \in Node, NEW sw \in Window, NEW rw \in Window,
         NEW s \in Seq(Cmd), player[m][m] = m,
         Holds(sw, s), sw.start + sw.len = Len(s),
         Len(s) <= rw.start + DELAY
  PROVE  LET p == MakePacket(m, sw, rw)
         IN  /\ p \in Packet
             /\ p.start = sw.start
             /\ p.ack = rw.start + rw.len
             /\ p.player = m
             /\ Carries(p.start, p.num_cmds, p.cmds, s)
             /\ p.start + p.num_cmds <= p.ack + DELAY
<1> DEFINE p == MakePacket(m, sw, rw)
           cmds == [j \in Slot |-> IF j < sw.len THEN sw.cmds[j] ELSE 0]
<1>1. /\ sw.start \in Nat /\ sw.len \in 0 .. MAX_DELAY
      /\ sw.cmds \in [Slot -> Cmd]
      /\ rw.start \in Nat /\ rw.len \in 0 .. MAX_DELAY /\ Len(s) \in Nat
  BY DEF Window
<1>2. p = [start |-> sw.start, ack |-> rw.start + rw.len, player |-> m,
           num_cmds |-> sw.len, cmds |-> cmds]
  BY DEF MakePacket, End
<1>3. cmds \in [Slot -> Cmd]
  BY <1>1, CmdAssumption
<1>4. rw.start + rw.len \in Nat /\ m \in Player
  BY SMTT(30), <1>1, NodeFacts
<1>5. \A j \in Slot : j < sw.len => cmds[j] = s[sw.start + j + 1]
  BY DEF Holds, Carries
<1> HIDE DEF cmds
<1>6. p \in Packet
  BY <1>1, <1>2, <1>3, <1>4 DEF Packet
<1>7. Carries(p.start, p.num_cmds, p.cmds, s)
  BY <1>1, <1>2, <1>5 DEF Carries
<1>8. p.start + p.num_cmds <= p.ack + DELAY
  BY SMTT(30), <1>1, <1>2, NodeFacts
<1> QED
  BY <1>2, <1>6, <1>7, <1>8

\* What SendPacket does to the network.
LEMMA SendEffect ==
  ASSUME TypeOK, Destinations, NEW m \in Node, NEW dests, NEW sw,
         dests \subseteq Other(m),
         \A n \in dests : MakePacket(m, sw[n], recv_window[m][n]) \in Packet,
         SendPacket(m, dests, sw)
  PROVE  /\ net' \in [Node -> [Node -> SUBSET Packet]]
         /\ due' \in [Node -> SUBSET Node]
         /\ Destinations'
         /\ \A a, b \in Node : \A pkt \in net'[a][b] :
              \/ pkt \in net[a][b]
              \/ /\ a = m
                 /\ b \in dests
                 /\ pkt = MakePacket(m, sw[b], recv_window[m][b])
<1> DEFINE to(n) == IF n \in dests
                    THEN NetSendPacket(m, n,
                           MakePacket(m, sw[n], recv_window[m][n]))
                    ELSE net[m][n]
<1>1. net \in [Node -> [Node -> SUBSET Packet]]
  BY DEF TypeOK
<1>2. net' = [net EXCEPT ![m] = [n \in Node |-> to(n)]]
  BY DEF SendPacket
<1>3. \A n \in Node :
        \/ to(n) = net[m][n]
        \/ /\ n \in dests
           /\ to(n) = net[m][n]
                        \cup {MakePacket(m, sw[n], recv_window[m][n])}
  BY DEF NetSendPacket
<1> HIDE DEF to
<1>4. \A n \in Node : to(n) \in SUBSET Packet
  BY <1>1, <1>3
<1>5. net' \in [Node -> [Node -> SUBSET Packet]]
  BY <1>1, <1>2, <1>4
<1>6. \A a, b \in Node : \A pkt \in net'[a][b] :
        \/ pkt \in net[a][b]
        \/ /\ a = m
           /\ b \in dests
           /\ pkt = MakePacket(m, sw[b], recv_window[m][b])
  BY <1>1, <1>2, <1>3
<1>7. due' \in [Node -> SUBSET Node] /\ Destinations'
  BY DEF SendPacket, TypeOK, Destinations
<1> QED
  BY <1>5, <1>6, <1>7

\* The invariant holds initially,
LEMMA InitInv == Init => Inv
<1> SUFFICES ASSUME Init PROVE Inv
  OBVIOUS
<1> USE DEF Init
<1>1. EmptyArray \in [Slot -> Cmd]
  BY CmdAssumption DEF EmptyArray
<1>2. NoCmds \in Seq(Cmd) /\ Len(NoCmds) = DELAY - 1
  BY NoCmdsSeq
<1>3. /\ [start |-> 0, len |-> DELAY - 1, cmds |-> EmptyArray] \in Window
      /\ [start |-> 0, len |-> 0, cmds |-> EmptyArray] \in Window
  BY <1>1, NodeFacts DEF Window
<1>4. \A m \in Node : Other(m) \in SUBSET Node
  BY DEF Other
<1>5. TypeOK
  <2>1. player \in [Node -> [Node -> Player \cup {-1}]]
    BY NodeFacts
  <2>2. send_window \in [Node -> [Node -> Window]]
    BY <1>3
  <2>3. recv_window \in [Node -> [Node -> Window]]
    BY <1>3
  <2>4. cmd_buf \in [Node -> [Player -> Cmd]]
    BY CmdAssumption
  <2>5. made \in [Node -> Seq(Cmd)] /\ due \in [Node -> SUBSET Node]
    BY <1>2, <1>4
  <2>6. /\ maketic \in [Node -> Nat] /\ gametic \in [Node -> Nat]
        /\ pc \in [Node -> {"idle", "poll", "wait", "waitpoll", "gone", "aborted"}]
        /\ net \in [Node -> [Node -> SUBSET Packet]]
    BY NodeFacts
  <2> QED
    BY <2>1, <2>2, <2>3, <2>4, <2>5, <2>6 DEF TypeOK
<1>6. \A m \in Node : ~Swapping(m)
  BY DEF Swapping
<1>7. Pipeline
  BY <1>2, <1>6, NodeFacts DEF Pipeline
<1>8. OwnWindow
  BY <1>6 DEF OwnWindow
<1>9. \A j \in Slot : j < DELAY - 1 => EmptyArray[j] = NoCmds[0 + j + 1]
  BY NodeFacts DEF Slot, EmptyArray, NoCmds
<1>10. /\ Carries(0, DELAY - 1, EmptyArray, NoCmds)
       /\ Carries(0, 0, EmptyArray, NoCmds)
  BY <1>2, <1>9, NodeFacts DEF Carries, Slot
<1>11. SendWindows
  BY <1>2, <1>10, NodeFacts DEF SendWindows, Holds
<1>12. RecvWindows
  BY <1>10 DEF RecvWindows, Holds
<1>13. Packets /\ Destinations
  BY DEF Packets, Destinations
<1>14. RanWhatWasMade
  BY DEF RanWhatWasMade
<1> QED
  BY <1>5, <1>7, <1>8, <1>11, <1>12, <1>13, <1>14 DEF Inv

\* Every window takes the new command, and the packets carry it.
LEMMA SwapCommandInv ==
  ASSUME Inv, NEW m \in Node, NEW cmd \in Cmd, SwapCommand(m, cmd)
  PROVE  Inv'
<1> DEFINE sw == [n \in Node |-> IF n = m THEN send_window[m][n]
                        ELSE Register(send_window[m][n], maketic[m], cmd)]
           dests == {n \in Other(m) : Lacks(send_window[m][n], maketic[m])}
           s == Append(made[m], cmd)
<1>1. /\ pc[m] = "idle"
      /\ recv_window' = [recv_window EXCEPT
                          ![m][m] = Register(recv_window[m][m], maketic[m], cmd)]
      /\ send_window' = [send_window EXCEPT ![m] = sw]
      /\ SendPacket(m, dests, sw)
      /\ pc' = [pc EXCEPT ![m] = "wait"]
      /\ made' = [made EXCEPT ![m] = s]
      /\ UNCHANGED <<maketic, gametic, player, cmd_buf>>
  BY DEF SwapCommand
<1> HIDE DEF sw, dests
<1>2. TypeOK
  BY DEF Inv
<1>3. /\ maketic[m] = Len(made[m]) + 1
      /\ Len(made[m]) = gametic[m] + DELAY - 1
      /\ Len(made[m]) \in Nat /\ gametic[m] \in Nat /\ made[m] \in Seq(Cmd)
  <2>1. ~Swapping(m)
    BY <1>1 DEF Swapping
  <2>2. /\ maketic[m] = gametic[m] + DELAY
        /\ Len(made[m]) = gametic[m] + DELAY - 1
    BY <2>1 DEF Inv, Pipeline
  <2>3. Len(made[m]) \in Nat /\ gametic[m] \in Nat /\ made[m] \in Seq(Cmd)
    BY Numbers
  <2> QED
    BY <2>2, <2>3, NodeFacts
<1>4. s \in Seq(Cmd) /\ Len(s) = Len(made[m]) + 1 /\ Len(s) = gametic[m] + DELAY
      /\ \A i \in 1 .. Len(made[m]) : s[i] = made[m][i]
  BY SMTT(30), <1>3, NodeFacts
<1>5. \A n \in Node : n # m =>
        /\ sw[n] \in Window
        /\ sw[n].start = send_window[m][n].start
        /\ sw[n].start + sw[n].len = Len(s)
        /\ Holds(sw[n], s)
  <2> SUFFICES ASSUME NEW n \in Node, n # m
               PROVE  /\ sw[n] \in Window
                      /\ sw[n].start = send_window[m][n].start
                      /\ sw[n].start + sw[n].len = Len(s)
                      /\ Holds(sw[n], s)
    OBVIOUS
  <2> DEFINE w == send_window[m][n]
  <2>1. w \in Window /\ w.start \in Nat /\ w.len \in 0 .. MAX_DELAY
    BY Numbers
  <2>2. Holds(w, made[m]) /\ w.start + w.len = Len(made[m])
    BY DEF Inv, SendWindows
  <2>3. w.len < MAX_DELAY
    <3>1. w.len + gametic[m] <= Len(made[m]) + DELAY
      BY Bounds
    <3>2. /\ Len(made[m]) + 1 = gametic[m] + DELAY /\ gametic[m] \in Nat
          /\ Len(made[m]) \in Nat /\ DELAY \in Nat /\ MAX_DELAY \in Nat
          /\ 2 * DELAY <= MAX_DELAY
      BY <1>3, NodeFacts
    <3>3. w.len \in Nat
      BY <2>1, NodeFacts
    <3> HIDE DEF w
    <3> QED
      BY <3>1, <3>2, <3>3
  <2>4. sw[n] = Register(w, Len(made[m]) + 1, cmd)
    BY <1>3 DEF sw
  <2> HIDE DEF w
  <2>5. /\ sw[n] \in Window /\ sw[n].start = w.start
        /\ sw[n].len = w.len + 1 /\ Holds(sw[n], s)
    BY SMTT(30), <1>3, <2>1, <2>2, <2>3, <2>4, RegisterHolds
  <2>6. sw[n].start + sw[n].len = Len(s)
    <3>1. /\ Len(s) = Len(made[m]) + 1 /\ w.start + w.len = Len(made[m])
          /\ w.start \in Nat /\ w.len \in Nat
      BY <1>4, <2>1, <2>2, NodeFacts
    <3> HIDE DEF s
    <3> QED
      BY <2>5, <3>1
  <2> QED
    BY <2>5, <2>6 DEF w
<1>6. LET v == Register(recv_window[m][m], maketic[m], cmd)
      IN  /\ v \in Window
          /\ v.start = gametic[m]
          /\ v.start + v.len = Len(s)
          /\ Holds(v, s)
  <2> DEFINE w == recv_window[m][m]
             v == Register(w, maketic[m], cmd)
  <2>1. w \in Window /\ w.start \in Nat /\ w.len \in 0 .. MAX_DELAY
        /\ w.start = gametic[m]
    BY Numbers DEF Inv, OwnWindow
  <2>2. CASE w.start + w.len = Len(made[m]) /\ Holds(w, made[m])
    <3>1. w.len < MAX_DELAY
      <4>1. /\ w.start + w.len = gametic[m] + DELAY - 1 /\ w.start = gametic[m]
            /\ w.len \in Nat /\ gametic[m] \in Nat
        BY <1>3, <2>1, <2>2, NodeFacts
      <4> HIDE DEF w
      <4> QED
        BY <4>1, NodeFacts
    <3>2. v = Register(w, Len(made[m]) + 1, cmd)
      BY <1>3
    <3> HIDE DEF w, v
    <3>3. v \in Window /\ v.start = w.start /\ v.len = w.len + 1 /\ Holds(v, s)
      BY <1>3, <2>1, <2>2, <3>1, <3>2, RegisterHolds
    <3>4. v.start + v.len = Len(s)
      BY <1>4, <2>1, <2>2, <3>3
    <3> QED
      BY <2>1, <3>3, <3>4 DEF v, w
  <2>3. CASE w.start = 0 /\ w.len = 0 /\ w.cmds = EmptyArray
             /\ made[m] = NoCmds
    <3>1. v = Register(w, DELAY, cmd) /\ s = Append(NoCmds, cmd)
          /\ Len(s) = DELAY
      BY <1>3, <1>4, <2>1, <2>3, NodeFacts
    <3> HIDE DEF w, v, s
    <3>2. v \in Window /\ v.start = 0 /\ v.len = DELAY /\ Holds(v, s)
      BY <2>1, <2>3, <3>1, RegisterFirst
    <3> QED
      BY <2>1, <2>3, <3>1, <3>2, NodeFacts DEF v, w
  <2> QED
    BY <2>2, <2>3 DEF Inv, OwnWindow
<1>7. dests \subseteq Other(m)
  BY DEF dests
<1>8. \A n \in Other(m) :
        LET p == MakePacket(m, sw[n], recv_window[m][n])
        IN  /\ p \in Packet
            /\ p.start = send_window[m][n].start
            /\ p.ack = recv_window[m][n].start + recv_window[m][n].len
            /\ p.player = m
            /\ Carries(p.start, p.num_cmds, p.cmds, s)
            /\ p.start + p.num_cmds <= p.ack + DELAY
  <2> SUFFICES ASSUME NEW n \in Node, n # m
               PROVE
        LET p == MakePacket(m, sw[n], recv_window[m][n])
        IN  /\ p \in Packet
            /\ p.start = send_window[m][n].start
            /\ p.ack = recv_window[m][n].start + recv_window[m][n].len
            /\ p.player = m
            /\ Carries(p.start, p.num_cmds, p.cmds, s)
            /\ p.start + p.num_cmds <= p.ack + DELAY
    BY DEF Other
  <2>1. recv_window[m][n] \in Window /\ recv_window[m][n].start = gametic[m]
    BY Numbers DEF Inv, RecvWindows
  <2>2. Len(s) <= recv_window[m][n].start + DELAY
    BY <1>3, <1>4, <2>1, NodeFacts
  <2>3. player[m][m] = m
    BY DEF Inv, OwnWindow
  <2> HIDE DEF s
  <2> QED
    BY <1>4, <1>5, <2>1, <2>2, <2>3, PacketMade
<1>9. /\ net' \in [Node -> [Node -> SUBSET Packet]]
      /\ due' \in [Node -> SUBSET Node]
      /\ Destinations'
      /\ \A a, b \in Node : \A pkt \in net'[a][b] :
           \/ pkt \in net[a][b]
           \/ /\ a = m
              /\ b \in dests
              /\ pkt = MakePacket(m, sw[b], recv_window[m][b])
  BY <1>1, <1>2, <1>7, <1>8, SendEffect DEF Inv
<1>10. /\ \A a, b \in Node : a # m \/ b # m =>
            recv_window'[a][b] = recv_window[a][b]
       /\ recv_window'[m][m] = Register(recv_window[m][m], maketic[m], cmd)
       /\ \A a, b \in Node : a # m => send_window'[a][b] = send_window[a][b]
       /\ \A b \in Node : send_window'[m][b] = sw[b]
       /\ \A a \in Node : a # m => made'[a] = made[a] /\ pc'[a] = pc[a]
       /\ made'[m] = s /\ pc'[m] = "wait"
  BY <1>1, <1>2 DEF TypeOK
<1>11. TypeOK'
  <2>1. sw \in [Node -> Window]
    BY <1>5, Numbers DEF sw
  <2>2. send_window' \in [Node -> [Node -> Window]]
    BY <1>1, <1>2, <2>1 DEF TypeOK
  <2>3. recv_window' \in [Node -> [Node -> Window]]
    BY <1>1, <1>2, <1>6 DEF TypeOK
  <2>4. made' \in [Node -> Seq(Cmd)]
    BY <1>1, <1>2, <1>4 DEF TypeOK
  <2>5. pc' \in [Node -> {"idle", "poll", "wait", "waitpoll", "gone", "aborted"}]
    BY <1>1, <1>2 DEF TypeOK
  <2> QED
    BY <1>1, <1>2, <1>9, <2>2, <2>3, <2>4, <2>5 DEF TypeOK
<1>12. \A a \in Node : /\ a # m => (Swapping(a)' <=> Swapping(a))
                       /\ Swapping(m)'
  BY <1>10 DEF Swapping
<1>13. Pipeline'
  BY <1>1, <1>3, <1>4, <1>10, <1>12 DEF Inv, Pipeline
<1>14. \A a \in Node, start \in Nat, len \in 0 .. MAX_DELAY : \A cmds :
         Carries(start, len, cmds, made[a]) =>
           Carries(start, len, cmds, made'[a])
  BY <1>3, <1>10, CarriesGrown
<1>15. OwnWindow'
  BY <1>1, <1>6, <1>10, <1>12 DEF Inv, OwnWindow
<1>16. SendWindows'
  <2> HIDE DEF s
  <2> SUFFICES ASSUME NEW a \in Node, NEW b \in Node, a # b
               PROVE
          /\ send_window'[a][b].start + send_window'[a][b].len = Len(made'[a])
          /\ Holds(send_window'[a][b], made'[a])
          /\ send_window'[a][b].start
               <= recv_window'[b][a].start + recv_window'[b][a].len
          /\ recv_window'[a][b].start + recv_window'[a][b].len
               <= send_window'[a][b].start + DELAY
    BY DEF SendWindows
  <2>1. /\ send_window[a][b].start + send_window[a][b].len = Len(made[a])
        /\ Holds(send_window[a][b], made[a])
        /\ send_window[a][b].start
             <= recv_window[b][a].start + recv_window[b][a].len
        /\ recv_window[a][b].start + recv_window[a][b].len
             <= send_window[a][b].start + DELAY
    BY DEF Inv, SendWindows
  <2>2. recv_window'[a][b] = recv_window[a][b]
        /\ recv_window'[b][a] = recv_window[b][a]
    BY <1>10
  <2>3. CASE a = m
    BY <1>5, <1>10, <2>1, <2>2, <2>3
  <2>4. CASE a # m
    BY <1>10, <2>1, <2>2, <2>4
  <2> QED
    BY <2>3, <2>4
<1>17. RecvWindows'
  <2> SUFFICES ASSUME NEW a \in Node, NEW b \in Node, a # b
               PROVE  /\ recv_window'[a][b].start = gametic'[a]
                      /\ Holds(recv_window'[a][b], made'[b])
                      /\ player'[a][b] \in {-1, b}
                      /\ recv_window'[a][b].len > 0 => player'[a][b] = b
    BY DEF RecvWindows
  <2>1. recv_window'[a][b] = recv_window[a][b]
    BY <1>10
  <2>2. /\ recv_window[a][b].start = gametic[a]
        /\ Holds(recv_window[a][b], made[b])
        /\ player[a][b] \in {-1, b}
        /\ recv_window[a][b].len > 0 => player[a][b] = b
    BY DEF Inv, RecvWindows
  <2>3. Holds(recv_window[a][b], made'[b])
    BY <1>14, <2>2, Numbers DEF Holds
  <2> QED
    BY <1>1, <2>1, <2>2, <2>3
<1>18. Packets'
  <2> SUFFICES ASSUME NEW a \in Node, NEW b \in Node, NEW pkt \in net'[a][b]
               PROVE  Sound(a, b, pkt)'
    BY DEF Packets
  <2>1. CASE pkt \in net[a][b]
    <3>1. Sound(a, b, pkt) /\ pkt \in Packet
      BY <2>1, Numbers DEF Inv, Packets
    <3>2. pkt.start \in Nat /\ pkt.num_cmds \in 0 .. MAX_DELAY
      BY <3>1 DEF Packet
    <3>3. Carries(pkt.start, pkt.num_cmds, pkt.cmds, made'[a])
      BY <1>14, <3>1, <3>2 DEF Sound
    <3> QED
      BY <1>10, <3>1, <3>3 DEF Sound
  <2>2. CASE a = m /\ b \in dests
             /\ pkt = MakePacket(m, sw[b], recv_window[m][b])
    <3>1. b \in Other(m) /\ b # m
      BY <1>7, <2>2 DEF Other
    <3>2. send_window[m][b].start
            <= recv_window[b][m].start + recv_window[b][m].len
      BY <3>1 DEF Inv, SendWindows
    <3>3. recv_window[m][b].start + recv_window[m][b].len
            <= recv_window[m][b].start + recv_window[m][b].len
      BY Numbers
    <3> QED
      BY ZenonT(60), <1>8, <1>10, <2>2, <3>1, <3>2, <3>3 DEF Sound
  <2> QED
    BY <1>9, <2>1, <2>2
<1>19. RanWhatWasMade'
  <2> SUFFICES ASSUME NEW a \in Node, NEW p \in Player, gametic[a] > 0
               PROVE  cmd_buf[a][p] = IF p \in Node THEN made'[p][gametic[a]]
                                      ELSE 0
    BY <1>1 DEF RanWhatWasMade
  <2>1. cmd_buf[a][p] = IF p \in Node THEN made[p][gametic[a]] ELSE 0
    BY DEF Inv, RanWhatWasMade
  <2>2. CASE p = m
    <3>1. gametic[a] \in 1 .. Len(made[m])
      BY SMTT(30), <1>3, Bounds, Numbers, NodeFacts
    <3> QED
      BY <1>4, <1>10, <2>1, <2>2, <3>1
  <2>3. CASE p # m
    BY <1>10, <2>1, <2>3
  <2> QED
    BY <2>2, <2>3
<1> QED
  BY <1>9, <1>11, <1>13, <1>15, <1>16, <1>17, <1>18, <1>19 DEF Inv

\* Every window gives up the tic that is run.
LEMMA SwapReturnInv ==
  ASSUME Inv, NEW m \in Node, SwapReturn(m)
  PROVE  Inv'
<1>1. /\ pc[m] = "wait"
      /\ NewTicReady(m)
      /\ cmd_buf' = [cmd_buf EXCEPT ![m] = [p \in Player |-> CommandOf(m, p)]]
      /\ recv_window' = [recv_window EXCEPT ![m] = [n \in Node |->
                           IF player[m][n] = -1 THEN recv_window[m][n]
                           ELSE Pop(recv_window[m][n])]]
      /\ maketic' = [maketic EXCEPT ![m] = @ + 1]
      /\ gametic' = [gametic EXCEPT ![m] = @ + 1]
      /\ pc' = [pc EXCEPT ![m] = "idle"]
      /\ UNCHANGED <<send_window, player, due, net, made>>
  BY DEF SwapReturn
<1>2. TypeOK
  BY DEF Inv
<1>3. /\ Swapping(m)
      /\ \A a \in Node : a # m => (Swapping(a)' <=> Swapping(a))
      /\ ~Swapping(m)'
  BY <1>1, <1>2 DEF TypeOK, Swapping
<1>4. \A n \in Node : /\ recv_window[m][n] \in Window
                      /\ recv_window[m][n].len > 0
                      /\ recv_window[m][n].start = gametic[m]
                      /\ Holds(recv_window[m][n], made[n])
                      /\ player[m][n] = n
                      /\ made[n] \in Seq(Cmd)
  <2> SUFFICES ASSUME NEW n \in Node
               PROVE  /\ recv_window[m][n] \in Window
                      /\ recv_window[m][n].len > 0
                      /\ recv_window[m][n].start = gametic[m]
                      /\ Holds(recv_window[m][n], made[n])
                      /\ player[m][n] = n
                      /\ made[n] \in Seq(Cmd)
    OBVIOUS
  <2>1. /\ recv_window[m][n] \in Window /\ recv_window[m][n].len > 0
        /\ made[n] \in Seq(Cmd)
    BY <1>1, Numbers DEF NewTicReady
  <2>2. CASE n = m
    BY <1>3, <2>1, <2>2 DEF Inv, OwnWindow
  <2>3. CASE n # m
    BY <2>1, <2>3 DEF Inv, RecvWindows
  <2> QED
    BY <2>1, <2>2, <2>3
<1>5. \A n \in Node : player[m][n] # -1
  BY <1>4, NodeFacts
<1>6. \A n \in Node : recv_window'[m][n] = Pop(recv_window[m][n])
  BY <1>1, <1>2, <1>5 DEF TypeOK
<1>7. \A n \in Node :
        LET w == recv_window[m][n]
            v == recv_window'[m][n]
        IN  /\ v \in Window
            /\ v.start = w.start + 1
            /\ v.len = w.len - 1
            /\ v.start + v.len = w.start + w.len
            /\ Holds(v, made[n])
            /\ w.cmds[0] = made[n][gametic[m] + 1]
  <2> SUFFICES ASSUME NEW n \in Node
               PROVE
        LET w == recv_window[m][n]
            v == recv_window'[m][n]
        IN  /\ v \in Window
            /\ v.start = w.start + 1
            /\ v.len = w.len - 1
            /\ v.start + v.len = w.start + w.len
            /\ Holds(v, made[n])
            /\ w.cmds[0] = made[n][gametic[m] + 1]
    OBVIOUS
  <2> DEFINE w == recv_window[m][n]
             v == recv_window'[m][n]
  <2>1. v = Pop(w) /\ w \in Window /\ w.len > 0 /\ Holds(w, made[n])
        /\ made[n] \in Seq(Cmd) /\ w.start = gametic[m]
    BY <1>4, <1>6
  <2>2. w.start \in Nat /\ w.len \in Nat
    BY Numbers
  <2> HIDE DEF w, v
  <2>3. /\ v \in Window /\ v.start = w.start + 1 /\ v.len = w.len - 1
        /\ Holds(v, made[n]) /\ w.cmds[0] = made[n][w.start + 1]
    BY <2>1, PopHolds
  <2>4. v.start + v.len = w.start + w.len
    BY <2>2, <2>3
  <2> QED
    BY <2>1, <2>3, <2>4 DEF w, v
<1>8. \A a, b \in Node : a # m => recv_window'[a][b] = recv_window[a][b]
  BY <1>1, <1>2 DEF TypeOK
<1>9. \A a, b \in Node : recv_window'[a][b].start + recv_window'[a][b].len
                           = recv_window[a][b].start + recv_window[a][b].len
  BY <1>7, <1>8
<1>10. /\ gametic'[m] = gametic[m] + 1 /\ maketic'[m] = maketic[m] + 1
       /\ \A a \in Node : a # m => /\ gametic'[a] = gametic[a]
                                   /\ maketic'[a] = maketic[a]
  BY <1>1, <1>2 DEF TypeOK
<1>11. \A p \in Player : CommandOf(m, p) = IF p \in Node
                           THEN made[p][gametic[m] + 1] ELSE 0
  <2> SUFFICES ASSUME NEW p \in Player
               PROVE  CommandOf(m, p) = IF p \in Node
                        THEN made[p][gametic[m] + 1] ELSE 0
    OBVIOUS
  <2> DEFINE nodes == {n \in Node : player[m][n] = p}
  <2>1. CASE p \in Node
    <3>1. nodes = {p}
      BY <1>4, <2>1
    <3>2. (CHOOSE n \in nodes : TRUE) = p
      BY <3>1
    <3>3. CommandOf(m, p) = recv_window[m][p].cmds[0]
      BY <3>1, <3>2 DEF CommandOf
    <3> QED
      BY <1>7, <2>1, <3>3
  <2>2. CASE p \notin Node
    <3>1. nodes = {}
      BY <1>4, <2>2
    <3> QED
      BY <2>2, <3>1 DEF CommandOf
  <2> QED
    BY <2>1, <2>2
<1>12. TypeOK'
  <2>1. recv_window' \in [Node -> [Node -> Window]]
    <3>1. [n \in Node |-> IF player[m][n] = -1 THEN recv_window[m][n]
                          ELSE Pop(recv_window[m][n])] \in [Node -> Window]
      BY <1>5, <1>6, <1>7
    <3> QED
      BY <1>1, <1>2, <3>1 DEF TypeOK
  <2>2. cmd_buf' \in [Node -> [Player -> Cmd]]
    <3>1. \A n \in Node : recv_window[m][n].cmds[0] \in Cmd
      <4>1. 0 \in Slot
        BY NodeFacts DEF Slot
      <4> QED
        BY <1>4, <4>1 DEF Window
    <3>2. \A p \in Player : CommandOf(m, p) \in Cmd
      BY <1>7, <1>11, <3>1, CmdAssumption
    <3> QED
      BY <1>1, <1>2, <3>2 DEF TypeOK
  <2>3. /\ maketic' \in [Node -> Nat] /\ gametic' \in [Node -> Nat]
        /\ pc' \in [Node -> {"idle", "poll", "wait", "waitpoll", "gone", "aborted"}]
    BY <1>1, <1>2 DEF TypeOK
  <2> QED
    BY <1>1, <1>2, <2>1, <2>2, <2>3 DEF TypeOK
<1>13. Pipeline'
  <2> SUFFICES ASSUME NEW a \in Node
               PROVE  /\ maketic'[a] = gametic'[a] + DELAY
                      /\ Swapping(a)' => Len(made[a]) = gametic'[a] + DELAY
                      /\ ~Swapping(a)' =>
                           Len(made[a]) = gametic'[a] + DELAY - 1
    BY <1>1 DEF Pipeline
  <2>1. /\ maketic[a] = gametic[a] + DELAY
        /\ Swapping(a) => Len(made[a]) = gametic[a] + DELAY
        /\ ~Swapping(a) => Len(made[a]) = gametic[a] + DELAY - 1
        /\ gametic[a] \in Nat
    BY Numbers DEF Inv, Pipeline
  <2>2. CASE a = m
    <3>1. /\ maketic[m] + 1 = (gametic[m] + 1) + DELAY
          /\ Len(made[m]) = (gametic[m] + 1) + DELAY - 1
      <4>1. Len(made[m]) = gametic[m] + DELAY
        BY <1>3, <2>1, <2>2
      <4> QED
        BY <2>1, <2>2, <4>1, NodeFacts
    <3> QED
      BY <1>3, <1>10, <2>2, <3>1, Zenon
  <2>3. CASE a # m
    BY <1>3, <1>10, <2>1, <2>3
  <2> QED
    BY <2>2, <2>3
<1>14. OwnWindow'
  <2> SUFFICES ASSUME NEW a \in Node
               PROVE  /\ recv_window'[a][a].start = gametic'[a]
                      /\ player[a][a] = a
                      /\ \/ /\ recv_window'[a][a].start + recv_window'[a][a].len
                                 = Len(made[a])
                            /\ Holds(recv_window'[a][a], made[a])
                         \/ /\ ~Swapping(a)'
                            /\ recv_window'[a][a].start = 0
                            /\ recv_window'[a][a].len = 0
                            /\ recv_window'[a][a].cmds = EmptyArray
                            /\ made[a] = NoCmds
    BY <1>1 DEF OwnWindow
  <2>1. CASE a = m
    <3>1. recv_window[m][m].start + recv_window[m][m].len = Len(made[m])
      BY <1>3 DEF Inv, OwnWindow
    <3> QED
      BY <1>4, <1>7, <1>10, <2>1, <3>1
  <2>2. CASE a # m
    BY <1>3, <1>8, <1>10, <2>2 DEF Inv, OwnWindow
  <2> QED
    BY <2>1, <2>2
<1>15. SendWindows'
  <2> SUFFICES ASSUME NEW a \in Node, NEW b \in Node, a # b
               PROVE
          /\ send_window[a][b].start + send_window[a][b].len = Len(made[a])
          /\ Holds(send_window[a][b], made[a])
          /\ send_window[a][b].start
               <= recv_window'[b][a].start + recv_window'[b][a].len
          /\ recv_window'[a][b].start + recv_window'[a][b].len
               <= send_window[a][b].start + DELAY
    BY <1>1 DEF SendWindows
  <2> QED
    BY <1>9 DEF Inv, SendWindows
<1>16. RecvWindows'
  <2> SUFFICES ASSUME NEW a \in Node, NEW b \in Node, a # b
               PROVE  /\ recv_window'[a][b].start = gametic'[a]
                      /\ Holds(recv_window'[a][b], made[b])
                      /\ player[a][b] \in {-1, b}
                      /\ recv_window'[a][b].len > 0 => player[a][b] = b
    BY <1>1 DEF RecvWindows
  <2>1. CASE a = m
    BY <1>4, <1>7, <1>10, <2>1
  <2>2. CASE a # m
    BY <1>8, <1>10, <2>2 DEF Inv, RecvWindows
  <2> QED
    BY <2>1, <2>2
<1>17. Packets'
  <2> SUFFICES ASSUME NEW a \in Node, NEW b \in Node, NEW pkt \in net[a][b]
               PROVE  Sound(a, b, pkt)'
    BY <1>1 DEF Packets
  <2>1. Sound(a, b, pkt)
    BY DEF Inv, Packets
  <2> QED
    BY <1>1, <1>9, <2>1 DEF Sound
<1>18. Destinations'
  BY <1>1 DEF Inv, Destinations
<1>19. RanWhatWasMade'
  <2> SUFFICES ASSUME NEW a \in Node, NEW p \in Player, gametic'[a] > 0
               PROVE  cmd_buf'[a][p] = IF p \in Node THEN made[p][gametic'[a]]
                                       ELSE 0
    BY <1>1 DEF RanWhatWasMade
  <2>1. CASE a = m
    <3>1. cmd_buf'[m][p] = CommandOf(m, p)
      BY <1>1, <1>2 DEF TypeOK
    <3> QED
      BY <1>10, <1>11, <2>1, <3>1
  <2>2. CASE a # m
    <3>1. cmd_buf'[a][p] = cmd_buf[a][p]
      BY <1>1, <1>2, <2>2 DEF TypeOK
    <3> QED
      BY <1>10, <2>2, <3>1 DEF Inv, RanWhatWasMade
  <2> QED
    BY <2>1, <2>2
<1> QED
  BY <1>12, <1>13, <1>14, <1>15, <1>16, <1>17, <1>18, <1>19 DEF Inv

\* A step that leaves the windows alone and sends only sound packets.
LEMMA QuietInv ==
  ASSUME Inv,
         UNCHANGED <<maketic, gametic, send_window, recv_window, player,
                     cmd_buf, made>>,
         pc' \in [Node -> {"idle", "poll", "wait", "waitpoll", "gone", "aborted"}],
         \A a \in Node : Swapping(a)' <=> Swapping(a),
         due' \in [Node -> SUBSET Node], Destinations',
         net' \in [Node -> [Node -> SUBSET Packet]],
         \A a, b \in Node : \A pkt \in net'[a][b] : Sound(a, b, pkt)
  PROVE  Inv'
<1>1. TypeOK'
  BY DEF Inv, TypeOK
<1>2. Pipeline' /\ OwnWindow'
  BY DEF Inv, Pipeline, OwnWindow
<1>3. SendWindows' /\ RecvWindows'
  BY DEF Inv, SendWindows, RecvWindows
<1>4. Packets'
  BY DEF Packets, Sound
<1>5. RanWhatWasMade'
  BY DEF Inv, RanWhatWasMade
<1> QED
  BY <1>1, <1>2, <1>3, <1>4, <1>5 DEF Inv

\* What CheckResends sends is sound.
LEMMA ReceivePacketsInv ==
  ASSUME Inv, NEW m \in Node, ReceivePackets(m)
  PROVE  Inv'
<1>1. /\ SendPacket(m, due[m], send_window[m])
      /\ UNCHANGED <<maketic, gametic, send_window, recv_window, player,
                     cmd_buf, made>>
  BY DEF ReceivePackets, CheckResends
<1>2. /\ pc' \in [Node -> {"idle", "poll", "wait", "waitpoll", "gone", "aborted"}]
      /\ \A a \in Node : Swapping(a)' <=> Swapping(a)
  BY DEF Inv, TypeOK, ReceivePackets, Swapping
<1>3. due[m] \subseteq Other(m)
  BY DEF Inv, Destinations
<1>4. \A n \in Other(m) :
        LET p == MakePacket(m, send_window[m][n], recv_window[m][n])
        IN  p \in Packet /\ Sound(m, n, p)
  <2> SUFFICES ASSUME NEW n \in Node, n # m
               PROVE
        LET p == MakePacket(m, send_window[m][n], recv_window[m][n])
        IN  p \in Packet /\ Sound(m, n, p)
    BY DEF Other
  <2> DEFINE p == MakePacket(m, send_window[m][n], recv_window[m][n])
  <2>1. /\ recv_window[m][n] \in Window /\ send_window[m][n] \in Window
        /\ made[m] \in Seq(Cmd)
        /\ recv_window[m][n].start = gametic[m]
        /\ recv_window[m][n].start \in Nat /\ recv_window[m][n].len \in Nat
    BY Numbers DEF Inv, RecvWindows
  <2>2. Len(made[m]) <= recv_window[m][n].start + DELAY
    BY <2>1, Bounds
  <2>3. player[m][m] = m
    BY DEF Inv, OwnWindow
  <2>4. /\ Holds(send_window[m][n], made[m])
        /\ send_window[m][n].start + send_window[m][n].len = Len(made[m])
        /\ send_window[m][n].start
             <= recv_window[n][m].start + recv_window[n][m].len
    BY DEF Inv, SendWindows
  <2> HIDE DEF p
  <2>5. /\ p \in Packet
        /\ p.start = send_window[m][n].start
        /\ p.ack = recv_window[m][n].start + recv_window[m][n].len
        /\ p.player = m
        /\ Carries(p.start, p.num_cmds, p.cmds, made[m])
        /\ p.start + p.num_cmds <= p.ack + DELAY
    BY <2>1, <2>2, <2>3, <2>4, PacketMade DEF p
  <2>6. p.ack <= recv_window[m][n].start + recv_window[m][n].len
    BY <2>1, <2>5
  <2> QED
    BY <2>4, <2>5, <2>6 DEF Sound, p
<1>5. /\ net' \in [Node -> [Node -> SUBSET Packet]]
      /\ due' \in [Node -> SUBSET Node]
      /\ Destinations'
      /\ \A a, b \in Node : \A pkt \in net'[a][b] :
           \/ pkt \in net[a][b]
           \/ /\ a = m
              /\ b \in due[m]
              /\ pkt = MakePacket(m, send_window[m][b], recv_window[m][b])
  BY <1>1, <1>3, <1>4, SendEffect DEF Inv
<1>6. \A a, b \in Node : \A pkt \in net'[a][b] : Sound(a, b, pkt)
  BY <1>3, <1>4, <1>5 DEF Inv, Packets
<1> QED
  BY <1>1, <1>2, <1>5, <1>6, QuietInv

\* The steps that touch only the network, the clock or the control state.
LEMMA OtherStepsInv ==
  ASSUME Inv,
         NEW m \in Node,
         \/ PollEnd(m) \/ AbortPoll(m) \/ ClockTick(m) \/ Quit(m)
         \/ \E n \in Node : \E pkt \in net[n][m] :
              DiscardPacket(m, n, pkt) \/ LosePacket(n, m, pkt)
  PROVE  Inv'
<1>1. TypeOK /\ Destinations
  BY DEF Inv
<1>2. UNCHANGED <<maketic, gametic, send_window, recv_window, player,
                  cmd_buf, made>>
  BY DEF PollEnd, AbortPoll, ClockTick, Quit, DiscardPacket, LosePacket
<1>3. /\ pc' \in [Node -> {"idle", "poll", "wait", "waitpoll", "gone", "aborted"}]
      /\ \A a \in Node : Swapping(a)' <=> Swapping(a)
  <2>1. CASE PollEnd(m)
    BY <1>1, <2>1 DEF TypeOK, PollEnd, Polling, Swapping
  <2>2. CASE Quit(m)
    BY <1>1, <2>2 DEF TypeOK, Quit, Swapping
  <2>3. CASE pc' = pc
    BY <1>1, <2>3 DEF TypeOK, Swapping
  <2>4. CASE AbortPoll(m)
    BY <1>1, <2>4 DEF TypeOK, AbortPoll, Polling, Swapping
  <2> QED
    BY <2>1, <2>2, <2>3, <2>4 DEF ClockTick, DiscardPacket, LosePacket
<1>4. due' \in [Node -> SUBSET Node] /\ Destinations'
  <2>1. CASE ClockTick(m)
    BY <1>1, <2>1 DEF TypeOK, ClockTick, Destinations, Other
  <2>2. CASE due' = due
    BY <1>1, <2>2 DEF TypeOK, Destinations
  <2> QED
    BY <2>1, <2>2 DEF PollEnd, AbortPoll, Quit, DiscardPacket, LosePacket
<1>5. /\ net' \in [Node -> [Node -> SUBSET Packet]]
      /\ \A a, b \in Node : net'[a][b] \subseteq net[a][b]
  <2>1. CASE net' = net
    BY <1>1, <2>1 DEF TypeOK
  <2>2. CASE \E n \in Node : \E pkt \in net[n][m] :
               net' = [net EXCEPT ![n][m] = @ \ {pkt}]
    BY <1>1, <2>2 DEF TypeOK
  <2> QED
    BY <2>1, <2>2 DEF PollEnd, AbortPoll, ClockTick, Quit, DiscardPacket, LosePacket
<1>6. \A a, b \in Node : \A pkt \in net'[a][b] : Sound(a, b, pkt)
  BY <1>5 DEF Inv, Packets
<1> QED
  BY <1>2, <1>3, <1>4, <1>5, <1>6, QuietInv

\* An old packet still acknowledges, a newer one fills the window.
LEMMA ReceivePacketInv ==
  ASSUME Inv, NEW m \in Node, NEW n \in Node, NEW pkt \in net[n][m],
         ReceivePacket(m, n, pkt)
  PROVE  Inv'
<1> DEFINE sw == send_window[m][n]
           rw == recv_window[m][n]
           sv == Acknowledge(sw, pkt.ack)
           rv == recv_window'[m][n]
<1>1. TypeOK
  BY DEF Inv
<1>2. /\ pkt \in Packet /\ Sound(n, m, pkt) /\ n # m
  BY Numbers DEF Inv, Packets, Sound
<1>3. /\ pkt.start \in Nat /\ pkt.num_cmds \in 0 .. MAX_DELAY /\ pkt.ack \in Nat
      /\ pkt.player = n
  BY <1>2 DEF Packet, Sound
<1>4. /\ send_window' = [send_window EXCEPT ![m][n] = sv]
      /\ UNCHANGED <<maketic, gametic, due, pc, cmd_buf, made>>
  BY DEF ReceivePacket
<1>5. \/ recv_window' = recv_window /\ player' = player
         /\ pkt.start < rw.start
      \/ /\ pkt.start >= rw.start
         /\ recv_window' = [recv_window EXCEPT ![m][n] = Store(rw, pkt)]
         /\ player' = [player EXCEPT ![m][n] = pkt.player]
  <2>1. rw.start \in Nat
    BY Numbers
  <2> QED
    BY <1>3, <2>1 DEF ReceivePacket
<1>6. /\ net' \in [Node -> [Node -> SUBSET Packet]]
      /\ \A a, b \in Node : net'[a][b] \subseteq net[a][b]
  <2>1. CASE net' = net
    BY <1>1, <2>1 DEF TypeOK
  <2>2. CASE net' = [net EXCEPT ![n][m] = @ \ {pkt}]
    BY <1>1, <2>2 DEF TypeOK
  <2> QED
    BY <2>1, <2>2 DEF ReceivePacket, NetGetPacket
<1>7. /\ sw \in Window /\ rw \in Window
      /\ sw.start \in Nat /\ sw.len \in Nat /\ rw.start \in Nat /\ rw.len \in Nat
      /\ made[m] \in Seq(Cmd) /\ made[n] \in Seq(Cmd)
  BY Numbers
<1>8. /\ Holds(sw, made[m]) /\ sw.start + sw.len = Len(made[m])
      /\ sw.start <= recv_window[n][m].start + recv_window[n][m].len
      /\ rw.start + rw.len <= sw.start + DELAY
  BY <1>2 DEF Inv, SendWindows
<1>9. /\ rw.start = gametic[m]
      /\ Holds(rw, made[n])
      /\ player[m][n] \in {-1, n}
      /\ rw.len > 0 => player[m][n] = n
      /\ Holds(recv_window[n][m], made[m])
  BY <1>2 DEF Inv, RecvWindows
<1>10. /\ sv \in Window
       /\ sw.start <= sv.start
       /\ pkt.ack <= sv.start
       /\ sv.start = sw.start \/ sv.start = pkt.ack
       /\ sv.start + sv.len = sw.start + sw.len
       /\ Holds(sv, made[m])
  <2>1. /\ pkt.ack <= recv_window[n][m].start + recv_window[n][m].len
        /\ recv_window[n][m].start + recv_window[n][m].len <= Len(made[m])
        /\ recv_window[n][m].start \in Nat /\ recv_window[n][m].len \in Nat
        /\ Len(made[m]) \in Nat
    BY <1>2, <1>9, Numbers DEF Sound, Holds, Carries
  <2>2. pkt.ack <= sw.start + sw.len
    <3>1. sw.start + sw.len = Len(made[m]) /\ pkt.ack \in Nat
      BY <1>3, <1>8
    <3>2. pkt.ack <= Len(made[m])
      BY SMTT(30), <2>1, <3>1
    <3> HIDE DEF sw
    <3> QED
      BY <3>1, <3>2
  <2> HIDE DEF sw
  <2> QED
    BY <1>3, <1>7, <1>8, <2>2, AcknowledgeHolds
<1>11. /\ rv \in Window
       /\ rv.start = rw.start
       /\ rv.start \in Nat /\ rv.len \in Nat
       /\ rw.start + rw.len <= rv.start + rv.len
       /\ Holds(rv, made[n])
       /\ \/ rv.start + rv.len = rw.start + rw.len
          \/ rv.start + rv.len = pkt.start + pkt.num_cmds
       /\ player'[m][n] \in {-1, n}
       /\ rv.len > 0 => player'[m][n] = n
  <2>1. CASE recv_window' = recv_window /\ player' = player
    <3>1. rv = rw
      BY <2>1
    <3> HIDE DEF rv, rw
    <3> QED
      BY <1>7, <1>9, <2>1, <3>1
  <2>2. CASE /\ pkt.start >= rw.start
             /\ recv_window' = [recv_window EXCEPT ![m][n] = Store(rw, pkt)]
             /\ player' = [player EXCEPT ![m][n] = pkt.player]
    <3>1. rv = Store(rw, pkt) /\ player'[m][n] = n
      BY <1>1, <1>3, <2>2 DEF TypeOK
    <3>2. Len(made[n]) <= rw.start + MAX_DELAY
      <4>1. Len(made[n]) <= gametic[m] + 2 * DELAY
        BY <1>2, Bounds
      <4>2. Len(made[n]) \in Nat /\ gametic[m] \in Nat
        BY Numbers
      <4> HIDE DEF rw
      <4> QED
        BY <1>7, <1>9, <4>1, <4>2, NodeFacts
    <3>3. /\ Carries(pkt.start, pkt.num_cmds, pkt.cmds, made[n])
          /\ pkt.start <= rw.start + rw.len /\ rw.start <= pkt.start
      BY <1>2, <1>3, <1>7, <2>2 DEF Sound
    <3> HIDE DEF rv, rw
    <3>4. /\ rv \in Window
          /\ rv.start = rw.start
          /\ rw.len <= rv.len
          /\ \/ rv.len = rw.len
             \/ rv.start + rv.len = pkt.start + pkt.num_cmds
          /\ Holds(rv, made[n])
      BY <1>2, <1>7, <1>9, <3>1, <3>2, <3>3, StoreHolds
    <3>5. rv.start \in Nat /\ rv.len \in Nat
      BY <3>4 DEF Window
    <3> QED
      BY <1>7, <3>1, <3>4, <3>5
  <2> QED
    BY <1>5, <2>1, <2>2
<1>12. /\ \A a, b \in Node : a # m \/ b # n =>
            /\ recv_window'[a][b] = recv_window[a][b]
            /\ send_window'[a][b] = send_window[a][b]
            /\ player'[a][b] = player[a][b]
       /\ send_window'[m][n] = sv
  BY <1>1, <1>4, <1>5 DEF TypeOK
<1>13. \A a, b \in Node : /\ recv_window[a][b].start + recv_window[a][b].len
                               <= recv_window'[a][b].start
                                    + recv_window'[a][b].len
                          /\ recv_window'[a][b].start = recv_window[a][b].start
                          /\ recv_window'[a][b].start \in Nat
                          /\ recv_window'[a][b].len \in Nat
  <2> SUFFICES ASSUME NEW a \in Node, NEW b \in Node
               PROVE  /\ recv_window[a][b].start + recv_window[a][b].len
                           <= recv_window'[a][b].start
                                + recv_window'[a][b].len
                      /\ recv_window'[a][b].start = recv_window[a][b].start
                      /\ recv_window'[a][b].start \in Nat
                      /\ recv_window'[a][b].len \in Nat
    OBVIOUS
  <2>1. CASE a = m /\ b = n
    BY <1>11, <2>1
  <2>2. CASE a # m \/ b # n
    <3>1. recv_window'[a][b] = recv_window[a][b]
      BY <1>12, <2>2
    <3>2. recv_window[a][b].start \in Nat /\ recv_window[a][b].len \in Nat
      BY Numbers
    <3> QED
      BY <3>1, <3>2
  <2> QED
    BY <2>1, <2>2
<1> HIDE DEF sv, rv
<1>14. TypeOK'
  <2>1. send_window' \in [Node -> [Node -> Window]]
    BY <1>1, <1>4, <1>10 DEF TypeOK
  <2>2. recv_window' \in [Node -> [Node -> Window]]
    <3>1. CASE recv_window' = recv_window
      BY <1>1, <3>1 DEF TypeOK
    <3>2. CASE recv_window' = [recv_window EXCEPT ![m][n] = Store(rw, pkt)]
      <4>1. recv_window'[m][n] = Store(rw, pkt)
        BY <1>1, <3>2 DEF TypeOK
      <4>2. Store(rw, pkt) \in Window
        BY <1>11, <4>1 DEF rv
      <4> QED
        BY <1>1, <3>2, <4>2 DEF TypeOK
    <3> QED
      BY <1>5, <3>1, <3>2
  <2>3. player' \in [Node -> [Node -> Player \cup {-1}]]
    <3>1. pkt.player \in Player
      BY <1>2 DEF Packet
    <3>2. CASE player' = player
      BY <1>1, <3>2 DEF TypeOK
    <3>3. CASE player' = [player EXCEPT ![m][n] = pkt.player]
      BY <1>1, <3>1, <3>3 DEF TypeOK
    <3> QED
      BY <1>5, <3>2, <3>3
  <2> QED
    BY <1>1, <1>4, <1>6, <2>1, <2>2, <2>3 DEF TypeOK
<1>15. \A a \in Node : Swapping(a)' <=> Swapping(a)
  BY <1>4 DEF Swapping
<1>16. Pipeline'
  BY <1>4, <1>15 DEF Inv, Pipeline
<1>17. OwnWindow'
  <2>1. \A a \in Node : /\ recv_window'[a][a] = recv_window[a][a]
                        /\ player'[a][a] = player[a][a]
    BY <1>2, <1>12
  <2> QED
    BY <1>4, <1>15, <2>1 DEF Inv, OwnWindow
<1>18. SendWindows'
  <2> SUFFICES ASSUME NEW a \in Node, NEW b \in Node, a # b
               PROVE
          /\ send_window'[a][b].start + send_window'[a][b].len = Len(made[a])
          /\ Holds(send_window'[a][b], made[a])
          /\ send_window'[a][b].start
               <= recv_window'[b][a].start + recv_window'[b][a].len
          /\ recv_window'[a][b].start + recv_window'[a][b].len
               <= send_window'[a][b].start + DELAY
    BY <1>4 DEF SendWindows
  <2>1. CASE a = m /\ b = n
    <3>1. recv_window'[n][m] = recv_window[n][m]
      BY <1>2, <1>12
    <3>2. sv.start <= recv_window[n][m].start + recv_window[n][m].len
      BY <1>2, <1>8, <1>10 DEF Sound
    <3>3. rv.start + rv.len <= sv.start + DELAY
      <4>1. sv.start \in Nat
        BY <1>10 DEF Window
      <4>2. pkt.start + pkt.num_cmds <= pkt.ack + DELAY
        BY <1>2 DEF Sound
      <4> HIDE DEF rw, sw
      <4>3. rw.start + rw.len <= sv.start + DELAY
        <5>1. rw.start + rw.len <= sw.start + DELAY /\ sw.start <= sv.start
          BY <1>8, <1>10
        <5>2. /\ rw.start \in Nat /\ rw.len \in Nat /\ sw.start \in Nat
              /\ DELAY \in Nat
          BY <1>7, NodeFacts
        <5> HIDE DEF sv
        <5> QED
          BY <4>1, <5>1, <5>2
      <4>4. pkt.start + pkt.num_cmds <= sv.start + DELAY
        BY <1>3, <1>10, <4>1, <4>2, NodeFacts
      <4> QED
        BY <1>11, <4>3, <4>4
    <3> QED
      BY <1>8, <1>10, <1>12, <2>1, <3>1, <3>2, <3>3 DEF rv
  <2>2. CASE a # m \/ b # n
    <3>1. send_window'[a][b] = send_window[a][b]
      BY <1>12, <2>2
    <3>2. recv_window'[a][b] = recv_window[a][b]
      BY <1>12, <2>2
    <3>3. /\ send_window[a][b].start + send_window[a][b].len = Len(made[a])
          /\ Holds(send_window[a][b], made[a])
          /\ send_window[a][b].start
               <= recv_window[b][a].start + recv_window[b][a].len
          /\ recv_window[a][b].start + recv_window[a][b].len
               <= send_window[a][b].start + DELAY
      BY DEF Inv, SendWindows
    <3>4. send_window[a][b].start
            <= recv_window'[b][a].start + recv_window'[b][a].len
      <4>1. /\ send_window[a][b].start \in Nat
            /\ recv_window[b][a].start \in Nat /\ recv_window[b][a].len \in Nat
        BY Numbers
      <4>2. /\ recv_window[b][a].start + recv_window[b][a].len
                 <= recv_window'[b][a].start + recv_window'[b][a].len
            /\ recv_window'[b][a].start \in Nat
            /\ recv_window'[b][a].len \in Nat
        BY <1>13
      <4> DEFINE x == send_window[a][b].start
                 y == recv_window[b][a].start + recv_window[b][a].len
                 z == recv_window'[b][a].start + recv_window'[b][a].len
      <4>3. x \in Int /\ y \in Int /\ z \in Int /\ x <= y /\ y <= z
        BY SMTT(30), <3>3, <4>1, <4>2
      <4> HIDE DEF x, y, z
      <4>4. x <= z
        BY <4>3
      <4> QED
        BY <4>4 DEF x, z
    <3> QED
      BY <3>1, <3>2, <3>3, <3>4
  <2> QED
    BY <2>1, <2>2
<1>19. RecvWindows'
  <2> SUFFICES ASSUME NEW a \in Node, NEW b \in Node, a # b
               PROVE  /\ recv_window'[a][b].start = gametic[a]
                      /\ Holds(recv_window'[a][b], made[b])
                      /\ player'[a][b] \in {-1, b}
                      /\ recv_window'[a][b].len > 0 => player'[a][b] = b
    BY <1>4 DEF RecvWindows
  <2>1. CASE a = m /\ b = n
    BY <1>9, <1>11, <2>1 DEF rv
  <2>2. CASE a # m \/ b # n
    BY <1>12, <2>2 DEF Inv, RecvWindows
  <2> QED
    BY <2>1, <2>2
<1>20. Packets'
  <2> SUFFICES ASSUME NEW a \in Node, NEW b \in Node, NEW p \in net'[a][b]
               PROVE  Sound(a, b, p)'
    BY DEF Packets
  <2>1. Sound(a, b, p) /\ p \in Packet
    BY <1>6, Numbers DEF Inv, Packets
  <2>2. /\ p.start \in Nat /\ p.ack \in Nat
        /\ recv_window[a][b].start \in Nat /\ recv_window[a][b].len \in Nat
        /\ recv_window[b][a].start \in Nat /\ recv_window[b][a].len \in Nat
    BY <2>1, Numbers DEF Packet
  <2>3. p.start <= recv_window'[b][a].start + recv_window'[b][a].len
    BY <1>13, <2>1, <2>2 DEF Sound
  <2>4. p.ack <= recv_window'[a][b].start + recv_window'[a][b].len
    BY <1>13, <2>1, <2>2 DEF Sound
  <2> QED
    BY <1>4, <2>1, <2>3, <2>4 DEF Sound
<1>21. Destinations' /\ RanWhatWasMade'
  BY <1>4 DEF Inv, Destinations, RanWhatWasMade
<1> QED
  BY <1>14, <1>16, <1>17, <1>18, <1>19, <1>20, <1>21 DEF Inv

-----------------------------------------------------------------------------
(* The theorems.                                                           *)

\* and every step preserves it.
LEMMA NextInv == Inv /\ [Next]_vars => Inv'
<1> SUFFICES ASSUME Inv, [Next]_vars PROVE Inv'
  OBVIOUS
<1>1. ASSUME NEW m \in Node, NEW cmd \in Cmd, SwapCommand(m, cmd)
      PROVE  Inv'
  BY <1>1, SwapCommandInv
<1>2. ASSUME NEW m \in Node, SwapReturn(m) PROVE Inv'
  BY <1>2, SwapReturnInv
<1>3. ASSUME NEW m \in Node, ReceivePackets(m) PROVE Inv'
  BY <1>3, ReceivePacketsInv
<1>4. ASSUME NEW m \in Node, PollEnd(m) \/ AbortPoll(m) \/ ClockTick(m) \/ Quit(m) PROVE Inv'
  BY <1>4, OtherStepsInv
<1>5. ASSUME NEW m \in Node, NEW n \in Node, NEW pkt \in net[n][m],
             ReceivePacket(m, n, pkt)
      PROVE  Inv'
  BY <1>5, ReceivePacketInv
<1>6. ASSUME NEW m \in Node, NEW n \in Node, NEW pkt \in net[n][m],
             DiscardPacket(m, n, pkt) \/ LosePacket(n, m, pkt)
      PROVE  Inv'
  BY <1>6, OtherStepsInv
<1>7. CASE UNCHANGED vars
  <2>1. /\ \A a \in Node : Swapping(a)' <=> Swapping(a)
        /\ UNCHANGED <<maketic, gametic, send_window, recv_window, player,
                       cmd_buf, made, net, due, pc>>
    BY <1>7 DEF vars, Swapping
  <2>2. /\ pc' \in [Node -> {"idle", "poll", "wait", "waitpoll", "gone", "aborted"}]
        /\ due' \in [Node -> SUBSET Node] /\ Destinations'
        /\ net' \in [Node -> [Node -> SUBSET Packet]]
        /\ \A a, b \in Node : \A pkt \in net'[a][b] : Sound(a, b, pkt)
    BY <2>1 DEF Inv, TypeOK, Destinations, Packets
  <2> QED
    BY <2>1, <2>2, QuietInv
<1> QED
  BY <1>1, <1>2, <1>3, <1>4, <1>5, <1>6, <1>7 DEF Next

\* The invariant holds in every state the protocol reaches.
THEOREM Invariance == Spec => []Inv
<1>1. Init => Inv
  BY InitInv
<1>2. Inv /\ [Next]_vars => Inv'
  BY NextInv
<1> QED
  BY <1>1, <1>2, PTL DEF Spec

\* Every variable keeps its type; in particular no window ever outgrows its
\* array (SwapCommand's cmds[new_len - 1], ReceivePacket's loop).
THEOREM TypeCorrect == Spec => []TypeOK
<1>1. Inv => TypeOK
  BY DEF Inv
<1> QED
  BY <1>1, Invariance, PTL

\* All machines run every tic with the same commands: the ones the players
\* made for it (the cmds[] that SwapCommand hands to the game).
THEOREM Synchronised == Spec => []RanWhatWasMade
<1>1. Inv => RanWhatWasMade
  BY DEF Inv
<1> QED
  BY <1>1, Invariance, PTL

\* Two pipelines of commands are the most a window holds, so MAX_DELAY is
\* large enough and ReceivePacket's `break' is never taken.
THEOREM Fits == Spec => []WindowsFit
<1>1. Inv => WindowsFit
  <2> SUFFICES ASSUME Inv, NEW m \in Node, NEW n \in Node
               PROVE  /\ recv_window[m][n].len <= 2 * DELAY
                      /\ m # n => send_window[m][n].len <= 2 * DELAY
    BY DEF WindowsFit
  <2>1. CASE m # n
    BY <2>1, Bounds
  <2>2. CASE m = n
    <3>1. /\ recv_window[m][m].start = gametic[m]
          /\ \/ recv_window[m][m].start + recv_window[m][m].len = Len(made[m])
             \/ recv_window[m][m].len = 0
      BY DEF Inv, OwnWindow
    <3>2. /\ recv_window[m][m].len \in Nat /\ gametic[m] \in Nat
          /\ Len(made[m]) \in Nat
      BY Numbers
    <3>3. Len(made[m]) <= gametic[m] + DELAY
      <4>1. \/ Len(made[m]) = gametic[m] + DELAY
            \/ Len(made[m]) = gametic[m] + DELAY - 1
        BY DEF Inv, Pipeline
      <4> QED
        BY <3>2, <4>1, NodeFacts
    <3>4. recv_window[m][m].len <= 2 * DELAY
      BY <3>1, <3>2, <3>3, NodeFacts
    <3> QED
      BY <2>2, <3>4
  <2> QED
    BY <2>1, <2>2
<1> QED
  BY <1>1, Invariance, PTL

LEMMA EndNat ==
  ASSUME NEW a \in Nat, NEW l \in 0 .. MAX_DELAY
  PROVE  a + l \in Nat
BY NodeFacts

\* After a packet of m to n and one of n to m, m has all that n has made.
LEMMA Exchange ==
  ASSUME Inv, NEW m \in Node, NEW n \in Node, m # n
  PROVE  /\ AfterExchange(m, n) \in Window
         /\ AfterExchange(m, n).start = gametic[m]
         /\ AfterExchange(m, n).start + AfterExchange(m, n).len = Len(made[n])
         /\ Holds(AfterExchange(m, n), made[n])
<1> DEFINE rw == recv_window[m][n]
           old == send_window[n][m]
           ack == rw.start + rw.len
           sw == Acknowledge(old, ack)
           pkt == MakePacket(n, sw, recv_window[n][m])
           w == Store(rw, pkt)
<1>1. /\ rw \in Window /\ old \in Window /\ made[n] \in Seq(Cmd)
      /\ recv_window[n][m] \in Window
      /\ rw.start \in Nat /\ rw.len \in 0 .. MAX_DELAY
      /\ old.start \in Nat /\ old.len \in 0 .. MAX_DELAY
      /\ Len(made[n]) \in Nat /\ gametic[m] \in Nat /\ gametic[n] \in Nat
  BY Numbers
<1>2. /\ old.start + old.len = Len(made[n]) /\ Holds(old, made[n])
      /\ old.start <= ack
  BY DEF Inv, SendWindows
<1>3. rw.start = gametic[m] /\ Holds(rw, made[n]) /\ ack <= Len(made[n])
  BY DEF Inv, RecvWindows, Holds, Carries
<1>4. ack \in Nat
  BY <1>1, EndNat
<1>5. /\ Len(made[n]) <= gametic[m] + 2 * DELAY
      /\ Len(made[n]) <= gametic[n] + DELAY
      /\ recv_window[n][m].start = gametic[n]
  BY Bounds
<1>6. AfterExchange(m, n) = IF pkt.start < rw.start THEN rw ELSE w
  BY DEF AfterExchange, End
<1> HIDE DEF rw, old, ack
<1>7. /\ sw \in Window /\ Holds(sw, made[n])
      /\ old.start <= sw.start /\ ack <= sw.start
      /\ sw.start = old.start \/ sw.start = ack
      /\ sw.start + sw.len = old.start + old.len
  BY <1>1, <1>2, <1>3, <1>4, AcknowledgeHolds
<1> HIDE DEF sw
<1>8. sw.start = ack /\ sw.start + sw.len = Len(made[n])
  BY <1>1, <1>2, <1>4, <1>7
<1>9. player[n][n] = n
  BY DEF Inv, OwnWindow
<1>10. /\ pkt \in Packet /\ pkt.start = sw.start
       /\ Carries(pkt.start, pkt.num_cmds, pkt.cmds, made[n])
  <2>1. Len(made[n]) <= recv_window[n][m].start + DELAY
    BY <1>5
  <2> QED
    BY <1>1, <1>7, <1>8, <1>9, <2>1, PacketMade
<1>11. pkt.num_cmds = sw.len
  BY DEF MakePacket
<1> HIDE DEF pkt
<1>12. /\ rw.start <= pkt.start /\ ~(pkt.start < rw.start)
       /\ pkt.start <= rw.start + rw.len
  BY <1>1, <1>8, <1>10, NodeFacts DEF ack
<1>13. Len(made[n]) <= rw.start + MAX_DELAY
  BY <1>1, <1>3, <1>5, NodeFacts
<1>14. /\ w \in Window /\ w.start = rw.start /\ Holds(w, made[n])
       /\ pkt.start + pkt.num_cmds <= w.start + w.len
  BY <1>1, <1>3, <1>10, <1>12, <1>13, StoreHolds
<1> HIDE DEF w
<1>15. w.start + w.len <= Len(made[n]) /\ Len(made[n]) <= w.start + w.len
  BY <1>8, <1>10, <1>11, <1>14 DEF Holds, Carries
<1>16. w.start + w.len = Len(made[n])
  <2>1. w.start \in Nat /\ w.len \in 0 .. MAX_DELAY
    BY <1>14 DEF Window
  <2>2. w.start + w.len \in Nat
    BY <2>1, EndNat
  <2> DEFINE a == w.start + w.len
             b == Len(made[n])
  <2>3. a \in Nat /\ b \in Nat /\ a <= b /\ b <= a
    BY <1>1, <1>15, <2>2
  <2> HIDE DEF a, b
  <2>4. a = b
    BY <2>3
  <2> QED
    BY <2>4 DEF a, b
<1> QED
  BY <1>3, <1>6, <1>12, <1>14, <1>16

\* A command leaves the send window only when its receiver has it, and one
\* packet each way brings a machine all that another has made.
THEOREM Remembered == Spec => []NothingForgotten
<1>1. Inv => NothingForgotten
  <2> SUFFICES ASSUME Inv, NEW m \in Node, NEW n \in Other(m)
               PROVE  LET w == AfterExchange(m, n)
                      IN  /\ send_window[n][m].start <= End(recv_window[m][n])
                          /\ End(w) = Len(made[n])
                          /\ \A j \in 0 .. w.len - 1 :
                               w.cmds[j] = made[n][w.start + j + 1]
    BY DEF NothingForgotten
  <2> DEFINE w == AfterExchange(m, n)
  <2>1. n \in Node /\ m # n
    BY DEF Other
  <2>2. w \in Window /\ w.start + w.len = Len(made[n]) /\ Holds(w, made[n])
    BY <2>1, Exchange
  <2>3. send_window[n][m].start <= recv_window[m][n].start + recv_window[m][n].len
    BY <2>1 DEF Inv, SendWindows
  <2> HIDE DEF w
  <2>4. \A j \in 0 .. w.len - 1 : j \in Slot /\ j < w.len
    BY <2>2, NodeFacts DEF Window, Slot
  <2>5. \A j \in 0 .. w.len - 1 : w.cmds[j] = made[n][w.start + j + 1]
    BY <2>2, <2>4 DEF Holds, Carries
  <2> QED
    BY <2>2, <2>3, <2>5 DEF End, w
<1> QED
  BY <1>1, Invariance, PTL

\* The least of some numbers.
LEMMA Least ==
  ASSUME NEW T, T \subseteq Nat, T # {}
  PROVE  \E x \in T : \A y \in T : x <= y
<1> DEFINE R == {p \in Nat \X Nat : p[1] < p[2]}
<1>1. IsWellFoundedOn(R, Nat)
  BY NatLessThanWellFounded DEF OpToRel
<1>2. \A x, y \in Nat : y < x => <<y, x>> \in R
  OBVIOUS
<1> HIDE DEF R
<1>3. PICK x \in T : \A y \in T : ~(<<y, x>> \in R)
  BY <1>1, WFMin
<1>4. \A y \in T : ~(y < x)
  BY <1>2, <1>3
<1> QED
  BY <1>4

\* The machines never all wait for each other: when all are in SwapCommand,
\* the one that is furthest behind waits only for commands that were made,
\* and one packet to and one from every other machine let it go on.  (Its
\* NewTicReady, with the windows as they then are.)
NoStandoff ==
  (\A n \in Node : pc[n] \in {"wait", "waitpoll"}) =>
    \E m \in Node : /\ recv_window[m][m].len > 0
                    /\ \A n \in Other(m) : AfterExchange(m, n).len > 0

\* SwapCommand's loop waits for what can arrive, whatever was lost before.
THEOREM NeverStuck == Spec => []NoStandoff
<1>1. Inv => NoStandoff
  <2> SUFFICES ASSUME Inv, \A n \in Node : pc[n] \in {"wait", "waitpoll"}
               PROVE  \E m \in Node : /\ recv_window[m][m].len > 0
                                      /\ \A n \in Other(m) : AfterExchange(m, n).len > 0
    BY DEF NoStandoff
  <2>1. \A n \in Node : /\ gametic[n] \in Nat /\ Len(made[n]) \in Nat
                        /\ Len(made[n]) = gametic[n] + DELAY
    BY Numbers DEF Inv, Pipeline, Swapping
  <2>2. PICK m \in Node : \A n \in Node : gametic[m] <= gametic[n]
    <3> DEFINE T == {gametic[n] : n \in Node}
    <3>1. T \subseteq Nat /\ T # {}
      BY <2>1, NodesAssumption DEF Node
    <3>2. PICK x \in T : \A y \in T : x <= y
      <4> HIDE DEF T
      <4> QED
        BY <3>1, Least
    <3> QED
      BY <3>2
  <2>3. recv_window[m][m].len > 0
    <3>1. /\ recv_window[m][m].start = gametic[m]
          /\ recv_window[m][m].start + recv_window[m][m].len = Len(made[m])
      BY DEF Inv, OwnWindow, Swapping
    <3>2. recv_window[m][m].len \in 0 .. MAX_DELAY
      BY Numbers
    <3> QED
      BY <2>1, <3>1, <3>2, NodeFacts
  <2>4. ASSUME NEW n \in Other(m) PROVE AfterExchange(m, n).len > 0
    <3> DEFINE w == AfterExchange(m, n)
    <3>1. n \in Node /\ m # n
      BY DEF Other
    <3>2. w \in Window /\ w.start = gametic[m] /\ w.start + w.len = Len(made[n])
      BY <3>1, Exchange
    <3> HIDE DEF w
    <3>3. w.len \in 0 .. MAX_DELAY
      BY <3>2 DEF Window
    <3>4. w.len > 0
      BY <2>1, <2>2, <3>1, <3>2, <3>3, NodeFacts
    <3> QED
      BY <3>4 DEF w
  <2> QED
    BY <2>3, <2>4
<1> QED
  BY <1>1, Invariance, PTL

\* No packet, however late, would leave a hole in the window it arrives at.
THEOREM Gapless == Spec => []NoHole
<1>1. Inv => NoHole
  BY DEF Inv, Packets, Sound, NoHole, End
<1> QED
  BY <1>1, Invariance, PTL

\* No machine runs more than DELAY tics ahead of another.
THEOREM Together == Spec => []BoundedSkew
<1>1. Inv => BoundedSkew
  <2> SUFFICES ASSUME Inv, NEW m \in Node, NEW n \in Node
               PROVE  gametic[m] <= gametic[n] + DELAY
    BY DEF BoundedSkew
  <2>1. CASE m # n
    BY <2>1, Bounds
  <2>2. CASE m = n
    BY <2>2, Numbers, NodeFacts
  <2> QED
    BY <2>1, <2>2
<1> QED
  BY <1>1, Invariance, PTL


-----------------------------------------------------------------------------
(* What a step may never do.                                               *)

\* The commands m has of n now end at or after the tic they ended at, and
\* so do the ones m may forget for n.
Grows(m, n) ==
  /\ recv_window[m][n].start <= recv_window'[m][n].start
  /\ recv_window[m][n].start + recv_window[m][n].len
       <= recv_window'[m][n].start + recv_window'[m][n].len
  /\ send_window[m][n].start <= send_window'[m][n].start

\* How Register, Acknowledge, Store and Pop move a window.
LEMMA WindowsGrow ==
  ASSUME NEW w \in Window
  PROVE  /\ \A tics \in Nat, cmd \in Cmd :
              /\ Register(w, tics, cmd).start = w.start
              /\ w.len <= Register(w, tics, cmd).len
              /\ Register(w, tics, cmd).len \in Int
         /\ \A ack \in Nat : w.start <= Acknowledge(w, ack).start
         /\ \A pkt \in Packet : /\ Store(w, pkt).start = w.start
                                /\ w.len <= Store(w, pkt).len
                                /\ Store(w, pkt).len \in Int
         /\ Pop(w).start = w.start + 1
         /\ Pop(w).len = w.len - 1
<1>1. w.start \in Nat /\ w.len \in Nat /\ MAX_DELAY \in Nat
  BY DelayAssumption DEF Window
<1>2. ASSUME NEW tics \in Nat, NEW cmd \in Cmd
      PROVE  /\ Register(w, tics, cmd).start = w.start
             /\ w.len <= Register(w, tics, cmd).len
             /\ Register(w, tics, cmd).len \in Int
  <2>1. CASE Lacks(w, tics)
    <3>1. /\ Register(w, tics, cmd).start = w.start
          /\ Register(w, tics, cmd).len = tics - w.start
      BY <2>1 DEF Register
    <3>2. tics - w.start > w.len
      BY <2>1 DEF Lacks
    <3> QED
      BY <1>1, <3>1, <3>2
  <2>2. CASE ~Lacks(w, tics)
    BY <1>1, <2>2 DEF Register
  <2> QED
    BY <2>1, <2>2
<1>3. ASSUME NEW ack \in Nat PROVE w.start <= Acknowledge(w, ack).start
  BY <1>1 DEF Acknowledge
<1>4. ASSUME NEW pkt \in Packet
      PROVE  /\ Store(w, pkt).start = w.start
             /\ w.len <= Store(w, pkt).len
             /\ Store(w, pkt).len \in Int
  <2>1. pkt.start \in Nat /\ pkt.num_cmds \in Nat
    BY DEF Packet
  <2> QED
    BY <1>1, <2>1 DEF Store
<1>5. Pop(w).start = w.start + 1 /\ Pop(w).len = w.len - 1
  BY DEF Pop
<1> QED
  BY <1>2, <1>3, <1>4, <1>5

\* No step takes anything back.
LEMMA StepGrows ==
  ASSUME Inv, Next, NEW m \in Node, NEW n \in Node
  PROVE  Grows(m, n)
<1>1. TypeOK
  BY DEF Inv
<1>2. /\ recv_window[m][n] \in Window /\ send_window[m][n] \in Window
      /\ recv_window[m][n].start \in Nat /\ recv_window[m][n].len \in Nat
      /\ send_window[m][n].start \in Nat /\ maketic[m] \in Nat
  BY Numbers
<1>3. CASE recv_window'[m][n] = recv_window[m][n]
           /\ send_window'[m][n] = send_window[m][n]
  BY <1>2, <1>3 DEF Grows
<1>4. ASSUME NEW a \in Node, NEW cmd \in Cmd, SwapCommand(a, cmd)
      PROVE  Grows(m, n)
  <2> DEFINE sw == [k \in Node |-> IF k = a THEN send_window[a][k]
                        ELSE Register(send_window[a][k], maketic[a], cmd)]
  <2>1. /\ recv_window' = [recv_window EXCEPT
                ![a][a] = Register(recv_window[a][a], maketic[a], cmd)]
        /\ send_window' = [send_window EXCEPT ![a] = sw]
    BY <1>4 DEF SwapCommand
  <2>2. \/ recv_window'[m][n] = recv_window[m][n]
        \/ recv_window'[m][n] = Register(recv_window[m][n], maketic[m], cmd)
    BY <1>1, <2>1 DEF TypeOK
  <2>3. \/ send_window'[m][n] = send_window[m][n]
        \/ send_window'[m][n] = Register(send_window[m][n], maketic[m], cmd)
    BY <1>1, <2>1 DEF TypeOK
  <2>4. /\ recv_window'[m][n].start = recv_window[m][n].start
        /\ recv_window[m][n].len <= recv_window'[m][n].len
        /\ recv_window'[m][n].len \in Int
    BY <1>2, <2>2, WindowsGrow
  <2>5. send_window'[m][n].start = send_window[m][n].start
    BY <1>2, <2>3, WindowsGrow
  <2> QED
    BY <1>2, <2>4, <2>5 DEF Grows
<1>5. ASSUME NEW a \in Node, SwapReturn(a)
      PROVE  Grows(m, n)
  <2>1. /\ recv_window' = [recv_window EXCEPT ![a] = [k \in Node |->
                             IF player[a][k] = -1 THEN recv_window[a][k]
                             ELSE Pop(recv_window[a][k])]]
        /\ send_window' = send_window
    BY <1>5 DEF SwapReturn
  <2>2. \/ recv_window'[m][n] = recv_window[m][n]
        \/ recv_window'[m][n] = Pop(recv_window[m][n])
    BY <1>1, <2>1 DEF TypeOK
  <2>3. \/ recv_window'[m][n] = recv_window[m][n]
        \/ /\ recv_window'[m][n].start = recv_window[m][n].start + 1
           /\ recv_window'[m][n].len = recv_window[m][n].len - 1
    BY <1>2, <2>2, WindowsGrow
  <2> QED
    BY <1>2, <2>1, <2>3 DEF Grows
<1>6. ASSUME NEW a \in Node, NEW b \in Node, NEW pkt \in net[b][a],
             ReceivePacket(a, b, pkt)
      PROVE  Grows(m, n)
  <2>1. pkt \in Packet /\ pkt.ack \in Nat
    BY Numbers DEF Packet
  <2>2. /\ send_window' = [send_window EXCEPT
                            ![a][b] = Acknowledge(send_window[a][b], pkt.ack)]
        /\ \/ recv_window' = recv_window
           \/ recv_window' = [recv_window EXCEPT
                               ![a][b] = Store(recv_window[a][b], pkt)]
    BY <1>6 DEF ReceivePacket
  <2>3. \/ send_window'[m][n] = send_window[m][n]
        \/ send_window'[m][n] = Acknowledge(send_window[m][n], pkt.ack)
    BY <1>1, <2>2 DEF TypeOK
  <2>4. \/ recv_window'[m][n] = recv_window[m][n]
        \/ recv_window'[m][n] = Store(recv_window[m][n], pkt)
    <3>1. CASE recv_window' = recv_window
      BY <3>1
    <3>2. CASE recv_window' = [recv_window EXCEPT
                                ![a][b] = Store(recv_window[a][b], pkt)]
      BY <1>1, <3>2 DEF TypeOK
    <3> QED
      BY <2>2, <3>1, <3>2
  <2>5. send_window[m][n].start <= send_window'[m][n].start
    BY <1>2, <2>1, <2>3, WindowsGrow
  <2>6. /\ recv_window'[m][n].start = recv_window[m][n].start
        /\ recv_window[m][n].len <= recv_window'[m][n].len
        /\ recv_window'[m][n].len \in Int
    BY <1>2, <2>1, <2>4, WindowsGrow
  <2> QED
    BY <1>2, <2>5, <2>6 DEF Grows
<1>7. ASSUME NEW a \in Node,
             \/ ReceivePackets(a) \/ PollEnd(a) \/ AbortPoll(a) \/ ClockTick(a) \/ Quit(a)
             \/ \E b \in Node : \E pkt \in net[b][a] :
                  DiscardPacket(a, b, pkt) \/ LosePacket(b, a, pkt)
      PROVE  Grows(m, n)
  BY <1>3, <1>7 DEF ReceivePackets, PollEnd, AbortPoll, ClockTick, Quit, DiscardPacket,
                    LosePacket
<1> QED
  BY <1>4, <1>5, <1>6, <1>7 DEF Next

\* The logs only grow.
LEMMA MadeGrows ==
  ASSUME Inv, Next, NEW n \in Node
  PROVE  /\ Len(made[n]) <= Len(made'[n])
         /\ \A i \in 1 .. Len(made[n]) : made'[n][i] = made[n][i]
<1>1. made[n] \in Seq(Cmd) /\ Len(made[n]) \in Nat
  BY Numbers
<1>2. CASE made' = made
  BY <1>1, <1>2
<1>3. ASSUME NEW m \in Node, NEW cmd \in Cmd,
             made' = [made EXCEPT ![m] = Append(@, cmd)]
      PROVE  /\ Len(made[n]) <= Len(made'[n])
             /\ \A i \in 1 .. Len(made[n]) : made'[n][i] = made[n][i]
  <2>1. made \in [Node -> Seq(Cmd)]
    BY DEF Inv, TypeOK
  <2>2. CASE n = m
    <3>1. made'[n] = Append(made[n], cmd)
      BY <1>3, <2>1, <2>2
    <3> QED
      BY <1>1, <3>1
  <2>3. CASE n # m
    <3>1. made'[n] = made[n]
      BY <1>3, <2>1, <2>3
    <3> QED
      BY <1>1, <3>1
  <2> QED
    BY <2>2, <2>3
<1>4. ASSUME NEW m \in Node, NEW cmd \in Cmd, SwapCommand(m, cmd)
      PROVE  made' = [made EXCEPT ![m] = Append(@, cmd)]
  BY <1>4 DEF SwapCommand
<1>5. ASSUME NEW m \in Node,
             \/ SwapReturn(m) \/ ReceivePackets(m) \/ PollEnd(m)
             \/ AbortPoll(m) \/ ClockTick(m) \/ Quit(m)
      PROVE  made' = made
  BY <1>5 DEF SwapReturn, ReceivePackets, PollEnd, AbortPoll, ClockTick, Quit
<1>6. ASSUME NEW m \in Node, NEW k \in Node, NEW pkt \in net[k][m],
             \/ ReceivePacket(m, k, pkt) \/ DiscardPacket(m, k, pkt)
             \/ LosePacket(k, m, pkt)
      PROVE  made' = made
  BY <1>6 DEF ReceivePacket, DiscardPacket, LosePacket
<1> QED
  BY <1>2, <1>3, <1>4, <1>5, <1>6 DEF Next

\* A received command is never replaced, a received or acknowledged tic is
\* never taken back, whatever ReceivePacket is given.
THEOREM NothingTakenBack == Spec => NeverTakenBack
<1> DEFINE Kept(m, n) ==
       LET w == recv_window[m][n]
           v == recv_window'[m][n]
       IN  /\ End(w) <= End(v)
           /\ send_window[m][n].start <= send_window'[m][n].start
           /\ \A t \in v.start .. End(w) - 1 :
                v.cmds[t - v.start] = w.cmds[t - w.start]
<1>1. ASSUME Inv, Inv', Next, NEW m \in Node, NEW n \in Node
      PROVE  Kept(m, n)
  <2> DEFINE w == recv_window[m][n]
             v == recv_window'[m][n]
  <2>1. /\ w.start <= v.start /\ w.start + w.len <= v.start + v.len
        /\ send_window[m][n].start <= send_window'[m][n].start
    BY <1>1, StepGrows DEF Grows
  <2>2. /\ w \in Window /\ v \in Window
    BY <1>1 DEF Inv, TypeOK
  <2>3. /\ w.start \in Nat /\ w.len \in 0 .. MAX_DELAY
        /\ v.start \in Nat /\ v.len \in 0 .. MAX_DELAY /\ MAX_DELAY \in Nat
    BY <2>2, NodeFacts DEF Window
  <2>4. w.len > 0 => Holds(w, made[n])
    BY <1>1 DEF Inv, OwnWindow, RecvWindows
  <2>5. v.len > 0 => Holds(v, made'[n])
    BY <1>1 DEF Inv, OwnWindow, RecvWindows
  <2>6. made[n] \in Seq(Cmd) /\ Len(made[n]) \in Nat
    BY <1>1, Numbers
  <2> HIDE DEF w, v
  <2>7. \A t \in v.start .. End(w) - 1 :
          v.cmds[t - v.start] = w.cmds[t - w.start]
    <3> SUFFICES ASSUME NEW t \in v.start .. (w.start + w.len) - 1
                 PROVE  v.cmds[t - v.start] = w.cmds[t - w.start]
      BY DEF End
    <3>1. /\ t - v.start \in Slot /\ t - v.start < v.len /\ v.len > 0
          /\ t - w.start \in Slot /\ t - w.start < w.len /\ w.len > 0
          /\ v.start + (t - v.start) + 1 = t + 1
          /\ w.start + (t - w.start) + 1 = t + 1
      <4> DEFINE ws == w.start
                 wl == w.len
                 vs == v.start
                 vl == v.len
      <4>1. /\ ws \in Nat /\ wl \in Nat /\ wl <= MAX_DELAY
            /\ vs \in Nat /\ vl \in Nat /\ vl <= MAX_DELAY
            /\ MAX_DELAY \in Nat /\ t \in Int
            /\ ws <= vs /\ ws + wl <= vs + vl /\ vs <= t /\ t < ws + wl
        BY <2>1, <2>3
      <4> HIDE DEF ws, wl, vs, vl
      <4>2. /\ t - vs \in Slot /\ t - vs < vl /\ vl > 0
            /\ t - ws \in Slot /\ t - ws < wl /\ wl > 0
            /\ vs + (t - vs) + 1 = t + 1 /\ ws + (t - ws) + 1 = t + 1
        BY <4>1 DEF Slot
      <4> QED
        BY <4>2 DEF ws, wl, vs, vl
    <3>2. v.cmds[t - v.start] = made'[n][t + 1]
      BY <2>5, <3>1 DEF Holds, Carries
    <3>3. w.cmds[t - w.start] = made[n][t + 1]
      BY <2>4, <3>1 DEF Holds, Carries
    <3>4. t + 1 \in 1 .. Len(made[n])
      BY SMTT(30), <2>3, <2>4, <2>6, <3>1 DEF Holds, Carries
    <3> QED
      BY <1>1, <3>2, <3>3, <3>4, MadeGrows
  <2>8. End(w) <= End(v)
    BY <2>1 DEF End
  <2> QED
    BY <2>1, <2>7, <2>8, Zenon DEF w, v
<1>2. Inv /\ Inv' /\ [Next]_vars => [\A m, n \in Node : Kept(m, n)]_vars
  BY <1>1
<1>3. Spec => [][\A m, n \in Node : Kept(m, n)]_vars
  <2> HIDE DEF Kept
  <2> QED
    BY <1>2, Invariance, PTL DEF Spec
<1> QED
  BY <1>3 DEF NeverTakenBack

-----------------------------------------------------------------------------
(* The refinement.                                                         *)

\* An initial state is an initial state of Lockstep,
LEMMA InitRefines == Init => Abstract!Init
BY DEF Init, Abstract!Init, NoCmds

\* and a step is a step of Lockstep or changes nothing it sees.
LEMMA StepRefines == Inv /\ Inv' /\ [Next]_vars => [Abstract!Next]_(Abstract!vars)
<1> SUFFICES ASSUME Inv, Inv', [Next]_vars
             PROVE  Abstract!Next \/ UNCHANGED <<made, gametic, cmd_buf>>
  BY DEF Abstract!vars
<1>1. ASSUME NEW m \in Node, NEW cmd \in Cmd, SwapCommand(m, cmd)
      PROVE  Abstract!Next
  <2>1. Len(made[m]) = gametic[m] + DELAY - 1
    BY <1>1 DEF Inv, Pipeline, Swapping, SwapCommand
  <2>2. Abstract!Give(m, cmd)
    BY <1>1, <2>1 DEF SwapCommand, Abstract!Give
  <2> QED
    BY <2>2 DEF Abstract!Next
<1>2. ASSUME NEW m \in Node, SwapReturn(m)
      PROVE  Abstract!Next
  <2>1. /\ pc[m] = "wait" /\ NewTicReady(m)
        /\ cmd_buf' = [cmd_buf EXCEPT ![m] =
                         [p \in Player |-> CommandOf(m, p)]]
        /\ gametic' = [gametic EXCEPT ![m] = @ + 1]
        /\ made' = made
    BY <1>2 DEF SwapReturn
  <2>2. Swapping(m) /\ Len(made[m]) = gametic[m] + DELAY
    BY <2>1 DEF Inv, Pipeline, Swapping
  <2>3. \A n \in Node : Len(made[n]) > gametic[m]
    <3> SUFFICES ASSUME NEW n \in Node PROVE Len(made[n]) > gametic[m]
      OBVIOUS
    <3>1. recv_window[m][n].len > 0 /\ recv_window[m][n].start = gametic[m]
          /\ recv_window[m][n].start + recv_window[m][n].len <= Len(made[n])
      BY <2>1, <2>2 DEF NewTicReady, Inv, OwnWindow, RecvWindows, Holds,
                        Carries
    <3>2. /\ recv_window[m][n].len \in Nat /\ gametic[m] \in Nat
          /\ Len(made[n]) \in Nat
      BY Numbers
    <3> QED
      BY <3>1, <3>2
  <2>4. \A p \in Player : CommandOf(m, p) =
          IF p \in Node THEN made[p][gametic[m] + 1] ELSE 0
    <3>1. gametic'[m] = gametic[m] + 1 /\ gametic'[m] > 0
      BY <2>1, Numbers DEF Inv, TypeOK
    <3>2. \A p \in Player : cmd_buf'[m][p] = CommandOf(m, p)
      BY <2>1 DEF Inv, TypeOK
    <3>3. \A p \in Player : cmd_buf'[m][p] =
            IF p \in Node THEN made'[p][gametic'[m]] ELSE 0
      BY <3>1 DEF Inv, RanWhatWasMade
    <3> QED
      BY <2>1, <3>1, <3>2, <3>3
  <2>5. cmd_buf' = [cmd_buf EXCEPT ![m] = [p \in Player |->
                     IF p \in Node THEN made[p][gametic[m] + 1] ELSE 0]]
    BY <2>1, <2>4
  <2>6. Abstract!Run(m)
    BY <2>1, <2>2, <2>3, <2>5 DEF Abstract!Run
  <2> QED
    BY <2>6 DEF Abstract!Next
<1>3. ASSUME NEW m \in Node,
             \/ ReceivePackets(m) \/ PollEnd(m) \/ AbortPoll(m) \/ ClockTick(m) \/ Quit(m)
             \/ \E n \in Node : \E pkt \in net[n][m] :
                  \/ ReceivePacket(m, n, pkt)
                  \/ DiscardPacket(m, n, pkt)
                  \/ LosePacket(n, m, pkt)
      PROVE  UNCHANGED <<made, gametic, cmd_buf>>
  BY <1>3 DEF ReceivePackets, PollEnd, AbortPoll, ClockTick, Quit, ReceivePacket,
              DiscardPacket, LosePacket
<1>4. CASE UNCHANGED vars
  BY <1>4 DEF vars
<1> QED
  BY <1>1, <1>2, <1>3, <1>4 DEF Next

\* Windows, packets and acknowledgements implement the plain lockstep:
\* SwapCommand's first half gives a command, its second half runs a tic,
\* and everything else is invisible to the game.
THEOREM Refinement == Spec => ImplementsLockstep
<1>1. Init => Abstract!Init
  BY InitRefines
<1>2. Inv /\ Inv' /\ [Next]_vars => [Abstract!Next]_(Abstract!vars)
  BY StepRefines
<1>3. Spec => Abstract!Spec
  BY <1>1, <1>2, Invariance, PTL DEF Spec, Abstract!Spec
<1> QED
  BY <1>3 DEF ImplementsLockstep

=============================================================================
