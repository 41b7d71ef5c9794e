----------------------------- MODULE WireProofs -----------------------------
(***************************************************************************)
(* Wire and Crc32: every packet that is accepted is read as it was meant,  *)
(* and which damage to a packet the checksum shows, whatever is in it.     *)
(***************************************************************************)
EXTENDS Crc32, SequenceTheorems, WellFoundedInduction, TLAPS

\* The checksum of a packet that carries msg.
SumOf(msg) == <<DataLength(Len(msg.cmds)), msg.head, Len(msg.cmds), msg.cmds>>

\* A packet's data on the way; its length says how many commands it has.
Data == [datalength : 0 .. sizeof_packet, checksum : Sum, head : Header,
         num_cmds : 0 .. 255, cmds : Commands]

\* Packets on the way carry the checksum of what they mean.
NetRight ==
  \A p \in net : /\ p.orig \in Message
                 /\ p.data \in Data
                 /\ p.data.checksum = SumOf(p.orig)
                 /\ Len(p.data.cmds) = Covered(p.data.datalength)

\* A packet in the buffer that is long enough has the checksum of what its
\* sender meant, or one that nothing has.
BufferRight ==
  pc = "got" =>
    \E msg \in Message :
      /\ orig = {msg}
      /\ doomcom.datalength \in 0 .. sizeof_packet
      /\ LongEnough(doomcom) => doomcom.checksum \in {NoSum, SumOf(msg)}

Inv ==
  /\ TypeOK
  /\ NetRight
  /\ BufferRight
  /\ ReadAsMeant

\* The sizes in bytes of the parts of a packet.
LEMMA Sizes ==
  /\ MAX_DELAY \in Nat /\ MAX_DELAY >= 1
  /\ sizeof_packet \in 14 .. 512
  BY WireAssumption DEF sizeof_packet, MIN_PACKET_LEN

\* The length of a packet of n commands covers exactly these.
LEMMA Lengths ==
  ASSUME NEW n \in 0 .. MAX_DELAY
  PROVE  /\ DataLength(n) \in 0 .. sizeof_packet /\ DataLength(n) \in 0 .. 512
         /\ Covered(DataLength(n)) = n
         /\ n \in 0 .. 255
  BY WireAssumption DEF sizeof_packet, DataLength, Covered, MIN_PACKET_LEN

LEMMA CoveredGrows ==
  ASSUME NEW len \in Nat, NEW n \in 0 .. len
  PROVE  Covered(n) \in 0 .. MAX_DELAY /\ Covered(n) <= Covered(len)
  BY WireAssumption DEF sizeof_packet, Covered, MIN_PACKET_LEN

\* Sequences of commands are as long as they say.
LEMMA CommandsLength ==
  ASSUME NEW c \in Commands
  PROVE  /\ Len(c) \in 0 .. MAX_DELAY
         /\ c \in [1 .. Len(c) -> Cmd]
<1>1. PICK n \in 0 .. MAX_DELAY : c \in [1 .. n -> Cmd]
  BY DEF Commands
<1>2. n \in Nat /\ c \in Seq(Cmd)
  BY <1>1, Sizes
<1>3. Len(c) = n
  BY <1>1, <1>2
<1> QED
  BY <1>1, <1>3

LEMMA IsCommands ==
  ASSUME NEW n \in 0 .. MAX_DELAY, NEW c \in [1 .. n -> Cmd]
  PROVE  c \in Commands
  BY Zenon DEF Commands

\* What the first n of the commands in a buffer are.
LEMMA PrefixCommands ==
  ASSUME NEW cmds \in [1 .. MAX_DELAY -> Cmd], NEW n \in 0 .. MAX_DELAY
  PROVE  [k \in 1 .. n |-> cmds[k]] \in Commands
<1>1. \A k \in 1 .. n : k \in 1 .. MAX_DELAY
  BY Sizes
<1>2. [k \in 1 .. n |-> cmds[k]] \in [1 .. n -> Cmd]
  BY <1>1
<1> QED
  BY <1>2, IsCommands

\* Writing over a buffer's commands.
LEMMA OverCommands ==
  ASSUME NEW c \in Commands, NEW old \in [1 .. MAX_DELAY -> Cmd]
  PROVE  /\ Over(c, old) \in [1 .. MAX_DELAY -> Cmd]
         /\ \A k \in 1 .. Len(c) : Over(c, old)[k] = c[k]
<1>1. PICK n \in 0 .. MAX_DELAY : n = Len(c) /\ c \in [1 .. n -> Cmd]
  BY CommandsLength
<1>2. Over(c, old) = [k \in 1 .. MAX_DELAY |-> IF k <= n THEN c[k] ELSE old[k]]
  BY <1>1 DEF Over
<1>3. \A k \in 1 .. MAX_DELAY : (IF k <= n THEN c[k] ELSE old[k]) \in Cmd
  BY <1>1, Sizes
<1>4. \A k \in 1 .. n : k \in 1 .. MAX_DELAY /\ k <= n
  BY SMTT(30), Sizes
<1> QED
  BY <1>1, <1>2, <1>3, <1>4

\* SendPacket fills a buffer with the message and its checksum.
LEMMA FilledRight ==
  ASSUME NEW old \in [1 .. MAX_DELAY -> Cmd], NEW msg \in Message
  PROVE  /\ Filled(old, msg) \in Doomcom
         /\ Filled(old, msg).datalength = DataLength(Len(msg.cmds))
         /\ Filled(old, msg).checksum = SumOf(msg)
<1> DEFINE n == Len(msg.cmds)
<1>1. msg.cmds \in Commands /\ msg.head \in Header
  BY DEF Message
<1>2. n \in 0 .. MAX_DELAY /\ msg.cmds \in [1 .. n -> Cmd]
  BY <1>1, CommandsLength
<1>4. /\ Over(msg.cmds, old) \in [1 .. MAX_DELAY -> Cmd]
      /\ \A k \in 1 .. n : Over(msg.cmds, old)[k] = msg.cmds[k]
  BY <1>1, OverCommands
<1>5. DataLength(n) \in 0 .. 512 /\ Covered(DataLength(n)) = n /\ n \in 0 .. 255
  <2> HIDE DEF n
  <2> QED
    BY <1>2, Lengths
<1>6. [k \in 1 .. n |-> Over(msg.cmds, old)[k]] = msg.cmds
  BY SMTT(30), <1>2, <1>4
<1>7. Checksum(DataLength(n), msg.head, n, Over(msg.cmds, old)) = SumOf(msg)
  BY SMTT(30), <1>5, <1>6 DEF Checksum, SumOf
<1>8. SumOf(msg) \in Sum
  BY ZenonT(60), <1>1, <1>5 DEF Sum, SumOf
<1>9. Filled(old, msg) =
         [datalength |-> DataLength(n), checksum |-> SumOf(msg),
          head |-> msg.head, num_cmds |-> n, cmds |-> Over(msg.cmds, old)]
  BY <1>7 DEF Filled
<1> QED
  BY <1>1, <1>4, <1>5, <1>8, <1>9 DEF Doomcom

\* A packet on the way, damaged or not.
LEMMA DamagedData ==
  ASSUME NEW p \in Data, Len(p.cmds) = Covered(p.datalength),
         NEW q \in Damaged(p)
  PROVE  q \in Data /\ q.checksum \in {NoSum, p.checksum}
<1>1. /\ p.cmds \in Commands /\ Len(p.cmds) \in 0 .. MAX_DELAY
      /\ p.cmds \in [1 .. Len(p.cmds) -> Cmd]
      /\ p.datalength \in 0 .. sizeof_packet
  BY CommandsLength DEF Data
<1>2. CASE \E h \in Header : q = [p EXCEPT !.head = h]
  BY ZenonT(60), <1>2 DEF Data
<1>3. CASE \E n \in 0 .. MAX_DELAY + 1 : q = [p EXCEPT !.num_cmds = n]
  <2>1. PICK n \in 0 .. MAX_DELAY + 1 : q = [p EXCEPT !.num_cmds = n]
    BY <1>3
  <2>2. n \in 0 .. 255
    BY WireAssumption
  <2> QED
    BY SMTT(30), <2>1, <2>2 DEF Data
<1>4. CASE \E c \in [1 .. Len(p.cmds) -> Cmd] : q = [p EXCEPT !.cmds = c]
  <2>1. PICK c \in [1 .. Len(p.cmds) -> Cmd] : q = [p EXCEPT !.cmds = c]
    BY <1>4
  <2>2. c \in Commands
    BY <1>1, IsCommands
  <2> QED
    BY ZenonT(60), <2>1, <2>2 DEF Data
<1>5. CASE q = [p EXCEPT !.checksum = NoSum]
  <2>1. NoSum \in Sum
    BY DEF Sum
  <2> QED
    BY ZenonT(60), <1>5, <2>1 DEF Data
<1>6. CASE \E n \in 0 .. p.datalength :
             q = [p EXCEPT !.datalength = n, !.cmds = SubSeq(@, 1, Covered(n))]
  <2>1. PICK n \in 0 .. p.datalength :
          q = [p EXCEPT !.datalength = n, !.cmds = SubSeq(p.cmds, 1, Covered(n))]
    BY <1>6
  <2>2. n \in 0 .. sizeof_packet /\ Covered(n) \in 0 .. MAX_DELAY
    <3>1. PICK len \in 0 .. sizeof_packet : len = p.datalength
      BY <1>1
    <3>2. n \in 0 .. sizeof_packet /\ len \in Nat /\ n \in 0 .. len
      BY <3>1, Sizes
    <3> QED
      BY <3>2, CoveredGrows
  <2>3. Covered(n) <= Len(p.cmds)
    <3>1. PICK len \in 0 .. sizeof_packet : len = p.datalength
      BY <1>1
    <3>2. len \in Nat /\ n \in 0 .. len
      BY <3>1, Sizes
    <3> QED
      BY <3>1, <3>2, CoveredGrows
  <2>4. SubSeq(p.cmds, 1, Covered(n)) = [k \in 1 .. Covered(n) |-> p.cmds[k]]
    <3>1. p.cmds \in Seq(Cmd)
      BY <1>1
    <3> QED
      BY <2>2, <2>3, <3>1
  <2>5. SubSeq(p.cmds, 1, Covered(n)) \in [1 .. Covered(n) -> Cmd]
    <3> PICK m \in 0 .. MAX_DELAY : m = Covered(n)
      BY <2>2
    <3> PICK len \in 0 .. MAX_DELAY : len = Len(p.cmds)
      BY <1>1
    <3>1. \A k \in 1 .. m : k \in 1 .. len
      BY <2>3, Sizes
    <3>2. \A k \in 1 .. m : p.cmds[k] \in Cmd
      BY <1>1, <3>1
    <3> QED
      BY <2>4, <3>2
  <2>6. SubSeq(p.cmds, 1, Covered(n)) \in Commands
    BY <2>2, <2>5, IsCommands
  <2> QED
    BY ZenonT(60), <2>1, <2>2, <2>6 DEF Data
<1> QED
  BY <1>2, <1>3, <1>4, <1>5, <1>6 DEF Damaged

-----------------------------------------------------------------------------
(* The invariant.                                                          *)

LEMMA InitInv == Init => Inv
<1> SUFFICES ASSUME Init PROVE Inv
  OBVIOUS
<1>1. 0 \in 0 .. 512 /\ 0 \in 0 .. 255 /\ 0 \in 0 .. sizeof_packet - 4
  BY Sizes
<1>2. NoSum \in Sum
  BY DEF Sum
<1>3. doomcom \in Doomcom
  BY <1>1, <1>2 DEF Init, Unused, Doomcom
<1>4. TypeOK
  BY <1>1, <1>3 DEF Init, TypeOK
<1> QED
  BY <1>4 DEF Inv, Init, NetRight, BufferRight, ReadAsMeant

LEMMA SendInv ==
  ASSUME Inv, NEW msg \in Message, SendPacket(msg)
  PROVE  Inv'
<1>1. doomcom' \in Doomcom
  <2>1. doomcom.cmds \in [1 .. MAX_DELAY -> Cmd]
    BY DEF Inv, TypeOK, Doomcom
  <2> QED
    BY <2>1, FilledRight DEF SendPacket
<1> QED
  BY <1>1 DEF SendPacket, Inv, TypeOK, NetRight, BufferRight, ReadAsMeant

LEMMA PeerInv ==
  ASSUME Inv, NEW msg \in Message, PeerSends(msg)
  PROVE  Inv'
<1>1. PICK stale \in [1 .. MAX_DELAY -> Cmd] :
        net' = net \cup {[data |-> Packet(Filled(stale, msg)), orig |-> msg]}
  BY DEF PeerSends
<1> PICK d \in Doomcom : d = Filled(stale, msg)
  BY FilledRight
<1>2. d.datalength = DataLength(Len(msg.cmds)) /\ d.checksum = SumOf(msg)
  BY FilledRight
<1>3. PICK n \in 0 .. MAX_DELAY : n = Len(msg.cmds)
  BY CommandsLength DEF Message
<1>4. d.datalength \in 0 .. sizeof_packet /\ Covered(d.datalength) = n
  BY <1>2, <1>3, Lengths
<1> DEFINE c == [k \in 1 .. n |-> d.cmds[k]]
<1>5. c \in Commands /\ c \in [1 .. n -> Cmd]
  <2>1. d.cmds \in [1 .. MAX_DELAY -> Cmd]
    BY DEF Doomcom
  <2>2. \A k \in 1 .. n : k \in 1 .. MAX_DELAY
    BY Sizes
  <2>3. c \in [1 .. n -> Cmd]
    BY <2>1, <2>2
  <2> QED
    BY <2>1, <2>3, PrefixCommands
<1>6. Len(c) = n
  BY <1>5, Sizes
<1>7. Packet(d) = [datalength |-> d.datalength, checksum |-> d.checksum,
                   head |-> d.head, num_cmds |-> d.num_cmds, cmds |-> c]
  BY <1>4 DEF Packet
<1>8. /\ Packet(d) \in Data
      /\ Packet(d).checksum = SumOf(msg)
      /\ Packet(d).cmds = c /\ Packet(d).datalength = d.datalength
  <2> HIDE DEF c
  <2> QED
    BY <1>2, <1>4, <1>5, <1>7 DEF Data, Doomcom
<1>9. NetRight'
  <2> SUFFICES ASSUME NEW p \in net'
               PROVE  /\ p.orig \in Message /\ p.data \in Data
                      /\ p.data.checksum = SumOf(p.orig)
                      /\ Len(p.data.cmds) = Covered(p.data.datalength)
    BY DEF NetRight
  <2>1. CASE p \in net
    BY <2>1 DEF Inv, NetRight
  <2>2. CASE p = [data |-> Packet(d), orig |-> msg]
    BY <1>4, <1>6, <1>8, <2>2
  <2> QED
    BY <1>1, <2>1, <2>2
<1> QED
  BY <1>9 DEF PeerSends, Inv, TypeOK, BufferRight, ReadAsMeant

LEMMA GetInv ==
  ASSUME Inv, NetGetPacket
  PROVE  Inv'
<1> DEFINE Got(p, q) ==
        /\ \E h \in {q} \cup IF q.datalength < MIN_PACKET_LEN THEN {doomcom} ELSE {} :
             doomcom' = [datalength |-> q.datalength, checksum |-> h.checksum,
                         head |-> h.head, num_cmds |-> h.num_cmds,
                         cmds |-> Over(q.cmds, doomcom.cmds)]
        /\ orig' = {p.orig}
        /\ pc' = "got"
        /\ net' \in {net, net \ {p}}
        /\ read' = {} /\ summed' = 0
<1> PICK p \in net : \E q \in Damaged(p.data) : Got(p, q)
  BY DEF NetGetPacket
<1>1. PICK q \in Damaged(p.data) : Got(p, q)
  OBVIOUS
<1>2. PICK h : /\ h = q \/ (h = doomcom /\ q.datalength < MIN_PACKET_LEN)
               /\ doomcom' = [datalength |-> q.datalength, checksum |-> h.checksum,
                              head |-> h.head, num_cmds |-> h.num_cmds,
                              cmds |-> Over(q.cmds, doomcom.cmds)]
  BY <1>1
<1>3. /\ p.orig \in Message /\ p.data \in Data
      /\ p.data.checksum = SumOf(p.orig)
      /\ Len(p.data.cmds) = Covered(p.data.datalength)
  BY DEF Inv, NetRight
<1>4. q \in Data /\ q.checksum \in {NoSum, SumOf(p.orig)}
  BY <1>3, DamagedData
<1>5. Over(q.cmds, doomcom.cmds) \in [1 .. MAX_DELAY -> Cmd]
  BY <1>4, OverCommands DEF Data, Inv, TypeOK, Doomcom
<1>6. q.datalength \in 0 .. sizeof_packet /\ q.datalength \in 0 .. 512
  <2>1. \A len \in 0 .. sizeof_packet : len \in 0 .. 512
    BY Sizes
  <2>2. q.datalength \in 0 .. sizeof_packet
    BY <1>4 DEF Data
  <2> QED
    BY SMTT(30), <2>1, <2>2
<1>7. /\ doomcom' \in Doomcom
      /\ doomcom'.datalength = q.datalength
      /\ doomcom'.checksum = h.checksum
  <2>1. h.checksum \in Sum /\ h.head \in Header /\ h.num_cmds \in 0 .. 255
    <3>1. CASE h = q
      BY <1>4, <3>1 DEF Data
    <3>2. CASE h = doomcom
      BY <3>2 DEF Doomcom, Inv, TypeOK
    <3> QED
      BY <1>2, <3>1, <3>2
  <2> QED
    BY <1>2, <1>5, <1>6, <2>1 DEF Doomcom
<1>8. TypeOK'
  <2>1. 0 \in 0 .. sizeof_packet - 4
    BY Sizes
  <2> QED
    BY <1>1, <1>3, <1>7, <2>1 DEF TypeOK
<1>9. NetRight'
  BY <1>1 DEF Inv, NetRight
<1>10. BufferRight'
  <2>1. LongEnough(doomcom)' => doomcom'.checksum \in {NoSum, SumOf(p.orig)}
    <3> SUFFICES ASSUME LongEnough(doomcom)'
                 PROVE  doomcom'.checksum \in {NoSum, SumOf(p.orig)}
      OBVIOUS
    <3>1. q.datalength >= MIN_PACKET_LEN /\ q.datalength \in Int
      BY <1>6, <1>7 DEF LongEnough
    <3>2. h = q
      BY <1>2, <3>1 DEF MIN_PACKET_LEN
    <3> QED
      BY <1>4, <1>7, <3>2
  <2> QED
    BY <1>1, <1>3, <1>6, <1>7, <2>1 DEF BufferRight
<1> QED
  BY <1>1, <1>8, <1>9, <1>10 DEF Inv, ReadAsMeant

LEMMA ReceiveInv ==
  ASSUME Inv, ReceivePacket
  PROVE  Inv'
<1>1. PICK msg \in Message :
        /\ orig = {msg}
        /\ doomcom.datalength \in 0 .. sizeof_packet
        /\ LongEnough(doomcom) => doomcom.checksum \in {NoSum, SumOf(msg)}
  BY DEF Inv, BufferRight, ReceivePacket
<1>2. summed' \in 0 .. sizeof_packet - 4
  <2>1. PICK len \in 0 .. sizeof_packet : len = doomcom.datalength
    BY <1>1
  <2>2. len >= 14 => (len - 4) % 65536 \in 0 .. sizeof_packet - 4
    BY Sizes
  <2> QED
    BY <2>1, <2>2 DEF ReceivePacket, LongEnough, MIN_PACKET_LEN, Inv, TypeOK
<1>3. read' \subseteq {msg}
  <2>1. CASE LongEnough(doomcom) /\ Valid(doomcom)
    <3>1. doomcom.checksum = Checksum(doomcom.datalength, doomcom.head,
                                      doomcom.num_cmds, doomcom.cmds)
      BY <2>1 DEF Valid
    <3>2. doomcom.checksum # NoSum
      BY <3>1 DEF Checksum, NoSum
    <3>3. doomcom.checksum = SumOf(msg)
      BY <1>1, <2>1, <3>2
    <3>4. /\ doomcom.datalength = DataLength(Len(msg.cmds))
          /\ doomcom.head = msg.head
          /\ doomcom.num_cmds = Len(msg.cmds)
          /\ [k \in 1 .. Covered(doomcom.datalength) |-> doomcom.cmds[k]] = msg.cmds
      BY <3>1, <3>3 DEF Checksum, SumOf
    <3>5. PICK n \in 0 .. MAX_DELAY : n = Len(msg.cmds)
      BY CommandsLength DEF Message
    <3>6. Covered(doomcom.datalength) = n
      BY <3>4, <3>5, Lengths
    <3>7. [k \in 1 .. doomcom.num_cmds |-> doomcom.cmds[k]] = msg.cmds
      BY <3>4, <3>5, <3>6
    <3>8. [head |-> doomcom.head,
           cmds |-> [k \in 1 .. doomcom.num_cmds |-> doomcom.cmds[k]]] = msg
      BY <3>4, <3>7 DEF Message
    <3> QED
      BY <2>1, <3>8 DEF ReceivePacket
  <2>2. CASE ~(LongEnough(doomcom) /\ Valid(doomcom))
    BY <1>1, <2>2 DEF ReceivePacket, Inv, ReadAsMeant
  <2> QED
    BY <2>1, <2>2
<1>4. TypeOK'
  BY <1>1, <1>2, <1>3 DEF ReceivePacket, Inv, TypeOK
<1> QED
  BY <1>1, <1>3, <1>4 DEF ReceivePacket, Inv, NetRight, BufferRight, ReadAsMeant

\* The invariant holds in every state.
THEOREM Invariance == Spec => []Inv
<1>1. Inv /\ [Next]_vars => Inv'
  <2> SUFFICES ASSUME Inv, [Next]_vars PROVE Inv'
    OBVIOUS
  <2>1. ASSUME NEW msg \in Message, SendPacket(msg) PROVE Inv'
    BY <2>1, SendInv
  <2>2. ASSUME NEW msg \in Message, PeerSends(msg) PROVE Inv'
    BY <2>2, PeerInv
  <2>3. CASE NetGetPacket
    BY <2>3, GetInv
  <2>4. CASE ReceivePacket
    BY <2>4, ReceiveInv
  <2>5. CASE UNCHANGED vars
    BY <2>5 DEF vars, Inv, TypeOK, NetRight, BufferRight, ReadAsMeant, LongEnough
  <2> QED
    BY <2>1, <2>2, <2>3, <2>4, <2>5 DEF Next
<1> QED
  BY <1>1, InitInv, PTL DEF Spec

\* Types: Checksum never goes beyond what was received.
THEOREM TypeCorrect == Spec => []TypeOK
<1>1. Inv => TypeOK
  BY DEF Inv
<1> QED
  BY <1>1, Invariance, PTL

\* ReceivePacket reads what it accepts as its sender meant it, whatever was
\* in the buffer, for packets of any size and any damage.
THEOREM Meant == Spec => []ReadAsMeant
<1>1. Inv => ReadAsMeant
  BY DEF Inv
<1> QED
  BY <1>1, Invariance, PTL

-----------------------------------------------------------------------------
(* Functions that are defined by recursion on the naturals.                *)

LEMMA Least ==
  ASSUME NEW T, T \subseteq Nat, T # {}
  PROVE  \E x \in T : \A y \in T : x <= y
<1>. DEFINE R == {p \in Nat \X Nat : p[1] < p[2]}
<1>1. IsWellFoundedOn(R, Nat)
  BY NatLessThanWellFounded DEF OpToRel
<1>2. \A x, y \in Nat : y < x => <<y, x>> \in R
  OBVIOUS
<1>. HIDE DEF R
<1>3. PICK x \in T : \A y \in T : ~(<<y, x>> \in R)
  BY <1>1, WFMin
<1>4. \A y \in T : ~(y < x)
  BY <1>2, <1>3
<1>. QED
  BY <1>4

LEMMA Induct ==
  ASSUME NEW S, 0 \in S, \A n \in Nat : n \in S => n + 1 \in S
  PROVE  Nat \subseteq S
<1>. DEFINE T == Nat \ S
<1>. SUFFICES ASSUME T # {} PROVE FALSE
  OBVIOUS
<1>1. PICK x \in T : \A y \in T : x <= y
  BY Least
<1>2. x # 0 /\ x - 1 \in Nat
  OBVIOUS
<1>3. x - 1 \in S
  BY <1>1, <1>2
<1>. QED
  BY <1>2, <1>3

\* u begins with b, and F gives each value from the one before.
Defined(u, N, X, b, F) ==
  /\ u \in [0 .. N -> X]
  /\ u[0] = b /\ \A k \in 1 .. N : u[k] = F[<<k, u[k - 1]>>]

LEMMA Recursion ==
  ASSUME NEW X, NEW N \in Nat, NEW b \in X, NEW F \in [(1 .. N) \X X -> X]
  PROVE  \E u : Defined(u, N, X, b, F)
<1>. DEFINE Upto(u, m) ==
              /\ u \in [0 .. m -> X]
              /\ u[0] = b /\ \A k \in 1 .. m : u[k] = F[<<k, u[k - 1]>>]
            S == {m \in Nat : m <= N => \E u : Upto(u, m)}
<1>1. 0 \in S
  <2>. DEFINE u == [k \in 0 .. 0 |-> b]
  <2>1. Upto(u, 0)
    OBVIOUS
  <2>. QED
    BY <2>1
<1>2. ASSUME NEW m \in Nat, m \in S PROVE m + 1 \in S
  <2>. SUFFICES ASSUME m + 1 <= N PROVE \E u : Upto(u, m + 1)
    OBVIOUS
  <2>1. PICK u : Upto(u, m)
    BY <1>2
  <2>. DEFINE h == [k \in 0 .. m + 1 |-> IF k = m + 1 THEN F[<<m + 1, u[m]>>] ELSE u[k]]
  <2>2. F[<<m + 1, u[m]>>] \in X
    <3>1. u[m] \in X /\ m + 1 \in 1 .. N
      BY <2>1
    <3>. QED
      BY <3>1
  <2>3. h \in [0 .. m + 1 -> X]
    BY <2>1, <2>2
  <2>4. h[0] = b /\ h[m + 1] = F[<<m + 1, u[m]>>] /\ \A k \in 0 .. m : h[k] = u[k]
    BY <2>1
  <2>. HIDE DEF h
  <2>5. ASSUME NEW k \in 1 .. m + 1 PROVE h[k] = F[<<k, h[k - 1]>>]
    <3>1. CASE k = m + 1
      <4>1. k - 1 = m /\ m \in 0 .. m
        BY <3>1
      <4>. QED
        BY <2>4, <3>1, <4>1
    <3>2. CASE k # m + 1
      <4>1. k \in 1 .. m /\ k \in 0 .. m /\ k - 1 \in 0 .. m
        BY <3>2
      <4>. QED
        BY <2>1, <2>4, <4>1
    <3>. QED
      BY <3>1, <3>2
  <2>6. Upto(h, m + 1)
    BY <2>3, <2>4, <2>5
  <2>. QED
    BY <2>6
<1>3. N \in S
  <2>. HIDE DEF S
  <2>. QED
    BY <1>1, <1>2, Induct
<1>. QED
  BY <1>3 DEF Defined

\* u and v come from the same recursion.
Alike(u, v, N) ==
  u[0] = v[0] /\ \A k \in 1 .. N : u[k - 1] = v[k - 1] => u[k] = v[k]

LEMMA Same ==
  ASSUME NEW N \in Nat, NEW u, NEW v, Alike(u, v, N)
  PROVE  u[N] = v[N]
<1>. DEFINE S == {m \in Nat : m <= N => u[m] = v[m]}
<1>1. 0 \in S
  BY DEF Alike
<1>2. ASSUME NEW m \in Nat, m \in S PROVE m + 1 \in S
  <2>. SUFFICES ASSUME m + 1 <= N PROVE u[m + 1] = v[m + 1]
    OBVIOUS
  <2>1. m + 1 \in 1 .. N /\ (m + 1) - 1 = m /\ u[m] = v[m]
    BY <1>2
  <2>. QED
    BY <2>1 DEF Alike
<1>3. Nat \subseteq S
  <2>. HIDE DEF S
  <2>. QED
    BY <1>1, <1>2, Induct
<1>. QED
  BY <1>3

-----------------------------------------------------------------------------
(* Words.                                                                  *)

LEMMA XorAlgebra ==
  ASSUME NEW a, NEW b, NEW c
  PROVE  /\ Xor(a, b) = Xor(b, a)
         /\ Xor(Xor(a, b), c) = Xor(a, Xor(b, c))
         /\ Xor(a, {}) = a /\ Xor({}, a) = a /\ Xor(a, a) = {}
         /\ Xor(Xor(a, b), b) = a
         /\ Xor(a, b) = {} <=> a = b
         /\ Xor(a, b) \cap c = Xor(a \cap c, b \cap c)
  BY DEF Xor

\* Two sums of two.
LEMMA XorFour ==
  ASSUME NEW a, NEW b, NEW c, NEW d
  PROVE  Xor(Xor(a, b), Xor(c, d)) = Xor(Xor(a, c), Xor(b, d))
  BY DEF Xor

LEMMA XorMember ==
  ASSUME NEW a, NEW b, NEW x
  PROVE  x \in Xor(a, b) <=> ~(x \in a <=> x \in b)
  BY DEF Xor

LEMMA WordTypes ==
  /\ {} \in Byte /\ {} \in Word /\ Ones \in Word /\ Byte \subseteq Word
  /\ \A w : w \cap 0 .. 7 \in Byte
  /\ \A a, b \in Word : Xor(a, b) \in Word
  /\ \A a, b \in Byte : Xor(a, b) \in Byte
  BY DEF Byte, Word, Ones, Xor

LEMMA ShiftMember ==
  ASSUME NEW w \in Word, NEW n \in Nat
  PROVE  /\ ShiftRight(w, n) \in Word
         /\ \A j \in Int : j \in ShiftRight(w, n) <=> j >= 0 /\ j + n \in w
<1>1. \A b \in w : b \in 0 .. 31
  BY DEF Word
<1>2. ASSUME NEW j \in ShiftRight(w, n) PROVE j \in 0 .. 31 /\ j + n \in w
  <2>1. PICK k \in w : k >= n /\ j = k - n
    BY <1>2 DEF ShiftRight
  <2>. QED
    BY <1>1, <2>1
<1>3. ASSUME NEW j \in Int, j >= 0, j + n \in w PROVE j \in ShiftRight(w, n)
  <2>1. j + n >= n /\ (j + n) - n = j
    BY <1>3
  <2>. QED
    BY <1>3, <2>1 DEF ShiftRight
<1>4. ShiftRight(w, n) \in Word
  BY <1>2 DEF Word
<1>. QED
  BY <1>2, <1>3, <1>4

\* Words are the same if they have the same bits.
LEMMA SameWord ==
  ASSUME NEW a \in Word, NEW b \in Word, \A j \in 0 .. 31 : j \in a <=> j \in b
  PROVE  a = b
  BY DEF Word

LEMMA ShiftXor ==
  ASSUME NEW a \in Word, NEW b \in Word, NEW n \in Nat
  PROVE  ShiftRight(Xor(a, b), n) = Xor(ShiftRight(a, n), ShiftRight(b, n))
<1>. DEFINE s == ShiftRight(Xor(a, b), n)
            t == Xor(ShiftRight(a, n), ShiftRight(b, n))
<1>1. Xor(a, b) \in Word
  BY WordTypes
<1>2. s \in Word /\ t \in Word
  BY <1>1, ShiftMember, WordTypes
<1>3. ASSUME NEW j \in 0 .. 31 PROVE j \in s <=> j \in t
  <2>1. j \in Int /\ j >= 0
    OBVIOUS
  <2>2. j \in s <=> j + n \in Xor(a, b)
    BY <1>1, <2>1, ShiftMember
  <2>3. (j \in ShiftRight(a, n) <=> j + n \in a) /\ (j \in ShiftRight(b, n) <=> j + n \in b)
    BY <2>1, ShiftMember
  <2>. QED
    BY <2>2, <2>3, XorMember
<1>. HIDE DEF s, t
<1>4. s = t
  BY <1>2, <1>3, SameWord
<1>. QED
  BY <1>4 DEF s, t

LEMMA ShiftShift ==
  ASSUME NEW w \in Word, NEW n \in Nat
  PROVE  ShiftRight(ShiftRight(w, n), 1) = ShiftRight(w, n + 1)
<1>. DEFINE s == ShiftRight(ShiftRight(w, n), 1)
            t == ShiftRight(w, n + 1)
<1>1. ShiftRight(w, n) \in Word /\ n + 1 \in Nat /\ 1 \in Nat
  BY ShiftMember
<1>2. s \in Word /\ t \in Word
  BY <1>1, ShiftMember
<1>3. ASSUME NEW j \in 0 .. 31 PROVE j \in s <=> j \in t
  <2>1. j \in Int /\ j >= 0 /\ j + 1 \in Int /\ j + 1 >= 0 /\ (j + 1) + n = j + (n + 1)
    OBVIOUS
  <2>2. j \in s <=> j + 1 \in ShiftRight(w, n)
    BY <1>1, <2>1, ShiftMember
  <2>3. j + 1 \in ShiftRight(w, n) <=> (j + 1) + n \in w
    BY <2>1, ShiftMember
  <2>4. j \in t <=> j + (n + 1) \in w
    BY <1>1, <2>1, ShiftMember
  <2>. QED
    BY <2>1, <2>2, <2>3, <2>4
<1>. HIDE DEF s, t
<1>4. s = t
  BY <1>2, <1>3, SameWord
<1>. QED
  BY <1>4 DEF s, t

-----------------------------------------------------------------------------
(* The division.                                                           *)

LEMMA OneBitXor ==
  ASSUME NEW a \in Word, NEW b \in Word
  PROVE  /\ OneBit(a) \in Word
         /\ OneBit(Xor(a, b)) = Xor(OneBit(a), OneBit(b))
<1>. DEFINE P(w) == IF 0 \in w THEN Polynomial ELSE {}
<1>1. Polynomial \in Word
  BY DEF Polynomial, Word
<1>2. P(a) \in Word
  BY <1>1, WordTypes
<1>3. P(Xor(a, b)) = Xor(P(a), P(b))
  <2>1. 0 \in Xor(a, b) <=> ~(0 \in a <=> 0 \in b)
    BY XorMember
  <2>2. /\ Xor(Polynomial, Polynomial) = {} /\ Xor({}, {}) = {}
        /\ Xor(Polynomial, {}) = Polynomial /\ Xor({}, Polynomial) = Polynomial
    BY XorAlgebra
  <2>. QED
    BY <2>1, <2>2
<1>4. \A w : OneBit(w) = Xor(ShiftRight(w, 1), P(w))
  BY DEF OneBit
<1>. HIDE DEF P
<1>5. ShiftRight(a, 1) \in Word
  BY ShiftMember
<1>6. ShiftRight(Xor(a, b), 1) = Xor(ShiftRight(a, 1), ShiftRight(b, 1))
  BY ShiftXor
<1>. QED
  BY <1>2, <1>3, <1>4, <1>5, <1>6, WordTypes, XorFour

\* Eight steps of the division.
Eight(w) == OneBit(OneBit(OneBit(OneBit(OneBit(OneBit(OneBit(OneBit(w))))))))

LEMMA EightXor ==
  ASSUME NEW a \in Word, NEW b \in Word
  PROVE  /\ Eight(a) \in Word
         /\ Eight(Xor(a, b)) = Xor(Eight(a), Eight(b))
<1>1. \A w \in Word : OneBit(w) \in Word
  BY OneBitXor
<1>2. \A w, x \in Word : OneBit(Xor(w, x)) = Xor(OneBit(w), OneBit(x))
  BY OneBitXor
<1>. DEFINE Two(w) == OneBit(OneBit(w))
            Four(w) == Two(Two(w))
<1>3. /\ \A w \in Word : Two(w) \in Word
      /\ \A w, x \in Word : Two(Xor(w, x)) = Xor(Two(w), Two(x))
  BY <1>1, <1>2
<1>4. \A w : Eight(w) = Four(Four(w))
  BY DEF Eight
<1>. HIDE DEF Two
<1>5. /\ \A w \in Word : Four(w) \in Word
      /\ \A w, x \in Word : Four(Xor(w, x)) = Xor(Four(w), Four(x))
  BY <1>3
<1>. HIDE DEF Four
<1>. QED
  BY <1>4, <1>5

LEMMA EightHigh ==
  ASSUME NEW h \in Word, h \cap 0 .. 7 = {}
  PROVE  Eight(h) = ShiftRight(h, 8)
<1>. DEFINE S(n) == ShiftRight(h, n)
<1>1. S(0) = h
  <2>1. S(0) \in Word /\ \A j \in Int : j \in S(0) <=> j >= 0 /\ j + 0 \in h
    BY ShiftMember
  <2>. HIDE DEF S
  <2>2. \A j \in 0 .. 31 : j \in S(0) <=> j \in h
    BY <2>1
  <2>. QED
    BY <2>1, <2>2, SameWord
<1>2. ASSUME NEW n \in 0 .. 7 PROVE OneBit(S(n)) = S(n + 1)
  <2>1. 0 \notin S(n)
    BY ShiftMember
  <2>2. OneBit(S(n)) = Xor(ShiftRight(S(n), 1), {})
    BY <2>1 DEF OneBit
  <2>3. ShiftRight(S(n), 1) = S(n + 1)
    BY ShiftShift
  <2>. QED
    BY <2>2, <2>3, XorAlgebra
<1>. HIDE DEF S
<1>3. /\ OneBit(S(0)) = S(1) /\ OneBit(S(1)) = S(2) /\ OneBit(S(2)) = S(3)
      /\ OneBit(S(3)) = S(4) /\ OneBit(S(4)) = S(5) /\ OneBit(S(5)) = S(6)
      /\ OneBit(S(6)) = S(7) /\ OneBit(S(7)) = S(8)
  BY <1>2
<1>4. Eight(h) = S(8)
  BY <1>1, <1>3 DEF Eight
<1>. QED
  BY <1>4 DEF S

LEMMA DividedEight ==
  ASSUME NEW c, NEW b
  PROVE  Divided(c, b) = Eight(Xor(c, b))
<1>. DEFINE x == Xor(c, b)
            f == CHOOSE u : u = [k \in 0 .. 8 |-> IF k = 0 THEN x ELSE OneBit(u[k - 1])]
<1>1. Divided(c, b) = f[8]
  BY SMT DEF Divided
<1>. HIDE DEF x
<1>. DEFINE x1 == OneBit(x)
            x2 == OneBit(x1)
            x3 == OneBit(x2)
            x4 == OneBit(x3)
            x5 == OneBit(x4)
            x6 == OneBit(x5)
            x7 == OneBit(x6)
            x8 == OneBit(x7)
            v == [k \in 0 .. 8 |-> IF k = 0 THEN x ELSE IF k = 1 THEN x1
                   ELSE IF k = 2 THEN x2 ELSE IF k = 3 THEN x3 ELSE IF k = 4 THEN x4
                   ELSE IF k = 5 THEN x5 ELSE IF k = 6 THEN x6 ELSE IF k = 7 THEN x7
                   ELSE x8]
<1>2. Eight(x) = x8
  BY DEF Eight
<1>3. /\ x1 = OneBit(x) /\ x2 = OneBit(x1) /\ x3 = OneBit(x2) /\ x4 = OneBit(x3)
      /\ x5 = OneBit(x4) /\ x6 = OneBit(x5) /\ x7 = OneBit(x6) /\ x8 = OneBit(x7)
  OBVIOUS
<1>. HIDE DEF x1, x2, x3, x4, x5, x6, x7, x8
<1>4. v = [k \in 0 .. 8 |-> IF k = 0 THEN x ELSE OneBit(v[k - 1])]
  <2>1. ASSUME NEW k \in 0 .. 8 PROVE v[k] = IF k = 0 THEN x ELSE OneBit(v[k - 1])
    <3>1. k \in {0, 1, 2, 3, 4, 5, 6, 7, 8}
      OBVIOUS
    <3>2. /\ v[0] = x /\ v[1] = x1 /\ v[2] = x2 /\ v[3] = x3 /\ v[4] = x4
          /\ v[5] = x5 /\ v[6] = x6 /\ v[7] = x7 /\ v[8] = x8
      OBVIOUS
    <3>. HIDE DEF v
    <3>. QED
      BY <1>3, <3>1, <3>2
  <2>. QED
    BY <2>1
<1>5. f = [k \in 0 .. 8 |-> IF k = 0 THEN x ELSE OneBit(f[k - 1])]
  BY <1>4
<1>. HIDE DEF f
<1>6. f[0] = x /\ \A k \in 1 .. 8 : f[k] = OneBit(f[k - 1])
  BY <1>5
<1>7. /\ f[1] = OneBit(f[0]) /\ f[2] = OneBit(f[1]) /\ f[3] = OneBit(f[2])
      /\ f[4] = OneBit(f[3]) /\ f[5] = OneBit(f[4]) /\ f[6] = OneBit(f[5])
      /\ f[7] = OneBit(f[6]) /\ f[8] = OneBit(f[7])
  BY <1>6
<1>8. f[8] = Eight(x)
  BY <1>6, <1>7 DEF Eight
<1>. QED
  BY <1>1, <1>8 DEF x

LEMMA EntryEight ==
  ASSUME NEW b \in Byte
  PROVE  Entry[b] = Eight(b) /\ Entry[b] \in Word
<1>1. Entry[b] = Eight(Xor({}, b))
  BY TableAssumption, DividedEight
<1>2. b \in Word /\ Xor({}, b) = b
  BY WordTypes, XorAlgebra
<1>. QED
  BY <1>1, <1>2, EightXor

\* The loop's body is eight steps of the division.
LEMMA AddByteEight ==
  ASSUME NEW r \in Word, NEW b \in Byte
  PROVE  AddByte(r, b) = Eight(Xor(r, b)) /\ AddByte(r, b) \in Word
<1>. DEFINE x == Xor(r, b)
            l == x \cap 0 .. 7
            h == x \ (0 .. 7)
<1>1. x \in Word /\ l \in Byte /\ l \in Word /\ h \in Word
  BY WordTypes DEF Word, Byte
<1>2. x = Xor(h, l) /\ h \cap 0 .. 7 = {}
  BY DEF Xor
<1>3. ShiftRight(h, 8) = ShiftRight(r, 8)
  <2>1. \A k \in 8 .. 39 : k \in h <=> k \in r
    BY DEF Xor, Byte
  <2>2. ASSUME NEW j \in 0 .. 31
        PROVE  j \in ShiftRight(h, 8) <=> j \in ShiftRight(r, 8)
    <3>1. j \in Int /\ j >= 0 /\ j + 8 \in 8 .. 39
      OBVIOUS
    <3>2. j \in ShiftRight(h, 8) <=> j + 8 \in h
      BY <1>1, <3>1, ShiftMember
    <3>3. j \in ShiftRight(r, 8) <=> j + 8 \in r
      BY <3>1, ShiftMember
    <3>. QED
      BY <2>1, <3>1, <3>2, <3>3
  <2>3. ShiftRight(h, 8) \in Word /\ ShiftRight(r, 8) \in Word
    BY <1>1, ShiftMember
  <2>. QED
    BY <2>2, <2>3, SameWord
<1>4. AddByte(r, b) = Xor(ShiftRight(r, 8), Entry[l])
  BY DEF AddByte
<1>. HIDE DEF h, l, x
<1>5. Eight(x) = Xor(Eight(h), Eight(l)) /\ Eight(x) \in Word
  BY <1>1, <1>2, EightXor
<1>6. Eight(h) = ShiftRight(h, 8) /\ Eight(l) = Entry[l]
  BY <1>1, <1>2, EightHigh, EntryEight
<1>7. AddByte(r, b) = Eight(x) /\ AddByte(r, b) \in Word
  BY <1>3, <1>4, <1>5, <1>6
<1>. QED
  BY <1>7 DEF x

\* What is added to the word and to the byte is added to the result.
LEMMA AddByteXor ==
  ASSUME NEW r \in Word, NEW s \in Word, NEW b \in Byte, NEW c \in Byte
  PROVE  AddByte(Xor(r, s), Xor(b, c)) = Xor(AddByte(r, b), AddByte(s, c))
<1>1. Xor(r, s) \in Word /\ Xor(b, c) \in Byte /\ b \in Word /\ c \in Word
  BY WordTypes
<1>2. Xor(r, b) \in Word /\ Xor(s, c) \in Word
  BY <1>1, WordTypes
<1>3. Xor(Xor(r, s), Xor(b, c)) = Xor(Xor(r, b), Xor(s, c))
  BY XorFour
<1>4. /\ AddByte(Xor(r, s), Xor(b, c)) = Eight(Xor(Xor(r, s), Xor(b, c)))
      /\ AddByte(r, b) = Eight(Xor(r, b)) /\ AddByte(s, c) = Eight(Xor(s, c))
  BY <1>1, AddByteEight
<1>. QED
  BY <1>2, <1>3, <1>4, EightXor

-----------------------------------------------------------------------------
(* Crc32, and the packets that SendPacket makes.                           *)

\* u is what the loop has computed after each byte of buf.
Run(u, buf) ==
  /\ u \in [0 .. Len(buf) -> Word] /\ u[0] = Ones
  /\ \A k \in 1 .. Len(buf) : u[k] = AddByte(u[k - 1], buf[k])

LEMMA CrcRun ==
  ASSUME NEW buf \in Seq(Byte)
  PROVE  \E u : Run(u, buf) /\ Crc32(buf) = Xor(u[Len(buf)], Ones)
<1>. DEFINE N == Len(buf)
            F == [p \in (1 .. N) \X Word |-> AddByte(p[2], buf[p[1]])]
            f == CHOOSE u : u = [k \in 0 .. N |-> IF k = 0 THEN Ones
                                                  ELSE AddByte(u[k - 1], buf[k])]
<1>1. N \in Nat /\ \A k \in 1 .. N : buf[k] \in Byte
  OBVIOUS
<1>2. Crc32(buf) = Xor(f[N], Ones)
  BY SMT DEF Crc32
<1>. HIDE DEF N
<1>3. \A k \in 1 .. N, x \in Word : AddByte(x, buf[k]) \in Word
  BY <1>1, AddByteEight
<1>4. /\ F \in [(1 .. N) \X Word -> Word]
      /\ \A k \in 1 .. N, x \in Word : F[<<k, x>>] = AddByte(x, buf[k])
  BY <1>3
<1>. HIDE DEF F
<1>5. PICK v : Defined(v, N, Word, Ones, F)
  BY <1>1, <1>4, WordTypes, Recursion
<1>6. v \in [0 .. N -> Word] /\ v[0] = Ones
  BY <1>5 DEF Defined
<1>7. ASSUME NEW k \in 1 .. N PROVE v[k] = AddByte(v[k - 1], buf[k])
  <2>1. v[k - 1] \in Word
    BY <1>1, <1>6
  <2>2. v[k] = F[<<k, v[k - 1]>>]
    BY <1>5 DEF Defined
  <2>. QED
    BY <1>4, <2>1, <2>2
<1>8. v = [k \in 0 .. N |-> IF k = 0 THEN Ones ELSE AddByte(v[k - 1], buf[k])]
  <2>1. ASSUME NEW k \in 0 .. N
        PROVE  v[k] = IF k = 0 THEN Ones ELSE AddByte(v[k - 1], buf[k])
    BY <1>1, <1>6, <1>7
  <2>. QED
    BY <1>6, <2>1
<1>9. f = [k \in 0 .. N |-> IF k = 0 THEN Ones ELSE AddByte(f[k - 1], buf[k])]
  BY <1>8
<1>. HIDE DEF f
<1>10. f[0] = Ones /\ \A k \in 1 .. N : f[k] = AddByte(f[k - 1], buf[k])
  BY <1>1, <1>9
<1>11. f[N] = v[N]
  <2>1. \A k \in 1 .. N : f[k - 1] = v[k - 1] => f[k] = v[k]
    BY <1>7, <1>10
  <2>2. Alike(f, v, N)
    BY <1>6, <1>10, <2>1 DEF Alike
  <2>. QED
    BY <1>1, <2>2, Same
<1>. QED
  BY <1>2, <1>6, <1>7, <1>11 DEF N, Run

\* The checksum of the first n bytes is what the loop has after n of them.
LEMMA CrcPrefix ==
  ASSUME NEW buf \in Seq(Byte), NEW u, Run(u, buf), NEW n \in 0 .. Len(buf)
  PROVE  Crc32(SubSeq(buf, 1, n)) = Xor(u[n], Ones)
<1>. DEFINE s == SubSeq(buf, 1, n)
<1>1. s \in Seq(Byte) /\ Len(s) = n /\ \A k \in 1 .. n : s[k] = buf[k]
  OBVIOUS
<1>. HIDE DEF s
<1>2. PICK v : Run(v, s) /\ Crc32(s) = Xor(v[n], Ones)
  BY <1>1, CrcRun
<1>3. ASSUME NEW k \in 1 .. n, u[k - 1] = v[k - 1] PROVE u[k] = v[k]
  <2>1. k \in 1 .. Len(buf)
    OBVIOUS
  <2>2. u[k] = AddByte(u[k - 1], buf[k]) /\ v[k] = AddByte(v[k - 1], s[k])
    BY <1>1, <1>2, <2>1 DEF Run
  <2>. QED
    BY <1>1, <1>3, <2>2
<1>4. Alike(u, v, n)
  BY <1>2, <1>3 DEF Alike, Run
<1>5. u[n] = v[n]
  BY <1>4, Same
<1>. QED
  BY <1>2, <1>5 DEF s

LEMMA Remainders ==
  ASSUME NEW buf \in Seq(Byte)
  PROVE  /\ Xor(Crc32(SubSeq(buf, 1, 0)), Ones) = Ones
         /\ \A n \in 1 .. Len(buf) :
              Xor(Crc32(SubSeq(buf, 1, n)), Ones)
                = Divided(Xor(Crc32(SubSeq(buf, 1, n - 1)), Ones), buf[n])
<1>1. PICK u : Run(u, buf)
  BY CrcRun
<1>2. ASSUME NEW n \in 0 .. Len(buf)
      PROVE  Xor(Crc32(SubSeq(buf, 1, n)), Ones) = u[n]
  <2>1. Crc32(SubSeq(buf, 1, n)) = Xor(u[n], Ones)
    BY <1>1, CrcPrefix
  <2>2. Xor(Xor(u[n], Ones), Ones) = u[n]
    BY XorAlgebra
  <2>. QED
    BY <2>1, <2>2
<1>3. ASSUME NEW n \in 1 .. Len(buf) PROVE u[n] = Divided(u[n - 1], buf[n])
  <2>1. u[n] = AddByte(u[n - 1], buf[n]) /\ u[n - 1] \in Word /\ buf[n] \in Byte
    BY <1>1 DEF Run
  <2>. QED
    BY <2>1, AddByteEight, DividedEight
<1>4. u[0] = Ones /\ 0 \in 0 .. Len(buf)
  BY <1>1 DEF Run
<1>5. \A n \in 1 .. Len(buf) : n \in 0 .. Len(buf) /\ n - 1 \in 0 .. Len(buf)
  OBVIOUS
<1>. QED
  BY <1>2, <1>3, <1>4, <1>5
LEMMA WordBytes ==
  ASSUME NEW w \in Word
  PROVE  /\ Bytes(w) \in Seq(Byte) /\ Len(Bytes(w)) = 4
         /\ \A i \in 1 .. 4, k \in 0 .. 7 :
              k \in Bytes(w)[i] <=> k + 8 * (i - 1) \in w
<1>1. Bytes(w) = [i \in 1 .. 4 |-> ShiftRight(w, 8 * (i - 1)) \cap 0 .. 7]
  BY DEF Bytes
<1>2. \A i \in 1 .. 4 : ShiftRight(w, 8 * (i - 1)) \cap 0 .. 7 \in Byte
  BY DEF Byte
<1>3. Bytes(w) \in Seq(Byte) /\ Len(Bytes(w)) = 4
  BY <1>1, <1>2
<1>4. ASSUME NEW i \in 1 .. 4, NEW k \in 0 .. 7
      PROVE  k \in Bytes(w)[i] <=> k + 8 * (i - 1) \in w
  <2>1. 8 * (i - 1) \in Nat /\ k \in Int /\ k >= 0
    OBVIOUS
  <2>2. k \in ShiftRight(w, 8 * (i - 1)) <=> k + 8 * (i - 1) \in w
    BY <2>1, ShiftMember
  <2>. QED
    BY <1>1, <2>2
<1>. QED
  BY <1>3, <1>4

\* A bit of a word lies in one byte of it.
LEMMA BitPlace ==
  /\ \A j \in 0 .. 31 : \E i \in 1 .. 4, k \in 0 .. 7 : j = k + 8 * (i - 1)
  /\ \A i, m \in 1 .. 4, k, l \in 0 .. 7 :
       k + 8 * (i - 1) = l + 8 * (m - 1) => i = m /\ k = l
  /\ \A i \in 1 .. 4, k \in 0 .. 7 : k + 8 * (i - 1) \in 0 .. 31
<1>1. ASSUME NEW j \in 0 .. 31
      PROVE  \E i \in 1 .. 4, k \in 0 .. 7 : j = k + 8 * (i - 1)
  <2>1. CASE j <= 7
    BY <2>1
  <2>2. CASE j > 7 /\ j <= 15
    <3>1. 2 \in 1 .. 4 /\ j - 8 \in 0 .. 7 /\ j = (j - 8) + 8 * (2 - 1)
      BY <2>2
    <3>. QED
      BY <3>1
  <2>3. CASE j > 15 /\ j <= 23
    <3>1. 3 \in 1 .. 4 /\ j - 16 \in 0 .. 7 /\ j = (j - 16) + 8 * (3 - 1)
      BY <2>3
    <3>. QED
      BY <3>1
  <2>4. CASE j > 23
    <3>1. 4 \in 1 .. 4 /\ j - 24 \in 0 .. 7 /\ j = (j - 24) + 8 * (4 - 1)
      BY <2>4
    <3>. QED
      BY <3>1
  <2>. QED
    BY <2>1, <2>2, <2>3, <2>4
<1>2. \A i, m \in 1 .. 4, k, l \in 0 .. 7 :
        k + 8 * (i - 1) = l + 8 * (m - 1) => i = m /\ k = l
  OBVIOUS
<1>3. \A i \in 1 .. 4, k \in 0 .. 7 : k + 8 * (i - 1) \in 0 .. 31
  OBVIOUS
<1>. QED
  BY <1>1, <1>2, <1>3

\* The bits of the word that begins data.
LEMMA WordOfMember ==
  ASSUME NEW data, \A i \in 1 .. 4 : data[i] \in Byte
  PROVE  /\ WordOf(data) \in Word
         /\ \A i \in 1 .. 4, k \in 0 .. 7 :
              k + 8 * (i - 1) \in WordOf(data) <=> k \in data[i]
<1>1. \A j : j \in WordOf(data)
               <=> \E i \in 1 .. 4 : \E k \in data[i] : j = k + 8 * (i - 1)
  BY DEF WordOf
<1>2. \A i \in 1 .. 4 : \A k \in data[i] : k \in 0 .. 7
  BY DEF Byte
<1>3. WordOf(data) \in Word
  <2>1. ASSUME NEW j \in WordOf(data) PROVE j \in 0 .. 31
    <3>1. PICK i \in 1 .. 4 : \E k \in data[i] : j = k + 8 * (i - 1)
      BY <1>1
    <3>. QED
      BY <1>2, <3>1, BitPlace
  <2>. QED
    BY <2>1 DEF Word
<1>4. ASSUME NEW i \in 1 .. 4, NEW k \in 0 .. 7, k + 8 * (i - 1) \in WordOf(data)
      PROVE  k \in data[i]
  <2>1. PICK m \in 1 .. 4 : \E l \in data[m] : k + 8 * (i - 1) = l + 8 * (m - 1)
    BY <1>1, <1>4
  <2>2. PICK l \in data[m] : k + 8 * (i - 1) = l + 8 * (m - 1)
    BY <2>1
  <2>3. l \in 0 .. 7
    BY <1>2
  <2>4. i = m /\ k = l
    BY <2>2, <2>3, BitPlace
  <2>. QED
    BY <2>4
<1>5. ASSUME NEW i \in 1 .. 4, NEW k \in 0 .. 7, k \in data[i]
      PROVE  k + 8 * (i - 1) \in WordOf(data)
  BY <1>1, <1>5
<1>. QED
  BY <1>3, <1>4, <1>5

LEMMA WordOfBytes ==
  ASSUME NEW w \in Word, NEW data, \A i \in 1 .. 4 : data[i] = Bytes(w)[i]
  PROVE  WordOf(data) = w
<1>1. \A i \in 1 .. 4 : data[i] \in Byte
  <2>1. Bytes(w) \in Seq(Byte) /\ Len(Bytes(w)) = 4
    BY WordBytes
  <2>. QED
    BY <2>1
<1>2. WordOf(data) \in Word
  BY <1>1, WordOfMember
<1>3. ASSUME NEW j \in 0 .. 31 PROVE j \in WordOf(data) <=> j \in w
  <2>1. PICK i \in 1 .. 4, k \in 0 .. 7 : j = k + 8 * (i - 1)
    BY BitPlace
  <2>2. j \in WordOf(data) <=> k \in data[i]
    BY <1>1, <2>1, WordOfMember
  <2>3. j \in w <=> k \in Bytes(w)[i]
    BY <2>1, WordBytes
  <2>. QED
    BY <2>2, <2>3
<1>. QED
  BY <1>2, <1>3, SameWord

LEMMA CrcWord ==
  ASSUME NEW buf \in Seq(Byte)
  PROVE  Crc32(buf) \in Word
<1>1. PICK u : Run(u, buf) /\ Crc32(buf) = Xor(u[Len(buf)], Ones)
  BY CrcRun
<1>2. u[Len(buf)] \in Word
  BY <1>1 DEF Run
<1>. QED
  BY <1>1, <1>2, WordTypes

\* A packet of commands, as it comes from SendPacket or arrives.
IsPacket(p) == p \in Seq(Byte) /\ Len(p) \in 14 .. 46

LEMMA Joined ==
  ASSUME NEW s \in Seq(Byte), NEW t \in Seq(Byte)
  PROVE  /\ s \o t \in Seq(Byte) /\ Len(s \o t) = Len(s) + Len(t)
         /\ \A i \in 1 .. Len(s) : (s \o t)[i] = s[i]
         /\ SubSeq(s \o t, Len(s) + 1, Len(s) + Len(t)) = t
<1>1. /\ s \o t \in Seq(Byte) /\ Len(s \o t) = Len(s) + Len(t)
      /\ \A i \in 1 .. Len(s) : (s \o t)[i] = s[i]
      /\ \A i \in 1 .. Len(t) : (s \o t)[Len(s) + i] = t[i]
  BY ConcatProperties
<1>. DEFINE st == s \o t
            m == Len(s)
            n == Len(t)
            r == SubSeq(st, m + 1, m + n)
<1>2. m \in Nat /\ n \in Nat /\ st \in Seq(Byte) /\ Len(st) = m + n
  BY <1>1
<1>3. t = [i \in 1 .. n |-> t[i]]
  OBVIOUS
<1>. HIDE DEF st, m, n
<1>4. r = [i \in 1 .. n |-> st[m + i]]
  <2>1. r \in Seq(Byte) /\ Len(r) = n /\ \A i \in 1 .. n : r[i] = st[m + i]
    BY <1>2
  <2>. QED
    BY <2>1
<1>5. r = t
  BY <1>1, <1>3, <1>4 DEF st, m, n
<1>. QED
  BY <1>1, <1>5 DEF st, m, n

LEMMA PacketIntact ==
  ASSUME NEW start, NEW n \in 0 .. 16
  PROVE  IsPacket(PacketBytes(start, n)) /\ Intact(PacketBytes(start, n))
<1>. DEFINE a == Bytes({})
            b == Bytes(Bits(start, 8))
            c == Bytes({0, 1})
            d == <<{0}, Bits(n, 8)>>
            e == [i \in 1 .. 2 * n |-> IF i % 2 = 1 THEN Bits(start, 8) ELSE {}]
            pkt == a \o b \o c \o d \o e
            sum == ByteSum(pkt)
            rest == SubSeq(pkt, 5, Len(pkt))
            p == Bytes(sum) \o rest
<1>1. PacketBytes(start, n) = p
  BY DEF PacketBytes
<1>2. \A m : Bits(m, 8) \in Byte /\ Bits(m, 8) \in Word
  BY DEF Bits, Byte, Word
<1>3. /\ a \in Seq(Byte) /\ Len(a) = 4 /\ b \in Seq(Byte) /\ Len(b) = 4
      /\ c \in Seq(Byte) /\ Len(c) = 4
  <2>1. {} \in Word /\ {0, 1} \in Word
    BY DEF Word
  <2>. QED
    BY <1>2, <2>1, WordBytes
<1>4. d \in Seq(Byte) /\ Len(d) = 2
  <2>1. {0} \in Byte
    BY DEF Byte
  <2>. QED
    BY <1>2, <2>1
<1>5. e \in Seq(Byte) /\ Len(e) = 2 * n
  <2>1. \A i \in 1 .. 2 * n : (IF i % 2 = 1 THEN Bits(start, 8) ELSE {}) \in Byte
    BY <1>2, WordTypes
  <2>. QED
    BY <2>1
<1>. HIDE DEF a, b, c, d, e
<1>6. pkt \in Seq(Byte) /\ Len(pkt) = 14 + 2 * n
  <2>. DEFINE ab == a \o b
              abc == ab \o c
              abcd == abc \o d
  <2>1. ab \in Seq(Byte) /\ Len(ab) = Len(a) + Len(b)
    BY <1>3, Joined
  <2>2. pkt = abcd \o e
    OBVIOUS
  <2>. HIDE DEF ab, pkt
  <2>3. abc \in Seq(Byte) /\ Len(abc) = Len(ab) + Len(c)
    BY <1>3, <2>1, Joined
  <2>. HIDE DEF abc
  <2>4. abcd \in Seq(Byte) /\ Len(abcd) = Len(abc) + Len(d)
    BY <1>4, <2>3, Joined
  <2>. HIDE DEF abcd
  <2>5. pkt \in Seq(Byte) /\ Len(pkt) = Len(abcd) + Len(e)
    BY <1>5, <2>2, <2>4, Joined
  <2>. QED
    BY <1>3, <1>4, <1>5, <2>1, <2>3, <2>4, <2>5
<1>. HIDE DEF pkt
<1>7. rest \in Seq(Byte) /\ Len(rest) = 10 + 2 * n
  BY <1>6
<1>8. sum = Crc32(rest) \cap NCMD_CHECKSUM
  BY DEF ByteSum
<1>. HIDE DEF rest, sum
<1>9. sum \in Word
  BY <1>7, <1>8, CrcWord DEF Word
<1>10. Bytes(sum) \in Seq(Byte) /\ Len(Bytes(sum)) = 4
  BY <1>9, WordBytes
<1>11. p \in Seq(Byte) /\ Len(p) = 14 + 2 * n /\ \A i \in 1 .. 4 : p[i] = Bytes(sum)[i]
  <2>1. /\ p \in Seq(Byte) /\ Len(p) = Len(Bytes(sum)) + Len(rest)
        /\ \A i \in 1 .. Len(Bytes(sum)) : p[i] = Bytes(sum)[i]
    BY <1>7, <1>10, Joined
  <2>. HIDE DEF p
  <2>. QED
    BY <1>7, <1>10, <2>1
<1>12. SubSeq(p, 5, Len(p)) = rest
  <2>1. SubSeq(p, Len(Bytes(sum)) + 1, Len(Bytes(sum)) + Len(rest)) = rest
    BY <1>7, <1>10, Joined
  <2>2. Len(Bytes(sum)) + 1 = 5 /\ Len(Bytes(sum)) + Len(rest) = Len(p)
    BY <1>7, <1>10, <1>11
  <2>. QED
    BY <2>1, <2>2
<1>. HIDE DEF p
<1>13. WordOf(p) = sum
  BY <1>9, <1>11, WordOfBytes
<1>14. ByteSum(p) = sum
  BY <1>8, <1>12 DEF ByteSum
<1>15. IsPacket(p)
  BY <1>11 DEF IsPacket
<1>16. Len(p) >= 14
  BY <1>11
<1>. QED
  BY <1>1, <1>13, <1>14, <1>15, <1>16 DEF Intact, MIN_PACKET_LEN
-----------------------------------------------------------------------------
(* What a change of a byte changes.                                        *)

LEMMA AddZeroByte ==
  ASSUME NEW w \in Word
  PROVE  AddZero(w) = AddByte(w, {}) /\ AddZero(w) \in Word
<1>1. AddZero(w) = AddByte(w, {})
  BY XorAlgebra DEF AddZero, AddByte
<1>. QED
  BY <1>1, WordTypes, AddByteEight

\* s has the first n + 1 rows of Effect.
Rows(s, n) ==
  /\ s \in Seq([Byte -> Word]) /\ Len(s) = n + 1 /\ s[1] = Entry
  /\ \A d \in 1 .. n, b \in Byte : s[d + 1][b] = AddZero(s[d][b])

\* A row more.
LEMMA RowsStep ==
  ASSUME NEW n \in Nat, NEW s, Rows(s, n)
  PROVE  Rows(Append(s, [b \in Byte |-> AddZero(s[n + 1][b])]), n + 1)
<1>. DEFINE row == [b \in Byte |-> AddZero(s[n + 1][b])]
            t == Append(s, row)
<1>1. s \in Seq([Byte -> Word]) /\ Len(s) = n + 1 /\ s[1] = Entry
  BY DEF Rows
<1>2. s[n + 1] \in [Byte -> Word]
  BY <1>1
<1>3. row \in [Byte -> Word]
  <2>1. \A b \in Byte : AddZero(s[n + 1][b]) \in Word
    BY <1>2, AddZeroByte
  <2>. QED
    BY <2>1
<1>4. \A b \in Byte : row[b] = AddZero(s[n + 1][b])
  OBVIOUS
<1>. HIDE DEF row
<1>5. /\ t \in Seq([Byte -> Word]) /\ Len(t) = (n + 1) + 1
      /\ \A d \in 1 .. n + 1 : t[d] = s[d]
      /\ t[(n + 1) + 1] = row
  BY <1>1, <1>3
<1>. HIDE DEF t
<1>6. ASSUME NEW d \in 1 .. n + 1, NEW b \in Byte
      PROVE  t[d + 1][b] = AddZero(t[d][b])
  <2>1. CASE d = n + 1
    BY <1>4, <1>5, <2>1
  <2>2. CASE d # n + 1
    <3>1. d \in 1 .. n /\ d + 1 \in 1 .. n + 1
      BY <2>2
    <3>. QED
      BY <1>5, <3>1 DEF Rows
  <2>. QED
    BY <2>1, <2>2
<1>7. t[1] = Entry
  BY <1>1, <1>5
<1>8. Rows(t, n + 1)
  BY <1>5, <1>6, <1>7 DEF Rows
<1>. QED
  BY <1>8 DEF t, row

LEMMA EffectRows == Rows(Effect, 41)
<1>. DEFINE Row == [Byte -> Word]
            G(n, s) == Append(s, [b \in Byte |-> AddZero(s[n][b])])
            X == {s \in Seq(Row) : \E n \in Nat : Rows(s, n)}
            F == [p \in (1 .. 41) \X X |-> IF Rows(p[2], p[1] - 1) THEN G(p[1], p[2])
                                                                   ELSE p[2]]
            f == CHOOSE u : u = [n \in 0 .. 41 |-> IF n = 0 THEN <<Entry>>
                                                   ELSE G(n, u[n - 1])]
<1>1. Effect = f[41]
  BY SMT DEF Effect
<1>2. \A s, n : Rows(s, n) => s \in Seq(Row)
  BY DEF Rows
<1>3. Rows(<<Entry>>, 0)
  <2>1. Entry \in Row
    <3>1. \A b \in Byte : Entry[b] \in Word
      BY EntryEight
    <3>2. Entry = [b \in Byte |-> Entry[b]]
      BY DEF Entry
    <3>. QED
      BY <3>1, <3>2
  <2>. QED
    BY <2>1 DEF Rows
<1>4. ASSUME NEW n \in 1 .. 41, NEW s, Rows(s, n - 1) PROVE Rows(G(n, s), n)
  <2>1. n - 1 \in Nat /\ (n - 1) + 1 = n
    OBVIOUS
  <2>. QED
    BY <1>4, <2>1, RowsStep
<1>5. <<Entry>> \in X
  BY <1>2, <1>3
<1>6. ASSUME NEW n \in 1 .. 41, NEW s \in X
      PROVE  (IF Rows(s, n - 1) THEN G(n, s) ELSE s) \in X
  <2>. HIDE DEF G
  <2>1. CASE Rows(s, n - 1)
    <3>1. Rows(G(n, s), n) /\ n \in Nat
      BY <1>4, <2>1
    <3>. QED
      BY <1>2, <2>1, <3>1
  <2>. QED
    BY <2>1
<1>. HIDE DEF G, X, Row
<1>7. /\ F \in [(1 .. 41) \X X -> X]
      /\ \A n \in 1 .. 41, s \in X :
           F[<<n, s>>] = IF Rows(s, n - 1) THEN G(n, s) ELSE s
  BY <1>6
<1>. HIDE DEF F
<1>8. PICK v : Defined(v, 41, X, <<Entry>>, F)
  BY <1>5, <1>7, Recursion
<1>9. v \in [0 .. 41 -> X] /\ v[0] = <<Entry>>
  BY <1>8 DEF Defined
<1>10. ASSUME NEW n \in 1 .. 41 PROVE
         v[n] = IF Rows(v[n - 1], n - 1) THEN G(n, v[n - 1]) ELSE v[n - 1]
  <2>1. v[n - 1] \in X
    BY <1>9
  <2>2. v[n] = F[<<n, v[n - 1]>>]
    BY <1>8 DEF Defined
  <2>. QED
    BY <1>7, <2>1, <2>2
<1>11. \A n \in 0 .. 41 : Rows(v[n], n)
  <2>. DEFINE S == {n \in Nat : n <= 41 => Rows(v[n], n)}
  <2>1. 0 \in S
    BY <1>3, <1>9
  <2>2. ASSUME NEW n \in Nat, n \in S PROVE n + 1 \in S
    <3>. SUFFICES ASSUME n + 1 <= 41 PROVE Rows(v[n + 1], n + 1)
      OBVIOUS
    <3>1. n + 1 \in 1 .. 41 /\ (n + 1) - 1 = n /\ Rows(v[n], n)
      BY <2>2
    <3>2. v[n + 1] = G(n + 1, v[n])
      BY <1>10, <3>1
    <3>. QED
      BY <1>4, <3>1, <3>2
  <2>3. Nat \subseteq S
    <3>. HIDE DEF S
    <3>. QED
      BY <2>1, <2>2, Induct
  <2>. QED
    BY <2>3
<1>12. ASSUME NEW n \in 1 .. 41 PROVE v[n] = G(n, v[n - 1])
  <2>1. n - 1 \in 0 .. 41
    OBVIOUS
  <2>. QED
    BY <1>10, <1>11, <2>1
<1>13. v = [n \in 0 .. 41 |-> IF n = 0 THEN <<Entry>> ELSE G(n, v[n - 1])]
  <2>1. ASSUME NEW n \in 0 .. 41
        PROVE  v[n] = IF n = 0 THEN <<Entry>> ELSE G(n, v[n - 1])
    <3>1. n = 0 \/ n \in 1 .. 41
      OBVIOUS
    <3>. QED
      BY <1>9, <1>12, <3>1
  <2>. QED
    BY <1>9, <2>1
<1>14. f = [n \in 0 .. 41 |-> IF n = 0 THEN <<Entry>> ELSE G(n, f[n - 1])]
  BY <1>13
<1>. HIDE DEF f
<1>15. f[0] = <<Entry>> /\ \A n \in 1 .. 41 : f[n] = G(n, f[n - 1])
  BY <1>14
<1>16. f[41] = v[41]
  <2>1. \A n \in 1 .. 41 : f[n - 1] = v[n - 1] => f[n] = v[n]
    BY <1>12, <1>15
  <2>2. Alike(f, v, 41)
    BY <1>9, <1>15, <2>1 DEF Alike
  <2>. QED
    BY <2>2, Same
<1>. QED
  BY <1>1, <1>11, <1>16

\* p with b added to its byte i.
Changed(p, i, b) == [p EXCEPT ![i] = Xor(@, b)]

LEMMA ChangedBytes ==
  ASSUME NEW p \in Seq(Byte), NEW i \in 1 .. Len(p), NEW b \in Byte
  PROVE  /\ Changed(p, i, b) \in Seq(Byte) /\ Len(Changed(p, i, b)) = Len(p)
         /\ Changed(p, i, b)[i] = Xor(p[i], b)
         /\ \A k \in 1 .. Len(p) : k # i => Changed(p, i, b)[k] = p[k]
<1>1. Xor(p[i], b) \in Byte
  <2>1. p[i] \in Byte
    OBVIOUS
  <2>. QED
    BY <2>1, WordTypes
<1>. QED
  BY <1>1 DEF Changed

LEMMA CrcChanged ==
  ASSUME NEW buf \in Seq(Byte), Len(buf) \in 1 .. 42,
         NEW i \in 1 .. Len(buf), NEW b \in Byte
  PROVE  Crc32(Changed(buf, i, b)) = Xor(Crc32(buf), Effect[Len(buf) - i + 1][b])
<1>. DEFINE chg == Changed(buf, i, b)
            N == Len(buf)
            E(k) == Effect[k][b]
<1>1. N \in 1 .. 42 /\ i \in 1 .. N
  OBVIOUS
<1>2. chg \in Seq(Byte) /\ Len(chg) = N /\ chg[i] = Xor(buf[i], b)
      /\ \A k \in 1 .. N : k # i => chg[k] = buf[k]
  BY ChangedBytes
<1>3. \A k \in 1 .. N : buf[k] \in Byte
  OBVIOUS
<1>4. \A k \in 1 .. 42 : E(k) \in Word
  <2>1. Effect \in Seq([Byte -> Word]) /\ Len(Effect) = 42
    BY EffectRows DEF Rows
  <2>2. \A k \in 1 .. 42 : Effect[k] \in [Byte -> Word]
    BY <2>1, ElementOfSeq
  <2>. QED
    BY <2>2
<1>5. E(1) = Entry[b] /\ \A k \in 1 .. 41 : E(k + 1) = AddZero(E(k))
  BY EffectRows DEF Rows
<1>6. PICK u : Run(u, buf) /\ Crc32(buf) = Xor(u[N], Ones)
  BY CrcRun
<1>7. PICK v : Run(v, chg) /\ Crc32(chg) = Xor(v[N], Ones)
  BY <1>2, CrcRun
<1>. HIDE DEF chg, N, E
<1>8. /\ u \in [0 .. N -> Word] /\ u[0] = Ones
      /\ \A k \in 1 .. N : u[k] = AddByte(u[k - 1], buf[k])
  BY <1>6 DEF Run, N
<1>9. v[0] = Ones /\ \A k \in 1 .. N : v[k] = AddByte(v[k - 1], chg[k])
  BY <1>2, <1>7 DEF Run
<1>. DEFINE S == {n \in Nat : n <= N => /\ n < i => v[n] = u[n]
                                        /\ n >= i => v[n] = Xor(u[n], E(n - i + 1))}
<1>10. 0 \in S
  BY <1>1, <1>8, <1>9
<1>11. ASSUME NEW n \in Nat, n \in S PROVE n + 1 \in S
  <2>. SUFFICES ASSUME n + 1 <= N
       PROVE  /\ n + 1 < i => v[n + 1] = u[n + 1]
              /\ n + 1 >= i => v[n + 1] = Xor(u[n + 1], E((n + 1) - i + 1))
    OBVIOUS
  <2>1. n + 1 \in 1 .. N /\ (n + 1) - 1 = n /\ n \in 0 .. N
    BY <1>1
  <2>2. u[n] \in Word /\ buf[n + 1] \in Byte
    BY <1>3, <1>8, <2>1
  <2>3. u[n + 1] = AddByte(u[n], buf[n + 1]) /\ v[n + 1] = AddByte(v[n], chg[n + 1])
    BY <1>8, <1>9, <2>1
  <2>4. /\ n < i => v[n] = u[n]
        /\ n >= i => v[n] = Xor(u[n], E(n - i + 1))
    BY <1>11, <2>1
  <2>. HIDE DEF S
  <2>5. CASE n + 1 < i
    <3>1. n < i /\ n + 1 # i /\ ~(n + 1 >= i)
      BY <1>1, <2>5
    <3>. QED
      BY <1>2, <2>1, <2>3, <2>4, <3>1
  <2>6. CASE n + 1 = i
    <3>1. n < i /\ ~(n + 1 < i) /\ (n + 1) - i + 1 = 1
      BY <1>1, <2>6
    <3>2. v[n + 1] = AddByte(u[n], Xor(buf[n + 1], b))
      BY <1>2, <2>3, <2>4, <2>6, <3>1
    <3>3. u[n] = Xor(u[n], {})
      BY XorAlgebra
    <3>4. AddByte(Xor(u[n], {}), Xor(buf[n + 1], b))
            = Xor(AddByte(u[n], buf[n + 1]), AddByte({}, b))
      <4>1. {} \in Word
        BY WordTypes
      <4>. QED
        BY <2>2, <4>1, AddByteXor
    <3>5. AddByte({}, b) = E(1)
      <4>1. AddByte({}, b) = Eight(Xor({}, b)) /\ Xor({}, b) = b
        BY WordTypes, AddByteEight, XorAlgebra
      <4>. QED
        BY <1>5, <4>1, EntryEight
    <3>. QED
      BY <2>3, <3>1, <3>2, <3>3, <3>4, <3>5
  <2>7. CASE n + 1 > i
    <3>. DEFINE d == n - i + 1
    <3>1. n >= i /\ n + 1 # i /\ ~(n + 1 < i) /\ (n + 1) - i + 1 = d + 1 /\ d \in 1 .. 41
      BY <1>1, <2>1, <2>7
    <3>2. v[n] = Xor(u[n], E(d))
      BY <2>4, <3>1
    <3>. HIDE DEF d
    <3>3. v[n + 1] = AddByte(Xor(u[n], E(d)), buf[n + 1])
      BY <1>2, <2>1, <2>3, <3>1, <3>2
    <3>4. buf[n + 1] = Xor(buf[n + 1], {})
      BY XorAlgebra
    <3>5. E(d) \in Word /\ E(d + 1) = AddByte(E(d), {})
      <4>1. d \in 1 .. 42
        BY <3>1
      <4>2. E(d) \in Word
        BY <1>4, <4>1
      <4>. QED
        BY <1>5, <3>1, <4>2, AddZeroByte
    <3>6. AddByte(Xor(u[n], E(d)), Xor(buf[n + 1], {}))
            = Xor(AddByte(u[n], buf[n + 1]), AddByte(E(d), {}))
      <4>1. {} \in Byte
        BY WordTypes
      <4>. QED
        BY <2>2, <3>5, <4>1, AddByteXor
    <3>. QED
      BY <2>3, <3>1, <3>3, <3>4, <3>5, <3>6
  <2>. QED
    BY <1>1, <2>5, <2>6, <2>7
<1>12. v[N] = Xor(u[N], E(N - i + 1))
  <2>1. Nat \subseteq S
    <3>. HIDE DEF S
    <3>. QED
      BY <1>10, <1>11, Induct
  <2>. QED
    BY <1>1, <2>1
<1>13. Xor(Xor(u[N], E(N - i + 1)), Ones) = Xor(Xor(u[N], Ones), E(N - i + 1))
  BY DEF Xor
<1>. QED
  BY <1>6, <1>7, <1>12, <1>13 DEF chg, N, E
-----------------------------------------------------------------------------
(* Damage is noticed.                                                      *)

\* Where the checksum in a packet differs from the one it should have.
Residue(p) == Xor(WordOf(p), ByteSum(p))

LEMMA IntactResidue ==
  ASSUME NEW p, IsPacket(p)
  PROVE  Intact(p) <=> Residue(p) = {}
<1>1. Len(p) >= MIN_PACKET_LEN
  <2>. DEFINE len == Len(p)
  <2>1. len \in 14 .. 46
    BY DEF IsPacket
  <2>. HIDE DEF len
  <2>2. len >= 14
    BY <2>1
  <2>. QED
    BY <2>2 DEF len, MIN_PACKET_LEN
<1>2. Residue(p) = {} <=> WordOf(p) = ByteSum(p)
  BY XorAlgebra DEF Residue
<1>. QED
  BY <1>1, <1>2 DEF Intact

\* What a change of byte i of a packet of len bytes changes in the residue.
Trace(len, i, b) == IF i <= 4 THEN {k + 8 * (i - 1) : k \in b}
                    ELSE Effect[len - i + 1][b] \cap NCMD_CHECKSUM

\* The part of a packet that the checksum is about.
LEMMA Tail4 ==
  ASSUME NEW p, IsPacket(p)
  PROVE  LET t == SubSeq(p, 5, Len(p))
         IN  /\ t \in Seq(Byte) /\ Len(t) = Len(p) - 4 /\ Len(t) \in 1 .. 42
             /\ \A k \in 1 .. Len(p) - 4 : t[k] = p[k + 4]
<1>. DEFINE n == Len(p)
            t == SubSeq(p, 5, n)
<1>1. p \in Seq(Byte) /\ n \in 14 .. 46
  BY DEF IsPacket
<1>2. n - 5 + 1 = n - 4 /\ n - 4 \in 1 .. 42 /\ 5 <= n
  <2>. HIDE DEF n
  <2>. QED
    BY <1>1
<1>3. t \in Seq(Byte) /\ Len(t) = n - 5 + 1
      /\ \A k \in 1 .. n - 5 + 1 : t[k] = p[5 + k - 1]
  <2>1. \A k \in 5 .. n : p[k] \in Byte
    BY <1>1
  <2>. HIDE DEF n
  <2>. QED
    BY <1>1, <1>2, <2>1, SubSeqProperties
<1>4. \A k \in 1 .. n - 4 : 5 + k - 1 = k + 4
  BY <1>1
<1>. HIDE DEF t, n
<1>5. Len(t) = n - 4 /\ Len(t) \in 1 .. 42 /\ \A k \in 1 .. n - 4 : t[k] = p[k + 4]
  BY <1>2, <1>3, <1>4
<1>. QED
  BY <1>3, <1>5 DEF t, n

LEMMA ResidueChanged ==
  ASSUME NEW p, IsPacket(p), NEW i \in 1 .. Len(p), NEW b \in Byte
  PROVE  /\ IsPacket(Changed(p, i, b)) /\ Len(Changed(p, i, b)) = Len(p)
         /\ Residue(Changed(p, i, b)) = Xor(Residue(p), Trace(Len(p), i, b))
<1>. DEFINE q == Changed(p, i, b)
            L == Len(p)
            s == SubSeq(p, 5, Len(p))
            t == SubSeq(q, 5, Len(q))
<1>1. p \in Seq(Byte) /\ L \in 14 .. 46
  BY DEF IsPacket
<1>2. /\ q \in Seq(Byte) /\ Len(q) = L /\ q[i] = Xor(p[i], b)
      /\ \A k \in 1 .. L : k # i => q[k] = p[k]
  BY <1>1, ChangedBytes
<1>3. IsPacket(q)
  BY <1>1, <1>2 DEF IsPacket
<1>4. /\ s \in Seq(Byte) /\ Len(s) = L - 4 /\ Len(s) \in 1 .. 42
      /\ \A k \in 1 .. L - 4 : s[k] = p[k + 4]
  BY Tail4
<1>. HIDE DEF q
<1>5. /\ t \in Seq(Byte) /\ Len(t) = L - 4
      /\ \A k \in 1 .. L - 4 : t[k] = q[k + 4]
  BY <1>2, <1>3, Tail4
<1>6. ByteSum(p) = Crc32(s) \cap NCMD_CHECKSUM /\ ByteSum(q) = Crc32(t) \cap NCMD_CHECKSUM
  BY DEF ByteSum
<1>7. /\ \A k \in 1 .. 4 : p[k] \in Byte /\ q[k] \in Byte
      /\ \A k \in 1 .. L : k \in 1 .. Len(p)
  BY <1>1, <1>2
<1>8. /\ WordOf(p) \in Word /\ WordOf(q) \in Word
      /\ \A m \in 1 .. 4, k \in 0 .. 7 :
           /\ k + 8 * (m - 1) \in WordOf(p) <=> k \in p[m]
           /\ k + 8 * (m - 1) \in WordOf(q) <=> k \in q[m]
  BY <1>7, WordOfMember
<1>. HIDE DEF s, t, L
<1>9. CASE i <= 4
  <2>. DEFINE T == {k + 8 * (i - 1) : k \in b}
  <2>1. Trace(L, i, b) = T
    BY <1>9 DEF Trace
  <2>2. i \in 1 .. 4
    BY <1>9
  <2>3. T \in Word /\ \A m \in 1 .. 4, k \in 0 .. 7 :
                        k + 8 * (m - 1) \in T <=> m = i /\ k \in b
    <3>1. \A k \in b : k \in 0 .. 7
      BY DEF Byte
    <3>2. T \in Word
      <4>1. \A k \in b : k + 8 * (i - 1) \in 0 .. 31
        BY <2>2, <3>1, BitPlace
      <4>. QED
        BY <4>1 DEF Word
    <3>3. ASSUME NEW m \in 1 .. 4, NEW k \in 0 .. 7
          PROVE  k + 8 * (m - 1) \in T <=> m = i /\ k \in b
      <4>1. ASSUME k + 8 * (m - 1) \in T PROVE m = i /\ k \in b
        <5>1. PICK l \in b : k + 8 * (m - 1) = l + 8 * (i - 1)
          BY <4>1
        <5>2. l \in 0 .. 7
          BY <3>1
        <5>3. m = i /\ k = l
          BY <2>2, <5>1, <5>2, BitPlace
        <5>. QED
          BY <5>3
      <4>2. ASSUME m = i, k \in b PROVE k + 8 * (m - 1) \in T
        BY <4>2
      <4>. QED
        BY <4>1, <4>2
    <3>. QED
      BY <3>2, <3>3
  <2>. HIDE DEF T
  <2>4. t = s
    <3>1. \A k \in 1 .. L - 4 : k + 4 \in 1 .. L /\ k + 4 # i
      BY <1>1, <1>9
    <3>2. \A k \in 1 .. L - 4 : t[k] = s[k]
      BY <1>2, <1>4, <1>5, <3>1
    <3>. QED
      BY <1>4, <1>5, <3>2
  <2>5. WordOf(q) = Xor(WordOf(p), T)
    <3>1. Xor(WordOf(p), T) \in Word
      BY <1>8, <2>3, WordTypes
    <3>2. ASSUME NEW j \in 0 .. 31 PROVE j \in WordOf(q) <=> j \in Xor(WordOf(p), T)
      <4>1. PICK m \in 1 .. 4, k \in 0 .. 7 : j = k + 8 * (m - 1)
        BY BitPlace
      <4>2. (j \in WordOf(q) <=> k \in q[m]) /\ (j \in WordOf(p) <=> k \in p[m])
        BY <1>8, <4>1
      <4>3. j \in T <=> m = i /\ k \in b
        BY <2>3, <4>1
      <4>4. m \in 1 .. L
        BY <1>1
      <4>5. k \in q[m] <=> ~(k \in p[m] <=> m = i /\ k \in b)
        BY <1>2, <4>4, XorMember
      <4>. QED
        BY <4>2, <4>3, <4>5, XorMember
    <3>. QED
      BY <1>8, <3>1, <3>2, SameWord
  <2>6. Xor(Xor(WordOf(p), T), ByteSum(p)) = Xor(Xor(WordOf(p), ByteSum(p)), T)
    BY DEF Xor
  <2>7. Residue(q) = Xor(Residue(p), T)
    BY <1>6, <2>4, <2>5, <2>6 DEF Residue
  <2>. QED
    BY <1>2, <1>3, <2>1, <2>7 DEF q, L
<1>10. CASE ~(i <= 4)
  <2>1. i - 4 \in 1 .. L - 4 /\ i \in Int
    BY <1>1, <1>10 DEF L
  <2>2. t = Changed(s, i - 4, b)
    <3>. DEFINE c == Changed(s, i - 4, b)
    <3>1. /\ c \in Seq(Byte) /\ Len(c) = L - 4 /\ c[i - 4] = Xor(s[i - 4], b)
          /\ \A k \in 1 .. L - 4 : k # i - 4 => c[k] = s[k]
      <4>1. i - 4 \in 1 .. Len(s)
        BY <1>4, <2>1
      <4>2. /\ c \in Seq(Byte) /\ Len(c) = Len(s) /\ c[i - 4] = Xor(s[i - 4], b)
            /\ \A k \in 1 .. Len(s) : k # i - 4 => c[k] = s[k]
        BY <1>4, <4>1, ChangedBytes
      <4>. HIDE DEF c
      <4>. QED
        BY <1>4, <4>2
    <3>. HIDE DEF c
    <3>2. ASSUME NEW k \in 1 .. L - 4 PROVE t[k] = c[k]
      <4>1. k + 4 \in 1 .. L /\ t[k] = q[k + 4] /\ s[k] = p[k + 4]
        BY <1>1, <1>4, <1>5
      <4>2. CASE k = i - 4
        <5>1. k + 4 = i
          BY <2>1, <4>2
        <5>. QED
          BY <1>2, <3>1, <4>1, <4>2, <5>1
      <4>3. CASE k # i - 4
        <5>1. k + 4 # i
          BY <2>1, <4>3
        <5>. QED
          BY <1>2, <3>1, <4>1, <4>3, <5>1
      <4>. QED
        BY <4>2, <4>3
    <3>3. t = c
      BY <1>5, <3>1, <3>2
    <3>. QED
      BY <3>3 DEF c
  <2>3. (L - 4) - (i - 4) + 1 = L - i + 1
    BY <1>1, <2>1
  <2>4. Crc32(t) = Xor(Crc32(s), Effect[L - i + 1][b])
    <3>1. i - 4 \in 1 .. Len(s) /\ Len(s) - (i - 4) + 1 = L - i + 1
      BY <1>4, <2>1, <2>3
    <3>2. Crc32(Changed(s, i - 4, b)) = Xor(Crc32(s), Effect[Len(s) - (i - 4) + 1][b])
      BY <1>4, <3>1, CrcChanged
    <3>. QED
      BY <2>2, <3>1, <3>2
  <2>5. Trace(L, i, b) = Effect[L - i + 1][b] \cap NCMD_CHECKSUM
    BY <1>10 DEF Trace
  <2>6. ByteSum(q) = Xor(ByteSum(p), Trace(L, i, b))
    <3>1. \A x, y : Xor(x, y) \cap NCMD_CHECKSUM
                     = Xor(x \cap NCMD_CHECKSUM, y \cap NCMD_CHECKSUM)
      BY DEF Xor
    <3>. QED
      BY <1>6, <2>4, <2>5, <3>1
  <2>7. WordOf(q) = WordOf(p)
    <3>1. \A k \in 1 .. 4 : k \in 1 .. L /\ k # i
      BY <1>1, <1>10
    <3>2. \A k \in 1 .. 4 : q[k] = p[k]
      BY <1>2, <3>1
    <3>. QED
      BY <3>2 DEF WordOf
  <2>8. Residue(q) = Xor(Residue(p), Trace(L, i, b))
    <3>1. \A x, y, z : Xor(x, Xor(y, z)) = Xor(Xor(x, y), z)
      BY DEF Xor
    <3>. QED
      BY <2>6, <2>7, <3>1 DEF Residue
  <2>. QED
    BY <1>2, <1>3, <2>8 DEF q, L
<1>. QED
  BY <1>9, <1>10

\* A change leaves a trace, and two bits of different bytes do not leave the
\* same.
LEMMA Traces ==
  ASSUME NEW len \in 14 .. 46
  PROVE  /\ \A i \in 1 .. len, b \in Byte : b # {} => Trace(len, i, b) # {}
         /\ \A i, j \in 1 .. len, k, l \in 0 .. 7 :
              i < j => Trace(len, i, {k}) # Trace(len, j, {l})
<1>1. ASSUME NEW i \in 1 .. len, NEW b \in Byte, b # {}
      PROVE  Trace(len, i, b) # {}
  <2>1. CASE i <= 4
    BY <1>1, <2>1 DEF Trace
  <2>2. CASE ~(i <= 4)
    <3>1. len - i + 1 \in 1 .. 42
      BY <2>2
    <3>2. Effect[len - i + 1][b] \cap NCMD_CHECKSUM # {}
      BY <1>1, <3>1, EffectAssumption
    <3>. QED
      BY <2>2, <3>2 DEF Trace
  <2>. QED
    BY <2>1, <2>2
<1>2. ASSUME NEW i \in 1 .. len, NEW j \in 1 .. len, NEW k \in 0 .. 7, NEW l \in 0 .. 7,
             i < j
      PROVE  Trace(len, i, {k}) # Trace(len, j, {l})
  <2>. DEFINE d == len - i + 1
              c == len - j + 1
  <2>1. \A n \in 1 .. len : n <= 4 => \A m \in 0 .. 7 :
          /\ Trace(len, n, {m}) = {m + 8 * (n - 1)}
          /\ n \in 1 .. 4
    BY DEF Trace
  <2>2. \A n \in 1 .. len : ~(n <= 4) => \A m \in 0 .. 7 :
          /\ len - n + 1 \in 1 .. 42
          /\ Trace(len, n, {m}) = Shown[len - n + 1][m]
    <3>1. ASSUME NEW n \in 1 .. len, ~(n <= 4) PROVE len - n + 1 \in 1 .. 42
      BY <3>1
    <3>2. \A e \in 1 .. 42, m \in 0 .. 7 :
            Shown[e][m] = Effect[e][{m}] \cap NCMD_CHECKSUM
      BY DEF Shown
    <3>. QED
      BY <3>1, <3>2 DEF Trace
  <2>3. CASE j <= 4
    <3>1. i <= 4
      BY <1>2, <2>3
    <3>2. i \in 1 .. 4 /\ j \in 1 .. 4 /\ i # j
      BY <1>2, <2>3
    <3>3. k + 8 * (i - 1) # l + 8 * (j - 1)
      BY <3>2, BitPlace
    <3>4. Trace(len, i, {k}) = {k + 8 * (i - 1)} /\ Trace(len, j, {l}) = {l + 8 * (j - 1)}
      BY <2>1, <2>3, <3>1
    <3>. QED
      BY <3>3, <3>4
  <2>4. CASE i <= 4 /\ ~(j <= 4)
    <3>1. k + 8 * (i - 1) \in 0 .. 31
      BY <2>1, <2>4, BitPlace
    <3>2. Shown[c][l] # {k + 8 * (i - 1)}
      <4>1. c \in 1 .. 42
        BY <2>2, <2>4
      <4>. HIDE DEF c
      <4>2. \A m \in 0 .. 31 : Shown[c][l] # {m}
        BY <4>1, EffectAssumption
      <4>. QED
        BY <3>1, <4>2
    <3>3. Trace(len, i, {k}) = {k + 8 * (i - 1)} /\ Trace(len, j, {l}) = Shown[c][l]
      BY <2>1, <2>2, <2>4
    <3>. QED
      BY <3>2, <3>3
  <2>5. CASE ~(i <= 4) /\ ~(j <= 4)
    <3>1. d \in 1 .. 42 /\ c \in 1 .. d - 1
      BY <1>2, <2>5
    <3>2. Shown[d][k] # Shown[c][l]
      BY <3>1, EffectAssumption
    <3>. QED
      BY <2>2, <2>5, <3>2
  <2>6. j <= 4 \/ (i <= 4 /\ ~(j <= 4)) \/ (~(i <= 4) /\ ~(j <= 4))
    BY <1>2
  <2>. QED
    BY <2>3, <2>4, <2>5, <2>6
<1>. QED
  BY <1>1, <1>2

\* Whatever packet is sent, if one byte of it becomes another on the way, in
\* the checksum or behind it, ReceivePacket does not take it.
THEOREM OneByteNoticed ==
  ASSUME NEW p, IsPacket(p), Intact(p),
         NEW i \in 1 .. Len(p), NEW b \in Byte \ {{}}
  PROVE  ~Intact(Changed(p, i, b))
<1>1. Residue(p) = {}
  BY IntactResidue
<1>2. /\ IsPacket(Changed(p, i, b))
      /\ Residue(Changed(p, i, b)) = Xor(Residue(p), Trace(Len(p), i, b))
  BY ResidueChanged
<1>3. Trace(Len(p), i, b) # {}
  <2>1. Len(p) \in 14 .. 46
    BY DEF IsPacket
  <2>. QED
    BY <2>1, Traces
<1>4. Residue(Changed(p, i, b)) # {}
  <2>1. \A x : Xor({}, x) = x
    BY XorAlgebra
  <2>. QED
    BY <1>1, <1>2, <1>3, <2>1
<1>. QED
  BY <1>2, <1>4, IntactResidue

\* Nor does it if a bit is inverted in each of two bytes.
THEOREM TwoBitsNoticed ==
  ASSUME NEW p, IsPacket(p), Intact(p),
         NEW i \in 1 .. Len(p), NEW j \in 1 .. Len(p), i < j,
         NEW k \in 0 .. 7, NEW l \in 0 .. 7
  PROVE  ~Intact(Changed(Changed(p, i, {k}), j, {l}))
<1>. DEFINE q == Changed(p, i, {k})
            r == Changed(q, j, {l})
            a == Trace(Len(p), i, {k})
            c == Trace(Len(p), j, {l})
<1>1. Residue(p) = {}
  BY IntactResidue
<1>2. {k} \in Byte /\ {l} \in Byte
  BY DEF Byte
<1>3. IsPacket(q) /\ Len(q) = Len(p) /\ Residue(q) = Xor(Residue(p), a)
  BY <1>2, ResidueChanged
<1>. HIDE DEF q
<1>4. IsPacket(r) /\ Residue(r) = Xor(Residue(q), c)
  BY <1>2, <1>3, ResidueChanged
<1>5. a # c
  <2>1. Len(p) \in 14 .. 46
    BY DEF IsPacket
  <2>. QED
    BY <2>1, Traces
<1>. HIDE DEF r, a, c
<1>6. Xor(Xor({}, a), c) # {}
  BY <1>5 DEF Xor
<1>7. Residue(r) # {}
  BY <1>1, <1>3, <1>4, <1>6
<1>8. ~Intact(r)
  BY <1>4, <1>7, IntactResidue
<1>. QED
  BY <1>8 DEF q, r
\* The bits of byte k that are inverted if bits i and j of a packet are.
Flips(i, j, k) == {b - 8 * (k - 1) - 1 : b \in {i, j} \cap 8 * (k - 1) + 1 .. 8 * k}

\* Bit i of a packet is bit x of byte m.
IsBit(i, m, x) == m \in Int /\ x \in 0 .. 7 /\ i = 8 * (m - 1) + x + 1

LEMMA BitByte ==
  ASSUME NEW N \in Nat, NEW i \in 1 .. 8 * N
  PROVE  \E m \in 1 .. N, x \in 0 .. 7 : IsBit(i, m, x)
<1>. DEFINE m == (i - 1) \div 8 + 1
            x == (i - 1) % 8
<1>1. m \in 1 .. N /\ x \in 0 .. 7 /\ i = 8 * (m - 1) + x + 1
  OBVIOUS
<1>. QED
  BY <1>1 DEF IsBit

LEMMA FlipsAre ==
  ASSUME NEW i, NEW j, NEW m, NEW n, NEW x, NEW y, NEW k \in Int,
         IsBit(i, m, x), IsBit(j, n, y)
  PROVE  Flips(i, j, k) = (IF k = m THEN {x} ELSE {}) \cup (IF k = n THEN {y} ELSE {})
<1>1. /\ i \in 8 * (k - 1) + 1 .. 8 * k <=> k = m
      /\ j \in 8 * (k - 1) + 1 .. 8 * k <=> k = n
  BY DEF IsBit
<1>2. (k = m => i - 8 * (k - 1) - 1 = x) /\ (k = n => j - 8 * (k - 1) - 1 = y)
  BY DEF IsBit
<1>3. \A b : b \in {i, j} \cap (8 * (k - 1) + 1 .. 8 * k)
               <=> (b = i /\ k = m) \/ (b = j /\ k = n)
  BY <1>1
<1>4. \A z : z \in Flips(i, j, k)
               <=> \/ k = m /\ z = i - 8 * (k - 1) - 1
                   \/ k = n /\ z = j - 8 * (k - 1) - 1
  BY <1>3 DEF Flips
<1>5. \A z : z \in Flips(i, j, k) <=> (k = m /\ z = x) \/ (k = n /\ z = y)
  BY <1>2, <1>4
<1>. QED
  BY <1>5

LEMMA FlippedNoticed ==
  ASSUME NEW p, IsPacket(p), Intact(p),
         NEW i \in 1 .. 8 * Len(p), NEW j \in 1 .. 8 * Len(p), i < j
  PROVE  LET q == [k \in DOMAIN p |-> Xor(p[k], Flips(i, j, k))]
         IN  ~Intact(q) /\ Len(q) = Len(p)
<1>. DEFINE N == Len(p)
            q == [k \in DOMAIN p |-> Xor(p[k], Flips(i, j, k))]
<1>1. p \in Seq(Byte) /\ N \in Nat /\ DOMAIN p = 1 .. N
  BY DEF IsPacket
<1>. HIDE DEF N
<1>2. PICK m \in 1 .. N, x \in 0 .. 7 : IsBit(i, m, x)
  BY <1>1, BitByte DEF N
<1>3. PICK n \in 1 .. N, y \in 0 .. 7 : IsBit(j, n, y)
  BY <1>1, BitByte DEF N
<1>4. ASSUME NEW k \in 1 .. N
      PROVE  Flips(i, j, k) = (IF k = m THEN {x} ELSE {}) \cup (IF k = n THEN {y} ELSE {})
  <2>1. k \in Int
    OBVIOUS
  <2>. QED
    BY <1>2, <1>3, <2>1, FlipsAre
<1>5. q = [k \in 1 .. N |-> Xor(p[k], (IF k = m THEN {x} ELSE {})
                                        \cup (IF k = n THEN {y} ELSE {}))]
  BY <1>1, <1>4
<1>6. \A r \in Seq(Byte) : Len(r) = N => r = [k \in 1 .. N |-> r[k]]
  OBVIOUS
<1>7. \A k : Xor(p[k], {}) = p[k]
  BY XorAlgebra
<1>. HIDE DEF q
<1>8. CASE m = n
  <2>. DEFINE b == {x, y}
              c == Changed(p, m, b)
  <2>1. b \in Byte \ {{}}
    BY DEF Byte
  <2>2. /\ c \in Seq(Byte) /\ Len(c) = N /\ c[m] = Xor(p[m], b)
        /\ \A k \in 1 .. N : k # m => c[k] = p[k]
    BY <1>1, <2>1, ChangedBytes DEF N
  <2>3. ~Intact(c)
    BY <2>1, OneByteNoticed DEF N
  <2>4. (IF m = m THEN {x} ELSE {}) \cup (IF m = n THEN {y} ELSE {}) = b
    BY <1>8
  <2>. HIDE DEF b, c
  <2>5. c = q
    <3>1. \A k \in 1 .. N : c[k] = Xor(p[k], (IF k = m THEN {x} ELSE {})
                                               \cup (IF k = n THEN {y} ELSE {}))
      BY <1>7, <1>8, <2>2, <2>4
    <3>. QED
      BY <1>5, <1>6, <2>2, <3>1
  <2>. QED
    BY <2>2, <2>3, <2>5 DEF N, q
<1>9. CASE m # n
  <2>. DEFINE c == Changed(p, m, {x})
              d == Changed(c, n, {y})
  <2>1. {x} \in Byte /\ {y} \in Byte
    BY DEF Byte
  <2>2. m < n
    BY <1>2, <1>3, <1>9 DEF IsBit
  <2>3. ~Intact(d)
    BY <2>2, TwoBitsNoticed DEF N
  <2>4. /\ c \in Seq(Byte) /\ Len(c) = N /\ c[m] = Xor(p[m], {x})
        /\ \A k \in 1 .. N : k # m => c[k] = p[k]
    BY <1>1, <2>1, ChangedBytes DEF N
  <2>. HIDE DEF c
  <2>5. /\ d \in Seq(Byte) /\ Len(d) = N /\ d[n] = Xor(c[n], {y})
        /\ \A k \in 1 .. N : k # n => d[k] = c[k]
    BY <2>1, <2>4, ChangedBytes
  <2>. HIDE DEF d
  <2>6. d = q
    <3>1. ASSUME NEW k \in 1 .. N
          PROVE  d[k] = Xor(p[k], (IF k = m THEN {x} ELSE {})
                                    \cup (IF k = n THEN {y} ELSE {}))
      <4>1. {x} \cup {} = {x} /\ {} \cup {y} = {y} /\ {} \cup {} = {}
        OBVIOUS
      <4>. QED
        BY <1>7, <1>9, <2>4, <2>5, <4>1
    <3>. QED
      BY <1>5, <1>6, <2>5, <3>1
  <2>. QED
    BY <2>3, <2>5, <2>6 DEF N, q
<1>. QED
  BY <1>8, <1>9

-----------------------------------------------------------------------------
(* What Crc32's runs check.                                                *)

\* A packet that was sent is intact, and what became of it without its end
\* being lost is not.
CrcInv ==
  \/ sent = <<>> /\ got = <<>>
  \/ /\ IsPacket(sent) /\ Intact(sent)
     /\ \/ got = sent
        \/ ~Intact(got)
        \/ got \in Seq(Byte) /\ Len(got) < Len(sent)

LEMMA NotEmpty ==
  ASSUME NEW p, IsPacket(p)
  PROVE  p # <<>> /\ Len(p) \in Nat /\ p \in Seq(Byte) /\ DOMAIN p = 1 .. Len(p)
<1>1. p \in Seq(Byte) /\ Len(p) \in 14 .. 46
  BY DEF IsPacket
<1>2. Len(p) \in Nat /\ Len(p) # 0
  <2>. DEFINE n == Len(p)
  <2>1. n \in 14 .. 46
    BY <1>1
  <2>. HIDE DEF n
  <2>2. n \in Nat /\ n # 0
    BY <2>1
  <2>. QED
    BY <2>2 DEF n
<1>. QED
  BY <1>1, <1>2

LEMMA CrcInitInv == CrcInit => CrcInv
<1>. SUFFICES ASSUME CrcInit PROVE CrcInv
  OBVIOUS
<1>1. CASE sent = <<>> /\ got = <<>>
  BY <1>1 DEF CrcInv
<1>2. CASE ~(sent = <<>> /\ got = <<>>)
  <2>1. PICK start \in 0 .. MaxStart, n \in Counts :
          sent = PacketBytes(start, n) /\ got = sent
    BY <1>2 DEF CrcInit
  <2>2. n \in 0 .. 16
    BY CrcAssumption
  <2>. QED
    BY <2>1, <2>2, PacketIntact DEF CrcInv
<1>. QED
  BY <1>1, <1>2

\* What damage makes of a packet.
LEMMA DamageNoticed ==
  ASSUME CrcInv, ByteChanged \/ BitsFlipped
  PROVE  ~Intact(got') /\ Len(got') = Len(sent) /\ sent' = sent
<1>1. sent # <<>> /\ got = sent /\ sent' = sent
  BY DEF ByteChanged, BitsFlipped, MayBreak
<1>2. IsPacket(sent) /\ Intact(sent)
  BY <1>1 DEF CrcInv
<1>3. DOMAIN sent = 1 .. Len(sent) /\ sent \in Seq(Byte)
  BY <1>2, NotEmpty
<1>4. CASE ByteChanged
  <2>1. PICK i \in 1 .. Len(sent), b \in Byte \ {{}} : got' = Changed(sent, i, b)
    BY <1>3, <1>4 DEF ByteChanged, Changed
  <2>2. ~Intact(Changed(sent, i, b))
    BY <1>2, OneByteNoticed
  <2>3. Len(Changed(sent, i, b)) = Len(sent)
    BY <1>3, ChangedBytes
  <2>. QED
    BY <1>1, <2>1, <2>2, <2>3
<1>5. CASE BitsFlipped
  <2>1. PICK i \in 1 .. 8 * Len(sent), j \in 1 .. 8 * Len(sent) :
          i < j /\ got' = [k \in DOMAIN sent |-> Xor(sent[k], Flips(i, j, k))]
    BY <1>5 DEF BitsFlipped, Flips
  <2>. QED
    BY <1>1, <1>2, <2>1, FlippedNoticed
<1>. QED
  BY <1>4, <1>5

LEMMA CrcNextInv ==
  ASSUME CrcInv, [CrcNext]_<<vars, crcVars>>
  PROVE  CrcInv'
<1>1. CASE UNCHANGED crcVars
  BY <1>1 DEF crcVars, CrcInv, IsPacket, Intact
<1>2. CASE ByteChanged \/ BitsFlipped
  <2>1. ~Intact(got') /\ sent' = sent
    BY <1>2, DamageNoticed
  <2>2. sent # <<>>
    BY <1>2 DEF ByteChanged, BitsFlipped, MayBreak
  <2>. QED
    BY <2>1, <2>2 DEF CrcInv
<1>3. CASE CutShort
  <2>1. sent # <<>> /\ sent' = sent
    BY <1>3 DEF CutShort, MayBreak
  <2>2. IsPacket(sent) /\ Intact(sent)
    BY <2>1 DEF CrcInv
  <2>3. Len(sent) \in Nat /\ sent \in Seq(Byte)
    BY <2>2, NotEmpty
  <2>4. PICK n \in 0 .. Len(sent) - 1 : got' = SubSeq(sent, 1, n)
    BY <1>3 DEF CutShort
  <2>5. got' \in Seq(Byte) /\ Len(got') < Len(sent)
    BY <2>3, <2>4
  <2>. QED
    BY <2>1, <2>2, <2>5 DEF CrcInv
<1>. QED
  BY <1>1, <1>2, <1>3 DEF CrcNext, crcVars

\* What is in the buffers are packets, whose checksum is right.
THEOREM CrcInvariance == CrcSpec => []CrcInv
  BY CrcInitInv, CrcNextInv, PTL DEF CrcSpec

\* crc32.c computes the CRC-32 of every packet.
THEOREM CrcRight == CrcSpec => []Right
<1>1. ASSUME CrcInv PROVE Right
  <2>. SUFFICES ASSUME got = sent, sent # <<>>
       PROVE  LET buf == SubSeq(sent, 5, Len(sent))
                  Remainder(n) == Xor(Crc32(SubSeq(buf, 1, n)), Ones)
              IN  /\ Remainder(0) = Ones
                  /\ \A n \in DOMAIN buf :
                       Remainder(n) = Divided(Remainder(n - 1), buf[n])
    BY DEF Right
  <2>. DEFINE buf == SubSeq(sent, 5, Len(sent))
  <2>1. IsPacket(sent)
    BY <1>1 DEF CrcInv
  <2>2. buf \in Seq(Byte)
    BY <2>1, Tail4
  <2>. HIDE DEF buf
  <2>3. DOMAIN buf = 1 .. Len(buf)
    BY <2>2
  <2>4. /\ Xor(Crc32(SubSeq(buf, 1, 0)), Ones) = Ones
        /\ \A n \in 1 .. Len(buf) :
             Xor(Crc32(SubSeq(buf, 1, n)), Ones)
               = Divided(Xor(Crc32(SubSeq(buf, 1, n - 1)), Ones), buf[n])
    BY <2>2, Remainders
  <2>. QED
    BY <2>3, <2>4 DEF buf
<1>. QED
  BY <1>1, CrcInvariance, PTL

\* ReceivePacket takes a packet that arrives as it was sent, and not one that
\* was damaged and is as long as it was or shorter than any packet.
THEOREM CrcNoticed ==
  CrcSpec => [](Len(got) = Len(sent) \/ Len(got) < MIN_PACKET_LEN => Noticed)
<1>1. ASSUME CrcInv, Len(got) = Len(sent) \/ Len(got) < MIN_PACKET_LEN
      PROVE  Noticed
  <2>. SUFFICES ASSUME sent # <<>> PROVE Intact(got) <=> got = sent
    BY DEF Noticed
  <2>1. IsPacket(sent) /\ Intact(sent)
    BY <1>1 DEF CrcInv
  <2>2. CASE got = sent
    BY <2>1, <2>2
  <2>3. CASE got # sent /\ ~Intact(got)
    BY <2>3
  <2>4. CASE got \in Seq(Byte) /\ Len(got) < Len(sent)
    <3>1. Len(sent) \in Nat /\ Len(got) \in Nat
      BY <2>1, <2>4, NotEmpty
    <3>2. Len(got) < MIN_PACKET_LEN \/ Len(got) = Len(sent)
      BY <1>1
    <3>3. got # sent
      BY <2>4, <3>1
    <3>4. ~Intact(got)
      <4>1. Len(got) < 14
        BY <2>4, <3>1, <3>2 DEF MIN_PACKET_LEN
      <4>2. ~(Len(got) >= 14)
        BY <3>1, <4>1
      <4>. QED
        BY <4>2 DEF Intact, MIN_PACKET_LEN
    <3>. QED
      BY <3>3, <3>4
  <2>. QED
    BY <1>1, <2>2, <2>3, <2>4 DEF CrcInv
<1>2. CrcInv => (Len(got) = Len(sent) \/ Len(got) < MIN_PACKET_LEN => Noticed)
  BY <1>1
<1>. QED
  BY <1>2, CrcInvariance, PTL

\* Following a packet byte by byte adds nothing to what Wire's machine does:
\* what is proved of Wire holds there.
THEOREM CrcWire == CrcSpec => Spec
<1>1. CrcInit => Init
  <2>1. (CHOOSE d \in Unused : TRUE) \in Unused
    <3>1. PICK h \in Header, c \in Cmd : TRUE
      BY WireAssumption
    <3>2. [datalength |-> 0, checksum |-> NoSum, head |-> h, num_cmds |-> 0,
           cmds |-> [k \in 1 .. MAX_DELAY |-> c]] \in Unused
      BY DEF Unused
    <3>. QED
      BY <3>2
  <2>. QED
    BY <2>1 DEF CrcInit, Init
<1>2. [CrcNext]_<<vars, crcVars>> => [Next]_vars
  BY DEF CrcNext, vars
<1>. QED
  BY <1>1, <1>2, PTL DEF CrcSpec, Spec
=============================================================================
