-------------------------------- MODULE Wire --------------------------------
(***************************************************************************)
(* protocol.c and doomnet.c: packets as they lie in the doomcom buffer,    *)
(* through which a machine both sends and receives.  A packet has as many  *)
(* commands as it needs; behind them the buffer keeps what earlier packets *)
(* left.  Protocol takes from this module that a packet arrives as it was  *)
(* sent or is recognised as damaged.                                       *)
(*                                                                         *)
(* One machine is modelled, and what arrives from the others, which run    *)
(* the same SendPacket.  What windows hold is arbitrary here.  start, ack  *)
(* and player are one field, head.  The checksum is ideal: it differs      *)
(* whenever what it covers does (Crc32 says what the real one notices).    *)
(***************************************************************************)
EXTENDS Integers, Sequences, FiniteSets

CONSTANTS
  MAX_DELAY,    \* protocol.c: 16
  Header, Cmd,  \* the values of the fields
  MaxInFlight   \* bound: packets on the way

ASSUME WireAssumption ==
  /\ MAX_DELAY \in 1 .. 249     \* a packet fits into doomcom's data
  /\ MaxInFlight \in Nat
  /\ Header # {} /\ Cmd # {}

VARIABLES
  doomcom,      \* the buffer
  pc,           \* "idle", or "got" when a packet is in the buffer
  net,          \* the packets on the way to this machine
  orig,         \* history: what the sender of the last packet meant
  read,         \* history: what ReceivePacket made of it, if it took it
  summed        \* history: how many of its bytes Checksum went over

vars == <<doomcom, pc, net, orig, read, summed>>

MIN_PACKET_LEN == 14
sizeof_packet == MIN_PACKET_LEN + 2 * MAX_DELAY

\* A checksum that nothing has.
NoSum == <<>>

Commands == UNION {[1 .. n -> Cmd] : n \in 0 .. MAX_DELAY}
Sum == {NoSum} \cup ((0 .. 512) \X Header \X (0 .. 255) \X Commands)

\* What a packet says.
Message == [head : Header, cmds : Commands]

\* doomcom_t's datalength, and struct packet in its data.
Doomcom == [datalength : 0 .. 512, checksum : Sum, head : Header,
            num_cmds : 0 .. 255, cmds : [1 .. MAX_DELAY -> Cmd]]

\* The commands that lie within the first len bytes.
Covered(len) == IF len < MIN_PACKET_LEN THEN 0
                ELSE IF len > sizeof_packet THEN MAX_DELAY
                ELSE (len - MIN_PACKET_LEN) \div 2

Checksum(datalength, head, num_cmds, cmds) ==
  <<datalength, head, num_cmds, [k \in 1 .. Covered(datalength) |-> cmds[k]]>>

\* The last command is not sent.
MutShort(num_cmds) == sizeof_packet - (MAX_DELAY + 1 - num_cmds) * 2

DataLength(num_cmds) == sizeof_packet - (MAX_DELAY - num_cmds) * 2

\* cmds written over the beginning of old.
Over(cmds, old) ==
  [k \in 1 .. MAX_DELAY |-> IF k <= Len(cmds) THEN cmds[k] ELSE old[k]]

\* SendPacket before NetSendPacket: msg is put into a buffer that holds the
\* commands old.
Filled(old, msg) ==
  LET num_cmds == Len(msg.cmds)
      len == DataLength(num_cmds)
      cmds == Over(msg.cmds, old)
  IN  [datalength |-> len, checksum |-> Checksum(len, msg.head, num_cmds, cmds),
       head |-> msg.head, num_cmds |-> num_cmds, cmds |-> cmds]

\* The bytes that the driver sends.
Packet(d) ==
  [datalength |-> d.datalength, checksum |-> d.checksum, head |-> d.head,
   num_cmds |-> d.num_cmds,
   cmds |-> [k \in 1 .. Covered(d.datalength) |-> d.cmds[k]]]

\* Nothing was sent or received yet; the driver does not clear the data.
Unused == [datalength : {0}, checksum : {NoSum}, head : Header,
           num_cmds : {0}, cmds : [1 .. MAX_DELAY -> Cmd]]

Init ==
  /\ doomcom \in Unused
  /\ pc = "idle"
  /\ net = {}
  /\ orig = {} /\ read = {} /\ summed = 0

\* SendPacket, NetSendPacket: the packet leaves this machine.
SendPacket(msg) ==
  /\ pc = "idle"
  /\ doomcom' = Filled(doomcom.cmds, msg)
  /\ UNCHANGED <<pc, net, orig, read, summed>>

\* Another machine's SendPacket, over whatever is in its buffer.
PeerSends(msg) ==
  /\ Cardinality(net) < MaxInFlight
  /\ \E stale \in [1 .. MAX_DELAY -> Cmd] :
       net' = net \cup {[data |-> Packet(Filled(stale, msg)), orig |-> msg]}
  /\ UNCHANGED <<doomcom, pc, orig, read, summed>>

\* On the way a field is changed, or the end is cut off.
Damaged(p) ==
  {[p EXCEPT !.head = h] : h \in Header}
  \cup {[p EXCEPT !.num_cmds = n] : n \in 0 .. MAX_DELAY + 1}
  \cup {[p EXCEPT !.cmds = c] : c \in [1 .. Len(p.cmds) -> Cmd]}
  \cup {[p EXCEPT !.checksum = NoSum]}
  \cup {[p EXCEPT !.datalength = n, !.cmds = SubSeq(@, 1, Covered(n))] :
          n \in 0 .. p.datalength}

\* NetGetPacket: the driver puts a packet into the buffer.  It may come
\* again.  A short one may leave the header as it was.
NetGetPacket ==
  \E p \in net : \E q \in Damaged(p.data) :
    /\ pc = "idle"
    /\ \E h \in {q} \cup IF q.datalength < MIN_PACKET_LEN THEN {doomcom} ELSE {} :
         doomcom' = [datalength |-> q.datalength, checksum |-> h.checksum,
                     head |-> h.head, num_cmds |-> h.num_cmds,
                     cmds |-> Over(q.cmds, doomcom.cmds)]
    /\ orig' = {p.orig}
    /\ pc' = "got"
    /\ net' \in {net, net \ {p}}
    /\ read' = {} /\ summed' = 0

\* A packet is taken to have a header.
MutAnyLength(d) == TRUE

LongEnough(d) == d.datalength >= MIN_PACKET_LEN

\* The player, which is part of head, is not tested here: more is accepted.
Valid(d) ==
  /\ d.checksum = Checksum(d.datalength, d.head, d.num_cmds, d.cmds)
  /\ d.num_cmds <= MAX_DELAY

\* ReceivePacket.  The length given to Crc32 is a size_t.
ReceivePacket ==
  /\ pc = "got"
  /\ summed' = IF LongEnough(doomcom) THEN (doomcom.datalength - 4) % 65536
                                      ELSE summed
  /\ read' = IF LongEnough(doomcom) /\ Valid(doomcom)
             THEN {[head |-> doomcom.head,
                    cmds |-> [k \in 1 .. doomcom.num_cmds |-> doomcom.cmds[k]]]}
             ELSE read
  /\ pc' = "idle"
  /\ UNCHANGED <<doomcom, net, orig>>

Next ==
  \/ \E msg \in Message : SendPacket(msg) \/ PeerSends(msg)
  \/ NetGetPacket \/ ReceivePacket

Spec == Init /\ [][Next]_vars

-----------------------------------------------------------------------------
(* Properties.                                                             *)

\* Every variable has its type; Checksum never goes beyond what was received.
\* (MIN_PACKET_LEN; the length is unsigned.)
TypeOK ==
  /\ doomcom \in Doomcom
  /\ pc \in {"idle", "got"}
  /\ orig \subseteq Message
  /\ read \subseteq Message
  /\ summed \in 0 .. sizeof_packet - 4

\* A packet that ReceivePacket accepts is read as it was meant, to the last
\* command: none is what an earlier packet left in the buffer behind the end
\* of this one.  (ReceivePacket goes by num_cmds and does not compare it with
\* datalength; SendPacket's datalength makes up for it.)
ReadAsMeant == read \subseteq orig
=============================================================================
