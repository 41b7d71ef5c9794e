------------------------------ MODULE Startup -------------------------------
(***************************************************************************)
(* imaginot.c's main(), with NetGetHandle of doomnet.c and InitProtocol of *)
(* protocol.c: from the command line to the start of Sopwith and back.     *)
(* main() begins with Flags' ParseCommandLine; the other modules begin     *)
(* where this one starts Sopwith.  A failed assertion ends the program     *)
(* without calling what atexit registered.                                 *)
(***************************************************************************)
EXTENDS Flags

CONSTANTS
  Addr,         \* where drivers may keep the doomcom structure: flat addresses
  MAX_PLAYERS   \* protocol.h: 4

\* What the program uses of doomcom_t: 36 bytes, and struct packet.
used_doomcom == 36 + 46

\* Real mode addresses: a driver may be loaded anywhere.
ASSUME AddrAssumption ==
  /\ Addr \subseteq 1 .. 1048575
  /\ MAX_PLAYERS \in Nat

VARIABLES
  main,         \* where main() is, or how the program ended
  options,      \* doomcom_addr, fake_players, and whether there is a command
  doomcom,      \* where the driver's structure is and what it says
  handle,       \* what NetGetHandle returned, a far pointer
  game,         \* what InitProtocol made of it
  hooked,       \* the disk interrupts are Imaginot's
  at_exit       \* RestoreDiskInterrupts is registered

mainVars == <<main, options, doomcom, handle, game, hooked, at_exit>>

\* The byte that offset k of a far pointer addresses: the segment stays.
Linear(ptr, k) == ptr.seg * 16 + ((ptr.off + k) % 65536)

doomcom_t == [at : Addr, numnodes : 0 .. MAX_PLAYERS + 1,
              numplayers : 0 .. MAX_PLAYERS + 1,
              consoleplayer : -1 .. MAX_PLAYERS + 1]

NoDriver == [at |-> 0, numnodes |-> 0, numplayers |-> 0, consoleplayer |-> 0]

StartInit ==
  /\ Init
  /\ main = "parse"
  /\ options = [doomcom_addr |-> 0, fake_players |-> FALSE, command |-> FALSE]
  /\ doomcom = NoDriver
  /\ handle = [seg |-> 0, off |-> 0]
  /\ game = [num_nodes |-> 2, consoleplayer |-> 0, num_players |-> 0]
  /\ hooked = FALSE /\ at_exit = FALSE

\* ParseCommandLine returns, and main() keeps the values of the flags and the
\* command; or it has ended the program.  -net's value is any address.
Parse ==
  /\ main = "parse"
  /\ pc \in {"done", "usage", "error", "abort"}
  /\ \E l \in IF called = <<>> THEN {0} ELSE Addr :
       options' = [doomcom_addr |-> l, command |-> result # <<>>,
                   fake_players |-> values["-fakeplayers"] # NULL]
  /\ main' = IF pc # "done" THEN pc
             ELSE IF options'.command /\ options'.doomcom_addr # 0 THEN "handle"
             ELSE "usage"
  /\ pc' = "returned"
  /\ argv' = <<>> /\ baked_in_config' = <<>>
  /\ args' = <<>> /\ callee_args' = <<>> /\ result' = <<>> /\ given' = <<>>
  /\ i' = 1 /\ w' = 1
  /\ values' = [f \in flags |-> NULL]
  /\ called' = <<>> /\ taken' = {}
  /\ UNCHANGED <<doomcom, handle, game, hooked, at_exit>>

\* seg = (l >> 4) & 0xf000; MK_FP(seg, l & 0xffff).
FarPointer(l) == [seg |-> ((l \div 65536) % 16) * 4096, off |-> l % 65536]

\* assert(result->id == DOOMCOM_ID), on the first four bytes: nothing else in
\* memory looks like it.
IsDoomcom(ptr) == \A k \in 0 .. 3 : Linear(ptr, k) = doomcom'.at + k

NetGetHandle ==
  /\ main = "handle"
  /\ doomcom' \in doomcom_t
  /\ handle' = FarPointer(options.doomcom_addr)
  /\ main' = IF IsDoomcom(handle') THEN "init" ELSE "abort"
  /\ UNCHANGED <<vars, options, game, hooked, at_exit>>

\* InitProtocol's assertion.
Playable(d) ==
  /\ d.numnodes > 1 /\ d.numnodes <= MAX_PLAYERS
  /\ d.numplayers > 1 /\ d.numplayers <= MAX_PLAYERS
  /\ d.consoleplayer >= 0 /\ d.consoleplayer < d.numplayers

InitProtocol ==
  /\ main = "init"
  /\ IF Playable(doomcom)
     THEN /\ game' = [num_nodes |-> doomcom.numnodes,
                      consoleplayer |-> doomcom.consoleplayer,
                      num_players |-> IF options.fake_players THEN MAX_PLAYERS
                                      ELSE doomcom.numplayers]
          /\ main' = "hook"
     ELSE /\ main' = "abort"
          /\ UNCHANGED game
  /\ UNCHANGED <<vars, options, doomcom, handle, hooked, at_exit>>

HookDiskInterrupts ==
  /\ main = "hook"
  /\ hooked' = TRUE
  /\ main' = "register"
  /\ UNCHANGED <<vars, options, doomcom, handle, game, at_exit>>

\* Nothing is registered.
MutNoAtExit == UNCHANGED at_exit

Register == at_exit' = TRUE

AtExit ==
  /\ main = "register"
  /\ Register
  /\ main' = "spawn"
  /\ UNCHANGED <<vars, options, doomcom, handle, game, hooked>>

\* spawnv runs Sopwith, or fails and returns.
Spawn ==
  /\ main = "spawn"
  /\ main' \in {"sopwith", "return"}
  /\ UNCHANGED <<vars, options, doomcom, handle, game, hooked, at_exit>>

\* Sopwith ends, or is ended: when the assertion in ReceivePackets fails, in
\* the middle of Int13, the process that DOS knows is Sopwith (Protocol's
\* AbortPoll).  spawnv returns either way.
SopwithEnds ==
  /\ main = "sopwith"
  /\ main' = "return"
  /\ UNCHANGED <<vars, options, doomcom, handle, game, hooked, at_exit>>

\* main() returns; RestoreDiskInterrupts is called.
Return ==
  /\ main = "return"
  /\ hooked' = (hooked /\ ~at_exit)
  /\ main' = "ended"
  /\ UNCHANGED <<vars, options, doomcom, handle, game, at_exit>>

StartNext ==
  \/ Next /\ UNCHANGED mainVars
  \/ Parse \/ NetGetHandle \/ InitProtocol \/ HookDiskInterrupts
  \/ AtExit \/ Spawn \/ SopwithEnds \/ Return

StartSpec == StartInit /\ [][StartNext]_<<vars, mainVars>>

-----------------------------------------------------------------------------
(* Properties.                                                             *)

\* However the program ends, DOS gets its disk interrupts back; while Sopwith
\* runs they are Imaginot's.
HooksFollowSopwith ==
  /\ main \in {"usage", "error", "abort", "ended"} => ~hooked
  /\ main = "sopwith" => hooked

\* While Sopwith runs, the handle leads to the driver's structure, to the last
\* byte of a packet in it: what the "appropriate checks" of NetGetHandle's
\* comment in doomnet.c would have to see to.
HandleReaches ==
  main = "sopwith" =>
    \A k \in 0 .. used_doomcom - 1 : Linear(handle, k) = doomcom.at + k
=============================================================================
