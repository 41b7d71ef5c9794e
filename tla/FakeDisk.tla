------------------------------ MODULE FakeDisk ------------------------------
(***************************************************************************)
(* fakedisk.c: the emulated floppy drive B: of every machine, through      *)
(* which Sopwith believes to share a disk with the other players.          *)
(*                                                                         *)
(* The pipeline behind SwapCommand is Lockstep, which protocol.c           *)
(* implements.  Machine m has consoleplayer = m.  A data buffer that is    *)
(* read from or written to the disk is a parameter or result of the        *)
(* operators below; who owns it is up to the module that uses them.        *)
(***************************************************************************)
EXTENDS Integers, Sequences

CONSTANTS
  NumNodes,     \* doomcom->numnodes, equal to doomcom->numplayers
  MAX_PLAYERS,  \* protocol.h: 4
  fake_players, \* the -fakeplayers flag
  DELAY,        \* protocol.c: 4
  Cmd,          \* the commands a player can give; 0 is none
  MaxTic        \* bound: tics played

ASSUME PlayersAssumption ==
  /\ NumNodes \in Nat
  /\ NumNodes > 1
  /\ MAX_PLAYERS \in Nat
  /\ NumNodes <= MAX_PLAYERS
  /\ fake_players \in BOOLEAN

ASSUME PipelineAssumption ==
  /\ DELAY \in Nat \ {0}
  /\ 0 \in Cmd
  /\ MaxTic \in Nat

Node == 0 .. NumNodes - 1
Player == 0 .. MAX_PLAYERS - 1

\* InitProtocol.
num_players == IF fake_players THEN MAX_PLAYERS ELSE NumNodes

VARIABLES
  log, tic, out,  \* the pipeline (Lockstep)
  state,          \* [m]: what the next access to SOPWITH1.DTA means
  locked,         \* [m]: the contents of SEMAPHOR
  multio,         \* [m]: the contents of SOPWITH1.DTA
  vect,           \* [m]: the interrupt vectors 13h, 25h and 26h
  old_vect,       \* [m]: old_int13, old_int25 and old_int26
  hooked,         \* [m]
  patched         \* [m]: applied_patches

pipeline == <<log, tic, out>>
drive == <<state, locked, multio>>
hooks == <<vect, old_vect, hooked, patched>>

Swap == INSTANCE Lockstep

-----------------------------------------------------------------------------
(* The contents of the disk.                                               *)

PLAYER_WAITING == 0
PLAYER_FLYING == 1
PLAYER_FINISHED == 91
EXPL_RANDOM_SEED == 132

\* The sectors that exist, and the ones beside them that do not.
SECTOR_BOOT == 0
SECTOR_FAT == 1
SECTOR_DIRECTORY == 2
SECTOR_SOPWITH1 == 3
SECTOR_SEMAPHOR == 4

\* struct sop_multio; a byte that nobody set is 0.
Multio == [max_players : Nat, num_players : Nat, last_player : Nat,
           key : [Player -> Cmd], state : [Player -> Nat], explseed : Nat]

NoMultio == [max_players |-> 0, num_players |-> 0, last_player |-> 0,
             key |-> [p \in Player |-> 0], state |-> [p \in Player |-> 0],
             explseed |-> 0]

\* ReadSector fails for several sectors at a time and for sectors that do
\* not exist or hold nothing of use.
Readable(sector, cnt) ==
  /\ cnt = 1
  /\ sector \in {SECTOR_BOOT, SECTOR_DIRECTORY, SECTOR_SOPWITH1,
                 SECTOR_SEMAPHOR}

Writable(sector, cnt) ==
  /\ cnt = 1
  /\ sector \in {SECTOR_SOPWITH1, SECTOR_SEMAPHOR}

\* ReadSemaphore's byte: 0xff or 0xfe.
Semaphore(m) == IF locked[m] THEN 255 ELSE 254

\* This player is shown to have joined already.
MutSelfJoined(m, d) ==
  [d EXCEPT
    !.max_players = num_players,
    !.state = [p \in Player |->
                IF p >= num_players THEN d.state[p]
                ELSE IF p <= m THEN PLAYER_FLYING ELSE PLAYER_WAITING],
    !.num_players = 1,
    !.explseed = EXPL_RANDOM_SEED]

\* ReadData in STATE_INIT: players below this one have joined, the others
\* have not, and somebody has chosen the size of the game and the seed.
Invitation(m, d) ==
  [d EXCEPT
    !.max_players = num_players,
    !.state = [p \in Player |->
                IF p >= num_players THEN d.state[p]
                ELSE IF p < m THEN PLAYER_FLYING ELSE PLAYER_WAITING],
    !.num_players = 1,
    !.explseed = EXPL_RANDOM_SEED]

\* The reader itself is the one that wrote last.
MutOwnTurnPast(m, d) == [d EXCEPT !.last_player = m]

\* ReadData in STATE_WAITING_READ: it is this player's turn.
YourTurn(m, d) ==
  [d EXCEPT !.last_player = (m + num_players - 1) % num_players]

\* WriteData in STATE_INIT: everybody has joined.
AllReady(d) ==
  [d EXCEPT
    !.state = [p \in Player |->
                IF p < num_players THEN PLAYER_FLYING ELSE d.state[p]],
    !.num_players = num_players,
    !.last_player = num_players - 1]

\* WriteData after SwapCommand: everybody has written.
AllWritten(d, cmd_buf) ==
  [d EXCEPT
    !.key = [p \in Player |-> IF p < num_players THEN cmd_buf[p]
                              ELSE d.key[p]],
    !.last_player = num_players - 1]

\* The writer's buffer stays as it was written.
MutNoCopyBack(data, disk) == data

\* WriteData at its end: the writer's buffer holds what the disk holds, and
\* so Sopwith need not read to see that everybody has written.
CopyBack(data, disk) == disk

-----------------------------------------------------------------------------
(* The sector operations.  An operation that does not mention the pipeline *)
(* leaves it alone.                                                        *)

\* ReadData; multio' is what the reader gets.
ReadData(m) ==
  /\ \/ /\ state[m] = "INIT"
        /\ multio' = [multio EXCEPT ![m] = Invitation(m, @)]
        /\ UNCHANGED state
     \/ /\ state[m] = "WAITING_READ"
        /\ multio' = [multio EXCEPT ![m] = YourTurn(m, @)]
        /\ state' = [state EXCEPT ![m] = "WAITING_WRITE"]
     \/ /\ state[m] = "WAITING_WRITE"
        /\ UNCHANGED <<multio, state>>
  /\ UNCHANGED locked

\* ReadSector: only SOPWITH1.DTA changes by being read.
ReadSector(m, sector, cnt) ==
  IF Readable(sector, cnt) /\ sector = SECTOR_SOPWITH1
  THEN ReadData(m)
  ELSE UNCHANGED drive

WriteSemaphore(m, byte) ==
  /\ locked' = [locked EXCEPT ![m] = IF byte = 254 THEN FALSE
                                     ELSE IF byte = 255 THEN TRUE ELSE @]
  /\ UNCHANGED <<state, multio>>

\* WriteData, the write that joins the game.
WriteDataInit(m, data) ==
  /\ state[m] = "INIT"
  /\ multio' = [multio EXCEPT ![m] = AllReady(data)]
  /\ state' = [state EXCEPT ![m] = "WAITING_READ"]
  /\ UNCHANGED locked

\* WriteData up to SwapCommand's wait.  (SwapCommand never returns false:
\* see Protocol.)
WriteDataSwap(m, data) ==
  /\ state[m] # "INIT"
  /\ multio' = [multio EXCEPT ![m] = data]
  /\ Swap!Give(m, data.key[m])
  /\ UNCHANGED <<state, locked>>

\* WriteData from SwapCommand's return on.
WriteDataReturn(m) ==
  /\ Swap!Run(m)
  /\ multio' = [multio EXCEPT ![m] = AllWritten(@, out'[m])]
  /\ state' = [state EXCEPT ![m] = "WAITING_READ"]
  /\ UNCHANGED locked

-----------------------------------------------------------------------------
(* The interrupts.                                                         *)

Vector == {"int13", "int25", "int26"}

\* HookDiskInterrupts.
HookDiskInterrupts(m) ==
  /\ ~hooked[m]
  /\ old_vect' = [old_vect EXCEPT ![m] = vect[m]]
  /\ vect' = [vect EXCEPT ![m] = [v \in Vector |-> "imaginot"]]
  /\ hooked' = [hooked EXCEPT ![m] = TRUE]
  /\ UNCHANGED patched

\* RestoreDiskInterrupts, called at exit.
RestoreDiskInterrupts(m) ==
  /\ hooked[m]
  /\ vect' = [vect EXCEPT ![m] = old_vect[m]]
  /\ hooked' = [hooked EXCEPT ![m] = FALSE]
  /\ UNCHANGED <<old_vect, patched>>

\* Int 13h is left to whoever took it.
MutLeaveInt13(m) == UNCHANGED vect

\* Int25 and Int26 take back int 13h, which Sopwith takes for itself.
TakeInt13(m) == vect' = [vect EXCEPT ![m]["int13"] = "imaginot"]

\* Int25 before it looks at the drive; its first call patches the caller's
\* memory.
EnterInt25(m) ==
  /\ vect[m]["int25"] = "imaginot"
  /\ TakeInt13(m)
  /\ patched' = [patched EXCEPT ![m] = TRUE]
  /\ UNCHANGED <<old_vect, hooked>>

\* Int26 before it looks at the drive.
EnterInt26(m) ==
  /\ vect[m]["int26"] = "imaginot"
  /\ TakeInt13(m)
  /\ UNCHANGED <<old_vect, hooked, patched>>

\* Int13 is reached only through its vector; the packets that RealInt13
\* receives first are steps of the pipeline.
EnterInt13(m) ==
  /\ vect[m]["int13"] = "imaginot"
  /\ UNCHANGED hooks

-----------------------------------------------------------------------------
\* The zeroed statics of a machine that has not hooked anything yet.
DiskInit ==
  /\ Swap!Init
  /\ state = [m \in Node |-> "INIT"]
  /\ locked = [m \in Node |-> FALSE]
  /\ multio = [m \in Node |-> NoMultio]
  /\ vect = [m \in Node |-> [v \in Vector |-> "bios"]]
  /\ old_vect = [m \in Node |-> [v \in Vector |-> "none"]]
  /\ hooked = [m \in Node |-> FALSE]
  /\ patched = [m \in Node |-> FALSE]

\* Every variable has its type.
DiskTypeOK ==
  /\ log \in [Node -> Seq(Cmd)]
  /\ tic \in [Node -> 0 .. MaxTic]
  /\ out \in [Node -> [Player -> Cmd]]
  /\ state \in [Node -> {"INIT", "WAITING_READ", "WAITING_WRITE"}]
  /\ locked \in [Node -> BOOLEAN]
  /\ multio \in [Node -> Multio]
  /\ vect \in [Node -> [Vector -> {"bios", "imaginot", "sopwith"}]]
  /\ old_vect \in [Node -> [Vector -> {"none", "bios"}]]
  /\ hooked \in [Node -> BOOLEAN]
  /\ patched \in [Node -> BOOLEAN]
=============================================================================
