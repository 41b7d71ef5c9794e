-------------------------------- MODULE Game --------------------------------
(***************************************************************************)
(* A whole game: on every machine, imaginot.c starts Sopwith, and Sopwith  *)
(* plays through the emulated disk of FakeDisk over the pipeline of        *)
(* Lockstep.                                                               *)
(*                                                                         *)
(* Sopwith is not part of this repository.  What it does with the disk is  *)
(* taken from notes.txt and from what fakedisk.c expects of it: it opens   *)
(* the drive through int 25h, installs its own int 13h, joins the game     *)
(* under the lock of the SEMAPHOR file, and then writes one command per    *)
(* tic through int 13h, taking turns with the other players.  One action   *)
(* is one disk interrupt, but for the write that waits in SwapCommand,     *)
(* which is two.                                                           *)
(***************************************************************************)
EXTENDS FakeDisk

CONSTANT MayQuit  \* the machines whose player may leave in the middle

ASSUME QuitAssumption == MayQuit \subseteq Node

VARIABLES
  pc,      \* [m]: where Sopwith is
  buf,     \* [m]: multbuff, Sopwith's copy of SOPWITH1.DTA
  player,  \* [m]: the player number Sopwith gave itself, -1 before
  played   \* history, [m]: the commands of every tic that was played

sopwith == <<pc, buf, player, played>>
vars == <<pipeline, drive, hooks, sopwith>>

Setup == {"open", "dkioset", "lock", "setlock", "checklock", "join", "post",
          "unlock", "gather"}
InGame == {"turn", "swap", "wrote"}

Goto(m, label) == pc' = [pc EXCEPT ![m] = label]

\* Is there nobody in f .. l-1 to wait for, or has the last of them written?
Updated(m, f, l) == f = l \/ buf[m].last_player = l - 1

\* Has Sopwith's wait in multput ended?
Ready(m) ==
  \/ pc[m] = "turn" /\ Updated(m, 0, player[m])
  \/ pc[m] = "wrote" /\ Updated(m, player[m] + 1, buf[m].max_players)

\* Whoever finds no players in the file is the first: it chooses the size
\* of the game and the seed.
Chosen(m, b) ==
  IF b.num_players = 0
  THEN [b EXCEPT !.max_players = MAX_PLAYERS, !.explseed = m]
  ELSE b

\* The lowest player number that is not taken.
FreeNumber(b) ==
  CHOOSE p \in Player : /\ b.state[p] # PLAYER_FLYING
                        /\ \A q \in 0 .. p - 1 : b.state[q] = PLAYER_FLYING

\* The file as Sopwith writes it back to join as player p.
Joined(b, p) ==
  [b EXCEPT !.num_players = @ + 1, !.key[p] = 0,
            !.state[p] = PLAYER_FLYING, !.last_player = p]

-----------------------------------------------------------------------------
Init ==
  /\ DiskInit
  /\ pc = [m \in Node |-> "start"]
  /\ buf = [m \in Node |-> NoMultio]
  /\ player = [m \in Node |-> -1]
  /\ played = [m \in Node |-> <<>>]

\* main() hooks the interrupts and spawns Sopwith.
Launch(m) ==
  /\ pc[m] = "start"
  /\ HookDiskInterrupts(m)
  /\ Goto(m, "open")
  /\ UNCHANGED <<pipeline, drive, buf, player, played>>

\* multopen: the boot sector and the directory are looked up.
Open(m) ==
  /\ pc[m] = "open"
  /\ EnterInt25(m)
  /\ \E sector \in {SECTOR_BOOT, SECTOR_DIRECTORY} : ReadSector(m, sector, 1)
  /\ Goto(m, "dkioset")
  /\ UNCHANGED <<pipeline, buf, player, played>>

\* _dkioset: Sopwith puts its own handler on int 13h.
DkioSet(m) ==
  /\ pc[m] = "dkioset"
  /\ vect' = [vect EXCEPT ![m]["int13"] = "sopwith"]
  /\ Goto(m, "lock")
  /\ UNCHANGED <<pipeline, drive, old_vect, hooked, patched, buf, player,
                 played>>

\* The semaphore must read 0xfe to be taken.
ReadLock(m) ==
  /\ pc[m] = "lock"
  /\ EnterInt25(m)
  /\ ReadSector(m, SECTOR_SEMAPHOR, 1)
  /\ Semaphore(m) = 254
  /\ Goto(m, "setlock")
  /\ UNCHANGED <<pipeline, buf, player, played>>

\* 0xff takes it ...
SetLock(m) ==
  /\ pc[m] = "setlock"
  /\ EnterInt26(m)
  /\ WriteSemaphore(m, 255)
  /\ Goto(m, "checklock")
  /\ UNCHANGED <<pipeline, buf, player, played>>

\* ... and must be read back.
CheckLock(m) ==
  /\ pc[m] = "checklock"
  /\ EnterInt25(m)
  /\ ReadSector(m, SECTOR_SEMAPHOR, 1)
  /\ Semaphore(m) = 255
  /\ Goto(m, "join")
  /\ UNCHANGED <<pipeline, buf, player, played>>

\* multread: Sopwith reads who is in the game.
ReadGame(m) ==
  /\ pc[m] = "join"
  /\ EnterInt25(m)
  /\ ReadSector(m, SECTOR_SOPWITH1, 1)
  /\ buf' = [buf EXCEPT ![m] = Chosen(m, multio'[m])]
  /\ Goto(m, "post")
  /\ UNCHANGED <<pipeline, player, played>>

\* init1mul: unless the game is full, Sopwith joins it.
JoinGame(m) ==
  LET p == FreeNumber(buf[m])
  IN  /\ pc[m] = "post"
      /\ buf[m].num_players < buf[m].max_players
      /\ EnterInt26(m)
      /\ WriteDataInit(m, Joined(buf[m], p))
      /\ buf' = [buf EXCEPT ![m] = CopyBack(Joined(buf[m], p), multio'[m])]
      /\ player' = [player EXCEPT ![m] = p]
      /\ Goto(m, "unlock")
      /\ UNCHANGED <<pipeline, played>>

\* The semaphore is given back.
Unlock(m) ==
  /\ pc[m] = "unlock"
  /\ EnterInt26(m)
  /\ WriteSemaphore(m, 254)
  /\ Goto(m, "gather")
  /\ UNCHANGED <<pipeline, buf, player, played>>

\* init2mul: the file is read, any number of times, ...
Gather(m) ==
  /\ pc[m] = "gather"
  /\ EnterInt13(m)
  /\ ReadSector(m, SECTOR_SOPWITH1, 1)
  /\ buf' = [buf EXCEPT ![m] = multio'[m]]
  /\ UNCHANGED <<pipeline, pc, player, played>>

\* ... until everybody is there.
StartPlay(m) ==
  /\ pc[m] = "gather"
  /\ buf[m].num_players = buf[m].max_players
  /\ Goto(m, "turn")
  /\ UNCHANGED <<pipeline, drive, hooks, buf, player, played>>

\* updated(): read again while others have yet to write.
AwaitOthers(m) ==
  /\ pc[m] \in {"turn", "wrote"}
  /\ ~Ready(m)
  /\ EnterInt13(m)
  /\ ReadSector(m, SECTOR_SOPWITH1, 1)
  /\ buf' = [buf EXCEPT ![m] = multio'[m]]
  /\ UNCHANGED <<pipeline, pc, player, played>>

\* multput: it is this player's turn to write its command.
WriteCommand(m, cmd) ==
  LET data == [buf[m] EXCEPT !.key[player[m]] = cmd,
                             !.last_player = player[m]]
  IN  /\ pc[m] = "turn"
      /\ Ready(m)
      /\ EnterInt13(m)
      /\ WriteDataSwap(m, data)
      /\ buf' = [buf EXCEPT ![m] = data]
      /\ Goto(m, "swap")
      /\ UNCHANGED <<player, played>>

\* The write returns from SwapCommand.
CommandWritten(m) ==
  /\ pc[m] = "swap"
  /\ WriteDataReturn(m)
  /\ buf' = [buf EXCEPT ![m] = CopyBack(@, multio'[m])]
  /\ Goto(m, "wrote")
  /\ UNCHANGED <<hooks, player, played>>

\* Everybody has written: the game moves on by one tic.
PlayTic(m) ==
  /\ pc[m] = "wrote"
  /\ Ready(m)
  /\ played' = [played EXCEPT ![m] = Append(@, buf[m].key)]
  /\ Goto(m, "turn")
  /\ UNCHANGED <<pipeline, drive, hooks, buf, player>>

\* Something else on the machine reads or writes the drive: other sectors,
\* or several at once.
OtherAccess(m) ==
  /\ pc[m] \in Setup \cup {"turn", "wrote"}
  /\ \E sector \in SECTOR_BOOT .. SECTOR_SEMAPHOR + 1, cnt \in 0 .. 2 :
       /\ cnt = 1 => sector # SECTOR_SOPWITH1
       /\ \/ EnterInt25(m) /\ ReadSector(m, sector, cnt)
          \/ /\ EnterInt26(m)
             /\ ~Writable(sector, cnt)
             /\ UNCHANGED drive
  /\ UNCHANGED <<pipeline, sopwith>>

\* Sopwith ends, main() returns and atexit restores the interrupts.
Exit(m) ==
  /\ pc[m] = "turn"
  /\ m \in MayQuit \/ Len(played[m]) = MaxTic
  /\ RestoreDiskInterrupts(m)
  /\ Goto(m, "exited")
  /\ UNCHANGED <<pipeline, drive, buf, player, played>>

\* One step of Sopwith itself.
Step(m) ==
  \/ Launch(m) \/ Open(m) \/ DkioSet(m)
  \/ ReadLock(m) \/ SetLock(m) \/ CheckLock(m)
  \/ ReadGame(m) \/ JoinGame(m) \/ Unlock(m) \/ StartPlay(m)
  \/ AwaitOthers(m)
  \/ \E cmd \in Cmd : WriteCommand(m, cmd)
  \/ CommandWritten(m)
  \/ PlayTic(m)

Next == \E m \in Node : Step(m) \/ Gather(m) \/ OtherAccess(m) \/ Exit(m)

Spec == Init /\ [][Next]_vars

\* Sopwith does not stop by itself, and SwapCommand returns when it can
\* (Protocol's GameGoesOn).
FairSpec == Spec /\ \A m \in Node : WF_vars(Step(m))

-----------------------------------------------------------------------------
(* Properties.                                                             *)

\* Every variable has its type; Sopwith never takes a player number that is
\* out of range.
TypeOK ==
  /\ DiskTypeOK
  /\ pc \in [Node -> {"start", "exited"} \cup Setup \cup InGame]
  /\ buf \in [Node -> Multio]
  /\ player \in [Node -> Player \cup {-1}]
  /\ played \in [Node -> Seq([Player -> Cmd])]

\* Every machine plays the same game: tic t is played with the commands the
\* players gave for it, each in its player's slot, and with none for the
\* players that -fakeplayers makes up.  (WriteData's keys, ReadData's turn
\* and the copy back to Sopwith's buffer.)
SameGame ==
  \A m \in Node : \A t \in 1 .. Len(played[m]) : \A p \in 0 .. num_players - 1 :
    played[m][t][p] = IF p \in Node THEN log[p][t] ELSE 0

\* Every machine starts the same game: Sopwith takes the player number of
\* the machine, believes in as many players as there are, uses the common
\* seed and runs with its memory patched.  (ReadData's and WriteData's
\* STATE_INIT, ReadData's comment on num_players = 1.)
SameStart ==
  \A m \in Node : pc[m] \in InGame =>
    /\ player[m] = m
    /\ buf[m].max_players = num_players
    /\ buf[m].num_players = num_players
    /\ buf[m].explseed = EXPL_RANDOM_SEED
    /\ patched[m]

\* The machine's disk interrupts: during the game int 13h is the emulated
\* drive's although Sopwith took it, and afterwards every vector is what it
\* was before.  (Int25, Int26, RestoreDiskInterrupts.)
VectorsRight ==
  \A m \in Node :
    /\ pc[m] \in InGame => vect[m]["int13"] = "imaginot"
    /\ pc[m] = "exited" => \A v \in Vector : vect[m][v] = "bios"

\* Nobody waits for ever: with everybody's commands arriving, every machine
\* gets through the setup, never polls in vain for a turn that does not
\* come, and plays every tic, unless somebody leaves before the last one.
EverybodyPlays ==
  LET Left == \E n \in Node : pc[n] = "exited" /\ Len(played[n]) < MaxTic
  IN  \A m \in Node : <>(Len(played[m]) = MaxTic \/ Left)
=============================================================================
