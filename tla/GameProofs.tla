----------------------------- MODULE GameProofs -----------------------------
(***************************************************************************)
(* Proofs about Game, for any number of machines, players and tics.        *)
(***************************************************************************)
EXTENDS Game, TLAPS

Known == {"unlock", "gather"} \cup InGame \cup {"exited"}

\* A machine's log is DELAY - 1 commands longer than its game, and one more
\* while a command is being swapped; no log is shorter than any game.
Pipelined ==
  /\ \A m \in Node :
       Len(log[m]) = IF pc[m] = "swap" THEN tic[m] + DELAY
                     ELSE tic[m] + DELAY - 1
  /\ \A m \in Node : pc[m] = "swap" => tic[m] < MaxTic
  /\ \A m, n \in Node : tic[m] <= Len(log[n])

\* The commands of tic t in the slots that count.
CommandsOf(keys, t) ==
  \A p \in 0 .. num_players - 1 :
    keys[p] = IF p \in Node THEN log[p][t] ELSE 0

\* A machine that has swapped but not yet played holds the commands of the
\* tic it has run, and need not read again.
HoldingAt(m) ==
  /\ Len(played[m]) = IF pc[m] = "wrote" THEN tic[m] - 1 ELSE tic[m]
  /\ pc[m] = "wrote" => /\ CommandsOf(buf[m].key, tic[m])
                        /\ tic[m] > 0
                        /\ buf[m].last_player = num_players - 1

\* What Sopwith knows of the game once it has read the file, and what the
\* disk holds once it has joined.
Agreed(d) == /\ d.max_players = num_players
             /\ d.num_players = num_players
             /\ d.explseed = EXPL_RANDOM_SEED

\* The file as it was read, not yet joined.
Invited(m, d) ==
  /\ d.max_players = num_players
  /\ d.num_players = 1
  /\ d.explseed = EXPL_RANDOM_SEED
  /\ \A p \in 0 .. num_players - 1 :
       d.state[p] = IF p < m THEN PLAYER_FLYING ELSE PLAYER_WAITING

JoiningAt(m) ==
  /\ state[m] = "INIT" <=> pc[m] \notin Known
  /\ pc[m] = "post" => Invited(m, buf[m])
  /\ pc[m] \in Known => player[m] = m /\ Agreed(buf[m]) /\ Agreed(multio[m])

\* The vectors and the patch along the way.
HookedAt(m) ==
  /\ pc[m] \in {"start", "exited"} => \A v \in Vector : vect[m][v] = "bios"
  /\ hooked[m] <=> pc[m] \notin {"start", "exited"}
  /\ hooked[m] => \A v \in Vector : old_vect[m][v] = "bios"
  /\ pc[m] \notin {"start", "open", "dkioset", "lock", "exited"} =>
       vect[m]["int13"] = "imaginot" /\ patched[m]

\* The inductive invariant.
Inv == /\ TypeOK
       /\ Pipelined
       /\ \A m \in Node : HoldingAt(m) /\ JoiningAt(m) /\ HookedAt(m)
       /\ SameGame

-----------------------------------------------------------------------------
(* The constants, and the operators on the data sector.                    *)

\* Player numbers: machines are players, and players fit the sector.
LEMMA Numbers ==
  /\ num_players \in Nat /\ num_players > 1
  /\ NumNodes <= num_players /\ num_players <= MAX_PLAYERS
  /\ Node \subseteq Player /\ 0 .. num_players - 1 \subseteq Player
  /\ Node \subseteq 0 .. num_players - 1
  /\ Node \subseteq Nat
BY PlayersAssumption DEF num_players, Node, Player

\* What ReadData and WriteData make of a legal sector is a legal sector.
LEMMA InvitationType ==
  ASSUME NEW m \in Node, NEW d \in Multio
  PROVE  Invitation(m, d) \in Multio
BY ZenonT(60), Numbers DEF Invitation, Multio, PLAYER_FLYING, PLAYER_WAITING,
               EXPL_RANDOM_SEED

\* So is the sector that announces a turn,
LEMMA YourTurnType ==
  ASSUME NEW m \in Node, NEW d \in Multio
  PROVE  YourTurn(m, d) \in Multio
<1>1. (m + num_players - 1) % num_players \in Nat
  BY Numbers
<1>2. QED
  BY <1>1 DEF YourTurn, Multio

\* the one in which everybody has joined,
LEMMA AllReadyType ==
  ASSUME NEW d \in Multio
  PROVE  AllReady(d) \in Multio
<1>1. num_players \in Nat /\ num_players - 1 \in Nat
  BY Numbers
<1>2. [p \in Player |-> IF p < num_players THEN PLAYER_FLYING ELSE d.state[p]]
        \in [Player -> Nat]
  BY DEF PLAYER_FLYING, Multio
<1> QED
  BY <1>1, <1>2 DEF AllReady, Multio

\* and the one in which everybody has written.
LEMMA AllWrittenType ==
  ASSUME NEW d \in Multio, NEW c \in [Player -> Cmd]
  PROVE  AllWritten(d, c) \in Multio
<1>1. num_players - 1 \in Nat
  BY Numbers
<1>2. [p \in Player |-> IF p < num_players THEN c[p] ELSE d.key[p]]
        \in [Player -> Cmd]
  BY DEF Multio
<1> QED
  BY <1>1, <1>2 DEF AllWritten, Multio

\* What Sopwith makes of a legal sector is one, too: joining,
LEMMA JoinedType ==
  ASSUME NEW d \in Multio, NEW p \in Player
  PROVE  Joined(d, p) \in Multio
<1>1. /\ [d.key EXCEPT ![p] = 0] \in [Player -> Cmd]
      /\ [d.state EXCEPT ![p] = PLAYER_FLYING] \in [Player -> Nat]
      /\ d.num_players + 1 \in Nat
      /\ p \in Nat
  BY PipelineAssumption DEF Multio, PLAYER_FLYING, Player
<1>2. Joined(d, p) = [d EXCEPT !.num_players = d.num_players + 1,
                               !.key = [d.key EXCEPT ![p] = 0],
                               !.state = [d.state EXCEPT ![p] = PLAYER_FLYING],
                               !.last_player = p]
  BY DEF Joined, Multio
<1> QED
  BY <1>1, <1>2 DEF Multio

\* being the first,
LEMMA ChosenType ==
  ASSUME NEW m \in Node, NEW d \in Multio
  PROVE  Chosen(m, d) \in Multio
BY PlayersAssumption, Numbers DEF Chosen, Multio

\* and writing a command.
LEMMA WrittenType ==
  ASSUME NEW d \in Multio, NEW p \in Player, NEW c \in Cmd
  PROVE  [d EXCEPT !.key[p] = c, !.last_player = p] \in Multio
<1>1. [d.key EXCEPT ![p] = c] \in [Player -> Cmd] /\ p \in Nat
  BY DEF Multio, Player
<1>2. [d EXCEPT !.key[p] = c, !.last_player = p]
        = [d EXCEPT !.key = [d.key EXCEPT ![p] = c], !.last_player = p]
  BY DEF Multio
<1> QED
  BY <1>1, <1>2 DEF Multio

\* Whoever is invited finds its own number free.
LEMMA InvitedNumber ==
  ASSUME NEW m \in Node, NEW d \in Multio, Invited(m, d)
  PROVE  FreeNumber(d) = m
<1>1. /\ d.state[m] # PLAYER_FLYING
      /\ \A q \in 0 .. m - 1 : d.state[q] = PLAYER_FLYING
  BY Numbers DEF Invited, PLAYER_FLYING, PLAYER_WAITING, Node
<1>2. ASSUME NEW p \in Player, p # m,
             d.state[p] # PLAYER_FLYING,
             \A q \in 0 .. p - 1 : d.state[q] = PLAYER_FLYING
      PROVE  FALSE
  <2>1. p < m \/ m < p
    BY <1>2, Numbers DEF Player
  <2>2. QED
    BY <1>1, <1>2, <2>1, Numbers DEF Player
<1>3. QED
  BY <1>1, <1>2, Numbers, Zenon DEF FreeNumber

\* What ReadData shows in STATE_INIT is an invitation that leaves Sopwith
\* nothing to choose.
LEMMA InvitationInvites ==
  ASSUME NEW m \in Node, NEW d \in Multio
  PROVE  Invited(m, Invitation(m, d)) /\ Chosen(m, Invitation(m, d))
                                          = Invitation(m, d)
BY Numbers DEF Invited, Invitation, Chosen, Multio

\* Once the invited player has joined, the game is complete.
LEMMA JoinAgrees ==
  ASSUME NEW m \in Node, NEW d \in Multio, Invited(m, d)
  PROVE  Agreed(AllReady(Joined(d, m)))
BY Numbers DEF Agreed, AllReady, Joined, Invited, Multio

-----------------------------------------------------------------------------
(* What the parts of a step do to machine m and leave to the others.       *)

\* The types of one machine's variables.
LEMMA AtMachine ==
  ASSUME TypeOK, NEW m \in Node
  PROVE  /\ log[m] \in Seq(Cmd) /\ Len(log[m]) \in Nat
         /\ tic[m] \in Nat
         /\ out[m] \in [Player -> Cmd]
         /\ multio[m] \in Multio /\ buf[m] \in Multio
         /\ played[m] \in Seq([Player -> Cmd]) /\ Len(played[m]) \in Nat
<1>1. /\ log[m] \in Seq(Cmd) /\ tic[m] \in 0 .. MaxTic
      /\ out[m] \in [Player -> Cmd]
      /\ multio[m] \in Multio /\ buf[m] \in Multio
      /\ played[m] \in Seq([Player -> Cmd])
  BY DEF TypeOK, DiskTypeOK
<1> QED
  BY <1>1, PipelineAssumption

\* Announcing a turn changes nothing about the game.
LEMMA YourTurnAgrees ==
  ASSUME NEW m \in Node, NEW d \in Multio, Agreed(d)
  PROVE  Agreed(YourTurn(m, d))
BY DEF Agreed, YourTurn, Multio

\* Reading a sector.
LEMMA Reading ==
  ASSUME TypeOK, NEW m \in Node, NEW sector, NEW cnt,
         ReadSector(m, sector, cnt)
  PROVE  /\ multio' \in [Node -> Multio]
         /\ state' \in [Node -> {"INIT", "WAITING_READ", "WAITING_WRITE"}]
         /\ locked' = locked
         /\ state'[m] = "INIT" <=> state[m] = "INIT"
         /\ state[m] # "INIT" /\ Agreed(multio[m]) => Agreed(multio'[m])
         /\ \A n \in Node \ {m} : multio'[n] = multio[n] /\ state'[n] = state[n]
<1>1. CASE UNCHANGED drive
  BY <1>1 DEF drive, TypeOK, DiskTypeOK
<1>2. CASE ReadData(m)
  <2>1. /\ multio[m] \in Multio
        /\ Invitation(m, multio[m]) \in Multio
        /\ YourTurn(m, multio[m]) \in Multio
        /\ Agreed(multio[m]) => Agreed(YourTurn(m, multio[m]))
    BY AtMachine, InvitationType, YourTurnType, YourTurnAgrees
  <2>2. multio \in [Node -> Multio]
        /\ state \in [Node -> {"INIT", "WAITING_READ", "WAITING_WRITE"}]
    BY DEF TypeOK, DiskTypeOK
  <2> QED
    BY <1>2, <2>1, <2>2 DEF ReadData
<1> QED
  BY <1>1, <1>2 DEF ReadSector

\* Entering one of the interrupts.
LEMMA Entering ==
  ASSUME TypeOK, NEW m \in Node,
         EnterInt25(m) \/ EnterInt26(m) \/ EnterInt13(m)
  PROVE  /\ vect' \in [Node -> [Vector -> {"bios", "imaginot", "sopwith"}]]
         /\ old_vect' = old_vect /\ hooked' = hooked
         /\ patched' \in [Node -> BOOLEAN]
         /\ vect'[m]["int13"] = "imaginot"
         /\ EnterInt25(m) \/ patched[m] => patched'[m]
         /\ \A n \in Node \ {m} : vect'[n] = vect[n] /\ patched'[n] = patched[n]
<1>1. /\ vect \in [Node -> [Vector -> {"bios", "imaginot", "sopwith"}]]
      /\ patched \in [Node -> BOOLEAN]
      /\ "int13" \in Vector
  BY DEF TypeOK, DiskTypeOK, Vector
<1>2. CASE EnterInt13(m)
  <2>1. /\ UNCHANGED <<vect, old_vect, hooked, patched>>
        /\ vect[m]["int13"] = "imaginot"
        /\ ~EnterInt25(m) \/ patched'[m]
    BY <1>1, <1>2 DEF EnterInt13, hooks, EnterInt25
  <2> QED
    BY <1>1, <2>1
<1>3. CASE EnterInt25(m) \/ EnterInt26(m)
  <2>1. TakeInt13(m)
    BY <1>3 DEF EnterInt25, EnterInt26
  <2>2. /\ vect' \in [Node -> [Vector -> {"bios", "imaginot", "sopwith"}]]
        /\ vect'[m]["int13"] = "imaginot"
        /\ \A n \in Node \ {m} : vect'[n] = vect[n]
    BY <1>1, <2>1 DEF TakeInt13
  <2>3. old_vect' = old_vect /\ hooked' = hooked
    BY <1>3 DEF EnterInt25, EnterInt26
  <2>4. patched' = patched \/ patched' = [patched EXCEPT ![m] = TRUE]
    BY <1>3 DEF EnterInt25, EnterInt26
  <2>5. EnterInt25(m) => patched'[m]
    BY <1>1 DEF EnterInt25
  <2>6. /\ patched' \in [Node -> BOOLEAN]
        /\ patched[m] => patched'[m]
        /\ \A n \in Node \ {m} : patched'[n] = patched[n]
    BY <1>1, <2>4
  <2> QED
    BY <2>2, <2>3, <2>5, <2>6, Zenon
<1> QED
  BY <1>2, <1>3

-----------------------------------------------------------------------------
(* One step of machine m.                                                  *)

Acts(m) == Step(m) \/ Gather(m) \/ OtherAccess(m) \/ Exit(m)

\* A step that swaps and plays nothing.
Quiet(m) ==
  /\ UNCHANGED <<log, tic, out, played>>
  /\ pc[m] # "swap" /\ pc'[m] # "swap"
  /\ pc'[m] = "wrote" <=> pc[m] = "wrote"
  /\ pc[m] = "wrote" => buf'[m] = buf[m]

\* Sopwith has nothing to wait for after it has written.
LEMMA NoWaitAfterWrite ==
  ASSUME Inv, NEW m \in Node, pc[m] = "wrote"
  PROVE  Ready(m)
<1>1. buf[m].last_player = num_players - 1 /\ buf[m].max_players = num_players
  BY DEF Inv, HoldingAt, JoiningAt, Agreed, Known, InGame
<1> QED
  BY <1>1 DEF Ready, Updated

\* A write that starts a swap.
LEMMA Giving ==
  ASSUME Inv, NEW m \in Node, NEW cmd \in Cmd, WriteCommand(m, cmd)
  PROVE  /\ log' = [log EXCEPT ![m] = Append(@, cmd)]
         /\ tic[m] < MaxTic
         /\ UNCHANGED <<tic, out, played, state, locked, player>>
         /\ multio'[m] \in Multio /\ Agreed(multio'[m])
         /\ multio' = [multio EXCEPT ![m] = multio'[m]]
         /\ buf' = [buf EXCEPT ![m] = multio'[m]]
         /\ pc[m] = "turn" /\ pc' = [pc EXCEPT ![m] = "swap"]
         /\ UNCHANGED <<vect, old_vect, hooked, patched>>
<1> DEFINE data == [buf[m] EXCEPT !.key[player[m]] = cmd,
                                  !.last_player = player[m]]
<1>1. player[m] = m /\ Agreed(buf[m]) /\ pc[m] = "turn"
  BY DEF WriteCommand, Inv, JoiningAt, Known, InGame
<1>2. buf[m] \in Multio /\ multio \in [Node -> Multio]
  BY DEF Inv, TypeOK, DiskTypeOK
<1>3. m \in Player
  BY Numbers
<1>4. data \in Multio
  BY <1>1, <1>2, <1>3, WrittenType
<1>5. Agreed(data)
  BY <1>1, <1>2 DEF Agreed, Multio
<1>6. data.key[m] = cmd
  BY <1>1, <1>2, <1>3 DEF Multio
<1>7. /\ multio' = [multio EXCEPT ![m] = data]
      /\ Swap!Give(m, data.key[m])
      /\ buf' = [buf EXCEPT ![m] = data]
      /\ pc' = [pc EXCEPT ![m] = "swap"]
      /\ UNCHANGED <<state, locked, player, played>>
      /\ UNCHANGED <<vect, old_vect, hooked, patched>>
  BY Zenon DEF WriteCommand, WriteDataSwap, EnterInt13, hooks, Goto
<1> HIDE DEF data
<1>8. multio'[m] = data
  BY <1>2, <1>7
<1> QED
  BY <1>1, <1>2, <1>4, <1>5, <1>6, <1>7, <1>8 DEF Swap!Give

\* A write that returns from the swap.
LEMMA Running ==
  ASSUME Inv, NEW m \in Node, CommandWritten(m)
  PROVE  /\ UNCHANGED <<log, played, player, locked>>
         /\ tic' = [tic EXCEPT ![m] = @ + 1]
         /\ out'[m] \in [Player -> Cmd] /\ out' = [out EXCEPT ![m] = out'[m]]
         /\ tic[m] + 1 \in 0 .. MaxTic
         /\ Len(log[m]) = tic[m] + DELAY
         /\ \A n \in Node : Len(log[n]) > tic[m]
         /\ multio'[m] \in Multio /\ Agreed(multio'[m])
         /\ multio' = [multio EXCEPT ![m] = multio'[m]]
         /\ buf' = [buf EXCEPT ![m] = multio'[m]]
         /\ CommandsOf(multio'[m].key, tic[m] + 1)
         /\ multio'[m].last_player = num_players - 1
         /\ state' = [state EXCEPT ![m] = "WAITING_READ"]
         /\ pc[m] = "swap" /\ pc' = [pc EXCEPT ![m] = "wrote"]
         /\ UNCHANGED <<vect, old_vect, hooked, patched>>

<1>1. player[m] = m /\ Agreed(multio[m]) /\ pc[m] = "swap"
  BY DEF CommandWritten, Inv, JoiningAt, Known, InGame
<1>2. /\ multio \in [Node -> Multio] /\ out \in [Node -> [Player -> Cmd]]
      /\ log \in [Node -> Seq(Cmd)] /\ tic \in [Node -> 0 .. MaxTic]
  BY DEF Inv, TypeOK, DiskTypeOK
<1>3. /\ Swap!Run(m)
      /\ multio' = [multio EXCEPT ![m] = AllWritten(multio[m], out'[m])]
      /\ buf' = [buf EXCEPT ![m] = multio'[m]]
      /\ pc' = [pc EXCEPT ![m] = "wrote"]
      /\ state' = [state EXCEPT ![m] = "WAITING_READ"]
      /\ UNCHANGED <<locked, player, played>>
      /\ UNCHANGED <<vect, old_vect, hooked, patched>>
  BY <1>2 DEF CommandWritten, WriteDataReturn, CopyBack, hooks, Goto
<1>4. /\ Len(log[m]) = tic[m] + DELAY
      /\ \A n \in Node : Len(log[n]) > tic[m]
      /\ UNCHANGED log
      /\ tic' = [tic EXCEPT ![m] = @ + 1]
      /\ out' = [out EXCEPT ![m] = [p \in Player |->
                  IF p \in Node THEN log[p][tic[m] + 1] ELSE 0]]
  BY <1>3 DEF Swap!Run
<1>5. out'[m] = [p \in Player |-> IF p \in Node THEN log[p][tic[m] + 1] ELSE 0]
  BY <1>2, <1>4
<1>6. \A p \in Node : log[p][tic[m] + 1] \in Cmd
  <2> TAKE p \in Node
  <2>1. log[p] \in Seq(Cmd) /\ tic[m] \in Nat /\ Len(log[p]) > tic[m]
    BY <1>2, <1>4, PipelineAssumption
  <2>2. tic[m] + 1 \in 1 .. Len(log[p])
    BY <2>1
  <2> QED
    BY <2>1, <2>2
<1>7. out'[m] \in [Player -> Cmd]
  BY <1>5, <1>6, PipelineAssumption
<1>8. multio'[m] = AllWritten(multio[m], out'[m]) /\ multio[m] \in Multio
  BY <1>2, <1>3
<1>9. multio'[m] \in Multio
  BY <1>7, <1>8, AllWrittenType
<1>10. /\ Agreed(multio'[m])
       /\ multio'[m].last_player = num_players - 1
       /\ \A p \in Player : p < num_players =>
            multio'[m].key[p] = out'[m][p]
  BY <1>1, <1>8 DEF Agreed, AllWritten, Multio
<1>11. CommandsOf(multio'[m].key, tic[m] + 1)
  BY <1>5, <1>10, Numbers DEF CommandsOf
<1>12. tic[m] + 1 \in 0 .. MaxTic
  BY <1>1, <1>2, PipelineAssumption DEF Inv, Pipelined
<1> QED
  BY <1>1, <1>2, <1>3, <1>4, <1>5, <1>7, <1>9, <1>10, <1>11, <1>12

\* Every step is one of four kinds.
LEMMA Kinds ==
  ASSUME Inv, NEW m \in Node, Acts(m)
  PROVE  \/ Quiet(m)
         \/ \E cmd \in Cmd : WriteCommand(m, cmd)
         \/ CommandWritten(m)
         \/ PlayTic(m)
<1>1. pc \in [Node -> {"start", "exited"} \cup Setup \cup InGame]
      /\ buf \in [Node -> Multio]
  BY DEF Inv, TypeOK
<1>2. ASSUME Launch(m) \/ Open(m) \/ DkioSet(m) PROVE Quiet(m)
  BY <1>1, <1>2 DEF Launch, Open, DkioSet, Quiet, Goto, pipeline
<1>3. ASSUME ReadLock(m) \/ SetLock(m) \/ CheckLock(m) PROVE Quiet(m)
  BY <1>1, <1>3 DEF ReadLock, SetLock, CheckLock, Quiet, Goto, pipeline
<1>4. ASSUME ReadGame(m) \/ JoinGame(m) \/ Unlock(m) \/ StartPlay(m)
      PROVE  Quiet(m)
  BY <1>1, <1>4 DEF ReadGame, JoinGame, Unlock, StartPlay, Quiet, Goto,
                    pipeline
<1>5. ASSUME AwaitOthers(m) PROVE Quiet(m)
  <2>1. pc[m] = "turn" /\ UNCHANGED <<pc, log, tic, out, played>>
    BY <1>5, NoWaitAfterWrite DEF AwaitOthers, pipeline
  <2> QED
    BY <2>1 DEF Quiet
<1>6. ASSUME Gather(m) \/ OtherAccess(m) \/ Exit(m) PROVE Quiet(m)
  BY <1>1, <1>6 DEF Gather, OtherAccess, Exit, Quiet, Goto, pipeline, sopwith,
                    Setup
<1> QED
  BY <1>2, <1>3, <1>4, <1>5, <1>6 DEF Acts, Step

\* A step of m leaves the other machines alone.
LEMMA Frame ==
  ASSUME Inv, NEW m \in Node, Acts(m), NEW n \in Node, n # m
  PROVE  /\ tic'[n] = tic[n] /\ log'[n] = log[n] /\ played'[n] = played[n]
         /\ state'[n] = state[n] /\ multio'[n] = multio[n]
         /\ vect'[n] = vect[n] /\ old_vect'[n] = old_vect[n]
         /\ hooked'[n] = hooked[n] /\ patched'[n] = patched[n]
         /\ pc'[n] = pc[n] /\ buf'[n] = buf[n] /\ player'[n] = player[n]
<1>1. TypeOK
  BY DEF Inv
<1>2. /\ log'[n] = log[n] /\ tic'[n] = tic[n] /\ played'[n] = played[n]
  <2>1. CASE Quiet(m)
    BY <2>1 DEF Quiet
  <2>2. ASSUME NEW cmd \in Cmd, WriteCommand(m, cmd)
        PROVE  log'[n] = log[n] /\ tic'[n] = tic[n] /\ played'[n] = played[n]
    BY <1>1, <2>2, Giving DEF TypeOK, DiskTypeOK
  <2>3. CASE CommandWritten(m)
    BY <1>1, <2>3, Running DEF TypeOK, DiskTypeOK
  <2>4. CASE PlayTic(m)
    BY <1>1, <2>4 DEF PlayTic, pipeline, TypeOK
  <2> QED
    BY <2>1, <2>2, <2>3, <2>4, Kinds
<1> DEFINE Rest == /\ state'[n] = state[n] /\ multio'[n] = multio[n]
                   /\ vect'[n] = vect[n] /\ old_vect'[n] = old_vect[n]
                   /\ hooked'[n] = hooked[n] /\ patched'[n] = patched[n]
                   /\ pc'[n] = pc[n] /\ buf'[n] = buf[n]
                   /\ player'[n] = player[n]
<1>3. ASSUME Launch(m) \/ DkioSet(m) \/ StartPlay(m) \/ Exit(m) PROVE Rest
  BY <1>1, <1>3 DEF Launch, DkioSet, StartPlay, Exit, HookDiskInterrupts,
                    RestoreDiskInterrupts, Goto, drive, hooks, TypeOK,
                    DiskTypeOK
<1>4. ASSUME SetLock(m) \/ Unlock(m) PROVE Rest
  BY <1>1, <1>4, Entering DEF SetLock, Unlock, WriteSemaphore, Goto, TypeOK
<1>5. ASSUME Open(m) \/ ReadLock(m) \/ CheckLock(m) PROVE Rest
  BY <1>1, <1>5, Entering, Reading DEF Open, ReadLock, CheckLock, Goto, TypeOK
<1>6. ASSUME ReadGame(m) \/ Gather(m) \/ AwaitOthers(m) PROVE Rest
  BY <1>1, <1>6, Entering, Reading DEF ReadGame, Gather, AwaitOthers, Goto,
                                       TypeOK
<1>7. ASSUME JoinGame(m) PROVE Rest
  BY SMTT(30), <1>1, <1>7, Entering DEF JoinGame, WriteDataInit, Goto, TypeOK, DiskTypeOK
<1>8. ASSUME NEW cmd \in Cmd, WriteCommand(m, cmd) PROVE Rest
  BY <1>1, <1>8, Giving DEF TypeOK, DiskTypeOK
<1>9. ASSUME CommandWritten(m) PROVE Rest
  BY <1>1, <1>9, Running DEF TypeOK, DiskTypeOK
<1>10. ASSUME PlayTic(m) PROVE Rest
  BY <1>1, <1>10 DEF PlayTic, drive, hooks, Goto, TypeOK
<1>11. ASSUME OtherAccess(m) PROVE Rest
  <2>1. UNCHANGED <<pc, buf, player>>
    BY <1>11 DEF OtherAccess, sopwith
  <2>2. \/ EnterInt25(m) /\ \E s, c : ReadSector(m, s, c)
        \/ EnterInt26(m) /\ UNCHANGED <<state, multio>>
    BY <1>11, Zenon DEF OtherAccess, drive
  <2> QED
    BY <1>1, <2>1, <2>2, Entering, Reading
<1> QED
  BY <1>2, <1>3, <1>4, <1>5, <1>6, <1>7, <1>8, <1>9, <1>10, <1>11
     DEF Acts, Step

\* TypeOK by the parts of the machine.
DriveType ==
  /\ state \in [Node -> {"INIT", "WAITING_READ", "WAITING_WRITE"}]
  /\ locked \in [Node -> BOOLEAN]
  /\ multio \in [Node -> Multio]

HooksType ==
  /\ vect \in [Node -> [Vector -> {"bios", "imaginot", "sopwith"}]]
  /\ old_vect \in [Node -> [Vector -> {"none", "bios"}]]
  /\ hooked \in [Node -> BOOLEAN]
  /\ patched \in [Node -> BOOLEAN]

PipelineType ==
  /\ log \in [Node -> Seq(Cmd)]
  /\ tic \in [Node -> 0 .. MaxTic]
  /\ out \in [Node -> [Player -> Cmd]]

SopwithType ==
  /\ pc \in [Node -> {"start", "exited"} \cup Setup \cup InGame]
  /\ buf \in [Node -> Multio]
  /\ player \in [Node -> Player \cup {-1}]
  /\ played \in [Node -> Seq([Player -> Cmd])]

\* Entering an interrupt keeps the types of the vectors.
LEMMA EnteringType ==
  ASSUME TypeOK, NEW m \in Node,
         EnterInt25(m) \/ EnterInt26(m) \/ EnterInt13(m)
  PROVE  HooksType'
BY Entering DEF HooksType, TypeOK, DiskTypeOK

\* Reading keeps the types of the drive.
LEMMA ReadingType ==
  ASSUME TypeOK, NEW m \in Node, NEW sector, NEW cnt,
         ReadSector(m, sector, cnt)
  PROVE  DriveType'
BY Reading DEF DriveType, TypeOK, DiskTypeOK

\* Every step keeps the types.
LEMMA TypeStep ==
  ASSUME Inv, NEW m \in Node, Acts(m)
  PROVE  TypeOK'
<1>1. TypeOK
  BY DEF Inv
<1>2. m \in Player /\ player[m] \in Player \cup {-1}
  BY <1>1, Numbers DEF TypeOK
<1>3. ASSUME Launch(m) PROVE TypeOK'
  <2>1. \A v \in Vector : vect[m][v] = "bios"
    BY <1>3 DEF Launch, Inv, HookedAt
  <2>2. vect[m] \in [Vector -> {"none", "bios"}]
    BY <1>1, <2>1 DEF TypeOK, DiskTypeOK
  <2> QED
    BY <1>1, <1>3, <2>2 DEF Launch, HookDiskInterrupts, Goto, pipeline, drive,
                            TypeOK, DiskTypeOK, Setup
<1>4. ASSUME DkioSet(m) \/ StartPlay(m) PROVE TypeOK'
  <2>1. UNCHANGED <<log, tic, out, state, locked, multio, buf, player, played>>
    BY <1>4 DEF DkioSet, StartPlay, pipeline, drive
  <2>2. SopwithType'
    BY <1>1, <1>4, <2>1 DEF DkioSet, StartPlay, Goto, TypeOK, SopwithType,
                            Setup, InGame
  <2>3. HooksType'
    <3>1. CASE DkioSet(m)
      BY <1>1, <3>1 DEF DkioSet, TypeOK, DiskTypeOK, HooksType
    <3>2. CASE StartPlay(m)
      BY <1>1, <3>2 DEF StartPlay, hooks, TypeOK, DiskTypeOK, HooksType
    <3> QED
      BY <1>4, <3>1, <3>2
  <2>4. PipelineType' /\ DriveType'
    BY <1>1, <2>1 DEF TypeOK, DiskTypeOK, PipelineType, DriveType
  <2> QED
    BY <2>2, <2>3, <2>4
       DEF TypeOK, DiskTypeOK, DriveType, HooksType, PipelineType, SopwithType
<1>5. ASSUME Exit(m) PROVE TypeOK'
  <2>1. hooked[m] /\ \A v \in Vector : old_vect[m][v] = "bios"
    BY <1>5 DEF Exit, RestoreDiskInterrupts, Inv, HookedAt
  <2>2. old_vect[m] \in [Vector -> {"bios", "imaginot", "sopwith"}]
    BY <1>1, <2>1 DEF TypeOK, DiskTypeOK
  <2> QED
    BY <1>1, <1>5, <2>2 DEF Exit, RestoreDiskInterrupts, Goto, pipeline, drive,
                            TypeOK, DiskTypeOK
<1>6. ASSUME SetLock(m) \/ Unlock(m) PROVE TypeOK'
  <2>1. EnterInt26(m) /\ UNCHANGED <<log, tic, out, buf, player, played>>
    BY <1>6 DEF SetLock, Unlock, pipeline
  <2>2. SopwithType'
    BY <1>1, <1>6, <2>1 DEF SetLock, Unlock, Goto, TypeOK, SopwithType, Setup
  <2>3. DriveType'
    <3>1. /\ UNCHANGED <<state, multio>>
          /\ \/ locked' = [locked EXCEPT ![m] = TRUE]
             \/ locked' = [locked EXCEPT ![m] = FALSE]
      BY <1>6 DEF SetLock, Unlock, WriteSemaphore
    <3> QED
      BY <1>1, <3>1 DEF TypeOK, DiskTypeOK, DriveType
  <2>4. PipelineType'
    BY <1>1, <2>1 DEF TypeOK, DiskTypeOK, PipelineType
  <2> QED
    BY <1>1, <2>1, <2>2, <2>3, <2>4, EnteringType
       DEF TypeOK, DiskTypeOK, DriveType, HooksType, PipelineType, SopwithType
<1>7. ASSUME Open(m) \/ ReadLock(m) \/ CheckLock(m) PROVE TypeOK'
  <2>1. /\ EnterInt25(m) /\ \E s : ReadSector(m, s, 1)
        /\ UNCHANGED <<log, tic, out, buf, player, played>>
    BY <1>7 DEF Open, ReadLock, CheckLock, pipeline
  <2>2. SopwithType'
    BY <1>1, <1>7, <2>1 DEF Open, ReadLock, CheckLock, Goto, TypeOK,
                            SopwithType, Setup
  <2>3. PipelineType'
    BY <1>1, <2>1 DEF TypeOK, DiskTypeOK, PipelineType
  <2> QED
    BY <1>1, <2>1, <2>2, <2>3, EnteringType, ReadingType
       DEF TypeOK, DiskTypeOK, DriveType, HooksType, PipelineType, SopwithType
<1>8. ASSUME ReadGame(m) PROVE TypeOK'
  <2>1. multio' \in [Node -> Multio]
    BY <1>1, <1>8, Reading DEF ReadGame
  <2>2. Chosen(m, multio'[m]) \in Multio
    BY <2>1, ChosenType
  <2> QED
    BY <1>1, <1>8, <2>2, Entering, Reading
       DEF ReadGame, Goto, pipeline, TypeOK, DiskTypeOK, Setup
<1>9. ASSUME Gather(m) \/ AwaitOthers(m) PROVE TypeOK'
  <2>1. /\ EnterInt13(m) /\ ReadSector(m, SECTOR_SOPWITH1, 1)
        /\ buf' = [buf EXCEPT ![m] = multio'[m]]
        /\ UNCHANGED <<log, tic, out, pc, player, played>>
    BY <1>9 DEF Gather, AwaitOthers, pipeline
  <2>2. multio'[m] \in Multio
    BY <1>1, <2>1, Reading
  <2>3. SopwithType' /\ PipelineType'
    BY <1>1, <2>1, <2>2 DEF TypeOK, DiskTypeOK, SopwithType, PipelineType
  <2> QED
    BY <1>1, <2>1, <2>3, EnteringType, ReadingType
       DEF TypeOK, DiskTypeOK, DriveType, HooksType, PipelineType, SopwithType
<1>10. ASSUME JoinGame(m) PROVE TypeOK'
  <2>1. FreeNumber(buf[m]) = m
    BY <1>1, <1>10, InvitedNumber DEF JoinGame, Inv, JoiningAt, TypeOK
  <2>2. AllReady(Joined(buf[m], m)) \in Multio
    BY <1>1, <1>2, JoinedType, AllReadyType DEF TypeOK
  <2>3. multio'[m] = AllReady(Joined(buf[m], m)) /\ multio' \in [Node -> Multio]
    BY <1>1, <1>10, <2>1, <2>2 DEF JoinGame, WriteDataInit, TypeOK, DiskTypeOK
  <2> QED
    BY <1>1, <1>2, <1>10, <2>1, <2>2, <2>3, Entering
       DEF JoinGame, WriteDataInit, CopyBack, Goto, pipeline, TypeOK,
           DiskTypeOK, Setup
<1>11. ASSUME NEW cmd \in Cmd, WriteCommand(m, cmd) PROVE TypeOK'
  <2>1. Append(log[m], cmd) \in Seq(Cmd)
    BY <1>1, AtMachine
  <2> QED
    <3>1. PipelineType'
      <4>1. log' = [log EXCEPT ![m] = Append(log[m], cmd)]
            /\ UNCHANGED <<tic, out>>
        BY <1>11, Giving
      <4>2. log' \in [Node -> Seq(Cmd)]
        BY <1>1, <2>1, <4>1 DEF TypeOK, DiskTypeOK
      <4> QED
        BY <1>1, <4>1, <4>2 DEF TypeOK, DiskTypeOK, PipelineType
    <3>2. SopwithType'
      BY <1>1, <1>11, Giving DEF TypeOK, SopwithType, InGame
    <3>3. DriveType' /\ HooksType'
      BY <1>1, <1>11, Giving DEF TypeOK, DiskTypeOK, DriveType, HooksType
    <3> QED
      BY <3>1, <3>2, <3>3
         DEF TypeOK, DiskTypeOK, DriveType, HooksType, PipelineType, SopwithType
<1>12. ASSUME CommandWritten(m) PROVE TypeOK'
  <2>1. PipelineType'
    <3>1. /\ UNCHANGED log
          /\ tic' = [tic EXCEPT ![m] = tic[m] + 1] /\ tic[m] + 1 \in 0 .. MaxTic
          /\ out' = [out EXCEPT ![m] = out'[m]] /\ out'[m] \in [Player -> Cmd]
      BY <1>12, Running
    <3>2. tic' \in [Node -> 0 .. MaxTic] /\ out' \in [Node -> [Player -> Cmd]]
      BY <1>1, <3>1 DEF TypeOK, DiskTypeOK
    <3> QED
      BY <1>1, <3>1, <3>2 DEF TypeOK, DiskTypeOK, PipelineType
  <2>2. SopwithType'
    BY <1>1, <1>12, Running DEF TypeOK, SopwithType, InGame
  <2>3. DriveType' /\ HooksType'
    BY ZenonT(60), <1>1, <1>12, Running DEF TypeOK, DiskTypeOK, DriveType, HooksType
  <2> QED
    BY <2>1, <2>2, <2>3
       DEF TypeOK, DiskTypeOK, DriveType, HooksType, PipelineType, SopwithType
<1>13. ASSUME PlayTic(m) PROVE TypeOK'
  <2>1. Append(played[m], buf[m].key) \in Seq([Player -> Cmd])
    BY <1>1, AtMachine DEF Multio
  <2> QED
    BY <1>1, <1>13, <2>1 DEF PlayTic, Goto, pipeline, drive, hooks, TypeOK,
                             DiskTypeOK, InGame
<1>14. ASSUME OtherAccess(m) PROVE TypeOK'
  <2>1. UNCHANGED <<log, tic, out, pc, buf, player, played>>
    BY <1>14 DEF OtherAccess, sopwith, pipeline
  <2>2. \/ EnterInt25(m) /\ \E s, c : ReadSector(m, s, c)
        \/ EnterInt26(m) /\ UNCHANGED <<state, locked, multio>>
    BY <1>14, Zenon DEF OtherAccess, drive
  <2> QED
    BY SMTT(30), <1>1, <2>1, <2>2, Entering, Reading DEF TypeOK, DiskTypeOK
<1> QED
  BY <1>3, <1>4, <1>5, <1>6, <1>7, <1>8, <1>9, <1>10, <1>11, <1>12, <1>13,
     <1>14 DEF Acts, Step

\* Every step keeps what Sopwith knows of the game.
LEMMA JoiningStep ==
  ASSUME Inv, NEW m \in Node, Acts(m)
  PROVE  \A n \in Node : JoiningAt(n)'
<1>1. TypeOK /\ JoiningAt(m)
  BY DEF Inv
<1>2. ASSUME NEW n \in Node, n # m PROVE JoiningAt(n)'
  BY <1>2, Frame DEF Inv, JoiningAt, Agreed, Invited
<1>3. ASSUME Launch(m) \/ DkioSet(m) PROVE JoiningAt(m)'
  BY <1>1, <1>3 DEF Launch, DkioSet, Goto, drive, TypeOK, JoiningAt, Known,
                    InGame
<1>4. ASSUME StartPlay(m) \/ Exit(m) PROVE JoiningAt(m)'
  BY <1>1, <1>4 DEF StartPlay, Exit, Goto, drive, TypeOK, JoiningAt, Known,
                    InGame, Agreed
<1>5. ASSUME SetLock(m) \/ Unlock(m) PROVE JoiningAt(m)'
  BY <1>1, <1>5 DEF SetLock, Unlock, WriteSemaphore, Goto, TypeOK, JoiningAt,
                    Known, InGame, Agreed
<1>6. ASSUME Open(m) \/ ReadLock(m) \/ CheckLock(m) PROVE JoiningAt(m)'
  <2>1. state'[m] = "INIT" <=> state[m] = "INIT"
    BY <1>1, <1>6, Reading DEF Open, ReadLock, CheckLock
  <2>2. pc[m] \notin Known /\ pc'[m] \notin Known /\ pc'[m] # "post"
    BY <1>1, <1>6 DEF Open, ReadLock, CheckLock, Goto, TypeOK, Known, InGame
  <2> QED
    BY <1>1, <2>1, <2>2 DEF JoiningAt
<1>7. ASSUME ReadGame(m) PROVE JoiningAt(m)'
  <2>1. state[m] = "INIT" /\ pc'[m] = "post"
    BY <1>1, <1>7 DEF ReadGame, Goto, TypeOK, JoiningAt, Known, InGame
  <2>2. ReadData(m)
    BY <1>7 DEF ReadGame, ReadSector, Readable, SECTOR_SOPWITH1
  <2>3. state' = state /\ multio'[m] = Invitation(m, multio[m])
    BY <1>1, <2>1, <2>2 DEF ReadData, TypeOK, DiskTypeOK
  <2>4. buf'[m] = Invitation(m, multio[m]) /\ Invited(m, buf'[m])
    BY <1>1, <1>7, <2>3, InvitationInvites, AtMachine DEF ReadGame, TypeOK
  <2> QED
    BY <2>1, <2>3, <2>4 DEF JoiningAt, Known, InGame, Invited
<1>8. ASSUME JoinGame(m) PROVE JoiningAt(m)'
  <2>1. Invited(m, buf[m]) /\ buf[m] \in Multio
    BY <1>1, <1>8, AtMachine DEF JoinGame, JoiningAt
  <2>2. FreeNumber(buf[m]) = m /\ Agreed(AllReady(Joined(buf[m], m)))
    BY <2>1, InvitedNumber, JoinAgrees
  <2>3. /\ multio'[m] = AllReady(Joined(buf[m], m)) /\ buf'[m] = multio'[m]
        /\ player'[m] = m /\ state'[m] = "WAITING_READ" /\ pc'[m] = "unlock"
    BY <1>1, <1>8, <2>2 DEF JoinGame, WriteDataInit, CopyBack, Goto, TypeOK,
                            DiskTypeOK
  <2> QED
    BY <2>2, <2>3 DEF JoiningAt, Known, Agreed
<1>9. ASSUME Gather(m) \/ AwaitOthers(m) PROVE JoiningAt(m)'
  <2>1. pc[m] \in Known /\ pc[m] # "post" /\ UNCHANGED <<pc, player>>
        /\ ReadSector(m, SECTOR_SOPWITH1, 1) /\ buf'[m] = multio'[m]
    BY <1>1, <1>9 DEF Gather, AwaitOthers, Known, InGame, TypeOK
  <2>2. Agreed(multio'[m]) /\ state'[m] # "INIT" /\ player[m] = m
    BY <1>1, <2>1, Reading DEF JoiningAt
  <2> QED
    BY <2>1, <2>2 DEF JoiningAt, Agreed
<1>10. ASSUME NEW cmd \in Cmd, WriteCommand(m, cmd) PROVE JoiningAt(m)'
  BY <1>1, <1>10, Giving DEF TypeOK, JoiningAt, Known, InGame, Agreed
<1>11. ASSUME CommandWritten(m) PROVE JoiningAt(m)'
  BY <1>1, <1>11, Running DEF TypeOK, DiskTypeOK, JoiningAt, Known, InGame,
                              Agreed
<1>12. ASSUME PlayTic(m) PROVE JoiningAt(m)'
  BY <1>1, <1>12 DEF PlayTic, Goto, drive, TypeOK, JoiningAt, Known, InGame,
                     Agreed
<1>13. ASSUME OtherAccess(m) PROVE JoiningAt(m)'
  <2>1. UNCHANGED <<pc, buf, player>>
    BY <1>13 DEF OtherAccess, sopwith
  <2>2. (\E s, c : ReadSector(m, s, c)) \/ UNCHANGED <<state, multio>>
    BY <1>13, Zenon DEF OtherAccess, drive
  <2>3. /\ state'[m] = "INIT" <=> state[m] = "INIT"
        /\ state[m] # "INIT" /\ Agreed(multio[m]) => Agreed(multio'[m])
    BY <1>1, <2>2, Reading
  <2> QED
    BY <1>1, <2>1, <2>3 DEF JoiningAt, Agreed, Invited
<1> QED
  BY <1>2, <1>3, <1>4, <1>5, <1>6, <1>7, <1>8, <1>9, <1>10, <1>11, <1>12,
     <1>13 DEF Acts, Step

\* Every step keeps the vectors in order.
LEMMA HookedStep ==
  ASSUME Inv, NEW m \in Node, Acts(m)
  PROVE  \A n \in Node : HookedAt(n)'
<1>1. TypeOK /\ HookedAt(m)
  BY DEF Inv
<1>2. ASSUME NEW n \in Node, n # m PROVE HookedAt(n)'
  BY <1>2, Frame DEF Inv, HookedAt
<1> DEFINE Early == {"start", "open", "dkioset", "lock", "exited"}
<1>3. ASSUME Launch(m) PROVE HookedAt(m)'
  BY <1>1, <1>3 DEF Launch, HookDiskInterrupts, Goto, TypeOK, DiskTypeOK,
                    HookedAt
<1>4. ASSUME DkioSet(m) PROVE HookedAt(m)'
  BY <1>1, <1>4 DEF DkioSet, Goto, TypeOK, HookedAt
<1>5. ASSUME Exit(m) PROVE HookedAt(m)'
  BY <1>1, <1>5 DEF Exit, RestoreDiskInterrupts, Goto, TypeOK, DiskTypeOK,
                    HookedAt
<1>6. ASSUME pc[m] \notin {"start", "exited"},
             pc'[m] \notin {"start", "exited"},
             EnterInt25(m) \/ EnterInt26(m) \/ EnterInt13(m),
             EnterInt25(m) \/ pc[m] \notin Early \/ pc'[m] \in Early
      PROVE  HookedAt(m)'
  <2>1. /\ old_vect' = old_vect /\ hooked' = hooked
        /\ vect'[m]["int13"] = "imaginot"
        /\ EnterInt25(m) \/ patched[m] => patched'[m]
    BY <1>1, <1>6, Entering
  <2> QED
    BY <1>1, <1>6, <2>1 DEF HookedAt
<1>7. ASSUME Open(m) \/ ReadLock(m) \/ CheckLock(m) \/ ReadGame(m)
      PROVE  HookedAt(m)'
  BY <1>1, <1>6, <1>7 DEF Open, ReadLock, CheckLock, ReadGame, Goto, TypeOK
<1>8. ASSUME SetLock(m) \/ JoinGame(m) \/ Unlock(m)
      PROVE  HookedAt(m)'
  BY <1>1, <1>6, <1>8 DEF SetLock, JoinGame, Unlock, Goto, TypeOK
<1>9. ASSUME Gather(m) \/ AwaitOthers(m) PROVE HookedAt(m)'
  BY <1>1, <1>6, <1>9 DEF Gather, AwaitOthers
<1>10. ASSUME NEW cmd \in Cmd, WriteCommand(m, cmd) PROVE HookedAt(m)'
  BY <1>1, <1>10, Giving DEF TypeOK, HookedAt
<1>11. ASSUME CommandWritten(m) PROVE HookedAt(m)'
  BY <1>1, <1>11, Running DEF TypeOK, HookedAt
<1>12. ASSUME PlayTic(m) \/ StartPlay(m) PROVE HookedAt(m)'
  BY <1>1, <1>12 DEF PlayTic, StartPlay, Goto, hooks, TypeOK, HookedAt
<1>13. ASSUME OtherAccess(m) PROVE HookedAt(m)'
  <2>1. pc' = pc /\ pc[m] \notin {"start", "exited"}
        /\ (EnterInt25(m) \/ EnterInt26(m))
    BY <1>13 DEF OtherAccess, sopwith, Setup
  <2> QED
    BY <1>6, <2>1
<1> QED
  BY <1>2, <1>3, <1>4, <1>5, <1>7, <1>8, <1>9, <1>10, <1>11, <1>12, <1>13
     DEF Acts, Step

\* Logs only grow.
LEMMA LogGrows ==
  ASSUME Inv, NEW m \in Node, Acts(m), NEW p \in Node
  PROVE  /\ Len(log'[p]) >= Len(log[p])
         /\ \A t \in 1 .. Len(log[p]) : log'[p][t] = log[p][t]
<1>1. log \in [Node -> Seq(Cmd)] /\ log[p] \in Seq(Cmd)
  BY DEF Inv, TypeOK, DiskTypeOK
<1>2. ASSUME log' = log
      PROVE  /\ Len(log'[p]) >= Len(log[p])
             /\ \A t \in 1 .. Len(log[p]) : log'[p][t] = log[p][t]
  BY <1>1, <1>2
<1>3. ASSUME NEW cmd \in Cmd, WriteCommand(m, cmd)
      PROVE  /\ Len(log'[p]) >= Len(log[p])
             /\ \A t \in 1 .. Len(log[p]) : log'[p][t] = log[p][t]
  <2>1. log'[p] = log[p] \/ log'[p] = Append(log[p], cmd)
    BY <1>1, <1>3, Giving
  <2> QED
    BY <1>1, <1>3, <2>1
<1>4. log' = log \/ \E cmd \in Cmd : WriteCommand(m, cmd)
  BY Kinds, Running DEF Quiet, PlayTic, pipeline
<1> QED
  BY <1>2, <1>3, <1>4

\* Every step keeps the logs in step with the games.
LEMMA PipelinedStep ==
  ASSUME Inv, NEW m \in Node, Acts(m)
  PROVE  Pipelined'
<1>1. /\ TypeOK /\ Pipelined
      /\ pc \in [Node -> {"start", "exited"} \cup Setup \cup InGame]
      /\ log \in [Node -> Seq(Cmd)] /\ tic \in [Node -> 0 .. MaxTic]
  BY DEF Inv, TypeOK, DiskTypeOK
<1>2. \A n \in Node : Len(log'[n]) \in Nat /\ Len(log[n]) \in Nat
                      /\ Len(log[n]) <= Len(log'[n])
  <2>1. \A n \in Node : log[n] \in Seq(Cmd) /\ log'[n] \in Seq(Cmd)
    BY <1>1, TypeStep DEF TypeOK, DiskTypeOK
  <2> QED
    BY <2>1, LogGrows
<1>3. \A n \in Node : tic[n] \in Nat
  BY <1>1, PipelineAssumption
<1> DEFINE Length(n) == Len(log[n]) = IF pc[n] = "swap" THEN tic[n] + DELAY
                                      ELSE tic[n] + DELAY - 1
           Room(n) == pc[n] = "swap" => tic[n] < MaxTic
<1>4. \A n \in Node : n # m => Length(n)' /\ Room(n)'
  BY <1>1, Frame DEF Pipelined
<1>5. /\ Length(m)' /\ Room(m)'
      /\ tic'[m] \in Nat
      /\ \A n \in Node : tic'[m] <= Len(log[n])
  <2>1. CASE Quiet(m)
    BY <1>1, <1>3, <2>1 DEF Quiet, Pipelined
  <2>2. ASSUME NEW cmd \in Cmd, WriteCommand(m, cmd)
        PROVE  /\ Length(m)' /\ Room(m)'
               /\ tic'[m] \in Nat
               /\ \A n \in Node : tic'[m] <= Len(log[n])
    <3>1. /\ log'[m] = Append(log[m], cmd) /\ tic' = tic /\ tic[m] < MaxTic
          /\ pc[m] = "turn" /\ pc'[m] = "swap"
      BY <1>1, <2>2, Giving
    <3>2. Len(log'[m]) = Len(log[m]) + 1
      BY <1>1, <3>1
    <3> QED
      BY <1>1, <1>3, <3>1, <3>2, PipelineAssumption DEF Pipelined
  <2>3. CASE CommandWritten(m)
    <3>1. /\ log' = log /\ tic'[m] = tic[m] + 1
          /\ Len(log[m]) = tic[m] + DELAY
          /\ \A n \in Node : Len(log[n]) > tic[m]
          /\ pc'[m] = "wrote"
      BY <1>1, <2>3, Running
    <3> QED
      BY SMTT(30), <1>2, <1>3, <3>1, PipelineAssumption
  <2>4. CASE PlayTic(m)
    <3>1. /\ log' = log /\ tic' = tic /\ pc[m] = "wrote" /\ pc'[m] = "turn"
      BY <1>1, <2>4 DEF PlayTic, pipeline, Goto
    <3> QED
      BY <1>1, <1>3, <3>1 DEF Pipelined
  <2> QED
    BY <2>1, <2>2, <2>3, <2>4, Kinds
<1>6. \A a, n \in Node : tic'[a] <= Len(log[n])
  BY <1>1, <1>5, Frame DEF Pipelined
<1>7. \A a, n \in Node : tic'[a] <= Len(log'[n])
  <2> TAKE a, n \in Node
  <2>1. tic'[a] \in Nat
    BY <1>3, <1>5, Frame
  <2> QED
    BY <1>2, <1>6, <2>1
<1> QED
  BY <1>4, <1>5, <1>7 DEF Pipelined

\* A tic that every log reaches keeps its commands.
LEMMA CommandsStay ==
  ASSUME Inv, NEW m \in Node, Acts(m), NEW keys, NEW t \in Nat \ {0},
         \A p \in Node : t <= Len(log[p]),
         CommandsOf(keys, t)
  PROVE  \A p \in 0 .. num_players - 1 :
           keys[p] = IF p \in Node THEN log'[p][t] ELSE 0
<1>1. \A p \in Node : Len(log[p]) \in Nat
  BY AtMachine DEF Inv
<1>2. \A p \in Node : log'[p][t] = log[p][t]
  BY <1>1, LogGrows
<1> QED
  BY <1>2 DEF CommandsOf

\* Every step keeps the buffer of a machine that has swapped.
LEMMA HoldingStep ==
  ASSUME Inv, NEW m \in Node, Acts(m)
  PROVE  \A n \in Node : HoldingAt(n)'
<1>1. TypeOK /\ Pipelined /\ \A n \in Node : HoldingAt(n)
  BY DEF Inv
<1>2. \A n \in Node : tic[n] \in Nat /\ Len(played[n]) \in Nat
                      /\ \A p \in Node : tic[n] <= Len(log[p])
  BY <1>1, AtMachine DEF Pipelined
<1>3. ASSUME NEW n \in Node, tic'[n] = tic[n], played'[n] = played[n],
             pc'[n] = "wrote" <=> pc[n] = "wrote",
             pc[n] = "wrote" => buf'[n] = buf[n]
      PROVE  HoldingAt(n)'
  <2>1. CASE pc[n] = "wrote"
    <3>1. CommandsOf(buf[n].key, tic[n]) /\ tic[n] \in Nat \ {0}
      BY <1>1, <1>2, <2>1 DEF HoldingAt
    <3>2. \A p \in 0 .. num_players - 1 :
            buf[n].key[p] = IF p \in Node THEN log'[p][tic[n]] ELSE 0
      BY <1>2, <3>1, CommandsStay
    <3> QED
      BY <1>1, <1>3, <2>1, <3>2 DEF HoldingAt, CommandsOf
  <2>2. CASE pc[n] # "wrote"
    BY <1>1, <1>3, <2>2 DEF HoldingAt
  <2> QED
    BY <2>1, <2>2
<1>4. ASSUME NEW n \in Node, n # m PROVE HoldingAt(n)'
  BY <1>3, <1>4, Frame
<1>5. ASSUME Quiet(m) PROVE HoldingAt(m)'
  BY <1>3, <1>5 DEF Quiet
<1>6. ASSUME NEW cmd \in Cmd, WriteCommand(m, cmd) PROVE HoldingAt(m)'
  <2>1. pc[m] = "turn" /\ pc'[m] = "swap" /\ tic' = tic /\ played' = played
    BY <1>1, <1>6, Giving DEF TypeOK
  <2> QED
    BY <1>3, <2>1
<1>7. ASSUME CommandWritten(m) PROVE HoldingAt(m)'
  <2>1. /\ pc[m] = "swap" /\ pc'[m] = "wrote" /\ tic'[m] = tic[m] + 1
        /\ played' = played /\ log' = log /\ buf'[m] = multio'[m]
        /\ CommandsOf(multio'[m].key, tic[m] + 1)
        /\ multio'[m].last_player = num_players - 1
    BY <1>1, <1>7, Running DEF TypeOK, DiskTypeOK
  <2>2. Len(played[m]) = tic[m]
    BY <1>1, <2>1 DEF HoldingAt
  <2>3. CommandsOf(buf'[m].key, tic'[m])
    BY <2>1
  <2>4. CommandsOf(buf[m].key, tic[m])'
    BY <2>1, <2>3 DEF CommandsOf
  <2> QED
    BY <1>2, <2>1, <2>2, <2>4 DEF HoldingAt
<1>8. ASSUME PlayTic(m) PROVE HoldingAt(m)'
  <2>1. /\ pc[m] = "wrote" /\ pc'[m] = "turn" /\ tic' = tic
        /\ played'[m] = Append(played[m], buf[m].key)
    BY <1>1, <1>8 DEF PlayTic, pipeline, Goto, TypeOK
  <2>2. Len(played'[m]) = Len(played[m]) + 1
    BY <1>1, <2>1, AtMachine
  <2>3. Len(played[m]) = tic[m] - 1
    BY <1>1, <2>1 DEF HoldingAt
  <2> QED
    BY <1>2, <2>1, <2>2, <2>3 DEF HoldingAt
<1> QED
  BY <1>4, <1>5, <1>6, <1>7, <1>8, Kinds

\* Every step keeps the games equal.
LEMMA SameGameStep ==
  ASSUME Inv, NEW m \in Node, Acts(m)
  PROVE  SameGame'
<1>1. TypeOK /\ Pipelined /\ SameGame /\ \A n \in Node : HoldingAt(n)
  BY DEF Inv
<1>2. \A n \in Node : /\ tic[n] \in Nat /\ Len(played[n]) \in Nat
                      /\ played[n] \in Seq([Player -> Cmd])
                      /\ Len(played[n]) <= tic[n]
                      /\ \A p \in Node : tic[n] <= Len(log[p])
                                         /\ Len(log[p]) \in Nat
  BY <1>1, AtMachine DEF Pipelined, HoldingAt
<1>3. ASSUME NEW n \in Node, NEW t \in 1 .. Len(played[n])
      PROVE  \A p \in 0 .. num_players - 1 :
               played[n][t][p] = IF p \in Node THEN log'[p][t] ELSE 0
  <2>1. CommandsOf(played[n][t], t)
    BY <1>1 DEF SameGame, CommandsOf
  <2>2. t \in Nat \ {0} /\ \A p \in Node : t <= Len(log[p])
    BY <1>2
  <2> QED
    BY <2>1, <2>2, CommandsStay
<1>4. ASSUME NEW n \in Node, NEW t \in 1 .. Len(played'[n])
      PROVE  \A p \in 0 .. num_players - 1 :
               played'[n][t][p] = IF p \in Node THEN log'[p][t] ELSE 0
  <2>1. CASE played'[n] = played[n]
    BY <1>3, <1>4, <2>1
  <2>2. CASE played'[n] # played[n]
    <3>1. n = m /\ PlayTic(m)
      <4>1. n = m
        BY <2>2, Frame
      <4>2. UNCHANGED played \/ PlayTic(m)
        BY Kinds, Giving, Running DEF Quiet
      <4> QED
        BY <2>2, <4>1, <4>2
    <3>2. /\ pc[m] = "wrote"
          /\ played'[m] = Append(played[m], buf[m].key)
      BY <1>1, <3>1 DEF PlayTic, TypeOK
    <3>3. Len(played[m]) = tic[m] - 1 /\ CommandsOf(buf[m].key, tic[m])
          /\ tic[m] > 0
      BY <1>1, <3>2 DEF HoldingAt
    <3>4. CASE t = tic[m]
      <4>1. played'[n][t] = buf[m].key
        BY <1>2, <3>1, <3>2, <3>3, <3>4
      <4> QED
        BY SMTT(30), <1>2, <3>3, <3>4, <4>1, CommandsStay
    <3>5. CASE t # tic[m]
      <4>1. t \in 1 .. Len(played[m]) /\ played'[m][t] = played[m][t]
        BY <1>2, <1>4, <3>1, <3>2, <3>3, <3>5
      <4> QED
        BY <1>3, <3>1, <4>1
    <3> QED
      BY <3>4, <3>5
  <2> QED
    BY <2>1, <2>2
<1> QED
  BY <1>4 DEF SameGame, Node, num_players

-----------------------------------------------------------------------------
(* The theorems.                                                           *)

\* The invariant holds initially,
LEMMA InitInv == Init => Inv
<1> SUFFICES ASSUME Init PROVE Inv
  OBVIOUS
<1> USE DEF Init, DiskInit, Swap!Init
<1>1. [t \in 1 .. DELAY - 1 |-> 0] \in Seq(Cmd)
      /\ Len([t \in 1 .. DELAY - 1 |-> 0]) = DELAY - 1
  <2>1. DELAY - 1 \in Nat
    BY PipelineAssumption
  <2> QED
    BY <2>1, PipelineAssumption
<1>2. NoMultio \in Multio
  BY PipelineAssumption DEF NoMultio, Multio
<1>3. [p \in Player |-> 0] \in [Player -> Cmd]
  BY PipelineAssumption
<1>4. TypeOK
  BY <1>1, <1>2, <1>3, PipelineAssumption DEF TypeOK, DiskTypeOK
<1>5. Pipelined
  BY <1>1, PipelineAssumption DEF Pipelined
<1>6. \A m \in Node : HoldingAt(m) /\ JoiningAt(m) /\ HookedAt(m)
  BY DEF HoldingAt, JoiningAt, HookedAt, Known, InGame
<1>7. SameGame
  BY DEF SameGame
<1> QED
  BY <1>4, <1>5, <1>6, <1>7 DEF Inv

\* and every step preserves it.
LEMMA NextInv == Inv /\ [Next]_vars => Inv'
<1>1. ASSUME Inv, NEW m \in Node, Acts(m) PROVE Inv'
  BY <1>1, TypeStep, PipelinedStep, HoldingStep, JoiningStep, HookedStep,
     SameGameStep DEF Inv
<1>2. ASSUME Inv, UNCHANGED vars PROVE Inv'
  <2>1. UNCHANGED <<log, tic, out, state, locked, multio, vect, old_vect,
                    hooked, patched, pc, buf, player, played>>
    BY <1>2 DEF vars, pipeline, drive, hooks, sopwith
  <2>2. TypeOK' /\ Pipelined'
    BY <1>2, <2>1 DEF Inv, TypeOK, DiskTypeOK, Pipelined
  <2>3. \A m \in Node : HoldingAt(m)' /\ JoiningAt(m)' /\ HookedAt(m)'
    BY <1>2, <2>1 DEF Inv, HoldingAt, JoiningAt, HookedAt, CommandsOf, Agreed,
                      Invited
  <2>4. SameGame'
    BY <1>2, <2>1 DEF Inv, SameGame
  <2> QED
    BY <2>2, <2>3, <2>4 DEF Inv
<1> QED
  BY <1>1, <1>2 DEF Next, Acts

\* The invariant holds in every game.
THEOREM Invariance == Spec => []Inv
BY InitInv, NextInv, PTL DEF Spec

\* Every variable keeps its type: whatever is read and written, the emulated
\* sector stays a legal one and Sopwith's player number in range.
THEOREM TypeCorrect == Spec => []TypeOK
<1>1. Inv => TypeOK
  BY DEF Inv
<1> QED
  BY <1>1, Invariance, PTL

\* All machines play the same game, whatever their number and with or
\* without made-up players (WriteData around SwapCommand).
THEOREM Same == Spec => []SameGame
<1>1. Inv => SameGame
  BY DEF Inv
<1> QED
  BY <1>1, Invariance, PTL

\* Every Sopwith joins as the player its machine is, in a game of the right
\* size with the common seed (ReadData and WriteData in STATE_INIT).
THEOREM Start == Spec => []SameStart
<1>1. Inv => SameStart
  BY DEF Inv, SameStart, JoiningAt, HookedAt, Known, InGame, Agreed
<1> QED
  BY <1>1, Invariance, PTL

\* Int 13h belongs to the emulated drive during the game, and every vector
\* is back afterwards (Int25, Int26, RestoreDiskInterrupts).
THEOREM Vectors == Spec => []VectorsRight
<1>1. Inv => VectorsRight
  BY DEF Inv, VectorsRight, HookedAt, InGame
<1> QED
  BY <1>1, Invariance, PTL
=============================================================================
