------------------------------ MODULE Lockstep ------------------------------
(***************************************************************************)
(* What SwapCommand (protocol.h) promises to the game, without windows,    *)
(* packets, acknowledgements or time.                                      *)
(*                                                                         *)
(* Each player's commands form one log that only grows.  A machine runs    *)
(* tic t once every player's log reaches t, and it runs it with exactly    *)
(* the t-th entry of every log.  A command takes effect DELAY - 1 tics     *)
(* after the tic at which it was given; no machine gives two commands for  *)
(* one tic.                                                                *)
(***************************************************************************)
EXTENDS Integers, Sequences

CONSTANTS Node, Player, Cmd, DELAY, MaxTic

VARIABLES
  log,  \* [Node -> Seq(Cmd)], the commands of each player in tic order
  tic,  \* [Node -> Nat], the tics each machine has run
  out   \* [Node -> [Player -> Cmd]], the commands of its latest tic

vars == <<log, tic, out>>

Init ==
  /\ log = [m \in Node |-> [t \in 1 .. DELAY - 1 |-> 0]]
  /\ tic = [m \in Node |-> 0]
  /\ out = [m \in Node |-> [p \in Player |-> 0]]

\* A player gives the command for the tic DELAY - 1 ahead of its next one.
Give(m, cmd) ==
  /\ tic[m] < MaxTic
  /\ Len(log[m]) = tic[m] + DELAY - 1
  /\ log' = [log EXCEPT ![m] = Append(@, cmd)]
  /\ UNCHANGED <<tic, out>>

\* A machine that has given its command runs its next tic.
Run(m) ==
  /\ Len(log[m]) = tic[m] + DELAY
  /\ \A n \in Node : Len(log[n]) > tic[m]
  /\ tic' = [tic EXCEPT ![m] = @ + 1]
  /\ out' = [out EXCEPT ![m] = [p \in Player |->
               IF p \in Node THEN log[p][tic[m] + 1] ELSE 0]]
  /\ UNCHANGED log

Next == \E m \in Node : Run(m) \/ \E cmd \in Cmd : Give(m, cmd)

Spec == Init /\ [][Next]_vars
=============================================================================
