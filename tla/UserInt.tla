------------------------------ MODULE UserInt ------------------------------
(***************************************************************************)
(* lib/ints.c: a driver's own interrupt, beside the hardware interrupts of *)
(* Irq.  A driver takes an interrupt vector, runs a command, which is the  *)
(* game or another driver, and gives the vector back when the command      *)
(* ends.  Meanwhile the programs below it call the interrupt, and its      *)
(* service routine runs under the driver's own PSP, the segment by which   *)
(* DOS knows who is running.                                               *)
(*                                                                         *)
(* Programs are Irq's; 0 is the shell.  A program's number is its PSP and  *)
(* stands for its service routine as well.                                 *)
(***************************************************************************)
EXTENDS Irq, Sequences

CONSTANTS
  NumVectors,     \* the vectors that are not of hardware interrupts
  NumUserVectors  \* the first of them are for users: 0x60 to 0x80

ASSUME UserIntAssumption ==
  NumVectors \in Nat /\ NumUserVectors \in 0 .. NumVectors

VARIABLES
  user_vect,      \* the interrupt vectors
  state,          \* the programs' struct interrupt_hook
  psp,            \* what DOS takes for the current process
  calls,          \* the service routines running: whose, and their old_psp
  first           \* history: the vectors when all began

userVars == <<user_vect, state, psp, calls, first>>

Vectors == 1 .. NumVectors
UserVectors == 1 .. NumUserVectors

NULL == 0
Foreign == -1     \* a handler of someone else's
Handler == {Foreign, NULL} \cup Program

interrupt_hook ==
  [force_vector : {0} \cup Vectors, interrupt_num : {0} \cup Vectors, old_isr : Handler]

NoInterrupt == [force_vector |-> 0, interrupt_num |-> 0, old_isr |-> NULL]

UserInit ==
  /\ Init
  /\ user_vect \in [Vectors -> {Foreign, NULL}]
  /\ first = user_vect
  /\ state = [p \in Program |-> NoInterrupt]
  /\ psp = 0
  /\ calls = <<>>

-----------------------------------------------------------------------------
\* The first vector, whoever has it.
MutAnyVector == {1} \cap UserVectors

\* FindFreeInterrupt, as a set: empty where none is free.
FindFreeInterrupt ==
  {i \in UserVectors : user_vect[i] = NULL /\ \A k \in 1 .. i - 1 : user_vect[k] # NULL}

\* The end of FindAndHookInterrupt.
Hooked(p, force, num) ==
  /\ state' = [state EXCEPT ![p] = [force_vector |-> force, interrupt_num |-> num,
                                  old_isr |-> user_vect[num]]]
  /\ user_vect' = [user_vect EXCEPT ![num] = p]

\* The vector it was told to take, which may be any, or else a free one.
FindAndHookInterrupt(p) ==
  \/ \E force \in Vectors : Hooked(p, force, force)
  \/ \E num \in FindFreeInterrupt : Hooked(p, 0, num)

\* A driver starts and hooks a vector.  Only the innermost program starts
\* another one, and not from within a service routine.
Start ==
  /\ calls = <<>>
  /\ Spawn
  /\ psp' = depth + 1
  /\ FindAndHookInterrupt(depth + 1)
  /\ UNCHANGED <<calls, first>>

\* A program starts without one: the game, or a driver that found none free.
StartUnhooked ==
  /\ calls = <<>>
  /\ Spawn
  /\ psp' = depth + 1
  /\ state' = [state EXCEPT ![depth + 1] = NoInterrupt]
  /\ UNCHANGED <<user_vect, calls, first>>

\* Its own PSP is returned.
MutOwnPSP(p) == psp' = p /\ calls' = Append(calls, [isr |-> p, old_psp |-> p])

\* SwitchPSP, at the beginning of a service routine.
SwitchPSP(p) == psp' = p /\ calls' = Append(calls, [isr |-> p, old_psp |-> psp])

\* The interrupt of a driver is called, by a program or by the service
\* routine of another driver.  A routine is not entered twice: it has one
\* stack.
Call ==
  /\ isr = Idle
  /\ \E i \in Vectors :
       /\ user_vect[i] \in Program
       /\ \A k \in DOMAIN calls : calls[k].isr # user_vect[i]
       /\ SwitchPSP(user_vect[i])
  /\ UNCHANGED <<vars, user_vect, state, first>>

\* The service routine ends with RestorePSP.
RestorePSP ==
  /\ isr = Idle
  /\ calls # <<>>
  /\ psp' = calls[Len(calls)].old_psp
  /\ calls' = SubSeq(calls, 1, Len(calls) - 1)
  /\ UNCHANGED <<vars, user_vect, state, first>>

\* The vector is cleared.
MutClear(p) ==
  IF state[p].interrupt_num = 0 THEN UNCHANGED <<user_vect, state>>
  ELSE /\ user_vect' = [user_vect EXCEPT ![state[p].interrupt_num] = NULL]
       /\ state' = [state EXCEPT ![p].interrupt_num = 0]

RestoreInterrupt(p) ==
  IF state[p].interrupt_num = 0 THEN UNCHANGED <<user_vect, state>>
  ELSE /\ user_vect' = [user_vect EXCEPT ![state[p].interrupt_num] = state[p].old_isr]
       /\ state' = [state EXCEPT ![p].interrupt_num = 0]

\* The innermost program ends.
End ==
  /\ calls = <<>>
  /\ Exit
  /\ RestoreInterrupt(depth)
  /\ psp' = depth - 1
  /\ UNCHANGED <<calls, first>>

\* What the other handlers do, and when: a program hooks a line while no
\* service routine runs, and the hardware interrupts whatever runs.
Hardware ==
  /\ \/ calls = <<>> /\ \E q \in IRQ : HookIRQ(q) \/ RestoreIRQ(q)
     \/ \E q \in IRQ : Raise(q)
     \/ \E p \in 1 .. depth : RunISR(p)
     \/ BiosISR
  /\ UNCHANGED userVars

UserNext == Start \/ StartUnhooked \/ Call \/ RestorePSP \/ End \/ Hardware

UserSpec == UserInit /\ [][UserNext]_<<vars, userVars>>

-----------------------------------------------------------------------------
(* Properties.                                                             *)

\* Every variable has its type.
UserTypeOK ==
  /\ user_vect \in [Vectors -> Handler] /\ first \in [Vectors -> {Foreign, NULL}]
  /\ state \in [Program -> interrupt_hook]
  /\ psp \in 0 .. MaxDepth
  /\ calls \in Seq([isr : Program, old_psp : 0 .. MaxDepth])

\* DOS knows the right process at all times: a service routine's driver while
\* it runs, however the routines of drivers call one another, and the program
\* that called it afterwards.
PspRight ==
  psp = IF calls = <<>> THEN depth ELSE calls[Len(calls)].isr

\* The vector of every driver leads to it, as long as it runs, unless one
\* below it was told on its command line to take the same.
Answered ==
  \A p \in 1 .. depth :
    LET num == state[p].interrupt_num
    IN  num = 0 \/ user_vect[num] = p
          \/ \E q \in p + 1 .. depth : state[q].force_vector = num

\* A vector leads to a running program or where it led at first, so that once
\* all have ended every vector is as it was.
VectorsGivenBack ==
  \A i \in Vectors :
    user_vect[i] # first[i] => \E p \in 1 .. depth : state[p].interrupt_num = i
=============================================================================
