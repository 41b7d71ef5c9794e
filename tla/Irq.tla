-------------------------------- MODULE Irq --------------------------------
(***************************************************************************)
(* lib/ints.c: HookIRQ and RestoreIRQ, by which several copies of a driver *)
(* share a hardware interrupt, and END_OF_IRQ of lib/ints.h.               *)
(*                                                                         *)
(* DOS runs one program inside another: program p + 1 is started by p,     *)
(* gets a copy of its environment, and p goes on when p + 1 has ended.     *)
(* Only the last program runs, except that an interrupt may call the       *)
(* handler of any.  _disable() keeps interrupts out of HookIRQ and         *)
(* RestoreIRQ, and a handler runs with interrupts off.                     *)
(***************************************************************************)
EXTENDS Integers

CONSTANTS
  IRQ,        \* the interrupt lines in use
  MaxDepth    \* bound: programs inside one another

ASSUME IrqAssumption ==
  /\ IRQ \subseteq 0 .. 7      \* assert(irq < 8)
  /\ MaxDepth \in Nat

VARIABLES
  depth,      \* the programs 1 .. depth are there
  env,        \* env[p][q]: CHAIN_IRQ<q> is "1" in p's environment
  hook,       \* hook[p][q]: p's struct irq_hook for q
  vect,       \* the vector of 8 + q: a program's handler, or 0 for the BIOS's
  mask,       \* the lines masked in the PIC
  boot_mask,  \* history: mask before any program was started
  irq,        \* the last interrupt
  isr,        \* the handler that is running, or Idle
  acks,       \* history: how often irq has been acknowledged
  heard       \* history: the programs whose handler irq has called

programs == <<depth, env, hook, vect, mask, boot_mask>>
serving == <<irq, isr, acks, heard>>
vars == <<programs, serving>>

Idle == -1
Program == 1 .. MaxDepth

\* on says that the structure is in use, between HookIRQ and RestoreIRQ.
IrqHook == [on : BOOLEAN, old_isr : 0 .. MaxDepth, was_masked : BOOLEAN,
            chained : BOOLEAN]

NoHook == [on |-> FALSE, old_isr |-> 0, was_masked |-> FALSE, chained |-> FALSE]

Init ==
  /\ depth = 0
  /\ env = [p \in 0 .. MaxDepth |-> [q \in IRQ |-> FALSE]]
  /\ hook = [p \in Program |-> [q \in IRQ |-> NoHook]]
  /\ vect = [q \in IRQ |-> 0]
  /\ boot_mask \in SUBSET IRQ
  /\ mask = boot_mask
  /\ irq \in IRQ /\ isr = Idle /\ acks = 1 /\ heard = {}

\* DOS starts a program from the one that runs.
Spawn ==
  /\ isr = Idle
  /\ depth < MaxDepth
  /\ depth' = depth + 1
  /\ env' = [env EXCEPT ![depth + 1] = env[depth]]
  /\ hook' = [hook EXCEPT ![depth + 1] = [q \in IRQ |-> NoHook]]
  /\ UNCHANGED <<vect, mask, boot_mask, serving>>

\* The last program ends; it has given back what it hooked.
Exit ==
  /\ isr = Idle
  /\ depth > 0
  /\ \A q \in IRQ : ~hook[depth][q].on
  /\ depth' = depth - 1
  /\ UNCHANGED <<env, hook, vect, mask, boot_mask, serving>>

\* The variable is looked for under another name.
MutNeverChained(q) == FALSE

CheckChainedIRQ(q) == env[depth][q]

\* The variable is left behind.
MutVariableStays(q, enable) == env' = [env EXCEPT ![depth][q] = TRUE]

SetChainedIRQ(q, enable) == env' = [env EXCEPT ![depth][q] = enable]

HookIRQ(q) ==
  LET chained == CheckChainedIRQ(q)
  IN  /\ isr = Idle
      /\ depth > 0
      /\ ~hook[depth][q].on
      /\ IF chained THEN UNCHANGED env ELSE SetChainedIRQ(q, TRUE)
      /\ hook' = [hook EXCEPT ![depth][q] =
                   [on |-> TRUE, old_isr |-> vect[q],
                    was_masked |-> q \in mask, chained |-> chained]]
      /\ vect' = [vect EXCEPT ![q] = depth]
      /\ mask' = mask \ {q}
      /\ UNCHANGED <<depth, boot_mask, serving>>

\* The line is always left open.
MutUnmask(q, was_masked) == mask \ {q}

\* The mask that RestoreIRQ leaves: SetIRQMask, then perhaps ClearIRQMask.
MaskAfter(q, was_masked) == IF was_masked THEN mask \cup {q} ELSE mask \ {q}

RestoreVector(q) == vect' = [vect EXCEPT ![q] = hook[depth][q].old_isr]

RestoreIRQ(q) ==
  /\ isr = Idle
  /\ depth > 0
  /\ hook[depth][q].on
  /\ mask' = MaskAfter(q, hook[depth][q].was_masked)
  /\ RestoreVector(q)
  /\ IF hook[depth][q].chained THEN UNCHANGED env ELSE SetChainedIRQ(q, FALSE)
  /\ hook' = [hook EXCEPT ![depth][q].on = FALSE]
  /\ UNCHANGED <<depth, boot_mask, serving>>

\* The hardware raises an interrupt.
Raise(q) ==
  /\ isr = Idle
  /\ q \notin mask
  /\ irq' = q
  /\ isr' = vect[q]
  /\ acks' = 0
  /\ heard' = {}
  /\ UNCHANGED programs

\* Everybody acknowledges.
MutAckAndChain(p) ==
  /\ acks' = acks + 1
  /\ isr' = IF hook[p][irq].chained THEN hook[p][irq].old_isr ELSE Idle

\* END_OF_IRQ: call the handler that was there before, or acknowledge.
END_OF_IRQ(p) ==
  IF hook[p][irq].chained
  THEN isr' = hook[p][irq].old_isr /\ UNCHANGED acks
  ELSE isr' = Idle /\ acks' = acks + 1

\* The handler of p does its work.
RunISR(p) ==
  /\ isr = p
  /\ heard' = heard \cup {p}
  /\ END_OF_IRQ(p)
  /\ UNCHANGED <<irq, programs>>

\* The BIOS's handler acknowledges and returns.
BiosISR ==
  /\ isr = 0
  /\ isr' = Idle
  /\ acks' = acks + 1
  /\ UNCHANGED <<irq, heard, programs>>

Next ==
  \/ Spawn \/ Exit
  \/ \E q \in IRQ : HookIRQ(q) \/ RestoreIRQ(q) \/ Raise(q)
  \/ \E p \in 1 .. depth : RunISR(p)
  \/ BiosISR

Spec == Init /\ [][Next]_vars

-----------------------------------------------------------------------------
(* Properties.                                                             *)

\* The programs that have hooked q.
Hookers(q) == {p \in 1 .. depth : hook[p][q].on}

\* Every variable has its type; no interrupt calls into a program that has
\* ended.
TypeOK ==
  /\ depth \in 0 .. MaxDepth
  /\ env \in [0 .. MaxDepth -> [IRQ -> BOOLEAN]]
  /\ hook \in [Program -> [IRQ -> IrqHook]]
  /\ vect \in [IRQ -> 0 .. depth]
  /\ mask \subseteq IRQ /\ boot_mask \subseteq IRQ
  /\ irq \in IRQ
  /\ isr \in {Idle} \cup 0 .. depth
  /\ acks \in Nat
  /\ heard \subseteq Program

\* An interrupt is acknowledged once, by the last handler it reaches, however
\* many programs share it.  (The comment on END_OF_IRQ in lib/ints.h.)
AckedOnce == acks = IF isr = Idle THEN 1 ELSE 0

\* The BIOS's handler is called only when no program has hooked the line: the
\* first that hooks it has the hardware to itself, also when another program
\* has hooked it and given it back before.  (HookIRQ's comment.)
HardwareToOurselves == isr = 0 => Hookers(irq) = {}

\* When nobody uses a line any more, its vector and its mask are as they were
\* at the start; as long as somebody does, it is open.
GivenBack ==
  \A q \in IRQ :
    IF Hookers(q) = {} THEN vect[q] = 0 /\ (q \in mask <=> q \in boot_mask)
                       ELSE q \notin mask

\* When an interrupt has been dealt with, every program that shares its line
\* has been called.  (The chaining of END_OF_IRQ.)
EveryoneHears ==
  [][isr # Idle /\ isr' = Idle => heard' = Hookers(irq)]_vars
=============================================================================
