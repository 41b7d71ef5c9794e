------------------------------ MODULE IsrStack ------------------------------
(***************************************************************************)
(* fakedisk.c and lib/ints.h: how Int13, Int25 and Int26 are entered and   *)
(* left.  Int13 moves to a stack of its own and keeps what it needs in     *)
(* statics; Int25 and Int26 stay on the caller's stack.  What is not for   *)
(* drive B: goes on to the handler that was there before, and that may     *)
(* call an interrupt again (DOS's int 25h calls int 13h).                  *)
(*                                                                         *)
(* The timer interrupts all of this, and Sopwith's timer handler may       *)
(* resume the coroutine that plays the game and calls int 13h (notes.txt,  *)
(* "dkio internals").  Int13's statics do not survive that while it is at  *)
(* work; `torn' tells when it has happened.  In Sopwith it does not, since *)
(* the foreground leaves disks alone while there is a coroutine.  The      *)
(* network driver calls no disk interrupt.                                 *)
(***************************************************************************)
EXTENDS Integers, Sequences, SequencesExt

CONSTANT MaxNest    \* bound: calls inside one another

ASSUME NestAssumption == MaxNest \in Nat

VARIABLES
  calls,        \* the calls that have not returned, the running one last
  ss,           \* SS:SP: whose stack is in use, and how deep it is
  slot,         \* the SS:SP at the top of isr_stack_space
  ip_copy,      \* Int13's statics: whose registers, as an index into calls,
  chain,        \* and whether to call the old handler
  stacklow,     \* _STACKLOW: of whose stack it is the bottom
  old_stacklow,
  dkiosts,      \* Sopwith's coroutine: there is none, it runs, it sleeps
  fg,           \* SS:SP of the foreground while the coroutine runs
  torn          \* history: the coroutine was resumed within Int13

statics == <<slot, ip_copy, chain, stacklow, old_stacklow>>
sopwith == <<dkiosts, fg, torn>>
isrVars == <<calls, ss, statics, sopwith>>

ISR == <<"isr", 0>>

\* What is asked for: drive B:'s data sector is written in the game, so that
\* SwapCommand is called; another service of drive B:; something else.
Request == {"command", "sector", "other"}
Served(req) == req # "other"

\* Who has the machine: the foreground waits while the coroutine runs.
Thr == IF dkiosts = "DKINPROC" THEN "coroutine" ELSE "foreground"

\* A call is a record: the interrupt, the request, the thread that made it, its
\* stack, where it is, and whether RealInt13 has served it.
Top == Len(calls)
Running == calls[Top]
At(stage) == calls # <<>> /\ Running.by = Thr /\ Running.at = stage
Goto(stage) == calls' = [calls EXCEPT ![Top].at = stage]

IsrInit ==
  /\ calls = <<>>
  /\ ss = <<"foreground", 0>>
  /\ slot = ISR /\ ip_copy = 0 /\ chain = FALSE
  /\ stacklow = "imaginot" /\ old_stacklow = "imaginot"
  /\ dkiosts = "DKIDLE" /\ fg = <<"foreground", 0>> /\ torn = FALSE

\* The thread has no call: its code is Sopwith's.
Free == calls # <<>> => Running.by # Thr

\* An interrupt is called by Sopwith or by the old handler that serves it.
Interrupt(int, req, stage) ==
  /\ Top < MaxNest
  /\ Free \/ At("old")
  /\ ss' = <<Thr, Top + 1>>
  /\ calls' = Append(calls, [int |-> int, req |-> req, by |-> Thr, stack |-> ss',
                             at |-> stage, served |-> FALSE])
  /\ UNCHANGED sopwith

\* The call returns to its caller, an old handler or a thread.
Iret ==
  /\ calls' = Front(calls)
  /\ ss' = IF Top > 1 /\ calls[Top - 1].by = Running.by
           THEN calls[Top - 1].stack ELSE <<Running.by, 0>>
  /\ UNCHANGED sopwith

-----------------------------------------------------------------------------
(* Int13.                                                                  *)

\* ip_copy = &ip, in the call that is being entered.
CopyIp == ip_copy' = Top + 1

Int13(req) ==
  /\ Interrupt("int13", req, "entry")
  /\ CopyIp
  /\ UNCHANGED <<slot, chain, stacklow, old_stacklow>>

SwitchStack == slot' = ss /\ ss' = ISR

SWITCH_ISR_STACK ==
  /\ At("entry")
  /\ SwitchStack
  /\ old_stacklow' = stacklow
  /\ stacklow' = "isr"
  /\ Goto("poll")
  /\ UNCHANGED <<ip_copy, chain, sopwith>>

\* RealInt13: ReceivePackets comes first.
Poll ==
  /\ At("poll")
  /\ Goto("serve")
  /\ UNCHANGED <<ss, statics, sopwith>>

\* The flag, a static, is set and never cleared.
MutSticky(success) == chain' = (chain \/ ~success)

SetChain(success) == chain' = ~success

\* What the registers behind ip_copy ask for; anything, when their call has
\* returned.
Outcome == IF ip_copy <= Top THEN {Served(calls[ip_copy].req)} ELSE BOOLEAN

\* RealInt13, from there on.
RealInt13 ==
  /\ At("serve")
  /\ \E served \in Outcome :
       /\ calls' = [c \in 1 .. Top |->
                     [calls[c] EXCEPT !.at = IF c = Top THEN "leave" ELSE @,
                                      !.served = IF c = ip_copy THEN served ELSE @]]
       /\ SetChain(served)
  /\ UNCHANGED <<ss, slot, ip_copy, stacklow, old_stacklow, sopwith>>

\* Only the check for an overflow goes back to the old stack.
MutForgetStack == UNCHANGED ss

RestoreStack == ss' = slot

RESTORE_ISR_STACK ==
  /\ At("leave")
  /\ RestoreStack
  /\ stacklow' = old_stacklow
  /\ Goto("decide")
  /\ UNCHANGED <<slot, ip_copy, chain, old_stacklow, sopwith>>

\* _chain_intr: the old handler has the caller's registers and stack, and
\* returns to the caller itself.
ChainInt13 ==
  /\ At("decide")
  /\ chain
  /\ Goto("old")
  /\ UNCHANGED <<ss, statics, sopwith>>

LeaveInt13 ==
  /\ At("decide")
  /\ ~chain
  /\ Iret
  /\ UNCHANGED statics

-----------------------------------------------------------------------------
(* Int25 and Int26, and the rest of the machine.                           *)

\* A read brings no command.
Int25OrInt26(int, req) ==
  /\ int = "int25" => req # "command"
  /\ Interrupt(int, req, "direct")
  /\ UNCHANGED statics

\* Int26's WriteSector gets to SwapCommand, by way of WriteData, and so to
\* NetSendPacket and its pointer to a local variable: on the caller's stack,
\* which the comment in lib/ints.h warns of.
DirectSwap ==
  /\ At("direct")
  /\ Running.req = "command"
  /\ Goto("swap")
  /\ UNCHANGED <<ss, statics, sopwith>>

\* Drive B: is served, and PopAndReturn.
PopAndReturn ==
  /\ At("swap") \/ (At("direct") /\ Running.req = "sector")
  /\ Iret
  /\ UNCHANGED statics

\* _chain_intr.
ChainDirect ==
  /\ At("direct")
  /\ ~Served(Running.req)
  /\ Goto("old")
  /\ UNCHANGED <<ss, statics, sopwith>>

OldReturns ==
  /\ At("old")
  /\ Iret
  /\ UNCHANGED statics

\* The coroutine runs on a stack of its own.
SwitchToCoroutine ==
  /\ dkiosts' = "DKINPROC"
  /\ fg' = ss /\ ss' = <<"coroutine", 0>>
  /\ UNCHANGED <<calls, statics>>

\* _dkproc: the foreground starts the coroutine.
DkProc ==
  /\ dkiosts = "DKIDLE" /\ Free
  /\ SwitchToCoroutine
  /\ UNCHANGED torn

\* _dktick puts the coroutine to sleep, or it is through: the foreground goes
\* on where it was.
DkTick ==
  /\ dkiosts = "DKINPROC" /\ Free
  /\ dkiosts' \in {"DKTICK", "DKIDLE"}
  /\ ss' = fg
  /\ UNCHANGED <<calls, statics, fg, torn>>

\* Int13's own part, from its entry to its decision to chain.
Int13Stage == {"entry", "poll", "serve", "leave", "decide"}

\* _dktckint: the timer resumes the coroutine, whatever it interrupts.
TimerTick ==
  /\ dkiosts = "DKTICK"
  /\ torn' = (torn \/ \E stage \in Int13Stage : At(stage))
  /\ SwitchToCoroutine

IsrNext ==
  \/ \E req \in Request :
       Int13(req) \/ \E int \in {"int25", "int26"} : Int25OrInt26(int, req)
  \/ SWITCH_ISR_STACK \/ Poll \/ RealInt13 \/ RESTORE_ISR_STACK
  \/ ChainInt13 \/ LeaveInt13
  \/ DirectSwap \/ PopAndReturn \/ ChainDirect \/ OldReturns
  \/ DkProc \/ DkTick \/ TimerTick

IsrSpec == IsrInit /\ [][IsrNext]_isrVars

-----------------------------------------------------------------------------
(* Properties.                                                             *)

\* An old handler, and a call about to return, is on the stack that the call
\* was made on, however deep the calls are nested and whatever the coroutine
\* did in between, as long as it was not resumed within Int13.
\* (RESTORE_ISR_STACK before _chain_intr in Int13; one saved SS:SP for all.)
OwnStack ==
  ~torn /\ (\E stage \in {"decide", "direct", "swap", "old"} : At(stage)) =>
    ss = Running.stack /\ stacklow = "imaginot"

\* A call of int 13h is answered once, from its own registers, by the one it
\* is for: by Imaginot, or by the handler that was there before; again as long
\* as the coroutine was not resumed within Int13.  (Its static chain flag.)
AnsweredOnce ==
  [][~torn /\ Len(calls') < Top /\ Running.int = "int13" =>
       /\ Running.served <=> Served(Running.req)
       /\ Running.at = "old" <=> ~Served(Running.req)]_isrVars
=============================================================================
