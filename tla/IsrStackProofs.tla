--------------------------- MODULE IsrStackProofs ---------------------------
(***************************************************************************)
(* One static stack and static variables suffice for Int13, however deep   *)
(* calls are nested.                                                       *)
(*                                                                         *)
(* None of IsrStack's properties is inductive.  The reason they hold is    *)
(* that all calls but the running one wait, for an old handler or, when    *)
(* the coroutine was resumed over them, in a part of Int25 or Int26 that   *)
(* needs none of the statics: these are always those of the running call.  *)
(* Once the coroutine has been resumed within Int13 there is no invariant. *)
(***************************************************************************)
EXTENDS DiskInterrupts, SequenceTheorems, TLAPS

Thread == {"foreground", "coroutine"}
Stage == Int13Stage \cup {"direct", "swap", "old"}
Waiting == {"direct", "swap", "old"}

Call == [int : {"int13", "int25", "int26"}, req : Request, by : Thread,
         stack : (Thread \cup {"isr"}) \X Nat, at : Stage, served : BOOLEAN]

Types ==
  /\ calls \in Seq(Call)
  /\ ip_copy \in Nat
  /\ chain \in BOOLEAN
  /\ dkiosts \in {"DKIDLE", "DKINPROC", "DKTICK"}

\* The coroutine's calls are all above the foreground's, and it does not sleep
\* in the middle of one; who is in Int13 has the machine.
Order ==
  /\ \A k \in 1 .. Top :
       /\ calls[k].stack = <<calls[k].by, k>>
       /\ k < Top => calls[k].at \in Waiting
       /\ calls[k].by = "coroutine" => dkiosts = "DKINPROC"
  /\ \A m, k \in 1 .. Top :
       m < k /\ calls[m].by = "coroutine" => calls[k].by = "coroutine"
  /\ calls # <<>> /\ Running.at \in Int13Stage => Running.by = Thr

\* Between SWITCH_ISR_STACK and RESTORE_ISR_STACK.
Inside == calls # <<>> /\ Running.at \in {"poll", "serve", "leave"}

\* The foreground's last call, while the coroutine has the machine.
Left(k) ==
  /\ dkiosts = "DKINPROC"
  /\ calls[k].by = "foreground"
  /\ k = Top \/ calls[k + 1].by = "coroutine"

\* The stacks, and what is remembered of them.
Stacks ==
  /\ Inside => /\ ss = ISR /\ slot = Running.stack
               /\ stacklow = "isr" /\ old_stacklow = "imaginot"
  /\ ~Inside => stacklow = "imaginot"
  /\ calls # <<>> /\ ~Inside /\ Running.by = Thr => ss = Running.stack
  /\ \A k \in 1 .. Top : Left(k) => fg = calls[k].stack

\* The other statics belong to the running call; whether a call was served
\* is known of each.
Statics ==
  /\ calls # <<>> /\ Running.at \in {"entry", "poll", "serve"} => ip_copy = Top
  /\ calls # <<>> /\ Running.at \in {"leave", "decide"} =>
       chain = ~Served(Running.req)
  /\ \A k \in 1 .. Top :
       /\ calls[k].at \in {"entry", "poll", "serve", "direct", "swap"} =>
            ~calls[k].served
       /\ calls[k].at \in {"leave", "decide"} =>
            calls[k].served = Served(calls[k].req)
       /\ calls[k].at = "old" => ~calls[k].served /\ ~Served(calls[k].req)
       /\ calls[k].at \in {"direct", "swap"} => calls[k].int # "int13"

Sound == Types /\ Order /\ Stacks /\ Statics
Inv == torn \/ Sound

-----------------------------------------------------------------------------
\* What a step to another stage does to the list of calls.
LEMMA GotoChanges ==
  ASSUME Types, calls # <<>>, NEW stage \in Stage, Goto(stage)
  PROVE  /\ calls' \in Seq(Call)
         /\ Top' = Top /\ Top \in Nat \ {0}
         /\ calls' # <<>>
         /\ \A k \in 1 .. Top - 1 : calls'[k] = calls[k]
         /\ calls'[Top].at = stage
         /\ calls'[Top].by = calls[Top].by
         /\ calls'[Top].stack = calls[Top].stack
         /\ calls'[Top].int = calls[Top].int
         /\ calls'[Top].req = calls[Top].req
         /\ calls'[Top].served = calls[Top].served
<1>1. calls \in Seq(Call) /\ Top \in Nat \ {0} /\ Top = Len(calls)
  BY DEF Types, Top
<1>. DEFINE r == [calls[Top] EXCEPT !.at = stage]
<1>2. calls[Top] \in Call
  BY <1>1
<1>3. /\ r \in Call /\ r.at = stage /\ r.by = calls[Top].by
      /\ r.stack = calls[Top].stack /\ r.int = calls[Top].int
      /\ r.req = calls[Top].req /\ r.served = calls[Top].served
  BY <1>2 DEF Call
<1>4. calls' = [calls EXCEPT ![Top] = r]
  BY DEF Goto
<1>. HIDE DEF r
<1>5. /\ calls' \in Seq(Call) /\ Len(calls') = Len(calls) /\ calls'[Top] = r
      /\ \A k \in 1 .. Top - 1 : calls'[k] = calls[k]
  BY <1>1, <1>3, <1>4
<1>. QED
  BY <1>1, <1>3, <1>5 DEF Top

\* A call begins.
LEMMA InterruptSound ==
  ASSUME Sound, NEW int \in {"int13", "int25", "int26"}, NEW req \in Request,
         NEW stage \in {"entry", "direct"},
         Interrupt(int, req, stage),
         stage = "entry" => int = "int13" /\ ip_copy' = Top + 1,
         stage = "direct" => int # "int13" /\ ip_copy' = ip_copy,
         UNCHANGED <<slot, chain, stacklow, old_stacklow>>
  PROVE  Sound'
<1>. DEFINE r == [int |-> int, req |-> req, by |-> Thr, stack |-> ss',
                  at |-> stage, served |-> FALSE]
<1>1. /\ Free \/ At("old")
      /\ ss' = <<Thr, Top + 1>>
      /\ calls' = Append(calls, r)
      /\ UNCHANGED <<dkiosts, fg, torn>>
  BY DEF Interrupt, sopwith
<1>2. Thr' = Thr /\ Thr \in Thread
  BY <1>1 DEF Thr, Thread
<1>3. calls \in Seq(Call) /\ Top \in Nat
  BY DEF Sound, Types, Top
<1>4. r \in Call /\ r.stack = <<Thr, Top + 1>> /\ r.by = Thr
  BY <1>1, <1>2, <1>3 DEF Call, Stage, Int13Stage
<1>5. r.at = stage /\ r.int = int /\ r.served = FALSE
  OBVIOUS
<1>. HIDE DEF r
<1>6. /\ calls' \in Seq(Call) /\ calls' # <<>> /\ Top' = Top + 1
      /\ \A k \in 1 .. Top : calls'[k] = calls[k]
      /\ calls'[Top + 1] = r
      /\ Running' = r
  BY <1>1, <1>3, <1>4 DEF Top, Running
<1>7. \A k \in 1 .. Top' : k \in 1 .. Top \/ (k = Top + 1 /\ calls'[k] = r)
  BY <1>3, <1>6
<1>8. calls # <<>> => /\ Top \in 1 .. Top /\ Running = calls[Top]
                      /\ Running.at \in Waiting
                      /\ Running.by = "coroutine" => Thr = "coroutine"
                      /\ Running.by \in Thread
  <2>1. calls # <<>> => Top \in 1 .. Top /\ Running = calls[Top] /\ Running \in Call
    BY <1>3 DEF Top, Running
  <2>2. ASSUME calls # <<>>, Free PROVE Running.at \in Waiting
    BY <2>1, <2>2 DEF Free, Sound, Order, Call, Stage, Waiting
  <2>3. ASSUME At("old") PROVE Running.at \in Waiting
    BY <2>3 DEF At, Waiting
  <2>4. calls # <<>> /\ Running.by = "coroutine" => Thr = "coroutine"
    BY <2>1 DEF Sound, Order, Thr
  <2>. QED
    BY <1>1, <2>1, <2>2, <2>3, <2>4 DEF Call
<1>9. ~Inside /\ ~Inside'
  BY <1>5, <1>6, <1>8 DEF Inside, Waiting
<1>10. Types'
  BY <1>1, <1>3, <1>6 DEF Sound, Types
<1>11. Order'
  <2>1. ASSUME NEW k \in 1 .. Top'
        PROVE  /\ calls'[k].stack = <<calls'[k].by, k>>
               /\ k < Top' => calls'[k].at \in Waiting
               /\ calls'[k].by = "coroutine" => dkiosts' = "DKINPROC"
    <3>1. CASE k = Top + 1
      <4>1. calls'[k] = r /\ ~(k < Top')
        BY <1>3, <1>6, <3>1
      <4>2. Thr = "coroutine" => dkiosts' = "DKINPROC"
        BY <1>1 DEF Thr
      <4>. QED
        BY <1>4, <3>1, <4>1, <4>2
    <3>2. CASE k \in 1 .. Top /\ k = Top
      <4>1. calls # <<>>
        BY <3>2 DEF Top
      <4>. QED
        BY <1>1, <1>6, <1>8, <3>2, <4>1 DEF Sound, Order
    <3>3. CASE k \in 1 .. Top - 1
      <4>1. k \in 1 .. Top /\ k + 1 \in 1 .. Top /\ k < Top
        BY <1>3, <3>3
      <4>. QED
        BY <1>1, <1>6, <4>1 DEF Sound, Order
    <3>. QED
      BY <1>3, <1>7, <3>1, <3>2, <3>3
  <2>2. ASSUME NEW m \in 1 .. Top', NEW k \in 1 .. Top', m < k,
               calls'[m].by = "coroutine"
        PROVE  calls'[k].by = "coroutine"
    <3>1. m \in 1 .. Top /\ calls[m].by = "coroutine"
      BY <1>3, <1>6, <2>2
    <3>2. Thr = "coroutine"
      BY <3>1 DEF Sound, Order, Thr
    <3>3. CASE k \in 1 .. Top
      BY <1>6, <2>2, <3>1, <3>3 DEF Sound, Order
    <3>. QED
      BY <1>4, <1>7, <3>2, <3>3
  <2>. QED
    BY <1>2, <1>4, <1>6, <2>1, <2>2 DEF Order
<1>12. Stacks'
  <2>1. Running'.stack = ss'
    BY <1>1, <1>4, <1>6
  <2>2. ASSUME NEW k \in 1 .. Top', Left(k)' PROVE fg' = calls'[k].stack
    <3>1. k # Top'
      BY <1>2, <1>4, <1>6, <2>2 DEF Left, Thr
    <3>2. k \in 1 .. Top
      BY <1>3, <1>6, <1>7, <3>1
    <3>3. Left(k)
      <4>1. CASE k = Top
        BY <1>1, <1>6, <2>2, <3>2, <4>1 DEF Left
      <4>2. CASE k # Top
        <5>1. k + 1 \in 1 .. Top
          BY <1>3, <3>2, <4>2
        <5>. QED
          BY <1>1, <1>6, <2>2, <3>1, <3>2, <5>1 DEF Left
      <4>. QED
        BY <4>1, <4>2
    <3>. QED
      BY <1>1, <1>6, <3>2, <3>3 DEF Sound, Stacks
  <2>. QED
    BY <1>9, <2>1, <2>2 DEF Sound, Stacks
<1>13. Statics'
  <2>1. /\ Running'.at \in {"entry", "poll", "serve"} => ip_copy' = Top'
        /\ Running'.at \notin {"leave", "decide"}
    BY <1>5, <1>6
  <2>2. ASSUME NEW k \in 1 .. Top', calls'[k] = r
        PROVE  /\ ~calls'[k].served
               /\ calls'[k].at \notin {"leave", "decide", "old"}
               /\ calls'[k].at \in {"direct", "swap"} => calls'[k].int # "int13"
    BY <1>5, <2>2
  <2>3. \A k \in 1 .. Top' : calls'[k] = r \/ (k \in 1 .. Top /\ calls'[k] = calls[k])
    BY <1>6, <1>7
  <2>. QED
    BY <2>1, <2>2, <2>3 DEF Sound, Statics, Served
<1>. QED
  BY <1>10, <1>11, <1>12, <1>13 DEF Sound

\* A call returns.
LEMMA ReturnSound ==
  ASSUME Sound, calls # <<>>, Running.by = Thr, ~Inside, Iret, UNCHANGED statics
  PROVE  Sound'
<1>1. calls \in Seq(Call) /\ Top \in Nat \ {0}
  BY DEF Sound, Types, Top
<1>2. /\ calls' \in Seq(Call) /\ Top' = Top - 1
      /\ \A k \in 1 .. Top - 1 : calls'[k] = calls[k] /\ calls[k] \in Call
  <2>1. calls' = SubSeq(calls, 1, Top - 1)
    BY DEF Iret, Front, Top
  <2>2. \A k \in 1 .. Top - 1 : calls[k] \in Call
    BY <1>1 DEF Top
  <2>3. /\ SubSeq(calls, 1, Top - 1) \in Seq(Call)
        /\ Len(SubSeq(calls, 1, Top - 1)) = Top - 1
        /\ \A k \in 1 .. Top - 1 : SubSeq(calls, 1, Top - 1)[k] = calls[k]
    BY <1>1, <2>2, SubSeqProperties
  <2>. QED
    BY <2>1, <2>2, <2>3 DEF Top
<1>3. /\ UNCHANGED <<dkiosts, fg, torn>> /\ Thr' = Thr
      /\ UNCHANGED <<slot, ip_copy, chain, stacklow, old_stacklow>>
  BY DEF Iret, statics, sopwith, Thr
<1>4. Types'
  BY <1>2, <1>3 DEF Sound, Types
<1>5. calls' # <<>> => /\ Top > 1 /\ Top - 1 \in 1 .. Top
                       /\ Running' = calls[Top - 1]
                       /\ calls[Top - 1].at \in Waiting
                       /\ calls[Top - 1].by = Running.by =>
                            ss' = calls[Top - 1].stack
  <2>1. calls' # <<>> => Top > 1 /\ Top - 1 \in 1 .. Top - 1
    BY <1>1, <1>2 DEF Top
  <2>. QED
    BY <1>1, <1>2, <2>1 DEF Sound, Order, Iret, Running, Top
<1>6. Order'
  <2>1. ASSUME NEW k \in 1 .. Top'
        PROVE  /\ calls'[k].stack = <<calls'[k].by, k>>
               /\ k < Top' => calls'[k].at \in Waiting
               /\ calls'[k].by = "coroutine" => dkiosts' = "DKINPROC"
    <3>1. k \in 1 .. Top /\ k < Top /\ calls'[k] = calls[k]
      BY <1>1, <1>2
    <3>. QED
      BY <1>3, <3>1 DEF Sound, Order
  <2>2. \A k \in 1 .. Top' : k \in 1 .. Top /\ calls'[k] = calls[k]
    BY <1>1, <1>2
  <2>3. calls' # <<>> => Running'.at \notin Int13Stage
    BY <1>5 DEF Waiting, Int13Stage
  <2>. QED
    BY <2>1, <2>2, <2>3 DEF Sound, Order
<1>7. ~Inside'
  BY <1>5 DEF Inside, Waiting
<1>8. Stacks'
  <2>1. calls' # <<>> /\ Running'.by = Thr' => ss' = Running'.stack
    BY <1>3, <1>5
  <2>2. ASSUME NEW k \in 1 .. Top', Left(k)' PROVE fg' = calls'[k].stack
    <3>1. /\ k \in 1 .. Top /\ calls'[k] = calls[k]
          /\ k # Top' => calls'[k + 1] = calls[k + 1]
      BY <1>1, <1>2
    <3>2. CASE k = Top'
      <4>1. k + 1 = Top /\ calls[k + 1].by = "coroutine"
        BY <1>1, <1>2, <1>3, <2>2, <3>2 DEF Left, Running, Thr
      <4>. QED
        BY <1>3, <2>2, <3>1, <4>1 DEF Sound, Stacks, Left
    <3>3. CASE k # Top'
      BY <1>3, <2>2, <3>1, <3>3 DEF Sound, Stacks, Left
    <3>. QED
      BY <3>2, <3>3
  <2>. QED
    BY <1>3, <1>7, <2>1, <2>2 DEF Sound, Stacks
<1>9. Statics'
  <2>1. calls' # <<>> => Running'.at \notin {"entry", "poll", "serve", "leave", "decide"}
    BY <1>5 DEF Waiting
  <2>. QED
    BY <1>1, <1>2, <2>1 DEF Sound, Statics
<1>. QED
  BY <1>4, <1>6, <1>8, <1>9 DEF Sound

\* The running call goes to its next stage: the order of the calls and what
\* the foreground left are as before.
LEMMA GotoOrder ==
  ASSUME Sound, calls # <<>>, Running.by = Thr, NEW stage \in Stage, Goto(stage),
         UNCHANGED sopwith
  PROVE  /\ Order' /\ calls' \in Seq(Call)
         /\ UNCHANGED <<dkiosts, fg>> /\ Thr' = Thr
         /\ \A k \in 1 .. Top' : Left(k)' => fg' = calls'[k].stack
<1>1. Types
  BY DEF Sound
<1>2. UNCHANGED <<dkiosts, fg>> /\ Thr' = Thr
  BY DEF sopwith, Thr
<1>3. /\ calls' \in Seq(Call) /\ Top' = Top /\ Top \in Nat \ {0}
      /\ Running'.by = Running.by /\ Running'.stack = Running.stack
      /\ \A k \in 1 .. Top : /\ calls'[k].by = calls[k].by
                             /\ calls'[k].stack = calls[k].stack
                             /\ k < Top => calls'[k].at = calls[k].at
  <2>1. \A k \in 1 .. Top : k = Top \/ k \in 1 .. Top - 1
    BY <1>1, GotoChanges
  <2>. QED
    BY <1>1, <2>1, GotoChanges DEF Running
<1>4. \A k \in 1 .. Top : k < Top => k + 1 \in 1 .. Top
  BY <1>3
<1>5. Order'
  BY <1>2, <1>3, <1>4 DEF Sound, Order
<1>6. ASSUME NEW k \in 1 .. Top', Left(k)' PROVE fg' = calls'[k].stack
  <2>1. Left(k)
    BY <1>2, <1>3, <1>4, <1>6 DEF Left
  <2>. QED
    BY <1>2, <1>3, <2>1 DEF Sound, Stacks
<1>. QED
  BY <1>2, <1>3, <1>5, <1>6

-----------------------------------------------------------------------------
LEMMA SwitchSound == ASSUME Sound, SWITCH_ISR_STACK PROVE Sound'
<1>1. /\ calls # <<>> /\ Running.by = Thr /\ Running.at = "entry" /\ Goto("poll")
      /\ slot' = ss /\ ss' = ISR /\ old_stacklow' = stacklow
      /\ stacklow' = "isr" /\ UNCHANGED <<ip_copy, chain, sopwith>>
  BY DEF SWITCH_ISR_STACK, At, SwitchStack
<1>2. Types /\ "poll" \in Stage
  BY DEF Sound, Stage, Int13Stage
<1>3. /\ Order' /\ calls' \in Seq(Call) /\ UNCHANGED <<dkiosts, fg>>
      /\ \A k \in 1 .. Top' : Left(k)' => fg' = calls'[k].stack
  BY <1>1, <1>2, GotoOrder
<1>4. /\ Inside' /\ ~Inside /\ Running'.stack = Running.stack
      /\ Running'.at = "poll" /\ calls' # <<>>
  BY <1>1, <1>2, GotoChanges DEF Inside, Running
<1>5. Stacks'
  BY <1>1, <1>3, <1>4 DEF Sound, Stacks
<1>6. Statics'
  BY <1>1, <1>2, <1>4, GotoChanges DEF Sound, Statics, Running
<1>. QED
  BY <1>1, <1>3, <1>5, <1>6 DEF Sound, Types

LEMMA PollSound == ASSUME Sound, Poll PROVE Sound'
<1>1. /\ calls # <<>> /\ Running.by = Thr /\ Running.at = "poll" /\ Goto("serve")
      /\ UNCHANGED <<ss, slot, ip_copy, chain, stacklow, old_stacklow, sopwith>>
  BY DEF Poll, At, statics
<1>2. Types /\ "serve" \in Stage
  BY DEF Sound, Stage, Int13Stage
<1>3. /\ Order' /\ calls' \in Seq(Call) /\ UNCHANGED <<dkiosts, fg>>
      /\ \A k \in 1 .. Top' : Left(k)' => fg' = calls'[k].stack
  BY <1>1, <1>2, GotoOrder
<1>4. /\ Inside' /\ Inside /\ Running'.stack = Running.stack
      /\ Running'.at = "serve" /\ calls' # <<>>
  BY <1>1, <1>2, GotoChanges DEF Inside, Running
<1>5. Stacks'
  BY <1>1, <1>3, <1>4 DEF Sound, Stacks
<1>6. Statics'
  BY <1>1, <1>2, <1>4, GotoChanges DEF Sound, Statics, Running
<1>. QED
  BY <1>1, <1>3, <1>5, <1>6 DEF Sound, Types

\* ip_copy is the running call's: it is the one that is answered.
LEMMA ServeSound == ASSUME Sound, RealInt13 PROVE Sound' /\ Top' = Top
<1>. DEFINE served == Served(Running.req)
            r == [calls[Top] EXCEPT !.at = "leave", !.served = served]
<1>1. /\ calls # <<>> /\ Running.by = Thr /\ Running.at = "serve" /\ ip_copy = Top
      /\ UNCHANGED <<ss, slot, ip_copy, stacklow, old_stacklow, sopwith>>
  BY DEF RealInt13, At, Sound, Statics
<1>2. calls \in Seq(Call) /\ Top \in Nat \ {0} /\ Top = Len(calls)
  BY <1>1 DEF Sound, Types, Top
<1>3. calls[Top] \in Call /\ served \in BOOLEAN /\ Running = calls[Top]
  BY <1>2 DEF Served, Running
<1>4. /\ chain' = ~served
      /\ calls' = [c \in 1 .. Top |->
                    [calls[c] EXCEPT !.at = IF c = Top THEN "leave" ELSE @,
                                     !.served = IF c = Top THEN served ELSE @]]
  <2>1. Outcome = {served}
    BY <1>1, <1>2 DEF Outcome, Running
  <2>. QED
    BY <1>1, <2>1 DEF RealInt13, SetChain
<1>5. /\ r \in Call /\ r.at = "leave" /\ r.by = calls[Top].by
      /\ r.stack = calls[Top].stack /\ r.int = calls[Top].int
      /\ r.req = calls[Top].req /\ r.served = served
  BY <1>3 DEF Call, Stage, Int13Stage
<1>6. calls' = [calls EXCEPT ![Top] = r]
  <2>1. ASSUME NEW c \in 1 .. Top
        PROVE  [calls[c] EXCEPT !.at = IF c = Top THEN "leave" ELSE @,
                                !.served = IF c = Top THEN served ELSE @]
               = IF c = Top THEN r ELSE calls[c]
    <3>1. calls[c] \in Call
      BY <1>2, <2>1
    <3>. QED
      BY <3>1 DEF Call
  <2>2. DOMAIN calls = 1 .. Top /\ calls = [c \in 1 .. Top |-> calls[c]]
    BY <1>2
  <2>. HIDE DEF r, served
  <2>. QED
    BY <1>4, <2>1, <2>2
<1>. HIDE DEF r
<1>7. /\ calls' \in Seq(Call) /\ Top' = Top /\ calls'[Top] = r
      /\ calls' # <<>> /\ \A k \in 1 .. Top - 1 : calls'[k] = calls[k]
  BY <1>2, <1>5, <1>6 DEF Top
<1>8. /\ Running'.stack = Running.stack /\ Running'.at = "leave"
      /\ Running'.by = Running.by /\ Running'.req = Running.req
      /\ Running'.served = served
  BY <1>3, <1>5, <1>7 DEF Running
<1>9. /\ UNCHANGED <<dkiosts, fg>> /\ Thr' = Thr
  BY <1>1 DEF sopwith, Thr
<1>10. \A k \in 1 .. Top : /\ calls'[k].by = calls[k].by
                           /\ calls'[k].stack = calls[k].stack
                           /\ k < Top => calls'[k].at = calls[k].at
                           /\ k < Top => k + 1 \in 1 .. Top
  <2>1. \A k \in 1 .. Top : k = Top \/ k \in 1 .. Top - 1
    BY <1>2
  <2>. QED
    BY <1>2, <1>5, <1>7, <2>1
<1>11. Types'
  BY <1>1, <1>3, <1>4, <1>7, <1>9 DEF Sound, Types
<1>12. Order'
  BY <1>1, <1>7, <1>8, <1>9, <1>10 DEF Sound, Order
<1>13. Stacks'
  <2>1. ASSUME NEW k \in 1 .. Top', Left(k)' PROVE fg' = calls'[k].stack
    <3>1. Left(k)
      BY <1>2, <1>7, <1>9, <1>10, <2>1 DEF Left
    <3>. QED
      BY <1>7, <1>9, <1>10, <3>1 DEF Sound, Stacks
  <2>2. Inside /\ Inside'
    BY <1>1, <1>7, <1>8 DEF Inside
  <2>. QED
    BY <1>1, <1>8, <2>1, <2>2 DEF Sound, Stacks
<1>14. Statics'
  <2>1. chain' = ~Served(Running'.req)
    BY <1>4, <1>8
  <2>2. ASSUME NEW k \in 1 .. Top
        PROVE  /\ calls'[k].at \in {"entry", "poll", "serve", "direct", "swap"} =>
                    ~calls'[k].served
               /\ calls'[k].at \in {"leave", "decide"} =>
                    calls'[k].served = Served(calls'[k].req)
               /\ calls'[k].at = "old" =>
                    ~calls'[k].served /\ ~Served(calls'[k].req)
               /\ calls'[k].at \in {"direct", "swap"} => calls'[k].int # "int13"
    <3>1. CASE k = Top
      BY <1>3, <1>5, <1>7, <3>1
    <3>2. CASE k # Top
      BY <1>2, <1>7, <3>2 DEF Sound, Statics
    <3>. QED
      BY <3>1, <3>2
  <2>. QED
    BY <1>7, <1>8, <2>1, <2>2 DEF Statics
<1>. QED
  BY <1>7, <1>11, <1>12, <1>13, <1>14 DEF Sound

LEMMA RestoreSound == ASSUME Sound, RESTORE_ISR_STACK PROVE Sound'
<1>1. /\ calls # <<>> /\ Running.by = Thr /\ Running.at = "leave" /\ Goto("decide")
      /\ ss' = slot /\ stacklow' = old_stacklow
      /\ UNCHANGED <<slot, ip_copy, chain, old_stacklow, sopwith>>
  BY DEF RESTORE_ISR_STACK, At, RestoreStack
<1>2. Types /\ "decide" \in Stage
  BY DEF Sound, Stage, Int13Stage
<1>3. /\ Order' /\ calls' \in Seq(Call) /\ UNCHANGED <<dkiosts, fg>>
      /\ \A k \in 1 .. Top' : Left(k)' => fg' = calls'[k].stack
  BY <1>1, <1>2, GotoOrder
<1>4. /\ ~Inside' /\ Inside /\ Running'.stack = Running.stack
      /\ Running'.at = "decide" /\ calls' # <<>>
  BY <1>1, <1>2, GotoChanges DEF Inside, Running
<1>5. Stacks'
  BY <1>1, <1>3, <1>4 DEF Sound, Stacks
<1>6. Statics'
  BY <1>1, <1>2, <1>4, GotoChanges DEF Sound, Statics, Running, Served
<1>. QED
  BY <1>1, <1>3, <1>5, <1>6 DEF Sound, Types

\* _chain_intr, from Int13 or from Int25 and Int26; or Int26's way to
\* SwapCommand.
LEMMA WaitSound ==
  ASSUME Sound, calls # <<>>, Running.by = Thr, Running.at \in {"decide", "direct"},
         ~Running.served, NEW stage \in {"swap", "old"}, Goto(stage),
         stage = "old" => ~Served(Running.req),
         stage = "swap" => Running.int # "int13",
         UNCHANGED <<ss, statics, sopwith>>
  PROVE  Sound'
<1>1. UNCHANGED <<ss, slot, ip_copy, chain, stacklow, old_stacklow, sopwith>>
  BY DEF statics
<1>2. Types /\ stage \in Stage
  BY DEF Sound, Stage
<1>3. /\ Order' /\ calls' \in Seq(Call) /\ UNCHANGED <<dkiosts, fg>> /\ Thr' = Thr
      /\ \A k \in 1 .. Top' : Left(k)' => fg' = calls'[k].stack
  BY <1>2, GotoOrder
<1>4. /\ ~Inside' /\ ~Inside /\ Running'.stack = Running.stack
      /\ Running'.at = stage /\ calls' # <<>>
  BY <1>2, GotoChanges DEF Inside, Running
<1>5. Stacks'
  BY <1>1, <1>3, <1>4 DEF Sound, Stacks
<1>6. Statics'
  BY <1>1, <1>2, <1>4, GotoChanges DEF Sound, Statics, Running, Served
<1>. QED
  BY <1>1, <1>3, <1>5, <1>6 DEF Sound, Types

LEMMA RunningKnown ==
  ASSUME Sound, calls # <<>>
  PROVE  /\ Top \in 1 .. Top /\ Top \in Nat /\ Running = calls[Top] /\ Running \in Call
         /\ Running.at \in {"entry", "poll", "serve", "direct", "swap"} =>
              ~Running.served
         /\ Running.at \in {"leave", "decide"} =>
              Running.served = Served(Running.req) /\ chain = ~Served(Running.req)
         /\ Running.at = "old" => ~Running.served /\ ~Served(Running.req)
         /\ Running.at \in {"direct", "swap"} => Running.int # "int13"
<1>1. Top \in 1 .. Top /\ Top \in Nat /\ Running = calls[Top] /\ Running \in Call
  BY DEF Sound, Types, Top, Running
<1>. QED
  BY <1>1 DEF Sound, Statics

\* The coroutine takes over.  What it interrupts is Sopwith itself or a call
\* that needs none of the statics, and its stack is kept.
LEMMA ToCoroutineSound ==
  ASSUME Sound, dkiosts # "DKINPROC", SwitchToCoroutine,
         calls # <<>> => Running.at \notin Int13Stage
  PROVE  Sound'
<1>1. /\ dkiosts' = "DKINPROC" /\ fg' = ss /\ calls' = calls
      /\ UNCHANGED <<slot, ip_copy, chain, stacklow, old_stacklow>>
  BY DEF SwitchToCoroutine, statics
<1>2. Top' = Top /\ Running' = Running /\ Thr = "foreground" /\ Thr' = "coroutine"
  BY <1>1 DEF Top, Running, Thr
<1>3. ~Inside /\ ~Inside'
  BY <1>1, <1>2 DEF Inside, Int13Stage
<1>4. ASSUME NEW k \in 1 .. Top PROVE calls[k].by # "coroutine"
  BY DEF Sound, Order
<1>5. calls # <<>> => /\ Top \in 1 .. Top /\ Top \in Nat /\ Running = calls[Top]
                      /\ Running.by = "foreground" /\ ss = Running.stack
  <2>1. calls # <<>> => Running.by = "foreground"
    BY <1>4, RunningKnown DEF Call, Thread
  <2>. QED
    BY <1>2, <1>3, <2>1, RunningKnown DEF Sound, Stacks
<1>6. Types'
  BY <1>1 DEF Sound, Types
<1>7. Order'
  BY <1>1, <1>2 DEF Sound, Order
<1>8. ASSUME NEW k \in 1 .. Top', Left(k)' PROVE fg' = calls'[k].stack
  <2>1. calls # <<>> /\ Top \in Nat
    BY <1>2 DEF Sound, Types, Top
  <2>2. k \in 1 .. Top /\ (k # Top => k + 1 \in 1 .. Top)
    BY <1>2, <2>1
  <2>3. k = Top
    BY <1>1, <1>2, <1>4, <1>8, <2>2 DEF Left
  <2>. QED
    BY <1>1, <1>5, <2>1, <2>3
<1>9. Stacks'
  BY <1>1, <1>2, <1>3, <1>5, <1>8 DEF Sound, Stacks
<1>10. Statics'
  BY <1>1, <1>2 DEF Sound, Statics
<1>. QED
  BY <1>6, <1>7, <1>9, <1>10 DEF Sound

\* The foreground goes on where it was.
LEMMA DkTickSound == ASSUME Sound, DkTick PROVE Sound'
<1>1. /\ dkiosts = "DKINPROC" /\ Free /\ dkiosts' \in {"DKTICK", "DKIDLE"}
      /\ ss' = fg /\ UNCHANGED <<calls, fg>>
      /\ UNCHANGED <<slot, ip_copy, chain, stacklow, old_stacklow>>
  BY DEF DkTick, statics
<1>2. Top' = Top /\ Running' = Running /\ Thr = "coroutine" /\ Thr' = "foreground"
  BY <1>1 DEF Top, Running, Thr
<1>3. calls # <<>> => Running.by = "foreground" /\ Running.at \notin Int13Stage
  BY <1>1, <1>2, RunningKnown DEF Free, Call, Thread, Sound, Order
<1>4. ~Inside /\ ~Inside'
  BY <1>1, <1>2, <1>3 DEF Inside, Int13Stage
<1>5. calls # <<>> => ss' = Running.stack
  BY <1>1, <1>3, RunningKnown DEF Sound, Stacks, Left
<1>6. ASSUME NEW k \in 1 .. Top PROVE calls[k].by # "coroutine"
  <2>1. calls # <<>> /\ (k = Top \/ k < Top)
    BY <1>6 DEF Sound, Types, Top
  <2>. QED
    BY <1>3, <2>1, RunningKnown DEF Sound, Order
<1>7. Types'
  BY <1>1 DEF Sound, Types
<1>8. Order'
  BY <1>1, <1>2, <1>3, <1>6 DEF Sound, Order
<1>9. Stacks'
  BY <1>1, <1>2, <1>4, <1>5 DEF Sound, Stacks, Left
<1>10. Statics'
  BY <1>1, <1>2 DEF Sound, Statics
<1>. QED
  BY <1>7, <1>8, <1>9, <1>10 DEF Sound

-----------------------------------------------------------------------------
LEMMA Initially == IsrInit => Inv
<1>. SUFFICES ASSUME IsrInit PROVE Sound
  BY DEF Inv
<1>1. calls = <<>> /\ Top = 0 /\ ~Inside
  BY DEF IsrInit, Top, Inside
<1>2. Types
  <2>1. calls \in Seq(Call)
    BY <1>1
  <2>2. ip_copy \in Nat
    BY DEF IsrInit
  <2>3. chain \in BOOLEAN /\ dkiosts \in {"DKIDLE", "DKINPROC", "DKTICK"}
    BY DEF IsrInit
  <2>. QED
    BY <2>1, <2>2, <2>3 DEF Types
<1>3. Order
  BY <1>1 DEF Order
<1>4. Stacks
  BY <1>1 DEF IsrInit, Stacks
<1>5. Statics
  BY <1>1 DEF Statics
<1>. QED
  BY <1>2, <1>3, <1>4, <1>5 DEF Sound

\* What happened once stays.
LEMMA StaysTorn == ASSUME torn, [IsrNext]_isrVars PROVE torn'
  BY DEF IsrNext, Int13, Int25OrInt26, Interrupt, SWITCH_ISR_STACK, Poll, RealInt13,
         RESTORE_ISR_STACK, ChainInt13, LeaveInt13, DirectSwap, PopAndReturn,
         ChainDirect, OldReturns, Iret, DkProc, DkTick, TimerTick, sopwith, isrVars

LEMMA NextSound == ASSUME Sound, [IsrNext]_isrVars, ~torn' PROVE Sound'
<1>1. ASSUME NEW req \in Request, Int13(req) PROVE Sound'
  BY <1>1, InterruptSound DEF Int13, CopyIp
<1>2. ASSUME NEW req \in Request, NEW int \in {"int25", "int26"},
             Int25OrInt26(int, req)
      PROVE  Sound'
  <2>1. /\ Interrupt(int, req, "direct") /\ ip_copy' = ip_copy
        /\ UNCHANGED <<slot, chain, stacklow, old_stacklow>>
    BY <1>2 DEF Int25OrInt26, statics
  <2>. QED
    BY <1>2, <2>1, InterruptSound
<1>3. CASE ChainInt13
  <2>1. calls # <<>> /\ Running.by = Thr /\ Running.at = "decide" /\ chain
        /\ Goto("old") /\ UNCHANGED <<ss, statics, sopwith>>
    BY <1>3 DEF ChainInt13, At
  <2>2. ~Running.served /\ ~Served(Running.req)
    BY <2>1, RunningKnown
  <2>. QED
    BY <2>1, <2>2, WaitSound
<1>4. CASE DirectSwap
  <2>1. calls # <<>> /\ Running.by = Thr /\ Running.at = "direct"
        /\ Goto("swap") /\ UNCHANGED <<ss, statics, sopwith>>
    BY <1>4 DEF DirectSwap, At
  <2>2. ~Running.served /\ Running.int # "int13"
    BY <2>1, RunningKnown
  <2>. QED
    BY <2>1, <2>2, WaitSound
<1>5. CASE ChainDirect
  <2>1. calls # <<>> /\ Running.by = Thr /\ Running.at = "direct"
        /\ ~Served(Running.req) /\ Goto("old") /\ UNCHANGED <<ss, statics, sopwith>>
    BY <1>5 DEF ChainDirect, At
  <2>2. ~Running.served
    BY <2>1, RunningKnown
  <2>. QED
    BY <2>1, <2>2, WaitSound
<1>6. CASE LeaveInt13 \/ PopAndReturn \/ OldReturns
  <2>1. /\ calls # <<>> /\ Running.by = Thr /\ ~Inside
        /\ Iret /\ UNCHANGED statics
    BY <1>6 DEF LeaveInt13, PopAndReturn, OldReturns, At, Inside
  <2>. QED
    BY <2>1, ReturnSound
<1>7. CASE DkProc
  <2>1. dkiosts = "DKIDLE" /\ Free /\ SwitchToCoroutine
    BY <1>7 DEF DkProc
  <2>2. calls # <<>> => Running.at \notin Int13Stage
    BY <2>1 DEF Free, Sound, Order
  <2>. QED
    BY <2>1, <2>2, ToCoroutineSound
<1>8. CASE TimerTick
  <2>1. dkiosts = "DKTICK" /\ SwitchToCoroutine
        /\ ~\E stage \in Int13Stage : At(stage)
    BY <1>8 DEF TimerTick
  <2>2. calls # <<>> => Running.at \notin Int13Stage
    BY <2>1 DEF At, Sound, Order
  <2>. QED
    BY <2>1, <2>2, ToCoroutineSound
<1>9. CASE UNCHANGED isrVars
  BY <1>9 DEF isrVars, statics, sopwith, Sound, Types, Order, Stacks, Statics, Top,
              Running, Inside, Thr, Left
<1>. QED
  BY <1>1, <1>2, <1>3, <1>4, <1>5, <1>6, <1>7, <1>8, <1>9, SwitchSound, PollSound,
     ServeSound, RestoreSound, DkTickSound DEF IsrNext

LEMMA Always == IsrSpec => []Inv
<1>1. Inv /\ [IsrNext]_isrVars => Inv'
  BY NextSound, StaysTorn DEF Inv
<1>. QED
  BY <1>1, Initially, PTL DEF IsrSpec

\* The old handler and the caller find the stack they had, at any depth of
\* calls, and with the coroutine resumed anywhere but within Int13.
THEOREM Own == IsrSpec => []OwnStack
<1>1. Inv => OwnStack
  <2>. SUFFICES ASSUME Sound,
                       NEW stage \in {"decide", "direct", "swap", "old"}, At(stage)
       PROVE  ss = Running.stack /\ stacklow = "imaginot"
    BY DEF Inv, OwnStack
  <2>1. calls # <<>> /\ ~Inside /\ Running.by = Thr
    BY DEF At, Inside
  <2>. QED
    BY <2>1 DEF Sound, Stacks
<1>. QED
  BY <1>1, Always, PTL

\* Every int 13h is answered once, by the handler it is for, again with the
\* coroutine resumed anywhere but within Int13.
THEOREM Answers == IsrSpec => AnsweredOnce
<1>. DEFINE Step == ~torn /\ Len(calls') < Top /\ Running.int = "int13" =>
                      /\ Running.served <=> Served(Running.req)
                      /\ Running.at = "old" <=> ~Served(Running.req)
<1>1. Inv /\ [IsrNext]_isrVars => [Step]_isrVars
  <2>. SUFFICES ASSUME Sound, IsrNext, Len(calls') < Top, Running.int = "int13"
       PROVE  /\ Running.served <=> Served(Running.req)
              /\ Running.at = "old" <=> ~Served(Running.req)
    BY DEF isrVars, Inv
  <2>1. Types
    BY DEF Sound
  <2>2. calls \in Seq(Call) /\ Top \in Nat /\ Top = Len(calls)
    BY <2>1 DEF Types, Top
  <2>3. ASSUME NEW stage \in Stage, calls # <<>>, Goto(stage) PROVE FALSE
    BY <2>1, <2>2, <2>3, GotoChanges DEF Top
  <2>4. ASSUME NEW int, NEW req, NEW stage, Interrupt(int, req, stage)
        PROVE  FALSE
    <3>1. PICK r : calls' = Append(calls, r)
      BY <2>4 DEF Interrupt
    <3>. QED
      BY <2>2, <3>1
  <2>5. ~SWITCH_ISR_STACK /\ ~Poll /\ ~RESTORE_ISR_STACK /\ ~ChainInt13
        /\ ~DirectSwap /\ ~ChainDirect
    BY <2>3 DEF SWITCH_ISR_STACK, Poll, RESTORE_ISR_STACK, ChainInt13, DirectSwap,
                ChainDirect, At, Stage, Int13Stage
  <2>6. ~RealInt13
    BY <2>2, ServeSound DEF Top
  <2>7. ~DkProc /\ ~DkTick /\ ~TimerTick
    BY <2>2 DEF DkProc, DkTick, TimerTick, SwitchToCoroutine
  <2>8. CASE LeaveInt13
    <3>1. calls # <<>> /\ Running.at = "decide" /\ ~chain
      BY <2>8 DEF LeaveInt13, At
    <3>. QED
      BY <3>1, RunningKnown DEF Served
  <2>9. CASE PopAndReturn
    BY <2>9, RunningKnown DEF PopAndReturn, At
  <2>10. CASE OldReturns
    BY <2>10, RunningKnown DEF OldReturns, At
  <2>. QED
    BY <2>4, <2>5, <2>6, <2>7, <2>8, <2>9, <2>10
       DEF IsrNext, Int13, Int25OrInt26
<1>. QED
  BY <1>1, Always, PTL DEF IsrSpec, AnsweredOnce

\* Behind the first int 25h, with its patches, the disk interrupts are those of
\* IsrStack, so that both theorems hold of them.
THEOREM ImplementsIsrStack == DiskSpec => IsrSpec
<1>1. DiskInit => IsrInit
  BY DEF DiskInit
<1>2. [DiskNext]_diskVars => [IsrNext]_isrVars
  <2>1. CASE FirstInt25
    <3>1. PICK req \in Request : Int25OrInt26("int25", req)
      BY <2>1 DEF FirstInt25
    <3>. QED
      BY <3>1 DEF IsrNext
  <2>2. CASE Patch \/ Applied
    BY <2>2 DEF Patch, Applied, isrVars, statics, sopwith
  <2>3. CASE Later
    BY <2>3 DEF Later
  <2>4. CASE UNCHANGED diskVars
    BY <2>4 DEF diskVars
  <2>. QED
    BY <2>1, <2>2, <2>3, <2>4 DEF DiskNext
<1>. QED
  BY <1>1, <1>2, PTL DEF DiskSpec, IsrSpec

=============================================================================
