----------------------------- MODULE IntsProofs -----------------------------
(***************************************************************************)
(* Proofs about lib/ints.c for any number of programs, lines and vectors:  *)
(* first sharing a hardware interrupt line (Irq), then the drivers' own    *)
(* interrupts and the PSP (UserInt), in which all of the former holds.     *)
(***************************************************************************)
EXTENDS UserInt, SequenceTheorems, TLAPS

-----------------------------------------------------------------------------
(***************************************************************************)
(* Sharing a line.  Programs end in the opposite order of their start, so  *)
(* the handlers of a line form a chain: its vector is the last program     *)
(* that hooked it, and the old handler that a program remembers is the     *)
(* last one before it.                                                     *)
(***************************************************************************)

On(p, q) == hook[p][q].on

\* v is the last of the programs 1 .. d that has hooked q, or 0.
Last(q, d, v) ==
  /\ v \in 0 .. d
  /\ v > 0 => On(v, q)
  /\ \A e \in v + 1 .. d : ~On(e, q)

\* The variable says whether a program so far has hooked the line.
EnvRight ==
  \A p \in 0 .. depth : \A q \in IRQ :
    env[p][q] <=> \E e \in 1 .. p : On(e, q)

VectRight == \A q \in IRQ : Last(q, depth, vect[q])

\* What a program remembers of the time before it hooked the line.
HookRight ==
  \A p \in 1 .. depth : \A q \in IRQ : On(p, q) =>
    /\ Last(q, p - 1, hook[p][q].old_isr)
    /\ hook[p][q].chained <=> hook[p][q].old_isr > 0
    /\ hook[p][q].was_masked <=> hook[p][q].old_isr = 0 /\ q \in boot_mask

MaskRight ==
  \A q \in IRQ : q \in mask <=> vect[q] = 0 /\ q \in boot_mask

\* The interrupt that is being served has called everybody down to isr.
Serving ==
  /\ AckedOnce
  /\ isr > 0 => On(isr, irq)
  /\ isr = 0 => vect[irq] = 0
  /\ isr # Idle => heard = {p \in 1 .. depth : p > isr /\ On(p, irq)}

Inv == TypeOK /\ EnvRight /\ VectRight /\ HookRight /\ MaskRight /\ Serving

\* What there is to know about numbers and the hooks in one state.
LEMMA Facts ==
  ASSUME Inv
  PROVE  /\ depth \in Nat /\ MaxDepth \in Nat /\ depth <= MaxDepth
         /\ \A p \in 1 .. depth : p \in Program /\ p \in Nat
         /\ \A p \in Program : \A q \in IRQ : hook[p][q] \in IrqHook
         /\ \A q \in IRQ : vect[q] \in Nat /\ vect[q] <= depth
BY IrqAssumption DEF Inv, TypeOK, Program

\* Whether v is the last to have hooked q depends only on who has.
LEMMA LastKept ==
  ASSUME NEW q \in IRQ, NEW d \in Nat, NEW v, Last(q, d, v),
         \A e \in 1 .. d : On(e, q)' <=> On(e, q)
  PROVE  /\ v \in 0 .. d
         /\ v > 0 => On(v, q)'
         /\ \A e \in v + 1 .. d : ~On(e, q)'
<1>1. /\ v \in 0 .. d
      /\ v > 0 => On(v, q)
      /\ \A e \in v + 1 .. d : ~On(e, q)
  BY DEF Last
<1>2. v > 0 => v \in 1 .. d
  BY <1>1
<1>3. \A e \in v + 1 .. d : e \in 1 .. d
  BY <1>1
<1> QED
  BY <1>1, <1>2, <1>3

LEMMA InitInv == ASSUME Init PROVE Inv
<1>1. MaxDepth \in Nat
  BY IrqAssumption
<1>2. NoHook \in IrqHook /\ ~NoHook.on
  BY <1>1 DEF NoHook, IrqHook
<1>3. TypeOK
  <2>1. hook \in [Program -> [IRQ -> IrqHook]]
    BY <1>2 DEF Init
  <2> QED
    BY <1>1, <2>1 DEF Init, TypeOK, Idle
<1>4. \A p \in 0 .. depth : p = 0 /\ 1 .. p = {} /\ 1 .. depth = {}
  BY DEF Init
<1>6. EnvRight
  <2> SUFFICES ASSUME NEW p \in 0 .. depth, NEW q \in IRQ
               PROVE  env[p][q] <=> \E e \in 1 .. p : On(e, q)
    BY DEF EnvRight
  <2>1. p \in 0 .. MaxDepth
    BY <1>1 DEF Init
  <2>2. env[p][q] = FALSE
    BY <2>1 DEF Init
  <2> QED
    BY <1>4, <2>2
<1>7. VectRight /\ HookRight /\ MaskRight
  BY DEF Init, VectRight, HookRight, MaskRight, Last
<1>5. Serving
  BY DEF Init, Serving, AckedOnce, Idle
<1> QED
  BY <1>3, <1>5, <1>6, <1>7 DEF Inv

\* A new program has hooked nothing and inherits a true environment.
LEMMA SpawnInv == ASSUME Inv, Spawn PROVE Inv'
<1>1. /\ depth' = depth + 1 /\ depth < MaxDepth /\ isr = Idle
      /\ env' = [env EXCEPT ![depth + 1] = env[depth]]
      /\ hook' = [hook EXCEPT ![depth + 1] = [q \in IRQ |-> NoHook]]
      /\ UNCHANGED <<vect, mask, boot_mask, irq, isr, acks, heard>>
  BY DEF Spawn, serving
<1>2. /\ depth \in Nat /\ depth + 1 \in Program /\ depth + 1 \in 0 .. MaxDepth
      /\ depth \in 0 .. MaxDepth
  BY <1>1, Facts DEF Program
<1>3. TypeOK
  BY DEF Inv
<1>4. TypeOK'
  <2>1. NoHook \in IrqHook
    BY IrqAssumption DEF NoHook, IrqHook
  <2>2. hook' \in [Program -> [IRQ -> IrqHook]]
    BY <1>1, <1>3, <2>1 DEF TypeOK
  <2>3. env' \in [0 .. MaxDepth -> [IRQ -> BOOLEAN]]
    BY <1>1, <1>2, <1>3 DEF TypeOK
  <2>4. vect' \in [IRQ -> 0 .. depth']
    BY <1>1, <1>2, <1>3 DEF TypeOK
  <2> QED
    BY <1>1, <1>2, <1>3, <2>2, <2>3, <2>4 DEF TypeOK
<1> PICK d \in Nat : d = depth
  BY <1>2
<1>5. /\ \A e \in 1 .. d : \A q \in IRQ :
           hook'[e][q] = hook[e][q] /\ (On(e, q)' <=> On(e, q))
      /\ \A q \in IRQ : ~On(d + 1, q)'
  <2>1. \A e \in 1 .. depth : e \in Program /\ e # depth + 1
    BY Facts
  <2>2. ASSUME NEW e \in 1 .. depth, NEW q \in IRQ
        PROVE  hook'[e][q] = hook[e][q]
    BY <1>1, <1>3, <2>1 DEF TypeOK
  <2>3. ASSUME NEW q \in IRQ PROVE hook'[depth + 1][q] = NoHook
    BY <1>1, <1>2, <1>3 DEF TypeOK
  <2> QED
    BY <2>2, <2>3 DEF On, NoHook
<1>6. EnvRight'
  <2> SUFFICES ASSUME NEW p \in 0 .. depth + 1, NEW q \in IRQ
               PROVE  env'[p][q] <=> \E e \in 1 .. p : On(e, q)'
    BY <1>1 DEF EnvRight
  <2>1. CASE p = depth + 1
    <3>1. env'[p][q] = env[depth][q]
      BY <1>1, <1>2, <1>3, <2>1 DEF TypeOK
    <3>2. env[depth][q] <=> \E e \in 1 .. depth : On(e, q)
      BY <1>2 DEF Inv, EnvRight
    <3>3. \A e \in 1 .. p : e \in 1 .. d \/ e = d + 1
      BY <1>2, <2>1
    <3>4. \A e \in 1 .. d : e \in 1 .. p
      BY <1>2, <2>1
    <3> QED
      BY <1>5, <3>1, <3>2, <3>3, <3>4
  <2>2. CASE p # depth + 1
    <3>1. p \in 0 .. depth /\ p \in 0 .. MaxDepth
      BY <2>2, Facts
    <3>2. env'[p][q] = env[p][q]
      BY <1>1, <1>3, <2>2, <3>1 DEF TypeOK
    <3>3. env[p][q] <=> \E e \in 1 .. p : On(e, q)
      BY <3>1 DEF Inv, EnvRight
    <3>4. \A e \in 1 .. p : e \in 1 .. depth
      BY <1>2, <3>1
    <3> QED
      BY <1>5, <3>2, <3>3, <3>4
  <2> QED
    BY <2>1, <2>2
<1>7. VectRight'
  <2> SUFFICES ASSUME NEW q \in IRQ
               PROVE  Last(q, depth, vect[q])'
    BY DEF VectRight
  <2> PICK v : v = vect[q]
    OBVIOUS
  <2>1. Last(q, d, v)
    BY DEF Inv, VectRight
  <2>2. /\ v \in 0 .. d
        /\ v > 0 => On(v, q)'
        /\ \A e \in v + 1 .. d : ~On(e, q)'
    BY <1>5, <2>1, LastKept
  <2>3. v \in 0 .. d + 1
    BY <2>2
  <2>4. \A e \in v + 1 .. d + 1 : e \in v + 1 .. d \/ e = d + 1
    BY <2>2
  <2>5. \A e \in v + 1 .. d + 1 : ~On(e, q)'
    BY <1>5, <2>2, <2>4
  <2>6. vect'[q] = v /\ depth' = d + 1
    BY <1>1
  <2> QED
    BY <2>2, <2>3, <2>5, <2>6 DEF Last
<1>8. HookRight'
  <2> SUFFICES ASSUME NEW p \in 1 .. depth + 1, NEW q \in IRQ, On(p, q)'
               PROVE  /\ Last(q, p - 1, hook[p][q].old_isr)'
                      /\ hook'[p][q].chained <=> hook'[p][q].old_isr > 0
                      /\ hook'[p][q].was_masked <=>
                           hook'[p][q].old_isr = 0 /\ q \in boot_mask
    BY <1>1 DEF HookRight
  <2>1. p # d + 1
    BY <1>5
  <2>2. p \in 1 .. depth
    BY <1>2, <2>1
  <2>3. hook'[p][q] = hook[p][q] /\ On(p, q)
    BY <1>5, <2>2
  <2>4. \A e \in 1 .. p - 1 : e \in 1 .. depth
    BY <1>2, <2>2
  <2>5. \A e \in 1 .. p - 1 : On(e, q)' <=> On(e, q)
    BY <1>5, <2>4
  <2>6. /\ Last(q, p - 1, hook[p][q].old_isr)
        /\ hook[p][q].chained <=> hook[p][q].old_isr > 0
        /\ hook[p][q].was_masked <=> hook[p][q].old_isr = 0 /\ q \in boot_mask
    BY <2>2, <2>3 DEF Inv, HookRight
  <2>7. Last(q, p - 1, hook[p][q].old_isr)'
    <3>1. p - 1 \in Nat
      BY <2>2
    <3> QED
      BY <2>3, <2>5, <2>6, <3>1, LastKept DEF Last
  <2> QED
    BY <2>3, <2>6, <2>7
<1>9. MaskRight'
  BY <1>1 DEF Inv, MaskRight
<1>10. Serving'
  BY <1>1 DEF Inv, Serving, AckedOnce, Idle
<1> QED
  BY <1>4, <1>6, <1>7, <1>8, <1>9, <1>10 DEF Inv

\* The program that ends is in no chain.
LEMMA ExitInv == ASSUME Inv, Exit PROVE Inv'
<1>1. /\ depth' = depth - 1 /\ depth > 0 /\ isr = Idle
      /\ \A q \in IRQ : ~On(depth, q)
      /\ UNCHANGED <<env, hook, vect, mask, boot_mask, irq, isr, acks, heard>>
  BY DEF Exit, serving, On
<1>2. depth \in Nat /\ depth - 1 \in 0 .. MaxDepth
  BY <1>1, Facts
<1>3. \A q \in IRQ : /\ vect[q] \in 0 .. depth - 1
                     /\ vect[q] > 0 => On(vect[q], q)
                     /\ \A e \in vect[q] + 1 .. depth - 1 : ~On(e, q)
  <2> TAKE q \in IRQ
  <2>1. /\ vect[q] \in 0 .. depth
        /\ vect[q] > 0 => On(vect[q], q)
        /\ \A e \in vect[q] + 1 .. depth : ~On(e, q)
    BY DEF Inv, VectRight, Last
  <2>2. vect[q] # depth
    BY <1>1, <2>1
  <2> QED
    BY <1>2, <2>1, <2>2
<1>4. TypeOK'
  <2>1. vect' \in [IRQ -> 0 .. depth']
    BY <1>1, <1>3 DEF Inv, TypeOK
  <2> QED
    BY <1>1, <1>2, <2>1 DEF Inv, TypeOK
<1>5. VectRight'
  BY <1>1, <1>3 DEF VectRight, Last, On
<1>6. EnvRight' /\ HookRight'
  <2>1. \A p \in 0 .. depth - 1 : p \in 0 .. depth
    BY <1>2
  <2>2. \A p \in 1 .. depth - 1 : p \in 1 .. depth
    BY <1>2
  <2> QED
    BY <1>1, <2>1, <2>2 DEF Inv, EnvRight, HookRight, Last, On
<1>7. MaskRight' /\ Serving'
  BY <1>1 DEF Inv, MaskRight, Serving, AckedOnce, Idle
<1> QED
  BY <1>4, <1>5, <1>6, <1>7 DEF Inv

\* The program becomes the last of the chain.
LEMMA HookInv == ASSUME Inv, NEW q \in IRQ, HookIRQ(q) PROVE Inv'
<1> DEFINE h == [on |-> TRUE, old_isr |-> vect[q], was_masked |-> q \in mask,
                 chained |-> env[depth][q]]
<1>1. /\ depth > 0 /\ ~On(depth, q) /\ isr = Idle
      /\ hook' = [hook EXCEPT ![depth][q] = h]
      /\ vect' = [vect EXCEPT ![q] = depth]
      /\ mask' = mask \ {q}
      /\ \/ env' = [env EXCEPT ![depth][q] = TRUE]
         \/ env' = env /\ env[depth][q]
      /\ UNCHANGED <<depth, boot_mask, irq, isr, acks, heard>>
  BY DEF HookIRQ, CheckChainedIRQ, SetChainedIRQ, serving, On
<1>2. /\ TypeOK /\ depth \in Program /\ depth \in Nat /\ depth \in 1 .. depth
      /\ depth \in 0 .. MaxDepth /\ depth \in 0 .. depth
  BY <1>1, Facts DEF Inv, Program
<1>3. h \in IrqHook
  <2>1. vect[q] \in 0 .. MaxDepth
    BY Facts
  <2>2. env[depth][q] \in BOOLEAN
    BY <1>2 DEF TypeOK
  <2> QED
    BY <2>1, <2>2 DEF IrqHook
<1>4. /\ \A e \in Program : \A r \in IRQ :
           (e # depth \/ r # q) => hook'[e][r] = hook[e][r]
      /\ hook'[depth][q] = h
  BY <1>1, <1>2 DEF TypeOK
<1> HIDE DEF h
<1>5. /\ h.on /\ h.old_isr = vect[q] /\ h.was_masked = (q \in mask)
      /\ h.chained = env[depth][q]
  BY DEF h
<1>6. /\ \A e \in 1 .. depth : \A r \in IRQ :
           (e # depth \/ r # q) => (On(e, r)' <=> On(e, r))
      /\ On(depth, q)'
  <2>1. On(depth, q)'
    BY <1>1, <1>4, <1>5 DEF On
  <2>2. ASSUME NEW e \in 1 .. depth, NEW r \in IRQ, e # depth \/ r # q
        PROVE  On(e, r)' <=> On(e, r)
    <3>1. hook'[e][r] = hook[e][r]
      BY <1>4, <2>2, Facts
    <3> QED
      BY <3>1 DEF On
  <2> QED
    BY <2>1, <2>2
<1>7. env' \in [0 .. MaxDepth -> [IRQ -> BOOLEAN]] /\ env'[depth][q] = TRUE
      /\ \A p \in 0 .. MaxDepth : \A r \in IRQ :
           (p # depth \/ r # q) => env'[p][r] = env[p][r]
  <2>1. CASE env' = [env EXCEPT ![depth][q] = TRUE]
    BY <1>2, <2>1 DEF TypeOK
  <2>2. CASE env' = env /\ env[depth][q]
    BY <1>2, <2>2 DEF TypeOK
  <2> QED
    BY <1>1, <2>1, <2>2
<1>8. TypeOK'
  <2>1. hook' \in [Program -> [IRQ -> IrqHook]]
    BY <1>1, <1>2, <1>3 DEF TypeOK
  <2>2. vect' \in [IRQ -> 0 .. depth']
    BY <1>1, <1>2 DEF TypeOK
  <2> QED
    BY <1>1, <1>2, <1>7, <2>1, <2>2 DEF TypeOK
<1>9. EnvRight'
  <2> SUFFICES ASSUME NEW p \in 0 .. depth, NEW r \in IRQ
               PROVE  env'[p][r] <=> \E e \in 1 .. p : On(e, r)'
    BY <1>1 DEF EnvRight
  <2>1. CASE p = depth /\ r = q
    <3>1. depth \in 1 .. p
      BY <1>2, <2>1
    <3> QED
      BY <1>1, <1>6, <1>7, <2>1, <3>1
  <2>2. CASE p # depth \/ r # q
    <3>1. p \in 0 .. MaxDepth /\ 1 .. p \subseteq 1 .. depth
      BY Facts
    <3>2. env'[p][r] = env[p][r]
      BY <1>7, <2>2, <3>1
    <3>3. \A e \in 1 .. p : On(e, r)' <=> On(e, r)
      BY <1>2, <1>6, <2>2, <3>1
    <3> QED
      BY <3>2, <3>3 DEF Inv, EnvRight
  <2> QED
    BY <2>1, <2>2
<1>10. VectRight'
  <2> SUFFICES ASSUME NEW r \in IRQ PROVE Last(r, depth, vect[r])'
    BY DEF VectRight
  <2>1. CASE r = q
    <3>1. vect'[r] = depth
      BY <1>1, <1>2, <2>1 DEF TypeOK
    <3> QED
      BY <1>1, <1>2, <1>6, <2>1, <3>1 DEF Last
  <2>2. CASE r # q
    <3>1. vect'[r] = vect[r]
      BY <1>1, <1>2, <2>2 DEF TypeOK
    <3>2. \A e \in 1 .. depth : On(e, r)' <=> On(e, r)
      BY <1>6, <2>2
    <3>3. Last(r, depth, vect[r])
      BY DEF Inv, VectRight
    <3>4. \A e \in vect[r] + 1 .. depth : e \in 1 .. depth
      BY <1>2, Facts
    <3>5. vect[r] > 0 => vect[r] \in 1 .. depth
      BY <1>2, Facts
    <3> QED
      BY <1>1, <3>1, <3>2, <3>3, <3>4, <3>5 DEF Last
  <2> QED
    BY <2>1, <2>2
<1>11. HookRight'
  <2> SUFFICES ASSUME NEW p \in 1 .. depth, NEW r \in IRQ, On(p, r)'
               PROVE  /\ Last(r, p - 1, hook[p][r].old_isr)'
                      /\ hook'[p][r].chained <=> hook'[p][r].old_isr > 0
                      /\ hook'[p][r].was_masked <=>
                           hook'[p][r].old_isr = 0 /\ r \in boot_mask
    BY <1>1 DEF HookRight
  <2>0. /\ \A e \in 1 .. p - 1 : On(e, r)' <=> On(e, r)
        /\ p \in Nat
    BY <1>2, <1>6
  <2>1. CASE p = depth /\ r = q
    <3>1. hook'[p][r] = h
      BY <1>4, <2>1
    <3>2. Last(q, depth, vect[q]) /\ vect[q] \in Nat /\ vect[q] # depth
      BY <1>1, <1>2, Facts DEF Inv, VectRight, Last
    <3>3. Last(q, depth - 1, vect[q])
      BY <1>2, <3>2 DEF Last
    <3>4. Last(r, p - 1, hook[p][r].old_isr)'
      <4>1. /\ vect[q] \in 0 .. p - 1
            /\ vect[q] > 0 => On(vect[q], q)
            /\ \A e \in vect[q] + 1 .. p - 1 : ~On(e, q)
        BY <2>1, <3>3 DEF Last
      <4>2. \A e \in vect[q] + 1 .. p - 1 : e \in 1 .. p - 1
        BY <2>0, <3>2
      <4>3. vect[q] > 0 => vect[q] \in 1 .. p - 1
        BY <2>0, <3>2, <4>1
      <4> QED
        BY <1>5, <2>0, <2>1, <3>1, <4>1, <4>2, <4>3 DEF Last
    <3>5. env[depth][q] <=> vect[q] > 0
      <4>1. env[depth][q] <=> \E e \in 1 .. depth : On(e, q)
        BY <1>2 DEF Inv, EnvRight
      <4>2. vect[q] > 0 => \E e \in 1 .. depth : On(e, q)
        BY <1>2, <3>2 DEF Last
      <4>3. vect[q] = 0 => ~\E e \in 1 .. depth : On(e, q)
        BY <1>2, <3>2 DEF Last
      <4> QED
        BY <3>2, <4>1, <4>2, <4>3
    <3>6. q \in mask <=> vect[q] = 0 /\ q \in boot_mask
      BY DEF Inv, MaskRight
    <3> QED
      BY <1>5, <2>1, <3>1, <3>4, <3>5, <3>6
  <2>2. CASE p # depth \/ r # q
    <3>1. hook'[p][r] = hook[p][r] /\ On(p, r)
      BY <1>4, <1>6, <2>2, Facts
    <3>2. /\ Last(r, p - 1, hook[p][r].old_isr)
          /\ hook[p][r].chained <=> hook[p][r].old_isr > 0
          /\ hook[p][r].was_masked <=> hook[p][r].old_isr = 0 /\ r \in boot_mask
      BY <3>1 DEF Inv, HookRight
    <3>3. Last(r, p - 1, hook[p][r].old_isr)'
      BY <2>0, <3>1, <3>2 DEF Last
    <3> QED
      BY <3>1, <3>2, <3>3
  <2> QED
    BY <2>1, <2>2
<1>12. MaskRight'
  BY <1>1, <1>2 DEF Inv, MaskRight, TypeOK
<1>13. Serving'
  BY <1>1 DEF Inv, Serving, AckedOnce, Idle
<1> QED
  BY <1>8, <1>9, <1>10, <1>11, <1>12, <1>13 DEF Inv

\* The program leaves the end of the chain; the one before it is the last.
LEMMA RestoreInv == ASSUME Inv, NEW q \in IRQ, RestoreIRQ(q) PROVE Inv'
<1> DEFINE h == hook[depth][q]
<1>1. /\ depth > 0 /\ On(depth, q) /\ isr = Idle
      /\ hook' = [hook EXCEPT ![depth][q].on = FALSE]
      /\ vect' = [vect EXCEPT ![q] = h.old_isr]
      /\ mask' = IF h.was_masked THEN mask \cup {q} ELSE mask \ {q}
      /\ IF h.chained THEN env' = env ELSE env' = [env EXCEPT ![depth][q] = FALSE]
      /\ UNCHANGED <<depth, boot_mask, irq, isr, acks, heard>>
  BY DEF RestoreIRQ, SetChainedIRQ, MaskAfter, RestoreVector, serving, On
<1>2. /\ TypeOK /\ depth \in Program /\ depth \in Nat /\ depth \in 1 .. depth
      /\ depth \in 0 .. MaxDepth
  BY <1>1, Facts DEF Inv, Program
<1>3. /\ h \in IrqHook
      /\ Last(q, depth - 1, h.old_isr)
      /\ h.chained <=> h.old_isr > 0
      /\ h.was_masked <=> h.old_isr = 0 /\ q \in boot_mask
  BY <1>1, <1>2, Facts DEF Inv, HookRight
<1>4. /\ h.old_isr \in 0 .. depth - 1 /\ h.old_isr \in Nat
      /\ h.chained \in BOOLEAN /\ h.was_masked \in BOOLEAN
  BY <1>3 DEF Last, IrqHook
<1>5. /\ \A e \in Program : \A r \in IRQ :
           (e # depth \/ r # q) => hook'[e][r] = hook[e][r]
      /\ hook'[depth][q].on = FALSE
      /\ hook'[depth][q] \in IrqHook
  <2>1. hook'[depth][q] = [h EXCEPT !.on = FALSE]
    BY <1>1, <1>2 DEF TypeOK
  <2>2. [h EXCEPT !.on = FALSE] \in IrqHook /\ [h EXCEPT !.on = FALSE].on = FALSE
    BY <1>3 DEF IrqHook
  <2>3. ASSUME NEW e \in Program, NEW r \in IRQ, e # depth \/ r # q
        PROVE  hook'[e][r] = hook[e][r]
    BY <1>1, <1>2, <2>3 DEF TypeOK
  <2> QED
    BY <2>1, <2>2, <2>3
<1> HIDE DEF h
<1>6. /\ \A e \in 1 .. depth : \A r \in IRQ :
           (e # depth \/ r # q) => (On(e, r)' <=> On(e, r))
      /\ ~On(depth, q)'
  <2>1. ~On(depth, q)'
    BY <1>1, <1>5 DEF On
  <2>2. ASSUME NEW e \in 1 .. depth, NEW r \in IRQ, e # depth \/ r # q
        PROVE  On(e, r)' <=> On(e, r)
    <3>1. hook'[e][r] = hook[e][r]
      BY <1>5, <2>2, Facts
    <3> QED
      BY <3>1 DEF On
  <2> QED
    BY <2>1, <2>2
<1>7. /\ env' \in [0 .. MaxDepth -> [IRQ -> BOOLEAN]]
      /\ env'[depth][q] <=> h.old_isr > 0
      /\ \A p \in 0 .. MaxDepth : \A r \in IRQ :
           (p # depth \/ r # q) => env'[p][r] = env[p][r]
  <2>1. CASE h.chained
    <3>1. env[depth][q]
      <4>1. depth \in 0 .. depth
        BY <1>2
      <4> QED
        BY <1>1, <1>2, <4>1 DEF Inv, EnvRight
    <3> QED
      BY <1>1, <1>2, <1>3, <2>1, <3>1 DEF TypeOK
  <2>2. CASE ~h.chained
    <3>1. ~(h.old_isr > 0)
      BY <1>3, <2>2
    <3>2. env' = [env EXCEPT ![depth] = [env[depth] EXCEPT ![q] = FALSE]]
      BY <1>1, <1>2, <2>2 DEF TypeOK
    <3>3. env \in [0 .. MaxDepth -> [IRQ -> BOOLEAN]] /\ env[depth] \in [IRQ -> BOOLEAN]
      BY <1>2 DEF TypeOK
    <3>4. [env[depth] EXCEPT ![q] = FALSE] \in [IRQ -> BOOLEAN]
      BY <3>3
    <3>5. env' \in [0 .. MaxDepth -> [IRQ -> BOOLEAN]]
      BY <1>2, <3>2, <3>3, <3>4
    <3>6. ~env'[depth][q]
      BY <1>2, <3>2, <3>3
    <3>7. \A p \in 0 .. MaxDepth : \A r \in IRQ :
            (p # depth \/ r # q) => env'[p][r] = env[p][r]
      BY <1>2, <3>2, <3>3
    <3> QED
      BY <3>1, <3>5, <3>6, <3>7
  <2> QED
    BY <2>1, <2>2
<1>8. TypeOK'
  <2>1. hook' \in [Program -> [IRQ -> IrqHook]]
    <3> PICK x \in IrqHook : x = hook'[depth][q]
      BY <1>5
    <3>1. hook' = [hook EXCEPT ![depth] = [hook[depth] EXCEPT ![q] = x]]
      BY <1>1, <1>2 DEF TypeOK
    <3>2. hook \in [Program -> [IRQ -> IrqHook]] /\ hook[depth] \in [IRQ -> IrqHook]
      BY <1>2 DEF TypeOK
    <3>3. [hook[depth] EXCEPT ![q] = x] \in [IRQ -> IrqHook]
      BY <3>2
    <3> QED
      BY <1>2, <3>1, <3>2, <3>3
  <2>2. h.old_isr \in 0 .. depth
    BY <1>2, <1>4
  <2>3. vect' \in [IRQ -> 0 .. depth']
    BY <1>1, <1>2, <2>2 DEF TypeOK
  <2>4. mask' \subseteq IRQ
    BY <1>1, <1>2 DEF TypeOK
  <2> QED
    BY <1>1, <1>2, <1>7, <2>1, <2>3, <2>4 DEF TypeOK
<1>9. /\ vect'[q] = h.old_isr
      /\ \A r \in IRQ : r # q => vect'[r] = vect[r]
  BY <1>1, <1>2 DEF TypeOK
<1>10. ASSUME NEW r \in IRQ PROVE Last(r, depth, vect[r])'
  <2>1. CASE r = q
    <3> PICK v : v = h.old_isr
      OBVIOUS
    <3> PICK d \in Nat : d = depth - 1
      BY <1>1, <1>2
    <3>1. \A e \in 1 .. d : On(e, q)' <=> On(e, q)
      <4>1. \A e \in 1 .. d : e \in 1 .. depth /\ e # depth
        BY <1>2
      <4> QED
        BY <1>6, <4>1
    <3>2. /\ v \in 0 .. d
          /\ v > 0 => On(v, q)'
          /\ \A e \in v + 1 .. d : ~On(e, q)'
      BY <1>3, <3>1, LastKept
    <3>3. \A e \in v + 1 .. depth : e \in v + 1 .. d \/ e = depth
      BY <1>2, <3>2
    <3>4. depth' = depth /\ vect'[r] = v
      BY <1>1, <1>9, <2>1
    <3>5. \A e \in v + 1 .. depth : ~On(e, q)'
      BY <1>6, <3>2, <3>3, <3>4
    <3>6. v \in 0 .. depth
      BY <1>2, <3>2
    <3> QED
      BY <2>1, <3>2, <3>4, <3>5, <3>6 DEF Last
  <2>2. CASE r # q
    <3> PICK v : v = vect[r]
      OBVIOUS
    <3> PICK d \in Nat : d = depth
      BY <1>2
    <3>1. \A e \in 1 .. d : On(e, r)' <=> On(e, r)
      BY <1>6, <2>2
    <3>2. Last(r, d, v)
      BY DEF Inv, VectRight
    <3>3. vect'[r] = v /\ depth' = d
      BY <1>1, <1>9, <2>2
    <3> QED
      BY <3>1, <3>2, <3>3, LastKept DEF Last
  <2> QED
    BY <2>1, <2>2
<1>11. EnvRight'
  <2> SUFFICES ASSUME NEW p \in 0 .. depth, NEW r \in IRQ
               PROVE  env'[p][r] <=> \E e \in 1 .. p : On(e, r)'
    BY <1>1 DEF EnvRight
  <2>1. CASE p = depth /\ r = q
    <3>1. Last(q, depth, vect[q])' /\ vect'[q] = h.old_isr /\ depth' = depth
      BY <1>1, <1>9, <1>10
    <3> PICK v : v = h.old_isr
      OBVIOUS
    <3>2. /\ v \in 0 .. p
          /\ v > 0 => On(v, q)'
          /\ \A e \in v + 1 .. p : ~On(e, q)'
      BY <2>1, <3>1 DEF Last
    <3>3. /\ v > 0 => v \in 1 .. p
          /\ v = 0 => v + 1 .. p = 1 .. p
          /\ v > 0 \/ v = 0
      BY <3>2
    <3> QED
      BY <1>7, <2>1, <3>2, <3>3
  <2>2. CASE p # depth \/ r # q
    <3>1. p \in 0 .. MaxDepth /\ 1 .. p \subseteq 1 .. depth
      BY Facts
    <3>2. env'[p][r] = env[p][r]
      BY <1>7, <2>2, <3>1
    <3>3. \A e \in 1 .. p : On(e, r)' <=> On(e, r)
      BY <1>2, <1>6, <2>2, <3>1
    <3> QED
      BY <3>2, <3>3 DEF Inv, EnvRight
  <2> QED
    BY <2>1, <2>2
<1>12. HookRight'
  <2> SUFFICES ASSUME NEW p \in 1 .. depth, NEW r \in IRQ, On(p, r)'
               PROVE  /\ Last(r, p - 1, hook[p][r].old_isr)'
                      /\ hook'[p][r].chained <=> hook'[p][r].old_isr > 0
                      /\ hook'[p][r].was_masked <=>
                           hook'[p][r].old_isr = 0 /\ r \in boot_mask
    BY <1>1 DEF HookRight
  <2>1. /\ \A e \in 1 .. p - 1 : On(e, r)' <=> On(e, r)
        /\ p - 1 \in Nat
    BY <1>2, <1>6
  <2>2. p # depth \/ r # q
    BY <1>1, <1>6
  <2>3. hook'[p][r] = hook[p][r] /\ On(p, r)
    BY <1>5, <1>6, <2>2, Facts
  <2>4. /\ Last(r, p - 1, hook[p][r].old_isr)
        /\ hook[p][r].chained <=> hook[p][r].old_isr > 0
        /\ hook[p][r].was_masked <=> hook[p][r].old_isr = 0 /\ r \in boot_mask
    BY <2>3 DEF Inv, HookRight
  <2>5. Last(r, p - 1, hook[p][r].old_isr)'
    BY <2>1, <2>3, <2>4, LastKept DEF Last
  <2> QED
    BY <2>3, <2>4, <2>5
<1>13. MaskRight'
  <2>1. ASSUME NEW r \in IRQ
        PROVE  r \in mask' <=> vect'[r] = 0 /\ r \in boot_mask
    <3>1. CASE r = q
      BY <1>1, <1>3, <1>9, <3>1
    <3>2. CASE r # q
      <4>1. r \in mask' <=> r \in mask
        BY <1>1, <3>2
      <4> QED
        BY <1>9, <3>2, <4>1 DEF Inv, MaskRight
    <3> QED
      BY <3>1, <3>2
  <2> QED
    BY <1>1, <2>1 DEF MaskRight
<1>14. Serving'
  BY <1>1 DEF Inv, Serving, AckedOnce, Idle
<1> QED
  BY <1>8, <1>10, <1>11, <1>12, <1>13, <1>14 DEF Inv, VectRight

\* What stays when only an interrupt is served.
LEMMA ServingInv ==
  ASSUME Inv, UNCHANGED programs, irq' \in IRQ, isr' \in {Idle} \cup 0 .. depth,
         acks' \in Nat, heard' \subseteq Program, Serving'
  PROVE  Inv'
<1>1. UNCHANGED <<depth, env, hook, vect, mask, boot_mask>>
  BY DEF programs
<1>2. TypeOK'
  BY <1>1 DEF Inv, TypeOK
<1>3. EnvRight' /\ VectRight' /\ HookRight' /\ MaskRight'
  BY <1>1 DEF Inv, EnvRight, VectRight, HookRight, MaskRight, Last, On
<1> QED
  BY <1>2, <1>3 DEF Inv

\* The first handler to be called is the last in the chain.
LEMMA RaiseInv == ASSUME Inv, NEW q \in IRQ, Raise(q) PROVE Inv'
<1>1. /\ irq' = q /\ isr' = vect[q] /\ acks' = 0 /\ heard' = {}
      /\ UNCHANGED programs
      /\ UNCHANGED <<depth, env, hook, vect, mask, boot_mask>>
  BY DEF Raise, programs
<1>2. /\ vect[q] \in 0 .. depth
      /\ vect[q] > 0 => On(vect[q], q)
      /\ \A e \in vect[q] + 1 .. depth : ~On(e, q)
  BY DEF Inv, VectRight, Last
<1>3. depth \in Nat /\ vect[q] \in Nat
  BY Facts
<1>4. \A p \in 1 .. depth : p > vect[q] => ~On(p, q)
  BY <1>2, <1>3
<1>5. Serving'
  <2>1. isr' # Idle /\ acks' = 0
    BY <1>1, <1>3 DEF Idle
  <2>2. isr' > 0 => On(isr, irq)'
    BY <1>1, <1>2 DEF On
  <2>3. {p \in 1 .. depth : p > vect[q] /\ On(p, q)} = {}
    BY <1>4
  <2>4. heard' = {p \in 1 .. depth : p > isr /\ On(p, irq)}'
    BY <1>1, <2>3 DEF On
  <2> QED
    BY <1>1, <2>1, <2>2, <2>4 DEF Serving, AckedOnce
<1> QED
  BY <1>1, <1>2, <1>5, ServingInv

\* A handler passes the interrupt on to the one before it, if there is one.
LEMMA RunInv == ASSUME Inv, NEW p \in 1 .. depth, RunISR(p) PROVE Inv'
<1> DEFINE h == hook[p][irq]
<1>1. /\ isr = p /\ heard' = heard \cup {p} /\ irq' = irq
      /\ IF h.chained THEN isr' = h.old_isr /\ acks' = acks
                      ELSE isr' = Idle /\ acks' = acks + 1
      /\ UNCHANGED programs
      /\ UNCHANGED <<depth, env, hook, vect, mask, boot_mask>>
  BY DEF RunISR, END_OF_IRQ, programs
<1>2. /\ depth \in Nat /\ p \in Nat /\ p \in Program /\ irq \in IRQ
      /\ isr # Idle /\ isr > 0
  BY <1>1, Facts DEF Inv, TypeOK, Idle
<1>3. /\ acks = 0 /\ On(p, irq)
      /\ heard = {e \in 1 .. depth : e > p /\ On(e, irq)}
  BY <1>1, <1>2 DEF Inv, Serving, AckedOnce
<1>4. /\ h.old_isr \in 0 .. p - 1
      /\ h.old_isr > 0 => On(h.old_isr, irq)
      /\ \A e \in h.old_isr + 1 .. p - 1 : ~On(e, irq)
      /\ h.chained <=> h.old_isr > 0
      /\ h.chained \in BOOLEAN
  BY <1>2, <1>3, Facts DEF Inv, HookRight, Last, IrqHook
<1> HIDE DEF h
<1>5. heard' = {e \in 1 .. depth : e > h.old_isr /\ On(e, irq)}
  <2>1. \A e \in 1 .. depth :
          (e > p \/ e = p \/ ~(e > h.old_isr) \/ e \in h.old_isr + 1 .. p - 1)
    BY <1>2, <1>4
  <2>2. p > h.old_isr /\ \A e \in 1 .. depth : e > p => e > h.old_isr
    BY <1>2, <1>4
  <2>3. ASSUME NEW e \in 1 .. depth
        PROVE  e \in heard' <=> e > h.old_isr /\ On(e, irq)
    BY <1>1, <1>2, <1>3, <1>4, <2>1, <2>2
  <2>4. heard' \subseteq 1 .. depth
    BY <1>1, <1>3
  <2> QED
    BY <2>3, <2>4
<1>6. heard' \subseteq Program
  BY <1>5, Facts
<1>7. CASE h.chained
  <2>1. isr' = h.old_isr /\ acks' = 0 /\ isr' # Idle /\ isr' > 0
    BY <1>1, <1>3, <1>4, <1>7 DEF Idle
  <2>2. On(isr, irq)'
    BY <1>1, <1>4, <1>7, <2>1 DEF On
  <2>3. Serving'
    BY <1>1, <1>5, <2>1, <2>2 DEF Serving, AckedOnce, On
  <2>4. isr' \in 0 .. depth
    BY <1>2, <1>4, <2>1
  <2> QED
    BY <1>1, <1>2, <1>6, <2>1, <2>3, <2>4, ServingInv
<1>8. CASE ~h.chained
  <2>1. isr' = Idle /\ acks' = 1 /\ ~(isr' > 0) /\ isr' # 0
    BY <1>1, <1>3, <1>8 DEF Idle
  <2>2. Serving'
    BY <2>1 DEF Serving, AckedOnce
  <2> QED
    BY <1>1, <1>2, <1>6, <2>1, <2>2, ServingInv
<1> QED
  BY <1>4, <1>7, <1>8

LEMMA BiosInv == ASSUME Inv, BiosISR PROVE Inv'
<1>1. /\ isr = 0 /\ isr' = Idle /\ acks' = acks + 1
      /\ UNCHANGED <<irq, heard, programs>>
  BY DEF BiosISR
<1>2. acks = 0 /\ irq \in IRQ /\ heard \subseteq Program
  BY <1>1 DEF Inv, Serving, AckedOnce, Idle, TypeOK
<1>3. Serving'
  BY <1>1, <1>2 DEF Serving, AckedOnce, Idle
<1> QED
  BY <1>1, <1>2, <1>3, ServingInv

\* The chain is right in every run.
THEOREM Invariance == Spec => []Inv
<1>1. Inv /\ UNCHANGED vars => Inv'
  BY DEF vars, programs, serving, Inv, TypeOK, EnvRight, VectRight, HookRight,
         MaskRight, Serving, AckedOnce, Last, On
<1>2. Inv /\ [Next]_vars => Inv'
  BY <1>1, SpawnInv, ExitInv, HookInv, RestoreInv, RaiseInv, RunInv, BiosInv
     DEF Next
<1> QED
  BY <1>2, InitInv, PTL DEF Spec

\* No interrupt ever calls into a program that has ended.
THEOREM TypeCorrect == Spec => []TypeOK
<1>1. Inv => TypeOK
  BY DEF Inv
<1> QED
  BY <1>1, Invariance, PTL

\* END_OF_IRQ acknowledges every interrupt exactly once.
THEOREM Acknowledged == Spec => []AckedOnce
<1>1. Inv => AckedOnce
  BY DEF Inv, Serving
<1> QED
  BY <1>1, Invariance, PTL

\* A vector is 0 exactly when nobody has hooked the line.
LEMMA NobodyHooks ==
  ASSUME Inv, NEW q \in IRQ
  PROVE  vect[q] = 0 <=> Hookers(q) = {}
<1>1. /\ vect[q] \in 0 .. depth
      /\ vect[q] > 0 => On(vect[q], q)
      /\ \A e \in vect[q] + 1 .. depth : ~On(e, q)
  BY DEF Inv, VectRight, Last
<1>2. CASE vect[q] = 0
  BY <1>1, <1>2 DEF Hookers, On
<1>3. CASE vect[q] # 0
  <2>1. vect[q] \in 1 .. depth /\ vect[q] > 0
    BY <1>1, <1>3, Facts
  <2> QED
    BY <1>1, <1>3, <2>1 DEF Hookers, On
<1> QED
  BY <1>2, <1>3

\* The BIOS's handler is called only for a line that nobody has hooked.
THEOREM Exclusive == Spec => []HardwareToOurselves
<1>1. Inv => HardwareToOurselves
  <2> SUFFICES ASSUME Inv, isr = 0 PROVE Hookers(irq) = {}
    BY DEF HardwareToOurselves
  <2>1. vect[irq] = 0 /\ irq \in IRQ
    BY DEF Inv, Serving, TypeOK
  <2> QED
    BY <2>1, NobodyHooks
<1> QED
  BY <1>1, Invariance, PTL

\* Vectors and mask are given back as they were found.
THEOREM Restored == Spec => []GivenBack
<1>1. Inv => GivenBack
  <2> SUFFICES ASSUME Inv, NEW q \in IRQ
               PROVE  IF Hookers(q) = {}
                      THEN vect[q] = 0 /\ (q \in mask <=> q \in boot_mask)
                      ELSE q \notin mask
    BY DEF GivenBack
  <2>1. vect[q] = 0 <=> Hookers(q) = {}
    BY NobodyHooks
  <2>2. q \in mask <=> vect[q] = 0 /\ q \in boot_mask
    BY DEF Inv, MaskRight
  <2> QED
    BY <2>1, <2>2
<1> QED
  BY <1>1, Invariance, PTL

\* Every interrupt calls the handlers of all programs that share its line.
THEOREM Heard == Spec => EveryoneHears
<1>1. ASSUME Inv, [Next]_vars, isr # Idle, isr' = Idle
      PROVE  heard' = Hookers(irq)
  <2>1. irq \in IRQ /\ heard = {p \in 1 .. depth : p > isr /\ On(p, irq)}
    BY <1>1 DEF Inv, TypeOK, Serving
  <2>2. CASE BiosISR
    <3>1. isr = 0 /\ heard' = heard
      BY <2>2 DEF BiosISR
    <3> QED
      BY <2>1, <3>1, Facts, <1>1 DEF Hookers, On
  <2>3. ASSUME NEW p \in 1 .. depth, RunISR(p) PROVE heard' = Hookers(irq)
    <3>1. /\ isr = p /\ heard' = heard \cup {p} /\ p \in Nat /\ depth \in Nat
          /\ p \in Program
      BY <1>1, <2>3, Facts DEF RunISR
    <3>2. On(p, irq) /\ ~hook[p][irq].chained
      <4>1. On(p, irq)
        BY <1>1, <3>1 DEF Inv, Serving
      <4>2. hook[p][irq].chained => isr' = hook[p][irq].old_isr
        BY <2>3 DEF RunISR, END_OF_IRQ
      <4>3. hook[p][irq].old_isr \in Nat
        BY <1>1, <2>1, <3>1, Facts DEF IrqHook
      <4> QED
        BY <1>1, <4>1, <4>2, <4>3 DEF Idle
    <3>3. \A e \in 1 .. p - 1 : ~On(e, irq)
      <4>1. /\ hook[p][irq].old_isr \in 0 .. p - 1 /\ ~(hook[p][irq].old_isr > 0)
            /\ \A e \in hook[p][irq].old_isr + 1 .. p - 1 : ~On(e, irq)
        BY <1>1, <2>1, <3>2 DEF Inv, HookRight, Last
      <4>2. hook[p][irq].old_isr = 0
        BY <3>1, <4>1
      <4> QED
        BY <4>1, <4>2
    <3>4. \A e \in 1 .. depth : e > p \/ e = p \/ e \in 1 .. p - 1
      BY <3>1
    <3>5. heard' = {e \in 1 .. depth : On(e, irq)}
      BY <2>1, <3>1, <3>2, <3>3, <3>4
    <3> QED
      BY <3>5 DEF Hookers, On
  <2>4. CASE \E q \in IRQ : Raise(q)
    BY <1>1, <2>4 DEF Raise
  <2> QED
    BY <1>1, <2>2, <2>3, <2>4
       DEF Next, Spawn, Exit, HookIRQ, RestoreIRQ, Raise, vars, serving
<1>2. Inv /\ [Next]_vars =>
        [isr # Idle /\ isr' = Idle => heard' = Hookers(irq)]_vars
  BY <1>1
<1> QED
  BY <1>2, Invariance, PTL DEF Spec, EveryoneHears

-----------------------------------------------------------------------------
(***************************************************************************)
(* Drivers' own interrupts and the PSP.  As with a hardware line, the      *)
(* routines of a vector form a chain, which ends with what the vector was  *)
(* at first; and the calls of service routines form a stack, in which      *)
(* every routine remembers the one below.                                  *)
(***************************************************************************)

CallRecord == [isr : Program, old_psp : 0 .. MaxDepth]

\* Program p has taken vector i.
Has(p, i) == state[p].interrupt_num = i

\* v is the last of the programs 1 .. d that has vector i, or what i was at
\* first if none has.
LastUser(i, d, v) ==
  \/ /\ v \in 1 .. d
     /\ Has(v, i)
     /\ \A e \in v + 1 .. d : ~Has(e, i)
  \/ v = first[i] /\ \A e \in 1 .. d : ~Has(e, i)

UserVectRight == \A i \in Vectors : LastUser(i, depth, user_vect[i])

OldRight ==
  \A p \in 1 .. depth : \A i \in Vectors :
    Has(p, i) => LastUser(i, p - 1, state[p].old_isr)

\* A vector that another program has is taken only on command.
OnlyForced ==
  \A p \in 1 .. depth : \A q \in 1 .. p - 1 : \A i \in Vectors :
    Has(p, i) /\ Has(q, i) => state[p].force_vector = i

\* A routine goes back to the one that called it, the first to the program.
GoesBack ==
  \A k \in 1 .. Len(calls) :
    calls[k].old_psp = IF k = 1 THEN depth ELSE calls[k - 1].isr

Stacked == GoesBack /\ PspRight

Chained == UserVectRight /\ OldRight /\ OnlyForced

UserTypes == UserTypeOK /\ depth \in 0 .. MaxDepth

UserInv == UserTypes /\ Stacked /\ Chained

-----------------------------------------------------------------------------
\* Every step of the library is a step of Irq or changes nothing of it.
LEMMA StepIsIrqs ==
  ASSUME [UserNext]_<<vars, userVars>>
  PROVE  [Next]_vars
<1>1. CASE Start \/ StartUnhooked
  BY <1>1 DEF Start, StartUnhooked, Next
<1>2. CASE End
  BY <1>2 DEF End, Next
<1>3. CASE Call \/ RestorePSP
  BY <1>3 DEF Call, RestorePSP
<1>4. CASE Hardware
  BY <1>4 DEF Hardware, Next
<1> QED
  BY <1>1, <1>2, <1>3, <1>4 DEF UserNext

\* The library, with its drivers' own interrupts, shares hardware interrupts
\* as Irq says: HookIRQ, RestoreIRQ and END_OF_IRQ are not disturbed.
THEOREM ImplementsIrq == UserSpec => Spec
<1>1. UserInit => Init
  BY DEF UserInit
<1> QED
  BY <1>1, StepIsIrqs, PTL DEF UserSpec, Spec

-----------------------------------------------------------------------------
LEMMA UserInitInv == ASSUME UserInit PROVE UserInv
<1>1. depth = 0 /\ calls = <<>> /\ psp = 0 /\ first = user_vect
  BY DEF UserInit, Init
<1>2. UserTypes
  <2>1. NoInterrupt \in interrupt_hook
    BY DEF NoInterrupt, interrupt_hook, Handler
  <2>2. user_vect \in [Vectors -> Handler]
    BY DEF UserInit, Handler
  <2>3. calls \in Seq(CallRecord)
    BY <1>1
  <2> QED
    BY <1>1, <2>1, <2>2, <2>3, IrqAssumption
       DEF UserTypes, UserTypeOK, UserInit, CallRecord
<1>3. Stacked
  BY <1>1 DEF Stacked, GoesBack, PspRight
<1>4. Chained
  BY <1>1 DEF Chained, UserVectRight, OldRight, OnlyForced, LastUser
<1> QED
  BY <1>2, <1>3, <1>4 DEF UserInv

\* The chains of the vectors do not change with the programs that call.
LEMMA ChainedKept ==
  ASSUME Chained, UNCHANGED <<user_vect, state, first, depth>>
  PROVE  Chained'
BY DEF Chained, UserVectRight, OldRight, OnlyForced, LastUser, Has

\* While nobody is called, PSP is the innermost program's.
LEMMA StackedIdle ==
  ASSUME calls' = <<>>, psp' = depth'
  PROVE  Stacked'
BY DEF Stacked, GoesBack, PspRight

\* A program that starts with vector num, and takes it only if it was told to
\* or if nobody has it, becomes the last of the chain.
LEMMA HookedChained ==
  ASSUME UserInv, Spawn, NEW num \in Vectors, NEW force,
         Hooked(depth + 1, force, num), UNCHANGED first,
         force = num \/ user_vect[num] = NULL
  PROVE  Chained'
<1> DEFINE p == depth + 1
<1>1. /\ depth \in Nat /\ depth' = depth + 1 /\ p \in Program
      /\ state \in [Program -> interrupt_hook] /\ user_vect \in [Vectors -> Handler]
  BY IrqAssumption DEF UserInv, UserTypes, UserTypeOK, Spawn, Program
<1>2. /\ \A e \in 1 .. depth : e \in Program /\ e # p /\ state'[e] = state[e]
      /\ state'[p].interrupt_num = num /\ state'[p].force_vector = force
      /\ state'[p].old_isr = user_vect[num]
  BY <1>1, IrqAssumption DEF Hooked, Program, UserInv, UserTypes
<1>3. user_vect'[num] = p /\ \A i \in Vectors \ {num} : user_vect'[i] = user_vect[i]
  BY <1>1 DEF Hooked
<1>4. \A i \in Vectors : LastUser(i, depth, user_vect[i])
  BY DEF UserInv, Chained, UserVectRight
<1>5. \A e \in 1 .. depth : \A i \in Vectors : Has(e, i)' <=> Has(e, i)
  BY <1>2 DEF Has
<1>6. UserVectRight'
  <2> SUFFICES ASSUME NEW i \in Vectors PROVE LastUser(i, depth, user_vect[i])'
    BY DEF UserVectRight
  <2>1. CASE i = num
    BY <1>1, <1>2, <1>3, <2>1 DEF LastUser, Has
  <2>2. CASE i # num
    <3>1. state'[depth + 1].interrupt_num # i
      BY <1>2, <2>2
    <3>2. \A e \in 1 .. depth + 1 : Has(e, i)' => e \in 1 .. depth /\ Has(e, i)
      BY <1>1, <1>5, <3>1 DEF Has
    <3> QED
      BY <1>1, <1>3, <1>4, <1>5, <2>2, <3>2 DEF LastUser
  <2> QED
    BY <2>1, <2>2
<1>7. OldRight'
  <2> SUFFICES ASSUME NEW e \in 1 .. depth + 1, NEW i \in Vectors, Has(e, i)'
               PROVE  LastUser(i, e - 1, state[e].old_isr)'
    BY <1>1 DEF OldRight
  <2>1. CASE e = p
    <3>1. i = num
      BY <1>2, <2>1 DEF Has
    <3> QED
      BY <1>1, <1>2, <1>4, <1>5, <2>1, <3>1 DEF LastUser
  <2>2. CASE e # p
    <3>1. e \in 1 .. depth /\ \A k \in 1 .. e - 1 : k \in 1 .. depth
      BY <1>1, <2>2
    <3>2. LastUser(i, e - 1, state[e].old_isr)
      BY <1>5, <3>1 DEF UserInv, Chained, OldRight
    <3> QED
      BY <1>1, <1>2, <1>5, <3>1, <3>2 DEF LastUser
  <2> QED
    BY <2>1, <2>2
<1>8. OnlyForced'
  <2> SUFFICES ASSUME NEW e \in 1 .. depth + 1, NEW q \in 1 .. e - 1,
                      NEW i \in Vectors, Has(e, i)', Has(q, i)'
               PROVE  state'[e].force_vector = i
    BY <1>1 DEF OnlyForced
  <2>0. q \in 1 .. depth
    BY <1>1
  <2>1. CASE e = p
    <3>1. i = num
      BY <1>2, <2>1 DEF Has
    <3>2. Has(q, num)
      BY <1>5, <2>0, <3>1
    <3>3. user_vect[num] # NULL
      BY <1>1, <1>4, <2>0, <3>2 DEF LastUser, NULL
    <3> QED
      BY <1>2, <2>1, <3>1, <3>3
  <2>2. CASE e # p
    <3>1. e \in 1 .. depth
      BY <1>1, <2>2
    <3> QED
      BY <1>2, <1>5, <2>0, <3>1 DEF UserInv, Chained, OnlyForced
  <2> QED
    BY <2>1, <2>2
<1> QED
  BY <1>6, <1>7, <1>8 DEF Chained

\* A program that starts without a vector leaves the chains as they are.
LEMMA UnhookedChained ==
  ASSUME UserInv, Spawn, UNCHANGED <<user_vect, first>>,
         state' = [state EXCEPT ![depth + 1] = NoInterrupt]
  PROVE  Chained'
<1>1. /\ depth \in Nat /\ depth' = depth + 1 /\ depth + 1 \in Program
      /\ state \in [Program -> interrupt_hook]
  BY IrqAssumption DEF UserInv, UserTypes, UserTypeOK, Spawn, Program
<1>2. /\ \A e \in 1 .. depth : e \in Program /\ state'[e] = state[e]
      /\ state'[depth + 1].interrupt_num = 0
  BY <1>1, IrqAssumption DEF NoInterrupt, Program, UserInv, UserTypes
<1>3. \A e \in 1 .. depth + 1 : \A i \in Vectors :
        Has(e, i)' <=> e \in 1 .. depth /\ Has(e, i)
  <2> SUFFICES ASSUME NEW e \in 1 .. depth + 1, NEW i \in Vectors
               PROVE  Has(e, i)' <=> e \in 1 .. depth /\ Has(e, i)
    OBVIOUS
  <2>1. i # 0
    BY UserIntAssumption DEF Vectors
  <2>2. CASE e = depth + 1
    BY <1>1, <1>2, <2>1, <2>2 DEF Has
  <2>3. CASE e # depth + 1
    <3>1. e \in 1 .. depth
      BY <1>1, <2>3
    <3> QED
      BY <1>2, <3>1 DEF Has
  <2> QED
    BY <2>2, <2>3
<1>4. UserVectRight'
  BY <1>1, <1>3 DEF UserVectRight, LastUser, UserInv, Chained
<1>5. OldRight'
  <2> SUFFICES ASSUME NEW e \in 1 .. depth + 1, NEW i \in Vectors, Has(e, i)'
               PROVE  LastUser(i, e - 1, state[e].old_isr)'
    BY <1>1 DEF OldRight
  <2>1. e \in 1 .. depth /\ Has(e, i) /\ \A k \in 1 .. e - 1 : k \in 1 .. depth + 1
    BY <1>1, <1>3
  <2>2. LastUser(i, e - 1, state[e].old_isr)
    BY <2>1 DEF UserInv, Chained, OldRight
  <2> QED
    BY <1>1, <1>2, <1>3, <2>1, <2>2 DEF LastUser
<1>6. OnlyForced'
  BY <1>1, <1>2, <1>3 DEF OnlyForced, UserInv, Chained
<1> QED
  BY <1>4, <1>5, <1>6 DEF Chained

\* The last program gives its vector back to the one before it in the chain.
LEMMA EndChained ==
  ASSUME UserInv, End
  PROVE  Chained'
<1>1. /\ depth \in Nat /\ depth > 0 /\ depth' = depth - 1 /\ depth \in Program
      /\ state \in [Program -> interrupt_hook] /\ user_vect \in [Vectors -> Handler]
      /\ first' = first
  BY IrqAssumption DEF UserInv, UserTypes, UserTypeOK, End, Exit, Program
<1>2. RestoreInterrupt(depth)
  BY DEF End
<1>3. \A e \in 1 .. depth - 1 : /\ e \in 1 .. depth /\ state'[e] = state[e]
                               /\ \A i \in Vectors : Has(e, i)' <=> Has(e, i)
  <2> SUFFICES ASSUME NEW e \in 1 .. depth - 1
               PROVE  e \in 1 .. depth /\ state'[e] = state[e]
    BY DEF Has
  <2>1. e \in Program /\ e # depth /\ e \in 1 .. depth
    BY <1>1, IrqAssumption DEF Program
  <2> QED
    BY <1>1, <1>2, <2>1 DEF RestoreInterrupt
<1>4. \A i \in Vectors : LastUser(i, depth - 1, user_vect'[i])
  <2> SUFFICES ASSUME NEW i \in Vectors PROVE LastUser(i, depth - 1, user_vect'[i])
    OBVIOUS
  <2>1. CASE Has(depth, i)
    <3>1. i # 0
      BY UserIntAssumption DEF Vectors
    <3>2. user_vect'[i] = state[depth].old_isr
      BY <1>1, <1>2, <2>1, <3>1 DEF RestoreInterrupt, Has
    <3> QED
      BY <1>1, <2>1, <3>2 DEF UserInv, Chained, OldRight
  <2>2. CASE ~Has(depth, i)
    <3>1. user_vect'[i] = user_vect[i]
      BY <1>1, <1>2, <2>2 DEF RestoreInterrupt, Has
    <3>2. LastUser(i, depth, user_vect[i])
      BY DEF UserInv, Chained, UserVectRight
    <3> QED
      BY <1>1, <2>2, <3>1, <3>2 DEF LastUser
  <2> QED
    BY <2>1, <2>2
<1>5. UserVectRight'
  <2> SUFFICES ASSUME NEW i \in Vectors PROVE LastUser(i, depth, user_vect[i])'
    BY DEF UserVectRight
  <2> QED
    BY <1>1, <1>3, <1>4 DEF LastUser
<1>6. OldRight'
  <2> SUFFICES ASSUME NEW e \in 1 .. depth - 1, NEW i \in Vectors, Has(e, i)'
               PROVE  LastUser(i, e - 1, state[e].old_isr)'
    BY <1>1 DEF OldRight
  <2>1. e \in 1 .. depth /\ Has(e, i) /\ \A k \in 1 .. e - 1 : k \in 1 .. depth - 1
    BY <1>1, <1>3
  <2>2. LastUser(i, e - 1, state[e].old_isr)
    BY <2>1 DEF UserInv, Chained, OldRight
  <2> QED
    BY <1>1, <1>3, <2>1, <2>2 DEF LastUser
<1>7. OnlyForced'
  <2> SUFFICES ASSUME NEW e \in 1 .. depth - 1, NEW q \in 1 .. e - 1,
                      NEW i \in Vectors, Has(e, i)', Has(q, i)'
               PROVE  state'[e].force_vector = i
    BY <1>1 DEF OnlyForced
  <2>1. q \in 1 .. depth - 1
    BY <1>1
  <2> QED
    BY <1>3, <2>1 DEF UserInv, Chained, OnlyForced
<1> QED
  BY <1>5, <1>6, <1>7 DEF Chained

-----------------------------------------------------------------------------
\* What the search finds is a vector that nobody has.
LEMMA FreeVectors ==
  FindFreeInterrupt \subseteq {i \in Vectors : user_vect[i] = NULL}
BY UserIntAssumption DEF FindFreeInterrupt, UserVectors, Vectors

\* Starting a program keeps the types.
LEMMA StartTypes ==
  ASSUME UserInv, Start \/ StartUnhooked
  PROVE  UserTypes'
<1>1. /\ depth \in Nat /\ depth' = depth + 1 /\ depth + 1 \in Program
      /\ depth' \in 0 .. MaxDepth /\ psp' \in 0 .. MaxDepth
      /\ calls' = calls /\ first' = first
  BY IrqAssumption
     DEF UserInv, UserTypes, Start, StartUnhooked, Spawn, Program
<1>2. /\ state \in [Program -> interrupt_hook]
      /\ user_vect \in [Vectors -> Handler]
      /\ depth + 1 \in Handler
  BY <1>1 DEF UserInv, UserTypes, UserTypeOK, Handler
<1>3. state' \in [Program -> interrupt_hook] /\ user_vect' \in [Vectors -> Handler]
  <2>1. CASE StartUnhooked
    <3>1. NoInterrupt \in interrupt_hook
      BY DEF NoInterrupt, interrupt_hook, Handler
    <3> QED
      BY <1>2, <2>1, <3>1 DEF StartUnhooked
  <2>2. CASE Start
    <3>1. PICK force \in {0} \cup Vectors, num \in Vectors :
            Hooked(depth + 1, force, num)
      BY <2>2, FreeVectors DEF Start, FindAndHookInterrupt
    <3>2. [force_vector |-> force, interrupt_num |-> num, old_isr |-> user_vect[num]]
            \in interrupt_hook
      BY <1>2 DEF interrupt_hook
    <3> QED
      BY <1>2, <3>1, <3>2 DEF Hooked
  <2> QED
    BY <2>1, <2>2
<1> QED
  BY <1>1, <1>3 DEF UserInv, UserTypes, UserTypeOK

LEMMA StartInv ==
  ASSUME UserInv, Start \/ StartUnhooked
  PROVE  UserInv'
<1>1. UserTypes'
  BY StartTypes
<1>2. Stacked'
  BY StackedIdle DEF Start, StartUnhooked, Spawn
<1>3. Chained'
  <2>1. CASE StartUnhooked
    BY <2>1, UnhookedChained DEF StartUnhooked
  <2>2. CASE Start
    <3>1. Spawn /\ UNCHANGED first /\ FindAndHookInterrupt(depth + 1)
      BY <2>2 DEF Start
    <3>2. PICK force \in {0} \cup Vectors, num \in Vectors :
            /\ Hooked(depth + 1, force, num)
            /\ force = num \/ user_vect[num] = NULL
      BY <3>1, FreeVectors DEF FindAndHookInterrupt
    <3> QED
      BY <3>1, <3>2, HookedChained
  <2> QED
    BY <2>1, <2>2
<1> QED
  BY <1>1, <1>2, <1>3 DEF UserInv

LEMMA EndInv == ASSUME UserInv, End PROVE UserInv'
<1>1. /\ depth \in Nat /\ depth' = depth - 1 /\ depth \in Program
      /\ depth' \in 0 .. MaxDepth /\ psp' = depth'
      /\ calls = <<>> /\ calls' = <<>> /\ first' = first
      /\ RestoreInterrupt(depth)
  BY IrqAssumption DEF UserInv, UserTypes, End, Exit, Program
<1>2. state' \in [Program -> interrupt_hook] /\ user_vect' \in [Vectors -> Handler]
  <2>1. /\ state \in [Program -> interrupt_hook]
        /\ user_vect \in [Vectors -> Handler]
    BY DEF UserInv, UserTypes, UserTypeOK
  <2>2. /\ state[depth] \in interrupt_hook
        /\ [state[depth] EXCEPT !.interrupt_num = 0] \in interrupt_hook
        /\ state[depth].old_isr \in Handler
    BY <1>1, <2>1 DEF interrupt_hook
  <2>3. CASE state[depth].interrupt_num = 0
    BY <1>1, <2>1, <2>3 DEF RestoreInterrupt
  <2>4. CASE state[depth].interrupt_num # 0
    BY <1>1, <2>1, <2>2, <2>4 DEF RestoreInterrupt
  <2> QED
    BY <2>3, <2>4
<1>3. UserTypes'
  BY <1>1, <1>2 DEF UserInv, UserTypes, UserTypeOK
<1> QED
  BY <1>1, <1>3, EndChained, StackedIdle DEF UserInv

\* A service routine is entered: SwitchPSP puts it on the stack.
LEMMA CallInv == ASSUME UserInv, Call PROVE UserInv'
<1>1. UNCHANGED <<user_vect, state, first, depth>>
  BY DEF Call, vars, programs
<1>2. PICK p \in Program : SwitchPSP(p)
  BY DEF Call
<1>3. /\ psp \in 0 .. MaxDepth /\ depth \in 0 .. MaxDepth
      /\ calls \in Seq(CallRecord)
  BY DEF UserInv, UserTypes, UserTypeOK, CallRecord
<1> DEFINE r == [isr |-> p, old_psp |-> psp]
<1>4. r \in CallRecord
  BY <1>3 DEF CallRecord
<1>5. /\ calls' \in Seq(CallRecord) /\ Len(calls') = Len(calls) + 1
      /\ Len(calls) \in Nat
      /\ \A k \in 1 .. Len(calls) : calls'[k] = calls[k]
      /\ calls'[Len(calls) + 1] = r
  BY <1>2, <1>3, <1>4 DEF SwitchPSP
<1>6. psp' = p /\ p \in 0 .. MaxDepth
  BY <1>2, IrqAssumption DEF SwitchPSP, Program
<1>7. UserTypes'
  BY <1>1, <1>5, <1>6 DEF UserInv, UserTypes, UserTypeOK, CallRecord
<1>8. PspRight'
  <2>1. calls' # <<>>
    BY <1>5
  <2> QED
    BY <1>5, <1>6, <2>1 DEF PspRight
<1>9. GoesBack'
  <2> SUFFICES ASSUME NEW k \in 1 .. Len(calls) + 1
               PROVE  calls'[k].old_psp = IF k = 1 THEN depth ELSE calls'[k - 1].isr
    BY <1>1, <1>5 DEF GoesBack
  <2>1. CASE k = Len(calls) + 1
    <3>1. psp = IF calls = <<>> THEN depth ELSE calls[Len(calls)].isr
      BY DEF UserInv, Stacked, PspRight
    <3>2. calls = <<>> <=> k = 1
      BY <1>3, <2>1
    <3> QED
      BY <1>5, <2>1, <3>1, <3>2
  <2>2. CASE k # Len(calls) + 1
    <3>1. k \in 1 .. Len(calls) /\ (k # 1 => k - 1 \in 1 .. Len(calls))
      BY <1>5, <2>2
    <3> QED
      BY <1>5, <3>1 DEF UserInv, Stacked, GoesBack
  <2> QED
    BY <2>1, <2>2
<1> QED
  BY <1>1, <1>7, <1>8, <1>9, ChainedKept DEF UserInv, Stacked

\* A service routine ends: what it remembers is right again.
LEMMA RestoreInvariant == ASSUME UserInv, RestorePSP PROVE UserInv'
<1>1. UNCHANGED <<user_vect, state, first, depth>>
  BY DEF RestorePSP, vars, programs
<1> DEFINE n == Len(calls)
<1>2. /\ calls \in Seq(CallRecord) /\ n \in Nat /\ n > 0
      /\ depth \in 0 .. MaxDepth
  BY DEF UserInv, UserTypes, UserTypeOK, CallRecord, RestorePSP
<1>3. /\ calls' \in Seq(CallRecord) /\ Len(calls') = n - 1
      /\ \A k \in 1 .. n - 1 : calls'[k] = calls[k]
  <2>1. calls' = SubSeq(calls, 1, n - 1)
    BY DEF RestorePSP
  <2>2. \A k \in 1 .. n - 1 : calls[k] \in CallRecord
    BY <1>2
  <2> DEFINE m == n - 1
  <2>3. m \in Int /\ m - 1 + 1 = m /\ m >= 0
    BY <1>2
  <2> HIDE DEF m
  <2>4. /\ SubSeq(calls, 1, m) \in Seq(CallRecord)
        /\ Len(SubSeq(calls, 1, m)) = IF 1 <= m THEN m - 1 + 1 ELSE 0
        /\ \A k \in 1 .. m - 1 + 1 : SubSeq(calls, 1, m)[k] = calls[1 + k - 1]
    BY <2>2, <2>3, SubSeqProperties DEF m
  <2>5. Len(SubSeq(calls, 1, m)) = m
    BY <2>3, <2>4
  <2>6. \A k \in 1 .. m : SubSeq(calls, 1, m)[k] = calls[k]
    <3> SUFFICES ASSUME NEW k \in 1 .. m PROVE SubSeq(calls, 1, m)[k] = calls[k]
      OBVIOUS
    <3>1. 1 + k - 1 = k
      OBVIOUS
    <3> QED
      BY <2>3, <2>4, <3>1
  <2> QED
    BY <2>1, <2>4, <2>5, <2>6 DEF m
<1>4. psp' = calls[n].old_psp /\ calls[n] \in CallRecord
  BY <1>2 DEF RestorePSP
<1>5. UserTypes'
  BY <1>1, <1>3, <1>4 DEF UserInv, UserTypes, UserTypeOK, CallRecord
<1>6. psp' = IF n = 1 THEN depth ELSE calls[n - 1].isr
  <2>1. n \in 1 .. Len(calls)
    BY <1>2
  <2> QED
    BY <1>4, <2>1 DEF UserInv, Stacked, GoesBack
<1>7. PspRight'
  <2>1. calls' = <<>> <=> n = 1
    BY <1>2, <1>3
  <2>2. n # 1 => calls'[n - 1] = calls[n - 1]
    BY <1>2, <1>3
  <2> QED
    BY <1>1, <1>3, <1>6, <2>1, <2>2 DEF PspRight
<1>8. GoesBack'
  <2> SUFFICES ASSUME NEW k \in 1 .. n - 1
               PROVE  calls'[k].old_psp = IF k = 1 THEN depth ELSE calls'[k - 1].isr
    BY <1>1, <1>3 DEF GoesBack
  <2>1. k \in 1 .. n /\ (k # 1 => k - 1 \in 1 .. n - 1)
    BY <1>2
  <2> QED
    BY <1>3, <2>1 DEF UserInv, Stacked, GoesBack
<1> QED
  BY <1>1, <1>5, <1>7, <1>8, ChainedKept DEF UserInv, Stacked

\* The hardware's interrupts change nothing of all this.
LEMMA HardwareInv ==
  ASSUME UserInv, Hardware \/ UNCHANGED <<vars, userVars>>
  PROVE  UserInv'
<1>1. UNCHANGED <<depth, userVars>>
  BY DEF Hardware, HookIRQ, RestoreIRQ, Raise, RunISR, BiosISR, vars, programs
<1>2. UserTypes' /\ Stacked'
  BY <1>1 DEF UserInv, UserTypes, UserTypeOK, Stacked, GoesBack, PspRight, userVars
<1>3. Chained'
  BY <1>1, ChainedKept DEF UserInv, userVars
<1> QED
  BY <1>2, <1>3 DEF UserInv

\* The chains of the vectors and the stack of calls are right in every run.
THEOREM UserInvariance == UserSpec => []UserInv
<1>1. UserInv /\ [UserNext]_<<vars, userVars>> => UserInv'
  BY StartInv, EndInv, CallInv, RestoreInvariant, HardwareInv DEF UserNext
<1> QED
  BY <1>1, UserInitInv, PTL DEF UserSpec

\* Every variable of ints.c's user interrupts keeps its type.
THEOREM UserTypeCorrect == UserSpec => []UserTypeOK
<1>1. UserInv => UserTypeOK
  BY DEF UserInv, UserTypes
<1> QED
  BY <1>1, UserInvariance, PTL

\* SwitchPSP and RestorePSP keep DOS informed of who runs, however deep
\* service routines call one another.
THEOREM RightProcess == UserSpec => []PspRight
<1>1. UserInv => PspRight
  BY DEF UserInv, Stacked
<1> QED
  BY <1>1, UserInvariance, PTL

\* A driver's vector leads to it unless another was told to take it.
THEOREM AlwaysAnswered == UserSpec => []Answered
<1>1. UserInv => Answered
  <2> SUFFICES ASSUME UserInv, NEW p \in 1 .. depth,
                      state[p].interrupt_num # 0,
                      user_vect[state[p].interrupt_num] # p
               PROVE  \E q \in p + 1 .. depth :
                        state[q].force_vector = state[p].interrupt_num
    BY DEF Answered
  <2> DEFINE i == state[p].interrupt_num
             v == user_vect[i]
  <2>1. depth \in Nat /\ i \in Vectors /\ Has(p, i)
    BY IrqAssumption
       DEF UserInv, UserTypes, UserTypeOK, interrupt_hook, Program, Has
  <2>2. v \in 1 .. depth /\ Has(v, i) /\ \A e \in v + 1 .. depth : ~Has(e, i)
    BY <2>1 DEF UserInv, Chained, UserVectRight, LastUser
  <2>3. v \in p + 1 .. depth /\ p \in 1 .. v - 1
    BY <2>1, <2>2
  <2> QED
    BY <2>1, <2>2, <2>3 DEF UserInv, Chained, OnlyForced
<1> QED
  BY <1>1, UserInvariance, PTL

\* FindAndHookInterrupt and RestoreInterrupt leave every vector that no
\* running driver has as it was before all of them.
THEOREM AllGivenBack == UserSpec => []VectorsGivenBack
<1>1. UserInv => VectorsGivenBack
  BY DEF UserInv, Chained, UserVectRight, LastUser, VectorsGivenBack, Has
<1> QED
  BY <1>1, UserInvariance, PTL

\* What is shown above of END_OF_IRQ and of HookIRQ holds among drivers that
\* have interrupts of their own: nothing is acknowledged twice, and lines are
\* given back.
THEOREM SharedAsBefore == UserSpec => [](AckedOnce /\ GivenBack)
BY ImplementsIrq, Acknowledged, Restored, PTL

=============================================================================
