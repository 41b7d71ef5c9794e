---------------------------- MODULE SquashProofs ----------------------------
(***************************************************************************)
(* Proofs about Squash and ResponseFile: a command line that is shortened  *)
(* fits, and what was moved to the response file is read back.             *)
(***************************************************************************)
EXTENDS ResponseFile, FiniteSetTheorems, SequenceTheorems, WellFoundedInduction, TLAPS

-----------------------------------------------------------------------------
(* Functions that are defined by recursion on the naturals.                *)

LEMMA Least ==
  ASSUME NEW T, T \subseteq Nat, T # {}
  PROVE  \E x \in T : \A y \in T : x <= y
<1>. DEFINE R == {p \in Nat \X Nat : p[1] < p[2]}
<1>1. IsWellFoundedOn(R, Nat)
  BY NatLessThanWellFounded DEF OpToRel
<1>2. \A x, y \in Nat : y < x => <<y, x>> \in R
  OBVIOUS
<1>. HIDE DEF R
<1>3. PICK x \in T : \A y \in T : ~(<<y, x>> \in R)
  BY <1>1, WFMin
<1>4. \A y \in T : ~(y < x)
  BY <1>2, <1>3
<1>. QED
  BY <1>4

LEMMA Induct ==
  ASSUME NEW S, 0 \in S, \A n \in Nat : n \in S => n + 1 \in S
  PROVE  Nat \subseteq S
<1>. DEFINE T == Nat \ S
<1>. SUFFICES ASSUME T # {} PROVE FALSE
  OBVIOUS
<1>1. PICK x \in T : \A y \in T : x <= y
  BY Least
<1>2. x # 0 /\ x - 1 \in Nat
  OBVIOUS
<1>3. x - 1 \in S
  BY <1>1, <1>2
<1>. QED
  BY <1>2, <1>3

\* u begins with b, and F gives each value from the one before.
Defined(u, N, X, b, F) ==
  /\ u \in [0 .. N -> X]
  /\ u[0] = b /\ \A k \in 1 .. N : u[k] = F[<<k, u[k - 1]>>]

LEMMA Recursion ==
  ASSUME NEW X, NEW N \in Nat, NEW b \in X, NEW F \in [(1 .. N) \X X -> X]
  PROVE  \E u : Defined(u, N, X, b, F)
<1>. DEFINE Upto(u, m) ==
              /\ u \in [0 .. m -> X]
              /\ u[0] = b /\ \A k \in 1 .. m : u[k] = F[<<k, u[k - 1]>>]
            S == {m \in Nat : m <= N => \E u : Upto(u, m)}
<1>1. 0 \in S
  <2>. DEFINE u == [k \in 0 .. 0 |-> b]
  <2>1. Upto(u, 0)
    OBVIOUS
  <2>. QED
    BY <2>1
<1>2. ASSUME NEW m \in Nat, m \in S PROVE m + 1 \in S
  <2>. SUFFICES ASSUME m + 1 <= N PROVE \E u : Upto(u, m + 1)
    OBVIOUS
  <2>1. PICK u : Upto(u, m)
    BY <1>2
  <2>. DEFINE h == [k \in 0 .. m + 1 |-> IF k = m + 1 THEN F[<<m + 1, u[m]>>] ELSE u[k]]
  <2>2. F[<<m + 1, u[m]>>] \in X
    <3>1. u[m] \in X /\ m + 1 \in 1 .. N
      BY <2>1
    <3>. QED
      BY <3>1
  <2>3. h \in [0 .. m + 1 -> X]
    BY <2>1, <2>2
  <2>4. h[0] = b /\ h[m + 1] = F[<<m + 1, u[m]>>] /\ \A k \in 0 .. m : h[k] = u[k]
    BY <2>1
  <2>. HIDE DEF h
  <2>5. ASSUME NEW k \in 1 .. m + 1 PROVE h[k] = F[<<k, h[k - 1]>>]
    <3>1. CASE k = m + 1
      <4>1. k - 1 = m /\ m \in 0 .. m
        BY <3>1
      <4>. QED
        BY <2>4, <3>1, <4>1
    <3>2. CASE k # m + 1
      <4>1. k \in 1 .. m /\ k \in 0 .. m /\ k - 1 \in 0 .. m
        BY <3>2
      <4>. QED
        BY <2>1, <2>4, <4>1
    <3>. QED
      BY <3>1, <3>2
  <2>6. Upto(h, m + 1)
    BY <2>3, <2>4, <2>5
  <2>. QED
    BY <2>6
<1>3. N \in S
  <2>. HIDE DEF S
  <2>. QED
    BY <1>1, <1>2, Induct
<1>. QED
  BY <1>3 DEF Defined

\* u and v come from the same recursion.
Alike(u, v, N) ==
  u[0] = v[0] /\ \A k \in 1 .. N : u[k - 1] = v[k - 1] => u[k] = v[k]

LEMMA Same ==
  ASSUME NEW N \in Nat, NEW u, NEW v, Alike(u, v, N)
  PROVE  u[N] = v[N]
<1>. DEFINE S == {m \in Nat : m <= N => u[m] = v[m]}
<1>1. 0 \in S
  BY DEF Alike
<1>2. ASSUME NEW m \in Nat, m \in S PROVE m + 1 \in S
  <2>. SUFFICES ASSUME m + 1 <= N PROVE u[m + 1] = v[m + 1]
    OBVIOUS
  <2>1. m + 1 \in 1 .. N /\ (m + 1) - 1 = m /\ u[m] = v[m]
    BY <1>2
  <2>. QED
    BY <2>1 DEF Alike
<1>3. Nat \subseteq S
  <2>. HIDE DEF S
  <2>. QED
    BY <1>1, <1>2, Induct
<1>. QED
  BY <1>3

-----------------------------------------------------------------------------
(* The length of a command line.                                           *)

Strings == String \cup {rsp}

LEMMA LineSteps ==
  ASSUME NEW s \in Seq(Strings)
  PROVE  \E u \in [0 .. Len(s) -> Nat] :
           /\ u[0] = 0 /\ LineLength(s) = u[Len(s)]
           /\ \A k \in 1 .. Len(s) : u[k] = u[k - 1] + 1 + strlen[s[k]]
<1>. DEFINE N == Len(s)
            F == [p \in (1 .. N) \X Nat |-> p[2] + 1 + strlen[s[p[1]]]]
            f == CHOOSE u : u = [k \in 0 .. N |-> IF k = 0 THEN 0
                                                  ELSE u[k - 1] + 1 + strlen[s[k]]]
<1>1. N \in Nat /\ \A k \in 1 .. N : strlen[s[k]] \in Nat
  BY SquashAssumption DEF Strings
<1>2. LineLength(s) = f[N]
  BY SMT DEF LineLength
<1>. HIDE DEF N
<1>3. F \in [(1 .. N) \X Nat -> Nat]
  BY <1>1
<1>4. \A k \in 1 .. N, x \in Nat : F[<<k, x>>] = x + 1 + strlen[s[k]]
  BY <1>1
<1>. HIDE DEF F
<1>5. PICK v \in [0 .. N -> Nat] :
        v[0] = 0 /\ \A k \in 1 .. N : v[k] = F[<<k, v[k - 1]>>]
  <2>1. N \in Nat /\ 0 \in Nat
    BY <1>1
  <2>2. \E v : Defined(v, N, Nat, 0, F)
    BY <1>3, <2>1, Recursion
  <2>. QED
    BY <2>2 DEF Defined
<1>6. ASSUME NEW k \in 1 .. N PROVE v[k] = v[k - 1] + 1 + strlen[s[k]]
  <2>1. v[k - 1] \in Nat
    BY <1>1, <1>5
  <2>. QED
    BY <1>4, <1>5, <2>1
<1>7. v = [k \in 0 .. N |-> IF k = 0 THEN 0 ELSE v[k - 1] + 1 + strlen[s[k]]]
  <2>1. ASSUME NEW k \in 0 .. N
        PROVE  v[k] = IF k = 0 THEN 0 ELSE v[k - 1] + 1 + strlen[s[k]]
    BY <1>1, <1>5, <1>6
  <2>. QED
    BY <2>1
<1>8. f = [k \in 0 .. N |-> IF k = 0 THEN 0 ELSE f[k - 1] + 1 + strlen[s[k]]]
  BY <1>7
<1>. HIDE DEF f
<1>9. f[0] = 0 /\ \A k \in 1 .. N : f[k] = f[k - 1] + 1 + strlen[s[k]]
  BY <1>1, <1>8
<1>10. f[N] = v[N]
  <2>1. \A k \in 1 .. N : f[k - 1] = v[k - 1] => f[k] = v[k]
    BY <1>6, <1>9
  <2>2. Alike(f, v, N)
    BY <1>5, <1>9, <2>1 DEF Alike
  <2>. QED
    BY <1>1, <2>2, Same
<1>. QED
  BY <1>2, <1>5, <1>6, <1>10 DEF N

LEMMA LineAppend ==
  ASSUME NEW s \in Seq(Strings), NEW x \in Strings
  PROVE  /\ LineLength(s) \in Nat /\ strlen[x] \in Nat
         /\ LineLength(Append(s, x)) = LineLength(s) + 1 + strlen[x]
<1>. DEFINE t == Append(s, x)
            N == Len(s)
<1>1. /\ t \in Seq(Strings) /\ N \in Nat /\ Len(t) = N + 1 /\ t[N + 1] = x
      /\ \A k \in 1 .. N : t[k] = s[k]
  OBVIOUS
<1>. HIDE DEF t
<1>2. PICK u \in [0 .. N -> Nat] :
        /\ u[0] = 0 /\ LineLength(s) = u[N]
        /\ \A k \in 1 .. N : u[k] = u[k - 1] + 1 + strlen[s[k]]
  BY LineSteps
<1>3. PICK v \in [0 .. N + 1 -> Nat] :
        /\ v[0] = 0 /\ LineLength(t) = v[N + 1]
        /\ \A k \in 1 .. N + 1 : v[k] = v[k - 1] + 1 + strlen[t[k]]
  BY <1>1, LineSteps
<1>. HIDE DEF N
<1>4. ASSUME NEW k \in 1 .. N, u[k - 1] = v[k - 1] PROVE u[k] = v[k]
  <2>1. k \in 1 .. N + 1
    BY <1>1
  <2>. QED
    BY <1>1, <1>2, <1>3, <1>4, <2>1
<1>5. u[N] = v[N]
  <2>1. Alike(u, v, N)
    BY <1>2, <1>3, <1>4 DEF Alike
  <2>. QED
    BY <1>1, <2>1, Same
<1>6. v[N + 1] = v[N] + 1 + strlen[x]
  <2>1. N + 1 \in 1 .. N + 1 /\ (N + 1) - 1 = N
    BY <1>1
  <2>. QED
    BY <1>1, <1>3, <2>1
<1>7. strlen[x] \in Nat /\ u[N] \in Nat
  BY <1>1, SquashAssumption DEF Strings
<1>. QED
  BY <1>2, <1>3, <1>5, <1>6, <1>7 DEF t

\* The length of the first n arguments, one more at a time.
LEMMA LineGrows ==
  ASSUME NEW s \in Seq(String), NEW n \in 1 .. Len(s)
  PROVE  /\ LineLength(SubSeq(s, 1, n)) = LineLength(SubSeq(s, 1, n - 1)) + 1 + strlen[s[n]]
         /\ LineLength(SubSeq(s, 1, n - 1)) \in Nat /\ strlen[s[n]] \in Nat
         /\ SubSeq(s, 1, n - 1) \in Seq(Strings) /\ SubSeq(s, 1, n) \in Seq(Strings)
<1>. DEFINE t == SubSeq(s, 1, n - 1)
<1>1. /\ t \in Seq(Strings) /\ SubSeq(s, 1, n) \in Seq(Strings)
      /\ s[n] \in Strings
  BY DEF Strings
<1>2. SubSeq(s, 1, n) = Append(t, s[n])
  <2>1. /\ Len(t) = n - 1 /\ Len(Append(t, s[n])) = n /\ Len(SubSeq(s, 1, n)) = n
        /\ n \in Nat
    OBVIOUS
  <2>2. ASSUME NEW k \in 1 .. n PROVE SubSeq(s, 1, n)[k] = Append(t, s[n])[k]
    OBVIOUS
  <2>3. Append(t, s[n]) \in Seq(Strings)
    BY <1>1
  <2>. QED
    BY <1>1, <2>1, <2>2, <2>3, SeqEqual
<1>. HIDE DEF t
<1>3. /\ LineLength(t) \in Nat /\ strlen[s[n]] \in Nat
      /\ LineLength(Append(t, s[n])) = LineLength(t) + 1 + strlen[s[n]]
  BY <1>1, LineAppend
<1>. QED
  BY <1>1, <1>2, <1>3 DEF t

LEMMA LineEmpty == LineLength(<<>>) = 0
<1>1. <<>> \in Seq(Strings) /\ Len(<<>>) = 0
  OBVIOUS
<1>. QED
  BY <1>1, LineSteps

\* What SquashToResponseFile leaves on the line and what it writes to the file.
Cutoff(a, f, s, n) ==
  /\ n \in 1 .. Len(s) - 1
  /\ a = Append(SubSeq(s, 1, n), rsp)
  /\ f = SubSeq(s, n + 1, Len(s))

SquashInv ==
  /\ pc \in {"idle", "cut", "write", "ready", "undefined", "exit"}
  /\ pc \in {"cut", "write"} =>
       args = asked /\ args \in Lists /\ i \in 1 .. Len(args) - 1
  /\ pc = "cut" => len = LineLength(SubSeq(args, 1, i + 1)) + strlen[rsp] + 1
  /\ pc = "write" => LineLength(Append(SubSeq(args, 1, i), rsp)) <= MAX_COMMAND_LINE_LEN
  /\ pc = "ready" => /\ asked \in Lists
                     /\ args = asked \/ \E n : Cutoff(args, file, asked, n)
  /\ LineFits

LEMMA Asked ==
  ASSUME NEW s \in Lists
  PROVE  /\ s \in Seq(String) /\ Len(s) \in Nat \ {0}
         /\ SubSeq(s, 1, Len(s)) = s
         /\ LineLength(SubSeq(s, 1, 1)) = 1 + strlen[s[1]]
         /\ strlen[s[1]] + strlen[rsp] + 2 < MAX_COMMAND_LINE_LEN
         /\ MAX_COMMAND_LINE_LEN \in Nat /\ strlen[rsp] \in Nat /\ strlen[s[1]] \in Nat
         /\ rsp \in Strings
<1>1. s \in Seq(String) /\ s # <<>>
  BY SquashAssumption
<1>2. Len(s) \in Nat \ {0}
  BY <1>1
<1>3. SubSeq(s, 1, Len(s)) = s
  <2>1. /\ SubSeq(s, 1, Len(s)) \in Seq(String) /\ Len(SubSeq(s, 1, Len(s))) = Len(s)
    BY <1>1, <1>2
  <2>2. \A k \in 1 .. Len(s) : SubSeq(s, 1, Len(s))[k] = s[k]
    BY <1>1, <1>2
  <2>. QED
    BY <1>1, <2>1, <2>2, SeqEqual
<1>4. LineLength(SubSeq(s, 1, 1)) = 1 + strlen[s[1]] /\ strlen[s[1]] \in Nat
  <2>1. PICK n \in 1 .. Len(s) : n = 1
    BY <1>2
  <2>2. SubSeq(s, 1, n - 1) = <<>>
    BY <1>1, <2>1
  <2>3. /\ LineLength(SubSeq(s, 1, n)) = LineLength(SubSeq(s, 1, n - 1)) + 1 + strlen[s[n]]
        /\ strlen[s[n]] \in Nat
    BY <1>1, LineGrows
  <2>4. LineLength(SubSeq(s, 1, n)) = 0 + 1 + strlen[s[n]]
    BY <2>2, <2>3, LineEmpty
  <2>. QED
    BY <2>1, <2>3, <2>4
<1>. QED
  BY <1>1, <1>2, <1>3, <1>4, SquashAssumption DEF Strings

LEMMA CallInv == ASSUME SquashInv, Call PROVE SquashInv'
<1>1. PICK s \in Lists :
        /\ asked' = s /\ args' = s
        /\ IF LineLength(s) <= MAX_COMMAND_LINE_LEN
           THEN pc' = "ready"
           ELSE /\ pc' = "cut" /\ len' = LineLength(s) + strlen[rsp] + 1
                /\ i' = Len(s) - 1
  BY DEF Call
<1>2. CASE LineLength(s) <= MAX_COMMAND_LINE_LEN
  BY <1>1, <1>2 DEF SquashInv, LineFits
<1>3. CASE ~(LineLength(s) <= MAX_COMMAND_LINE_LEN)
  <2>1. /\ Len(s) \in Nat \ {0} /\ SubSeq(s, 1, Len(s)) = s
        /\ LineLength(SubSeq(s, 1, 1)) = 1 + strlen[s[1]]
        /\ strlen[s[1]] + strlen[rsp] + 2 < MAX_COMMAND_LINE_LEN
        /\ MAX_COMMAND_LINE_LEN \in Nat /\ strlen[rsp] \in Nat /\ strlen[s[1]] \in Nat
    BY Asked
  <2>2. Len(s) # 1
    <3>1. Len(s) = 1 => LineLength(s) = LineLength(SubSeq(s, 1, 1))
      BY <2>1
    <3>. QED
      BY <1>3, <2>1, <3>1
  <2>3. i' \in 1 .. Len(s) - 1 /\ i' + 1 = Len(s)
    BY <1>1, <1>3, <2>1, <2>2
  <2>4. len' = LineLength(SubSeq(args', 1, i' + 1)) + strlen[rsp] + 1
    BY <1>1, <1>3, <2>1, <2>3
  <2>. QED
    BY <1>1, <1>3, <2>3, <2>4 DEF SquashInv, LineFits
<1>. QED
  BY <1>2, <1>3

LEMMA CutInv == ASSUME SquashInv, Cut \/ CutAll PROVE SquashInv'
<1>1. /\ pc = "cut" /\ args = asked /\ args \in Lists /\ i \in 1 .. Len(args) - 1
      /\ len = LineLength(SubSeq(args, 1, i + 1)) + strlen[rsp] + 1
      /\ args' = args /\ asked' = asked
  BY DEF SquashInv, Cut, CutAll
<1>2. /\ args \in Seq(String) /\ Len(args) \in Nat \ {0}
      /\ LineLength(SubSeq(args, 1, 1)) = 1 + strlen[args[1]]
      /\ strlen[args[1]] + strlen[rsp] + 2 < MAX_COMMAND_LINE_LEN
      /\ MAX_COMMAND_LINE_LEN \in Nat /\ strlen[rsp] \in Nat /\ strlen[args[1]] \in Nat
      /\ rsp \in Strings
  BY <1>1, Asked
<1>3. /\ LineLength(SubSeq(args, 1, i + 1))
           = LineLength(SubSeq(args, 1, i)) + 1 + strlen[args[i + 1]]
      /\ LineLength(SubSeq(args, 1, i)) \in Nat /\ strlen[args[i + 1]] \in Nat
      /\ SubSeq(args, 1, i) \in Seq(Strings)
  <2>1. i + 1 \in 1 .. Len(args) /\ (i + 1) - 1 = i
    BY <1>1, <1>2
  <2>. QED
    BY <1>2, <2>1, LineGrows
<1>4. LineLength(Append(SubSeq(args, 1, i), rsp))
        = LineLength(SubSeq(args, 1, i)) + 1 + strlen[rsp]
  BY <1>2, <1>3, LineAppend
<1>5. CASE Cut
  <2>1. /\ i > 1 /\ len' = len - (strlen[args[i + 1]] + 1)
        /\ \/ pc' = "write" /\ i' = i /\ len' < MAX_COMMAND_LINE_LEN
           \/ pc' = "cut" /\ i' = i - 1
    BY <1>5 DEF Cut, MayCut
  <2>2. len' = LineLength(SubSeq(args, 1, i)) + strlen[rsp] + 1
    <3>. DEFINE stay == LineLength(SubSeq(args, 1, i))
                cut == strlen[args[i + 1]]
    <3>1. len = (stay + 1 + cut) + strlen[rsp] + 1 /\ stay \in Nat /\ cut \in Nat
      BY <1>1, <1>3
    <3>2. len' = len - (cut + 1)
      BY <2>1
    <3>. HIDE DEF stay, cut
    <3>. DEFINE r == strlen[rsp]
    <3>3. len = (stay + 1 + cut) + r + 1 /\ r \in Nat
      BY <1>2, <3>1
    <3>. HIDE DEF r
    <3>4. len' = stay + r + 1
      BY <3>1, <3>2, <3>3
    <3>. QED
      BY <3>4 DEF stay, r
  <2>3. CASE pc' = "write" /\ i' = i /\ len' < MAX_COMMAND_LINE_LEN
    <3>1. LineLength(Append(SubSeq(args, 1, i), rsp)) <= MAX_COMMAND_LINE_LEN
      <4>. DEFINE stay == LineLength(SubSeq(args, 1, i))
                  r == strlen[rsp]
                  line == LineLength(Append(SubSeq(args, 1, i), rsp))
      <4>1. /\ line = stay + 1 + r /\ stay \in Nat /\ r \in Nat
            /\ len' = stay + r + 1 /\ len' < MAX_COMMAND_LINE_LEN
            /\ MAX_COMMAND_LINE_LEN \in Nat
        BY <1>2, <1>3, <1>4, <2>2, <2>3
      <4>. HIDE DEF stay, r, line
      <4>2. line <= MAX_COMMAND_LINE_LEN
        BY <4>1
      <4>. QED
        BY <4>2 DEF line
    <3>. QED
      BY <1>1, <2>3, <3>1 DEF SquashInv, LineFits
  <2>4. CASE pc' = "cut" /\ i' = i - 1
    <3>1. i' + 1 = i /\ i' \in 1 .. Len(args) - 1
      BY <1>1, <1>2, <2>1, <2>4
    <3>. QED
      BY <1>1, <2>2, <2>4, <3>1 DEF SquashInv, LineFits
  <2>. QED
    BY <2>1, <2>3, <2>4
<1>6. CASE CutAll
  <2>1. i = 1 /\ i' = i /\ pc' = "write"
    BY <1>1, <1>2, <1>6 DEF CutAll
  <2>2. LineLength(Append(SubSeq(args, 1, i), rsp)) <= MAX_COMMAND_LINE_LEN
    BY <1>2, <1>4, <2>1
  <2>. QED
    BY <1>1, <2>1, <2>2 DEF SquashInv, LineFits
<1>. QED
  BY <1>5, <1>6

LEMMA WriteInv == ASSUME SquashInv, WriteResponseFile PROVE SquashInv'
<1>1. /\ pc = "write" /\ pc' = "ready" /\ asked' = asked /\ args = asked /\ args \in Lists
      /\ i \in 1 .. Len(args) - 1
      /\ LineLength(Append(SubSeq(args, 1, i), rsp)) <= MAX_COMMAND_LINE_LEN
      /\ args' = Append(SubSeq(args, 1, i), rsp)
      /\ file' = SubSeq(args, i + 1, Len(args))
  BY DEF SquashInv, WriteResponseFile, FileContents
<1>2. Cutoff(args', file', asked', i)
  BY <1>1 DEF Cutoff
<1>. QED
  BY <1>1, <1>2 DEF SquashInv, LineFits

LEMMA OthersInv ==
  ASSUME SquashInv, CannotOpen \/ Ran \/ Exit \/ UNCHANGED vars
  PROVE  SquashInv'
<1>1. CASE CannotOpen \/ Ran \/ Exit
  <2>1. pc' \in {"undefined", "idle", "exit"}
    BY <1>1 DEF CannotOpen, Ran, Exit
  <2>. QED
    BY <2>1 DEF SquashInv, LineFits
<1>2. CASE UNCHANGED vars
  BY <1>2 DEF vars, SquashInv, LineFits
<1>. QED
  BY <1>1, <1>2

LEMMA SquashInductive == ASSUME SquashInv, [ReadNext]_<<vars, readVars>> PROVE SquashInv'
<1>1. Next \/ UNCHANGED vars
  BY DEF ReadNext, Open, Skip, Store, EndArg, Close
<1>. QED
  BY <1>1, CallInv, CutInv, WriteInv, OthersInv DEF Next

LEMMA SquashAlways == ReadSpec => []SquashInv
<1>1. ReadInit => SquashInv
  BY DEF ReadInit, Init, SquashInv, LineFits
<1>. QED
  BY <1>1, SquashInductive, PTL DEF ReadSpec

\* SquashToResponseFile leaves a line that DOS can run, wherever it cuts it.
\* For every list of arguments whose first one leaves room for the name of
\* the file, and every limit.
THEOREM Fits == ReadSpec => []LineFits
<1>1. SquashInv => LineFits
  BY DEF SquashInv
<1>. QED
  BY <1>1, SquashAlways, PTL

-----------------------------------------------------------------------------
(* The text of a response file.                                            *)

Letter == Char \cup {" "}

Texts == Seq(Letter)

\* A word and the end of its line.
Add(t, word) == t \o word \o <<" ">>

Added(r, t, word) ==
  /\ r \in Texts
  /\ Len(t) \in Nat /\ Len(word) \in Nat /\ Len(r) = Len(t) + Len(word) + 1
  /\ \A j \in 1 .. Len(t) : r[j] = t[j]
  /\ \A j \in 1 .. Len(word) : r[Len(t) + j] = word[j]
  /\ r[Len(r)] = " "

Join(q, s, t, S) ==
  /\ q \in Seq(S) /\ Len(q) = Len(s) + Len(t)
  /\ Len(s) \in Nat /\ Len(t) \in Nat
  /\ \A k \in 1 .. Len(s) : q[k] = s[k]
  /\ \A k \in 1 .. Len(t) : q[Len(s) + k] = t[k]

LEMMA Joined ==
  ASSUME NEW S, NEW s \in Seq(S), NEW t \in Seq(S)
  PROVE  Join(s \o t, s, t, S)
<1>. DEFINE n == Len(s)
<1>1. Len(t) \in Nat /\ n \in Nat
  OBVIOUS
<1>2. /\ s \o t \in Seq(S) /\ Len(s \o t) = n + Len(t)
      /\ \A k \in 1 .. n + Len(t) :
           (s \o t)[k] = IF k <= n THEN s[k] ELSE t[k - n]
  BY ConcatProperties
<1>. HIDE DEF n
<1>3. ASSUME NEW k \in 1 .. Len(t) PROVE (s \o t)[n + k] = t[k]
  <2>1. n + k \in 1 .. n + Len(t) /\ ~(n + k <= n) /\ (n + k) - n = k
    BY <1>1
  <2>. QED
    BY <1>2, <2>1
<1>. QED
  BY <1>1, <1>2, <1>3 DEF Join, n

LEMMA OneLetter ==
  ASSUME NEW S, NEW x \in S
  PROVE  <<x>> \in Seq(S) /\ Len(<<x>>) = 1 /\ <<x>>[1] = x
OBVIOUS

LEMMA WordAdded ==
  ASSUME NEW t \in Texts, NEW word \in Texts
  PROVE  Added(Add(t, word), t, word)
<1>. DEFINE r == t \o word
            e == <<" ">>
            q == r \o e
            a == Len(t)
            b == Len(word)
<1>1. e \in Seq(Letter) /\ Len(e) = 1 /\ e[1] = " "
  <2>1. " " \in Letter
    BY DEF Letter
  <2>. QED
    BY <2>1, OneLetter, Zenon
<1>2. a \in Nat /\ b \in Nat
  BY DEF Texts
<1>. HIDE DEF e
<1>3. /\ r \in Seq(Letter) /\ Len(r) = a + b
      /\ \A j \in 1 .. a : r[j] = t[j]
      /\ \A j \in 1 .. b : r[a + j] = word[j]
  BY Joined DEF Texts, Join
<1>. HIDE DEF r, a, b
<1>4. /\ q \in Seq(Letter) /\ Len(q) = a + b + 1
      /\ \A j \in 1 .. a + b : q[j] = r[j]
      /\ q[a + b + 1] = " "
  <2>. DEFINE m == a + b
  <2>1. m \in Nat /\ m = Len(r)
    BY <1>2, <1>3
  <2>. HIDE DEF m
  <2>2. r \in Seq(Letter) /\ e \in Seq(Letter) /\ Len(e) = 1
    BY <1>1, <1>3
  <2>3. /\ q \in Seq(Letter) /\ Len(q) = m + Len(e)
        /\ \A j \in 1 .. m : q[j] = r[j]
        /\ \A j \in 1 .. Len(e) : q[m + j] = e[j]
    <3>1. Join(q, r, e, Letter)
      BY <2>2, Joined
    <3>. QED
      BY <2>1, <3>1 DEF Join
  <2>4. 1 \in 1 .. Len(e) /\ Len(q) = m + 1
    BY <2>2, <2>3
  <2>5. q[m + 1] = " "
    BY <1>1, <2>3, <2>4
  <2>. QED
    BY <2>3, <2>4, <2>5 DEF m
<1>. HIDE DEF q
<1>5. \A j \in 1 .. a : q[j] = t[j]
  <2>1. \A j \in 1 .. a : j \in 1 .. a + b
    BY <1>2
  <2>. QED
    BY <1>3, <1>4, <2>1
<1>6. \A j \in 1 .. b : q[a + j] = word[j]
  <2>1. \A j \in 1 .. b : a + j \in 1 .. a + b
    BY <1>2
  <2>. QED
    BY <1>3, <1>4, <2>1
<1>7. q[Len(q)] = " "
  BY <1>4
<1>8. Add(t, word) = q
  BY DEF Add, q, r, e
<1>. QED
  BY <1>2, <1>4, <1>5, <1>6, <1>7, <1>8 DEF Added, Texts, a, b

LEMMA Spelled ==
  ASSUME NEW s \in String
  PROVE  /\ Spelling[s] \in Texts /\ Spelling[s] \in Seq(Char)
         /\ Len(Spelling[s]) \in Nat \ {0}
         /\ \A j \in 1 .. Len(Spelling[s]) : Spelling[s][j] \in Char
<1>1. Spelling[s] \in Seq(Char) /\ Len(Spelling[s]) > 0
  BY ResponseAssumption
<1>2. Seq(Char) \subseteq Texts
  <2>1. Char \subseteq Letter
    BY DEF Letter
  <2>. QED
    BY <2>1 DEF Texts
<1>. QED
  BY <1>1, <1>2

LEMMA PrintedSteps ==
  ASSUME NEW s \in Seq(String)
  PROVE  \E u \in [0 .. Len(s) -> Texts] :
           /\ u[0] = <<>> /\ Printed(s) = u[Len(s)]
           /\ \A k \in 1 .. Len(s) : u[k] = Add(u[k - 1], Spelling[s[k]])
<1>. DEFINE N == Len(s)
            F == [p \in (1 .. N) \X Texts |-> Add(p[2], Spelling[s[p[1]]])]
            f == CHOOSE u : u = [k \in 0 .. N |-> IF k = 0 THEN <<>>
                                     ELSE Add(u[k - 1], Spelling[s[k]])]
<1>1. N \in Nat /\ \A k \in 1 .. N : s[k] \in String
  OBVIOUS
<1>2. Printed(s) = f[N]
  BY SMT DEF Printed, Add
<1>. HIDE DEF N
<1>3. F \in [(1 .. N) \X Texts -> Texts]
  <2>1. ASSUME NEW p \in (1 .. N) \X Texts
        PROVE  Add(p[2], Spelling[s[p[1]]]) \in Texts
    <3>1. p[2] \in Texts /\ Spelling[s[p[1]]] \in Texts
      BY <1>1, Spelled
    <3>. QED
      BY <3>1, WordAdded DEF Added
  <2>. QED
    BY <2>1
<1>4. \A k \in 1 .. N, x \in Texts : F[<<k, x>>] = Add(x, Spelling[s[k]])
  OBVIOUS
<1>. HIDE DEF F
<1>5. PICK v \in [0 .. N -> Texts] :
        v[0] = <<>> /\ \A k \in 1 .. N : v[k] = F[<<k, v[k - 1]>>]
  <2>1. N \in Nat /\ <<>> \in Texts
    BY <1>1 DEF Texts
  <2>2. \E v : Defined(v, N, Texts, <<>>, F)
    BY <1>3, <2>1, Recursion
  <2>. QED
    BY <2>2 DEF Defined
<1>6. ASSUME NEW k \in 1 .. N PROVE v[k] = Add(v[k - 1], Spelling[s[k]])
  <2>1. v[k - 1] \in Texts
    BY <1>1, <1>5
  <2>. QED
    BY <1>4, <1>5, <2>1
<1>7. v = [k \in 0 .. N |-> IF k = 0 THEN <<>>
                            ELSE Add(v[k - 1], Spelling[s[k]])]
  <2>1. ASSUME NEW k \in 0 .. N
        PROVE  v[k] = IF k = 0 THEN <<>> ELSE Add(v[k - 1], Spelling[s[k]])
    BY <1>1, <1>5, <1>6
  <2>. QED
    BY <2>1
<1>8. f = [k \in 0 .. N |-> IF k = 0 THEN <<>>
                            ELSE Add(f[k - 1], Spelling[s[k]])]
  BY <1>7
<1>. HIDE DEF f
<1>9. f[0] = <<>> /\ \A k \in 1 .. N : f[k] = Add(f[k - 1], Spelling[s[k]])
  BY <1>1, <1>8
<1>10. f[N] = v[N]
  <2>1. \A k \in 1 .. N : f[k - 1] = v[k - 1] => f[k] = v[k]
    BY <1>6, <1>9
  <2>2. Alike(f, v, N)
    BY <1>5, <1>9, <2>1 DEF Alike
  <2>. QED
    BY <1>1, <2>2, Same
<1>. QED
  BY <1>2, <1>5, <1>6, <1>10 DEF N

\* Word n + 1 of the list f is in the text t after the first off[n] characters.
Layout(t, f, off) ==
  /\ off \in [0 .. Len(f) -> 0 .. Len(t)]
  /\ off[0] = 0 /\ off[Len(f)] = Len(t)
  /\ \A n \in 0 .. Len(f) - 1 :
       /\ off[n + 1] = off[n] + Len(Spelling[f[n + 1]]) + 1
       /\ \A j \in 1 .. Len(Spelling[f[n + 1]]) : t[off[n] + j] = Spelling[f[n + 1]][j]
       /\ t[off[n + 1]] = " "

Begins(a, b) == Len(a) <= Len(b) /\ \A j \in 1 .. Len(a) : b[j] = a[j]

LEMMA PrintedLayout ==
  ASSUME NEW s \in Seq(String)
  PROVE  Printed(s) \in Texts /\ \E off : Layout(Printed(s), s, off)
<1>. DEFINE N == Len(s)
            sp(k) == Spelling[s[k]]
<1>1. N \in Nat /\ \A k \in 1 .. N : s[k] \in String
  OBVIOUS
<1>2. PICK u \in [0 .. N -> Texts] :
        /\ u[0] = <<>> /\ Printed(s) = u[N]
        /\ \A k \in 1 .. N : u[k] = Add(u[k - 1], Spelling[s[k]])
  BY PrintedSteps
<1>. HIDE DEF N
<1>3. ASSUME NEW k \in 0 .. N PROVE u[k] \in Texts /\ Len(u[k]) \in Nat
  <2>1. u[k] \in Texts
    BY <1>2
  <2>. QED
    BY <2>1 DEF Texts
<1>4. ASSUME NEW k \in 0 .. N - 1
      PROVE  Added(u[k + 1], u[k], sp(k + 1))
  <2>1. k + 1 \in 1 .. N /\ (k + 1) - 1 = k /\ k \in 0 .. N
    BY <1>1
  <2>2. u[k] \in Texts /\ sp(k + 1) \in Texts
    BY <1>1, <1>3, <2>1, Spelled
  <2>3. u[k + 1] = Add(u[k], sp(k + 1))
    <3>1. u[k + 1] = Add(u[(k + 1) - 1], sp(k + 1))
      BY <1>2, <2>1
    <3>. QED
      BY <2>1, <3>1
  <2>. HIDE DEF sp
  <2>. QED
    BY <2>2, <2>3, WordAdded
<1>. HIDE DEF sp
<1>5. ASSUME NEW k \in 0 .. N PROVE Begins(u[k], u[N])
  <2>. DEFINE S == {d \in Nat : k + d <= N => Begins(u[k], u[k + d])}
  <2>1. 0 \in S
    BY <1>1, <1>3 DEF Begins
  <2>2. ASSUME NEW d \in Nat, d \in S PROVE d + 1 \in S
    <3>. SUFFICES ASSUME k + (d + 1) <= N PROVE Begins(u[k], u[k + (d + 1)])
      OBVIOUS
    <3>. DEFINE m == k + d
    <3>1. m \in 0 .. N - 1 /\ m \in 0 .. N /\ m + 1 = k + (d + 1) /\ m + 1 \in 0 .. N
      BY <1>1
    <3>2. Begins(u[k], u[m])
      BY <2>2, <1>1
    <3>. HIDE DEF m
    <3>3. /\ Len(u[k]) \in Nat /\ Len(u[m]) \in Nat /\ Len(u[m + 1]) \in Nat
          /\ Len(u[m]) <= Len(u[m + 1])
          /\ \A j \in 1 .. Len(u[m]) : u[m + 1][j] = u[m][j]
      <4>1. Added(u[m + 1], u[m], sp(m + 1))
        BY <1>4, <3>1
      <4>2. Len(u[k]) \in Nat /\ Len(u[m + 1]) \in Nat
        BY <1>3, <3>1
      <4>. DEFINE x == Len(u[m])
                  y == Len(u[m + 1])
                  z == Len(sp(m + 1))
      <4>3. x \in Nat /\ z \in Nat /\ y = x + z + 1
        BY <4>1 DEF Added
      <4>4. \A j \in 1 .. x : u[m + 1][j] = u[m][j]
        BY <4>1 DEF Added
      <4>. HIDE DEF x, y, z
      <4>5. x <= y
        BY <4>3
      <4>. QED
        BY <4>2, <4>3, <4>4, <4>5 DEF x, y
    <3>4. Begins(u[k], u[m + 1])
      BY <3>2, <3>3 DEF Begins
    <3>. QED
      BY <3>1, <3>4
  <2>. HIDE DEF S
  <2>3. N - k \in S
    BY <1>1, <2>1, <2>2, Induct
  <2>4. k + (N - k) = N
    BY <1>1
  <2>. QED
    BY <2>3, <2>4 DEF S
<1>. DEFINE off == [n \in 0 .. N |-> Len(u[n])]
            t == u[N]
<1>6. \A n \in 0 .. N : off[n] = Len(u[n]) /\ off[n] \in 0 .. Len(t)
  BY <1>1, <1>3, <1>5 DEF Begins
<1>7. off \in [0 .. N -> 0 .. Len(t)]
  BY <1>6
<1>8. off[0] = 0 /\ off[N] = Len(t)
  <2>1. Len(u[0]) = 0 /\ 0 \in 0 .. N /\ N \in 0 .. N
    BY <1>1, <1>2
  <2>. QED
    BY <1>6, <2>1
<1>. HIDE DEF off
<1>9. ASSUME NEW n \in 0 .. N - 1
      PROVE  /\ off[n + 1] = off[n] + Len(sp(n + 1)) + 1
             /\ \A j \in 1 .. Len(sp(n + 1)) : t[off[n] + j] = sp(n + 1)[j]
             /\ t[off[n + 1]] = " "
  <2>1. n \in 0 .. N /\ n + 1 \in 0 .. N
    BY <1>1
  <2>2. /\ off[n] = Len(u[n]) /\ off[n + 1] = Len(u[n + 1])
        /\ off[n] \in Nat /\ off[n + 1] \in Nat /\ Len(sp(n + 1)) \in Nat
        /\ off[n + 1] = off[n] + Len(sp(n + 1)) + 1
    <3>1. Added(u[n + 1], u[n], sp(n + 1))
      BY <1>4
    <3>. QED
      BY <1>3, <1>6, <2>1, <3>1 DEF Added
  <2>3. \A j \in 1 .. off[n + 1] : t[j] = u[n + 1][j]
    BY <1>5, <2>1, <2>2 DEF Begins
  <2>4. ASSUME NEW j \in 1 .. Len(sp(n + 1)) PROVE t[off[n] + j] = sp(n + 1)[j]
    <3>1. off[n] + j \in 1 .. off[n + 1]
      <4>. DEFINE x == off[n]
                  y == off[n + 1]
                  z == Len(sp(n + 1))
      <4>1. x \in Nat /\ z \in Nat /\ y = x + z + 1 /\ j \in 1 .. z
        BY <2>2
      <4>. HIDE DEF x, y, z
      <4>2. x + j \in 1 .. y
        BY <4>1
      <4>. QED
        BY <4>2 DEF x, y
    <3>2. u[n + 1][off[n] + j] = sp(n + 1)[j]
      BY <1>4, <2>2 DEF Added
    <3>. QED
      BY <2>3, <3>1, <3>2
  <2>5. t[off[n + 1]] = " "
    <3>1. off[n + 1] \in 1 .. off[n + 1]
      <4>. DEFINE x == off[n]
                  y == off[n + 1]
                  z == Len(sp(n + 1))
      <4>1. x \in Nat /\ z \in Nat /\ y = x + z + 1
        BY <2>2
      <4>. HIDE DEF x, y, z
      <4>2. y \in 1 .. y
        BY <4>1
      <4>. QED
        BY <4>2 DEF y
    <3>2. u[n + 1][off[n + 1]] = " "
      BY <1>4, <2>2 DEF Added
    <3>. QED
      BY <2>3, <3>1, <3>2
  <2>. QED
    BY <2>2, <2>4, <2>5
<1>10. Layout(t, s, off)
  BY <1>7, <1>8, <1>9 DEF Layout, N, sp
<1>11. t \in Texts /\ t = Printed(s)
  <2>1. N \in 0 .. N
    BY <1>1
  <2>. QED
    BY <1>2, <2>1
<1>. QED
  BY <1>10, <1>11

-----------------------------------------------------------------------------
(* What is read back.                                                      *)

Space == " "

Shapes ==
  /\ text \in Texts /\ pos \in 0 .. Len(text)
  /\ readbuf \in Texts /\ result \in Seq(Texts)

\* c is the character at pos, or the file has ended.
Last ==
  /\ c = EOF => pos = Len(text)
  /\ c # EOF => c \in Letter /\ (pos = 0 => c = Space) /\ (pos # 0 => c = text[pos])

Closed == result = <<>> /\ pos = 0 /\ c = Space

ReaderTypes ==
  /\ Shapes /\ Last
  /\ reader \in {"closed", "skip", "arg", "done", "corrupt"}
  /\ reader = "closed" => Closed

LEMMA Letters ==
  /\ Space \in Letter /\ EOF \notin Letter /\ EOF # Space
  /\ \A x \in Char : x \in Letter /\ x # Space
  BY ResponseAssumption DEF Letter, EOF, Space

LEMMA Empty == <<>> \in Texts /\ Len(<<>>) = 0 /\ <<>> \in Seq(Texts)
  BY DEF Texts

\* The next character, or the end of the file.
LEMMA NextCharacter ==
  ASSUME ReaderTypes, fgetc
  PROVE  /\ Len(text) \in Nat /\ pos \in Nat /\ pos' \in 0 .. Len(text)
         /\ IF pos < Len(text)
            THEN /\ pos' = pos + 1 /\ pos' \in 1 .. Len(text) /\ pos' # 0
                 /\ c' = text[pos'] /\ c' \in Letter /\ c' # EOF
            ELSE pos = Len(text) /\ pos' = pos /\ c' = EOF
<1>1. text \in Seq(Letter) /\ Len(text) \in Nat /\ pos \in 0 .. Len(text)
  BY DEF ReaderTypes, Shapes, Texts
<1>2. CASE pos < Len(text)
  <2>1. pos' = pos + 1 /\ c' = text[pos + 1] /\ pos + 1 \in 1 .. Len(text)
    BY <1>1, <1>2 DEF fgetc
  <2>2. text[pos + 1] \in Letter
    BY <1>1, <2>1
  <2>3. text[pos + 1] # EOF
    BY <2>2, Letters
  <2>. QED
    BY <1>1, <1>2, <2>1, <2>2, <2>3
<1>3. CASE ~(pos < Len(text))
  BY <1>1, <1>3 DEF fgetc
<1>. QED
  BY <1>2, <1>3

\* The file that is opened after a call is the one that was written for it.
LEMMA Opened ==
  ASSUME SquashInv, pc = "ready", args[Len(args)] = rsp
  PROVE  /\ asked \in Lists /\ file \in Seq(String)
         /\ \E n : Cutoff(args, file, asked, n)
<1>1. asked \in Lists /\ (args = asked \/ \E n : Cutoff(args, file, asked, n))
  BY DEF SquashInv
<1>2. asked \in Seq(String) /\ Len(asked) \in Nat \ {0}
  BY <1>1, Asked
<1>3. args # asked
  <2>1. asked[Len(asked)] \in String
    BY <1>2
  <2>. QED
    BY <2>1, SquashAssumption
<1>4. ASSUME NEW n, Cutoff(args, file, asked, n) PROVE file \in Seq(String)
  BY <1>2, <1>4 DEF Cutoff
<1>. QED
  BY <1>1, <1>3, <1>4

LEMMA TextTypes ==
  ASSUME SquashInv, Open
  PROVE  text' \in Texts
<1>1. CASE text' \in Text
  <2>1. PICK n \in 0 .. MaxText : text' \in [1 .. n -> Letter]
    BY <1>1 DEF Text, Letter
  <2>2. n \in Nat
    <3>1. MaxText \in Nat
      BY ResponseAssumption
    <3>. QED
      BY <3>1
  <2>. QED
    BY <2>1, <2>2 DEF Texts
<1>2. CASE pc = "ready" /\ args[Len(args)] = rsp /\ text' = Printed(file)
  BY <1>2, Opened, PrintedLayout
<1>. QED
  BY <1>1, <1>2 DEF Open

LEMMA ReaderInductive ==
  ASSUME SquashInv, ReaderTypes, [ReadNext]_<<vars, readVars>>
  PROVE  ReaderTypes'
<1>1. CASE Open
  <2>1. /\ reader = "closed" /\ reader' = "skip"
        /\ UNCHANGED <<pos, c, readbuf, readbuf_len, result>>
    BY <1>1 DEF Open
  <2>2. text' \in Texts /\ Len(text') \in Nat
    BY <1>1, TextTypes DEF Texts
  <2>3. pos' = 0 /\ c' = Space
    BY <2>1 DEF ReaderTypes, Closed
  <2>4. Shapes'
    BY <2>1, <2>2, <2>3 DEF ReaderTypes, Shapes
  <2>5. Last'
    BY <2>3, Letters DEF Last
  <2>. QED
    BY <2>1, <2>4, <2>5 DEF ReaderTypes
<1>2. CASE Skip
  <2>1. /\ text' = text /\ result' = result /\ readbuf' = <<>>
        /\ reader' \in {"skip", "arg", "done"}
        /\ IF c = EOF THEN UNCHANGED <<pos, c>> ELSE fgetc
    BY <1>2 DEF Skip
  <2>2. Shapes' /\ Last'
    <3>1. CASE c = EOF
      BY <2>1, <3>1, Empty DEF ReaderTypes, Shapes, Last
    <3>2. CASE c # EOF
      <4>1. fgetc
        BY <2>1, <3>2
      <4>2. Shapes'
        BY <2>1, <4>1, NextCharacter, Empty DEF ReaderTypes, Shapes
      <4>. QED
        BY <2>1, <4>1, <4>2, NextCharacter DEF Last
    <3>. QED
      BY <3>1, <3>2
  <2>. QED
    BY <2>1, <2>2 DEF ReaderTypes
<1>3. CASE Store
  <2>1. /\ text' = text /\ result' = result /\ readbuf' = Append(readbuf, c)
        /\ reader' = "arg" /\ fgetc /\ c # EOF
    BY <1>3 DEF Store
  <2>2. readbuf' \in Texts
    <3>1. readbuf \in Texts /\ c \in Letter
      BY <2>1 DEF ReaderTypes, Shapes, Last
    <3>. QED
      BY <2>1, <3>1 DEF Texts
  <2>3. Shapes'
    BY <2>1, <2>2, NextCharacter DEF ReaderTypes, Shapes
  <2>4. Last'
    BY <2>1, NextCharacter DEF Last
  <2>. QED
    BY <2>1, <2>3, <2>4 DEF ReaderTypes
<1>4. CASE EndArg
  <2>1. /\ UNCHANGED <<text, pos, c, readbuf>>
        /\ reader' \in {"skip", "corrupt"}
        /\ result' = Append(result, readbuf) \/ result' = result
    BY <1>4 DEF EndArg
  <2>2. result' \in Seq(Texts)
    <3>1. result \in Seq(Texts) /\ readbuf \in Texts
      BY DEF ReaderTypes, Shapes
    <3>. QED
      BY <2>1, <3>1
  <2>3. Shapes'
    BY <2>1, <2>2 DEF ReaderTypes, Shapes
  <2>4. Last'
    BY <2>1 DEF ReaderTypes, Last
  <2>. QED
    BY <2>1, <2>3, <2>4 DEF ReaderTypes
<1>5. CASE Close
  <2>1. /\ reader' = "closed" /\ text' = <<>> /\ pos' = 0 /\ c' = Space
        /\ readbuf' = <<>> /\ result' = <<>>
    BY <1>5 DEF Close, Space
  <2>2. Shapes'
    BY <2>1, Empty DEF Shapes
  <2>3. Last' /\ Closed'
    BY <2>1, Letters DEF Last, Closed
  <2>. QED
    BY <2>1, <2>2, <2>3 DEF ReaderTypes
<1>6. CASE UNCHANGED readVars
  BY <1>6 DEF readVars, ReaderTypes, Shapes, Last, Closed
<1>. QED
  BY <1>1, <1>2, <1>3, <1>4, <1>5, <1>6 DEF ReadNext

LEMMA ReaderAlways == ReadSpec => []ReaderTypes
<1>1. ReadInit => ReaderTypes
  <2>. SUFFICES ASSUME ReadInit PROVE ReaderTypes
    OBVIOUS
  <2>1. /\ reader = "closed" /\ text = <<>> /\ pos = 0 /\ c = Space
        /\ readbuf = <<>> /\ result = <<>>
    BY DEF ReadInit, Space
  <2>2. Shapes
    BY <2>1, Empty DEF Shapes
  <2>3. Last /\ Closed
    BY <2>1, Letters DEF Last, Closed
  <2>. QED
    BY <2>1, <2>2, <2>3 DEF ReaderTypes
<1>2. SquashInv /\ ReaderTypes /\ [ReadNext]_<<vars, readVars>> => ReaderTypes'
  BY ReaderInductive
<1>. QED
  BY <1>1, <1>2, SquashAlways, PTL DEF ReadSpec

\* The words of f that were read are the first n; the next one is at off[n].
Copying(off, n) ==
  /\ n <= Len(file) /\ \A k \in 1 .. n : result[k] = Spelling[file[k]]
  /\ reader = "skip" => pos = off[n] /\ c = Space
  /\ reader = "arg" =>
       /\ n < Len(file) /\ pos = off[n] + Len(readbuf) + 1 /\ c = text[pos]
       /\ Len(readbuf) <= Len(Spelling[file[n + 1]])
       /\ \A j \in 1 .. Len(readbuf) : readbuf[j] = Spelling[file[n + 1]][j]
  /\ reader = "done" => n = Len(file)

Back ==
  reader # "closed" /\ pc = "ready" =>
    /\ asked \in Lists /\ file \in Seq(String) /\ \E n : Cutoff(args, file, asked, n)
    /\ \E off : Layout(text, file, off) /\ Copying(off, Len(result))

\* The word, of l characters, is in t between o and p.
Between(t, word, l, o, p) ==
  /\ Len(t) \in Nat /\ l \in Nat \ {0} /\ l = Len(word)
  /\ o \in Nat /\ p = o + l + 1 /\ p <= Len(t)
  /\ \A j \in 1 .. l : t[o + j] = word[j] /\ t[o + j] \in Char /\ t[o + j] # Space
  /\ t[p] = Space

LEMMA WordPlace ==
  ASSUME NEW t \in Texts, NEW f \in Seq(String), NEW off, Layout(t, f, off),
         NEW n \in 0 .. Len(f) - 1
  PROVE  Between(t, Spelling[f[n + 1]], Len(Spelling[f[n + 1]]), off[n], off[n + 1])
<1>. DEFINE l == Len(Spelling[f[n + 1]])
<1>1. Len(f) \in Nat /\ Len(t) \in Nat
  BY DEF Texts
<1>2. n \in Nat /\ n + 1 \in 1 .. Len(f) /\ n \in 0 .. Len(f) /\ n + 1 \in 0 .. Len(f)
  BY <1>1
<1>3. /\ l \in Nat \ {0} /\ \A j \in 1 .. l : Spelling[f[n + 1]][j] \in Char
  <2>1. f[n + 1] \in String
    BY <1>2
  <2>. QED
    BY <2>1, Spelled
<1>4. off[n] \in 0 .. Len(t) /\ off[n + 1] \in 0 .. Len(t)
  BY <1>2 DEF Layout
<1>5. off[n + 1] = off[n] + l + 1
  BY DEF Layout
<1>6. off[n + 1] \in 1 .. Len(t)
  BY <1>1, <1>3, <1>4, <1>5
<1>7. ASSUME NEW j \in 1 .. l
      PROVE  /\ t[off[n] + j] = Spelling[f[n + 1]][j]
             /\ t[off[n] + j] \in Char /\ t[off[n] + j] # Space
  <2>1. t[off[n] + j] = Spelling[f[n + 1]][j]
    BY DEF Layout
  <2>. QED
    BY <1>3, <2>1, Letters
<1>8. t[off[n + 1]] = Space
  BY DEF Layout, Space
<1>9. off[n] \in Nat /\ off[n + 1] <= Len(t)
  BY <1>1, <1>4
<1>. QED
  BY <1>1, <1>3, <1>5, <1>7, <1>8, <1>9 DEF Between

LEMMA OpenBack ==
  ASSUME SquashInv, ReaderTypes, Open, pc' = "ready"
  PROVE  Back'
<1>1. /\ pc = "ready" /\ args[Len(args)] = rsp /\ text' = Printed(file)
      /\ reader = "closed" /\ reader' = "skip"
      /\ UNCHANGED <<args, asked, file, pos, c, result>>
  BY DEF Open, vars
<1>2. /\ asked \in Lists /\ file \in Seq(String)
      /\ \E n : Cutoff(args, file, asked, n)
  BY <1>1, Opened
<1>3. PICK off : Layout(text', file, off)
  BY <1>1, <1>2, PrintedLayout
<1>4. result = <<>> /\ pos = 0 /\ c = Space /\ Len(result) = 0
  <2>1. result = <<>> /\ pos = 0 /\ c = Space
    BY <1>1 DEF ReaderTypes, Closed
  <2>. QED
    BY <2>1
<1>5. Copying(off, 0)'
  <2>1. off[0] = 0
    BY <1>3 DEF Layout
  <2>2. Len(file) \in Nat
    BY <1>2
  <2>. QED
    BY <1>1, <1>4, <2>1, <2>2 DEF Copying
<1>6. Len(result') = 0
  BY <1>1, <1>4
<1>. QED
  BY <1>1, <1>2, <1>3, <1>5, <1>6 DEF Back

LEMMA SkipBack ==
  ASSUME ReaderTypes, NEW off, Layout(text, file, off), file \in Seq(String),
         Copying(off, Len(result)), Skip
  PROVE  Copying(off, Len(result))'
<1>. DEFINE n == Len(result)
<1>1. /\ UNCHANGED <<file, text, result>> /\ readbuf' = <<>> /\ reader = "skip"
      /\ reader' = IF c' = EOF THEN "done" ELSE IF c' = Space THEN "skip" ELSE "arg"
      /\ IF c = EOF THEN UNCHANGED <<pos, c>> ELSE fgetc
  BY DEF Skip, vars, Space
<1>2. /\ pos = off[n] /\ c = Space /\ n <= Len(file)
      /\ \A k \in 1 .. n : result[k] = Spelling[file[k]]
  BY <1>1 DEF Copying
<1>3. n \in Nat /\ Len(file) \in Nat /\ text \in Texts
  BY DEF ReaderTypes, Shapes
<1>4. fgetc
  BY <1>1, <1>2, Letters
<1>5. Len(result') = n
  BY <1>1
<1>. HIDE DEF n
<1>6. CASE n = Len(file)
  <2>1. pos = Len(text)
    BY <1>2, <1>6 DEF Layout
  <2>2. c' = EOF
    BY <1>4, <2>1, NextCharacter
  <2>3. reader' = "done"
    BY <1>1, <2>2
  <2>. QED
    BY <1>1, <1>2, <1>5, <1>6, <2>3 DEF Copying
<1>7. CASE n # Len(file)
  <2>. DEFINE l == Len(Spelling[file[n + 1]])
              o == off[n]
  <2>1. n \in 0 .. Len(file) - 1 /\ n < Len(file)
    BY <1>2, <1>3, <1>7
  <2>2. Between(text, Spelling[file[n + 1]], l, o, off[n + 1])
    BY <1>3, <2>1, WordPlace
  <2>3. pos = o
    BY <1>2
  <2>. HIDE DEF l, o
  <2>4. pos < Len(text) /\ 1 \in 1 .. l
    BY <2>2, <2>3 DEF Between
  <2>5. pos' = o + 1 /\ c' = text[pos'] /\ c' # EOF
    BY <1>4, <2>4, <2>3, NextCharacter
  <2>6. c' # Space
    BY <2>2, <2>4, <2>5 DEF Between
  <2>7. reader' = "arg"
    BY <1>1, <2>5, <2>6
  <2>8. Len(readbuf') = 0
    BY <1>1
  <2>9. pos' = o + Len(readbuf') + 1 /\ Len(readbuf') <= l
    BY <2>2, <2>5, <2>8 DEF Between
  <2>10. \A j \in 1 .. Len(readbuf') : readbuf'[j] = Spelling[file[n + 1]][j]
    BY <2>8
  <2>. QED
    BY <1>1, <1>2, <1>5, <2>1, <2>5, <2>7, <2>9, <2>10 DEF Copying, l, o
<1>. QED
  BY <1>6, <1>7

LEMMA StoreBack ==
  ASSUME ReaderTypes, NEW off, Layout(text, file, off), file \in Seq(String),
         Copying(off, Len(result)), Store
  PROVE  Copying(off, Len(result))'
<1>. DEFINE n == Len(result)
            l == Len(Spelling[file[n + 1]])
            r == Len(readbuf)
            o == off[n]
<1>1. /\ UNCHANGED <<file, text, result>> /\ reader = "arg" /\ reader' = "arg"
      /\ readbuf' = Append(readbuf, c) /\ c # EOF /\ c # Space /\ fgetc
  BY DEF Store, vars, Space
<1>2. /\ n < Len(file) /\ pos = o + r + 1 /\ c = text[pos] /\ r <= l
      /\ \A j \in 1 .. r : readbuf[j] = Spelling[file[n + 1]][j]
      /\ \A k \in 1 .. n : result[k] = Spelling[file[k]]
  BY <1>1 DEF Copying
<1>3. /\ n \in Nat /\ Len(file) \in Nat /\ text \in Texts /\ r \in Nat
      /\ readbuf \in Seq(Letter) /\ c \in Letter
  BY <1>1 DEF ReaderTypes, Shapes, Last, Texts
<1>4. n \in 0 .. Len(file) - 1
  BY <1>2, <1>3
<1>5. Between(text, Spelling[file[n + 1]], l, o, off[n + 1])
  BY <1>3, <1>4, WordPlace
<1>6. /\ Len(readbuf') = r + 1 /\ readbuf'[r + 1] = c
      /\ \A j \in 1 .. r : readbuf'[j] = readbuf[j]
  BY <1>1, <1>3
<1>7. Len(result') = n
  BY <1>1
<1>. HIDE DEF n, l, r, o
<1>8. r # l
  BY <1>1, <1>2, <1>5 DEF Between
<1>9. r + 1 \in 1 .. l /\ pos = o + (r + 1) /\ pos < Len(text)
  BY <1>2, <1>3, <1>5, <1>8 DEF Between
<1>10. c = Spelling[file[n + 1]][r + 1]
  BY <1>2, <1>5, <1>9 DEF Between
<1>11. pos' = o + Len(readbuf') + 1 /\ c' = text[pos'] /\ Len(readbuf') <= l
  <2>1. pos' = pos + 1 /\ c' = text[pos']
    BY <1>1, <1>9, NextCharacter
  <2>. QED
    BY <1>3, <1>5, <1>6, <1>9, <2>1 DEF Between
<1>12. ASSUME NEW j \in 1 .. Len(readbuf') PROVE readbuf'[j] = Spelling[file[n + 1]][j]
  <2>1. j \in 1 .. r \/ j = r + 1
    BY <1>3, <1>6
  <2>. QED
    BY <1>2, <1>6, <1>10, <2>1
<1>. QED
  BY <1>1, <1>2, <1>4, <1>3, <1>7, <1>11, <1>12 DEF Copying, l, o

LEMMA EndArgBack ==
  ASSUME ReaderTypes, NEW off, Layout(text, file, off), file \in Seq(String),
         Copying(off, Len(result)), EndArg
  PROVE  Copying(off, Len(result))'
<1>. DEFINE n == Len(result)
            word == Spelling[file[n + 1]]
            l == Len(word)
            r == Len(readbuf)
            o == off[n]
<1>1. /\ UNCHANGED <<file, text, pos, c, readbuf>> /\ reader = "arg"
      /\ c = EOF \/ c = Space
      /\ \/ reader' = "skip" /\ result' = Append(result, readbuf)
         \/ reader' = "corrupt" /\ result' = result
  BY DEF EndArg, vars, Space
<1>2. /\ n < Len(file) /\ pos = o + r + 1 /\ c = text[pos] /\ r <= l
      /\ \A j \in 1 .. r : readbuf[j] = word[j]
      /\ \A k \in 1 .. n : result[k] = Spelling[file[k]]
  BY <1>1 DEF Copying
<1>3. /\ n \in Nat /\ Len(file) \in Nat /\ text \in Texts /\ r \in Nat
      /\ readbuf \in Texts /\ result \in Seq(Texts)
  BY DEF ReaderTypes, Shapes, Texts
<1>4. n \in 0 .. Len(file) - 1 /\ n + 1 \in 1 .. Len(file)
  BY <1>2, <1>3
<1>5. Between(text, word, l, o, off[n + 1])
  BY <1>3, <1>4, WordPlace
<1>6. word \in Texts
  <2>1. file[n + 1] \in String
    BY <1>4
  <2>. QED
    BY <2>1, Spelled
<1>7. CASE reader' = "corrupt" /\ result' = result
  BY <1>1, <1>2, <1>3, <1>7 DEF Copying
<1>8. CASE reader' = "skip" /\ result' = Append(result, readbuf)
  <2>1. /\ Len(result') = n + 1 /\ result'[n + 1] = readbuf
        /\ \A k \in 1 .. n : result'[k] = result[k]
    BY <1>3, <1>8
  <2>. HIDE DEF n, l, r, o
  <2>2. r = l
    <3>. SUFFICES ASSUME r # l PROVE FALSE
      OBVIOUS
    <3>1. r + 1 \in 1 .. l /\ pos = o + (r + 1)
      <4>1. l \in Nat /\ o \in Nat
        BY <1>5 DEF Between
      <4>2. r \in Nat /\ r <= l /\ pos = o + r + 1
        BY <1>2, <1>3
      <4>. QED
        BY <4>1, <4>2
    <3>2. c \in Char /\ c # Space
      BY <1>2, <1>5, <3>1 DEF Between
    <3>. QED
      BY <1>1, <3>2, Letters
  <2>3. readbuf = word
    <3>. HIDE DEF word
    <3>1. Len(readbuf) = Len(word) /\ \A j \in 1 .. Len(readbuf) : readbuf[j] = word[j]
      BY <1>2, <2>2 DEF l, r
    <3>. QED
      BY <1>3, <1>6, <3>1, SeqEqual DEF Texts
  <2>4. pos = off[n + 1]
    BY <1>2, <1>5, <2>2 DEF Between
  <2>5. c = Space
    <3>1. text[off[n + 1]] = Space
      BY <1>5 DEF Between
    <3>. QED
      BY <1>2, <2>4, <3>1
  <2>6. ASSUME NEW k \in 1 .. n + 1 PROVE result'[k] = Spelling[file[k]]
    <3>1. k \in 1 .. n \/ k = n + 1
      BY <1>3
    <3>. QED
      BY <1>2, <2>1, <2>3, <3>1
  <2>7. n + 1 <= Len(file)
    BY <1>4
  <2>. QED
    BY <1>1, <1>8, <2>1, <2>4, <2>5, <2>6, <2>7 DEF Copying
<1>. QED
  BY <1>1, <1>7, <1>8

LEMMA BackInductive ==
  ASSUME SquashInv, ReaderTypes, Back, [ReadNext]_<<vars, readVars>>
  PROVE  Back'
<1>1. CASE Open
  <2>1. CASE pc' = "ready"
    BY <1>1, <2>1, OpenBack
  <2>2. CASE pc' # "ready"
    BY <2>2 DEF Back
  <2>. QED
    BY <2>1, <2>2
<1>2. CASE Skip \/ Store \/ EndArg
  <2>1. UNCHANGED <<args, file, asked, pc, text>> /\ reader # "closed"
    BY <1>2 DEF Skip, Store, EndArg, vars
  <2>. SUFFICES ASSUME pc = "ready" PROVE Back'
    BY <2>1 DEF Back
  <2>2. /\ asked \in Lists /\ file \in Seq(String) /\ \E n : Cutoff(args, file, asked, n)
    BY <2>1 DEF Back
  <2>3. PICK off : Layout(text, file, off) /\ Copying(off, Len(result))
    BY <2>1 DEF Back
  <2>4. Copying(off, Len(result))'
    BY <1>2, <2>2, <2>3, SkipBack, StoreBack, EndArgBack
  <2>5. Layout(text', file', off)
    BY <2>1, <2>3
  <2>. QED
    BY <2>1, <2>2, <2>4, <2>5 DEF Back
<1>3. CASE Close \/ (reader = "closed" /\ UNCHANGED readVars)
  <2>1. reader' = "closed"
    BY <1>3 DEF Close, readVars
  <2>. QED
    BY <2>1 DEF Back
<1>4. CASE UNCHANGED <<vars, readVars>>
  <2>1. UNCHANGED <<args, file, asked, pc, text, pos, c, readbuf, result, reader>>
    BY <1>4 DEF vars, readVars
  <2>. QED
    BY <2>1 DEF Back, Copying
<1>. QED
  BY <1>1, <1>2, <1>3, <1>4 DEF ReadNext

LEMMA BackAlways == ReadSpec => []Back
<1>1. ReadInit => Back
  BY DEF ReadInit, Back
<1>2. SquashInv /\ ReaderTypes /\ Back /\ [ReadNext]_<<vars, readVars>> => Back'
  BY BackInductive
<1>. QED
  BY <1>1, <1>2, SquashAlways, ReaderAlways, PTL DEF ReadSpec

\* With what stayed on its command line, the program that is run has every
\* argument that was asked for, character for character and in order: for
\* every list of arguments, wherever SquashToResponseFile cut it.
THEOREM SameArguments == ReadSpec => []ReadBack
<1>1. ReaderTypes /\ Back => ReadBack
  <2>. SUFFICES ASSUME ReaderTypes, Back, reader = "done", pc = "ready" PROVE ReadBack
    BY DEF ReadBack
  <2>1. /\ asked \in Lists /\ asked \in Seq(String) /\ Len(asked) \in Nat
    BY Asked DEF Back
  <2>2. PICK n : Cutoff(args, file, asked, n)
    BY DEF Back
  <2>3. /\ Len(result) = Len(file) /\ \A k \in 1 .. Len(file) : result[k] = Spelling[file[k]]
    BY DEF Back, Copying
  <2>. DEFINE N == Len(asked)
              front == SubSeq(asked, 1, n)
              stayed == SubSeq(args, 1, Len(args) - 1)
              a == [k \in DOMAIN stayed |-> Spelling[stayed[k]]]
              b == [k \in DOMAIN asked |-> Spelling[asked[k]]]
  <2>4. /\ n \in 1 .. N - 1 /\ n \in Nat
        /\ front \in Seq(String) /\ Len(front) = n
        /\ \A k \in 1 .. n : front[k] = asked[k]
        /\ Len(file) = N - n /\ \A k \in 1 .. N - n : file[k] = asked[n + k]
    BY <2>1, <2>2 DEF Cutoff
  <2>5. args = Append(front, rsp)
    BY <2>2 DEF Cutoff
  <2>. HIDE DEF front
  <2>6. stayed = front
    <3>1. /\ front \in Seq(Strings) /\ rsp \in Strings
      BY <2>4 DEF Strings
    <3>2. /\ args \in Seq(Strings) /\ Len(args) = n + 1
          /\ \A k \in 1 .. n : args[k] = front[k]
      BY <2>4, <2>5, <3>1
    <3>3. /\ stayed \in Seq(Strings) /\ Len(stayed) = n
          /\ \A k \in 1 .. n : stayed[k] = args[k]
      BY <2>4, <3>2
    <3>. QED
      BY <2>4, <3>1, <3>2, <3>3, SeqEqual
  <2>. HIDE DEF stayed
  <2>7. /\ a \in Seq(Texts) /\ Len(a) = n
        /\ \A k \in 1 .. n : a[k] = Spelling[asked[k]]
    <3>1. DOMAIN stayed = 1 .. n /\ \A k \in 1 .. n : stayed[k] = asked[k] /\ asked[k] \in String
      BY <2>1, <2>4, <2>6
    <3>2. \A k \in 1 .. n : a[k] = Spelling[asked[k]] /\ a[k] \in Texts
      BY <3>1, Spelled
    <3>. QED
      BY <2>4, <3>1, <3>2
  <2>8. /\ b \in Seq(Texts) /\ Len(b) = N
        /\ \A k \in 1 .. N : b[k] = Spelling[asked[k]]
    <3>1. DOMAIN asked = 1 .. N /\ \A k \in 1 .. N : asked[k] \in String
      BY <2>1
    <3>2. \A k \in 1 .. N : b[k] = Spelling[asked[k]] /\ b[k] \in Texts
      BY <3>1, Spelled
    <3>. QED
      BY <2>1, <3>1, <3>2
  <2>. HIDE DEF a, b, N
  <2>9. Join(a \o result, a, result, Texts)
    BY <2>7, Joined DEF ReaderTypes, Shapes
  <2>. DEFINE q == a \o result
  <2>. HIDE DEF q
  <2>10. /\ q \in Seq(Texts) /\ Len(q) = N /\ N \in Nat
         /\ \A k \in 1 .. n : q[k] = a[k]
         /\ \A k \in 1 .. N - n : q[n + k] = result[k]
    <3>1. /\ q \in Seq(Texts) /\ Len(q) = n + (N - n)
          /\ \A k \in 1 .. n : q[k] = a[k]
          /\ \A k \in 1 .. N - n : q[n + k] = result[k]
      BY <2>3, <2>4, <2>7, <2>9 DEF Join, q
    <3>2. N \in Nat
      BY <2>1 DEF N
    <3>. QED
      BY <2>4, <3>1, <3>2
  <2>11. ASSUME NEW k \in 1 .. N PROVE q[k] = b[k]
    <3>1. CASE k <= n
      <4>1. k \in 1 .. n
        BY <2>10, <3>1
      <4>. QED
        BY <2>7, <2>8, <2>10, <4>1
    <3>2. CASE k > n
      <4>. DEFINE j == k - n
      <4>1. j \in 1 .. N - n /\ n + j = k
        BY <2>4, <2>10, <3>2
      <4>. HIDE DEF j
      <4>2. q[n + j] = Spelling[file[j]] /\ file[j] = asked[n + j]
        BY <2>3, <2>4, <2>10, <4>1
      <4>. QED
        BY <2>8, <4>1, <4>2
    <3>. QED
      BY <2>4, <2>10, <3>1, <3>2
  <2>12. q = b
    BY <2>8, <2>10, <2>11, SeqEqual
  <2>. QED
    BY <2>12 DEF ReadBack, q, a, b, stayed
<1>. QED
  BY <1>1, ReaderAlways, BackAlways, PTL

-----------------------------------------------------------------------------
(* The words of a text.                                                    *)

StartsOf(t) == {k \in 1 .. Len(t) : t[k] # Space /\ (k = 1 \/ t[k - 1] = Space)}

EndsAt(t, k, e) ==
  /\ e \in k .. Len(t) /\ \A j \in k .. e : t[j] # Space
  /\ e = Len(t) \/ t[e + 1] = Space

WordOf(t, k) == SubSeq(t, k, CHOOSE e : EndsAt(t, k, e))

\* The words that begin at or before p, and that these are the list r.
UptoOf(t, p) == {k \in StartsOf(t) : k <= p}

Words(t, r, p) ==
  /\ Len(r) = Cardinality(UptoOf(t, p))
  /\ \A k \in UptoOf(t, p) : r[Cardinality(UptoOf(t, k))] = WordOf(t, k)

\* The characters of r are in t from place b up to, not including, h.
InWord(t, r, b, h) ==
  /\ b \in StartsOf(t) /\ h = b + Len(r) /\ h <= Len(t) + 1
  /\ \A j \in 1 .. Len(r) : t[b + j - 1] = r[j] /\ r[j] # Space

LEMMA UptoFinite ==
  ASSUME NEW t \in Texts, NEW p
  PROVE  IsFiniteSet(UptoOf(t, p)) /\ Cardinality(UptoOf(t, p)) \in Nat
<1>1. Len(t) \in Nat
  BY DEF Texts
<1>2. IsFiniteSet(1 .. Len(t))
  BY <1>1, FS_Interval
<1>3. UptoOf(t, p) \in SUBSET (1 .. Len(t))
  BY DEF UptoOf, StartsOf
<1>4. IsFiniteSet(UptoOf(t, p))
  BY <1>2, <1>3, FS_Subset
<1>. QED
  BY <1>4, FS_CardinalityType

\* One more word has been read.
LEMMA Counted ==
  ASSUME NEW t \in Texts, NEW r \in Seq(Texts), NEW b \in StartsOf(t), Words(t, r, b - 1),
         WordOf(t, b) \in Texts,
         NEW p, UptoOf(t, p) = UptoOf(t, b - 1) \cup {b}
  PROVE  Words(t, Append(r, WordOf(t, b)), p)
<1>. DEFINE U == UptoOf(t, b - 1)
            q == Append(r, WordOf(t, b))
            n == Len(r)
<1>1. Len(t) \in Nat /\ b \in 1 .. Len(t) /\ b \in Nat
  BY DEF Texts, StartsOf
<1>2. b \notin U /\ UptoOf(t, b) = U \cup {b}
  BY <1>1 DEF UptoOf, StartsOf
<1>3. /\ n \in Nat /\ Len(q) = n + 1 /\ q[n + 1] = WordOf(t, b)
      /\ \A k \in 1 .. n : q[k] = r[k]
  OBVIOUS
<1>4. IsFiniteSet(U) /\ Cardinality(U) = n
  BY UptoFinite DEF Words
<1>5. Cardinality(U \cup {b}) = n + 1
  <2>. HIDE DEF U, n
  <2>. QED
    BY <1>2, <1>4, FS_AddElement
<1>. HIDE DEF q, n
<1>6. Len(q) = Cardinality(UptoOf(t, p))
  BY <1>3, <1>5
<1>7. ASSUME NEW k \in UptoOf(t, p) PROVE q[Cardinality(UptoOf(t, k))] = WordOf(t, k)
  <2>1. CASE k = b
    <3>1. Cardinality(UptoOf(t, k)) = n + 1
      BY <1>2, <1>5, <2>1
    <3>. QED
      BY <1>3, <2>1, <3>1
  <2>2. CASE k # b
    <3>1. k \in U
      BY <2>2
    <3>. DEFINE m == Cardinality(UptoOf(t, k))
    <3>2. r[m] = WordOf(t, k)
      BY <3>1 DEF Words
    <3>3. UptoOf(t, k) \in SUBSET U /\ k \in UptoOf(t, k)
      BY <1>1, <3>1 DEF UptoOf, StartsOf
    <3>4. m \in Nat /\ IsFiniteSet(UptoOf(t, k))
      BY UptoFinite
    <3>5. m <= n
      <4>. HIDE DEF U
      <4>. QED
        BY <1>4, <3>3, FS_Subset
    <3>6. m # 0
      <4>1. UptoOf(t, k) # {}
        BY <3>3
      <4>. QED
        BY <3>4, <4>1, FS_EmptySet
    <3>. HIDE DEF m
    <3>7. m \in 1 .. n
      BY <1>3, <3>4, <3>5, <3>6
    <3>8. q[m] = WordOf(t, k)
      BY <1>3, <3>2, <3>7
    <3>. QED
      BY <3>8 DEF m
  <2>. QED
    BY <2>1, <2>2
<1>. QED
  BY <1>6, <1>7 DEF Words, q

\* Where a word ends.
LEMMA WordEnds ==
  ASSUME NEW t \in Texts, NEW r \in Texts, NEW b, NEW h, InWord(t, r, b, h),
         Len(r) # 0, h = Len(t) + 1 \/ t[h] = Space
  PROVE  /\ WordOf(t, b) = r
         /\ UptoOf(t, h - 1) = UptoOf(t, b - 1) \cup {b}
         /\ h <= Len(t) => UptoOf(t, h) = UptoOf(t, b - 1) \cup {b}
<1>. DEFINE n == Len(r)
<1>1. /\ Len(t) \in Nat /\ n \in Nat \ {0} /\ b \in 1 .. Len(t)
      /\ t \in Seq(Letter) /\ r \in Seq(Letter)
  BY DEF Texts, InWord, StartsOf
<1>2. h = b + n /\ h <= Len(t) + 1
  BY DEF InWord
<1>3. \A j \in 1 .. n : t[b + j - 1] = r[j] /\ r[j] # Space
  BY DEF InWord
<1>. HIDE DEF n
<1>4. ASSUME NEW j \in b .. h - 1 PROVE t[j] # Space
  <2>. DEFINE m == j - b + 1
  <2>1. m \in 1 .. n /\ b + m - 1 = j
    BY <1>1, <1>2
  <2>. HIDE DEF m
  <2>. QED
    BY <1>3, <2>1
<1>5. EndsAt(t, b, h - 1)
  <2>1. h - 1 \in b .. Len(t)
    BY <1>1, <1>2
  <2>2. h - 1 = Len(t) \/ t[(h - 1) + 1] = Space
    <3>1. (h - 1) + 1 = h
      BY <1>1, <1>2
    <3>2. h = Len(t) + 1 => h - 1 = Len(t)
      BY <1>1, <1>2
    <3>. QED
      BY <3>1, <3>2
  <2>. QED
    BY <1>4, <2>1, <2>2 DEF EndsAt
<1>6. ASSUME NEW e, EndsAt(t, b, e) PROVE e = h - 1
  <2>1. e \in b .. Len(t) /\ e \in Nat
    BY <1>1, <1>6 DEF EndsAt
  <2>2. ~(e < h - 1)
    <3>. SUFFICES ASSUME e < h - 1 PROVE FALSE
      OBVIOUS
    <3>1. e + 1 \in b .. h - 1 /\ e # Len(t)
      BY <1>1, <1>2, <2>1
    <3>. QED
      BY <1>4, <1>6, <3>1 DEF EndsAt
  <2>3. ~(e > h - 1)
    <3>. SUFFICES ASSUME e > h - 1 PROVE FALSE
      OBVIOUS
    <3>1. h \in b .. e /\ h # Len(t) + 1
      BY <1>1, <1>2, <2>1
    <3>. QED
      BY <1>6, <3>1 DEF EndsAt
  <2>. QED
    BY <1>1, <1>2, <2>1, <2>2, <2>3
<1>7. WordOf(t, b) = r
  <2>1. WordOf(t, b) = SubSeq(t, b, h - 1)
    BY <1>5, <1>6 DEF WordOf
  <2>. DEFINE s == SubSeq(t, b, h - 1)
  <2>2. /\ s \in Seq(Letter) /\ Len(s) = n
        /\ \A j \in 1 .. n : s[j] = t[b + j - 1]
    BY <1>1, <1>2
  <2>. HIDE DEF s
  <2>3. \A j \in 1 .. n : s[j] = r[j]
    BY <1>3, <2>2
  <2>4. s = r
    BY <1>1, <2>2, <2>3, SeqEqual DEF n
  <2>. QED
    BY <2>1, <2>4 DEF s
<1>8. ASSUME NEW k \in StartsOf(t), k > b PROVE k > h - 1
  <2>. SUFFICES ASSUME k <= h - 1 PROVE FALSE
    BY <1>1, <1>2 DEF StartsOf
  <2>1. k \in 1 .. Len(t) /\ k \in Nat /\ (k = 1 \/ t[k - 1] = Space)
    BY <1>1 DEF StartsOf
  <2>2. k # 1 /\ k - 1 \in b .. h - 1
    BY <1>1, <1>2, <1>8, <2>1
  <2>. QED
    BY <1>4, <2>1, <2>2
<1>9. UptoOf(t, h - 1) = UptoOf(t, b - 1) \cup {b}
  <2>1. b \in StartsOf(t)
    BY DEF InWord
  <2>2. ASSUME NEW k \in StartsOf(t) PROVE k <= h - 1 <=> k <= b - 1 \/ k = b
    <3>1. k \in Nat
      BY <1>1 DEF StartsOf
    <3>. QED
      BY <1>1, <1>2, <1>8, <3>1
  <2>. QED
    BY <2>1, <2>2 DEF UptoOf
<1>10. ASSUME h <= Len(t) PROVE UptoOf(t, h) = UptoOf(t, h - 1)
  <2>1. t[h] = Space
    BY <1>1, <1>2, <1>10
  <2>2. h \notin StartsOf(t)
    BY <2>1 DEF StartsOf
  <2>3. ASSUME NEW k \in StartsOf(t) PROVE k <= h <=> k <= h - 1
    <3>1. k \in Nat /\ k # h
      BY <1>1, <2>2 DEF StartsOf
    <3>. QED
      BY <1>1, <1>2, <3>1
  <2>. QED
    BY <2>3 DEF UptoOf
<1>. QED
  BY <1>7, <1>9, <1>10

\* Where c is.
Here == IF c = EOF THEN Len(text) + 1 ELSE pos

Reading ==
  /\ reader = "skip" => (c = EOF \/ c = Space) /\ Words(text, result, pos)
  /\ reader = "arg" =>
       \E b : InWord(text, readbuf, b, Here) /\ Words(text, result, b - 1)
  /\ reader = "done" => Words(text, result, Len(text))

LEMMA NoWords == ASSUME NEW t \in Texts PROVE Words(t, <<>>, 0)
<1>1. UptoOf(t, 0) = {}
  BY DEF UptoOf, StartsOf
<1>2. Len(<<>>) = 0
  OBVIOUS
<1>. QED
  BY <1>1, <1>2, FS_EmptySet DEF Words

LEMMA SkipReading ==
  ASSUME ReaderTypes, Reading, Skip
  PROVE  Reading'
<1>1. /\ UNCHANGED <<text, result>> /\ readbuf' = <<>> /\ reader = "skip"
      /\ reader' = IF c' = EOF THEN "done" ELSE IF c' = Space THEN "skip" ELSE "arg"
      /\ IF c = EOF THEN UNCHANGED <<pos, c>> ELSE fgetc
  BY DEF Skip, Space
<1>2. /\ c = EOF \/ c = Space
      /\ Words(text, result, pos)
  BY <1>1 DEF Reading
<1>3. text \in Texts /\ Len(text) \in Nat /\ pos \in 0 .. Len(text)
  BY DEF ReaderTypes, Shapes, Texts
<1>4. CASE c' = EOF
  <2>1. pos = Len(text)
    <3>1. CASE c = EOF
      BY <3>1 DEF ReaderTypes, Last
    <3>2. CASE c # EOF
      <4>1. fgetc
        BY <1>1, <3>2
      <4>. QED
        BY <1>4, <4>1, NextCharacter
    <3>. QED
      BY <3>1, <3>2
  <2>2. reader' = "done"
    BY <1>1, <1>4
  <2>. QED
    BY <1>1, <1>2, <2>1, <2>2 DEF Reading
<1>5. CASE c' # EOF
  <2>1. fgetc /\ c = Space
    BY <1>1, <1>2, <1>5
  <2>2. pos' = pos + 1 /\ pos' \in 1 .. Len(text) /\ c' = text[pos']
    BY <1>5, <2>1, NextCharacter
  <2>3. CASE c' = Space
    <3>1. reader' = "skip"
      BY <1>1, <1>5, <2>3
    <3>2. ASSUME NEW k \in StartsOf(text) PROVE k <= pos' <=> k <= pos
      <4>1. k # pos' /\ k \in Nat
        <5>1. k \in 1 .. Len(text) /\ text[k] # Space
          BY DEF StartsOf
        <5>2. text[pos'] = Space
          BY <2>2, <2>3
        <5>3. k \in Nat
          BY <1>3, <5>1
        <5>. QED
          BY <5>1, <5>2, <5>3
      <4>. QED
        BY <1>3, <2>2, <4>1
    <3>3. UptoOf(text, pos') = UptoOf(text, pos)
      BY <3>2 DEF UptoOf
    <3>4. Words(text, result, pos')
      BY <1>2, <3>3 DEF Words
    <3>. QED
      BY <1>1, <2>3, <3>1, <3>4 DEF Reading
  <2>4. CASE c' # Space
    <3>1. reader' = "arg"
      BY <1>1, <1>5, <2>4
    <3>2. pos' = 1 \/ text[pos' - 1] = Space
      <4>1. pos' - 1 = pos
        BY <1>3, <2>2
      <4>2. pos # 0 => text[pos] = Space
        BY <2>1, Letters DEF ReaderTypes, Last
      <4>. QED
        BY <1>3, <2>2, <4>1, <4>2
    <3>3. pos' \in StartsOf(text)
      BY <2>2, <2>4, <3>2 DEF StartsOf
    <3>4. Len(readbuf') = 0
      BY <1>1
    <3>5. Here' = pos'
      BY <1>5 DEF Here
    <3>6. InWord(text, readbuf', pos', Here')
      BY <1>3, <2>2, <3>3, <3>4, <3>5 DEF InWord
    <3>7. Words(text, result, pos' - 1)
      <4>1. pos' - 1 = pos
        BY <1>3, <2>2
      <4>. QED
        BY <1>2, <4>1
    <3>. QED
      BY <1>1, <3>1, <3>6, <3>7 DEF Reading
  <2>. QED
    BY <2>3, <2>4
<1>. QED
  BY <1>4, <1>5

LEMMA StoreReading ==
  ASSUME ReaderTypes, Reading, Store
  PROVE  Reading'
<1>1. /\ UNCHANGED <<text, result>> /\ reader = "arg" /\ reader' = "arg"
      /\ readbuf' = Append(readbuf, c) /\ c # EOF /\ c # Space /\ fgetc
  BY DEF Store, Space
<1>2. PICK b : InWord(text, readbuf, b, Here) /\ Words(text, result, b - 1)
  BY <1>1 DEF Reading
<1>3. /\ text \in Texts /\ Len(text) \in Nat /\ pos \in 0 .. Len(text)
      /\ readbuf \in Seq(Letter) /\ c \in Letter
  BY <1>1 DEF ReaderTypes, Shapes, Last, Texts
<1>. DEFINE n == Len(readbuf)
<1>4. /\ n \in Nat /\ Len(readbuf') = n + 1 /\ readbuf'[n + 1] = c
      /\ \A j \in 1 .. n : readbuf'[j] = readbuf[j]
  BY <1>1, <1>3
<1>5. pos # 0 /\ c = text[pos]
  BY <1>1 DEF ReaderTypes, Last
<1>6. Here = pos /\ Here' = pos + 1
  <2>1. Here = pos
    BY <1>1 DEF Here
  <2>2. CASE pos < Len(text)
    <3>1. pos' = pos + 1 /\ c' # EOF
      BY <1>1, <2>2, NextCharacter
    <3>. QED
      BY <2>1, <3>1 DEF Here
  <2>3. CASE ~(pos < Len(text))
    <3>1. pos = Len(text) /\ c' = EOF
      BY <1>1, <2>3, NextCharacter
    <3>. QED
      BY <1>1, <2>1, <3>1 DEF Here
  <2>. QED
    BY <2>2, <2>3
<1>7. /\ b \in StartsOf(text) /\ b \in Nat /\ pos = b + n /\ pos <= Len(text) + 1
      /\ \A j \in 1 .. n : text[b + j - 1] = readbuf[j] /\ readbuf[j] # Space
  BY <1>2, <1>3, <1>6 DEF InWord, StartsOf
<1>. HIDE DEF n
<1>8. ASSUME NEW j \in 1 .. n + 1
      PROVE  text[b + j - 1] = readbuf'[j] /\ readbuf'[j] # Space
  <2>1. CASE j \in 1 .. n
    BY <1>4, <1>7, <2>1
  <2>2. CASE j = n + 1
    <3>1. b + j - 1 = pos
      BY <1>4, <1>7, <2>2
    <3>. QED
      BY <1>1, <1>4, <1>5, <2>2, <3>1
  <2>. QED
    BY <1>4, <2>1, <2>2
<1>9. Here' = b + (n + 1) /\ Here' <= Len(text) + 1
  BY <1>3, <1>4, <1>6, <1>7
<1>10. InWord(text, readbuf', b, Here')
  BY <1>4, <1>7, <1>8, <1>9 DEF InWord
<1>. QED
  BY <1>1, <1>2, <1>10 DEF Reading

LEMMA EndArgReading ==
  ASSUME ReaderTypes, Reading, EndArg
  PROVE  Reading'
<1>1. /\ UNCHANGED <<text, pos, c, readbuf>> /\ reader = "arg"
      /\ c = EOF \/ c = Space
      /\ \/ reader' = "skip" /\ result' = Append(result, readbuf)
         \/ reader' = "corrupt"
  BY DEF EndArg, Space
<1>2. PICK b : InWord(text, readbuf, b, Here) /\ Words(text, result, b - 1)
  BY <1>1 DEF Reading
<1>3. /\ text \in Texts /\ Len(text) \in Nat /\ pos \in 0 .. Len(text)
      /\ readbuf \in Texts /\ Len(readbuf) \in Nat /\ result \in Seq(Texts)
  BY DEF ReaderTypes, Shapes, Texts
<1>4. /\ b \in StartsOf(text) /\ b \in 1 .. Len(text) /\ text[b] # Space
      /\ Here = b + Len(readbuf) /\ Here <= Len(text) + 1
  BY <1>2 DEF InWord, StartsOf
<1>5. \/ c = EOF /\ Here = Len(text) + 1 /\ pos = Len(text)
      \/ c # EOF /\ Here = pos /\ text[Here] = Space
  <2>1. CASE c = EOF
    BY <2>1 DEF Here, ReaderTypes, Last
  <2>2. CASE c # EOF
    <3>1. Here = pos /\ c = Space
      BY <1>1, <2>2 DEF Here
    <3>2. pos # 0
      BY <1>3, <1>4, <3>1
    <3>3. text[pos] = Space
      BY <2>2, <3>1, <3>2 DEF ReaderTypes, Last
    <3>. QED
      BY <2>2, <3>1, <3>3
  <2>. QED
    BY <2>1, <2>2
<1>6. Len(readbuf) # 0
  <2>. SUFFICES ASSUME Len(readbuf) = 0 PROVE FALSE
    OBVIOUS
  <2>1. Here = b
    BY <1>3, <1>4
  <2>. QED
    BY <1>3, <1>4, <1>5, <2>1
<1>7. Here = Len(text) + 1 \/ text[Here] = Space
  BY <1>5
<1>8. /\ WordOf(text, b) = readbuf
      /\ UptoOf(text, Here - 1) = UptoOf(text, b - 1) \cup {b}
      /\ Here <= Len(text) => UptoOf(text, Here) = UptoOf(text, b - 1) \cup {b}
  BY <1>2, <1>3, <1>6, <1>7, WordEnds
<1>9. UptoOf(text, pos) = UptoOf(text, b - 1) \cup {b}
  <2>1. CASE c = EOF
    <3>1. Here - 1 = pos
      BY <1>3, <1>5, <2>1
    <3>. QED
      BY <1>8, <3>1
  <2>2. CASE c # EOF
    BY <1>3, <1>5, <1>8, <2>2
  <2>. QED
    BY <2>1, <2>2
<1>10. CASE reader' = "skip" /\ result' = Append(result, readbuf)
  <2>1. Words(text, Append(result, WordOf(text, b)), pos)
    BY <1>2, <1>3, <1>4, <1>8, <1>9, Counted
  <2>. QED
    BY <1>1, <1>8, <1>10, <2>1 DEF Reading
<1>11. CASE reader' = "corrupt"
  BY <1>11 DEF Reading
<1>. QED
  BY <1>1, <1>10, <1>11

LEMMA ReadingInductive ==
  ASSUME SquashInv, ReaderTypes, ReaderTypes', Reading, [ReadNext]_<<vars, readVars>>
  PROVE  Reading'
<1>1. CASE Open
  <2>1. reader = "closed" /\ reader' = "skip" /\ UNCHANGED <<pos, c, result>>
    BY <1>1 DEF Open
  <2>2. result' = <<>> /\ pos' = 0 /\ c' = Space
    BY <2>1 DEF ReaderTypes, Closed
  <2>3. text' \in Texts
    BY <1>1, TextTypes
  <2>4. Words(text', <<>>, 0)
    BY <2>3, NoWords
  <2>5. Words(text', result', pos')
    BY <2>2, <2>4
  <2>. QED
    BY <2>1, <2>2, <2>5 DEF Reading
<1>2. CASE Close \/ (reader = "closed" /\ UNCHANGED readVars)
  <2>1. reader' = "closed"
    BY <1>2 DEF Close, readVars
  <2>. QED
    BY <2>1 DEF Reading
<1>3. CASE UNCHANGED <<vars, readVars>>
  <2>1. UNCHANGED <<text, pos, c, readbuf, result, reader>>
    BY <1>3 DEF readVars
  <2>. QED
    BY <2>1 DEF Reading, Here
<1>. QED
  BY <1>1, <1>2, <1>3, SkipReading, StoreReading, EndArgReading DEF ReadNext

LEMMA ReadingAlways == ReadSpec => []Reading
<1>1. ReadInit => Reading
  BY DEF ReadInit, Reading
<1>2. /\ SquashInv /\ ReaderTypes /\ ReaderTypes' /\ Reading
      /\ [ReadNext]_<<vars, readVars>>
      => Reading'
  BY ReadingInductive
<1>. QED
  BY <1>1, <1>2, SquashAlways, ReaderAlways, PTL DEF ReadSpec

\* ReadResponseFile returns the words of any text, of any length: the loops of
\* flag.c that read a character at a time agree with what a word is.
THEOREM AllWords == ReadSpec => []WordsRead
<1>1. ReaderTypes /\ Reading => WordsRead
  <2>. SUFFICES ASSUME ReaderTypes, Reading, reader = "done" PROVE WordsRead
    BY DEF WordsRead
  <2>1. text \in Texts /\ Len(text) \in Nat /\ DOMAIN text = 1 .. Len(text)
    BY DEF ReaderTypes, Shapes, Texts
  <2>2. Words(text, result, Len(text))
    BY DEF Reading
  <2>3. Starts = StartsOf(text)
    BY <2>1 DEF Starts, StartsOf, Space
  <2>4. UptoOf(text, Len(text)) = Starts
    BY <2>1, <2>3 DEF UptoOf, StartsOf
  <2>5. ASSUME NEW k \in Starts PROVE {j \in Starts : j <= k} = UptoOf(text, k)
    BY <2>3 DEF UptoOf
  <2>6. ASSUME NEW k \in Starts PROVE WordAt(k) = WordOf(text, k)
    <3>1. \A e : EndsAt(text, k, e) <=>
                   /\ e \in k .. Len(text)
                   /\ \A j \in k .. e : text[j] # " "
                   /\ e = Len(text) \/ text[e + 1] = " "
      BY DEF EndsAt, Space
    <3>. QED
      BY <3>1 DEF WordAt, WordOf
  <2>7. Len(result) = Cardinality(Starts)
    BY <2>2, <2>4 DEF Words
  <2>8. ASSUME NEW k \in Starts
        PROVE  result[Cardinality({j \in Starts : j <= k})] = WordAt(k)
    BY <2>2, <2>4, <2>5, <2>6 DEF Words
  <2>. QED
    BY <2>7, <2>8 DEF WordsRead
<1>. QED
  BY <1>1, ReaderAlways, ReadingAlways, PTL
=============================================================================
