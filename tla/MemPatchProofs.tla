--------------------------- MODULE MemPatchProofs ---------------------------
(***************************************************************************)
(* Proofs about MemPatch, for any memory and any two patches.              *)
(***************************************************************************)
EXTENDS MemPatch, TLAPS

\* Nothing was found before place s.
NoneBefore(p, s) == \A r \in 0 .. s - 1 : ~Occurs(before, p, r)

\* The first k bytes of p are at s.
Partial(p, s, k) == \A n \in 0 .. k - 1 : before[s + n] = p.old_data[n]

\* The search has not changed anything; the last match_len bytes fit, and
\* no earlier place does.
Searching ==
  pc = "search" =>
    /\ buf = before
    /\ match_len < patch.sz
    /\ match_len <= i
    /\ Partial(patch, i - match_len, match_len)
    /\ NoneBefore(patch, i - match_len)

\* The first j bytes at the first place that fits have been replaced.
Copying ==
  pc = "copy" =>
    /\ j <= patch.sz
    /\ j <= i
    /\ Occurs(before, patch, i - j)
    /\ NoneBefore(patch, i - j)
    /\ \A a \in Address :
         buf[a] = IF a >= i - j /\ a < i THEN patch.new_data[a - (i - j)]
                  ELSE before[a]

\* The inductive invariant.
Inv == TypeOK /\ Searching /\ Copying

-----------------------------------------------------------------------------
\* The current patch is one of the two.
LEMMA Current ==
  ASSUME TypeOK, pc # "done"
  PROVE  /\ IsPatch(patch)
         /\ Tail(todo) \in {<<>>, <<respawn_time>>, <<move_oxen, respawn_time>>}
<1>1. todo = <<respawn_time>> \/ todo = <<move_oxen, respawn_time>>
  BY DEF TypeOK
<1>2. patch = respawn_time \/ patch = move_oxen
  BY <1>1 DEF patch
<1>3. /\ Tail(<<respawn_time>>) = <<>>
      /\ Tail(<<move_oxen, respawn_time>>) = <<respawn_time>>
  OBVIOUS
<1>4. Tail(todo) = <<>> \/ Tail(todo) = <<respawn_time>>
  BY <1>1, <1>3, Zenon
<1> QED
  BY <1>2, <1>4, PatchAssumption

\* The invariant holds for any memory before the first patch.
LEMMA InitInv == Init => Inv
<1> SUFFICES ASSUME Init PROVE Inv
  OBVIOUS
<1>1. todo \in {<<>>, <<respawn_time>>, <<move_oxen, respawn_time>>}
  BY DEF Init, ApplyPatches
<1>2. TypeOK
  BY <1>1, PatchAssumption DEF Init, TypeOK
<1>3. pc = "search" => patch.sz \in Nat \ {0}
  BY <1>2, Current DEF IsPatch
<1>4. Searching /\ Copying
  BY <1>3 DEF Init, Searching, Copying, Partial, NoneBefore
<1> QED
  BY <1>2, <1>4 DEF Inv

\* A place whose byte number match_len does not fit is not a match.
LEMMA MismatchInv == ASSUME Inv, Mismatch PROVE Inv'
<1> DEFINE s == i - match_len
<1>1. /\ TypeOK /\ pc = "search" /\ IsPatch(patch)
  BY Current DEF Inv, Mismatch, TypeOK
<1>2. /\ i \in Nat /\ i < buf_len /\ match_len \in Nat /\ s \in Nat
      /\ buf_len \in Nat /\ patch.sz \in Nat
      /\ match_len < patch.sz /\ buf = before
      /\ NoneBefore(patch, s)
  BY <1>1, PatchAssumption DEF Inv, Searching, TypeOK, Mismatch, IsPatch
<1>3. before[s + match_len] # patch.old_data[match_len]
  BY <1>2 DEF Mismatch
<1>4. ~Occurs(before, patch, s)
  BY <1>2, <1>3 DEF Occurs
<1>5. \A r \in 0 .. (s + 1) - 1 : ~Occurs(before, patch, r)
  BY <1>2, <1>4 DEF NoneBefore
<1>6. /\ i' = s + 1 /\ match_len' = 0 /\ patch' = patch
      /\ UNCHANGED <<buf, todo, pc, j, before>>
  BY DEF Mismatch, Rewind, patch
<1>7. TypeOK'
  BY <1>1, <1>2, <1>6 DEF TypeOK
<1>8. i' - match_len' = s + 1
  BY <1>2, <1>6
<1>9. NoneBefore(patch, i - match_len)' /\ Partial(patch, i - match_len, match_len)'
  BY <1>5, <1>6, <1>8 DEF NoneBefore, Partial, Occurs
<1>10. Searching' /\ Copying'
  BY <1>1, <1>2, <1>6, <1>9 DEF Searching, Copying
<1> QED
  BY <1>7, <1>10 DEF Inv

\* One more byte fits.
LEMMA ExtendInv == ASSUME Inv, Extend PROVE Inv'
<1> DEFINE s == i - match_len
<1>1. /\ TypeOK /\ pc = "search" /\ IsPatch(patch)
  BY Current DEF Inv, Extend, TypeOK
<1>2. /\ i \in Nat /\ i < buf_len /\ match_len \in Nat /\ s \in Nat
      /\ buf_len \in Nat /\ patch.sz \in Nat
      /\ buf = before
      /\ NoneBefore(patch, s) /\ Partial(patch, s, match_len)
  BY <1>1, PatchAssumption DEF Inv, Searching, TypeOK, Extend, IsPatch
<1>3. before[s + match_len] = patch.old_data[match_len]
  BY <1>2 DEF Extend
<1>4. \A n \in 0 .. (match_len + 1) - 1 : before[s + n] = patch.old_data[n]
  BY <1>2, <1>3 DEF Partial
<1>5. /\ i' = i + 1 /\ match_len' = match_len + 1 /\ patch' = patch
      /\ match_len + 1 < patch.sz
      /\ UNCHANGED <<buf, todo, pc, j, before>>
  BY DEF Extend, patch
<1>6. TypeOK'
  BY <1>1, <1>2, <1>5 DEF TypeOK
<1>7. i' - match_len' = s
  BY <1>2, <1>5
<1>8. NoneBefore(patch, i - match_len)' /\ Partial(patch, i - match_len, match_len)'
  BY <1>2, <1>4, <1>5, <1>7 DEF NoneBefore, Partial, Occurs
<1>9. Searching' /\ Copying'
  BY <1>1, <1>2, <1>5, <1>8 DEF Searching, Copying
<1> QED
  BY <1>6, <1>9 DEF Inv

\* The last byte fits: this is the first match.
LEMMA MatchedInv == ASSUME Inv, Matched PROVE Inv'
<1> DEFINE s == i - match_len
<1>1. /\ TypeOK /\ pc = "search" /\ IsPatch(patch)
  BY Current DEF Inv, Matched, TypeOK
<1>2. /\ i \in Nat /\ i < buf_len /\ match_len \in Nat /\ s \in Nat
      /\ buf_len \in Nat /\ patch.sz \in Nat
      /\ match_len + 1 = patch.sz /\ buf = before
      /\ NoneBefore(patch, s) /\ Partial(patch, s, match_len)
  BY <1>1, PatchAssumption DEF Inv, Searching, TypeOK, Matched, IsPatch
<1>3. before[s + match_len] = patch.old_data[match_len]
  BY <1>2 DEF Matched
<1>4. Occurs(before, patch, s)
  BY <1>2, <1>3 DEF Partial, Occurs
<1>5. /\ i' = s /\ j' = 0 /\ pc' = "copy" /\ patch' = patch
      /\ UNCHANGED <<buf, todo, match_len, before>>
  BY DEF Matched, Rewind, patch
<1>6. TypeOK'
  BY <1>1, <1>2, <1>5 DEF TypeOK
<1>7. i' - j' = s
  BY <1>2, <1>5
<1>8. Occurs(before, patch, i - j)' /\ NoneBefore(patch, i - j)'
  BY <1>2, <1>4, <1>5, <1>7 DEF NoneBefore, Occurs
<1>9. \A a \in Address : ~(a >= s /\ a < s) /\ buf'[a] = before[a]
  BY <1>2, <1>5 DEF Address
<1>10. Searching' /\ Copying'
  BY <1>2, <1>5, <1>7, <1>8, <1>9 DEF Searching, Copying
<1> QED
  BY <1>6, <1>10 DEF Inv

\* One more byte is replaced.
LEMMA CopyInv == ASSUME Inv, Copy PROVE Inv'
<1> DEFINE s == i - j
<1>1. /\ TypeOK /\ pc = "copy" /\ IsPatch(patch)
  BY Current DEF Inv, Copy, TypeOK
<1>2. /\ i \in Nat /\ i <= buf_len /\ j \in Nat /\ s \in Nat /\ i = s + j
      /\ buf_len \in Nat /\ patch.sz \in Nat
      /\ j < patch.sz
      /\ Occurs(before, patch, s) /\ NoneBefore(patch, s)
      /\ \A a \in Address :
           buf[a] = IF a >= s /\ a < i THEN patch.new_data[a - s]
                    ELSE before[a]
  BY <1>1, PatchAssumption DEF Inv, Copying, TypeOK, Copy, IsPatch
<1>3. /\ buf' = [buf EXCEPT ![i] = patch.new_data[j]]
      /\ i' = i + 1 /\ j' = j + 1 /\ patch' = patch
      /\ UNCHANGED <<todo, pc, match_len, before>>
  BY DEF Copy, patch
<1>4. i + 1 <= buf_len /\ i \in Address
  BY <1>2 DEF Occurs, Address
<1>5. patch.new_data[j] \in Byte
  <2>1. patch.new_data \in [0 .. patch.sz - 1 -> Byte]
    BY <1>1 DEF IsPatch
  <2>2. j \in Nat /\ patch.sz \in Nat /\ j < patch.sz
    BY <1>2
  <2>3. j \in 0 .. patch.sz - 1
    BY <2>2
  <2> QED
    BY <2>1, <2>3
<1>6. TypeOK'
  BY <1>1, <1>2, <1>3, <1>4, <1>5 DEF TypeOK
<1>7. i' - j' = s
  BY <1>2, <1>3
<1>8. Occurs(before, patch, i - j)' /\ NoneBefore(patch, i - j)'
  BY <1>2, <1>3, <1>7 DEF NoneBefore, Occurs
<1>9. \A a \in Address :
        buf'[a] = IF a >= s /\ a < i + 1 THEN patch.new_data[a - s]
                  ELSE before[a]
  <2> TAKE a \in Address
  <2>1. a \in Nat
    BY DEF Address
  <2>2. CASE a = i
    BY <1>1, <1>2, <1>3, <1>4, <2>2 DEF TypeOK
  <2>3. CASE a # i
    BY <1>1, <1>2, <1>3, <1>4, <2>1, <2>3 DEF TypeOK
  <2> QED
    BY <2>2, <2>3
<1>10. Searching' /\ Copying'
  BY <1>1, <1>2, <1>3, <1>7, <1>8, <1>9 DEF Searching, Copying
<1> QED
  BY <1>6, <1>10 DEF Inv

\* The next patch starts from what this one left.
LEMMA ReturnInv == ASSUME Inv, Return PROVE Inv'
<1>1. TypeOK /\ pc # "done"
  BY DEF Inv, Return
<1>2. Tail(todo) \in {<<>>, <<respawn_time>>, <<move_oxen, respawn_time>>}
  BY <1>1, Current
<1>3. TypeOK'
  BY <1>1, <1>2, PatchAssumption DEF TypeOK, Return
<1>4. pc' = "search" => patch'.sz \in Nat \ {0}
  <2> HAVE pc' = "search"
  <2>1. todo' = <<respawn_time>> \/ todo' = <<move_oxen, respawn_time>>
    BY <1>2 DEF Return
  <2>2. patch' = respawn_time \/ patch' = move_oxen
    BY <2>1 DEF patch
  <2> QED
    BY <2>2, PatchAssumption DEF IsPatch
<1>5. Searching' /\ Copying'
  BY <1>4 DEF Return, Searching, Copying, Partial, NoneBefore
<1> QED
  BY <1>3, <1>5 DEF Inv

\* The invariant holds in every run.
THEOREM Invariance == Spec => []Inv
<1>1. Inv /\ UNCHANGED vars => Inv'
  BY DEF vars, Inv, TypeOK, Searching, Copying, Partial, NoneBefore, Occurs,
         patch
<1>2. Inv /\ [Next]_vars => Inv'
  BY <1>1, MismatchInv, ExtendInv, MatchedInv, CopyInv, ReturnInv DEF Next
<1> QED
  BY <1>2, InitInv, PTL DEF Spec

\* Neither loop of ApplyPatch leaves the bytes it was given.
THEOREM TypeCorrect == Spec => []TypeOK
<1>1. Inv => TypeOK
  BY DEF Inv
<1> QED
  BY <1>1, Invariance, PTL

\* ApplyPatch replaces the first occurrence of the old bytes, and nothing
\* when there is none.
THEOREM Right == Spec => PatchesRight
<1>1. ASSUME Inv, Return PROVE Patched(before, patch, buf)
  <2>1. TypeOK /\ pc # "done" /\ IsPatch(patch)
    BY <1>1, Current DEF Inv, Return
  <2>2. CASE pc = "search"
    <3>1. /\ i = buf_len /\ buf = before /\ i \in Nat
          /\ match_len \in Nat /\ match_len < patch.sz /\ patch.sz \in Nat
          /\ NoneBefore(patch, i - match_len)
      BY <1>1, <2>1, <2>2, PatchAssumption
         DEF Inv, TypeOK, Return, Searching, IsPatch
    <3>2. ASSUME NEW s \in Address PROVE ~Occurs(before, patch, s)
      <4>1. s \in Nat
        BY DEF Address
      <4>2. CASE s < i - match_len
        BY <3>1, <4>1, <4>2 DEF NoneBefore
      <4>3. CASE s >= i - match_len
        BY <3>1, <4>1, <4>3 DEF Occurs
      <4> QED
        BY <3>1, <4>1, <4>2, <4>3
    <3> QED
      BY <3>1, <3>2 DEF Patched
  <2>3. CASE pc = "copy"
    <3> DEFINE s == i - j
    <3>1. /\ i \in Nat /\ i <= buf_len /\ j = patch.sz /\ j \in Nat
          /\ s \in Nat /\ i = s + patch.sz
          /\ Occurs(before, patch, s) /\ NoneBefore(patch, s)
          /\ \A a \in Address :
               buf[a] = IF a >= s /\ a < i THEN patch.new_data[a - s]
                        ELSE before[a]
      <4>1. /\ i \in Nat /\ i <= buf_len /\ j \in Nat
            /\ patch.sz \in Nat /\ j >= patch.sz
        BY <1>1, <2>1, <2>3, PatchAssumption DEF TypeOK, Return, IsPatch
      <4>2. /\ j <= patch.sz /\ j <= i
            /\ Occurs(before, patch, s) /\ NoneBefore(patch, s)
            /\ \A a \in Address :
                 buf[a] = IF a >= s /\ a < i THEN patch.new_data[a - s]
                          ELSE before[a]
        BY <1>1, <2>3 DEF Inv, Copying
      <4>3. j = patch.sz /\ s \in Nat /\ i = s + patch.sz
        BY <4>1, <4>2
      <4> QED
        BY <4>1, <4>2, <4>3
    <3>2. s \in Address
      BY <3>1, PatchAssumption DEF Address
    <3>3. buf \in [Address -> Byte]
      BY <2>1 DEF TypeOK
    <3>4. buf = Replaced(before, patch, s)
      BY <3>1, <3>3 DEF Replaced
    <3> QED
      BY <3>1, <3>2, <3>4 DEF Patched, NoneBefore
  <2> QED
    BY <1>1, <2>2, <2>3 DEF Return
<1>2. Inv /\ [Next]_vars => [todo' # todo => Patched(before, patch, buf)]_vars
  BY <1>1 DEF Next, Mismatch, Extend, Matched, Copy, vars
<1> QED
  BY <1>2, Invariance, PTL DEF Spec, PatchesRight
=============================================================================
