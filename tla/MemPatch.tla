------------------------------ MODULE MemPatch ------------------------------
(***************************************************************************)
(* mempatch.c: search Sopwith's memory for known bytes and replace them.   *)
(*                                                                         *)
(* One action is one turn of a loop of ApplyPatch.  The machine's unsigned *)
(* int has 16 bits and buf_len is 0xffff: i never passes buf_len (TypeOK), *)
(* and so it does not wrap around.                                         *)
(***************************************************************************)
EXTENDS Integers, Sequences

CONSTANTS
  Byte,
  buf_len,       \* the bytes to search: 0xffff, of a segment of one more
  move_oxen,     \* the two patches: records of two arrays and their size
  respawn_time,
  num_players,
  no_mem_patch   \* the -nomempatch flag

Address == 0 .. buf_len

\* A patch replaces at least one byte, by as many.
IsPatch(p) ==
  /\ p.sz \in Nat \ {0}
  /\ p.old_data \in [0 .. p.sz - 1 -> Byte]
  /\ p.new_data \in [0 .. p.sz - 1 -> Byte]

ASSUME PatchAssumption ==
  /\ buf_len \in Nat
  /\ IsPatch(move_oxen)
  /\ IsPatch(respawn_time)
  /\ num_players \in Nat
  /\ no_mem_patch \in BOOLEAN

VARIABLES
  buf,        \* the segment
  todo,       \* the patches still to apply, the current one first
  pc,         \* the loop of ApplyPatch
  i, j,
  match_len,
  before      \* history: buf when the current patch began

vars == <<buf, todo, pc, i, j, match_len, before>>

patch == Head(todo)

\* ApplyPatches: the oxen are in nobody's way in a game of two.
ApplyPatches ==
  IF no_mem_patch THEN <<>>
  ELSE IF num_players > 2 THEN <<move_oxen, respawn_time>>
  ELSE <<respawn_time>>

Init ==
  /\ buf \in [Address -> Byte]
  /\ before = buf
  /\ todo = ApplyPatches
  /\ pc = IF todo = <<>> THEN "done" ELSE "search"
  /\ i = 0 /\ j = 0 /\ match_len = 0

\* The place where the match ended is taken for the one where it began.
MutNoRewind(k, len) == k

\* Back to where the match began.
Rewind(k, len) == k - len

\* The search goes on behind the bytes that were looked at.
MutNoBacktrack ==
  /\ pc = "search"
  /\ i < buf_len
  /\ buf[i] # patch.old_data[match_len]
  /\ i' = i + 1
  /\ match_len' = 0
  /\ UNCHANGED <<buf, todo, pc, j, before>>

\* The search starts again where it started.
MutSamePlace ==
  /\ pc = "search"
  /\ i < buf_len
  /\ buf[i] # patch.old_data[match_len]
  /\ i' = IF match_len = 0 THEN i + 1 ELSE Rewind(i, match_len)
  /\ match_len' = 0
  /\ UNCHANGED <<buf, todo, pc, j, before>>

\* The byte is not the one expected: try one place further on.
Mismatch ==
  /\ pc = "search"
  /\ i < buf_len
  /\ buf[i] # patch.old_data[match_len]
  /\ i' = Rewind(i, match_len) + 1
  /\ match_len' = 0
  /\ UNCHANGED <<buf, todo, pc, j, before>>

\* The byte fits, and there are more.
Extend ==
  /\ pc = "search"
  /\ i < buf_len
  /\ buf[i] = patch.old_data[match_len]
  /\ match_len + 1 < patch.sz
  /\ match_len' = match_len + 1
  /\ i' = i + 1
  /\ UNCHANGED <<buf, todo, pc, j, before>>

\* The last byte fits: leave the loop.
Matched ==
  /\ pc = "search"
  /\ i < buf_len
  /\ buf[i] = patch.old_data[match_len]
  /\ match_len + 1 >= patch.sz
  /\ i' = Rewind(i, match_len)
  /\ pc' = "copy"
  /\ j' = 0
  /\ UNCHANGED <<buf, todo, match_len, before>>

\* The second loop.
Copy ==
  /\ pc = "copy"
  /\ j < patch.sz
  /\ buf' = [buf EXCEPT ![i] = patch.new_data[j]]
  /\ i' = i + 1
  /\ j' = j + 1
  /\ UNCHANGED <<todo, pc, match_len, before>>

\* ApplyPatch returns, with or without a match, and is called again.
Return ==
  /\ \/ pc = "search" /\ i >= buf_len
     \/ pc = "copy" /\ j >= patch.sz
  /\ todo' = Tail(todo)
  /\ pc' = IF Tail(todo) = <<>> THEN "done" ELSE "search"
  /\ i' = 0 /\ j' = 0 /\ match_len' = 0
  /\ before' = buf
  /\ UNCHANGED buf

Next == Mismatch \/ Extend \/ Matched \/ Copy \/ Return

Spec == Init /\ [][Next]_vars

\* A loop that can go on does.
FairSpec == Spec /\ WF_vars(Next)

-----------------------------------------------------------------------------
(* Properties.                                                             *)

\* Every variable has its type; neither loop leaves the bytes to search.
TypeOK ==
  /\ buf \in [Address -> Byte]
  /\ before \in [Address -> Byte]
  /\ todo \in {<<>>, <<respawn_time>>, <<move_oxen, respawn_time>>}
  /\ todo = <<>> <=> pc = "done"
  /\ pc \in {"search", "copy", "done"}
  /\ i \in 0 .. buf_len
  /\ j \in Nat
  /\ match_len \in Nat

\* The old bytes of p are at s.
Occurs(b, p, s) ==
  /\ s + p.sz <= buf_len
  /\ \A k \in 0 .. p.sz - 1 : b[s + k] = p.old_data[k]

Replaced(b, p, s) ==
  [a \in Address |-> IF a >= s /\ a < s + p.sz THEN p.new_data[a - s]
                     ELSE b[a]]

\* What a patch should do: replace the first occurrence, if there is one.
Patched(b, p, after) ==
  \/ /\ \A s \in Address : ~Occurs(b, p, s)
     /\ after = b
  \/ \E s \in Address : /\ Occurs(b, p, s)
                        /\ \A r \in 0 .. s - 1 : ~Occurs(b, p, r)
                        /\ after = Replaced(b, p, s)

\* Whenever ApplyPatch returns it has replaced the first occurrence of the
\* old bytes and nothing else, also when a partial match overlaps it or the
\* end of the memory (the search steps back by match_len).
PatchesRight == [][todo' # todo => Patched(before, patch, buf)]_vars

\* The search ends, although it steps back.
Terminates == <>(pc = "done")
=============================================================================
