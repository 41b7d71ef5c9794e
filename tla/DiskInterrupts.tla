--------------------------- MODULE DiskInterrupts ---------------------------
(***************************************************************************)
(* fakedisk.c: the disk interrupts of a game from the first int 25h on, in *)
(* which Sopwith's memory is patched (MemPatch) before the request is      *)
(* looked at.  Sopwith makes it when it opens the drive, so that there is  *)
(* neither another call nor a coroutine yet.  From there on it is IsrStack *)
(* that goes on.                                                           *)
(***************************************************************************)
EXTENDS MemPatch, IsrStack

VARIABLE applied_patches   \* Int25's static variable

diskVars == <<vars, isrVars, applied_patches>>

DiskInit == Init /\ IsrInit /\ applied_patches = FALSE

\* Sopwith opens the drive.
FirstInt25 ==
  /\ ~applied_patches
  /\ calls = <<>>
  /\ \E req \in Request : Int25OrInt26("int25", req)
  /\ UNCHANGED <<vars, applied_patches>>

\* Int25 is in ApplyPatches.
Patch ==
  /\ ~applied_patches
  /\ calls # <<>>
  /\ Next
  /\ UNCHANGED <<isrVars, applied_patches>>

\* ApplyPatches returns to Int25.  Sopwith's memory is of no further interest.
Applied ==
  /\ ~applied_patches
  /\ calls # <<>>
  /\ pc = "done"
  /\ applied_patches' = TRUE
  /\ buf' = [a \in Address |-> CHOOSE b \in Byte : TRUE]
  /\ before' = buf'
  /\ UNCHANGED <<todo, pc, i, j, match_len, isrVars>>

\* Everything after that, later calls of Int25 included.
Later ==
  /\ applied_patches
  /\ IsrNext
  /\ UNCHANGED <<vars, applied_patches>>

DiskNext == FirstInt25 \/ Patch \/ Applied \/ Later

\* Sopwith opens the drive, and a loop that can go on does.
DiskSpec ==
  /\ DiskInit /\ [][DiskNext]_diskVars
  /\ WF_diskVars(FirstInt25) /\ WF_diskVars(Patch)
=============================================================================
