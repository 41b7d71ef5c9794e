--------------------------- MODULE StartupProofs ---------------------------
(***************************************************************************)
(* What happens before Sopwith starts: the passes over the command line    *)
(* (Flags) and the rest of main() (Startup), for every command line, every *)
(* table of flags, any response files and any driver.                      *)
(***************************************************************************)
EXTENDS Startup, SequenceTheorems, WellFoundedInduction, TLAPS

-----------------------------------------------------------------------------
(* main().                                                                 *)

\* main() has hooked the interrupts, and atexit knows.
Hooks ==
  /\ hooked \in BOOLEAN /\ at_exit \in BOOLEAN
  /\ main \in {"parse", "handle", "init", "hook", "usage", "error", "abort"} =>
       ~hooked
  /\ main = "register" => hooked
  /\ main \in {"spawn", "sopwith", "return"} => hooked /\ at_exit
  /\ main = "ended" => ~hooked

LEMMA HooksInitially == StartInit => Hooks
  BY DEF StartInit, Hooks

LEMMA HooksStay == Hooks /\ [StartNext]_<<vars, mainVars>> => Hooks'
<1>. SUFFICES ASSUME Hooks, [StartNext]_<<vars, mainVars>> PROVE Hooks'
  OBVIOUS
<1>1. CASE Parse
  <2>1. /\ main = "parse" /\ hooked' = hooked /\ at_exit' = at_exit
        /\ main' \in {"usage", "error", "abort", "handle"}
    BY <1>1 DEF Parse
  <2>. QED
    BY <2>1 DEF Hooks
<1>2. CASE NetGetHandle
  <2>1. /\ main = "handle" /\ hooked' = hooked /\ at_exit' = at_exit
        /\ main' \in {"init", "abort"}
    BY <1>2 DEF NetGetHandle
  <2>. QED
    BY <2>1 DEF Hooks
<1>3. CASE InitProtocol
  <2>1. /\ main = "init" /\ hooked' = hooked /\ at_exit' = at_exit
        /\ main' \in {"hook", "abort"}
    BY <1>3 DEF InitProtocol
  <2>. QED
    BY <2>1 DEF Hooks
<1>4. CASE HookDiskInterrupts
  BY <1>4 DEF HookDiskInterrupts, Hooks
<1>5. CASE AtExit
  BY <1>5 DEF AtExit, Register, Hooks
<1>6. CASE Spawn
  BY <1>6 DEF Spawn, Hooks
<1>7. CASE SopwithEnds
  BY <1>7 DEF SopwithEnds, Hooks
<1>8. CASE Return
  BY <1>8 DEF Return, Hooks
<1>9. CASE UNCHANGED mainVars
  BY <1>9 DEF mainVars, Hooks
<1>. QED
  BY <1>1, <1>2, <1>3, <1>4, <1>5, <1>6, <1>7, <1>8, <1>9 DEF StartNext

LEMMA HooksAlways == StartSpec => []Hooks
  BY HooksInitially, HooksStay, PTL DEF StartSpec

\* On every way out of main() the disk interrupts are DOS's again, and they
\* are Imaginot's while Sopwith runs.
THEOREM HooksRight == StartSpec => []HooksFollowSopwith
<1>1. Hooks => HooksFollowSopwith
  BY DEF Hooks, HooksFollowSopwith
<1>. QED
  BY <1>1, HooksAlways, PTL

-----------------------------------------------------------------------------
(* The passes over the list of arguments: types and bounds.                *)

\* The strings do not change, and no pass but the sort collects arguments.
FlagsTypes ==
  /\ TypeOK
  /\ argv \in Seq(String) /\ baked_in_config \in Seq(String)
  /\ w \in Nat
  /\ pc = "begin" => i = 1
  /\ pc \in {"begin", "expand", "move"} => callee_args = <<>>

LEMMA PointersOf ==
  ASSUME NEW n \in Nat, NEW from \in {"argv", "baked"}
  PROVE  /\ [k \in 1 .. n |-> Pointer(from, k, 0)] \in Seq(Pointers)
         /\ Len([k \in 1 .. n |-> Pointer(from, k, 0)]) = n
  BY SMT DEF Pointer, Pointers

LEMMA WordsOf ==
  ASSUME NEW n \in Nat, NEW p \in Pointers
  PROVE  /\ [k \in 1 .. n |-> Pointer(p.from, p.n, k)] \in Seq(Pointers)
         /\ Len([k \in 1 .. n |-> Pointer(p.from, p.n, k)]) = n
  BY SMT DEF Pointer, Pointers

LEMMA BeginTypes ==
  ASSUME FlagsTypes, AskForHelp \/ AppendBakedInArgs
  PROVE  FlagsTypes'
<1>1. CASE AskForHelp
  BY <1>1 DEF AskForHelp, End, FlagsTypes, TypeOK, input, output
<1>2. CASE AppendBakedInArgs
  <2>1. Len(argv) \in Nat /\ Len(baked_in_config) \in Nat
    BY DEF FlagsTypes
  <2>2. args' \in Seq(Pointers)
    BY <1>2, <2>1, PointersOf DEF AppendBakedInArgs
  <2>3. Len(args') \in Nat
    BY <2>2
  <2>4. /\ pc = "begin" /\ pc' = "expand"
        /\ UNCHANGED <<argv, baked_in_config, i, w, callee_args, values, called,
                       result, given, taken>>
    BY <1>2 DEF AppendBakedInArgs, input, output
  <2>. QED
    BY <2>2, <2>3, <2>4 DEF FlagsTypes, TypeOK
<1>. QED
  BY <1>1, <1>2

LEMMA Joined ==
  ASSUME NEW S, NEW s \in Seq(S), NEW t \in Seq(S), NEW n \in Nat, n = Len(s)
  PROVE  /\ s \o t \in Seq(S) /\ Len(s \o t) = n + Len(t)
         /\ \A k \in 1 .. n : (s \o t)[k] = s[k]
         /\ \A k \in 1 .. Len(t) : (s \o t)[n + k] = t[k]
<1>1. Len(t) \in Nat
  OBVIOUS
<1>2. /\ s \o t \in Seq(S) /\ Len(s \o t) = n + Len(t)
      /\ \A k \in 1 .. n + Len(t) :
           (s \o t)[k] = IF k <= n THEN s[k] ELSE t[k - n]
  BY ConcatProperties
<1>3. ASSUME NEW k \in 1 .. Len(t) PROVE (s \o t)[n + k] = t[k]
  <2>1. n + k \in 1 .. n + Len(t) /\ ~(n + k <= n) /\ (n + k) - n = k
    BY <1>1
  <2>. QED
    BY <1>2, <2>1
<1>. QED
  BY <1>1, <1>2, <1>3

\* The words of a file are put into the list.
LEMMA Expanded ==
  ASSUME FlagsTypes, ExpandFile
  PROVE  LET len == Len(ResponseFile[Str(args[i])])
         IN  /\ len \in Nat /\ i \in 1 .. Len(args)
             /\ args' \in Seq(Pointers)
             /\ Len(args') = Len(args) - 1 + len
             /\ i' = i + len
             /\ \A k \in 1 .. i - 1 : args'[k] = args[k]
             /\ \A k \in 1 .. len :
                  args'[i - 1 + k] = Pointer(args[i].from, args[i].n, k)
             /\ \A k \in i + 1 .. Len(args) : args'[k - 1 + len] = args[k]
<1>. DEFINE len == Len(ResponseFile[Str(args[i])])
            front == SubSeq(args, 1, i - 1)
            words == [k \in 1 .. len |-> Pointer(args[i].from, args[i].n, k)]
            back == SubSeq(args, i + 1, Len(args))
<1>1. /\ args \in Seq(Pointers) /\ i \in 1 .. Len(args) /\ Len(args) \in Nat
      /\ Str(args[i]) \in DOMAIN ResponseFile
  BY DEF FlagsTypes, TypeOK, ExpandFile
<1>2. len \in Nat
  BY <1>1, FlagsAssumption
<1>3. args' = front \o words \o back /\ i' = i + len
  BY DEF ExpandFile
<1>4. \A k \in 1 .. Len(args) : args[k] \in Pointers
  BY <1>1
<1>5. /\ front \in Seq(Pointers) /\ Len(front) = i - 1
      /\ \A k \in 1 .. i - 1 : front[k] = args[k]
  BY <1>1, <1>4, SubSeqProperties
<1>6. /\ words \in Seq(Pointers) /\ Len(words) = len
      /\ \A k \in 1 .. len : words[k] = Pointer(args[i].from, args[i].n, k)
  BY <1>1, <1>2, <1>4, WordsOf
<1>7. /\ back \in Seq(Pointers) /\ Len(back) = Len(args) - i
      /\ \A k \in 1 .. Len(args) - i : back[k] = args[i + k]
  <2>1. /\ back \in Seq(Pointers)
        /\ Len(back) = IF i + 1 <= Len(args) THEN Len(args) - (i + 1) + 1 ELSE 0
        /\ \A k \in 1 .. Len(args) - (i + 1) + 1 : back[k] = args[(i + 1) + k - 1]
    BY <1>1, <1>4, SubSeqProperties
  <2>. HIDE DEF back
  <2>. QED
    BY <1>1, <2>1
<1>. HIDE DEF len, front, words, back
<1>8. /\ front \o words \in Seq(Pointers) /\ Len(front \o words) = i - 1 + len
      /\ \A k \in 1 .. i - 1 : (front \o words)[k] = front[k]
      /\ \A k \in 1 .. len : (front \o words)[i - 1 + k] = words[k]
  <2>. DEFINE n == i - 1
  <2>1. n \in Nat /\ n = Len(front)
    BY <1>1, <1>5
  <2>. HIDE DEF n
  <2>2. /\ front \o words \in Seq(Pointers)
        /\ Len(front \o words) = n + Len(words)
        /\ \A k \in 1 .. n : (front \o words)[k] = front[k]
        /\ \A k \in 1 .. Len(words) : (front \o words)[n + k] = words[k]
    <3>1. front \in Seq(Pointers) /\ words \in Seq(Pointers)
      BY <1>5, <1>6
    <3>. QED
      BY <2>1, <3>1, Joined
  <2>. QED
    BY <1>6, <2>2 DEF n
<1>9. /\ args' \in Seq(Pointers) /\ Len(args') = i - 1 + len + (Len(args) - i)
      /\ \A k \in 1 .. i - 1 + len : args'[k] = (front \o words)[k]
      /\ \A k \in 1 .. Len(args) - i : args'[i - 1 + len + k] = back[k]
  <2>. DEFINE n == i - 1 + len
              fw == front \o words
  <2>1. n \in Nat /\ n = Len(fw) /\ fw \in Seq(Pointers)
    BY <1>1, <1>2, <1>8
  <2>2. args' = fw \o back
    BY <1>3
  <2>. HIDE DEF n, fw
  <2>3. /\ fw \o back \in Seq(Pointers) /\ Len(fw \o back) = n + Len(back)
        /\ \A k \in 1 .. n : (fw \o back)[k] = fw[k]
        /\ \A k \in 1 .. Len(back) : (fw \o back)[n + k] = back[k]
    <3>1. back \in Seq(Pointers)
      BY <1>7
    <3>. QED
      BY <2>1, <3>1, Joined
  <2>. QED
    BY <1>7, <2>2, <2>3 DEF n, fw
<1>10. \A k \in i + 1 .. Len(args) : args'[k - 1 + len] = args[k]
  <2>. TAKE k \in i + 1 .. Len(args)
  <2>1. k - i \in 1 .. Len(args) - i /\ i - 1 + len + (k - i) = k - 1 + len
        /\ i + (k - i) = k
    BY <1>1, <1>2
  <2>. QED
    BY <1>7, <1>9, <2>1
<1>11. \A k \in 1 .. i - 1 : args'[k] = args[k]
  BY <1>1, <1>2, <1>5, <1>8, <1>9
<1>12. \A k \in 1 .. len : args'[i - 1 + k] = Pointer(args[i].from, args[i].n, k)
  <2>. TAKE k \in 1 .. len
  <2>1. i - 1 + k \in 1 .. i - 1 + len
    BY <1>1, <1>2
  <2>. QED
    BY <1>6, <1>8, <1>9, <2>1
<1>13. Len(args') = Len(args) - 1 + len
  BY <1>1, <1>2, <1>9
<1>. USE DEF len
<1>. QED
  BY <1>1, <1>2, <1>3, <1>9, <1>10, <1>11, <1>12, <1>13

LEMMA ExpandTypes ==
  ASSUME FlagsTypes, ExpandSkip \/ ExpandFile \/ NoSuchFile \/ ExpandEnd
  PROVE  FlagsTypes'
<1>1. CASE ExpandSkip
  BY <1>1 DEF ExpandSkip, FlagsTypes, TypeOK, input, output
<1>2. CASE ExpandFile
  <2>1. args' \in Seq(Pointers) /\ i' \in 1 .. Len(args') + 1
    BY <1>2, Expanded
  <2>. QED
    BY <1>2, <2>1 DEF ExpandFile, FlagsTypes, TypeOK, input, output
<1>3. CASE NoSuchFile
  BY <1>3 DEF NoSuchFile, End, FlagsTypes, TypeOK, input, output
<1>4. CASE ExpandEnd
  BY <1>4 DEF ExpandEnd, FlagsTypes, TypeOK, input, output
<1>. QED
  BY <1>1, <1>2, <1>3, <1>4

\* One argument, or two, is written back to the front of the list.
LEMMA KeptOne ==
  ASSUME args \in Seq(Pointers), i \in 1 .. Len(args), w \in 1 .. i,
         args' = [args EXCEPT ![w] = args[i]]
  PROVE  /\ args' \in Seq(Pointers) /\ Len(args') = Len(args)
         /\ Len(args) \in Nat /\ args[i] \in Pointers
         /\ args'[w] = args[i]
         /\ \A k \in 1 .. Len(args) : k # w => args'[k] = args[k]
<1>1. Len(args) \in Nat /\ args[i] \in Pointers /\ w \in 1 .. Len(args)
  OBVIOUS
<1>. QED
  BY <1>1, ExceptSeq

LEMMA KeptTwo ==
  ASSUME args \in Seq(Pointers), i \in 1 .. Len(args), w \in 1 .. i,
         i + 1 <= Len(args),
         args' = [args EXCEPT ![w] = args[i], ![w + 1] = args[i + 1]]
  PROVE  /\ args' \in Seq(Pointers) /\ Len(args') = Len(args)
         /\ Len(args) \in Nat /\ args[i] \in Pointers /\ args[i + 1] \in Pointers
         /\ args'[w] = args[i] /\ args'[w + 1] = args[i + 1]
         /\ \A k \in 1 .. Len(args) : k # w /\ k # w + 1 => args'[k] = args[k]
<1>1. /\ Len(args) \in Nat /\ args[i] \in Pointers /\ args[i + 1] \in Pointers
      /\ w \in 1 .. Len(args) /\ w + 1 \in 1 .. Len(args)
  OBVIOUS
<1>. QED
  BY <1>1

\* The program to run is moved to the front.
LEMMA Moved ==
  ASSUME FlagsTypes, MoveCallee
  PROVE  /\ args' \in Seq(Pointers) /\ Len(args') = Len(args)
         /\ Len(args) \in Nat
         /\ IF callee \in Elements(args)
            THEN \E f \in 1 .. Len(args) :
                   /\ args[f] = callee /\ args'[1] = callee
                   /\ \A k \in 2 .. f : args'[k] = args[k - 1]
                   /\ \A k \in f + 1 .. Len(args) : args'[k] = args[k]
            ELSE args' = args
<1>1. args \in Seq(Pointers) /\ Len(args) \in Nat /\ DOMAIN args = 1 .. Len(args)
  BY DEF FlagsTypes, TypeOK
<1>2. args' = IF FindCallee = 0 THEN args ELSE ToFront(args, FindCallee)
  BY DEF MoveCallee
<1>3. CASE callee \notin Elements(args)
  BY <1>1, <1>2, <1>3 DEF FindCallee
<1>4. CASE callee \in Elements(args)
  <2>. DEFINE f == FindCallee
  <2>1. f \in 1 .. Len(args) /\ args[f] = callee
    <3>1. \E k \in DOMAIN args : args[k] = callee
      BY <1>4 DEF Elements
    <3>. QED
      BY <1>1, <1>4, <3>1 DEF FindCallee
  <2>. HIDE DEF f
  <2>2. args' = [n \in 1 .. Len(args) |->
                   IF n = 1 THEN args[f] ELSE IF n <= f THEN args[n - 1] ELSE args[n]]
    BY <1>1, <1>2, <2>1 DEF ToFront, f
  <2>3. \A n \in 1 .. Len(args) :
          (IF n = 1 THEN args[f] ELSE IF n <= f THEN args[n - 1] ELSE args[n])
            \in Pointers
    BY <1>1, <2>1
  <2>4. args' \in Seq(Pointers) /\ Len(args') = Len(args)
    BY <1>1, <2>2, <2>3
  <2>5. /\ args'[1] = callee
        /\ \A k \in 2 .. f : args'[k] = args[k - 1]
        /\ \A k \in f + 1 .. Len(args) : args'[k] = args[k]
    BY <1>1, <2>1, <2>2
  <2>. QED
    BY <1>1, <1>4, <2>1, <2>4, <2>5
<1>. QED
  BY <1>3, <1>4

\* What was collected is copied behind what was written back.
LEMMA Copied ==
  ASSUME FlagsTypes, SortEnd
  PROVE  /\ args' \in Seq(Pointers) /\ Len(args') = Len(args)
         /\ Len(args) \in Nat /\ Len(callee_args) \in Nat /\ w \in 1 .. Len(args) + 1
         /\ w + Len(callee_args) = Len(args) + 1
         /\ \A k \in 1 .. w - 1 : args'[k] = args[k]
         /\ \A k \in w .. Len(args) : args'[k] = callee_args[k - w + 1]
<1>1. /\ args \in Seq(Pointers) /\ Len(args) \in Nat /\ DOMAIN args = 1 .. Len(args)
      /\ callee_args \in Seq(Pointers) /\ Len(callee_args) \in Nat
      /\ i = Len(args) + 1 /\ w \in 1 .. i /\ w + Len(callee_args) = i
  BY DEF FlagsTypes, TypeOK, SortEnd
<1>2. args' = [n \in 1 .. Len(args) |->
                 IF n >= w /\ n < w + Len(callee_args) THEN callee_args[n - w + 1]
                 ELSE args[n]]
  BY <1>1 DEF SortEnd, CopyTo
<1>3. \A n \in 1 .. Len(args) :
        (IF n >= w /\ n < w + Len(callee_args) THEN callee_args[n - w + 1]
         ELSE args[n]) \in Pointers
  BY <1>1
<1>4. args' \in Seq(Pointers) /\ Len(args') = Len(args)
  BY <1>1, <1>2, <1>3
<1>. QED
  BY <1>1, <1>2, <1>4

LEMMA ReorderTypes ==
  ASSUME FlagsTypes, MoveCallee \/ SortOwn \/ SortCallee \/ SortEnd
  PROVE  FlagsTypes'
<1>1. CASE MoveCallee
  BY <1>1, Moved DEF MoveCallee, FlagsTypes, TypeOK, input, output
<1>2. CASE SortOwn
  <2>1. /\ args \in Seq(Pointers) /\ i \in 1 .. Len(args) /\ w \in 1 .. i
        /\ Len(args) \in Nat /\ Len(callee_args) \in Nat
        /\ w + Len(callee_args) = i /\ pc = "sort" /\ pc' = "sort"
        /\ UNCHANGED <<argv, baked_in_config, callee_args, values, called, result,
                       given, taken>>
    <3>1. /\ pc = "sort" /\ pc' = pc /\ i <= Len(args)
          /\ UNCHANGED <<argv, baked_in_config, callee_args, values, called,
                         result, given, taken>>
      BY <1>2 DEF SortOwn, input, output
    <3>. QED
      BY <3>1 DEF FlagsTypes, TypeOK
  <2>2. CASE TakesValue(args[i]) /\ i + 1 <= Len(args)
    <3>1. /\ args' = [args EXCEPT ![w] = args[i], ![w + 1] = args[i + 1]]
          /\ i' = i + 2 /\ w' = w + 2
      BY <1>2, <2>2 DEF SortOwn
    <3>2. args' \in Seq(Pointers) /\ Len(args') = Len(args)
      BY <2>1, <2>2, <3>1, KeptTwo
    <3>3. i' \in 1 .. Len(args') + 1 /\ w' \in 1 .. i' /\ w' \in Nat
          /\ w' + Len(callee_args') = i'
      BY <2>1, <2>2, <3>1, <3>2
    <3>. QED
      BY <2>1, <3>2, <3>3 DEF FlagsTypes, TypeOK
  <2>3. CASE ~(TakesValue(args[i]) /\ i + 1 <= Len(args))
    <3>1. args' = [args EXCEPT ![w] = args[i]] /\ i' = i + 1 /\ w' = w + 1
      BY <1>2, <2>3 DEF SortOwn
    <3>2. args' \in Seq(Pointers) /\ Len(args') = Len(args)
      BY <2>1, <3>1, KeptOne
    <3>3. i' \in 1 .. Len(args') + 1 /\ w' \in 1 .. i' /\ w' \in Nat
          /\ w' + Len(callee_args') = i'
      BY <2>1, <3>1, <3>2
    <3>. QED
      BY <2>1, <3>2, <3>3 DEF FlagsTypes, TypeOK
  <2>. QED
    BY <2>2, <2>3
<1>3. CASE SortCallee
  <2>1. /\ args \in Seq(Pointers) /\ i \in 1 .. Len(args) /\ w \in 1 .. i
        /\ callee_args \in Seq(Pointers) /\ args[i] \in Pointers
        /\ callee_args' = Append(callee_args, args[i])
    BY <1>3 DEF SortCallee, FlagsTypes, TypeOK
  <2>2. /\ callee_args' \in Seq(Pointers)
        /\ Len(callee_args') = Len(callee_args) + 1 /\ Len(callee_args) \in Nat
    BY <2>1
  <2>. QED
    BY <1>3, <2>1, <2>2 DEF SortCallee, FlagsTypes, TypeOK, input, output
<1>4. CASE SortEnd
  BY <1>4, Copied DEF SortEnd, FlagsTypes, TypeOK, input, output
<1>. QED
  BY <1>1, <1>2, <1>3, <1>4

\* What StripAPIPointers has kept is the list.
LEMMA Shortened ==
  ASSUME FlagsTypes, StripEnd
  PROVE  /\ args' \in Seq(Pointers) /\ Len(args') = w - 1 /\ w - 1 \in Nat
         /\ w - 1 <= Len(args) /\ Len(args) \in Nat
         /\ \A k \in 1 .. w - 1 : args'[k] = args[k]
<1>1. /\ args \in Seq(Pointers) /\ Len(args) \in Nat
      /\ w \in 1 .. i /\ i \in 1 .. Len(args) + 1
      /\ args' = SubSeq(args, 1, w - 1)
  BY DEF FlagsTypes, TypeOK, StripEnd
<1>2. \A k \in 1 .. w - 1 : args[k] \in Pointers
  BY <1>1
<1>. QED
  BY <1>1, <1>2, SubSeqProperties

LEMMA StripTypes ==
  ASSUME FlagsTypes,
         NoArguments \/ StripStart \/ StripPointer \/ StripAbort \/ StripKeep
         \/ StripEnd
  PROVE  FlagsTypes'
<1>1. CASE NoArguments \/ StripAbort
  BY <1>1 DEF NoArguments, StripAbort, End, FlagsTypes, TypeOK, input, output
<1>2. CASE StripStart
  BY <1>2 DEF StripStart, FlagsTypes, TypeOK, input, output
<1>3. CASE StripPointer
  <2>1. /\ args \in Seq(Pointers) /\ i \in 1 .. Len(args) /\ i + 1 <= Len(args)
        /\ called \in Seq(Pointers) /\ called' = Append(called, args[i + 1])
    BY <1>3 DEF StripPointer, HasAddress, FlagsTypes, TypeOK
  <2>2. args[i] \in Pointers /\ args[i + 1] \in Pointers
    BY <2>1
  <2>3. called' \in Seq(Pointers)
    BY <2>1, <2>2
  <2>. QED
    BY <1>3, <2>1, <2>2, <2>3 DEF StripPointer, FlagsTypes, TypeOK, input
<1>4. CASE StripKeep
  <2>1. /\ args \in Seq(Pointers) /\ i \in 1 .. Len(args) /\ w \in 1 .. i
        /\ args' = [args EXCEPT ![w] = args[i]] /\ i' = i + 1 /\ w' = w + 1
        /\ pc = "strip" /\ pc' = "strip"
        /\ UNCHANGED <<argv, baked_in_config, callee_args, values, called, result,
                       given, taken>>
    BY <1>4 DEF StripKeep, FlagsTypes, TypeOK, input, output
  <2>2. args' \in Seq(Pointers) /\ Len(args') = Len(args)
    BY <2>1, KeptOne
  <2>. QED
    BY <2>1, <2>2 DEF FlagsTypes, TypeOK
<1>5. CASE StripEnd
  BY <1>5, Shortened DEF StripEnd, FlagsTypes, TypeOK, input, output
<1>. QED
  BY <1>1, <1>2, <1>3, <1>4, <1>5

LEMMA SetTypes ==
  ASSUME FlagsTypes, Command \/ BadFlag \/ SetBool \/ SetValue \/ NoCommand
  PROVE  FlagsTypes'
<1>1. CASE BadFlag \/ NoCommand
  BY <1>1 DEF BadFlag, NoCommand, End, FlagsTypes, TypeOK, input, output
<1>2. CASE Command
  <2>1. args \in Seq(Pointers) /\ i \in 1 .. Len(args)
    BY <1>2 DEF Command, FlagsTypes, TypeOK
  <2>2. result' \in Seq(Pointers)
    BY <1>2, <2>1 DEF Command
  <2>. QED
    BY <1>2, <2>2 DEF Command, FlagsTypes, TypeOK, input
<1>3. CASE SetBool
  <2>1. /\ args \in Seq(Pointers) /\ i \in 1 .. Len(args)
        /\ Str(args[i]) \in flags
    BY <1>3 DEF SetBool, IsFlag, FlagsTypes, TypeOK
  <2>2. args[i] \in Pointers
    BY <2>1
  <2>. QED
    BY <1>3, <2>1, <2>2 DEF SetBool, FlagsTypes, TypeOK, input
<1>4. CASE SetValue
  <2>1. /\ args \in Seq(Pointers) /\ i \in 1 .. Len(args) /\ i + 1 <= Len(args)
        /\ Str(args[i]) \in flags
    BY <1>4 DEF SetValue, TakesValue, IsFlag, HasValue, FlagsTypes, TypeOK
  <2>2. args[i] \in Pointers /\ args[i + 1] \in Pointers
    BY <2>1
  <2>. QED
    BY <1>4, <2>1, <2>2 DEF SetValue, FlagsTypes, TypeOK, input
<1>. QED
  BY <1>1, <1>2, <1>3, <1>4

LEMMA ParsedTypes ==
  ASSUME FlagsTypes, Parse
  PROVE  FlagsTypes'
<1>1. <<>> \in Seq(Pointers) /\ <<>> \in Seq(String) /\ Len(<<>>) = 0
  OBVIOUS
<1>. QED
  BY <1>1 DEF Parse, FlagsTypes, TypeOK

LEMMA TypesInitially == StartInit => FlagsTypes
<1>. SUFFICES ASSUME StartInit PROVE FlagsTypes
  OBVIOUS
<1>1. argv \in Seq(String) /\ baked_in_config \in Seq(String)
  BY FlagsAssumption DEF StartInit, Init
<1>2. <<>> \in Seq(Pointers) /\ Len(<<>>) = 0
  OBVIOUS
<1>. QED
  BY <1>1, <1>2 DEF StartInit, Init, FlagsTypes, TypeOK

\* The steps of main() after ParseCommandLine leave the parser alone.
LEMMA Others ==
  ASSUME [StartNext]_<<vars, mainVars>>
  PROVE  Next \/ Parse \/ UNCHANGED vars
  BY DEF StartNext, NetGetHandle, InitProtocol, HookDiskInterrupts, AtExit, Spawn,
         SopwithEnds, Return

LEMMA TypesInductive ==
  ASSUME FlagsTypes, [StartNext]_<<vars, mainVars>>
  PROVE  FlagsTypes'
<1>1. CASE Next
  BY <1>1, BeginTypes, ExpandTypes, ReorderTypes, StripTypes, SetTypes DEF Next
<1>2. CASE Parse
  BY <1>2, ParsedTypes
<1>3. CASE UNCHANGED vars
  BY <1>3 DEF vars, input, output, FlagsTypes, TypeOK
<1>. QED
  BY <1>1, <1>2, <1>3, Others

LEMMA TypesAlways == StartSpec => []FlagsTypes
<1>1. FlagsTypes /\ [StartNext]_<<vars, mainVars>> => FlagsTypes'
  BY TypesInductive
<1>. QED
  BY <1>1, TypesInitially, PTL DEF StartSpec

\* No pass over the arguments reads or writes outside the list, and none
\* overwrites an argument it has not read.
THEOREM TypeCorrect == StartSpec => []TypeOK
<1>1. FlagsTypes => TypeOK
  BY DEF FlagsTypes
<1>. QED
  BY <1>1, TypesAlways, PTL

-----------------------------------------------------------------------------
(* Nothing is lost.                                                        *)

OneToOne(s) == \A a, b \in DOMAIN s : s[a] = s[b] => a = b

\* The list as a pass leaves it so far: what it has kept, then what it has not
\* read yet.
KeptAndUnread(s, r, v) ==
  [k \in 1 .. v + Len(s) - r |-> IF k < v THEN s[k] ELSE s[k - v + r]]

Current == KeptAndUnread(args, i, w)

SameName(p, q) == p.from = q.from /\ p.n = q.n

\* Every place not expanded yet has a name of its own.
Expanding ==
  /\ \A a \in i .. Len(args) : args[a].k = 0
  /\ \A a, b \in 1 .. Len(args) : a < b /\ b >= i => ~SameName(args[a], args[b])
  /\ \A a, b \in 1 .. i - 1 : args[a] = args[b] => a = b

\* The list is the given one in another order.
Rearranged == Elements(args) = Elements(given) /\ OneToOne(args)

Sorting ==
  /\ Elements(given) = Elements(Current) \cup Elements(callee_args)
  /\ OneToOne(Current) /\ OneToOne(callee_args)
  /\ Elements(Current) \cap Elements(callee_args) = {}

Stripping ==
  /\ Elements(given) = Elements(Current) \cup taken
  /\ OneToOne(Current)
  /\ Elements(Current) \cap taken = {}

Setting ==
  /\ Elements(given) = {args[k] : k \in i .. Len(args)} \cup taken
  /\ \A a, b \in i .. Len(args) : args[a] = args[b] => a = b
  /\ \A a \in i .. Len(args) : args[a] \notin taken

Complete ==
  /\ pc \in {"begin", "expand", "move", "sort", "parse"} => taken = {}
  /\ pc \notin {"done", "returned"} => result = <<>>
  /\ pc \in {"move", "sort", "parse", "strip", "set", "done"} => OneToOne(given)
  /\ pc \in {"begin", "expand", "move"} => callee_args = <<>>
  /\ pc = "expand" => Expanding
  /\ pc \in {"move", "parse"} => Rearranged
  /\ pc = "sort" => Sorting
  /\ pc = "strip" => Stripping
  /\ pc = "set" => Setting
  /\ NothingLost

LEMMA Fields ==
  ASSUME NEW f, NEW n, NEW k
  PROVE  /\ Pointer(f, n, k).from = f
         /\ Pointer(f, n, k).n = n
         /\ Pointer(f, n, k).k = k
  BY DEF Pointer

LEMMA BeginComplete ==
  ASSUME FlagsTypes, Complete, AppendBakedInArgs
  PROVE  Complete'
<1>. DEFINE b == Len(baked_in_config)
            first == [k \in 1 .. b |-> Pointer("baked", k, 0)]
            second == [k \in 1 .. Len(argv) |-> Pointer("argv", k, 0)]
<1>1. /\ pc = "begin" /\ pc' = "expand" /\ i' = 1 /\ taken' = {} /\ result' = <<>>
      /\ args' = first \o second /\ callee_args' = <<>>
  BY DEF AppendBakedInArgs, Complete, FlagsTypes, output
<1>2. b \in Nat /\ Len(argv) \in Nat
  BY DEF FlagsTypes
<1>3. /\ first \in Seq(Pointers) /\ Len(first) = b
      /\ second \in Seq(Pointers) /\ Len(second) = Len(argv)
      /\ \A k \in 1 .. b : first[k] = Pointer("baked", k, 0)
      /\ \A k \in 1 .. Len(argv) : second[k] = Pointer("argv", k, 0)
  BY <1>2, PointersOf
<1>. HIDE DEF b, first, second
<1>4. /\ Len(args') = b + Len(argv)
      /\ \A k \in 1 .. b : args'[k] = Pointer("baked", k, 0)
      /\ \A k \in 1 .. Len(argv) : args'[b + k] = Pointer("argv", k, 0)
  <2>1. b = Len(first) /\ Len(argv) = Len(second)
    BY <1>3
  <2>2. /\ Len(first \o second) = Len(first) + Len(second)
        /\ \A k \in 1 .. Len(first) : (first \o second)[k] = first[k]
        /\ \A k \in 1 .. Len(second) :
             (first \o second)[Len(first) + k] = second[k]
    BY <1>3, Joined
  <2>. QED
    BY <1>1, <1>3, <2>1, <2>2
<1>5. ASSUME NEW a \in b + 1 .. b + Len(argv)
      PROVE  args'[a] = Pointer("argv", a - b, 0)
  <2>1. a - b \in 1 .. Len(argv) /\ b + (a - b) = a
    BY <1>2
  <2>. QED
    BY <1>4, <2>1
<1>6. Expanding'
  <2>1. ASSUME NEW a \in 1 .. Len(args')
        PROVE  /\ args'[a].k = 0
               /\ a <= b => args'[a].from = "baked" /\ args'[a].n = a
               /\ a > b => args'[a].from = "argv" /\ args'[a].n = a - b
    <3>1. CASE a <= b
      BY <1>2, <1>4, <3>1, Fields
    <3>2. CASE a > b
      <4>1. args'[a] = Pointer("argv", a - b, 0)
        BY <1>2, <1>4, <1>5, <3>2
      <4>. QED
        BY <1>2, <3>2, <4>1, Fields
    <3>. QED
      BY <1>2, <3>1, <3>2
  <2>2. \A a \in 1 .. Len(args') : args'[a].k = 0
    BY <2>1
  <2>3. \A a, c \in 1 .. Len(args') : a < c => ~SameName(args'[a], args'[c])
    <3>. SUFFICES ASSUME NEW a \in 1 .. Len(args'), NEW c \in 1 .. Len(args'),
                         a < c, SameName(args'[a], args'[c])
         PROVE  FALSE
      OBVIOUS
    <3>1. /\ a <= b => args'[a].from = "baked" /\ args'[a].n = a
          /\ a > b => args'[a].from = "argv" /\ args'[a].n = a - b
          /\ c <= b => args'[c].from = "baked" /\ args'[c].n = c
          /\ c > b => args'[c].from = "argv" /\ args'[c].n = c - b
      BY <2>1
    <3>2. args'[a].from = args'[c].from /\ args'[a].n = args'[c].n
      BY DEF SameName
    <3>3. a \in Int /\ c \in Int
      BY <1>2, <1>4
    <3>. QED
      BY <1>2, <3>1, <3>2, <3>3
  <2>. QED
    BY <1>1, <2>2, <2>3 DEF Expanding
<1>. QED
  BY <1>1, <1>6 DEF Complete, NothingLost

LEMMA ExpandFileComplete ==
  ASSUME FlagsTypes, Complete, ExpandFile
  PROVE  Expanding'
<1>. DEFINE len == Len(ResponseFile[Str(args[i])])
<1>1. /\ len \in Nat /\ i \in 1 .. Len(args) /\ Len(args) \in Nat
      /\ Len(args') = Len(args) - 1 + len /\ i' = i + len
      /\ \A k \in 1 .. i - 1 : args'[k] = args[k]
      /\ \A k \in 1 .. len :
           args'[i - 1 + k] = Pointer(args[i].from, args[i].n, k)
      /\ \A k \in i + 1 .. Len(args) : args'[k - 1 + len] = args[k]
  <2>1. Len(args) \in Nat
    BY DEF FlagsTypes, TypeOK
  <2>. QED
    BY <2>1, Expanded
<1>2. Expanding
  BY DEF Complete, ExpandFile
<1>. HIDE DEF len
<1>3. ASSUME NEW a \in i .. i - 1 + len
      PROVE  args'[a] = Pointer(args[i].from, args[i].n, a - i + 1)
  <2>1. a - i + 1 \in 1 .. len /\ i - 1 + (a - i + 1) = a
    BY <1>1
  <2>. QED
    BY <1>1, <2>1
<1>4. ASSUME NEW a \in i + len .. Len(args')
      PROVE  a - len + 1 \in i + 1 .. Len(args) /\ args'[a] = args[a - len + 1]
  <2>1. a - len + 1 \in i + 1 .. Len(args) /\ (a - len + 1) - 1 + len = a
    BY <1>1
  <2>. QED
    BY <1>1, <2>1
\* Where the name of what is now at a was.
<1>. DEFINE was(a) == IF a < i THEN a ELSE IF a < i + len THEN i ELSE a - len + 1
<1>5. ASSUME NEW a \in 1 .. Len(args')
      PROVE  was(a) \in 1 .. Len(args) /\ SameName(args'[a], args[was(a)])
  <2>1. CASE a < i
    BY <1>1, <2>1 DEF SameName
  <2>2. CASE a >= i /\ a < i + len
    <3>1. was(a) = i /\ a \in i .. i - 1 + len
      BY <1>1, <2>2
    <3>2. SameName(args'[a], args[i])
      BY <1>3, <3>1, Fields DEF SameName
    <3>. QED
      BY <1>1, <3>1, <3>2
  <2>3. CASE a >= i + len
    BY <1>1, <1>4, <2>3 DEF SameName
  <2>. QED
    BY <1>1, <2>1, <2>2, <2>3
<1>6. ASSUME NEW a \in i' .. Len(args') PROVE args'[a].k = 0
  <2>1. a \in i + len .. Len(args')
    BY <1>1
  <2>2. a - len + 1 \in i + 1 .. Len(args) /\ args'[a] = args[a - len + 1]
    BY <1>4, <2>1
  <2>3. a - len + 1 \in i .. Len(args)
    BY <1>1, <2>2
  <2>. QED
    BY <1>2, <2>2, <2>3 DEF Expanding
<1>7. \A a, c \in 1 .. Len(args') : a < c /\ c >= i' => ~SameName(args'[a], args'[c])
  <2>. SUFFICES ASSUME NEW a \in 1 .. Len(args'), NEW c \in 1 .. Len(args'),
                       a < c, c >= i'
       PROVE  ~SameName(args'[a], args'[c])
    OBVIOUS
  <2>1. was(a) < was(c) /\ was(c) >= i
    BY <1>1
  <2>2. ~SameName(args[was(a)], args[was(c)])
    BY <1>2, <1>5, <2>1 DEF Expanding
  <2>3. SameName(args'[a], args[was(a)]) /\ SameName(args'[c], args[was(c)])
    BY <1>5
  <2>. HIDE DEF was
  <2>. QED
    BY <2>2, <2>3 DEF SameName
<1>8. \A a, c \in 1 .. i' - 1 : args'[a] = args'[c] => a = c
  <2>1. ASSUME NEW a \in 1 .. i' - 1, NEW c \in 1 .. i' - 1, a < c,
               args'[a] = args'[c]
        PROVE  FALSE
    <3>1. CASE c < i
      BY <1>1, <1>2, <2>1, <3>1 DEF Expanding
    <3>2. CASE a < i /\ c >= i
      <4>1. ~SameName(args[a], args[i])
        BY <1>1, <1>2, <3>2 DEF Expanding
      <4>2. args'[a] = args[a]
        BY <1>1, <3>2
      <4>3. SameName(args'[c], args[i])
        <5>1. c \in i .. i - 1 + len
          BY <1>1, <3>2
        <5>. QED
          BY <1>3, <5>1, Fields DEF SameName
      <4>. QED
        BY <2>1, <4>1, <4>2, <4>3 DEF SameName
    <3>3. CASE a >= i
      <4>1. args'[a].k = a - i + 1 /\ args'[c].k = c - i + 1
        <5>1. a \in i .. i - 1 + len /\ c \in i .. i - 1 + len
          BY <1>1, <2>1, <3>3
        <5>. QED
          BY <1>3, <5>1, Fields
      <4>. QED
        BY <1>1, <2>1, <4>1
    <3>. QED
      BY <1>1, <2>1, <3>1, <3>2, <3>3
  <2>. QED
    BY <1>1, <2>1
<1>. QED
  BY <1>6, <1>7, <1>8 DEF Expanding

LEMMA PassList ==
  ASSUME NEW s \in Seq(Pointers), NEW r \in 1 .. Len(s) + 1, NEW v \in 1 .. r,
         NEW t \in {KeptAndUnread(s, r, v)}
  PROVE  /\ t \in Seq(Pointers) /\ Len(t) = v + Len(s) - r
         /\ Len(t) \in Nat /\ DOMAIN t = 1 .. Len(t)
         /\ \A k \in 1 .. v - 1 : t[k] = s[k]
         /\ \A k \in v .. Len(t) : t[k] = s[k - v + r]
<1>1. Len(s) \in Nat /\ DOMAIN s = 1 .. Len(s)
  OBVIOUS
<1>. DEFINE n == v + Len(s) - r
<1>2. n \in Nat /\ n >= v - 1
  BY <1>1
<1>3. \A k \in 1 .. n : (IF k < v THEN s[k] ELSE s[k - v + r]) \in Pointers
  BY <1>1
<1>4. t = [k \in 1 .. n |-> IF k < v THEN s[k] ELSE s[k - v + r]]
  BY DEF KeptAndUnread
<1>. HIDE DEF n
<1>5. t \in Seq(Pointers) /\ Len(t) = n /\ DOMAIN t = 1 .. n
  BY <1>2, <1>3, <1>4
<1>6. /\ \A k \in 1 .. v - 1 : t[k] = s[k]
      /\ \A k \in v .. n : t[k] = s[k - v + r]
  BY <1>1, <1>2, <1>4
<1>. QED
  BY <1>1, <1>2, <1>5, <1>6 DEF n

LEMMA AllUnread == ASSUME NEW s \in Seq(Pointers) PROVE KeptAndUnread(s, 1, 1) = s
<1>1. 1 + Len(s) - 1 = Len(s) /\ \A k \in 1 .. Len(s) : ~(k < 1) /\ k - 1 + 1 = k
  OBVIOUS
<1>. QED
  BY <1>1 DEF KeptAndUnread

LEMMA CurrentList ==
  ASSUME FlagsTypes, pc = "sort" \/ pc = "strip"
  PROVE  /\ Current \in Seq(Pointers) /\ Len(Current) = w + Len(args) - i
         /\ Len(Current) \in Nat /\ DOMAIN Current = 1 .. Len(Current)
         /\ args \in Seq(Pointers) /\ Len(args) \in Nat /\ DOMAIN args = 1 .. Len(args)
         /\ i \in 1 .. Len(args) + 1 /\ w \in 1 .. i
         /\ \A k \in 1 .. w - 1 : Current[k] = args[k]
         /\ \A k \in w .. Len(Current) : Current[k] = args[k - w + i]
<1>1. /\ args \in Seq(Pointers) /\ Len(args) \in Nat /\ DOMAIN args = 1 .. Len(args)
      /\ i \in 1 .. Len(args) + 1 /\ w \in 1 .. i
  BY DEF FlagsTypes, TypeOK
<1>2. Current = KeptAndUnread(args, i, w)
  BY DEF Current
<1>3. /\ Current \in Seq(Pointers) /\ Len(Current) = w + Len(args) - i
      /\ Len(Current) \in Nat /\ DOMAIN Current = 1 .. Len(Current)
      /\ \A k \in 1 .. w - 1 : Current[k] = args[k]
      /\ \A k \in w .. Len(Current) : Current[k] = args[k - w + i]
  BY Zenon, <1>1, <1>2, PassList
<1>. QED
  BY <1>1, <1>3

\* A step that keeps what it reads writes it behind what was kept before.
\* Where an argument behind the n kept ones comes from.
LEMMA BehindKept ==
  ASSUME NEW l \in Nat, NEW r \in 1 .. l, NEW v \in 1 .. r, NEW n \in {1, 2},
         NEW k \in 1 .. (v + l - r), k >= v + n
  PROVE  /\ k - v + r \in 1 .. l /\ k - v + r >= v + n
         /\ ~(k < v) /\ ~(k < v + n)
  OBVIOUS

LEMMA Kept ==
  ASSUME FlagsTypes, pc = "sort" \/ pc = "strip", i <= Len(args),
         NEW n \in {1, 2}, i + n - 1 <= Len(args),
         i' = i + n, w' = w + n, Len(args') = Len(args),
         \A d \in 0 .. n - 1 : args'[w + d] = args[i + d],
         \A k \in 1 .. Len(args) : k < w \/ k >= w + n => args'[k] = args[k]
  PROVE  Current' = Current
<1>1. Len(args) \in Nat /\ i \in 1 .. Len(args) /\ w \in 1 .. i
  BY DEF FlagsTypes, TypeOK
<1>. DEFINE now(k) == IF k < w THEN args[k] ELSE args[k - w + i]
            then(k) == IF k < w + n THEN args'[k] ELSE args'[k - w + i]
            m == w + Len(args) - i
<1>2. /\ Current = [k \in 1 .. m |-> now(k)]
      /\ Current' = [k \in 1 .. m |-> then(k)]
  <2>1. w' + Len(args') - i' = m /\ \A k \in 1 .. m : k - w' + i' = k - w + i
    BY <1>1
  <2>. QED
    BY <2>1 DEF Current, KeptAndUnread
<1>3. ASSUME NEW k \in 1 .. m PROVE then(k) = now(k)
  <2>1. CASE k < w
    <3>1. k \in 1 .. Len(args) /\ k < w + n
      BY <1>1, <2>1
    <3>. QED
      BY <2>1, <3>1
  <2>2. CASE k >= w /\ k < w + n
    <3>. DEFINE d == k - w
    <3>1. d \in 0 .. n - 1 /\ w + d = k /\ i + d = k - w + i /\ ~(k < w)
      BY <1>1, <2>2
    <3>. HIDE DEF d
    <3>2. args'[w + d] = args[i + d]
      BY <3>1
    <3>3. then(k) = args'[k] /\ now(k) = args[k - w + i]
      BY <2>2, <3>1
    <3>. QED
      BY <3>1, <3>2, <3>3
  <2>3. CASE k >= w + n
    <3>. DEFINE p == k - w + i
    <3>1. p \in 1 .. Len(args) /\ p >= w + n /\ ~(k < w) /\ ~(k < w + n)
      BY <1>1, <2>3, BehindKept
    <3>2. then(k) = args'[p] /\ now(k) = args[p]
      BY <3>1
    <3>. HIDE DEF p, now, then
    <3>3. args'[p] = args[p]
      BY <3>1
    <3>. QED
      BY <3>2, <3>3
  <2>. QED
    BY <1>1, <2>1, <2>2, <2>3
<1>. HIDE DEF now, then, m
<1>. QED
  BY <1>2, <1>3

\* t is s without the n arguments from place p on.
Without(s, t, p, n) ==
  /\ s \in Seq(Pointers) /\ t \in Seq(Pointers)
  /\ p \in 1 .. Len(s) /\ p + n - 1 <= Len(s) /\ Len(t) = Len(s) - n
  /\ \A k \in 1 .. p - 1 : t[k] = s[k]
  /\ \A k \in p .. Len(t) : t[k] = s[k + n]

LEMMA Dropped ==
  ASSUME FlagsTypes, pc = "sort" \/ pc = "strip",
         NEW n \in {1, 2}, i + n - 1 <= Len(args),
         i' = i + n, w' = w, args' = args
  PROVE  Without(Current, Current', w, n)
<1>1. /\ Current \in Seq(Pointers) /\ Len(Current) = w + Len(args) - i
      /\ Len(args) \in Nat /\ i \in 1 .. Len(args) + 1 /\ w \in 1 .. i
      /\ \A k \in 1 .. w - 1 : Current[k] = args[k]
      /\ \A k \in w .. Len(Current) : Current[k] = args[k - w + i]
  BY CurrentList
<1>2. /\ Current' \in Seq(Pointers) /\ Len(Current') = w + Len(args) - (i + n)
      /\ \A k \in 1 .. w - 1 : Current'[k] = args[k]
      /\ \A k \in w .. Len(Current') : Current'[k] = args[k - w + (i + n)]
  <2>. DEFINE r == i + n
              t == Current'
  <2>1. r \in 1 .. Len(args) + 1 /\ w \in 1 .. r
    BY <1>1
  <2>2. t = KeptAndUnread(args, r, w) /\ args \in Seq(Pointers)
    BY CurrentList DEF Current
  <2>. HIDE DEF r, t
  <2>3. /\ t \in Seq(Pointers) /\ Len(t) = w + Len(args) - r
        /\ \A k \in 1 .. w - 1 : t[k] = args[k]
        /\ \A k \in w .. Len(t) : t[k] = args[k - w + r]
    BY Zenon, <2>1, <2>2, PassList
  <2>. QED
    BY <2>3 DEF r, t
<1>3. ASSUME NEW k \in w .. Len(Current') PROVE Current'[k] = Current[k + n]
  <2>1. k + n \in w .. Len(Current) /\ (k + n) - w + i = k - w + (i + n)
    BY <1>1, <1>2
  <2>. QED
    BY <1>1, <1>2, <2>1
<1>. QED
  BY <1>1, <1>2, <1>3 DEF Without

LEMMA WithoutThem ==
  ASSUME NEW s, NEW t, NEW p, NEW n \in {1, 2}, Without(s, t, p, n), OneToOne(s)
  PROVE  /\ OneToOne(t)
         /\ Elements(s) = Elements(t) \cup {s[p], s[p + n - 1]}
         /\ s[p] \notin Elements(t) /\ s[p + n - 1] \notin Elements(t)
<1>1. /\ Len(s) \in Nat /\ Len(t) = Len(s) - n /\ p \in 1 .. Len(s)
      /\ p + n - 1 <= Len(s) /\ DOMAIN s = 1 .. Len(s) /\ DOMAIN t = 1 .. Len(t)
      /\ Len(t) \in Nat
  BY DEF Without
<1>. DEFINE o(k) == IF k < p THEN k ELSE k + n
<1>2. \A k \in 1 .. Len(t) : o(k) \in 1 .. Len(s) /\ t[k] = s[o(k)]
  BY <1>1 DEF Without
<1>3. \A k \in 1 .. Len(t) : o(k) # p /\ o(k) # p + n - 1
  BY <1>1
<1>4. \A a, b \in 1 .. Len(t) : o(a) = o(b) => a = b
  BY <1>1
<1>5. ASSUME NEW k \in 1 .. Len(s), k # p, k # p + n - 1
      PROVE  \E b \in 1 .. Len(t) : o(b) = k
  <2>. DEFINE b == IF k < p THEN k ELSE k - n
  <2>1. b \in 1 .. Len(t) /\ o(b) = k
    BY <1>1, <1>5
  <2>. QED
    BY <2>1
<1>. HIDE DEF o
<1>6. OneToOne(t)
  <2>. SUFFICES ASSUME NEW a \in 1 .. Len(t), NEW b \in 1 .. Len(t), t[a] = t[b]
       PROVE  a = b
    BY <1>1 DEF OneToOne
  <2>1. o(a) \in DOMAIN s /\ o(b) \in DOMAIN s /\ s[o(a)] = s[o(b)]
    BY <1>1, <1>2
  <2>2. o(a) = o(b)
    BY <2>1 DEF OneToOne
  <2>. QED
    BY <1>4, <2>2
<1>7. \A k \in 1 .. Len(t) : s[p] # t[k] /\ s[p + n - 1] # t[k]
  <2>. TAKE k \in 1 .. Len(t)
  <2>1. p + n - 1 \in DOMAIN s /\ p \in DOMAIN s
    BY <1>1
  <2>2. o(k) \in DOMAIN s /\ o(k) # p /\ o(k) # p + n - 1 /\ t[k] = s[o(k)]
    BY <1>1, <1>2, <1>3
  <2>. QED
    BY <2>1, <2>2 DEF OneToOne
<1>8. Elements(s) = Elements(t) \cup {s[p], s[p + n - 1]}
  <2>1. p \in 1 .. Len(s) /\ p + n - 1 \in 1 .. Len(s)
    BY <1>1
  <2>2. \A k \in 1 .. Len(t) : t[k] \in {s[a] : a \in 1 .. Len(s)}
    BY <1>2
  <2>3. \A k \in 1 .. Len(s) :
          s[k] \in {t[a] : a \in 1 .. Len(t)} \cup {s[p], s[p + n - 1]}
    BY <1>2, <1>5
  <2>. QED
    BY <1>1, <2>1, <2>2, <2>3 DEF Elements
<1>. QED
  BY <1>1, <1>6, <1>7, <1>8 DEF Elements

LEMMA KeepsOne ==
  ASSUME FlagsTypes, pc = "sort" \/ pc = "strip", i <= Len(args),
         args' = [args EXCEPT ![w] = args[i]], i' = i + 1, w' = w + 1
  PROVE  Current' = Current
<1>1. args \in Seq(Pointers) /\ i \in 1 .. Len(args) /\ w \in 1 .. i
  BY DEF FlagsTypes, TypeOK
<1>2. /\ Len(args') = Len(args) /\ Len(args) \in Nat /\ args'[w] = args[i]
      /\ \A k \in 1 .. Len(args) : k # w => args'[k] = args[k]
  BY <1>1, KeptOne
<1>. DEFINE n == 1
<1>3. /\ n \in {1, 2} /\ i + n - 1 <= Len(args) /\ i' = i + n /\ w' = w + n
      /\ \A d \in 0 .. n - 1 : args'[w + d] = args[i + d]
      /\ \A k \in 1 .. Len(args) : k < w \/ k >= w + n => args'[k] = args[k]
  <2>1. w + 0 = w /\ i + 0 = i /\ \A d \in 0 .. n - 1 : d = 0
    BY <1>1
  <2>. QED
    BY <1>1, <1>2, <2>1
<1>. HIDE DEF n
<1>. QED
  BY <1>1, <1>2, <1>3, Kept

LEMMA SortKeeps ==
  ASSUME FlagsTypes, SortOwn
  PROVE  Current' = Current
<1>1. /\ args \in Seq(Pointers) /\ i \in 1 .. Len(args) /\ w \in 1 .. i
      /\ pc = "sort" /\ i <= Len(args) /\ Len(args) \in Nat
  BY DEF FlagsTypes, TypeOK, SortOwn
<1>2. CASE TakesValue(args[i]) /\ i + 1 <= Len(args)
  <2>1. /\ args' = [args EXCEPT ![w] = args[i], ![w + 1] = args[i + 1]]
        /\ i' = i + 2 /\ w' = w + 2
    BY <1>2 DEF SortOwn
  <2>2. /\ Len(args') = Len(args)
        /\ args'[w] = args[i] /\ args'[w + 1] = args[i + 1]
        /\ \A k \in 1 .. Len(args) : k # w /\ k # w + 1 => args'[k] = args[k]
    BY <1>1, <1>2, <2>1, KeptTwo
  <2>3. \A d \in 0 .. 1 : args'[w + d] = args[i + d]
    <3>1. w + 0 = w /\ i + 0 = i
      BY <1>1
    <3>2. \A d \in 0 .. 1 : d = 0 \/ d = 1
      OBVIOUS
    <3>. QED
      BY <2>2, <3>1, <3>2
  <2>4. \A k \in 1 .. Len(args) : k < w \/ k >= w + 2 => args'[k] = args[k]
    BY <1>1, <2>2
  <2>. DEFINE n == 2
  <2>5. /\ n \in {1, 2} /\ i + n - 1 <= Len(args) /\ i' = i + n /\ w' = w + n
        /\ \A d \in 0 .. n - 1 : args'[w + d] = args[i + d]
        /\ \A k \in 1 .. Len(args) : k < w \/ k >= w + n => args'[k] = args[k]
    BY <1>1, <1>2, <2>1, <2>3, <2>4
  <2>. HIDE DEF n
  <2>. QED
    BY <1>1, <2>2, <2>5, Kept
<1>3. CASE ~(TakesValue(args[i]) /\ i + 1 <= Len(args))
  <2>1. args' = [args EXCEPT ![w] = args[i]] /\ i' = i + 1 /\ w' = w + 1
    BY <1>3 DEF SortOwn
  <2>. QED
    BY <1>1, <2>1, KeepsOne
<1>. QED
  BY <1>2, <1>3

LEMMA StripKeeps ==
  ASSUME FlagsTypes, StripKeep
  PROVE  Current' = Current
  BY KeepsOne DEF FlagsTypes, TypeOK, StripKeep

LEMMA ExpandComplete ==
  ASSUME FlagsTypes, Complete, ExpandSkip \/ ExpandFile \/ NoSuchFile \/ ExpandEnd
  PROVE  Complete'
<1>1. CASE ExpandSkip
  <2>1. /\ Expanding /\ i \in 1 .. Len(args) /\ Len(args) \in Nat
        /\ i' = i + 1 /\ args' = args
    BY <1>1 DEF ExpandSkip, Complete, FlagsTypes, TypeOK
  <2>2. Expanding'
    <3>1. \A a \in i' .. Len(args') : args'[a].k = 0
      BY <2>1 DEF Expanding
    <3>2. \A a, b \in 1 .. Len(args') :
            a < b /\ b >= i' => ~SameName(args'[a], args'[b])
      BY <2>1 DEF Expanding, SameName
    <3>3. ASSUME NEW a \in 1 .. i, NEW b \in 1 .. i, args[a] = args[b]
          PROVE  a = b
      <4>1. ASSUME NEW c \in 1 .. i - 1 PROVE args[c] # args[i]
        <5>1. c \in 1 .. Len(args) /\ c < i /\ i >= i
          BY <2>1
        <5>2. ~SameName(args[c], args[i])
          BY <2>1, <5>1 DEF Expanding
        <5>. QED
          BY <5>2 DEF SameName
      <4>. QED
        BY <2>1, <3>3, <4>1 DEF Expanding
    <3>. QED
      BY <2>1, <3>1, <3>2, <3>3 DEF Expanding
  <2>. QED
    BY <1>1, <2>2 DEF ExpandSkip, Complete, NothingLost, output
<1>2. CASE ExpandFile
  BY <1>2, ExpandFileComplete DEF ExpandFile, Complete, NothingLost, output
<1>3. CASE NoSuchFile
  BY <1>3 DEF NoSuchFile, End, Complete, NothingLost, output
<1>4. CASE ExpandEnd
  <2>1. /\ Expanding /\ i \in 1 .. Len(args) + 1 /\ Len(args) \in Nat
        /\ DOMAIN args = 1 .. Len(args) /\ i > Len(args)
    BY <1>4 DEF ExpandEnd, Complete, FlagsTypes, TypeOK
  <2>2. OneToOne(args)
    BY <2>1 DEF Expanding, OneToOne
  <2>3. /\ args' = args /\ given' = args /\ pc = "expand" /\ pc' \in {"move", "parse"}
        /\ taken' = taken /\ result' = result /\ callee_args' = callee_args
    BY <1>4 DEF ExpandEnd, output
  <2>4. OneToOne(given)' /\ Rearranged'
    BY <2>2, <2>3 DEF OneToOne, Rearranged, Elements
  <2>. QED
    BY <2>3, <2>4 DEF Complete, NothingLost
<1>. QED
  BY <1>1, <1>2, <1>3, <1>4

LEMMA MoveComplete ==
  ASSUME FlagsTypes, Complete, MoveCallee
  PROVE  Complete'
<1>1. /\ Rearranged /\ OneToOne(given) /\ taken = {} /\ result = <<>>
      /\ UNCHANGED <<given, taken, result, callee_args>>
      /\ pc = "move" /\ pc' = "sort" /\ i' = 1 /\ w' = 1
  BY DEF MoveCallee, Complete, output
<1>2. /\ args \in Seq(Pointers) /\ Len(args) \in Nat /\ DOMAIN args = 1 .. Len(args)
      /\ args' \in Seq(Pointers) /\ Len(args') = Len(args)
      /\ DOMAIN args' = 1 .. Len(args) /\ callee_args = <<>>
  <2>1. callee_args = <<>>
    BY <1>1 DEF Complete
  <2>. QED
    BY <2>1, Moved DEF FlagsTypes, TypeOK
<1>3. Elements(args') = Elements(args) /\ OneToOne(args')
  <2>1. CASE callee \notin Elements(args)
    <3>1. args' = args
      BY <2>1, Moved
    <3>. QED
      BY <1>1, <3>1 DEF Rearranged
  <2>2. CASE callee \in Elements(args)
    <3>1. PICK f \in 1 .. Len(args) :
                   /\ args[f] = callee /\ args'[1] = callee
                   /\ \A k \in 2 .. f : args'[k] = args[k - 1]
                   /\ \A k \in f + 1 .. Len(args) : args'[k] = args[k]
      BY <2>2, Moved
    <3>. DEFINE o(k) == IF k = 1 THEN f ELSE IF k <= f THEN k - 1 ELSE k
    <3>2. \A k \in 1 .. Len(args) : o(k) \in 1 .. Len(args) /\ args'[k] = args[o(k)]
      BY <1>2, <3>1
    <3>3. \A a, b \in 1 .. Len(args) : o(a) = o(b) => a = b
      BY <1>2, <3>1
    <3>4. \A p \in 1 .. Len(args) : \E k \in 1 .. Len(args) : o(k) = p
      <4>. TAKE p \in 1 .. Len(args)
      <4>. DEFINE k == IF p = f THEN 1 ELSE IF p < f THEN p + 1 ELSE p
      <4>1. k \in 1 .. Len(args) /\ o(k) = p
        BY <1>2, <3>1
      <4>. QED
        BY <4>1
    <3>. HIDE DEF o
    <3>5. Elements(args') = Elements(args)
      <4>1. \A k \in 1 .. Len(args) : args'[k] \in {args[p] : p \in 1 .. Len(args)}
        BY <3>2
      <4>2. \A p \in 1 .. Len(args) : args[p] \in {args'[k] : k \in 1 .. Len(args)}
        BY <3>2, <3>4
      <4>. QED
        BY <1>2, <4>1, <4>2 DEF Elements
    <3>6. OneToOne(args')
      BY <1>1, <1>2, <3>2, <3>3 DEF OneToOne, Rearranged
    <3>. QED
      BY <3>5, <3>6
  <2>. QED
    BY <2>1, <2>2
<1>4. Current' = args' /\ Elements(callee_args') = {} /\ OneToOne(callee_args')
  BY <1>1, <1>2, AllUnread DEF Current, Elements, OneToOne
<1>5. Sorting'
  <2>1. Elements(given') = Elements(args')
    BY <1>1, <1>3 DEF Rearranged
  <2>. QED
    BY <1>3, <1>4, <2>1 DEF Sorting
<1>. QED
  BY <1>1, <1>5 DEF Complete, NothingLost, OneToOne

LEMMA SortComplete ==
  ASSUME FlagsTypes, Complete, SortOwn \/ SortCallee \/ SortEnd
  PROVE  Complete'
<1>1. /\ pc = "sort" /\ Sorting /\ OneToOne(given) /\ taken = {} /\ result = <<>>
      /\ UNCHANGED <<given, taken, result>>
      /\ args \in Seq(Pointers) /\ Len(args) \in Nat /\ DOMAIN args = 1 .. Len(args)
      /\ i \in 1 .. Len(args) + 1 /\ w \in 1 .. i
      /\ callee_args \in Seq(Pointers) /\ Len(callee_args) \in Nat
      /\ DOMAIN callee_args = 1 .. Len(callee_args)
  BY DEF SortOwn, SortCallee, SortEnd, Complete, output, FlagsTypes, TypeOK
<1>2. CASE SortOwn
  <2>1. Current' = Current /\ callee_args' = callee_args /\ pc' = "sort"
    BY <1>1, <1>2, SortKeeps DEF SortOwn
  <2>2. Sorting'
    BY <1>1, <2>1 DEF Sorting
  <2>. QED
    BY <1>1, <2>1, <2>2 DEF Complete, NothingLost, OneToOne
<1>3. CASE SortCallee
  <2>1. /\ i \in 1 .. Len(args) /\ args' = args /\ i' = i + 1 /\ w' = w /\ pc' = "sort"
        /\ callee_args' = Append(callee_args, args[i])
    BY <1>1, <1>3 DEF SortCallee
  <2>2. /\ Without(Current, Current', w, 1) /\ Current[w] = args[i]
        /\ w \in 1 .. Len(Current)
    <3>. DEFINE n == 1
    <3>1. n \in {1, 2} /\ i + n - 1 <= Len(args) /\ i' = i + n
      BY <1>1, <2>1
    <3>. HIDE DEF n
    <3>2. Without(Current, Current', w, n)
      BY <1>1, <2>1, <3>1, Dropped
    <3>3. w \in w .. Len(Current) /\ w - w + i = i
      BY <1>1, <2>1, CurrentList
    <3>. QED
      BY <1>1, <3>2, <3>3, CurrentList DEF n
  <2>3. /\ DOMAIN callee_args' = 1 .. Len(callee_args) + 1
        /\ callee_args'[Len(callee_args) + 1] = args[i]
        /\ \A k \in 1 .. Len(callee_args) : callee_args'[k] = callee_args[k]
    <3>1. args[i] \in Pointers
      BY <1>1, <2>1
    <3>. QED
      BY <1>1, <2>1, <3>1
  <2>4. Elements(callee_args') = Elements(callee_args) \cup {args[i]}
    <3>1. \A k \in 1 .. Len(callee_args) + 1 :
            k \in 1 .. Len(callee_args) \/ k = Len(callee_args) + 1
      BY <1>1
    <3>2. /\ Len(callee_args) + 1 \in 1 .. Len(callee_args) + 1
          /\ 1 .. Len(callee_args) \subseteq 1 .. Len(callee_args) + 1
      BY <1>1
    <3>. QED
      BY <1>1, <2>3, <3>1, <3>2 DEF Elements
  <2>5. /\ args[i] \notin Elements(callee_args)
        /\ OneToOne(Current') /\ args[i] \notin Elements(Current')
        /\ Elements(Current) = Elements(Current') \cup {args[i]}
    <3>. DEFINE n == 1
    <3>1. n \in {1, 2} /\ w + n - 1 = w /\ Without(Current, Current', w, n)
      BY <1>1, <2>2
    <3>. HIDE DEF n
    <3>2. /\ OneToOne(Current')
          /\ Elements(Current) = Elements(Current') \cup {Current[w]}
          /\ Current[w] \notin Elements(Current')
      BY <1>1, <3>1, WithoutThem DEF Sorting
    <3>. QED
      BY <1>1, <2>2, <3>2 DEF Sorting
  <2>6. OneToOne(callee_args')
    <3>1. \A k \in 1 .. Len(callee_args) : callee_args'[k] # args[i]
      BY <1>1, <2>3, <2>5 DEF Elements
    <3>. QED
      BY <1>1, <2>3, <3>1 DEF Sorting, OneToOne
  <2>8. Sorting'
    BY <1>1, <2>4, <2>5, <2>6 DEF Sorting
  <2>. QED
    BY <1>1, <2>1, <2>8 DEF Complete, NothingLost, OneToOne
<1>4. CASE SortEnd
  <2>1. /\ args' \in Seq(Pointers) /\ Len(args') = Len(args)
        /\ w + Len(callee_args) = Len(args) + 1
        /\ \A k \in 1 .. w - 1 : args'[k] = args[k]
        /\ \A k \in w .. Len(args) : args'[k] = callee_args[k - w + 1]
        /\ pc' = "parse"
    BY <1>4, Copied DEF SortEnd
  <2>2. /\ DOMAIN args' = 1 .. Len(args) /\ DOMAIN Current = 1 .. w - 1
        /\ \A k \in 1 .. w - 1 : Current[k] = args[k]
    <3>1. i = Len(args) + 1
      BY <1>1, <1>4 DEF SortEnd
    <3>. QED
      BY <1>1, <2>1, <3>1, CurrentList
  <2>3. ASSUME NEW k \in 1 .. Len(callee_args)
        PROVE  w + k - 1 \in w .. Len(args) /\ args'[w + k - 1] = callee_args[k]
    <3>1. w + k - 1 \in w .. Len(args) /\ (w + k - 1) - w + 1 = k
      BY <1>1, <2>1
    <3>. QED
      BY <2>1, <3>1
  <2>4. ASSUME NEW k \in w .. Len(args)
        PROVE  \E n \in 1 .. Len(callee_args) :
                 n = k - w + 1 /\ args'[k] = callee_args[n]
    <3>1. k - w + 1 \in 1 .. Len(callee_args)
      BY <1>1, <2>1
    <3>. QED
      BY <2>1, <3>1
  <2>5. Elements(args') = Elements(Current) \cup Elements(callee_args)
    <3>1. \A k \in 1 .. Len(args) :
            args'[k] \in Elements(Current) \cup Elements(callee_args)
      <4>. TAKE k \in 1 .. Len(args)
      <4>1. CASE k < w
        BY <1>1, <2>1, <2>2, <4>1 DEF Elements
      <4>2. CASE k >= w
        <5>1. k \in w .. Len(args)
          BY <1>1, <4>2
        <5>. QED
          BY <1>1, <2>4, <5>1 DEF Elements
      <4>. QED
        BY <1>1, <4>1, <4>2
    <3>2. \A p \in 1 .. w - 1 : Current[p] \in {args'[k] : k \in 1 .. Len(args)}
      <4>. TAKE p \in 1 .. w - 1
      <4>1. p \in 1 .. Len(args) /\ args'[p] = Current[p]
        BY <1>1, <2>1, <2>2
      <4>. QED
        BY <4>1
    <3>3. \A k \in 1 .. Len(callee_args) :
            callee_args[k] \in {args'[p] : p \in 1 .. Len(args)}
      <4>. TAKE k \in 1 .. Len(callee_args)
      <4>. DEFINE p == w + k - 1
      <4>1. p \in w .. Len(args) /\ args'[p] = callee_args[k]
        BY <2>3
      <4>. HIDE DEF p
      <4>2. p \in 1 .. Len(args)
        BY <1>1, <4>1
      <4>. QED
        BY <4>1, <4>2
    <3>. QED
      BY <1>1, <2>2, <3>1, <3>2, <3>3 DEF Elements
  <2>6. OneToOne(args')
    <3>. SUFFICES ASSUME NEW a \in 1 .. Len(args), NEW b \in 1 .. Len(args),
                         args'[a] = args'[b]
         PROVE  a = b
      BY <2>2 DEF OneToOne
    <3>1. CASE a < w /\ b < w
      <4>1. /\ a \in DOMAIN Current /\ b \in DOMAIN Current
            /\ Current[a] = args'[a] /\ Current[b] = args'[b]
        BY <1>1, <2>1, <2>2, <3>1
      <4>. QED
        BY <1>1, <4>1 DEF Sorting, OneToOne
    <3>2. CASE a >= w /\ b >= w
      <4>1. a \in w .. Len(args) /\ b \in w .. Len(args)
        BY <1>1, <3>2
      <4>2. PICK m \in 1 .. Len(callee_args) :
                   m = a - w + 1 /\ args'[a] = callee_args[m]
        BY <2>4, <4>1
      <4>3. PICK n \in 1 .. Len(callee_args) :
                   n = b - w + 1 /\ args'[b] = callee_args[n]
        BY <2>4, <4>1
      <4>4. m = n
        BY <1>1, <4>2, <4>3 DEF Sorting, OneToOne
      <4>. QED
        BY <1>1, <4>2, <4>3, <4>4
    <3>3. ASSUME NEW c \in 1 .. Len(args), NEW d \in 1 .. Len(args), c < w, d >= w
          PROVE  args'[c] # args'[d]
      <4>1. c \in 1 .. w - 1 /\ d \in w .. Len(args)
        BY <1>1, <3>3
      <4>3. args'[c] \in Elements(Current)
        BY <2>1, <2>2, <4>1 DEF Elements
      <4>2. args'[d] \in Elements(callee_args)
        BY <1>1, <2>4, <4>1 DEF Elements
      <4>. QED
        BY <1>1, <4>2, <4>3 DEF Sorting
    <3>. QED
      BY <1>1, <3>1, <3>2, <3>3
  <2>7. Rearranged'
    BY <1>1, <2>5, <2>6 DEF Sorting, Rearranged, OneToOne
  <2>. QED
    BY <1>1, <2>1, <2>7 DEF Complete, NothingLost, OneToOne
<1>. QED
  BY <1>2, <1>3, <1>4

LEMMA PointerDropped ==
  ASSUME FlagsTypes, StripPointer
  PROVE  /\ Without(Current, Current', w, 2)
         /\ Current[w] = args[i] /\ Current[w + 1] = args[i + 1]
<1>1. /\ pc = "strip" /\ i + 1 <= Len(args) /\ args' = args /\ i' = i + 2 /\ w' = w
  BY DEF StripPointer, HasAddress
<1>2. /\ Len(args) \in Nat /\ i \in 1 .. Len(args) /\ w \in 1 .. i
      /\ Len(Current) = w + Len(args) - i
      /\ \A k \in w .. Len(Current) : Current[k] = args[k - w + i]
  BY <1>1, CurrentList
<1>. DEFINE n == 2
<1>3. n \in {1, 2} /\ i + n - 1 <= Len(args) /\ i' = i + n
  BY <1>1, <1>2
<1>. HIDE DEF n
<1>4. Without(Current, Current', w, n)
  BY <1>1, <1>3, Dropped
<1>5. /\ w \in w .. Len(Current) /\ w - w + i = i
      /\ w + 1 \in w .. Len(Current) /\ (w + 1) - w + i = i + 1
  BY <1>1, <1>2
<1>. QED
  BY <1>2, <1>4, <1>5 DEF n

LEMMA StripComplete ==
  ASSUME FlagsTypes, Complete,
         NoArguments \/ StripStart \/ StripPointer \/ StripAbort \/ StripKeep
         \/ StripEnd
  PROVE  Complete'
<1>1. /\ UNCHANGED <<given, result, callee_args>> /\ result = <<>> /\ OneToOne(given)
      /\ args \in Seq(Pointers) /\ Len(args) \in Nat /\ DOMAIN args = 1 .. Len(args)
      /\ i \in 1 .. Len(args) + 1
  <2>1. UNCHANGED <<given, result, callee_args>> /\ pc \in {"parse", "strip"}
    BY DEF NoArguments, StripStart, StripPointer, StripAbort, StripKeep, StripEnd, End,
           output
  <2>2. result = <<>> /\ OneToOne(given)
    BY <2>1 DEF Complete
  <2>. QED
    BY <2>1, <2>2 DEF FlagsTypes, TypeOK
<1>2. CASE NoArguments \/ StripAbort
  BY <1>2 DEF NoArguments, StripAbort, End, Complete, NothingLost, output
<1>3. CASE StripStart
  <2>1. /\ Rearranged /\ taken = {} /\ taken' = taken /\ args' = args
        /\ i' = 1 /\ w' = 1 /\ pc' = "strip"
    BY <1>3 DEF StripStart, Complete
  <2>2. Current' = args
    BY <1>1, <2>1, AllUnread DEF Current
  <2>3. Stripping'
    BY <1>1, <2>1, <2>2 DEF Stripping, Rearranged
  <2>. QED
    BY <1>1, <2>1, <2>3 DEF Complete, NothingLost, OneToOne
<1>4. CASE StripPointer
  <2>1. /\ Stripping /\ i + 1 <= Len(args) /\ taken' = taken \cup {args[i], args[i + 1]}
        /\ args' = args /\ i' = i + 2 /\ w' = w /\ pc' = "strip" /\ w \in 1 .. i
    BY <1>4 DEF StripPointer, HasAddress, Complete, FlagsTypes, TypeOK
  <2>2. /\ Without(Current, Current', w, 2)
        /\ Current[w] = args[i] /\ Current[w + 1] = args[i + 1]
    BY <1>4, PointerDropped
  <2>3. Stripping'
    <3>. DEFINE n == 2
    <3>1. n \in {1, 2} /\ w + n - 1 = w + 1 /\ Without(Current, Current', w, n)
      BY <2>1, <2>2
    <3>. HIDE DEF n
    <3>2. /\ OneToOne(Current')
          /\ Elements(Current) = Elements(Current') \cup {Current[w], Current[w + 1]}
          /\ Current[w] \notin Elements(Current') /\ Current[w + 1] \notin Elements(Current')
      BY <2>1, <3>1, WithoutThem DEF Stripping
    <3>. QED
      BY <1>1, <2>1, <2>2, <3>2 DEF Stripping
  <2>. QED
    BY <1>1, <2>1, <2>3 DEF Complete, NothingLost, OneToOne
<1>5. CASE StripKeep
  <2>1. Current' = Current /\ Stripping /\ taken' = taken /\ pc' = "strip"
    BY <1>5, StripKeeps DEF StripKeep, Complete
  <2>2. Stripping'
    BY <1>1, <2>1 DEF Stripping
  <2>. QED
    BY <1>1, <2>1, <2>2 DEF Complete, NothingLost, OneToOne
<1>6. CASE StripEnd
  <2>1. /\ Stripping /\ i > Len(args) /\ taken' = taken /\ i' = 1 /\ pc' = "set"
    BY <1>6 DEF StripEnd, Complete
  <2>2. /\ Len(args') = w - 1 /\ w - 1 \in Nat /\ w - 1 <= Len(args)
        /\ \A k \in 1 .. w - 1 : args'[k] = args[k]
    BY <1>6, Shortened
  <2>3. /\ DOMAIN Current = 1 .. w - 1 /\ i' .. Len(args') = 1 .. w - 1
        /\ \A k \in 1 .. w - 1 : args'[k] = Current[k]
    <3>1. i = Len(args) + 1 /\ pc = "strip"
      BY <1>1, <1>6, <2>1 DEF StripEnd
    <3>. QED
      BY <1>1, <2>1, <2>2, <3>1, CurrentList
  <2>4. Setting'
    <3>1. {args'[k] : k \in 1 .. w - 1} = Elements(Current)
      BY <2>3 DEF Elements
    <3>. QED
      <4>1. /\ Elements(given') = Elements(Current) \cup taken'
            /\ \A k \in 1 .. w - 1 : Current[k] \notin taken'
            /\ \A a, b \in 1 .. w - 1 : Current[a] = Current[b] => a = b
        BY <1>1, <2>1, <2>3 DEF Stripping, OneToOne, Elements
      <4>. QED
        BY <2>3, <3>1, <4>1 DEF Setting
  <2>. QED
    BY <1>1, <2>1, <2>4 DEF Complete, NothingLost, OneToOne
<1>. QED
  BY <1>2, <1>3, <1>4, <1>5, <1>6

LEMMA SetComplete ==
  ASSUME FlagsTypes, Complete, Command \/ BadFlag \/ SetBool \/ SetValue \/ NoCommand
  PROVE  Complete'
<1>1. /\ pc = "set" /\ Setting /\ UNCHANGED <<given, args>> /\ OneToOne(given)
      /\ result = <<>>
      /\ args \in Seq(Pointers) /\ Len(args) \in Nat /\ DOMAIN args = 1 .. Len(args)
      /\ i \in 1 .. Len(args) + 1
  BY DEF Command, BadFlag, SetBool, SetValue, NoCommand, End, Complete, FlagsTypes,
         TypeOK
<1>2. CASE BadFlag
  BY <1>2 DEF BadFlag, End, Complete, NothingLost, output
<1>3. CASE Command
  <2>1. /\ i <= Len(args) /\ result' = SubSeq(args, i, Len(args)) /\ pc' = "done"
        /\ taken' = taken
    BY <1>3 DEF Command
  <2>2. /\ DOMAIN result' = 1 .. Len(args) - i + 1
        /\ \A k \in 1 .. Len(args) - i + 1 : result'[k] = args[i + k - 1]
    BY <1>1, <2>1
  <2>3. ASSUME NEW k \in DOMAIN result'
        PROVE  \E p \in i .. Len(args) : p = i + k - 1 /\ result'[k] = args[p]
    <3>1. i + k - 1 \in i .. Len(args)
      BY <1>1, <2>2
    <3>. QED
      BY <2>2, <3>1
  <2>4. ASSUME NEW p \in i .. Len(args)
        PROVE  \E k \in DOMAIN result' : result'[k] = args[p]
    <3>1. p - i + 1 \in DOMAIN result' /\ i + (p - i + 1) - 1 = p
      BY <1>1, <2>2
    <3>. QED
      BY <2>2, <3>1
  <2>5. Elements(result') = {args[k] : k \in i .. Len(args)}
    BY <2>3, <2>4 DEF Elements
  <2>6. \A a, b \in DOMAIN result' : result'[a] = result'[b] => a = b
    <3>. SUFFICES ASSUME NEW a \in DOMAIN result', NEW b \in DOMAIN result',
                         result'[a] = result'[b]
         PROVE  a = b
      OBVIOUS
    <3>1. PICK p \in i .. Len(args) : p = i + a - 1 /\ result'[a] = args[p]
      BY <2>3
    <3>2. PICK q \in i .. Len(args) : q = i + b - 1 /\ result'[b] = args[q]
      BY <2>3
    <3>3. p = q
      BY <1>1, <3>1, <3>2 DEF Setting
    <3>4. a \in Int /\ b \in Int
      BY <1>1, <2>2
    <3>. QED
      BY <1>1, <3>1, <3>2, <3>3, <3>4
  <2>7. /\ Elements(given) = {args[k] : k \in i .. Len(args)} \cup taken
        /\ taken \cap {args[k] : k \in i .. Len(args)} = {}
    BY <1>1 DEF Setting
  <2>8. NothingLost'
    BY <1>1, <2>1, <2>5, <2>6, <2>7 DEF NothingLost
  <2>. QED
    BY <1>1, <2>1, <2>8 DEF Complete, OneToOne
<1>4. CASE SetBool
  <2>1. /\ i <= Len(args) /\ taken' = taken \cup {args[i]} /\ i' = i + 1 /\ pc' = "set"
        /\ result' = result
    BY <1>1, <1>4 DEF SetBool
  <2>2. i .. Len(args) = {i} \cup (i' .. Len(args)) /\ i \notin i' .. Len(args)
    BY <1>1, <2>1
  <2>3. Setting'
    <3>1. {args[k] : k \in i .. Len(args)} = {args[k] : k \in i' .. Len(args)} \cup {args[i]}
      BY <2>2
    <3>. QED
      BY <1>1, <2>1, <2>2, <3>1 DEF Setting
  <2>. QED
    BY <1>1, <2>1, <2>3 DEF Complete, NothingLost, OneToOne
<1>5. CASE SetValue
  <2>1. /\ i + 1 <= Len(args) /\ taken' = taken \cup {args[i], args[i + 1]}
        /\ i' = i + 2 /\ pc' = "set" /\ result' = result
    BY <1>1, <1>5 DEF SetValue, HasValue
  <2>2. /\ i .. Len(args) = {i, i + 1} \cup (i' .. Len(args))
        /\ i \notin i' .. Len(args) /\ i + 1 \notin i' .. Len(args)
    BY <1>1, <2>1
  <2>3. Setting'
    <3>1. {args[k] : k \in i .. Len(args)}
            = {args[k] : k \in i' .. Len(args)} \cup {args[i], args[i + 1]}
      BY <2>2
    <3>. QED
      BY <1>1, <2>1, <2>2, <3>1 DEF Setting
  <2>. QED
    BY <1>1, <2>1, <2>3 DEF Complete, NothingLost, OneToOne
<1>6. CASE NoCommand
  <2>1. /\ i > Len(args) /\ pc' = "done" /\ UNCHANGED <<taken, result>>
    BY <1>6 DEF NoCommand, End, output
  <2>2. i .. Len(args) = {} /\ Elements(result) = {} /\ DOMAIN result = {}
    BY <1>1, <2>1 DEF Elements
  <2>3. NothingLost'
    BY <1>1, <2>1, <2>2 DEF Setting, NothingLost, Elements
  <2>. QED
    BY <1>1, <2>1, <2>3 DEF Complete, OneToOne
<1>. QED
  BY <1>2, <1>3, <1>4, <1>5, <1>6

LEMMA StillComplete == Complete /\ UNCHANGED vars => Complete'
<1>1. UNCHANGED vars => Current' = Current /\ UNCHANGED <<given, callee_args, taken>>
  BY DEF vars, Current, KeptAndUnread
<1>2. Rearranged /\ UNCHANGED vars => Rearranged'
  BY DEF vars, Rearranged, Elements, OneToOne
<1>3. Expanding /\ UNCHANGED vars => Expanding'
  BY DEF vars, Expanding, SameName
<1>4. Sorting /\ UNCHANGED vars => Sorting'
  BY <1>1 DEF Sorting
<1>5. Stripping /\ UNCHANGED vars => Stripping'
  BY <1>1 DEF Stripping
<1>6. Setting /\ UNCHANGED vars => Setting'
  BY DEF vars, Setting, Elements, OneToOne
<1>7. NothingLost /\ UNCHANGED vars => NothingLost'
  BY DEF vars, output, NothingLost, Elements
<1>. QED
  BY <1>2, <1>3, <1>4, <1>5, <1>6, <1>7 DEF vars, output, Complete, OneToOne

LEMMA CompleteInductive ==
  ASSUME FlagsTypes, Complete, [StartNext]_<<vars, mainVars>>
  PROVE  Complete'
<1>1. CASE AskForHelp
  BY <1>1 DEF AskForHelp, End, Complete, NothingLost, output
<1>2. CASE Next
  BY <1>1, <1>2, BeginComplete, ExpandComplete, MoveComplete, SortComplete,
     StripComplete, SetComplete DEF Next
<1>3. CASE Parse
  BY <1>3 DEF Parse, Complete, NothingLost
<1>4. CASE UNCHANGED vars
  BY <1>4, StillComplete
<1>. QED
  BY <1>2, <1>3, <1>4, Others

LEMMA CompleteAlways == StartSpec => []Complete
<1>1. StartInit => Complete
  BY DEF StartInit, Init, Complete, NothingLost
<1>2. FlagsTypes /\ Complete /\ [StartNext]_<<vars, mainVars>> => Complete'
  BY CompleteInductive
<1>. QED
  BY <1>1, <1>2, TypesAlways, PTL DEF StartSpec

\* Every argument that was typed, baked in or read from a file has been used or
\* is handed on, once, through all the passes of ParseCommandLine.
THEOREM AllAccounted == StartSpec => []NothingLost
<1>1. Complete => NothingLost
  BY DEF Complete
<1>. QED
  BY <1>1, CompleteAlways, PTL

-----------------------------------------------------------------------------
(* IdentifyCallee.                                                         *)

LEMMA Least ==
  ASSUME NEW T, T \subseteq Nat, T # {}
  PROVE  \E x \in T : \A y \in T : x <= y
<1>. DEFINE R == {p \in Nat \X Nat : p[1] < p[2]}
<1>1. IsWellFoundedOn(R, Nat)
  BY NatLessThanWellFounded DEF OpToRel
<1>2. \A x, y \in Nat : y < x => <<y, x>> \in R
  OBVIOUS
<1>. HIDE DEF R
<1>3. PICK x \in T : \A y \in T : ~(<<y, x>> \in R)
  BY <1>1, WFMin
<1>4. \A y \in T : ~(y < x)
  BY <1>2, <1>3
<1>. QED
  BY <1>4

LEMMA Induct ==
  ASSUME NEW S, 0 \in S, \A n \in Nat : n \in S => n + 1 \in S
  PROVE  Nat \subseteq S
<1>. DEFINE T == Nat \ S
<1>. SUFFICES ASSUME T # {} PROVE FALSE
  OBVIOUS
<1>1. PICK x \in T : \A y \in T : x <= y
  BY Least
<1>2. x # 0 /\ x - 1 \in Nat
  OBVIOUS
<1>3. x - 1 \in S
  BY <1>1, <1>2
<1>. QED
  BY <1>2, <1>3

\* A step of IdentifyCallee over the list s, with its answers u for the places
\* behind k.
Identify(s, u, k) ==
  IF k > Len(s) THEN 0
  ELSE IF s[k] \notin Dash THEN k
  ELSE IF s[k] \notin flags THEN 0
  ELSE IF type[s[k]] = "BOOL" THEN u[k + 1] ELSE u[k + 2]

LEMMA IdentifyExists ==
  ASSUME NEW s \in Seq(String)
  PROVE  \E u : u = [k \in 1 .. Len(s) + 2 |-> Identify(s, u, k)]
<1>. DEFINE N == Len(s) + 2
            Upto(g, m) ==
              g = [k \in 1 .. N |-> IF k > N - m THEN Identify(s, g, k) ELSE 0]
            S == {m \in Nat : \E g : Upto(g, m)}
<1>1. N \in Nat /\ N >= 2 /\ Len(s) \in Nat /\ Len(s) = N - 2
  OBVIOUS
<1>2. 0 \in S
  <2>. DEFINE g == [k \in 1 .. N |-> 0]
  <2>1. Upto(g, 0)
    BY <1>1
  <2>. QED
    BY <2>1
<1>3. ASSUME NEW m \in Nat, m \in S PROVE m + 1 \in S
  <2>1. PICK g : Upto(g, m)
    BY <1>3
  <2>. DEFINE c == N - m
              h == [k \in 1 .. N |-> IF k = c THEN Identify(s, g, c) ELSE g[k]]
  <2>. HIDE DEF N
  <2>2. \A k \in 1 .. N : k > c => h[k] = g[k]
    BY <1>1
  <2>3. ASSUME NEW k \in 1 .. N, k >= c
        PROVE  Identify(s, h, k) = Identify(s, g, k)
    <3>. HIDE DEF h
    <3>1. k <= Len(s) => k + 1 \in 1 .. N /\ k + 1 > c /\ k + 2 \in 1 .. N /\ k + 2 > c
      BY <1>1, <2>3
    <3>. QED
      BY <1>1, <2>2, <3>1 DEF Identify
  <2>4. ASSUME NEW k \in 1 .. N
        PROVE  h[k] = IF k > N - (m + 1) THEN Identify(s, h, k) ELSE 0
    <3>1. CASE k = c
      <4>1. h[k] = Identify(s, g, k) /\ k > N - (m + 1)
        BY <1>1, <3>1
      <4>. HIDE DEF h
      <4>. QED
        BY <1>1, <2>3, <3>1, <4>1
    <3>2. CASE k > c
      <4>1. h[k] = Identify(s, g, k)
        BY <1>1, <2>1, <2>2, <3>2
      <4>2. k > N - (m + 1)
        BY <1>1, <3>2
      <4>. HIDE DEF h
      <4>. QED
        BY <1>1, <2>3, <3>2, <4>1, <4>2
    <3>3. CASE k < c
      <4>1. h[k] = 0 /\ ~(k > N - (m + 1))
        BY <1>1, <2>1, <3>3
      <4>. QED
        BY <4>1
    <3>. QED
      BY <1>1, <3>1, <3>2, <3>3
  <2>5. h = [k \in 1 .. N |-> h[k]]
    OBVIOUS
  <2>. HIDE DEF h, c
  <2>6. Upto(h, m + 1)
    BY <2>4, <2>5
  <2>. QED
    BY <2>6
<1>. HIDE DEF S
<1>4. Nat \subseteq S
  BY <1>2, <1>3, Induct
<1>5. PICK g : Upto(g, N)
  BY <1>1, <1>4 DEF S
<1>6. \A k \in 1 .. N : k > N - N
  BY <1>1
<1>7. g = [k \in 1 .. N |-> Identify(s, g, k)]
  BY <1>5, <1>6
<1>. QED
  BY <1>7

\* What IdentifyCallee finds is not a flag, and is not the value of one.
LEMMA CalleeFound ==
  ASSUME NEW s \in Seq(String), IdentifyCallee(s) # 0
  PROVE  LET c == IdentifyCallee(s)
         IN  /\ c \in 1 .. Len(s) /\ s[c] \notin Dash
             /\ c > 1 => \/ ~(s[c - 1] \in flags /\ type[s[c - 1]] # "BOOL")
                         \/ c > 2 /\ s[c - 2] \in flags /\ type[s[c - 2]] # "BOOL"
<1>. DEFINE N == Len(s) + 2
            f == CHOOSE u : u = [k \in 1 .. N |-> Identify(s, u, k)]
<1>1. N \in Nat /\ N >= 2 /\ Len(s) \in Nat /\ Len(s) = N - 2
  OBVIOUS
<1>2. IdentifyCallee(s) = f[1]
  BY SMT DEF IdentifyCallee, Identify
<1>3. f = [k \in 1 .. N |-> Identify(s, f, k)]
  BY IdentifyExists
<1>. HIDE DEF N, f
<1>4. \A k \in 1 .. N : f[k] = Identify(s, f, k)
  BY <1>3
<1>. DEFINE Valued(k) == s[k] \in flags /\ type[s[k]] # "BOOL"
            Good(k, c) ==
              c # 0 =>
                /\ c \in k .. Len(s) /\ s[c] \notin Dash
                /\ c > k => ~Valued(c - 1) \/ (c - 2 >= k /\ Valued(c - 2))
            S == {m \in Nat : \A k \in 1 .. N : k > N - m => Good(k, f[k])}
<1>5. 0 \in S
  BY <1>1
<1>6. ASSUME NEW m \in Nat, m \in S PROVE m + 1 \in S
  <2>1. ASSUME NEW k \in 1 .. N, k > N - (m + 1) PROVE Good(k, f[k])
    <3>1. CASE k > N - m
      BY <1>6, <3>1
    <3>2. CASE k <= N - m
      <4>1. k = N - m
        BY <1>1, <2>1, <3>2
      <4>2. f[k] = Identify(s, f, k)
        BY <1>4
      <4>3. CASE k > Len(s) \/ s[k] \notin Dash \/ s[k] \notin flags
        BY <1>1, <4>2, <4>3 DEF Identify
      <4>4. CASE k <= Len(s) /\ s[k] \in Dash /\ s[k] \in flags
        <5>1. /\ k + 1 \in 1 .. N /\ k + 1 > N - m /\ k + 2 \in 1 .. N /\ k + 2 > N - m
          BY <1>1, <4>1, <4>4
        <5>2. Good(k + 1, f[k + 1]) /\ Good(k + 2, f[k + 2])
          BY <1>6, <5>1
        <5>3. CASE type[s[k]] = "BOOL"
          <6>1. f[k] = f[k + 1] /\ ~Valued(k)
            BY <1>1, <4>2, <4>4, <5>3 DEF Identify
          <6>. DEFINE c == f[k]
          <6>2. Good(k + 1, c)
            BY <5>2, <6>1
          <6>. HIDE DEF c
          <6>. SUFFICES Good(k, c)
            BY DEF c
          <6>3. CASE c # 0 /\ c = k + 1
            <7>1. c - 1 = k
              BY <1>1, <6>3
            <7>. QED
              BY <1>1, <6>1, <6>2, <6>3, <7>1
          <6>4. CASE c # k + 1
            <7>. HIDE DEF Valued
            <7>. QED
              BY <1>1, <6>2, <6>4
          <6>5. CASE c = 0
            BY <6>5
          <6>. QED
            BY <6>3, <6>4, <6>5
        <5>4. CASE type[s[k]] # "BOOL"
          <6>1. f[k] = f[k + 2] /\ Valued(k)
            BY <1>1, <4>2, <4>4, <5>4 DEF Identify
          <6>. DEFINE c == f[k]
          <6>2. Good(k + 2, c)
            BY <5>2, <6>1
          <6>. HIDE DEF c
          <6>. SUFFICES Good(k, c)
            BY DEF c
          <6>3. CASE c # 0 /\ c = k + 2
            <7>1. c - 2 = k
              BY <1>1, <6>3
            <7>. QED
              BY <1>1, <6>1, <6>2, <6>3, <7>1
          <6>4. CASE c # k + 2
            <7>. HIDE DEF Valued
            <7>. QED
              BY <1>1, <6>2, <6>4
          <6>5. CASE c = 0
            BY <6>5
          <6>. QED
            BY <6>3, <6>4, <6>5
        <5>. QED
          BY <5>3, <5>4
      <4>. QED
        BY <1>1, <4>3, <4>4
    <3>. QED
      BY <1>1, <3>1, <3>2
  <2>. HIDE DEF Good
  <2>. QED
    BY <2>1
<1>. HIDE DEF S
<1>7. Nat \subseteq S
  BY <1>5, <1>6, Induct
<1>8. Good(1, f[1])
  <2>. HIDE DEF Good
  <2>1. N \in S /\ 1 \in 1 .. N /\ 1 > N - N
    BY <1>1, <1>7
  <2>. QED
    BY <2>1 DEF S
<1>. DEFINE c == IdentifyCallee(s)
<1>9. Good(1, c) /\ c # 0
  BY <1>2, <1>8
<1>. HIDE DEF c
<1>10. /\ c \in 1 .. Len(s) /\ s[c] \notin Dash
       /\ c > 1 => ~Valued(c - 1) \/ (c > 2 /\ Valued(c - 2))
  BY <1>1, <1>9
<1>. QED
  BY <1>10 DEF c

\* The program to run is not a flag.
LEMMA CalleePlain ==
  ASSUME FlagsTypes, callee \in Pointers
  PROVE  Str(callee) \notin Dash
<1>. DEFINE c == IdentifyCallee(argv)
<1>1. argv \in Seq(String)
  BY DEF FlagsTypes
<1>2. c # 0
  BY DEF callee, NULL, Pointer, Pointers
<1>3. argv[c] \notin Dash
  BY <1>1, <1>2, CalleeFound
<1>. HIDE DEF c
<1>4. callee = Pointer("argv", c, 0)
  BY <1>2 DEF callee, c
<1>5. Str(callee) = argv[c]
  BY <1>4, Fields DEF Str
<1>. QED
  BY <1>3, <1>5

-----------------------------------------------------------------------------
(* Whose argument is whose.                                                *)

OwnFlags == {p \in Pointers : IsFlag(p)}
Valued == {p \in Pointers : TakesValue(p)}

\* The pairs that are as OrderKept wants them.
InOrder ==
  {r \in Pointers \X Pointers :
     r[1] = callee \/ Place(given, r[1]) < Place(given, r[2])}

Ordered(s, q, R) == \A a, b \in q .. Len(s) : a < b => <<s[a], s[b]>> \in R

\* In front of place q there are flags (the set F, V of them with values), and
\* what follows a flag that takes a value.
Ours(s, q, F, V) ==
  \A k \in 1 .. q - 1 : s[k] \in F \/ (k > 1 /\ s[k - 1] \in V)

\* From place q on there are none.
Theirs(s, q, F) == \A k \in q .. Len(s) : s[k] \notin F

\* A flag that is not itself a value has its value in front of q, and a flag
\* comes next.
Aligned(s, q, F, V) ==
  \A k \in 1 .. q - 1 :
    s[k] \in V /\ (k > 1 => s[k - 1] \notin V)
      => k + 1 < q /\ (k + 2 < q => s[k + 2] \in F)

\* What CalleeFirst asks for.
Named ==
  /\ baked_in_config # <<>>
  /\ callee \in Elements(given) /\ Str(callee) \notin Addresses
  /\ ~Dangling

\* The arguments from place q on are for the program to run.
Split(s, q) ==
  /\ q \in 1 .. Len(s) + 1
  /\ Ours(s, q, OwnFlags, Valued) /\ Ordered(s, q, InOrder)
  /\ baked_in_config # <<>> => Theirs(s, q, OwnFlags)
  /\ Named => q <= Len(s) /\ s[q] = callee /\ Aligned(s, q, OwnFlags, Valued)

\* While ReorderArgsForBakedIn sorts, the others are on two lists.
SortSplit ==
  /\ baked_in_config # <<>>
  /\ Ours(args, w, OwnFlags, Valued)
  /\ Ordered(callee_args, 1, InOrder) /\ Ordered(args, i, InOrder)
  /\ \A a \in 1 .. Len(callee_args), b \in i .. Len(args) :
       <<callee_args[a], args[b]>> \in InOrder
  /\ Theirs(callee_args, 1, OwnFlags)
  /\ Named =>
       /\ Aligned(args, w, OwnFlags, Valued)
       /\ i = 1 => Len(args) > 0 /\ args[1] = callee
       /\ i > 1 => Len(callee_args) > 0 /\ callee_args[1] = callee
       /\ i <= Len(args) => args[Len(args)] \notin Valued

Heard == \A p \in taken : p \in OwnFlags \ Valued => values[Str(p)] # NULL

Passes ==
  /\ pc = "move" => args = given /\ baked_in_config # <<>>
  /\ pc = "sort" => SortSplit
  /\ pc = "parse" => \E q : Split(args, q)
  /\ pc = "strip" => \E q : Split(Current, q)
  /\ pc = "set" => /\ \E q : Split(args, q) /\ (Named => i <= q)
                   /\ i > 1 => args[i - 1] \notin Valued
  /\ Heard
  /\ OrderKept /\ CalleeFirst
  /\ pc = "done" /\ baked_in_config # <<>> => Theirs(result, 1, OwnFlags)

LEMMA FlagFacts ==
  ASSUME FlagsTypes, NEW p \in Pointers
  PROVE  /\ Valued \subseteq OwnFlags
         /\ IsFlag(p) <=> p \in OwnFlags
         /\ TakesValue(p) <=> p \in Valued
         /\ Str(p) \notin Dash => p \notin OwnFlags
         /\ Str(p) \in Addresses => p \notin OwnFlags
         /\ p = callee => p \notin OwnFlags
         /\ IsPointerFlag(p) => p \in Valued
<1>1. /\ Valued \subseteq OwnFlags
      /\ IsFlag(p) <=> p \in OwnFlags
      /\ TakesValue(p) <=> p \in Valued
      /\ IsPointerFlag(p) => p \in Valued
  BY DEF Valued, OwnFlags, TakesValue, IsPointerFlag
<1>2. /\ Str(p) \notin Dash => p \notin OwnFlags
      /\ Str(p) \in Addresses => p \notin OwnFlags
  BY FlagsAssumption DEF OwnFlags, IsFlag
<1>. QED
  BY <1>1, <1>2, CalleePlain

\* These depend on the given list and on the strings only.
LEMMA SameMeaning ==
  ASSUME UNCHANGED <<argv, baked_in_config, given>>
  PROVE  /\ UNCHANGED <<OwnFlags, Valued, InOrder, callee>>
         /\ Named' <=> Named
<1>1. callee' = callee
  BY DEF callee, NULL
<1>2. ASSUME NEW p PROVE Str(p)' = Str(p)
  BY DEF Str
<1>3. UNCHANGED <<OwnFlags, Valued>>
  BY <1>2 DEF OwnFlags, Valued, IsFlag, TakesValue
<1>4. InOrder' = InOrder
  BY <1>1 DEF InOrder, Place
<1>5. Str(callee)' = Str(callee)
  BY <1>1 DEF Str
<1>6. Dangling' <=> Dangling
  BY <1>1, <1>2 DEF Dangling, TakesValue, IsFlag
<1>. QED
  BY <1>1, <1>3, <1>4, <1>5, <1>6 DEF Named

\* What is left of the split when the flag at p and its value are taken out:
\* the part of the program to run begins at n.
SplitAt(s, q, t, n, p, F, V, R) ==
  /\ n \in 1 .. Len(t) + 1
  /\ Ours(t, n, F, V) /\ Ordered(t, n, R)
  /\ Theirs(s, q, F) => Theirs(t, n, F)
  /\ /\ Theirs(s, q, F) /\ q <= Len(s) /\ s[q] # s[p + 1]
     /\ Aligned(s, q, F, V)
     => n <= Len(t) /\ t[n] = s[q] /\ Aligned(t, n, F, V)

LEMMA StillSplit ==
  ASSUME NEW s, NEW t, NEW p, NEW F, NEW V, NEW R, V \subseteq F,
         Without(s, t, p, 2), s[p] \in V, s[p + 1] \notin F,
         NEW q \in 1 .. Len(s) + 1, Ours(s, q, F, V), Ordered(s, q, R)
  PROVE  \E n : SplitAt(s, q, t, n, p, F, V, R)
<1>1. /\ Len(s) \in Nat /\ Len(t) = Len(s) - 2 /\ Len(t) \in Nat
      /\ p \in 1 .. Len(s) - 1
      /\ \A k \in 1 .. p - 1 : t[k] = s[k]
      /\ \A k \in p .. Len(t) : t[k] = s[k + 2]
  BY DEF Without
<1>. DEFINE o(k) == IF k < p THEN k ELSE k + 2
<1>2. \A k \in 1 .. Len(t) : o(k) \in 1 .. Len(s) /\ t[k] = s[o(k)]
  BY <1>1
\* Whatever follows the pair in front of q is a flag.
<1>3. p + 2 < q => s[p + 2] \in F
  <2>1. p + 2 < q => p + 2 \in 1 .. q - 1 /\ (p + 2) - 1 = p + 1
    BY <1>1
  <2>. QED
    BY <2>1 DEF Ours
<1>4. CASE p + 1 < q
  <2>. DEFINE n == q - 2
  <2>1. n \in 1 .. Len(t) + 1 /\ p <= n
    BY <1>1, <1>4
  <2>2. Ours(t, n, F, V)
    <3>. SUFFICES ASSUME NEW k \in 1 .. n - 1, t[k] \notin F
         PROVE  k > 1 /\ t[k - 1] \in V
      BY DEF Ours
    <3>1. CASE k < p
      <4>1. k \in 1 .. q - 1 /\ t[k] = s[k] /\ (k > 1 => t[k - 1] = s[k - 1])
        BY <1>1, <1>4, <3>1
      <4>. QED
        BY <4>1 DEF Ours
    <3>2. CASE k >= p
      <4>1. /\ k + 2 \in 1 .. q - 1 /\ k \in p .. Len(t) /\ (k + 2) - 1 = k + 1
        BY <1>1, <1>4, <3>2
      <4>2. t[k] = s[k + 2] /\ s[k + 1] \in V
        BY <1>1, <4>1 DEF Ours
      <4>3. k # p
        BY <1>1, <1>3, <4>1, <4>2
      <4>4. k - 1 \in p .. Len(t) /\ (k - 1) + 2 = k + 1 /\ k > 1
        BY <1>1, <3>2, <4>1, <4>3
      <4>. QED
        BY <1>1, <4>2, <4>4
    <3>. QED
      BY <1>1, <3>1, <3>2
  <2>3. \A k \in n .. Len(t) : k + 2 \in q .. Len(s) /\ t[k] = s[k + 2]
    BY <1>1, <2>1
  <2>4. Ordered(t, n, R)
    <3>. SUFFICES ASSUME NEW a \in n .. Len(t), NEW b \in n .. Len(t), a < b
         PROVE  <<t[a], t[b]>> \in R
      BY DEF Ordered
    <3>1. a + 2 < b + 2
      BY <1>1
    <3>. QED
      BY <2>3, <3>1 DEF Ordered
  <2>5. Theirs(s, q, F) => Theirs(t, n, F)
    BY <2>3 DEF Theirs
  <2>6. ASSUME q <= Len(s), Aligned(s, q, F, V)
        PROVE  n <= Len(t) /\ t[n] = s[q] /\ Aligned(t, n, F, V)
    <3>1. n <= Len(t) /\ n \in n .. Len(t) /\ n + 2 = q
      BY <1>1, <2>1, <2>6
    <3>2. t[n] = s[q]
      BY <2>3, <3>1
    <3>3. ASSUME NEW k \in 1 .. n - 1, t[k] \in V, k > 1 => t[k - 1] \notin V
          PROVE  k + 1 < n /\ (k + 2 < n => t[k + 2] \in F)
      <4>1. CASE k < p
        <5>0. k \in 1 .. q - 1 /\ k \in 1 .. p - 1 /\ (k > 1 => k - 1 \in 1 .. p - 1)
          BY <1>1, <1>4, <4>1
        <5>1. k \in 1 .. q - 1 /\ t[k] = s[k] /\ (k > 1 => t[k - 1] = s[k - 1])
          BY <1>1, <5>0
        <5>2. k + 2 < q => s[k + 2] \in F
          BY <2>6, <3>3, <5>1 DEF Aligned
        \* The value of k would be the flag that goes.
        <5>3. k # p - 1
          <6>1. k = p - 1 => k + 2 = p + 1
            BY <1>1
          <6>. QED
            BY <1>4, <5>2, <6>1
        <5>4. CASE k = p - 2
          <6>1. k + 1 < n \/ k + 1 = n
            BY <1>1, <2>1, <5>4
          <6>2. k + 2 = p
            BY <1>1, <5>4
          <6>3. k + 1 < n => (k + 2 < n => t[k + 2] \in F)
            <7>1. k + 2 < n => p \in p .. Len(t) /\ p + 2 < q
              BY <1>1, <5>4, <6>2
            <7>. QED
              BY <1>1, <1>3, <6>2, <7>1
          <6>. QED
            BY <1>1, <2>1, <5>4, <6>3
        <5>5. CASE k < p - 2
          <6>1. k + 2 < p /\ k + 2 < q /\ t[k + 2] = s[k + 2] /\ k + 1 < n
            BY <1>1, <1>4, <2>1, <5>5
          <6>. QED
            BY <5>2, <6>1
        <5>. QED
          BY <1>1, <4>1, <5>3, <5>4, <5>5
      <4>2. CASE k >= p
        <5>1. k + 2 \in 1 .. q - 1 /\ k \in p .. Len(t) /\ (k + 2) - 1 = k + 1
          BY <1>1, <1>4, <4>2
        <5>2. t[k] = s[k + 2]
          BY <1>1, <5>1
        <5>3. s[k + 1] \notin V
          <6>1. CASE k = p
            BY <6>1
          <6>2. CASE k > p
            <7>1. k - 1 \in p .. Len(t) /\ (k - 1) + 2 = k + 1 /\ k > 1
              BY <1>1, <5>1, <6>2
            <7>. QED
              BY <1>1, <3>3, <7>1
          <6>. QED
            BY <1>1, <4>2, <6>1, <6>2
        <5>4. (k + 2) + 1 < q /\ ((k + 2) + 2 < q => s[(k + 2) + 2] \in F)
          BY <2>6, <3>3, <5>1, <5>2, <5>3 DEF Aligned
        <5>5. k + 1 < n
          BY <1>1, <5>4
        <5>6. k + 2 < n => k + 2 \in p .. Len(t) /\ (k + 2) + 2 < q
          BY <1>1, <4>2, <5>1
        <5>. QED
          BY <1>1, <5>4, <5>5, <5>6
      <4>. QED
        BY <1>1, <4>1, <4>2
    <3>. QED
      BY <3>1, <3>2, <3>3 DEF Aligned
  <2>. HIDE DEF n
  <2>. QED
    BY <2>1, <2>2, <2>4, <2>5, <2>6 DEF SplitAt
<1>5. CASE p + 1 >= q
  <2>. DEFINE n == IF p < q THEN q - 1 ELSE q
  <2>1. n \in 1 .. Len(t) + 1 /\ n <= p /\ n <= q
    BY <1>1, <1>5
  <2>2. Ours(t, n, F, V)
    <3>. SUFFICES ASSUME NEW k \in 1 .. n - 1
         PROVE  t[k] \in F \/ (k > 1 /\ t[k - 1] \in V)
      BY DEF Ours
    <3>1. k \in 1 .. q - 1 /\ t[k] = s[k] /\ (k > 1 => t[k - 1] = s[k - 1])
      BY <1>1, <2>1
    <3>. QED
      BY <3>1 DEF Ours
  <2>3. \A k \in n .. Len(t) : o(k) \in q .. Len(s) /\ t[k] = s[o(k)]
    BY <1>1, <1>2, <1>5, <2>1
  <2>4. \A a, b \in n .. Len(t) : a < b => o(a) < o(b)
    BY <1>1, <2>1
  <2>5. Theirs(s, q, F) => p < q /\ p + 1 = q
    <3>1. p >= q => p \in q .. Len(s)
      BY <1>1
    <3>2. Theirs(s, q, F) => ~(p >= q)
      BY <3>1 DEF Theirs
    <3>. QED
      BY <1>1, <1>5, <3>2
  <2>. HIDE DEF n, o
  <2>6. Ordered(t, n, R)
    BY <2>3, <2>4 DEF Ordered
  <2>7. Theirs(s, q, F) => Theirs(t, n, F)
    BY <2>3 DEF Theirs
  <2>. QED
    BY <2>1, <2>2, <2>5, <2>6, <2>7 DEF SplitAt
<1>. QED
  BY <1>1, <1>4, <1>5

LEMMA PlaceOf ==
  ASSUME NEW s, OneToOne(s), NEW k \in DOMAIN s
  PROVE  Place(s, s[k]) = k
  BY DEF OneToOne, Place

LEMMA GivenInOrder ==
  ASSUME given \in Seq(Pointers), OneToOne(given),
         NEW a \in 1 .. Len(given), NEW b \in 1 .. Len(given), a < b
  PROVE  <<given[a], given[b]>> \in InOrder
<1>1. Place(given, given[a]) = a /\ Place(given, given[b]) = b
  BY PlaceOf
<1>2. given[a] \in Pointers /\ given[b] \in Pointers
  OBVIOUS
<1>. QED
  BY <1>1, <1>2 DEF InOrder

LEMMA BeginPasses ==
  ASSUME FlagsTypes, Passes,
         AskForHelp \/ AppendBakedInArgs \/ ExpandSkip \/ ExpandFile \/ NoSuchFile
  PROVE  Passes'
<1>1. /\ UNCHANGED <<argv, baked_in_config, given, taken, values>>
      /\ pc' \in {"usage", "expand", "error"}
  BY DEF AskForHelp, AppendBakedInArgs, ExpandSkip, ExpandFile, NoSuchFile, End,
         input, output
<1>2. Heard'
  <2>1. ASSUME NEW p PROVE Str(p)' = Str(p)
    BY <1>1 DEF Str
  <2>. QED
    BY <1>1, <2>1, SameMeaning DEF Passes, Heard
<1>. QED
  BY <1>1, <1>2 DEF Passes, OrderKept, CalleeFirst

\* What every other step of ParseCommandLine but the ones that set a flag does
\* for Heard.
LEMMA StillHeard ==
  ASSUME Heard, UNCHANGED <<argv, baked_in_config, given, taken, values>>
  PROVE  Heard'
<1>1. ASSUME NEW p PROVE Str(p)' = Str(p)
  BY DEF Str
<1>. QED
  BY <1>1, SameMeaning DEF Heard

LEMMA ExpandEndPasses ==
  ASSUME FlagsTypes, Complete', Complete, Passes, ExpandEnd
  PROVE  Passes'
<1>1. /\ pc = "expand" /\ pc' \in {"move", "parse"} /\ args' = args /\ given' = args
      /\ args \in Seq(Pointers) /\ taken' = {}
      /\ pc' = "move" <=> baked_in_config' # <<>>
  BY DEF ExpandEnd, FlagsTypes, TypeOK, Complete, input
<1>2. pc' = "parse" => Split(args, 1)'
  <2>. SUFFICES ASSUME pc' = "parse" PROVE Split(args, 1)'
    OBVIOUS
  <2>1. baked_in_config' = <<>> /\ OneToOne(args)
    BY <1>1 DEF Complete
  <2>2. Ordered(args', 1, InOrder')
    <3>. SUFFICES ASSUME NEW a \in 1 .. Len(args), NEW b \in 1 .. Len(args), a < b
         PROVE  <<args[a], args[b]>> \in InOrder'
      BY <1>1 DEF Ordered
    <3>1. Place(args, args[a]) = a /\ Place(args, args[b]) = b
      BY <1>1, <2>1, PlaceOf
    <3>2. args[a] \in Pointers /\ args[b] \in Pointers
      BY <1>1
    <3>. QED
      BY <1>1, <3>1, <3>2 DEF InOrder
  <2>3. Ours(args', 1, OwnFlags', Valued')
    BY DEF Ours
  <2>4. 1 \in 1 .. Len(args') + 1
    BY <1>1
  <2>. QED
    BY <2>1, <2>2, <2>3, <2>4 DEF Split, Named
<1>. QED
  BY <1>1, <1>2 DEF Passes, Heard, OrderKept, CalleeFirst

LEMMA MovePasses ==
  ASSUME FlagsTypes, Complete, Passes, MoveCallee
  PROVE  Passes'
<1>1. /\ pc = "move" /\ pc' = "sort" /\ i' = 1 /\ w' = 1 /\ args = given
      /\ UNCHANGED <<argv, baked_in_config, given, taken, values, callee_args>>
      /\ callee_args = <<>> /\ baked_in_config # <<>> /\ Heard
      /\ OneToOne(given) /\ given \in Seq(Pointers)
  BY DEF MoveCallee, input, output, Passes, Complete, FlagsTypes, TypeOK
<1>2. /\ UNCHANGED <<OwnFlags, Valued, InOrder, callee>>
      /\ Named' <=> Named
  BY <1>1, SameMeaning
<1>3. /\ args' \in Seq(Pointers) /\ Len(args') = Len(args) /\ Len(args) \in Nat
  BY Moved
<1>4. \A a, b \in 1 .. Len(given) : a < b => <<given[a], given[b]>> \in InOrder
  BY <1>1, GivenInOrder
<1>5. CASE callee \notin Elements(args)
  <2>1. args' = args
    BY <1>5, Moved
  <2>2. Ordered(args', 1, InOrder)
    BY <1>1, <1>4, <2>1 DEF Ordered
  <2>3. ~Named
    BY <1>1, <1>5 DEF Named
  <2>4. SortSplit'
    BY <1>1, <1>2, <2>2, <2>3 DEF SortSplit, Ours, Ordered, Theirs
  <2>. QED
    BY <1>1, <2>4, StillHeard DEF Passes, OrderKept, CalleeFirst
<1>6. CASE callee \in Elements(args)
  <2>1. PICK f \in 1 .. Len(args) :
                 /\ args[f] = callee /\ args'[1] = callee
                 /\ \A k \in 2 .. f : args'[k] = args[k - 1]
                 /\ \A k \in f + 1 .. Len(args) : args'[k] = args[k]
    BY <1>6, Moved
  <2>2. callee \in Pointers /\ callee \notin Valued
    <3>1. callee \in Pointers
      BY <1>1, <2>1
    <3>. QED
      BY <3>1, FlagFacts
  <2>3. Ordered(args', 1, InOrder)
    <3>. SUFFICES ASSUME NEW a \in 1 .. Len(args), NEW b \in 1 .. Len(args), a < b
         PROVE  <<args'[a], args'[b]>> \in InOrder
      BY <1>3 DEF Ordered
    <3>1. args'[a] \in Pointers /\ args'[b] \in Pointers
      BY <1>3
    <3>2. CASE a = 1
      BY <2>1, <3>1, <3>2 DEF InOrder
    <3>3. CASE a > 1
      <4>. DEFINE o(k) == IF k <= f THEN k - 1 ELSE k
      <4>1. /\ o(a) \in 1 .. Len(args) /\ args'[a] = args[o(a)]
            /\ o(b) \in 1 .. Len(args) /\ args'[b] = args[o(b)]
            /\ o(a) < o(b)
        BY <1>3, <2>1, <3>3
      <4>. HIDE DEF o
      <4>. QED
        BY <1>1, <1>4, <4>1
    <3>. QED
      BY <3>2, <3>3
  <2>4. Named => args'[Len(args')] \notin Valued
    <3>. SUFFICES ASSUME Named, args'[Len(args)] \in Valued PROVE FALSE
      BY <1>3
    <3>1. Len(args) > 1
      BY <1>3, <2>1, <2>2
    <3>. DEFINE k == IF f = Len(args) THEN Len(args) - 1 ELSE Len(args)
    <3>2. k \in 1 .. Len(given) /\ args'[Len(args)] = given[k]
      BY <1>1, <1>3, <2>1, <3>1
    <3>3. given[k] # callee /\ TakesValue(given[k])
      BY <1>1, <2>2, <3>2, FlagFacts
    <3>4. \A n \in k + 1 .. Len(given) : given[n] = callee
      BY <1>1, <1>3, <2>1
    <3>5. k \in DOMAIN given
      BY <1>1, <3>2
    <3>. HIDE DEF k
    <3>6. Dangling
      BY <3>3, <3>4, <3>5 DEF Dangling
    <3>. QED
      BY <3>6 DEF Named
  <2>5. SortSplit'
    <3>1. Len(args') > 0
      BY <1>3, <2>1
    <3>2. /\ Ours(args', 1, OwnFlags, Valued) /\ Aligned(args', 1, OwnFlags, Valued)
          /\ Len(callee_args') = 0
      BY <1>1 DEF Ours, Aligned
    <3>. QED
      BY <1>1, <1>2, <2>1, <2>3, <2>4, <3>1, <3>2 DEF SortSplit, Ordered, Theirs
  <2>. QED
    BY <1>1, <2>5, StillHeard DEF Passes, OrderKept, CalleeFirst
<1>. QED
  BY <1>5, <1>6

\* A flag, and its value if it has one, is added to what was kept.
LEMMA OursGrow ==
  ASSUME NEW s, NEW t, NEW F, NEW V, V \subseteq F, NEW v \in Nat \ {0}, NEW n \in {1, 2},
         \A k \in 1 .. v - 1 : t[k] = s[k],
         t[v] \in F, n = 2 => t[v] \in V,
         Ours(s, v, F, V)
  PROVE  /\ Ours(t, v + n, F, V)
         /\ Aligned(s, v, F, V) /\ (t[v] \in V => n = 2) => Aligned(t, v + n, F, V)
<1>1. Ours(t, v + n, F, V)
  <2>. SUFFICES ASSUME NEW k \in 1 .. v + n - 1
       PROVE  t[k] \in F \/ (k > 1 /\ t[k - 1] \in V)
    BY DEF Ours
  <2>1. CASE k < v
    <3>1. k \in 1 .. v - 1 /\ (k > 1 => k - 1 \in 1 .. v - 1)
      BY <2>1
    <3>. QED
      BY <3>1 DEF Ours
  <2>2. CASE k = v
    BY <2>2
  <2>3. CASE k > v
    <3>1. k = v + 1 /\ n = 2 /\ k > 1 /\ k - 1 = v
      BY <2>3
    <3>. QED
      BY <3>1
  <2>. QED
    BY <2>1, <2>2, <2>3
<1>2. ASSUME Aligned(s, v, F, V), t[v] \in V => n = 2,
             NEW k \in 1 .. v + n - 1, t[k] \in V, k > 1 => t[k - 1] \notin V
      PROVE  k + 1 < v + n /\ (k + 2 < v + n => t[k + 2] \in F)
  <2>1. CASE k < v
    <3>1. /\ k \in 1 .. v - 1 /\ t[k] = s[k]
          /\ k > 1 => t[k - 1] = s[k - 1]
      BY <2>1
    <3>2. k + 1 < v /\ (k + 2 < v => s[k + 2] \in F)
      BY <1>2, <3>1 DEF Aligned
    <3>3. CASE k + 2 < v
      <4>1. t[k + 2] = s[k + 2]
        BY <3>3
      <4>. QED
        BY <3>2, <3>3, <4>1
    <3>4. CASE k + 2 = v
      BY <3>4
    <3>. QED
      BY <3>2, <3>3, <3>4
  <2>2. CASE k = v
    BY <1>2, <2>2
  <2>3. CASE k > v
    <3>1. k = v + 1 /\ n = 2 /\ k > 1 /\ k - 1 = v
      BY <2>3
    <3>. QED
      BY <1>2, <3>1
  <2>. QED
    BY <2>1, <2>2, <2>3
<1>. QED
  BY <1>1, <1>2 DEF Aligned

\* SortOwn keeps n arguments.
OwnKept(n) ==
  /\ n \in {1, 2} /\ i' = i + n /\ w' = w + n /\ Len(args') = Len(args)
  /\ i + n <= Len(args) + 1
  /\ args'[w] = args[i]
  /\ \A k \in 1 .. Len(args) : k < w \/ k >= i + n => args'[k] = args[k]
  /\ n = 2 => args[i] \in Valued /\ args'[w + 1] = args[i + 1]
  /\ args[i] \in Valued /\ n = 1 => i = Len(args)

LEMMA SortOwnKeeps ==
  ASSUME FlagsTypes, SortOwn
  PROVE  \E n : OwnKept(n)
<1>1. /\ args \in Seq(Pointers) /\ Len(args) \in Nat /\ i \in 1 .. Len(args)
      /\ w \in 1 .. i
  BY DEF SortOwn, FlagsTypes, TypeOK
<1>2. TakesValue(args[i]) <=> args[i] \in Valued
  BY <1>1, FlagFacts
<1>3. CASE TakesValue(args[i]) /\ i + 1 <= Len(args)
  <2>1. /\ args' = [args EXCEPT ![w] = args[i], ![w + 1] = args[i + 1]]
        /\ i' = i + 2 /\ w' = w + 2
    BY <1>3 DEF SortOwn
  <2>2. /\ Len(args') = Len(args) /\ args'[w] = args[i] /\ args'[w + 1] = args[i + 1]
        /\ \A k \in 1 .. Len(args) : k # w /\ k # w + 1 => args'[k] = args[k]
    BY <1>1, <1>3, <2>1, KeptTwo
  <2>3. OwnKept(2)
    BY <1>1, <1>2, <1>3, <2>1, <2>2 DEF OwnKept
  <2>. QED
    BY <2>3
<1>4. CASE ~(TakesValue(args[i]) /\ i + 1 <= Len(args))
  <2>1. args' = [args EXCEPT ![w] = args[i]] /\ i' = i + 1 /\ w' = w + 1
    BY <1>4 DEF SortOwn
  <2>2. /\ Len(args') = Len(args) /\ args'[w] = args[i]
        /\ \A k \in 1 .. Len(args) : k # w => args'[k] = args[k]
    BY <1>1, <2>1, KeptOne
  <2>3. OwnKept(1)
    BY <1>1, <1>2, <1>4, <2>1, <2>2 DEF OwnKept
  <2>. QED
    BY <2>3
<1>. QED
  BY <1>3, <1>4

LEMMA SortOwnPasses ==
  ASSUME FlagsTypes, Passes, SortOwn
  PROVE  SortSplit'
<1>1. /\ SortSplit /\ UNCHANGED <<argv, baked_in_config, given, callee_args>>
      /\ args \in Seq(Pointers) /\ Len(args) \in Nat /\ i \in 1 .. Len(args)
      /\ w \in 1 .. i /\ args[i] \in Pointers
      /\ w + Len(callee_args) = i /\ Len(callee_args) \in Nat
  <2>1. pc = "sort" /\ i <= Len(args)
    BY DEF SortOwn
  <2>2. /\ args \in Seq(Pointers) /\ Len(args) \in Nat /\ i \in 1 .. Len(args)
        /\ w \in 1 .. i /\ w + Len(callee_args) = i /\ Len(callee_args) \in Nat
    BY <2>1 DEF FlagsTypes, TypeOK
  <2>. QED
    BY <2>1, <2>2 DEF SortOwn, input, Passes
<1>2. /\ UNCHANGED <<OwnFlags, Valued, InOrder, callee>>
      /\ Named' <=> Named
  BY <1>1, SameMeaning
<1>3. /\ Valued \subseteq OwnFlags /\ args[i] \in OwnFlags
      /\ TakesValue(args[i]) <=> args[i] \in Valued
      /\ args[i] # callee
  BY <1>1, FlagFacts DEF SortOwn
<1>4. PICK n : OwnKept(n)
  BY SortOwnKeeps
<1>. USE <1>4 DEF OwnKept
<1>5. /\ w \in Nat \ {0} /\ \A k \in 1 .. w - 1 : args'[k] = args[k]
      /\ args'[w] \in OwnFlags /\ (n = 2 => args'[w] \in Valued)
  <2>1. w \in Nat \ {0} /\ \A k \in 1 .. w - 1 : k \in 1 .. Len(args) /\ k < w
    BY <1>1
  <2>. QED
    BY <1>3, <1>4, <2>1
<1>6. /\ Ours(args', w', OwnFlags, Valued)
      /\ Aligned(args, w, OwnFlags, Valued) /\ (args'[w] \in Valued => n = 2)
           => Aligned(args', w', OwnFlags, Valued)
  <2>1. Ours(args, w, OwnFlags, Valued)
    BY <1>1 DEF SortSplit
  <2>2. /\ Ours(args', w + n, OwnFlags, Valued)
        /\ Aligned(args, w, OwnFlags, Valued) /\ (args'[w] \in Valued => n = 2)
             => Aligned(args', w + n, OwnFlags, Valued)
    BY <1>3, <1>4, <1>5, <2>1, OursGrow
  <2>. QED
    BY <1>4, <2>2
<1>7. \A k \in i' .. Len(args') : k \in i .. Len(args) /\ args'[k] = args[k]
  <2>1. \A k \in i' .. Len(args') :
          k \in i .. Len(args) /\ k \in 1 .. Len(args) /\ k >= i + n
    BY <1>1
  <2>. QED
    BY <2>1
<1>8. Ordered(args', i', InOrder)
  BY <1>1, <1>7 DEF Ordered, SortSplit
<1>9. \A a \in 1 .. Len(callee_args), b \in i' .. Len(args') :
         <<callee_args[a], args'[b]>> \in InOrder
  BY <1>1, <1>7 DEF SortSplit
<1>10. ASSUME Named
       PROVE  /\ Aligned(args', w', OwnFlags, Valued)
              /\ i' > 1 /\ Len(callee_args) > 0 /\ callee_args[1] = callee
              /\ i' <= Len(args') => args'[Len(args')] \notin Valued
  <2>1. args[Len(args)] \notin Valued
    BY <1>1, <1>10 DEF SortSplit
  <2>2. args'[w] \in Valued => n = 2
    BY <1>4, <2>1
  <2>3. i > 1
    BY <1>1, <1>3, <1>10 DEF SortSplit
  <2>4. i' <= Len(args') => args'[Len(args')] = args[Len(args)]
    BY <1>1, <1>4
  <2>5. Len(callee_args) > 0 /\ callee_args[1] = callee /\ Aligned(args, w, OwnFlags, Valued)
    BY <1>1, <1>10, <2>3 DEF SortSplit
  <2>. QED
    BY <1>1, <1>4, <1>6, <2>1, <2>2, <2>3, <2>4, <2>5
<1>. QED
  BY <1>1, <1>2, <1>6, <1>8, <1>9, <1>10 DEF SortSplit

LEMMA SortCalleePasses ==
  ASSUME FlagsTypes, Passes, SortCallee
  PROVE  SortSplit'
<1>1. /\ SortSplit /\ UNCHANGED <<argv, baked_in_config, given, args, w>>
      /\ args \in Seq(Pointers) /\ Len(args) \in Nat /\ i \in 1 .. Len(args)
      /\ args[i] \in Pointers /\ i' = i + 1
      /\ callee_args \in Seq(Pointers) /\ Len(callee_args) \in Nat
      /\ callee_args' = Append(callee_args, args[i])
      /\ w \in 1 .. i /\ w + Len(callee_args) = i
  BY DEF SortCallee, input, Passes, FlagsTypes, TypeOK
<1>2. /\ UNCHANGED <<OwnFlags, Valued, InOrder, callee>>
      /\ Named' <=> Named
  BY <1>1, SameMeaning
<1>3. args[i] \notin OwnFlags
  BY <1>1, FlagFacts DEF SortCallee
<1>. DEFINE n == Len(callee_args)
<1>4. /\ Len(callee_args') = n + 1 /\ callee_args'[n + 1] = args[i]
      /\ \A k \in 1 .. n : callee_args'[k] = callee_args[k]
  BY <1>1
<1>5. \A k \in 1 .. n + 1 : k \in 1 .. n \/ k = n + 1
  BY <1>1
<1>6. Theirs(callee_args', 1, OwnFlags)
  BY <1>1, <1>3, <1>4, <1>5 DEF SortSplit, Theirs
<1>7. Ordered(callee_args', 1, InOrder)
  <2>. SUFFICES ASSUME NEW a \in 1 .. n + 1, NEW b \in 1 .. n + 1, a < b
       PROVE  <<callee_args'[a], callee_args'[b]>> \in InOrder
    BY <1>4 DEF Ordered
  <2>1. a \in 1 .. n
    BY <1>1
  <2>2. CASE b \in 1 .. n
    BY <1>1, <1>4, <2>1, <2>2 DEF SortSplit, Ordered
  <2>3. CASE b = n + 1
    <3>1. i \in i .. Len(args)
      BY <1>1
    <3>. QED
      BY <1>1, <1>4, <2>1, <2>3, <3>1 DEF SortSplit
  <2>. QED
    BY <1>5, <2>2, <2>3
<1>8. Ordered(args, i + 1, InOrder)
  BY <1>1 DEF SortSplit, Ordered
<1>9. ASSUME NEW a \in 1 .. n + 1, NEW b \in i + 1 .. Len(args)
      PROVE  <<callee_args'[a], args[b]>> \in InOrder
  <2>1. b \in i .. Len(args) /\ i \in i .. Len(args) /\ i < b
    BY <1>1
  <2>2. CASE a \in 1 .. n
    BY <1>1, <1>4, <2>1, <2>2 DEF SortSplit
  <2>3. CASE a = n + 1
    BY <1>1, <1>4, <2>1, <2>3 DEF SortSplit, Ordered
  <2>. QED
    BY <1>5, <2>2, <2>3
<1>10. Named => n + 1 > 0 /\ callee_args'[1] = callee
  <2>1. CASE i = 1
    <3>1. n = 0
      BY <1>1, <2>1
    <3>. QED
      BY <1>1, <1>4, <2>1, <3>1 DEF SortSplit
  <2>2. CASE i > 1
    <3>1. Named => 1 \in 1 .. n
      BY <1>1, <2>2 DEF SortSplit
    <3>. QED
      BY <1>1, <1>4, <2>2, <3>1 DEF SortSplit
  <2>. QED
    BY <1>1, <2>1, <2>2
<1>11. i' > 1 /\ (i' <= Len(args') => i <= Len(args))
  BY <1>1
<1>. HIDE DEF n
<1>. QED
  BY <1>1, <1>2, <1>4, <1>6, <1>7, <1>8, <1>9, <1>10, <1>11 DEF SortSplit

LEMMA SortEndPasses ==
  ASSUME FlagsTypes, Passes, SortEnd
  PROVE  Split(args, w)'
<1>1. /\ SortSplit /\ UNCHANGED <<argv, baked_in_config, given, w>>
  BY DEF SortEnd, input, Passes
<1>2. /\ UNCHANGED <<OwnFlags, Valued, InOrder, callee>>
      /\ Named' <=> Named
  BY <1>1, SameMeaning
<1>3. /\ args' \in Seq(Pointers) /\ Len(args') = Len(args)
      /\ Len(args) \in Nat /\ Len(callee_args) \in Nat /\ w \in 1 .. Len(args) + 1
      /\ w + Len(callee_args) = Len(args) + 1
      /\ \A k \in 1 .. w - 1 : args'[k] = args[k]
      /\ \A k \in w .. Len(args) : args'[k] = callee_args[k - w + 1]
  BY Copied
<1>4. ASSUME NEW k \in w .. Len(args)
      PROVE  k - w + 1 \in 1 .. Len(callee_args) /\ args'[k] = callee_args[k - w + 1]
  BY <1>3
<1>5. Ours(args', w, OwnFlags, Valued)
  <2>. SUFFICES ASSUME NEW k \in 1 .. w - 1
       PROVE  args'[k] \in OwnFlags \/ (k > 1 /\ args'[k - 1] \in Valued)
    BY DEF Ours
  <2>1. args'[k] = args[k] /\ (k > 1 => args'[k - 1] = args[k - 1])
    BY <1>3
  <2>. QED
    BY <1>1, <2>1 DEF SortSplit, Ours
<1>6. Ordered(args', w, InOrder)
  <2>. SUFFICES ASSUME NEW a \in w .. Len(args), NEW b \in w .. Len(args), a < b
       PROVE  <<args'[a], args'[b]>> \in InOrder
    BY <1>3 DEF Ordered
  <2>1. a - w + 1 < b - w + 1
    BY <1>3
  <2>. QED
    BY <1>1, <1>4, <2>1 DEF SortSplit, Ordered
<1>7. Theirs(args', w, OwnFlags)
  BY <1>1, <1>3, <1>4 DEF SortSplit, Theirs
<1>8. ASSUME Named
      PROVE  w <= Len(args') /\ args'[w] = callee /\ Aligned(args', w, OwnFlags, Valued)
  <2>1. i > 1 \/ i = 1
    BY DEF FlagsTypes, TypeOK
  <2>2. Len(callee_args) > 0 /\ callee_args[1] = callee
    <3>1. i = 1 => Len(args) > 0
      BY <1>1, <1>8 DEF SortSplit
    <3>2. i > Len(args)
      BY DEF SortEnd
    <3>3. i > 1
      BY <1>3, <2>1, <3>1, <3>2
    <3>. QED
      BY <1>1, <1>8, <3>3 DEF SortSplit
  <2>3. w \in w .. Len(args) /\ w - w + 1 = 1
    BY <1>3, <2>2
  <2>4. args'[w] = callee
    BY <1>3, <2>2, <2>3
  <2>5. Aligned(args', w, OwnFlags, Valued)
    <3>. SUFFICES ASSUME NEW k \in 1 .. w - 1, args'[k] \in Valued,
                         k > 1 => args'[k - 1] \notin Valued
         PROVE  k + 1 < w /\ (k + 2 < w => args'[k + 2] \in OwnFlags)
      BY DEF Aligned
    <3>1. /\ args'[k] = args[k] /\ (k > 1 => args'[k - 1] = args[k - 1])
          /\ k + 2 < w => args'[k + 2] = args[k + 2]
      BY <1>3
    <3>. QED
      BY <1>1, <1>8, <3>1 DEF SortSplit, Aligned
  <2>. QED
    BY <1>3, <2>3, <2>4, <2>5
<1>9. w \in 1 .. Len(args') + 1
  BY <1>3
<1>. QED
  BY <1>1, <1>2, <1>5, <1>6, <1>7, <1>8, <1>9 DEF Split

LEMMA SortPasses ==
  ASSUME FlagsTypes, Passes, SortOwn \/ SortCallee \/ SortEnd
  PROVE  Passes'
<1>1. /\ UNCHANGED <<argv, baked_in_config, given, taken, values>> /\ Heard
  BY DEF SortOwn, SortCallee, SortEnd, input, output, Passes
<1>2. Heard'
  BY <1>1, StillHeard
<1>3. CASE SortOwn \/ SortCallee
  <2>1. pc' = "sort"
    BY <1>3 DEF SortOwn, SortCallee
  <2>. QED
    BY <1>2, <1>3, <2>1, SortOwnPasses, SortCalleePasses
       DEF Passes, OrderKept, CalleeFirst
<1>4. CASE SortEnd
  <2>1. pc' = "parse" /\ \E q : Split(args, q)'
    BY <1>4, SortEndPasses DEF SortEnd
  <2>. QED
    BY <1>2, <2>1 DEF Passes, OrderKept, CalleeFirst
<1>. QED
  BY <1>3, <1>4

LEMMA StripPointerPasses ==
  ASSUME FlagsTypes, Passes, StripPointer
  PROVE  Passes'
<1>1. /\ pc = "strip" /\ pc' = "strip"
      /\ UNCHANGED <<argv, baked_in_config, given, values>>
      /\ args[i] \in Pointers /\ args[i + 1] \in Pointers
      /\ taken' = taken \cup {args[i], args[i + 1]} /\ Heard
  <2>1. args \in Seq(Pointers) /\ i \in 1 .. Len(args) /\ i + 1 <= Len(args)
    BY DEF StripPointer, HasAddress, FlagsTypes, TypeOK
  <2>2. args[i] \in Pointers /\ args[i + 1] \in Pointers
    BY <2>1
  <2>. QED
    BY <2>2 DEF StripPointer, Passes, input
<1>2. /\ UNCHANGED <<OwnFlags, Valued, InOrder, callee>>
      /\ Named' <=> Named
  BY <1>1, SameMeaning
<1>3. /\ args[i] \in Valued /\ Valued \subseteq OwnFlags
      /\ args[i + 1] \notin OwnFlags
      /\ Named => args[i + 1] # callee
  BY <1>1, FlagFacts DEF StripPointer, HasAddress, Named
<1>4. Heard'
  <2>1. ASSUME NEW p PROVE Str(p)' = Str(p)
    BY <1>1 DEF Str
  <2>. QED
    BY <1>1, <1>2, <1>3, <2>1 DEF Heard
<1>5. /\ Without(Current, Current', w, 2)
      /\ Current[w] \in Valued /\ Current[w + 1] \notin OwnFlags
      /\ Named => Current[w + 1] # callee
  BY <1>3, PointerDropped
<1>6. PICK q : Split(Current, q)
  BY <1>1 DEF Passes
<1>7. /\ q \in 1 .. Len(Current) + 1
      /\ Ours(Current, q, OwnFlags, Valued) /\ Ordered(Current, q, InOrder)
      /\ baked_in_config # <<>> => Theirs(Current, q, OwnFlags)
      /\ Named => /\ q <= Len(Current) /\ Current[q] = callee
                  /\ Aligned(Current, q, OwnFlags, Valued)
  BY <1>6 DEF Split
<1>8. PICK n : SplitAt(Current, q, Current', n, w, OwnFlags, Valued, InOrder)
  BY <1>3, <1>5, <1>7, StillSplit
<1>9. Named => baked_in_config # <<>>
  BY DEF Named
<1>10. Split(Current, n)'
  BY <1>1, <1>2, <1>5, <1>7, <1>8, <1>9 DEF Split, SplitAt
<1>. QED
  BY <1>1, <1>4, <1>10 DEF Passes, OrderKept, CalleeFirst

LEMMA StripPasses ==
  ASSUME FlagsTypes, Passes,
         NoArguments \/ StripStart \/ StripPointer \/ StripAbort \/ StripKeep
         \/ StripEnd
  PROVE  Passes'
<1>1. CASE StripPointer
  BY <1>1, StripPointerPasses
<1>2. CASE ~StripPointer
  <2>1. UNCHANGED <<argv, baked_in_config, given, taken, values>> /\ Heard'
    <3>1. UNCHANGED <<argv, baked_in_config, given, taken, values>> /\ Heard
      BY <1>2 DEF NoArguments, StripStart, StripAbort, StripKeep, StripEnd, End, Passes,
                  input, output
    <3>. QED
      BY <3>1, StillHeard
  <2>2. CASE NoArguments \/ StripAbort
    <3>1. pc' \in {"usage", "abort"}
      BY <2>2 DEF NoArguments, StripAbort, End
    <3>. QED
      BY <2>1, <3>1 DEF Passes, OrderKept, CalleeFirst
  <2>3. CASE StripStart
    <3>1. pc' = "strip" /\ Current' = args
      BY <2>3, AllUnread DEF StripStart, FlagsTypes, TypeOK, Current
    <3>2. PICK q : Split(args, q)
      BY <2>3 DEF StripStart, Passes
    <3>3. Split(Current, q)'
      BY <2>1, <3>1, <3>2, SameMeaning DEF Split
    <3>. QED
      BY <2>1, <3>1, <3>3 DEF Passes, OrderKept, CalleeFirst
  <2>4. CASE StripKeep
    <3>1. pc' = "strip" /\ Current' = Current
      BY <2>4, StripKeeps DEF StripKeep
    <3>2. PICK q : Split(Current, q)
      BY <2>4 DEF StripKeep, Passes
    <3>3. Split(Current, q)'
      BY <2>1, <3>1, <3>2, SameMeaning DEF Split
    <3>. QED
      BY <2>1, <3>1, <3>3 DEF Passes, OrderKept, CalleeFirst
  <2>5. CASE StripEnd
    <3>1. pc = "strip" /\ pc' = "set" /\ i' = 1
      BY <2>5 DEF StripEnd
    <3>2. args' = Current
      <4>1. /\ args' \in Seq(Pointers) /\ Len(args') = w - 1
            /\ \A k \in 1 .. w - 1 : args'[k] = args[k]
        BY <2>5, Shortened
      <4>2. i = Len(args) + 1
        BY <2>5 DEF StripEnd, FlagsTypes, TypeOK
      <4>3. /\ Current \in Seq(Pointers) /\ Len(Current) = w - 1
            /\ \A k \in 1 .. w - 1 : Current[k] = args[k]
        <5>1. Len(args) \in Nat /\ w \in Int
          BY <3>1, CurrentList
        <5>. QED
          BY <3>1, <4>2, <5>1, CurrentList
      <4>. QED
        BY <4>1, <4>3, SeqEqual
    <3>3. PICK q : Split(Current, q)
      BY <3>1 DEF Passes
    <3>4. Split(args, q)'
      BY <2>1, <3>2, <3>3, SameMeaning DEF Split
    <3>5. i' <= q /\ ~(i' > 1)
      BY <3>1, <3>3 DEF Split
    <3>. QED
      BY <2>1, <3>1, <3>4, <3>5 DEF Passes, OrderKept, CalleeFirst
  <2>. QED
    BY <1>2, <2>2, <2>3, <2>4, <2>5
<1>. QED
  BY <1>1, <1>2

LEMMA CommandPasses ==
  ASSUME FlagsTypes, Passes, Command
  PROVE  Passes'
<1>1. /\ pc = "set" /\ pc' = "done" /\ i \in 1 .. Len(args) /\ Len(args) \in Nat
      /\ args \in Seq(Pointers) /\ args[i] \in Pointers
      /\ result' = SubSeq(args, i, Len(args))
      /\ UNCHANGED <<argv, baked_in_config, given, taken, values>> /\ Heard
      /\ Str(args[i]) \notin Dash
      /\ i > 1 => args[i - 1] \notin Valued
  BY DEF Command, FlagsTypes, TypeOK, input, Passes
<1>2. /\ UNCHANGED <<OwnFlags, Valued, InOrder, callee>>
      /\ Named' <=> Named
  BY <1>1, SameMeaning
<1>3. Heard'
  BY <1>1, StillHeard
<1>4. PICK q : Split(args, q) /\ (Named => i <= q)
  BY <1>1 DEF Passes
<1>5. /\ q \in 1 .. Len(args) + 1
      /\ Ours(args, q, OwnFlags, Valued) /\ Ordered(args, q, InOrder)
      /\ baked_in_config # <<>> => Theirs(args, q, OwnFlags)
      /\ Named => i <= q /\ args[q] = callee
  BY <1>4 DEF Split
\* The command begins where the flags of this program end.
<1>6. i >= q
  <2>1. args[i] \notin OwnFlags
    BY <1>1, FlagFacts
  <2>2. i < q => i \in 1 .. q - 1
    BY <1>1, <1>5
  <2>. QED
    BY <1>1, <1>5, <2>1, <2>2 DEF Ours
<1>. DEFINE n == Len(args) - i + 1
<1>7. /\ n \in Nat \ {0} /\ result' \in Seq(Pointers) /\ Len(result') = n
      /\ DOMAIN result' = 1 .. n
      /\ \A k \in 1 .. n : result'[k] = args[i + k - 1]
  BY <1>1
<1>8. \A k \in 1 .. n : i + k - 1 \in q .. Len(args)
  BY <1>1, <1>5, <1>6
<1>. HIDE DEF n
<1>9. OrderKept'
  <2>. SUFFICES ASSUME NEW a \in 1 .. n, NEW b \in 1 .. n, a < b, result'[a] # callee
       PROVE  Place(given, result'[a]) < Place(given, result'[b])
    BY <1>1, <1>2, <1>7 DEF OrderKept
  <2>1. i + a - 1 < i + b - 1
    BY <1>1, <1>7
  <2>2. <<result'[a], result'[b]>> \in InOrder
    BY <1>5, <1>7, <1>8, <2>1 DEF Ordered
  <2>. QED
    BY <2>2 DEF InOrder
<1>10. CalleeFirst'
  <2>. SUFFICES ASSUME Named' PROVE result' # <<>> /\ Head(result') = callee'
    BY <1>1 DEF CalleeFirst, Named
  <2>1. i = q
    BY <1>1, <1>2, <1>5, <1>6
  <2>2. result'[1] = args[i]
    <3>1. 1 \in 1 .. n /\ i + 1 - 1 = i
      BY <1>1, <1>7
    <3>. QED
      BY <1>7, <3>1
  <2>3. result' # <<>> /\ Head(result') = result'[1]
    BY <1>7
  <2>. QED
    BY <1>2, <1>5, <2>1, <2>2, <2>3
<1>11. baked_in_config' # <<>> => Theirs(result', 1, OwnFlags')
  BY <1>1, <1>2, <1>5, <1>7, <1>8 DEF Theirs
<1>. QED
  BY <1>1, <1>3, <1>9, <1>10, <1>11 DEF Passes

LEMMA SetBoolPasses ==
  ASSUME FlagsTypes, Passes, SetBool
  PROVE  Passes'
<1>1. /\ pc = "set" /\ pc' = "set" /\ i \in 1 .. Len(args) /\ Len(args) \in Nat
      /\ args \in Seq(Pointers) /\ args[i] \in Pointers /\ args' = args
      /\ UNCHANGED <<argv, baked_in_config, given>> /\ Heard
      /\ taken' = taken \cup {args[i]} /\ i' = i + 1
      /\ values' = [values EXCEPT ![Str(args[i])] = args[i]]
      /\ Str(args[i]) \in flags /\ ~TakesValue(args[i])
      /\ values \in [flags -> Pointers \cup {NULL}]
  BY DEF SetBool, IsFlag, FlagsTypes, TypeOK, input, Passes
<1>2. /\ UNCHANGED <<OwnFlags, Valued, InOrder, callee>>
      /\ Named' <=> Named
  BY <1>1, SameMeaning
<1>3. /\ args[i] \in OwnFlags /\ args[i] \notin Valued /\ args[i] # callee
  BY <1>1, FlagFacts DEF IsFlag
<1>4. Heard'
  <2>1. ASSUME NEW p PROVE Str(p)' = Str(p)
    BY <1>1 DEF Str
  <2>2. args[i] # NULL
    BY <1>1, Fields DEF NULL, Pointers
  <2>3. ASSUME NEW f \in flags, values[f] # NULL PROVE values'[f] # NULL
    BY <1>1, <2>2, <2>3
  <2>4. values'[Str(args[i])] # NULL
    BY <1>1, <2>2
  <2>5. \A p \in OwnFlags : Str(p) \in flags
    BY DEF OwnFlags, IsFlag
  <2>. QED
    BY <1>1, <1>2, <2>1, <2>3, <2>4, <2>5 DEF Heard
<1>5. PICK q : Split(args, q) /\ (Named => i <= q)
  BY <1>1 DEF Passes
<1>6. Split(args, q)'
  BY <1>1, <1>2, <1>5 DEF Split
<1>7. Named => i' <= q
  BY <1>1, <1>3, <1>5 DEF Split
<1>8. i' > 1 /\ args'[i' - 1] \notin Valued'
  <2>1. i' > 1 /\ i' - 1 = i
    BY <1>1
  <2>. QED
    BY <1>1, <1>2, <1>3, <2>1
<1>. QED
  BY <1>1, <1>2, <1>4, <1>6, <1>7, <1>8 DEF Passes, OrderKept, CalleeFirst

LEMMA SetValuePasses ==
  ASSUME FlagsTypes, Passes, SetValue
  PROVE  Passes'
<1>1. /\ pc = "set" /\ pc' = "set" /\ i \in 1 .. Len(args) /\ Len(args) \in Nat
      /\ i + 1 <= Len(args)
      /\ args \in Seq(Pointers) /\ args[i] \in Pointers /\ args' = args
      /\ args[i + 1] \in Pointers /\ Str(args[i + 1]) \notin Dash
      /\ UNCHANGED <<argv, baked_in_config, given>> /\ Heard
      /\ taken' = taken \cup {args[i], args[i + 1]} /\ i' = i + 2
      /\ values' = [values EXCEPT ![Str(args[i])] = args[i + 1]]
      /\ Str(args[i]) \in flags /\ TakesValue(args[i])
      /\ values \in [flags -> Pointers \cup {NULL}]
      /\ i > 1 => args[i - 1] \notin Valued
  <2>1. /\ pc = "set" /\ pc' = "set" /\ i \in 1 .. Len(args) /\ Len(args) \in Nat
        /\ i + 1 <= Len(args) /\ args \in Seq(Pointers)
    BY DEF SetValue, HasValue, FlagsTypes, TypeOK
  <2>2. args[i] \in Pointers /\ args[i + 1] \in Pointers
    BY <2>1
  <2>. QED
    BY <2>1, <2>2 DEF SetValue, HasValue, TakesValue, IsFlag, FlagsTypes, TypeOK, input,
                      Passes
<1>2. /\ UNCHANGED <<OwnFlags, Valued, InOrder, callee>>
      /\ Named' <=> Named
  BY <1>1, SameMeaning
<1>3. /\ args[i] \in OwnFlags /\ args[i] \in Valued /\ args[i] # callee
      /\ args[i + 1] \notin OwnFlags /\ Valued \subseteq OwnFlags
  BY <1>1, FlagFacts DEF IsFlag
<1>4. Heard'
  <2>1. ASSUME NEW p PROVE Str(p)' = Str(p)
    BY <1>1 DEF Str
  <2>2. args[i + 1] # NULL
    BY <1>1, Fields DEF NULL, Pointers
  <2>3. ASSUME NEW f \in flags, values[f] # NULL PROVE values'[f] # NULL
    BY <1>1, <2>2, <2>3
  <2>4. \A p \in OwnFlags : Str(p) \in flags
    BY DEF OwnFlags, IsFlag
  <2>. QED
    BY <1>1, <1>2, <1>3, <2>1, <2>3, <2>4 DEF Heard
<1>5. PICK q : Split(args, q) /\ (Named => i <= q)
  BY <1>1 DEF Passes
<1>6. Split(args, q)'
  BY <1>1, <1>2, <1>5 DEF Split
\* The name of the program to run is not taken for the value.
<1>7. Named => i' <= q
  <2>. SUFFICES ASSUME Named PROVE i' <= q
    OBVIOUS
  <2>1. /\ q \in 1 .. Len(args) /\ args[q] = callee /\ i <= q
        /\ Aligned(args, q, OwnFlags, Valued)
    BY <1>5 DEF Split
  <2>2. i \in 1 .. q - 1
    BY <1>1, <1>3, <2>1
  <2>3. i + 1 < q
    BY <1>1, <1>3, <2>1, <2>2 DEF Aligned
  <2>. QED
    BY <1>1, <2>1, <2>3
<1>8. i' > 1 /\ args'[i' - 1] \notin Valued'
  <2>1. i' > 1 /\ i' - 1 = i + 1
    BY <1>1
  <2>. QED
    BY <1>1, <1>2, <1>3, <2>1
<1>. QED
  BY <1>1, <1>2, <1>4, <1>6, <1>7, <1>8 DEF Passes, OrderKept, CalleeFirst

LEMMA NoCommandPasses ==
  ASSUME FlagsTypes, Complete, Passes, NoCommand
  PROVE  Passes'
<1>1. /\ pc = "set" /\ pc' = "done" /\ i > Len(args) /\ Len(args) \in Nat
      /\ i \in 1 .. Len(args) + 1
      /\ UNCHANGED <<argv, baked_in_config, given, taken, values>> /\ Heard
      /\ result' = <<>>
  BY DEF NoCommand, End, Passes, Complete, FlagsTypes, TypeOK, input, output
<1>2. ~Named
  <2>. SUFFICES ASSUME Named PROVE FALSE
    OBVIOUS
  <2>1. PICK q : Split(args, q) /\ (Named => i <= q)
    BY <1>1 DEF Passes
  <2>2. q \in 1 .. Len(args) /\ i <= q
    BY <2>1 DEF Split
  <2>. QED
    BY <1>1, <2>2
<1>3. CalleeFirst'
  BY <1>1, <1>2, SameMeaning DEF CalleeFirst, Named
<1>4. OrderKept' /\ Theirs(result', 1, OwnFlags')
  <2>1. DOMAIN result' = {} /\ 1 .. Len(result') = {}
    BY <1>1
  <2>. QED
    BY <2>1 DEF OrderKept, Theirs
<1>. QED
  BY <1>1, <1>3, <1>4, StillHeard DEF Passes

LEMMA PassesInductive ==
  ASSUME FlagsTypes, Complete, Complete', Passes, [StartNext]_<<vars, mainVars>>
  PROVE  Passes'
<1>1. CASE Next
  <2>1. CASE BadFlag
    <3>1. /\ pc' = "error" /\ UNCHANGED <<argv, baked_in_config, given, taken, values>>
          /\ Heard
      BY <2>1 DEF BadFlag, End, Passes, input, output
    <3>. QED
      BY <3>1, StillHeard DEF Passes, OrderKept, CalleeFirst
  <2>. QED
    BY <1>1, <2>1, BeginPasses, ExpandEndPasses, MovePasses, SortPasses, StripPasses,
       CommandPasses, SetBoolPasses, SetValuePasses, NoCommandPasses DEF Next
<1>2. CASE Parse
  BY <1>2 DEF Parse, Passes, Heard, OrderKept, CalleeFirst
<1>3. CASE UNCHANGED vars
  <2>1. /\ UNCHANGED <<argv, baked_in_config, given, taken, values, args, i, w, pc,
                       callee_args, result>>
        /\ Heard'
    <3>1. UNCHANGED <<argv, baked_in_config, given, taken, values, args, i, w, pc,
                      callee_args, result>>
      BY <1>3 DEF vars, input, output
    <3>. QED
      BY <3>1, StillHeard DEF Passes
  <2>2. /\ UNCHANGED <<OwnFlags, Valued, InOrder, callee, Current>>
        /\ Named' <=> Named
    BY <2>1, SameMeaning DEF Current
  <2>3. /\ \A q : Split(args, q) => Split(args, q)'
        /\ \A q : Split(Current, q) => Split(Current, q)'
    BY <2>1, <2>2 DEF Split
  <2>4. SortSplit => SortSplit'
    BY <2>1, <2>2 DEF SortSplit
  <2>5. (OrderKept => OrderKept') /\ (CalleeFirst => CalleeFirst')
    BY <2>1, <2>2 DEF OrderKept, CalleeFirst, Named
  <2>. QED
    BY <2>1, <2>2, <2>3, <2>4, <2>5 DEF Passes
<1>. QED
  BY <1>1, <1>2, <1>3, Others

LEMMA PassesAlways == StartSpec => []Passes
<1>1. StartInit => Passes
  BY DEF StartInit, Init, Passes, Heard, OrderKept, CalleeFirst
<1>2. FlagsTypes /\ Complete /\ Complete' /\ Passes /\ [StartNext]_<<vars, mainVars>>
        => Passes'
  BY PassesInductive
<1>. QED
  BY <1>1, <1>2, TypesAlways, CompleteAlways, PTL DEF StartSpec

\* The arguments of the other program stay in order.
THEOREM InTheirOrder == StartSpec => []OrderKept
<1>1. Passes => OrderKept
  BY DEF Passes
<1>. QED
  BY <1>1, PassesAlways, PTL

\* The program that the user named is run, whatever was baked in.
THEOREM RightProgram == StartSpec => []CalleeFirst
<1>1. Passes => CalleeFirst
  BY DEF Passes
<1>. QED
  BY <1>1, PassesAlways, PTL

\* With arguments baked in, every flag of this program that takes no value is
\* heard, and none is handed on.
THEOREM FlagsHeard == StartSpec => []OwnFlagsHeard
<1>1. FlagsTypes /\ Complete /\ Passes => OwnFlagsHeard
  <2>. SUFFICES ASSUME FlagsTypes, Complete, Passes, pc = "done", baked_in_config # <<>>
       PROVE  /\ \A p \in Elements(given) :
                   IsFlag(p) /\ ~TakesValue(p) => values[Str(p)] # NULL
              /\ \A p \in Elements(result) : ~IsFlag(p)
    BY DEF OwnFlagsHeard
  <2>1. /\ given \in Seq(Pointers) /\ result \in Seq(Pointers)
        /\ DOMAIN result = 1 .. Len(result)
    BY DEF FlagsTypes, TypeOK
  <2>2. \A p \in Elements(given) \cup Elements(result) : p \in Pointers
    BY <2>1 DEF Elements
  <2>3. \A p \in Elements(result) : ~IsFlag(p)
    <3>1. \A p \in Elements(result) : p \notin OwnFlags
      BY <2>1 DEF Passes, Theirs, Elements
    <3>. QED
      BY <2>2, <3>1, FlagFacts
  <2>4. Elements(given) = taken \cup Elements(result)
    BY DEF Complete, NothingLost
  <2>5. ASSUME NEW p \in Elements(given), IsFlag(p), ~TakesValue(p)
        PROVE  values[Str(p)] # NULL
    <3>1. p \in taken /\ p \in OwnFlags \ Valued
      BY <2>2, <2>3, <2>4, <2>5, FlagFacts
    <3>. QED
      BY <3>1 DEF Passes, Heard
  <2>. QED
    BY <2>3, <2>5
<1>. QED
  BY <1>1, TypesAlways, CompleteAlways, PassesAlways, PTL

-----------------------------------------------------------------------------
(* The pointers.                                                           *)

\* The k-th string that was typed, and the next one, are at places m and m + 1
\* of s, with a <= m < b.
NextTo(s, a, b, k) ==
  \E m \in a .. b - 1 :
    s[m] = Pointer("argv", k, 0) /\ s[m + 1] = Pointer("argv", k + 1, 0)

\* Neither of them names a response file.
Beside(k) ==
  k \in 1 .. Len(argv) - 1 /\ argv[k] \notin At /\ argv[k + 1] \notin At

Neighbours(k) ==
  /\ pc = "expand" => NextTo(args, 1, Len(args), k)
  /\ pc \in {"move", "sort", "parse", "strip", "set", "done"}
       => NextTo(given, 1, Len(given), k)

\* What PointersFound asks for.
Wanted(k) ==
  /\ k \in 1 .. Len(argv) - 1
  /\ argv[k] \in flags /\ type[argv[k]] = "API_POINTER"
  /\ argv[k + 1] \notin At
  /\ baked_in_config # <<>> => ~Swallowed(Pointer("argv", k, 0))

\* They are at or after place a, and the flag is not the value of another.
Ahead(s, a, k, V) ==
  \E m \in a .. Len(s) - 1 :
    /\ s[m] = Pointer("argv", k, 0) /\ s[m + 1] = Pointer("argv", k + 1, 0)
    /\ m > a => s[m - 1] \notin V

\* Flag and value stay together until the callback is called.
Chased(k) ==
  /\ pc = "sort" =>
       \/ NextTo(args, 1, w - 1, k)
       \/ Ahead(args, i, k, Valued)
  /\ pc = "parse" => NextTo(args, 1, Len(args), k)
  /\ pc = "strip" => \/ NextTo(Current, w, Len(Current), k)
                     \/ Pointer("argv", k + 1, 0) \in Elements(called)
  /\ pc \in {"set", "done"} => Pointer("argv", k + 1, 0) \in Elements(called)

NoPointers ==
  /\ pc = "strip" => \A k \in 1 .. w - 1 : ~IsPointerFlag(args[k])
  /\ pc = "set" => \A k \in 1 .. Len(args) : ~IsPointerFlag(args[k])
  /\ pc = "done" => \A p \in Elements(result) : ~IsPointerFlag(p)

LEMMA TypedString ==
  ASSUME NEW k \in Nat \ {0}
  PROVE  /\ Pointer("argv", k, 0) \in Pointers
         /\ Str(Pointer("argv", k, 0)) = argv[k]
<1>1. Pointer("argv", k, 0) \in Pointers
  BY DEF Pointer, Pointers
<1>2. Str(Pointer("argv", k, 0)) = argv[k]
  BY Fields DEF Str
<1>. QED
  BY <1>1, <1>2

LEMMA WantedFlag ==
  ASSUME FlagsTypes, NEW k, Wanted(k)
  PROVE  /\ Beside(k) /\ k \in Nat \ {0}
         /\ Pointer("argv", k, 0) \in Valued /\ Pointer("argv", k, 0) \in OwnFlags
         /\ IsPointerFlag(Pointer("argv", k, 0))
         /\ Pointer("argv", k, 0) # callee
<1>1. k \in Nat \ {0} /\ argv \in Seq(String)
  BY DEF Wanted, FlagsTypes
<1>2. IsPointerFlag(Pointer("argv", k, 0))
  BY <1>1, TypedString DEF IsPointerFlag, IsFlag, Wanted
<1>3. /\ Pointer("argv", k, 0) \in Valued /\ Pointer("argv", k, 0) \in OwnFlags
      /\ Pointer("argv", k, 0) # callee
  BY <1>1, <1>2, TypedString, FlagFacts
<1>4. Beside(k)
  BY FlagsAssumption DEF Beside, Wanted
<1>. QED
  BY <1>1, <1>2, <1>3, <1>4

LEMMA WantedSame ==
  ASSUME UNCHANGED <<argv, baked_in_config, given>>, NEW k
  PROVE  (Wanted(k)' <=> Wanted(k)) /\ (Beside(k)' <=> Beside(k))
<1>1. callee' = callee
  BY SameMeaning
<1>2. ASSUME NEW p PROVE Str(p)' = Str(p)
  BY DEF Str
<1>3. ASSUME NEW p PROVE Swallowed(p)' <=> Swallowed(p)
  BY <1>1, <1>2 DEF Swallowed, TakesValue, IsFlag
<1>. QED
  BY <1>3 DEF Wanted, Beside

LEMMA ExpandNeighbours ==
  ASSUME FlagsTypes, NEW k, Beside(k), Neighbours(k), ExpandFile
  PROVE  NextTo(args', 1, Len(args'), k)
<1>. DEFINE len == Len(ResponseFile[Str(args[i])])
<1>1. /\ len \in Nat /\ i \in 1 .. Len(args) /\ Len(args) \in Nat
      /\ Len(args') = Len(args) - 1 + len
      /\ \A n \in 1 .. i - 1 : args'[n] = args[n]
      /\ \A n \in i + 1 .. Len(args) : args'[n - 1 + len] = args[n]
  <2>1. Len(args) \in Nat
    BY DEF FlagsTypes, TypeOK
  <2>. QED
    BY <2>1, Expanded
<1>. HIDE DEF len
<1>2. PICK m \in 1 .. Len(args) - 1 :
         /\ args[m] = Pointer("argv", k, 0)
         /\ args[m + 1] = Pointer("argv", k + 1, 0)
  BY DEF Neighbours, NextTo, ExpandFile
<1>3. m # i /\ m + 1 # i
  <2>1. k \in Nat \ {0} /\ k + 1 \in Nat \ {0}
    BY DEF Beside, FlagsTypes
  <2>2. Str(args[m]) \notin At /\ Str(args[m + 1]) \notin At
    BY <1>2, <2>1, TypedString DEF Beside
  <2>3. Str(args[i]) \in At
    BY FlagsAssumption DEF ExpandFile
  <2>. QED
    BY <2>2, <2>3
<1>4. CASE m + 1 < i
  <2>1. /\ m \in 1 .. i - 1 /\ m + 1 \in 1 .. i - 1 /\ m \in 1 .. Len(args') - 1
    BY <1>1, <1>4
  <2>2. args'[m] = args[m] /\ args'[m + 1] = args[m + 1]
    BY <1>1, <2>1
  <2>. QED
    BY <1>2, <2>1, <2>2 DEF NextTo
<1>5. CASE m > i
  <2>. DEFINE n == m - 1 + len
  <2>1. /\ m \in i + 1 .. Len(args) /\ m + 1 \in i + 1 .. Len(args)
        /\ n \in 1 .. Len(args') - 1 /\ (m + 1) - 1 + len = n + 1
    BY <1>1, <1>2, <1>5
  <2>2. args'[n] = args[m]
    BY <1>1, <2>1
  <2>. HIDE DEF n
  <2>3. args'[(m + 1) - 1 + len] = args[m + 1]
    BY <1>1, <2>1
  <2>4. args'[n + 1] = args[m + 1]
    BY <2>1, <2>3
  <2>. QED
    BY <1>2, <2>1, <2>2, <2>4 DEF NextTo
<1>. QED
  BY <1>1, <1>3, <1>4, <1>5

LEMMA NeighboursStay ==
  ASSUME FlagsTypes, NEW k, Beside(k), Neighbours(k), [StartNext]_<<vars, mainVars>>,
         Beside(k)'
  PROVE  Neighbours(k)'
<1>1. CASE AppendBakedInArgs
  <2>. DEFINE b == Len(baked_in_config)
              first == [n \in 1 .. b |-> Pointer("baked", n, 0)]
              second == [n \in 1 .. Len(argv) |-> Pointer("argv", n, 0)]
  <2>1. args' = first \o second /\ pc' = "expand"
    BY <1>1 DEF AppendBakedInArgs
  <2>2. b \in Nat /\ Len(argv) \in Nat
    BY DEF FlagsTypes
  <2>3. /\ first \in Seq(Pointers) /\ Len(first) = b
        /\ second \in Seq(Pointers) /\ Len(second) = Len(argv)
        /\ \A n \in 1 .. Len(argv) : second[n] = Pointer("argv", n, 0)
    BY <2>2, PointersOf
  <2>. HIDE DEF b, first, second
  <2>4. /\ Len(args') = b + Len(argv)
        /\ \A n \in 1 .. Len(argv) : args'[b + n] = Pointer("argv", n, 0)
    <3>1. b = Len(first) /\ Len(argv) = Len(second)
      BY <2>3
    <3>2. /\ Len(first \o second) = Len(first) + Len(second)
          /\ \A n \in 1 .. Len(second) :
               (first \o second)[Len(first) + n] = second[n]
      BY <2>3, Joined
    <3>. QED
      BY <2>1, <2>3, <3>1, <3>2
  <2>5. k \in 1 .. Len(argv) - 1
    BY DEF Beside
  <2>6. /\ b + k \in 1 .. Len(args') - 1 /\ (b + k) + 1 = b + (k + 1)
        /\ k \in 1 .. Len(argv) /\ k + 1 \in 1 .. Len(argv)
    BY <2>2, <2>4, <2>5
  <2>7. NextTo(args', 1, Len(args'), k)
    BY <2>4, <2>6 DEF NextTo
  <2>. QED
    BY <2>1, <2>7 DEF Neighbours
<1>2. CASE ExpandFile
  <2>1. pc' = "expand"
    BY <1>2 DEF ExpandFile
  <2>. QED
    BY <1>2, <2>1, ExpandNeighbours DEF Neighbours
<1>3. CASE ExpandSkip \/ ExpandEnd
  BY <1>3 DEF ExpandSkip, ExpandEnd, Neighbours
<1>4. CASE Next /\ ~AppendBakedInArgs /\ ~ExpandFile /\ ~ExpandSkip /\ ~ExpandEnd
  <2>1. /\ given' = given /\ pc' # "expand"
        /\ pc' \in {"move", "sort", "parse", "strip", "set", "done"}
             => pc \in {"move", "sort", "parse", "strip", "set", "done"}
    BY <1>4 DEF Next, AskForHelp, NoSuchFile, MoveCallee, SortOwn, SortCallee, SortEnd,
                NoArguments, StripStart, StripPointer, StripAbort, StripKeep, StripEnd,
                Command, BadFlag, SetBool, SetValue, NoCommand, End
  <2>. QED
    BY <2>1 DEF Neighbours
<1>5. CASE Parse
  BY <1>5 DEF Parse, Neighbours
<1>6. CASE UNCHANGED vars
  BY <1>6 DEF vars, Neighbours
<1>. QED
  BY <1>1, <1>2, <1>3, <1>4, <1>5, <1>6, Others

\* The program to run is not taken for the value of a pointer flag, unless the
\* flag itself was taken for a value.
LEMMA ValueNotCallee ==
  ASSUME FlagsTypes, NEW k, Wanted(k), baked_in_config # <<>>,
         pc = "move", \A n : Beside(n) => Neighbours(n)
  PROVE  Pointer("argv", k + 1, 0) # callee
<1>. SUFFICES ASSUME Pointer("argv", k + 1, 0) = callee PROVE FALSE
  OBVIOUS
<1>. DEFINE c == IdentifyCallee(argv)
<1>1. argv \in Seq(String) /\ Len(argv) \in Nat /\ k \in 1 .. Len(argv) - 1
  BY DEF FlagsTypes, Wanted
<1>2. c # 0 /\ c = k + 1
  <2>1. callee.from = "argv" /\ callee.n = k + 1
    BY Fields
  <2>2. NULL.from = "none"
    BY Fields DEF NULL
  <2>3. callee # NULL
    BY <2>1, <2>2
  <2>4. c # 0 /\ callee = Pointer("argv", c, 0)
    BY <2>3 DEF callee
  <2>5. callee.n = c
    BY <2>4, Fields
  <2>. QED
    BY <2>1, <2>4, <2>5
<1>3. /\ k > 1
      /\ argv[k - 1] \in flags /\ type[argv[k - 1]] # "BOOL"
  <2>1. /\ c > 1 => \/ ~(argv[c - 1] \in flags /\ type[argv[c - 1]] # "BOOL")
                    \/ c > 2 /\ argv[c - 2] \in flags /\ type[argv[c - 2]] # "BOOL"
    BY <1>1, <1>2, CalleeFound
  <2>. HIDE DEF c
  <2>2. c > 1 /\ c - 1 = k /\ c - 2 = k - 1 /\ (c > 2 => k > 1)
    BY <1>1, <1>2
  <2>3. argv[k] \in flags /\ type[argv[k]] # "BOOL"
    BY DEF Wanted
  <2>. QED
    BY <2>1, <2>2, <2>3
<1>. HIDE DEF c
<1>4. (k - 1) + 1 = k /\ k - 1 \in 1 .. Len(argv) - 1 /\ k - 1 \in Nat \ {0}
      /\ k \in Nat \ {0}
  BY <1>1, <1>3
<1>5. Beside(k - 1)
  <2>1. argv[k - 1] \notin At
    BY <1>3, FlagsAssumption
  <2>2. argv[k] \notin At
    BY FlagsAssumption DEF Wanted
  <2>. QED
    BY <1>4, <2>1, <2>2 DEF Beside
<1>6. PICK a \in 1 .. Len(given) - 1 :
        /\ given[a] = Pointer("argv", k - 1, 0)
        /\ given[a + 1] = Pointer("argv", (k - 1) + 1, 0)
  BY <1>5 DEF Neighbours, NextTo
<1>7. TakesValue(given[a])
  BY <1>3, <1>4, <1>6, TypedString DEF TakesValue, IsFlag
<1>8. /\ a \in DOMAIN given /\ a + 1 \in DOMAIN given /\ a < a + 1
      /\ a + 1 .. (a + 1) - 1 = {}
  BY DEF FlagsTypes, TypeOK
<1>9. Swallowed(Pointer("argv", k, 0))
  BY <1>4, <1>6, <1>7, <1>8 DEF Swallowed
<1>. QED
  BY <1>9 DEF Wanted

LEMMA MoveChased ==
  ASSUME FlagsTypes, Passes, NEW k, Wanted(k), MoveCallee,
         \A n : Beside(n) => Neighbours(n)
  PROVE  Chased(k)'
<1>. DEFINE P == Pointer("argv", k, 0)
            V == Pointer("argv", k + 1, 0)
<1>1. /\ pc = "move" /\ args = given /\ baked_in_config # <<>> /\ ~Swallowed(P)
      /\ pc' = "sort" /\ i' = 1
  BY DEF MoveCallee, Passes, Wanted
<1>2. P # callee /\ V # callee
  BY <1>1, WantedFlag, ValueNotCallee
<1>3. PICK m \in 1 .. Len(args) - 1 : args[m] = P /\ args[m + 1] = V
  BY <1>1, WantedFlag DEF Neighbours, NextTo
<1>4. /\ args' \in Seq(Pointers) /\ Len(args') = Len(args) /\ Len(args) \in Nat
      /\ args \in Seq(Pointers) /\ DOMAIN args = 1 .. Len(args)
  BY Moved DEF FlagsTypes, TypeOK
<1>5. Valued' = Valued
  BY SameMeaning DEF MoveCallee, input
<1>6. SUFFICES Ahead(args', 1, k, Valued)
  BY <1>1, <1>5 DEF Chased
<1>7. m > 1 => args[m - 1] \notin Valued
  <2>. SUFFICES ASSUME m > 1, args[m - 1] \in Valued PROVE FALSE
    OBVIOUS
  <2>1. /\ m - 1 \in DOMAIN given /\ m \in DOMAIN given /\ m - 1 < m
        /\ (m - 1) + 1 .. m - 1 = {}
    BY <1>1, <1>4
  <2>2. TakesValue(given[m - 1])
    BY <1>1 DEF Valued
  <2>3. Swallowed(P)
    BY <1>1, <1>3, <2>1, <2>2 DEF Swallowed
  <2>. QED
    BY <1>1, <2>3
<1>8. m > 2 /\ args[m - 1] = callee => args[m - 2] \notin Valued
  <2>. SUFFICES ASSUME m > 2, args[m - 1] = callee, args[m - 2] \in Valued PROVE FALSE
    OBVIOUS
  <2>1. /\ m - 2 \in DOMAIN given /\ m \in DOMAIN given /\ m - 2 < m
        /\ (m - 2) + 1 .. m - 1 = {m - 1}
    BY <1>1, <1>4
  <2>2. TakesValue(given[m - 2])
    BY <1>1 DEF Valued
  <2>3. Swallowed(P)
    BY <1>1, <1>3, <2>1, <2>2 DEF Swallowed
  <2>. QED
    BY <1>1, <2>3
<1>. HIDE DEF P, V
<1>9. CASE callee \notin Elements(args)
  <2>1. args' = args
    BY <1>9, Moved
  <2>. QED
    BY <1>3, <1>7, <2>1 DEF Ahead, P, V
<1>10. CASE callee \in Elements(args)
  <2>1. PICK f \in 1 .. Len(args) :
          /\ args[f] = callee /\ args'[1] = callee
          /\ \A n \in 2 .. f : args'[n] = args[n - 1]
          /\ \A n \in f + 1 .. Len(args) : args'[n] = args[n]
    BY <1>10, Moved
  <2>2. callee \notin Valued
    <3>1. callee \in Pointers
      BY <1>4, <2>1
    <3>. QED
      BY <3>1, FlagFacts
  <2>3. f # m /\ f # m + 1
    BY <1>2, <1>3, <2>1
  <2>4. CASE f < m
    <3>1. /\ m \in f + 1 .. Len(args) /\ m + 1 \in f + 1 .. Len(args)
          /\ m \in 1 .. Len(args') - 1
      BY <1>3, <1>4, <2>4
    <3>2. args'[m] = P /\ args'[m + 1] = V
      BY <1>3, <2>1, <3>1
    <3>3. args'[m - 1] \notin Valued
      <4>1. CASE m - 1 > f
        <5>1. m - 1 \in f + 1 .. Len(args) /\ m > 1
          BY <1>3, <1>4, <4>1
        <5>. QED
          BY <1>7, <2>1, <5>1
      <4>2. CASE m - 1 = f /\ f = 1
        BY <2>1, <2>2, <4>2
      <4>3. CASE m - 1 = f /\ f > 1
        <5>1. m - 1 \in 2 .. f /\ (m - 1) - 1 = m - 2 /\ m > 2
          BY <1>3, <1>4, <4>3
        <5>2. args'[m - 1] = args[m - 2]
          BY <2>1, <5>1
        <5>. QED
          BY <1>8, <2>1, <4>3, <5>1, <5>2
      <4>. QED
        BY <2>4, <4>1, <4>2, <4>3
    <3>. QED
      BY <3>1, <3>2, <3>3 DEF Ahead, P, V
  <2>5. CASE f > m + 1
    <3>1. /\ m + 1 \in 2 .. f /\ (m + 1) + 1 \in 2 .. f /\ (m + 1) - 1 = m
          /\ ((m + 1) + 1) - 1 = m + 1 /\ m + 1 \in 1 .. Len(args') - 1
      BY <1>3, <1>4, <2>5
    <3>2. args'[m + 1] = args[(m + 1) - 1]
      BY <2>1, <3>1
    <3>3. args'[(m + 1) + 1] = args[((m + 1) + 1) - 1]
      BY <2>1, <3>1
    <3>4. args'[m + 1] = P /\ args'[(m + 1) + 1] = V
      BY <1>3, <3>1, <3>2, <3>3
    <3>5. args'[(m + 1) - 1] \notin Valued
      <4>1. CASE m = 1
        BY <2>1, <2>2, <3>1, <4>1
      <4>2. CASE m > 1
        <5>1. m \in 2 .. f
          BY <2>5, <4>2
        <5>. QED
          BY <1>7, <2>1, <3>1, <4>2, <5>1
      <4>. QED
        BY <4>1, <4>2
    <3>. QED
      BY <3>1, <3>4, <3>5 DEF Ahead, P, V
  <2>. QED
    BY <2>3, <2>4, <2>5
<1>. QED
  BY <1>9, <1>10

LEMMA SortOwnChased ==
  ASSUME FlagsTypes, NEW k, Wanted(k), Chased(k), SortOwn
  PROVE  Chased(k)'
<1>. DEFINE P == Pointer("argv", k, 0)
            V == Pointer("argv", k + 1, 0)
<1>1. PICK n : OwnKept(n)
  BY SortOwnKeeps
<1>2. /\ Len(args) \in Nat /\ i \in 1 .. Len(args) /\ w \in 1 .. i /\ w \in Nat
      /\ i \in Nat /\ pc = "sort" /\ pc' = "sort"
  <2>1. pc = "sort" /\ pc' = "sort" /\ i <= Len(args)
    BY DEF SortOwn
  <2>. QED
    BY <2>1 DEF FlagsTypes, TypeOK
<1>3. Valued' = Valued
  BY SameMeaning DEF SortOwn, input
<1>4. P \in Valued
  BY WantedFlag
<1>. HIDE DEF P, V
<1>5. CASE NextTo(args, 1, w - 1, k)
  <2>1. PICK m \in 1 .. (w - 1) - 1 : args[m] = P /\ args[m + 1] = V
    BY <1>5 DEF NextTo, P, V
  <2>2. /\ m \in 1 .. Len(args) /\ m + 1 \in 1 .. Len(args) /\ m < w /\ m + 1 < w
        /\ m \in 1 .. (w' - 1) - 1
    <3>1. w' = w + n /\ n \in {1, 2}
      BY <1>1 DEF OwnKept
    <3>. QED
      BY <1>2, <2>1, <3>1
  <2>3. args'[m] = P /\ args'[m + 1] = V
    BY <1>1, <2>1, <2>2 DEF OwnKept
  <2>. QED
    BY <1>2, <2>2, <2>3 DEF Chased, NextTo, P, V
<1>6. CASE Ahead(args, i, k, Valued)
  <2>1. PICK m \in i .. Len(args) - 1 :
          args[m] = P /\ args[m + 1] = V /\ (m > i => args[m - 1] \notin Valued)
    BY <1>6 DEF Ahead, P, V
  <2>2. CASE m = i
    <3>1. n = 2
      BY <1>1, <1>2, <1>4, <2>1, <2>2 DEF OwnKept
    <3>2. args'[w] = P /\ args'[w + 1] = V /\ w \in 1 .. (w' - 1) - 1
      BY <1>1, <1>2, <2>1, <2>2, <3>1 DEF OwnKept
    <3>. QED
      BY <1>2, <3>2 DEF Chased, NextTo, P, V
  <2>3. CASE m > i
    <3>1. i' = i + n /\ n \in {1, 2} /\ m >= i + n
      <4>1. CASE m = i + 1
        <5>1. args[i] \notin Valued
          BY <1>2, <2>1, <4>1
        <5>. QED
          BY <1>1, <1>2, <4>1, <5>1 DEF OwnKept
      <4>2. CASE m > i + 1
        BY <1>1, <1>2, <2>1, <4>2 DEF OwnKept
      <4>. QED
        BY <1>2, <2>3, <4>1, <4>2
    <3>2. /\ m \in 1 .. Len(args) /\ m + 1 \in 1 .. Len(args) /\ m + 1 >= i + n
          /\ Len(args') = Len(args)
          /\ m \in i' .. Len(args') - 1
          /\ m > i' => m - 1 >= i + n /\ m - 1 \in 1 .. Len(args)
      BY <1>1, <1>2, <2>1, <3>1 DEF OwnKept
    <3>3. /\ args'[m] = P /\ args'[m + 1] = V
          /\ m > i' => args'[m - 1] = args[m - 1]
      BY <1>1, <2>1, <3>1, <3>2 DEF OwnKept
    <3>4. Ahead(args', i', k, Valued)
      BY <2>1, <2>3, <3>2, <3>3 DEF Ahead, P, V
    <3>. QED
      BY <1>2, <1>3, <3>4 DEF Chased
  <2>. QED
    BY <1>2, <2>1, <2>2, <2>3
<1>. QED
  BY <1>2, <1>5, <1>6 DEF Chased

LEMMA SortChased ==
  ASSUME FlagsTypes, NEW k, Wanted(k), Chased(k), SortCallee \/ SortEnd
  PROVE  Chased(k)'
<1>1. /\ Len(args) \in Nat /\ i \in 1 .. Len(args) + 1 /\ w \in 1 .. i /\ w \in Nat
      /\ i \in Nat /\ pc = "sort"
  BY DEF FlagsTypes, TypeOK, SortCallee, SortEnd
<1>2. Valued' = Valued
  BY SameMeaning DEF SortCallee, SortEnd, input
<1>3. CASE SortCallee
  <2>1. args' = args /\ w' = w /\ i' = i + 1 /\ pc' = "sort" /\ i <= Len(args)
    BY <1>3 DEF SortCallee
  <2>2. CASE NextTo(args, 1, w - 1, k)
    BY <2>1, <2>2 DEF Chased
  <2>3. CASE Ahead(args, i, k, Valued)
    <3>1. PICK m \in i .. Len(args) - 1 :
            /\ args[m] = Pointer("argv", k, 0) /\ args[m + 1] = Pointer("argv", k + 1, 0)
            /\ m > i => args[m - 1] \notin Valued
      BY <2>3 DEF Ahead
    <3>2. args[i] # Pointer("argv", k, 0)
      BY <1>3, WantedFlag DEF SortCallee, IsPointerFlag
    <3>3. m \in i' .. Len(args) - 1 /\ (m > i' => m > i)
      BY <1>1, <2>1, <3>1, <3>2
    <3>4. Ahead(args', i', k, Valued)
      BY <2>1, <3>1, <3>3 DEF Ahead
    <3>. QED
      BY <1>2, <2>1, <3>4 DEF Chased
  <2>. QED
    BY <1>1, <2>2, <2>3 DEF Chased
<1>4. CASE SortEnd
  <2>1. pc' = "parse" /\ i > Len(args)
    BY <1>4 DEF SortEnd
  <2>2. ~Ahead(args, i, k, Valued)
    BY <1>1, <2>1 DEF Ahead
  <2>3. PICK m \in 1 .. (w - 1) - 1 :
          args[m] = Pointer("argv", k, 0) /\ args[m + 1] = Pointer("argv", k + 1, 0)
    BY <1>1, <2>2 DEF Chased, NextTo
  <2>4. /\ Len(args') = Len(args) /\ w <= Len(args) + 1
        /\ \A n \in 1 .. w - 1 : args'[n] = args[n]
    BY <1>4, Copied
  <2>5. m \in 1 .. w - 1 /\ m + 1 \in 1 .. w - 1 /\ m \in 1 .. Len(args') - 1
    BY <1>1, <2>3, <2>4
  <2>6. NextTo(args', 1, Len(args'), k)
    BY <2>3, <2>4, <2>5 DEF NextTo
  <2>. QED
    BY <2>1, <2>6 DEF Chased
<1>. QED
  BY <1>3, <1>4

LEMMA StripPointerChased ==
  ASSUME FlagsTypes, NEW k, Wanted(k), Chased(k), StripPointer
  PROVE  Chased(k)'
<1>. DEFINE P == Pointer("argv", k, 0)
            V == Pointer("argv", k + 1, 0)
<1>1. /\ pc = "strip" /\ pc' = "strip" /\ w' = w /\ w \in Nat \ {0} /\ i \in Nat
      /\ called \in Seq(Pointers) /\ args[i + 1] \in Pointers
      /\ called' = Append(called, args[i + 1]) /\ Str(args[i + 1]) \in Addresses
  BY DEF FlagsTypes, TypeOK, StripPointer, HasAddress
<1>2. Elements(called') = Elements(called) \cup {args[i + 1]}
  <2>1. /\ Len(called') = Len(called) + 1 /\ Len(called) \in Nat
        /\ DOMAIN called = 1 .. Len(called) /\ DOMAIN called' = 1 .. Len(called) + 1
        /\ called'[Len(called) + 1] = args[i + 1]
        /\ \A n \in 1 .. Len(called) : called'[n] = called[n]
    BY <1>1
  <2>2. 1 .. Len(called) + 1 = (1 .. Len(called)) \cup {Len(called) + 1}
    BY <2>1
  <2>. QED
    BY <2>1, <2>2 DEF Elements
<1>3. CASE V \in Elements(called)
  BY <1>1, <1>2, <1>3 DEF Chased
<1>4. CASE NextTo(Current, w, Len(Current), k)
  <2>1. PICK m \in w .. Len(Current) - 1 : Current[m] = P /\ Current[m + 1] = V
    BY <1>4 DEF NextTo
  <2>2. /\ Without(Current, Current', w, 2)
        /\ Current[w] = args[i] /\ Current[w + 1] = args[i + 1]
    BY PointerDropped
  <2>3. m # w + 1
    <3>1. args[i + 1] \notin OwnFlags
      BY <1>1, FlagFacts
    <3>. QED
      BY <2>1, <2>2, <3>1, WantedFlag
  <2>4. CASE m = w
    <3>1. V = args[i + 1]
      BY <2>1, <2>2, <2>4
    <3>. QED
      BY <1>1, <1>2, <3>1 DEF Chased
  <2>5. CASE m > w + 1
    <3>. DEFINE n == m - 2
    <3>1. Len(Current) \in Nat /\ Len(Current') = Len(Current) - 2
      BY <2>2 DEF Without
    <3>2. /\ n \in w .. Len(Current') /\ n + 1 \in w .. Len(Current')
          /\ n \in w .. Len(Current') - 1 /\ n + 2 = m /\ (n + 1) + 2 = m + 1
      BY <1>1, <2>1, <2>5, <3>1
    <3>. HIDE DEF n
    <3>3. Current'[n] = Current[n + 2] /\ Current'[n + 1] = Current[(n + 1) + 2]
      BY <2>2, <3>2 DEF Without
    <3>4. Current'[n] = P /\ Current'[n + 1] = V
      BY <2>1, <3>2, <3>3
    <3>. HIDE DEF P, V
    <3>5. NextTo(Current', w, Len(Current'), k)
      BY <3>2, <3>4 DEF NextTo, P, V
    <3>. QED
      BY <1>1, <3>5 DEF Chased
  <2>. QED
    BY <1>1, <2>1, <2>3, <2>4, <2>5
<1>. QED
  BY <1>1, <1>3, <1>4 DEF Chased

LEMMA StripChased ==
  ASSUME FlagsTypes, NEW k, Wanted(k), Chased(k), StripStart \/ StripKeep \/ StripEnd
  PROVE  Chased(k)'
<1>. DEFINE P == Pointer("argv", k, 0)
            V == Pointer("argv", k + 1, 0)
<1>1. CASE StripStart
  <2>1. /\ pc = "parse" /\ pc' = "strip" /\ args' = args /\ i' = 1 /\ w' = 1
        /\ args \in Seq(Pointers)
    BY <1>1 DEF StripStart, FlagsTypes, TypeOK
  <2>2. Current' = args
    BY <2>1, AllUnread DEF Current
  <2>. QED
    BY <2>1, <2>2 DEF Chased
<1>2. CASE StripKeep
  <2>1. /\ pc = "strip" /\ pc' = "strip" /\ w' = w + 1 /\ w \in Nat
        /\ i <= Len(args) /\ ~IsPointerFlag(args[i]) /\ called' = called
    BY <1>2 DEF StripKeep, FlagsTypes, output
  <2>2. Current' = Current
    BY <1>2, StripKeeps
  <2>3. CASE V \in Elements(called)
    BY <2>1, <2>3 DEF Chased
  <2>4. CASE NextTo(Current, w, Len(Current), k)
    <3>1. PICK m \in w .. Len(Current) - 1 : Current[m] = P /\ Current[m + 1] = V
      BY <2>4 DEF NextTo
    <3>2. Len(Current) \in Nat /\ Current[w] = args[i]
      <4>1. /\ Len(Current) = w + Len(args) - i /\ Len(Current) \in Nat
            /\ i \in 1 .. Len(args) + 1 /\ w \in 1 .. i /\ Len(args) \in Nat
            /\ \A n \in w .. Len(Current) : Current[n] = args[n - w + i]
        BY <2>1, CurrentList
      <4>2. w \in w .. Len(Current) /\ w - w + i = i
        BY <2>1, <4>1
      <4>. QED
        BY <4>1, <4>2
    <3>3. m # w
      BY <2>1, <3>1, <3>2, WantedFlag
    <3>4. m \in w' .. Len(Current) - 1
      BY <2>1, <3>1, <3>2, <3>3
    <3>5. NextTo(Current', w', Len(Current'), k)
      BY <2>2, <3>1, <3>4 DEF NextTo
    <3>. QED
      BY <2>1, <3>5 DEF Chased
  <2>. QED
    BY <2>1, <2>3, <2>4 DEF Chased
<1>3. CASE StripEnd
  <2>1. pc = "strip" /\ pc' = "set" /\ i > Len(args) /\ called' = called
    BY <1>3 DEF StripEnd, output
  <2>2. /\ Len(Current) = w + Len(args) - i /\ Len(args) \in Nat
        /\ i \in 1 .. Len(args) + 1 /\ w \in 1 .. i
    BY <2>1, CurrentList
  <2>3. w .. Len(Current) - 1 = {}
    BY <2>1, <2>2
  <2>4. ~NextTo(Current, w, Len(Current), k)
    BY <2>3 DEF NextTo
  <2>. QED
    BY <2>1, <2>4 DEF Chased
<1>. QED
  BY <1>1, <1>2, <1>3

LEMMA ChasedStays ==
  ASSUME FlagsTypes, Passes, [StartNext]_<<vars, mainVars>>,
         \A n : Beside(n) => Neighbours(n), NEW k, Wanted(k) => Chased(k), Wanted(k)'
  PROVE  Chased(k)'
<1>1. CASE AskForHelp \/ AppendBakedInArgs \/ ExpandSkip \/ ExpandFile \/ NoSuchFile
           \/ NoArguments \/ StripAbort \/ BadFlag \/ Parse
  <2>1. pc' \in {"expand", "usage", "error", "abort", "returned"}
    BY <1>1 DEF AskForHelp, AppendBakedInArgs, ExpandSkip, ExpandFile, NoSuchFile,
                NoArguments, StripAbort, BadFlag, Parse, End
  <2>. QED
    BY <2>1 DEF Chased
<1>2. CASE ExpandEnd
  <2>1. /\ argv' = argv /\ args' = args /\ pc = "expand" /\ pc' \in {"move", "parse"}
    BY <1>2 DEF ExpandEnd, input
  <2>2. Beside(k)
    BY <2>1, FlagsAssumption DEF Wanted, Beside
  <2>3. NextTo(args, 1, Len(args), k)
    BY <2>1, <2>2 DEF Neighbours
  <2>. QED
    BY <2>1, <2>3 DEF Chased
<1>3. CASE MoveCallee \/ SortOwn \/ SortCallee \/ SortEnd \/ StripStart \/ StripPointer
           \/ StripKeep \/ StripEnd
  <2>1. UNCHANGED <<argv, baked_in_config, given>>
    BY <1>3 DEF MoveCallee, SortOwn, SortCallee, SortEnd, StripStart, StripPointer,
                StripKeep, StripEnd, input
  <2>2. Wanted(k) /\ Chased(k)
    BY <2>1, WantedSame
  <2>. QED
    BY <1>3, <2>2, MoveChased, SortOwnChased, SortChased, StripPointerChased, StripChased
<1>4. CASE Command \/ SetBool \/ SetValue \/ NoCommand
  <2>1. /\ UNCHANGED <<argv, baked_in_config, given, called>>
        /\ pc = "set" /\ pc' \in {"set", "done"}
    BY <1>4 DEF Command, SetBool, SetValue, NoCommand, End, input, output
  <2>2. Wanted(k) /\ Chased(k)
    BY <2>1, WantedSame
  <2>. QED
    BY <2>1, <2>2 DEF Chased
<1>5. CASE UNCHANGED vars
  <2>1. /\ UNCHANGED <<argv, baked_in_config, given, called, pc, args, i, w>>
    BY <1>5 DEF vars, input, output
  <2>2. Wanted(k) /\ Chased(k) /\ Valued' = Valued
    BY <2>1, WantedSame, SameMeaning
  <2>3. Current' = Current
    BY <2>1 DEF Current
  <2>. QED
    BY <2>1, <2>2, <2>3 DEF Chased
<1>. QED
  BY <1>1, <1>2, <1>3, <1>4, <1>5, Others DEF Next

LEMMA NoPointersStay ==
  ASSUME FlagsTypes, Complete, NoPointers, [StartNext]_<<vars, mainVars>>
  PROVE  NoPointers'
<1>1. CASE pc' \notin {"strip", "set", "done"}
  BY <1>1 DEF NoPointers
<1>2. CASE StripStart
  BY <1>2 DEF StripStart, NoPointers
<1>3. ASSUME UNCHANGED input, NEW p PROVE IsPointerFlag(p)' <=> IsPointerFlag(p)
  BY <1>3 DEF input, IsPointerFlag, IsFlag, Str
<1>4. CASE StripPointer
  <2>1. UNCHANGED <<input, args, pc, w>> /\ pc = "strip"
    BY <1>4 DEF StripPointer
  <2>. QED
    BY <1>3, <2>1 DEF NoPointers
<1>5. CASE StripKeep
  <2>1. /\ UNCHANGED input /\ pc' = "strip" /\ pc = "strip" /\ w' = w + 1
        /\ ~IsPointerFlag(args[i]) /\ i <= Len(args)
        /\ args' = [args EXCEPT ![w] = args[i]]
    BY <1>5 DEF StripKeep
  <2>2. /\ args \in Seq(Pointers) /\ i \in 1 .. Len(args) /\ w \in 1 .. i /\ Len(args) \in Nat
    BY <2>1 DEF FlagsTypes, TypeOK
  <2>3. args'[w] = args[i] /\ \A n \in 1 .. Len(args) : n # w => args'[n] = args[n]
    BY <2>1, <2>2, KeptOne
  <2>4. ASSUME NEW n \in 1 .. w' - 1 PROVE ~IsPointerFlag(args'[n])
    <3>1. n \in 1 .. Len(args) /\ (n = w \/ n \in 1 .. w - 1)
      BY <2>1, <2>2
    <3>. QED
      BY <2>1, <2>3, <3>1 DEF NoPointers
  <2>5. ASSUME NEW n \in 1 .. w' - 1 PROVE ~IsPointerFlag(args[n])'
    BY <1>3, <2>1, <2>4
  <2>. QED
    BY <2>1, <2>5 DEF NoPointers
<1>6. CASE StripEnd
  <2>1. /\ UNCHANGED input /\ pc = "strip" /\ pc' = "set"
        /\ Len(args') = w - 1 /\ \A n \in 1 .. w - 1 : args'[n] = args[n]
    BY <1>6, Shortened DEF StripEnd
  <2>. QED
    BY <1>3, <2>1 DEF NoPointers
<1>7. CASE SetBool \/ SetValue
  <2>1. UNCHANGED <<input, args>> /\ pc = "set" /\ pc' = "set"
    BY <1>7 DEF SetBool, SetValue
  <2>. QED
    BY <1>3, <2>1 DEF NoPointers
<1>8. CASE Command
  <2>1. /\ UNCHANGED input /\ pc = "set" /\ pc' = "done" /\ i <= Len(args)
        /\ result' = SubSeq(args, i, Len(args))
    BY <1>8 DEF Command
  <2>2. args \in Seq(Pointers) /\ i \in 1 .. Len(args) /\ Len(args) \in Nat
    BY <2>1 DEF FlagsTypes, TypeOK
  <2>3. \A p \in Elements(result') : \E n \in 1 .. Len(args) : p = args[n]
    <3>1. /\ DOMAIN result' = 1 .. (Len(args) - i) + 1
          /\ \A n \in 1 .. (Len(args) - i) + 1 : result'[n] = args[i + n - 1]
      BY <2>1, <2>2
    <3>2. \A n \in 1 .. (Len(args) - i) + 1 : i + n - 1 \in 1 .. Len(args)
      BY <2>2
    <3>. QED
      BY <3>1, <3>2 DEF Elements
  <2>4. \A p \in Elements(result') : ~IsPointerFlag(p)
    BY <2>1, <2>3 DEF NoPointers
  <2>5. \A p \in Elements(result)' : ~IsPointerFlag(p)'
    BY <1>3, <2>1, <2>4 DEF Elements
  <2>. QED
    BY <2>1, <2>5 DEF NoPointers
<1>9. CASE NoCommand
  <2>1. pc = "set" /\ pc' = "done" /\ result' = result /\ result = <<>>
    BY <1>9 DEF NoCommand, End, output, Complete
  <2>. QED
    BY <2>1 DEF NoPointers, Elements
<1>10. CASE UNCHANGED vars
  <2>1. UNCHANGED <<input, args, pc, w, result>>
    BY <1>10 DEF vars, output
  <2>. QED
    BY <1>3, <2>1 DEF NoPointers
<1>11. CASE AskForHelp \/ AppendBakedInArgs \/ ExpandSkip \/ ExpandFile \/ NoSuchFile
            \/ ExpandEnd \/ MoveCallee \/ SortOwn \/ SortCallee \/ SortEnd
            \/ NoArguments \/ StripAbort \/ BadFlag \/ Parse
  <2>1. pc' \notin {"strip", "set", "done"}
    BY <1>11 DEF AskForHelp, AppendBakedInArgs, ExpandSkip, ExpandFile, NoSuchFile,
                 ExpandEnd, MoveCallee, SortOwn, SortCallee, SortEnd,
                 NoArguments, StripAbort, BadFlag, Parse, End
  <2>. QED
    BY <1>1, <2>1
<1>. QED
  BY <1>1, <1>2, <1>4, <1>5, <1>6, <1>7, <1>8, <1>9, <1>10, <1>11, Others DEF Next

\* The pointer flags that PointersFound wants are on their way to StripAPIPointers.
Found ==
  /\ \A k : Beside(k) => Neighbours(k)
  /\ \A k : Wanted(k) => Chased(k)
  /\ NoPointers

LEMMA BesideBefore ==
  ASSUME NEW k, Beside(k)', [StartNext]_<<vars, mainVars>>
  PROVE  Beside(k)
<1>1. CASE Parse
  BY <1>1 DEF Parse, Beside
<1>2. CASE ~Parse
  <2>1. argv' = argv
    BY <1>2, Others DEF vars, input, Next, AskForHelp, AppendBakedInArgs, ExpandSkip,
       ExpandFile, NoSuchFile, ExpandEnd, MoveCallee, SortOwn, SortCallee, SortEnd,
       NoArguments, StripStart, StripPointer, StripAbort, StripKeep, StripEnd,
       Command, BadFlag, SetBool, SetValue, NoCommand, End
  <2>. QED
    BY <2>1 DEF Beside
<1>. QED
  BY <1>1, <1>2

LEMMA FoundInductive ==
  ASSUME FlagsTypes, Complete, Passes, Found, [StartNext]_<<vars, mainVars>>
  PROVE  Found'
<1>1. ASSUME NEW k, Beside(k)' PROVE Neighbours(k)'
  BY <1>1, BesideBefore, NeighboursStay DEF Found
<1>2. ASSUME NEW k, Wanted(k)' PROVE Chased(k)'
  BY <1>2, ChasedStays DEF Found
<1>3. NoPointers'
  BY NoPointersStay DEF Found
<1>. QED
  BY <1>1, <1>2, <1>3 DEF Found

LEMMA FoundAlways == StartSpec => []Found
<1>1. StartInit => Found
  BY DEF StartInit, Init, Found, Neighbours, Chased, NoPointers
<1>2. FlagsTypes /\ Complete /\ Passes /\ Found /\ [StartNext]_<<vars, mainVars>> => Found'
  BY FoundInductive
<1>. QED
  BY <1>1, <1>2, TypesAlways, CompleteAlways, PassesAlways, PTL DEF StartSpec

\* The address that a driver adds behind the command reaches NetRegisterFlags'
\* callback, unless a flag without its value takes it; the program to run never
\* sees a pointer flag.  For every set of flags, every command line, response
\* file and baked-in configuration.
THEOREM PointersHeard == StartSpec => []PointersFound
<1>1. Found => PointersFound
  <2>. SUFFICES ASSUME Found, pc = "done" PROVE PointersFound
    BY DEF PointersFound
  <2>1. ASSUME NEW k \in 1 .. Len(argv) - 1, argv[k] \in flags,
               type[argv[k]] = "API_POINTER", argv[k + 1] \notin At,
               baked_in_config # <<>> => ~Swallowed(Pointer("argv", k, 0))
        PROVE  Pointer("argv", k + 1, 0) \in Elements(called)
    <3>1. Wanted(k)
      BY <2>1 DEF Wanted
    <3>. QED
      BY <3>1 DEF Found, Chased
  <2>2. ASSUME NEW p \in Elements(result), IsFlag(p)
        PROVE  type[Str(p)] # "API_POINTER"
    BY <2>2 DEF Found, NoPointers, IsPointerFlag
  <2>. QED
    BY <2>1, <2>2 DEF PointersFound
<1>. QED
  BY <1>1, FoundAlways, PTL
=============================================================================
