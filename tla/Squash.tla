------------------------------- MODULE Squash -------------------------------
(***************************************************************************)
(* lib/flag.c: SquashToResponseFile, which shortens a command line that is *)
(* too long for DOS by moving its end to a response file.                  *)
(*                                                                         *)
(* Lists include the program's name: C's args[i] is args[i + 1].           *)
(***************************************************************************)
EXTENDS Integers, Sequences

CONSTANTS
  String,
  Dash,                  \* the strings that start with '-'
  strlen,
  rsp,                   \* '@' and the name that tmpnam finds
  MAX_COMMAND_LINE_LEN,
  Lists,                 \* the command lines a program may want to run
  MaxCalls               \* bound: how often it does so

ASSUME SquashAssumption ==
  /\ Dash \subseteq String
  /\ strlen \in [String \cup {rsp} -> Nat]
  /\ rsp \notin String
  /\ Lists \subseteq Seq(String) \ {<<>>}
  \* A path and the name of the file fit on a command line.
  /\ \A s \in Lists : strlen[s[1]] + strlen[rsp] + 2 < MAX_COMMAND_LINE_LEN
  /\ MAX_COMMAND_LINE_LEN \in Nat
  /\ MaxCalls \in Nat

VARIABLES
  args, len, i,
  pc,
  response_file_arg,   \* whether it was allocated, and atexit called
  file,                \* the words in the response file
  exists,              \* whether there is one
  asked,               \* history: args before the call
  calls

vars == <<args, len, i, pc, response_file_arg, file, exists, asked, calls>>

\* What the arguments in s take on a command line, each with a space.
LineLength(s) ==
  LET upto[k \in 0 .. Len(s)] ==
        IF k = 0 THEN 0 ELSE upto[k - 1] + 1 + strlen[s[k]]
  IN  upto[Len(s)]

Init ==
  /\ pc = "idle"
  /\ args = <<>> /\ asked = <<>> /\ file = <<>>
  /\ len = 0 /\ i = 0
  /\ response_file_arg = FALSE
  /\ exists = FALSE
  /\ calls = 0

\* A line that fits is left alone.
Call ==
  /\ pc = "idle"
  /\ calls < MaxCalls
  /\ calls' = calls + 1
  /\ \E s \in Lists :
       /\ asked' = s
       /\ args' = s
       /\ IF LineLength(s) <= MAX_COMMAND_LINE_LEN
          THEN /\ pc' = "ready"
               /\ len' = LineLength(s)
               /\ UNCHANGED <<i, response_file_arg>>
          ELSE /\ pc' = "cut"
               /\ len' = LineLength(s) + strlen[rsp] + 1
               /\ i' = Len(s) - 1
               /\ response_file_arg' = TRUE
  /\ UNCHANGED <<file, exists>>

\* The length of the name of the file is forgotten.
MutFileFree(s, n) == s \in Dash /\ n < MAX_COMMAND_LINE_LEN + strlen[rsp]

\* Whether the line may be cut before s: n is what stays behind.
MayCut(s, n) == s \in Dash /\ n < MAX_COMMAND_LINE_LEN

\* One more argument goes.
Cut ==
  /\ pc = "cut"
  /\ i > 1
  /\ len' = len - (strlen[args[i + 1]] + 1)
  /\ IF MayCut(args[i + 1], len') THEN pc' = "write" /\ i' = i
                                  ELSE pc' = "cut" /\ i' = i - 1
  /\ UNCHANGED <<args, response_file_arg, file, exists, asked, calls>>

\* All but the program's name goes.
CutAll ==
  /\ pc = "cut"
  /\ i <= 1
  /\ pc' = "write"
  /\ UNCHANGED <<args, len, i, response_file_arg, file, exists, asked, calls>>

\* The words are added to a file that was there before.
MutAppendToFile(s) == file \o s

\* What is in the file after the words s were written.
FileContents(s) == s

\* WriteResponseFile; the file's name takes the place of what was cut.
WriteResponseFile ==
  /\ pc = "write"
  /\ file' = FileContents(SubSeq(args, i + 1, Len(args)))
  /\ exists' = TRUE
  /\ args' = Append(SubSeq(args, 1, i), rsp)
  /\ pc' = "ready"
  /\ UNCHANGED <<len, i, response_file_arg, asked, calls>>

\* fopen returns NULL, which nobody looks at: nothing is known of a program
\* that prints to it.
CannotOpen ==
  /\ pc = "write"
  /\ pc' = "undefined"
  /\ UNCHANGED <<args, len, i, response_file_arg, file, exists, asked, calls>>

\* The program has run; the next one may be started.
Ran ==
  /\ pc = "ready"
  /\ pc' = "idle"
  /\ UNCHANGED <<args, len, i, response_file_arg, file, exists, asked, calls>>

\* DeleteResponseFile runs at exit if a name was allocated.
Exit ==
  /\ pc \in {"idle", "ready"}
  /\ pc' = "exit"
  /\ exists' = IF response_file_arg THEN FALSE ELSE exists
  /\ response_file_arg' = FALSE
  /\ UNCHANGED <<args, len, i, file, asked, calls>>

Next == Call \/ Cut \/ CutAll \/ WriteResponseFile \/ CannotOpen \/ Ran \/ Exit

Spec == Init /\ [][Next]_vars

-----------------------------------------------------------------------------
(* Properties.                                                             *)

\* The shortened line is short enough.
LineFits == pc = "ready" => LineLength(args) <= MAX_COMMAND_LINE_LEN
=============================================================================
