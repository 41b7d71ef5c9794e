------------------------------- MODULE Flags -------------------------------
(***************************************************************************)
(* lib/flag.c: the passes of ParseCommandLine over the list of arguments.  *)
(*                                                                         *)
(* The program's own name, argument 0 of every list, is left out, so that  *)
(* C's args[i] is args[i] here.  A string is known by what the parser can  *)
(* tell of it: whether it is a flag, starts with '-', names a response     *)
(* file, is a number.  Arguments are pointers, as in the code: two equal   *)
(* strings are two arguments.                                              *)
(***************************************************************************)
EXTENDS Integers, Sequences

CONSTANTS
  String,
  Dash,            \* the strings that start with '-'
  At,              \* the strings that start with '@'
  Help,            \* -h, -help, --help and /?
  flags,           \* the names given to BoolFlag, IntFlag...
  type,            \* and their types
  Numbers,         \* the strings that MustParseInt takes for a type
  Addresses,       \* the strings that stand for a number other than 0
  ResponseFile,    \* what is in the response files that exist
  CommandLines,    \* the lists of arguments that may be typed
  BakedIn          \* the lists of arguments that may be baked in

Types == {"BOOL", "STRING", "INT", "UNSIGNED_INT", "API_POINTER"}

ASSUME FlagsAssumption ==
  /\ flags \subseteq Dash /\ Dash \subseteq String
  /\ At \subseteq String /\ At \cap Dash = {}
  /\ Help \subseteq String
  /\ type \in [flags -> Types]
  /\ Numbers \in [{"INT", "UNSIGNED_INT"} -> SUBSET String]
  \* No flag is named by a number.
  /\ Addresses \subseteq String \ flags
  /\ DOMAIN ResponseFile \subseteq At
  /\ \A f \in DOMAIN ResponseFile : ResponseFile[f] \in Seq(String)
  /\ CommandLines \subseteq Seq(String)
  /\ BakedIn \subseteq Seq(String)

VARIABLES
  argv,            \* the strings on the command line
  baked_in_config,
  args,            \* the list the passes work on, of pointers
  pc,              \* the pass, or how the program ended
  i,               \* the argument a pass reads (r of the sort)
  w,               \* where it writes (j of StripAPIPointers)
  callee_args,
  values,          \* from which argument each flag was set
  called,          \* the arguments given to the callbacks
  result,          \* the command to run
  given,           \* history: args after the expansion
  taken            \* history: the flags and values that were used up

input == <<argv, baked_in_config>>
output == <<values, called, result>>
vars == <<input, args, pc, i, w, callee_args, output, given, taken>>

-----------------------------------------------------------------------------
(* Arguments.                                                              *)

\* The n-th string typed or baked in, or the k-th one of the file it names.
Pointer(from, n, k) == [from |-> from, n |-> n, k |-> k]

NULL == Pointer("none", 0, 0)

Str(p) ==
  LET s == IF p.from = "argv" THEN argv[p.n] ELSE baked_in_config[p.n]
  IN  IF p.k = 0 THEN s ELSE ResponseFile[s][p.k]

Elements(s) == {s[k] : k \in DOMAIN s}

IsFlag(p) == Str(p) \in flags
TakesValue(p) == IsFlag(p) /\ type[Str(p)] # "BOOL"

\* A pointer is looked for only in front of the command.
MutPointerInFront(p) ==
  /\ IsFlag(p) /\ type[Str(p)] = "API_POINTER"
  /\ \A k \in 1 .. i : Str(args[k]) \in Dash

IsPointerFlag(p) == IsFlag(p) /\ type[Str(p)] = "API_POINTER"

\* The place of the program to run in the list s, or 0.
IdentifyCallee(s) ==
  LET first[k \in 1 .. Len(s) + 2] ==
        IF k > Len(s) THEN 0
        ELSE IF s[k] \notin Dash THEN k
        ELSE IF s[k] \notin flags THEN 0
        ELSE IF type[s[k]] = "BOOL" THEN first[k + 1] ELSE first[k + 2]
  IN  first[1]

callee ==
  IF IdentifyCallee(argv) = 0 THEN NULL
  ELSE Pointer("argv", IdentifyCallee(argv), 0)

-----------------------------------------------------------------------------
(* ParseCommandLine.                                                       *)

Init ==
  /\ argv \in CommandLines
  /\ baked_in_config \in BakedIn
  /\ pc = "begin"
  /\ args = <<>> /\ callee_args = <<>> /\ result = <<>> /\ given = <<>>
  /\ i = 1 /\ w = 1
  /\ values = [f \in flags |-> NULL]
  /\ called = <<>>
  /\ taken = {}

End(how) ==
  /\ pc' = how
  /\ UNCHANGED <<input, args, i, w, callee_args, output, given, taken>>

\* PrintProgramUsage and exit.
AskForHelp ==
  /\ pc = "begin"
  /\ Elements(argv) \cap Help # {}
  /\ End("usage")

\* The baked-in arguments come before the ones that were typed.
AppendBakedInArgs ==
  /\ pc = "begin"
  /\ Elements(argv) \cap Help = {}
  /\ args' = [k \in 1 .. Len(baked_in_config) |-> Pointer("baked", k, 0)]
             \o [k \in 1 .. Len(argv) |-> Pointer("argv", k, 0)]
  /\ pc' = "expand"
  /\ UNCHANGED <<input, i, w, callee_args, output, given, taken>>

\* ExpandResponseArgs: not a response file.
ExpandSkip ==
  /\ pc = "expand"
  /\ i <= Len(args)
  /\ Str(args[i]) \notin At
  /\ i' = i + 1
  /\ UNCHANGED <<input, args, pc, w, callee_args, output, given, taken>>

\* The words of the file replace its name.  They are not looked at again.
ExpandFile ==
  /\ pc = "expand"
  /\ i <= Len(args)
  /\ Str(args[i]) \in DOMAIN ResponseFile
  /\ LET len == Len(ResponseFile[Str(args[i])])
     IN  /\ args' = SubSeq(args, 1, i - 1)
                    \o [k \in 1 .. len |-> Pointer(args[i].from, args[i].n, k)]
                    \o SubSeq(args, i + 1, Len(args))
         /\ i' = i + len
  /\ UNCHANGED <<input, pc, w, callee_args, output, given, taken>>

\* ReadResponseFile: "Response file not found".
NoSuchFile ==
  /\ pc = "expand"
  /\ i <= Len(args)
  /\ Str(args[i]) \in At \ DOMAIN ResponseFile
  /\ End("error")

\* HAVE_BAKED_IN_CONFIG decides whether the list is rearranged.
ExpandEnd ==
  /\ pc = "expand"
  /\ i > Len(args)
  /\ given' = args
  /\ pc' = IF baked_in_config # <<>> THEN "move" ELSE "parse"
  /\ UNCHANGED <<input, args, i, w, callee_args, output, taken>>

-----------------------------------------------------------------------------
(* ReorderArgsForBakedIn.                                                  *)

\* The program changes places with the first argument.
MutSwapped(s, k) ==
  [n \in DOMAIN s |-> IF n = 1 THEN s[k] ELSE IF n = k THEN s[1] ELSE s[n]]

\* Argument k comes first, the ones before it move up.
ToFront(s, k) ==
  [n \in DOMAIN s |-> IF n = 1 THEN s[k] ELSE IF n <= k THEN s[n - 1] ELSE s[n]]

\* strcmp() instead of ==: a string that was baked in may be equal.
MutFindString ==
  IF callee \in Elements(args)
  THEN CHOOSE k \in DOMAIN args :
         /\ Str(args[k]) = Str(callee)
         /\ \A n \in 1 .. k - 1 : Str(args[n]) # Str(callee)
  ELSE 0

\* Where the program to run is in the list, or 0.
FindCallee ==
  IF callee \in Elements(args)
  THEN CHOOSE k \in DOMAIN args : args[k] = callee
  ELSE 0

\* The program to run, if it is in the list, is moved to its start.
MoveCallee ==
  /\ pc = "move"
  /\ args' = IF FindCallee = 0 THEN args ELSE ToFront(args, FindCallee)
  /\ i' = 1 /\ w' = 1
  /\ pc' = "sort"
  /\ UNCHANGED <<input, callee_args, output, given, taken>>

\* A flag keeps the next argument, whether it takes a value or not.
MutSortPair ==
  /\ pc = "sort"
  /\ i <= Len(args)
  /\ IsFlag(args[i])
  /\ IF i + 1 <= Len(args)
     THEN /\ args' = [args EXCEPT ![w] = args[i], ![w + 1] = args[i + 1]]
          /\ i' = i + 2 /\ w' = w + 2
     ELSE /\ args' = [args EXCEPT ![w] = args[i]]
          /\ i' = i + 1 /\ w' = w + 1
  /\ UNCHANGED <<input, pc, callee_args, output, given, taken>>

\* A flag of this program, with its value, is written back to the list.
SortOwn ==
  /\ pc = "sort"
  /\ i <= Len(args)
  /\ IsFlag(args[i])
  /\ IF TakesValue(args[i]) /\ i + 1 <= Len(args)
     THEN /\ args' = [args EXCEPT ![w] = args[i], ![w + 1] = args[i + 1]]
          /\ i' = i + 2 /\ w' = w + 2
     ELSE /\ args' = [args EXCEPT ![w] = args[i]]
          /\ i' = i + 1 /\ w' = w + 1
  /\ UNCHANGED <<input, pc, callee_args, output, given, taken>>

\* Anything else is for the program to run.
SortCallee ==
  /\ pc = "sort"
  /\ i <= Len(args)
  /\ ~IsFlag(args[i])
  /\ callee_args' = Append(callee_args, args[i])
  /\ i' = i + 1
  /\ UNCHANGED <<input, args, pc, w, output, given, taken>>

\* The arguments for the program to run are copied too far back.
MutCopyBack(s, k, t) ==
  [n \in DOMAIN s |-> IF n > k /\ n < k + Len(t) THEN t[n - k + 1] ELSE s[n]]

\* memcpy of the list t to place k of s.
CopyTo(s, k, t) ==
  [n \in DOMAIN s |-> IF n >= k /\ n < k + Len(t) THEN t[n - k + 1] ELSE s[n]]

SortEnd ==
  /\ pc = "sort"
  /\ i > Len(args)
  /\ args' = CopyTo(args, w, callee_args)
  /\ pc' = "parse"
  /\ UNCHANGED <<input, i, w, callee_args, output, given, taken>>

-----------------------------------------------------------------------------
(* DoParseArgs.                                                            *)

\* PrintProgramUsage and exit.
NoArguments ==
  /\ pc = "parse"
  /\ args = <<>>
  /\ End("usage")

StripStart ==
  /\ pc = "parse"
  /\ args # <<>>
  /\ i' = 1 /\ w' = 1
  /\ pc' = "strip"
  /\ UNCHANGED <<input, args, callee_args, output, given, taken>>

HasAddress == i + 1 <= Len(args) /\ Str(args[i + 1]) \in Addresses

\* StripAPIPointers: the callback is called; flag and value are dropped.
StripPointer ==
  /\ pc = "strip"
  /\ i <= Len(args)
  /\ IsPointerFlag(args[i])
  /\ HasAddress
  /\ called' = Append(called, args[i + 1])
  /\ taken' = taken \cup {args[i], args[i + 1]}
  /\ i' = i + 2
  /\ UNCHANGED <<input, args, pc, w, callee_args, values, result, given>>

\* A failed assertion, or strtol on the NULL that ends the list.
StripAbort ==
  /\ pc = "strip"
  /\ i <= Len(args)
  /\ IsPointerFlag(args[i])
  /\ ~HasAddress
  /\ End("abort")

StripKeep ==
  /\ pc = "strip"
  /\ i <= Len(args)
  /\ ~IsPointerFlag(args[i])
  /\ args' = [args EXCEPT ![w] = args[i]]
  /\ i' = i + 1 /\ w' = w + 1
  /\ UNCHANGED <<input, pc, callee_args, output, given, taken>>

StripEnd ==
  /\ pc = "strip"
  /\ i > Len(args)
  /\ args' = SubSeq(args, 1, w - 1)
  /\ i' = 1
  /\ pc' = "set"
  /\ UNCHANGED <<input, w, callee_args, output, given, taken>>

\* The first argument that is not a flag begins the command.
Command ==
  /\ pc = "set"
  /\ i <= Len(args)
  /\ Str(args[i]) \notin Dash
  /\ result' = SubSeq(args, i, Len(args))
  /\ pc' = "done"
  /\ UNCHANGED <<input, args, i, w, callee_args, values, called, given, taken>>

\* There is a value, and it does not look like a flag.
HasValue == i + 1 <= Len(args) /\ Str(args[i + 1]) \notin Dash

\* MustParseInt accepts it.
ValueFits ==
  LET t == type[Str(args[i])]
  IN  t \in DOMAIN Numbers => Str(args[i + 1]) \in Numbers[t]

\* MustFindFlagForName, a missing value, or MustParseInt: ErrorPrintUsage.
BadFlag ==
  /\ pc = "set"
  /\ i <= Len(args)
  /\ Str(args[i]) \in Dash
  /\ \/ ~IsFlag(args[i])
     \/ TakesValue(args[i]) /\ ~HasValue
     \/ TakesValue(args[i]) /\ HasValue /\ ~ValueFits
  /\ End("error")

\* The next argument is skipped as if the flag had a value.
MutSkipAlways ==
  /\ pc = "set"
  /\ i <= Len(args)
  /\ IsFlag(args[i])
  /\ ~TakesValue(args[i])
  /\ values' = [values EXCEPT ![Str(args[i])] = args[i]]
  /\ taken' = taken \cup {args[i]}
  /\ i' = i + 2
  /\ UNCHANGED <<input, args, pc, w, callee_args, called, result, given>>

SetBool ==
  /\ pc = "set"
  /\ i <= Len(args)
  /\ IsFlag(args[i])
  /\ ~TakesValue(args[i])
  /\ values' = [values EXCEPT ![Str(args[i])] = args[i]]
  /\ taken' = taken \cup {args[i]}
  /\ i' = i + 1
  /\ UNCHANGED <<input, args, pc, w, callee_args, called, result, given>>

\* FLAG_STRING, FLAG_INT and FLAG_UNSIGNED_INT; no pointer is left by now.
SetValue ==
  /\ pc = "set"
  /\ i <= Len(args)
  /\ TakesValue(args[i])
  /\ HasValue /\ ValueFits
  /\ values' = [values EXCEPT ![Str(args[i])] = args[i + 1]]
  /\ taken' = taken \cup {args[i], args[i + 1]}
  /\ i' = i + 2
  /\ UNCHANGED <<input, args, pc, w, callee_args, called, result, given>>

\* No command was given: NULL is returned.
NoCommand ==
  /\ pc = "set"
  /\ i > Len(args)
  /\ End("done")

Next ==
  \/ AskForHelp \/ AppendBakedInArgs
  \/ ExpandSkip \/ ExpandFile \/ NoSuchFile \/ ExpandEnd
  \/ MoveCallee \/ SortOwn \/ SortCallee \/ SortEnd
  \/ NoArguments \/ StripStart \/ StripPointer \/ StripAbort \/ StripKeep
  \/ StripEnd
  \/ Command \/ BadFlag \/ SetBool \/ SetValue \/ NoCommand

Spec == Init /\ [][Next]_vars

-----------------------------------------------------------------------------
(* Properties.                                                             *)

Pointers ==
  [from : {"argv", "baked"}, n : Nat \ {0}, k : Nat]

\* Every variable has its type; no pass reads or writes outside the list,
\* and none overwrites what it has not read.
TypeOK ==
  /\ args \in Seq(Pointers) /\ callee_args \in Seq(Pointers)
  /\ given \in Seq(Pointers) /\ result \in Seq(Pointers)
  /\ pc \in {"begin", "expand", "move", "sort", "parse", "strip", "set",
            "done", "usage", "error", "abort", "returned"}
  /\ i \in 1 .. Len(args) + 1
  /\ pc \in {"sort", "strip"} => w \in 1 .. i
  /\ pc = "sort" => w + Len(callee_args) = i
  /\ values \in [flags -> Pointers \cup {NULL}]
  /\ called \in Seq(Pointers)
  /\ taken \subseteq Pointers

\* Whatever was typed, baked in or read from a file has either been used by
\* this program or is handed on to the other one, once; the passes that
\* move arguments within the list lose none.
NothingLost ==
  pc = "done" =>
    /\ Elements(given) = taken \cup Elements(result)
    /\ taken \cap Elements(result) = {}
    /\ \A a, b \in DOMAIN result : result[a] = result[b] => a = b

Place(s, p) == CHOOSE k \in DOMAIN s : s[k] = p

\* The arguments for the other program stay in order, but for its name,
\* which ReorderArgsForBakedIn moves to the front.
OrderKept ==
  pc = "done" =>
    \A a, b \in DOMAIN result :
      a < b /\ result[a] # callee
        => Place(given, result[a]) < Place(given, result[b])

\* The last flag of the list has no value.
Dangling ==
  \E k \in DOMAIN given :
    /\ given[k] # callee /\ TakesValue(given[k])
    /\ \A n \in k + 1 .. Len(given) : given[n] = callee

\* With arguments baked in, the program the user named is run, although
\* the baked-in arguments come first.  (A program named like a number can be
\* taken for the value of a pointer flag that was itself taken for a value.)
CalleeFirst ==
  /\ pc = "done"
  /\ baked_in_config # <<>>
  /\ callee \in Elements(given) /\ Str(callee) \notin Addresses
  /\ ~Dangling
  => result # <<>> /\ Head(result) = callee

\* A flag in front of p lacks its value, and has p for it.
Swallowed(p) ==
  \E a, b \in DOMAIN given :
    /\ a < b /\ TakesValue(given[a]) /\ given[b] = p
    /\ \A n \in a + 1 .. b - 1 : given[n] = callee

\* A driver adds the address of its interface at the end, behind the
\* command: it is found there, and the command does not get to see it.
PointersFound ==
  pc = "done" =>
    /\ \A k \in 1 .. Len(argv) - 1 :
         /\ argv[k] \in flags /\ type[argv[k]] = "API_POINTER"
         /\ argv[k + 1] \notin At
         /\ baked_in_config # <<>> => ~Swallowed(Pointer("argv", k, 0))
         => Pointer("argv", k + 1, 0) \in Elements(called)
    /\ \A p \in Elements(result) :
         IsFlag(p) => type[Str(p)] # "API_POINTER"

\* With arguments baked in, our flags are heard wherever they are in the
\* list, and none of them is handed on.
OwnFlagsHeard ==
  pc = "done" /\ baked_in_config # <<>> =>
    /\ \A p \in Elements(given) :
         IsFlag(p) /\ ~TakesValue(p) => values[Str(p)] # NULL
    /\ \A p \in Elements(result) : ~IsFlag(p)

\* What SquashToResponseFile relies on (flag.c:660), the words of a response
\* file count as if they had been typed: when they name a program to run, no
\* flag is unknown, since it can be meant for that program.
Transparent ==
  pc = "error" /\ i <= Len(args) /\ Str(args[i]) \in Dash \ flags =>
    LET typed == SelectSeq(given, LAMBDA p : p.from = "argv")
    IN  IdentifyCallee([k \in DOMAIN typed |-> Str(typed[k])]) = 0 \/ Dangling
=============================================================================
