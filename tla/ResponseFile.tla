---------------------------- MODULE ResponseFile ----------------------------
(***************************************************************************)
(* lib/flag.c: the text that WriteResponseFile writes, and                 *)
(* ReadResponseFile, a character at a time.  A program first may read a    *)
(* file that somebody wrote by hand; then it calls SquashToResponseFile    *)
(* (Squash), and the program it runs reads the file.  Flags takes from     *)
(* here that a response file is a list of words.                           *)
(*                                                                         *)
(* A text is a sequence of characters.  The buffer is the sequence of the  *)
(* characters stored in it and has room for readbuf_len of them.           *)
(***************************************************************************)
EXTENDS Squash, FiniteSets

CONSTANTS
  Char,       \* the characters that isspace is false of
  Spelling,   \* the characters of the strings
  Chunk,      \* how much the buffer grows at a time: 64
  MaxText     \* bound: the length of texts written by hand

\* What fgetc returns at the end of the file, which is no character.
EOF == "eof"

\* Arguments have no spaces in them and are not empty.
ASSUME ResponseAssumption ==
  /\ " " \notin Char /\ EOF \notin Char /\ Chunk \in Nat \ {0} /\ MaxText \in Nat
  /\ Spelling \in [String -> Seq(Char)]
  /\ \A s \in String : Len(Spelling[s]) = strlen[s] /\ strlen[s] > 0

VARIABLES
  text,       \* what is in the file
  pos,        \* how much of it fgetc has returned
  c,          \* the last character
  readbuf, readbuf_len,
  result,     \* the arguments read
  reader      \* where ReadResponseFile is

readVars == <<text, pos, c, readbuf, readbuf_len, result, reader>>

Text == UNION {[1 .. n -> Char \cup {" "}] : n \in 0 .. MaxText}

\* WriteResponseFile's output; a newline is a space.
Printed(s) ==
  LET upto[k \in 0 .. Len(s)] ==
        IF k = 0 THEN <<>> ELSE upto[k - 1] \o Spelling[s[k]] \o <<" ">>
  IN  upto[Len(s)]

ReadInit ==
  /\ Init
  /\ text = <<>> /\ pos = 0 /\ c = " "
  /\ readbuf = <<>> /\ readbuf_len = 0
  /\ result = <<>>
  /\ reader = "closed"

-----------------------------------------------------------------------------
\* ReadResponseFile opens a file: one written by hand, or, in a program that
\* was run with a shortened command line, the one that was written for it.
Open ==
  /\ reader = "closed"
  /\ \/ calls = 0 /\ pc = "idle" /\ text' \in Text
     \/ pc = "ready" /\ args[Len(args)] = rsp /\ text' = Printed(file)
  /\ reader' = "skip"
  /\ UNCHANGED <<vars, pos, c, readbuf, readbuf_len, result>>

\* fgetc; feof is true once it has returned EOF.
fgetc ==
  IF pos < Len(text) THEN pos' = pos + 1 /\ c' = text[pos + 1]
  ELSE pos' = pos /\ c' = EOF

\* arg_len = 0 is missing.
MutNoReset ==
  /\ reader = "skip"
  /\ IF c = EOF THEN UNCHANGED <<pos, c>> ELSE fgetc
  /\ reader' = IF c' = EOF THEN "done" ELSE IF c' = " " THEN "skip" ELSE "arg"
  /\ UNCHANGED <<vars, text, readbuf, readbuf_len, result>>

\* Skip past any whitespace, and stop at the end of the file.
Skip ==
  /\ reader = "skip"
  /\ IF c = EOF THEN UNCHANGED <<pos, c>> ELSE fgetc
  /\ reader' = IF c' = EOF THEN "done" ELSE IF c' = " " THEN "skip" ELSE "arg"
  /\ readbuf' = <<>>
  /\ UNCHANGED <<vars, text, readbuf_len, result>>

\* A character of an argument: the buffer grows where it is full.
Store ==
  /\ reader = "arg"
  /\ c \notin {EOF, " "}
  /\ readbuf_len' = IF Len(readbuf) + 1 > readbuf_len THEN readbuf_len + Chunk
                    ELSE readbuf_len
  /\ readbuf' = Append(readbuf, c)
  /\ fgetc
  /\ UNCHANGED <<vars, text, result, reader>>

\* The end of an argument.  Its terminator is stored without a test, and
\* nothing is known of a program that stored it outside the buffer.
EndArg ==
  /\ reader = "arg"
  /\ c \in {EOF, " "}
  /\ IF Len(readbuf) < readbuf_len
     THEN reader' = "skip" /\ result' = Append(result, readbuf)
     ELSE reader' = "corrupt" /\ UNCHANGED result
  /\ UNCHANGED <<vars, text, pos, c, readbuf, readbuf_len>>

\* The buffer is freed, the file is closed, the arguments are returned.
Close ==
  /\ reader = "done"
  /\ reader' = "closed"
  /\ text' = <<>> /\ pos' = 0 /\ c' = " "
  /\ readbuf' = <<>> /\ readbuf_len' = 0
  /\ result' = <<>>
  /\ UNCHANGED vars

ReadNext ==
  \/ reader = "closed" /\ Next /\ UNCHANGED readVars
  \/ Open \/ Skip \/ Store \/ EndArg \/ Close

ReadSpec == ReadInit /\ [][ReadNext]_<<vars, readVars>>

-----------------------------------------------------------------------------
(* Properties.                                                             *)

\* Where the words of the text begin, and the word that begins at k.
Starts == {k \in DOMAIN text : text[k] # " " /\ (k = 1 \/ text[k - 1] = " ")}
WordAt(k) ==
  SubSeq(text, k, CHOOSE e \in k .. Len(text) :
                    /\ \A j \in k .. e : text[j] # " "
                    /\ e = Len(text) \/ text[e + 1] = " ")

\* ReadResponseFile returns the words of the file, all of them and in order,
\* whatever spaces are around them and whether or not the last one is
\* followed by any; the buffer that all of them share leaves no trace.
WordsRead ==
  reader = "done" =>
    /\ Len(result) = Cardinality(Starts)
    /\ \A k \in Starts :
         result[Cardinality({j \in Starts : j <= k})] = WordAt(k)

\* The program that is run reads the arguments that SquashToResponseFile took
\* off its command line, character for character: with those that stayed they
\* are the line that was asked for.
ReadBack ==
  reader = "done" /\ pc = "ready" =>
    LET stayed == SubSeq(args, 1, Len(args) - 1)
    IN  [k \in DOMAIN stayed |-> Spelling[stayed[k]]] \o result
          = [k \in DOMAIN asked |-> Spelling[asked[k]]]

\* "An argument consists of a sequence of non-space characters" (flag.c:262):
\* of any length, so that reading one stays within the buffer.
Terminated == reader # "corrupt"
=============================================================================
