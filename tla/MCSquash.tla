------------------------------ MODULE MCSquash ------------------------------
EXTENDS ResponseFile, SequencesExt

MCString == {"run", "-f", "name", "-longflag"}

MCstrlen == ("run" :> 3) @@ ("-f" :> 2) @@ ("name" :> 4) @@ ("-longflag" :> 9)
            @@ ("@tmp" :> 4)

\* Two characters are enough for the reader, which looks for spaces only.
MCSpelling ==
  [s \in MCString |->
     [k \in 1 .. MCstrlen[s] |-> IF k = 1 /\ s \in Dash THEN "-" ELSE "a"]]

\* Every line of up to six arguments.
MCLists == {<<"run">> \o s : s \in BoundedSeq(MCString \ {"run"}, 5)}
=============================================================================
