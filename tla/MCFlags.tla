------------------------------ MODULE MCFlags ------------------------------
EXTENDS Startup, SequencesExt

CONSTANTS MaxTyped, MaxBaked   \* how many arguments a person gives

MCflags == {"-net", "-fakeplayers", "-s", "-n"}

MCtype == ("-net" :> "API_POINTER") @@ ("-fakeplayers" :> "BOOL")
          @@ ("-s" :> "STRING") @@ ("-n" :> "INT")

MCNumbers == ("INT" :> {"7"}) @@ ("UNSIGNED_INT" :> {"7"})

\* A file, one whose words look like another file, and an empty one.
MCResponseFile == ("@r" :> <<"game", "-fakeplayers">>) @@ ("@e" :> <<>>)
                  @@ ("@n" :> <<"@r", "-x">>)

Typed == {"-fakeplayers", "-s", "-n", "-x", "game", "7", "@r"}

\* What a driver adds, with and without its address.
DriverArgs == {<<>>, <<"-net", "12345">>}

MCCommandLines ==
  {t \o d : t \in BoundedSeq(Typed, MaxTyped), d \in DriverArgs}
  \cup {<<"-h">>, <<"game", "-net">>, <<"@none">>, <<"game", "@e">>,
        <<"@n", "-s", "7">>, <<"@e", "-n", "game">>}

MCBakedIn == BoundedSeq({"-fakeplayers", "-s", "-x", "game", "7"}, MaxBaked)
=============================================================================
