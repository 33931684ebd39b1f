---------------------------- MODULE MCCapCommon ----------------------------
(* An instance of CapCommon for TLC. *)
EXTENDS CapCommon, TLC

CONSTANTS h1, h2, d1, d2

\* Both keys fall into one bucket: the case where buckets matter.
MCBucketOf(key) == 1

MCKeys == {<<"a">>, <<"b">>}
\* Callers give the value that was never set; the texts bring the others, among them
\* one that is empty and was set.
MCValues == {NoText}
MCNullText == <<"(null)">>
MCTexts == {<<"b", " ", "=", " ", "x", "LF", "a", "=", "LF">>,
            <<"b", "=", "x", "LF", "a", "LF">>,
            <<"b", "=", "x", "LF", "=", "x">>}

InputBytes == {0, 77, 173, 255}
MCInputs == UNION {[1..n -> InputBytes] : n \in 0..3} \cup {<<77, 97, 110, 97>>, <<1, 2, 3, 4, 255>>}

MCRecorded == {<<>>, <<"{", "{">>}

\* clock and news have things of two users, clock as a general service; a thing of
\* news nobody has connected, and lamp belongs twice to one user.
MCUserThings == {"clock1", "clock2", "news1", "news2", "news3", "lamp1", "lamp2"}
MCThingsOf == ("clock" :> {"clock1", "clock2"}) @@ ("news" :> {"news1", "news2", "news3"})
              @@ ("lamp" :> {"lamp1", "lamp2"})
MCCustomer == [t \in MCUserThings |-> IF t = "news3" THEN "null"
                                      ELSE IF t \in {"clock2", "news2"} THEN "u2" ELSE "u1"]

Message(service, apikey, user, variable, isBinary) ==
    [service |-> service, apikey |-> apikey, user |-> user, variable |-> variable, isBinary |-> isBinary]
MCMessages == {Message("clock", "right", "-1", "known", FALSE),
               Message("clock", "right", "u1", "known", TRUE),
               Message("news", "right", "-1", "known", TRUE),
               Message("news", "right", "u2", "known", FALSE),
               Message("lamp", "right", "u1", "known", FALSE),
               Message("lamp", "right", "u2", "known", FALSE),
               Message("clock", "right", "-1", "unknown", FALSE),
               Message("clock", "right", "u1", "none", FALSE),
               Message("news", "wrong", "u1", "known", FALSE),
               Message("radio", "right", "u1", "known", FALSE),
               Message("clock", "none", "u1", "known", FALSE)}
MCNoMessage == Message("none", "none", "-1", "none", FALSE)
=============================================================================
