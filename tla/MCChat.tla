-------------------------------- MODULE MCChat --------------------------------
(* Two requests: the first may be a stream of each kind, and both may ask  *)
(* for the same answer, in one project or in two.  Bodies end with a       *)
(* finish reason or [DONE], early, or in a cut frame.                      *)
EXTENDS Chat

B3(frames, broken) == [frames |-> frames, broken |-> broken]

SomeBodies == [
    openai |-> {B3(<<"text", "text", "finish", "done">>, FALSE),
                B3(<<"text", "noise", "cut">>, FALSE), B3(<<"text", "cut">>, TRUE)},
    antigravity |-> {B3(<<"text", "finish">>, FALSE), B3(<<"text", "cut">>, TRUE)},
    kiro |-> {B3(<<"text", "noise", "text">>, FALSE), B3(<<"text", "cut">>, FALSE), B3(<<"text">>, TRUE)}]

Ask(question, project, provider, streamed, cached, remembered) ==
    [question |-> question, project |-> project, target |-> <<provider, "m">>,
     stream |-> streamed, cache |-> cached, memory |-> remembered]

SomeTargets == {<<"openai", "m">>, <<"kiro", "m">>, <<"antigravity", "m">>}

SomeShapes ==
    [r \in Requests |->
        IF r = "r1"
        THEN {Ask("q", "p", "openai", TRUE, TRUE, FALSE), Ask("q", "p", "kiro", TRUE, FALSE, TRUE),
              Ask("q", Default, "antigravity", TRUE, FALSE, TRUE), Ask("q", "p", "openai", FALSE, TRUE, FALSE)}
        ELSE {Ask("q", "p", "kiro", FALSE, TRUE, TRUE), Ask("q", "other", "openai", FALSE, TRUE, TRUE),
              Ask("q", Default, "antigravity", FALSE, FALSE, TRUE)}]
=============================================================================
