----------------------------- MODULE MCVerification -----------------------------
(* Small instances of Verification for TLC. *)
EXTENDS VerificationProperties

\* Originals with and without ORDER BY, one on MySQL, one that writes; and rewrites of
\* every kind.
MCQueries == {"sorted", "plain", "my", "stamp"}
MCTexts == MCQueries \cup {"again", "join", "Join", "swap", "lossy", "drift", "junk",
                           "delete", "wide", "twice"}
MCNorm == [c \in MCTexts |-> IF c = "again" THEN "plain" ELSE IF c = "Join" THEN "join" ELSE c]
MCKind == [c \in MCTexts |-> IF c = "junk" THEN "junk" ELSE IF c = "delete" THEN "write" ELSE "select"]
MCSameShape == MCQueries \X (MCTexts \ {"wide", "junk"})
MCHasOrderBy == {"sorted", "Join"}
MCDialect == [q \in MCQueries |-> IF q = "my" THEN "mysql" ELSE "postgres"]

\* The data holds two rows, the same values in other columns; a write of another
\* client removes the second.
NoValue == "-"
Sentinel == "NULL"
a == <<"x", NoValue>>
b == <<NoValue, "x">>
MCOutputs ==
    [c \in MCTexts |-> [v \in 0..1 |->
        CASE c \in {"sorted", "join", "Join"} -> IF v = 0 THEN {<<a, b>>} ELSE {<<a>>}
          [] c \in {"plain", "again", "my", "twice", "stamp"} ->
                IF v = 0 THEN {<<a, b>>, <<b, a>>} ELSE {<<a>>}
          [] c = "swap"  -> IF v = 0 THEN {<<b, a>>} ELSE {<<a>>}
          [] c = "lossy" -> IF v = 0 THEN {<<a, a>>} ELSE {<<>>}
          [] c = "drift" -> IF v = 0 THEN {<<a, b, b>>} ELSE {<<a, b>>}
          [] OTHER -> {<<>>}]]
MCWriters == {"stamp"}
MCRepeats == {"twice"}

NoTextProposed == ""
MCRuleRewrites ==
    [q \in MCQueries |->
        CASE q = "plain" -> <<"join", "again">> [] q = "my" -> <<>> [] OTHER -> <<"join">>]
Answers == { <<>>, <<"", "swap", "lossy">>, <<"Join", "delete">>, <<"junk", "wide">>,
             <<"drift">>, <<"swap", "swap", "drift">>, <<"twice", "stamp">> }
MCProposals == {Taken(answer, "", 2) : answer \in Answers}

MCIndexes == {"i1", "i2", "i3"}
MCSuggested ==
    [q \in MCQueries |->
        CASE q = "plain" -> <<"i1", "i2", "i3">> [] q = "my" -> <<>> [] OTHER -> <<"i1">>]

\* Three timed runs.
MCMeasurements == {Summary(d) : d \in [1..3 -> {2, 9}] \cup [1..3 -> {2, 3}]}
================================================================================
