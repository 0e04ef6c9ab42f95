------------------------------ MODULE MCHotSpot ------------------------------
(* Instances of HotSpot for TLC.                                           *)
EXTENDS HotSpot, TLC

\* Texts and keys.
CONSTANTS x, y, key, header, meta

Strings == {"string"} \X {x, y}
AllArgs == Strings \cup ({"int"} \X {x, y})

Ints == {<<"int", x>>, <<"int", y>>}

Nothing == [k \in {} |-> x]
Plain(v) == [value |-> v, pair |-> <<>>]

\* Nobody finds an argument in the bare call of a method with a struct.
Bare == [ attachments |-> Nothing, headers |-> Nothing, metadata |-> Nothing,
          isStruct |-> TRUE, fields |-> Nothing, args |-> <<Plain(<<"struct", x>>)>> ]

AllInputs ==
  { [Bare EXCEPT !.attachments = key :> <<"string", x>>],
    [Bare EXCEPT !.fields = key :> <<"string", y>>],
    [Bare EXCEPT !.headers = header :> x, !.metadata = meta :> x],
    [Bare EXCEPT !.headers = header :> y],
    [Bare EXCEPT !.isStruct = FALSE,
                 !.args = <<Plain(<<"string", y>>), Plain(<<"string", x>>)>>],
    [Bare EXCEPT !.isStruct = FALSE, !.metadata = meta :> Blank,
                 !.args = << Plain(<<"string", y>>),
                             [value |-> <<"string", x>>, pair |-> <<key, y>>] >>] }

Bucket == [ metric |-> "QPS", behavior |-> "Reject", threshold |-> 1,
            specificItems |-> <<"string", y>> :> 2, burstCount |-> 0, durationInSec |-> 1,
            maxQueueing |-> 0, capacity |-> 1, limitApp |-> FALSE,
            paramSource |-> "Parameter", paramKind |-> "string", paramKey |-> key,
            paramIndex |-> -1,
            global |-> FALSE, master |-> FALSE, fallback |-> FALSE ]

Queue == [Bucket EXCEPT !.behavior = "Throttling", !.maxQueueing = 3,
                        !.specificItems = <<"int", y>> :> 2, !.paramSource = "Header",
                        !.paramKind = "int", !.paramKey = header, !.paramIndex = -3]

Concurrency == [Bucket EXCEPT !.metric = "Concurrency", !.paramSource = "Metadata",
                              !.paramKind = "int", !.paramKey = meta, !.paramIndex = 0]

\* Each strategy by itself, with another source.  There is room for one
\* argument, so requests with two of them evict, and requests with the same one
\* do not.
Strategies == { <<Bucket>>, <<Queue>>, <<Concurrency>> }

\* A rule whose LimitApp names a service.
ForOneService == { <<[Concurrency EXCEPT !.capacity = 2, !.limitApp = TRUE]>> }

=============================================================================
