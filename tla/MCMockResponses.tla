--------------------------- MODULE MCMockResponses ---------------------------
(* Instances of MockResponses for TLC.                                       *)
EXTENDS MockResponses

CONSTANTS g1, g2, r1, r2

None == [k \in {} |-> ""]
a  == "a"
ab == "ab"

Matching == { <<a, a>>, <<ab, ab>>, <<a, ab>> }
SomePattern(want, got, pattern) ==
    <<want, got>> \in Matching /\ (pattern = "suffix" => want = got)

Request(res, class, text, from, meta) ==
    [res |-> res, class |-> class, text |-> text, from |-> from, meta |-> meta,
     headers |-> IF class = "web" THEN meta ELSE None,
     args |-> [k \in {"x", "y"} |-> IF k = "x" THEN ab ELSE a],
     attachments |-> None, list |-> <<ab>>]

Few ==
    { Request(r1, "micro", "t1", "s1", [k \in {"h"} |-> ab]),
      Request(r2, "web", "t1", "s2", [k \in {"i"} |-> a]),
      Request(r2, "common", "t2", "s2", None) }

Cond(k, w) == [key |-> k, want |-> w]
Item(conds, op, pattern, replace, behaviour, idx) ==
    [conds |-> conds, op |-> op, kind |-> "string", source |-> "param", pattern |-> pattern,
     replace |-> replace, behaviour |-> behaviour, extra |-> NoPair, idx |-> idx]
Rule(op, hold, limitApp, strategy, behaviour, specific) ==
    [op |-> op, hold |-> hold, limitApp |-> limitApp, strategy |-> strategy,
     behaviour |-> behaviour, items |-> << [key |-> "h", value |-> a] >>, specific |-> specific]

Both  == Item(<<Cond("x", a), Cond("z", a), Cond("y", a)>>, "or", "prefix", "none", "mock", 0)
All   == Item(<<Cond("x", ab), Cond("y", a)>>, "and", "exact", "none", "waitingThenPanic", 0)
Far   == Item(<<Cond("x", ab)>>, "and", "exact", "none", "mock", 2)
Swap  == Item(<<Cond("x", ab)>>, "and", "exact", "req", "mock", -1)

SomeLists ==
    { << Rule("or", TRUE, {}, "func", "waiting", <<>>),
         Rule("and", TRUE, {}, "args", "mock", <<Both, All>>) >>,
      << Rule("and", FALSE, {"s2"}, "func", "waitingThenMock", <<>>),
         Rule("or", TRUE, {}, "args", "mock", <<Far>>),
         Rule("or", TRUE, {"s1"}, "args", "mock", <<Swap>>) >> }
=============================================================================
