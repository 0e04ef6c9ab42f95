----------------------------- MODULE MCClientCall -----------------------------
(* Instances of ClientCall.tla: rules of every kind, few of each.          *)
EXTENDS ClientCall

MCResource == <<"order", "Api", "Get">>
Gray2 == <<"gray", "Api", "Get">>

MCNodesOf == (<<"order">> :> <<"n1", "n2">>) @@ (<<"gray">> :> <<"g1", "g2">>)

MCRequests ==
    {[from |-> "shop", md |-> "tag" :> "blue", args |-> "id" :> "10"],
     [from |-> "shop", md |-> <<>>, args |-> "id" :> "9"]}
MCStringOrder == <<"", "10", "9", "blue">>
MCNumberOf == ("10" :> 10) @@ ("9" :> 9)

Gray0 == [strategy |-> "tag", limitApp |-> {}, force |-> FALSE, white |-> <<>>,
          linkPass |-> FALSE, targets |-> <<>>]
To(resource, effective) == [resource |-> resource, effective |-> effective]
Tag(k, v, t) == [key |-> k, value |-> v] @@ t
If(all, params, t) == [all |-> all, params |-> params] @@ t
Weight(w, t) == [weight |-> w] @@ t
Param(kind, key, op, values) == [kind |-> kind, key |-> key, op |-> op, values |-> values]

NoRules == <<>>
\* a tag passed on, addresses in both lists, and a rule of another caller
ByTag == MCResource :>
    <<[Gray0 EXCEPT !.limitApp = {"bank"}, !.force = TRUE],
      [Gray0 EXCEPT !.targets = <<Tag("tag", "blue", To(Gray2, <<"g1", "g2">>))>>,
                    !.white = <<"g2", "g1">>, !.linkPass = TRUE]>>
\* two patterns of which the longer counts; one target's addresses are not white
ByCondition ==
    (<<"*">> :> <<[Gray0 EXCEPT !.linkPass = TRUE]>>)
    @@ (<<"order", "*">> :>
        <<[Gray0 EXCEPT !.strategy = "condition", !.white = <<"n1">>,
             !.targets = <<If(TRUE, {Param("parameter", "id", ">", {"10"}),
                                     Param("metadata", "tag", "in", {"", "blue"})}, To(Gray2, <<"g1">>)),
                           If(FALSE, {Param("parameter", "id", "mod 100", {"10"}),
                                      Param("cookie", "id", "=", {"1"})}, To(<<"order", "*">>, <<"n1">>))>>]>>)
\* shares of the traffic, the second to a pattern inside the name; a share below one
ByWeight == MCResource :>
    <<[Gray0 EXCEPT !.strategy = "weight",
         !.targets = <<Weight(50, To(Gray2, <<>>)), Weight(150, To(<<"order", "*", "Get">>, <<>>))>>]>>
BelowOne == MCResource :> <<[Gray0 EXCEPT !.strategy = "weight", !.targets = <<Weight(50, To(Gray2, <<>>))>>]>>

W(type, node, weight) == [service |-> <<"order">>, type |-> type, node |-> node, weight |-> weight]
Drains1 == <<W("server", "n1", 3), W("client", "n1", 0), W("server", "n1", 2)>>
DrainsAll == <<W("client", "n1", 0), W("client", "n2", 0)>>
MCWeightLists ==
    {<<>>, Drains1, DrainsAll,
     <<W("client", "n1", 0), W("client", "n2", 1), W("client", "n2", -1), Nil>>,
     <<W("client", "n1", 0), W("server", "n2", 8), W("neither", "n1", 1)>>,
     <<W("server", "n1", 8), W("client", "n2", 7)>>}

None0 == [kind |-> "none"]
Retry0 == [resource |-> MCResource, policy |-> "max", max |-> 2, timeout |-> 0, backoff |-> None0,
           include |-> {}, exclude |-> {}, equal |-> {}, matchAny |-> FALSE, items |-> FALSE]
Twice == <<Retry0>>
Items == <<[Retry0 EXCEPT !.max = 1, !.items = TRUE, !.backoff = [kind |-> "fixed", period |-> 1]]>>
Simple == <<[Retry0 EXCEPT !.policy = "simple", !.exclude = {"micro", "other"}, !.equal = {"other"}]>>
Timed3 == <<[Retry0 EXCEPT !.policy = "timeout", !.timeout = 3, !.items = TRUE,
               !.backoff = [kind |-> "exponential random", initial |-> 0, multiplier |-> 2, maxInterval |-> 2]]>>
TimedDefault == <<[Retry0 EXCEPT !.policy = "timeout", !.backoff = [kind |-> "fixed", period |-> 2]]>>
Included == <<[Retry0 EXCEPT !.policy = "always", !.include = {"timeout", "item"}, !.items = TRUE,
                 !.backoff = [kind |-> "uniform", min |-> 2, max |-> 1]]>>
Always == <<[Retry0 EXCEPT !.policy = "always", !.exclude = {"timeout"}, !.matchAny = TRUE]>>
Never == <<[Retry0 EXCEPT !.policy = "never"]>>
MCRetryLists ==
    {<<>>, Twice, Items, Simple, Timed3, TimedDefault, Included, Always, Never,
     <<[Retry0 EXCEPT !.include = {"micro"}, !.exclude = {"other"}]>>,
     <<[Retry0 EXCEPT !.resource = <<>>], Retry0>>,
     <<Nil, Retry0>>}

Setup(g, w, r) == [gray |-> g, weights |-> w, retry |-> r]
MCSetups ==
    {Setup(NoRules, Drains1, r) : r \in {<<>>, Twice, Timed3, Included}}
    \cup {Setup(g, <<>>, r) : g \in {ByTag, ByCondition}, r \in {<<>>, Items}}
    \cup {Setup(ByWeight, Drains1, Simple), Setup(BelowOne, DrainsAll, Always)}
===============================================================================
