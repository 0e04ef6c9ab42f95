----------------------------- MODULE MCFlowTokens -----------------------------
(* Instances of FlowTokens.tla: one rule of every kind.                     *)
EXTENDS FlowTokens, TLC

CONSTANTS c1, c2, h1, h2

MCCallers == {c1, c2}
MCHandlers == {h1, h2}
\* Nothing tells one goroutine from another, and no property is temporal.
MCSymmetry == Permutations(MCCallers) \cup Permutations(MCHandlers)

Local0 == [cluster |-> FALSE, strategy |-> "none", server |-> "none", metric |-> FALSE,
           fallback |-> FALSE, behavior |-> "none", globalThreshold |-> 0, interval |-> 1,
           maxQueueing |-> 0, clientMaxQps |-> 0, maxAllowQps |-> 0, calc |-> "direct",
           ref |-> "same", threshold |-> 1, period |-> 1, cold |-> 3,
           low |-> 3, high |-> 1, lowMark |-> 1, highMark |-> 4]
Cluster == [Local0 EXCEPT !.cluster = TRUE, !.strategy = "global", !.server = "http",
            !.metric = TRUE, !.fallback = TRUE, !.behavior = "reject", !.globalThreshold = 1,
            !.clientMaxQps = 2, !.maxAllowQps = 3]

MCRules ==
    {[Local0 EXCEPT !.calc = "warmup", !.threshold = 4],
     [Local0 EXCEPT !.calc = "warmup", !.threshold = 1, !.cold = 0],
     [Local0 EXCEPT !.calc = "memory"],
     [Local0 EXCEPT !.ref = "unknown"],
     Cluster,
     [Cluster EXCEPT !.server = "self", !.behavior = "throttling", !.threshold = 2,
                       !.maxQueueing = 1, !.fallback = FALSE],
     [Cluster EXCEPT !.server = "http", !.fallback = FALSE, !.clientMaxQps = 1, !.maxAllowQps = 1],
     [Cluster EXCEPT !.server = "none"],
     [Cluster EXCEPT !.server = "self", !.metric = FALSE],
     [Cluster EXCEPT !.strategy = "redis", !.clientMaxQps = 3]}
===============================================================================
