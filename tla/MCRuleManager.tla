---------------------------- MODULE MCRuleManager ----------------------------
(* Instances of RuleManager for TLC.                                       *)
EXTENDS RuleManager

CONSTANTS p1, p2, r1, r2

Rule(k, g, i, s, q) == [key |-> k, group |-> g, id |-> i, shape |-> s, queue |-> q]

ruleA == Rule(1, "own", 1, "plain", 2)
ruleB == Rule(2, "own", 2, "plain", 1)
ruleE == Rule(1, "own", 3, "plain", 2)      \* A but for its identifier
ruleD == Rule(4, "resource", 4, "plain", 0)
ruleC == Rule(5, "own", 5, "custom", 0)
ruleX == Rule(6, "own", 6, "invalid", 0)
ruleY == Rule(7, "own", 7, "foreign", 0)
ruleZ == Rule(8, "own", 8, "nil", 0)

WholeLists == { <<>>, <<ruleA>>, <<ruleB, ruleA>>, <<ruleE>>, <<ruleD, ruleX>>,
                <<ruleC, ruleA>> }
WholesOf2  == {r1 :> l @@ r2 :> m : l \in WholeLists, m \in {<<>>, <<ruleA>>}}
ListsOfOne == { <<>>, <<ruleA, ruleB>>, <<ruleB>>, <<ruleX, ruleA>>,
                <<ruleY, ruleE>>, <<ruleZ, ruleA>> }

=============================================================================
