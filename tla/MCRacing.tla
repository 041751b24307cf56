------------------------------ MODULE MCRacing ------------------------------
(* Racing with combos of each strategy over one to three targets; the size *)
(* of a race is below, equal to and above the number of its targets.       *)
EXTENDS Racing

CONSTANTS t1, t2, t3

Make(strategy, targets) == [strategy |-> strategy, targets |-> targets, size |-> 2]

AllStrategies ==
    {Make("strict", <<t1, t2>>), Make("round_robin", <<t1, t2>>), Make("least_used", <<t1, t2, t3>>),
     Make("race", <<t1>>), Make("race", <<t1, t2, t3>>),
     [Make("race", <<t1, t2>>) EXCEPT !.size = 3], [Make("race", <<t1, t2, t3>>) EXCEPT !.size = 3]}

SomeUsages == {[t \in Targets |-> 0], [t \in Targets |-> IF t = t1 THEN 2 ELSE 1]}
=============================================================================
