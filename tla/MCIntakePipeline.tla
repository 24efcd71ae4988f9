--------------------------- MODULE MCIntakePipeline ---------------------------
EXTENDS IntakePipeline, TLC
\* Requests are interchangeable.
Symmetry == Permutations(Request)
\* What a behaviour may hold: several people at once, a fault beside two of
\* them, an attacked plan beside two of them, or any findings beside one.
Crowd    == [requests |-> 3, faults |-> 0, snags |-> 0, tiers |-> {1}]
Faulty   == [requests |-> 2, faults |-> 1, snags |-> 0, tiers |-> {1}]
Attacked == [requests |-> 2, faults |-> 0, snags |-> 1, tiers |-> {2}]
Alone    == [requests |-> 1, faults |-> 0, snags |-> Endless, tiers |-> {0, 2}]
MCBudgets == {Crowd, Faulty, Attacked, Alone}
=============================================================================
