------------------------------ MODULE MCBudget ------------------------------
(* Days of two units, a period of a day and one that never ends.           *)
EXTENDS Budget, TLC

MCLengthOf == [DAILY |-> 2, ONE_TIME |-> 100]
MCRates == {<<1, 2>>}
SpendersAreAlike == Permutations(Spenders)
=============================================================================
