------------------------- MODULE MCConditionScheduler -------------------------
EXTENDS ConditionScheduler, TLC
CONSTANTS c, s, e

\* a condition job that is scheduled twice
Twice == c :> 2 @@ s :> 1
Once == c :> 1 @@ e :> 1
===============================================================================
