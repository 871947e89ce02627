---------------------------- MODULE MCEventMonitor ----------------------------
EXTENDS EventMonitor, TLC
CONSTANTS k1, r1, r2

\* two requests for the same event
OneEvent == r1 :> k1 @@ r2 :> k1
OneRequest == r1 :> k1

Perms == Permutations({r1, r2})
===============================================================================
