-------------------------------- MODULE MCCloud --------------------------------
EXTENDS Cloud, TLC

\* The terminals are alike.
Symmetry == Permutations(Terminals)

\* What an ended command knew is never read again: the next one starts afresh.
View == <<aws, store, laptop, pc, torn, mixed, nCommands, nFaults,
          [t \in Terminals |-> IF pc[t] = "idle" THEN <<>> ELSE <<my[t], beside[t]>>]>>
===============================================================================
