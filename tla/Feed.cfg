CONSTANTS
  Terminals = 2
  MaxWorkers = 2
  MaxEvents = 2
  MaxRequests = 2
SPECIFICATION Spec
INVARIANT TypeOK
INVARIANT TailFaithful
 
PROPERTY RestartThenTail
