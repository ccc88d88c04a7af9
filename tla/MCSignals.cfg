SPECIFICATION FairSpec
CONSTANTS
  Runs = 3
  Chunks = 2
  MaxFaults = 2
INVARIANT NoSilentFallback
PROPERTIES KeepsContract SignalAnswersAgain
