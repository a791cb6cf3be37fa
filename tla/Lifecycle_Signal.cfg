SPECIFICATION FairSpec
CONSTANTS
  MaxSignals = 1
PROPERTIES
  SignalShutsDown
