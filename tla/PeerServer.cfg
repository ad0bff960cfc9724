\* Two listeners, one after the other, and two connections.
CONSTANTS
  MaxListeners = 2
  MaxHandlers = 2
  MaxThreads = 3
SPECIFICATION FairSpec
INVARIANT TypeOK
PROPERTIES HaltDeregisters  OldListenerCloses
CHECK_DEADLOCK FALSE
