SPECIFICATION FairSpec
CONSTANTS
  Threads = {t1, t2, t3}
  NoThread = NoThread
  Types = {1, 2}
  MaxDepth = 2
INVARIANTS TypeOK HolderIsOwner WaitersCounted NoLostWakeup
PROPERTIES SignalReaches RefinesAbstractMutex FreeMutexIsTaken
