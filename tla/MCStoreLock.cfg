CONSTANTS
  Threads = {t1, t2, t3, t4}
  MaxReaders = 4
SPECIFICATION FairSpec
INVARIANTS ReaderCountExact
PROPERTIES ImplementsRWLock NoReaderOvertakes WritersEnter
