------------------------------- MODULE RWLock -------------------------------
(***************************************************************************)
(* What the reader/writer lock of an InfoStore promises: any number of     *)
(* readers or one writer.  SharedStore is written against these            *)
(* operators; StoreLock shows that the spin lock of src/info_store.c       *)
(* implements them.                                                        *)
(***************************************************************************)
CONSTANT Threads

VARIABLES
  reading,   \* the threads that hold the lock for reading
  writing    \* the threads that hold it for writing

rwVars == <<reading, writing>>

RWInit == reading = {} /\ writing = {}

AcquireRead(t) ==
  /\ writing = {} /\ t \notin reading
  /\ reading' = reading \union {t}
  /\ UNCHANGED writing

ReleaseRead(t) ==
  /\ t \in reading
  /\ reading' = reading \ {t}
  /\ UNCHANGED writing

AcquireWrite(t) ==
  /\ reading = {} /\ writing = {}
  /\ writing' = {t}
  /\ UNCHANGED reading

ReleaseWrite(t) ==
  /\ t \in writing
  /\ writing' = writing \ {t}
  /\ UNCHANGED reading

RWNext ==
  \E t \in Threads :
    AcquireRead(t) \/ ReleaseRead(t) \/ AcquireWrite(t) \/ ReleaseWrite(t)

RWSpec == RWInit /\ [][RWNext]_rwVars
=============================================================================
