-------------------------- MODULE StoreLockProofs ---------------------------
(***************************************************************************)
(* Proofs about the reader/writer spin lock, for any finite set of threads.*)
(***************************************************************************)
EXTENDS StoreLock, FiniteSetTheorems, TLAPS

\* The gate admits one writer, the flags of the word say where it is, and an
\* active writer found no reader.
GateInv ==
  /\ \A t, u \in AtGate : t = u
  /\ gate <=> AtGate # {}
  /\ word.pending <=> \E t \in Threads : pc[t] = "wcas"
  /\ word.active <=> \E t \in Threads : pc[t] = "writing"
  /\ word.active => word.readers = 0

IInv == TypeOK /\ ReaderCountExact /\ GateInv

\* The readers inside the lock are finitely many and no more than the
\* threads.
LEMMA ReadingFinite ==
  /\ IsFiniteSet(Reading)
  /\ Cardinality(Reading) \in Nat
  /\ Cardinality(Reading) <= MaxReaders
<1>1. IsFiniteSet(Threads) /\ Reading \subseteq Threads
  BY StoreLockAssumption DEF Reading
<1>2. IsFiniteSet(Reading) /\ Cardinality(Reading) <= Cardinality(Threads)
  BY <1>1, FS_Subset
<1>3. Cardinality(Reading) \in Nat /\ Cardinality(Threads) \in Nat
  BY <1>1, <1>2, FS_CardinalityType
<1>4. QED
  BY <1>2, <1>3, StoreLockAssumption

\* A reader that enters counts one more, one that leaves one less.
LEMMA ReaderEnters ==
  ASSUME NEW t \in Threads, t \notin Reading, Reading' = Reading \union {t}
  PROVE  /\ Cardinality(Reading') = Cardinality(Reading) + 1
         /\ Cardinality(Reading') <= MaxReaders
<1>1. Cardinality(Reading') = Cardinality(Reading) + 1
  BY ReadingFinite, FS_AddElement
<1>2. IsFiniteSet(Threads) /\ Reading' \subseteq Threads
  BY StoreLockAssumption DEF Reading
<1>3. Cardinality(Reading') <= Cardinality(Threads)
  BY <1>2, FS_Subset
<1>4. Cardinality(Threads) \in Nat /\ Cardinality(Reading) \in Nat
  BY <1>2, ReadingFinite, FS_CardinalityType
<1>5. QED
  BY <1>1, <1>3, <1>4, StoreLockAssumption

\* A reader that leaves lowers the number of readers by one.
LEMMA ReaderLeaves ==
  ASSUME NEW t \in Threads, t \in Reading, Reading' = Reading \ {t}
  PROVE  Cardinality(Reading') = Cardinality(Reading) - 1
BY ReadingFinite, FS_RemoveElement

\* The free lock is a lock word.
LEMMA FreeIsWord == Free \in Word
<1>1. 0 \in 0..MaxReaders
  BY StoreLockAssumption
<1>2. QED
  BY <1>1 DEF Free, Word

\* The inductive invariant holds initially.
LEMMA LockInit == Init => IInv
<1> SUFFICES ASSUME Init PROVE IInv
  OBVIOUS
<1>1. TypeOK
  BY FreeIsWord DEF Init, TypeOK
<1>2. Reading = {} /\ AtGate = {}
  BY DEF Init, Reading, AtGate
<1>3. ReaderCountExact
  BY <1>2, FS_EmptySet DEF Init, ReaderCountExact, Free
<1>4. GateInv
  BY <1>2 DEF Init, GateInv, Free
<1>5. QED
  BY <1>1, <1>3, <1>4 DEF IInv

\* Every step of store_read_lock, store_read_unlock, store_write_lock and
\* store_write_unlock keeps the inductive invariant.
LEMMA LockStep == IInv /\ [Next]_vars => IInv'
<1> SUFFICES ASSUME IInv, [Next]_vars PROVE IInv'
  OBVIOUS
<1> USE DEF IInv
<1>a. Cardinality(Reading) \in Nat /\ word.readers = Cardinality(Reading)
  BY ReadingFinite DEF ReaderCountExact
<1>u. CASE UNCHANGED vars
  BY <1>u DEF vars, TypeOK, ReaderCountExact, GateInv, Reading, AtGate
<1>1. ASSUME NEW t \in Threads, ReadLoad(t) PROVE IInv'
  <2>1. Reading' = Reading /\ AtGate' = AtGate
    BY <1>1 DEF ReadLoad, Goto, TypeOK, Reading, AtGate
  <2>2. TypeOK' /\ ReaderCountExact'
    BY <1>1, <2>1 DEF ReadLoad, Goto, TypeOK, ReaderCountExact
  <2>3. GateInv'
    BY <1>1, <2>1 DEF ReadLoad, Goto, TypeOK, GateInv
  <2>4. QED BY <2>2, <2>3
<1>2. ASSUME NEW t \in Threads, ReadWait(t) PROVE IInv'
  <2>1. Reading' = Reading /\ AtGate' = AtGate
    BY <1>2 DEF ReadWait, Goto, TypeOK, Reading, AtGate
  <2>2. TypeOK' /\ ReaderCountExact'
    BY <1>2, <2>1 DEF ReadWait, Goto, TypeOK, ReaderCountExact
  <2>3. GateInv'
    BY <1>2, <2>1 DEF ReadWait, Goto, TypeOK, GateInv
  <2>4. QED BY <2>2, <2>3
<1>3. ASSUME NEW t \in Threads, ReadCas(t) PROVE IInv'
  <2>1. CASE word = seen[t]
    <3>1. t \notin Reading /\ Reading' = Reading \union {t} /\ AtGate' = AtGate
      BY <1>3, <2>1 DEF ReadCas, TypeOK, Reading, AtGate
    <3>2. /\ Cardinality(Reading') = Cardinality(Reading) + 1
          /\ Cardinality(Reading') <= MaxReaders
      BY <3>1, ReaderEnters
    <3>3. word' = [word EXCEPT !.readers = @ + 1] /\ ~WriterIn(word)
      BY <1>3, <2>1 DEF ReadCas
    <3>4. word'.readers = word.readers + 1 /\ word' \in Word
      BY <3>2, <3>3, <1>a, StoreLockAssumption DEF TypeOK, Word
    <3>5. TypeOK' /\ ReaderCountExact'
      BY <1>3, <2>1, <3>2, <3>4, <1>a, FreeIsWord
      DEF ReadCas, TypeOK, ReaderCountExact
    <3>6. word'.pending = word.pending /\ word'.active = word.active
      BY <3>3 DEF TypeOK, Word
    <3>7. GateInv'
      BY <1>3, <2>1, <3>1, <3>3, <3>6 DEF ReadCas, TypeOK, GateInv, WriterIn
    <3>8. QED BY <3>5, <3>7
  <2>2. CASE word # seen[t]
    <3>1. Reading' = Reading /\ AtGate' = AtGate
      BY <1>3, <2>2 DEF ReadCas, TypeOK, Reading, AtGate
    <3>2. QED
      BY <1>3, <2>2, <3>1 DEF ReadCas, TypeOK, ReaderCountExact, GateInv
  <2>3. QED BY <2>1, <2>2
<1>4. ASSUME NEW t \in Threads, ReadUnlock(t) PROVE IInv'
  <2>1. t \in Reading /\ Reading' = Reading \ {t} /\ AtGate' = AtGate
    BY <1>4 DEF ReadUnlock, Goto, TypeOK, Reading, AtGate
  <2>2. Cardinality(Reading') = Cardinality(Reading) - 1
    BY <2>1, ReaderLeaves
  <2>3. Cardinality(Reading') \in Nat
    <3>1. IsFiniteSet(Reading') BY <2>1, ReadingFinite, FS_RemoveElement
    <3>2. QED BY <3>1, FS_CardinalityType
  <2>4. word' = [word EXCEPT !.readers = @ - 1]
    BY <1>4 DEF ReadUnlock
  <2>5. word'.readers = word.readers - 1 /\ word' \in Word
    BY <2>2, <2>3, <2>4, <1>a, StoreLockAssumption DEF TypeOK, Word
  <2>6. word'.pending = word.pending /\ word'.active = word.active
    BY <2>4 DEF TypeOK, Word
  <2>7. TypeOK' /\ ReaderCountExact'
    BY <1>4, <2>2, <2>5, <1>a DEF ReadUnlock, Goto, TypeOK, ReaderCountExact
  <2>8. word.readers > 0
    BY <2>2, <2>3, <1>a
  <2>9. GateInv'
    BY <1>4, <2>1, <2>6, <2>8 DEF ReadUnlock, Goto, TypeOK, GateInv
  <2>10. QED BY <2>7, <2>9
<1>5. ASSUME NEW t \in Threads, WriteCall(t) PROVE IInv'
  <2>1. Reading' = Reading /\ AtGate' = AtGate
    BY <1>5 DEF WriteCall, Goto, TypeOK, Reading, AtGate
  <2>2. TypeOK' /\ ReaderCountExact'
    BY <1>5, <2>1 DEF WriteCall, Goto, TypeOK, ReaderCountExact
  <2>3. GateInv'
    BY <1>5, <2>1 DEF WriteCall, Goto, TypeOK, GateInv
  <2>4. QED BY <2>2, <2>3
<1>6. ASSUME NEW t \in Threads, WriteGate(t) PROVE IInv'
  <2>1. Reading' = Reading /\ AtGate = {} /\ AtGate' = {t}
    BY <1>6 DEF WriteGate, Goto, TypeOK, Reading, AtGate, GateInv
  <2>2. TypeOK' /\ ReaderCountExact'
    BY <1>6, <2>1 DEF WriteGate, Goto, TypeOK, ReaderCountExact
  <2>3. GateInv'
    BY <1>6, <2>1 DEF WriteGate, Goto, TypeOK, GateInv
  <2>4. QED BY <2>2, <2>3
<1>7. ASSUME NEW t \in Threads, WritePend(t) PROVE IInv'
  <2>1. Reading' = Reading /\ AtGate' = AtGate /\ t \in AtGate
    BY <1>7 DEF WritePend, Goto, TypeOK, Reading, AtGate
  <2>2. TypeOK' /\ ReaderCountExact'
    BY <1>7, <2>1 DEF WritePend, Goto, TypeOK, ReaderCountExact, Word
  <2>3. GateInv'
    BY <1>7, <2>1 DEF WritePend, Goto, TypeOK, GateInv, Word
  <2>4. QED BY <2>2, <2>3
<1>8. ASSUME NEW t \in Threads, WriteCas(t) PROVE IInv'
  <2>1. Reading' = Reading /\ AtGate' = AtGate /\ t \in AtGate
    BY <1>8 DEF WriteCas, Goto, TypeOK, Reading, AtGate
  <2>2. TypeOK' /\ ReaderCountExact'
    BY <1>8, <2>1, StoreLockAssumption
    DEF WriteCas, Goto, TypeOK, ReaderCountExact, Word
  <2>3. \A u \in AtGate : u = t
    BY <2>1 DEF GateInv
  <2>4. GateInv'
    BY <1>8, <2>1, <2>3 DEF WriteCas, Goto, TypeOK, GateInv, Word, AtGate
  <2>5. QED BY <2>2, <2>4
<1>9. ASSUME NEW t \in Threads, WriteClear(t) PROVE IInv'
  <2>1. Reading' = Reading /\ AtGate' = AtGate /\ t \in AtGate
    BY <1>9 DEF WriteClear, Goto, TypeOK, Reading, AtGate
  <2>2. word.readers = 0
    BY <1>9 DEF WriteClear, Goto, GateInv
  <2>3. TypeOK' /\ ReaderCountExact'
    BY <1>9, <2>1, <2>2, <1>a, FreeIsWord
    DEF WriteClear, Goto, TypeOK, ReaderCountExact, Free
  <2>4. \A u \in AtGate : u = t
    BY <2>1 DEF GateInv
  <2>5. GateInv'
    BY <1>9, <2>1, <2>4 DEF WriteClear, Goto, TypeOK, GateInv, Word, Free, AtGate
  <2>6. QED BY <2>3, <2>5
<1>10. ASSUME NEW t \in Threads, WriteOpen(t) PROVE IInv'
  <2>1. t \in AtGate /\ \A u \in AtGate : u = t
    BY <1>10 DEF WriteOpen, Goto, AtGate, GateInv
  <2>2. Reading' = Reading /\ AtGate' = {}
    BY <1>10, <2>1 DEF WriteOpen, Goto, TypeOK, Reading, AtGate
  <2>3. TypeOK' /\ ReaderCountExact'
    BY <1>10, <2>2 DEF WriteOpen, Goto, TypeOK, ReaderCountExact
  <2>4. GateInv'
    BY <1>10, <2>1, <2>2 DEF WriteOpen, Goto, TypeOK, GateInv
  <2>5. QED BY <2>3, <2>4
<1>11. QED
  BY <1>u, <1>1, <1>2, <1>3, <1>4, <1>5, <1>6, <1>7, <1>8, <1>9, <1>10
  DEF Next, Step, Lock, Release

\* The inductive invariant holds in every reachable state.
THEOREM LockInvariant == Spec => []IInv
BY LockInit, LockStep, PTL DEF Spec

\* Type correctness of the reader/writer lock.
THEOREM LockTypeCorrect == Spec => []TypeOK
<1>1. IInv => TypeOK
  BY DEF IInv
<1>2. QED BY <1>1, LockInvariant, PTL

\* The word counts the readers that are inside, whatever the interleaving
\* of compare-and-exchange loops, flags and plain stores.
THEOREM LockCountsReaders == Spec => []ReaderCountExact
<1>1. IInv => ReaderCountExact
  BY DEF IInv
<1>2. QED BY <1>1, LockInvariant, PTL

\* The inductive invariant implies that a writer is alone.
LEMMA IInvWriterAlone == IInv => WriterAlone
<1> SUFFICES ASSUME IInv, NEW t \in Writing
             PROVE Writing = {t} /\ Reading = {} /\ word.active
  BY DEF WriterAlone
<1>1. word.active /\ word.readers = 0
  BY DEF IInv, GateInv, Writing
<1>2. Reading = {}
  BY <1>1, ReadingFinite, FS_EmptySet DEF IInv, ReaderCountExact
<1>3. Writing = {t}
  BY DEF IInv, GateInv, Writing, AtGate
<1>4. QED BY <1>1, <1>2, <1>3

\* A writer of the store excludes every reader and every other writer.
THEOREM LockExcludes == Spec => []WriterAlone
BY LockInvariant, IInvWriterAlone, PTL

-----------------------------------------------------------------------------
(* The detailed lock implements the abstract one: taking effect at the     *)
(* successful compare-and-exchange, released at the store to the word.     *)

\* Every step of the spin lock is a step of RWLock or leaves its variables
\* alone.
LEMMA LockAbstractStep ==
  IInv /\ IInv' /\ [Next]_vars => [Abstract!RWNext]_(Abstract!rwVars)
<1> SUFFICES ASSUME IInv, IInv', [Next]_vars
             PROVE  [Abstract!RWNext]_(Abstract!rwVars)
  OBVIOUS
<1> DEFINE Same == Reading' = Reading /\ Writing' = Writing
<1>s. Same => [Abstract!RWNext]_(Abstract!rwVars)
  BY DEF Abstract!rwVars
<1>w. WriterAlone /\ WriterAlone'
  <2>1. WriterAlone
    BY IInvWriterAlone
  <2>2. WriterAlone'
    BY IInvWriterAlone, PTL
  <2>3. QED BY <2>1, <2>2
<1>t. pc \in [Threads -> {"idle", "rcas", "reading", "wgate", "wpend", "wcas",
                          "writing", "wopen"}]
  BY DEF IInv, TypeOK
<1>u. CASE UNCHANGED vars
  BY <1>u, <1>s DEF vars, Reading, Writing
<1>1. ASSUME NEW t \in Threads, ReadCas(t), word = seen[t]
      PROVE  Abstract!AcquireRead(t)
  <2>1. ~word.active
    BY <1>1 DEF ReadCas, WriterIn
  <2>2. Writing = {}
    BY <2>1, <1>w DEF WriterAlone
  <2>3. t \notin Reading /\ Reading' = Reading \union {t} /\ Writing' = Writing
    BY <1>1, <1>t DEF ReadCas, Reading, Writing
  <2>4. QED BY <2>2, <2>3 DEF Abstract!AcquireRead
<1>2. ASSUME NEW t \in Threads, ReadUnlock(t)
      PROVE  Abstract!ReleaseRead(t)
  <2>1. t \in Reading /\ Reading' = Reading \ {t} /\ Writing' = Writing
    BY <1>2, <1>t DEF ReadUnlock, Goto, Reading, Writing
  <2>2. QED BY <2>1 DEF Abstract!ReleaseRead
<1>3. ASSUME NEW t \in Threads, WriteCas(t)
      PROVE  Abstract!AcquireWrite(t)
  <2>1. t \in Writing' /\ t \notin Writing /\ Reading' = Reading
        /\ Writing' = Writing \union {t}
    BY <1>3, <1>t DEF WriteCas, Goto, Reading, Writing
  <2>2. Writing' = {t} /\ Reading' = {}
    BY <2>1, <1>w DEF WriterAlone
  <2>3. QED BY <2>1, <2>2 DEF Abstract!AcquireWrite
<1>4. ASSUME NEW t \in Threads, WriteClear(t)
      PROVE  Abstract!ReleaseWrite(t)
  <2>1. t \in Writing /\ Writing' = Writing \ {t} /\ Reading' = Reading
    BY <1>4, <1>t DEF WriteClear, Goto, Reading, Writing
  <2>2. QED BY <2>1 DEF Abstract!ReleaseWrite
<1>5. ASSUME NEW t \in Threads,
             \/ ReadLoad(t) \/ ReadWait(t) \/ WriteCall(t) \/ WriteGate(t)
             \/ WritePend(t) \/ WriteOpen(t) \/ (ReadCas(t) /\ word # seen[t])
      PROVE  Same
  BY <1>5, <1>t DEF ReadLoad, ReadWait, WriteCall, WriteGate, WritePend,
                    WriteOpen, ReadCas, Goto, Reading, Writing
<1>6. ASSUME NEW t \in Threads, Step(t)
      PROVE  Abstract!RWNext \/ Same
  <2> HIDE DEF Same
  <2>1. CASE ReadCas(t) /\ word = seen[t]
    BY <2>1, <1>1 DEF Abstract!RWNext
  <2>2. CASE ReadUnlock(t)
    BY <2>2, <1>2 DEF Abstract!RWNext
  <2>3. CASE WriteCas(t)
    BY <2>3, <1>3 DEF Abstract!RWNext
  <2>4. CASE WriteClear(t)
    BY <2>4, <1>4 DEF Abstract!RWNext
  <2>5. CASE \/ ReadLoad(t) \/ ReadWait(t) \/ WriteCall(t) \/ WriteGate(t)
             \/ WritePend(t) \/ WriteOpen(t) \/ (ReadCas(t) /\ word # seen[t])
    <3>1. Same
      BY <2>5, <1>5
    <3>2. QED BY <3>1
  <2>6. QED
    BY <1>6, <2>1, <2>2, <2>3, <2>4, <2>5 DEF Step, Lock, Release
<1>7. CASE Next
  <2>1. PICK t \in Threads : Step(t)
    BY <1>7 DEF Next
  <2> HIDE DEF Same
  <2>2. QED
    BY <2>1, <1>6, <1>s
<1>8. QED
  BY <1>u, <1>7

\* The spin lock implements the abstract reader/writer lock.
THEOREM LockImplements == Spec => ImplementsRWLock
<1>1. Init => Abstract!RWInit
  BY DEF Init, Abstract!RWInit, Reading, Writing
<1>2. QED
  BY <1>1, LockAbstractStep, LockInvariant, PTL
  DEF Spec, ImplementsRWLock, Abstract!RWSpec

\* A pending writer keeps new readers out.
THEOREM LockNoOvertaking == Spec => NoReaderOvertakes
<1>1. IInv /\ [Next]_vars =>
        [\A t \in Threads :
           word.pending /\ pc[t] # "reading" => pc'[t] # "reading"]_vars
  <2> SUFFICES ASSUME IInv, [Next]_vars, NEW t \in Threads,
                      word.pending, pc[t] # "reading", ~UNCHANGED vars
               PROVE  pc'[t] # "reading"
    BY DEF vars
  <2>1. PICK u \in Threads : Step(u)
    BY DEF Next
  <2>2. CASE ReadCas(u)
    <3>1. word # seen[u]
      BY <2>2 DEF ReadCas, WriterIn
    <3>2. QED BY <2>2, <3>1 DEF ReadCas
  <2>3. CASE ~ReadCas(u)
    BY <2>1, <2>3 DEF Step, Lock, Release, ReadLoad, ReadWait, ReadUnlock,
       WriteCall, WriteGate, WritePend, WriteCas, WriteClear, WriteOpen, Goto,
       IInv, TypeOK
  <2>4. QED BY <2>2, <2>3
<1>2. QED
  BY <1>1, LockInvariant, PTL DEF Spec, NoReaderOvertakes
=============================================================================
