----------------------------- MODULE StoreLock ------------------------------
(***************************************************************************)
(* The reader/writer spin lock of an InfoStore (src/info_store.c,          *)
(* store_read_lock to store_write_unlock).                                 *)
(*                                                                         *)
(* The word info_store->synchronization holds the number of readers and    *)
(* the two flags STORE_WRITER_PENDING and STORE_WRITER_ACTIVE; it is       *)
(* modelled as a record of the three.  The byte writer_gate admits one     *)
(* writer at a time to the word.  A writer releases with a plain store of  *)
(* zero, which would forget any reader counted in the word.                *)
(***************************************************************************)
EXTENDS Integers, FiniteSets

CONSTANTS
  Threads,
  MaxReaders   \* bound on the reader count (below the flag bits)

ASSUME StoreLockAssumption ==
  /\ IsFiniteSet(Threads)
  /\ MaxReaders \in Nat /\ Cardinality(Threads) <= MaxReaders

VARIABLES
  word,    \* synchronization
  gate,    \* writer_gate # 0
  pc,      \* thread |-> control point
  seen     \* thread |-> the word it loaded last (state in store_read_lock)

vars == <<word, gate, pc, seen>>

Word == [readers : 0..MaxReaders, pending : BOOLEAN, active : BOOLEAN]
Free == [readers |-> 0, pending |-> FALSE, active |-> FALSE]

\* A mutant: a pending writer does not stop readers.
ActiveWriterIn(w) == w.active

\* (state & STORE_WRITER_MASK) != 0
WriterIn(w) == w.pending \/ w.active

Init ==
  /\ word = Free
  /\ gate = FALSE
  /\ pc = [t \in Threads |-> "idle"]
  /\ seen = [t \in Threads |-> Free]

Goto(t, from, to) ==
  /\ pc[t] = from
  /\ pc' = [pc EXCEPT ![t] = to]

-----------------------------------------------------------------------------
(* store_read_lock and store_read_unlock.                                  *)

\* The first load of the word.
ReadLoad(t) ==
  /\ Goto(t, "idle", "rcas")
  /\ seen' = [seen EXCEPT ![t] = word]
  /\ UNCHANGED <<word, gate>>

\* A writer was pending or active in the last load: load again.
ReadWait(t) ==
  /\ Goto(t, "rcas", "rcas")
  /\ WriterIn(seen[t])
  /\ seen' = [seen EXCEPT ![t] = word]
  /\ UNCHANGED <<word, gate>>

\* The compare-and-exchange: it counts the reader if the word is still the
\* one loaded, and loads it again otherwise.
ReadCas(t) ==
  /\ pc[t] = "rcas"
  /\ ~WriterIn(seen[t])
  /\ IF word = seen[t]
     THEN /\ word' = [word EXCEPT !.readers = @ + 1]
          /\ pc' = [pc EXCEPT ![t] = "reading"]
          /\ seen' = [seen EXCEPT ![t] = Free]
     ELSE /\ seen' = [seen EXCEPT ![t] = word]
          /\ UNCHANGED <<word, pc>>
  /\ UNCHANGED gate

ReadUnlock(t) ==
  /\ Goto(t, "reading", "idle")
  /\ word' = [word EXCEPT !.readers = @ - 1]
  /\ UNCHANGED <<gate, seen>>

-----------------------------------------------------------------------------
(* store_write_lock and store_write_unlock.                                *)

\* The gate's compare-and-exchange loop.
WriteCall(t) ==
  /\ Goto(t, "idle", "wgate")
  /\ UNCHANGED <<word, gate, seen>>

WriteGate(t) ==
  /\ Goto(t, "wgate", "wpend")
  /\ ~gate
  /\ gate' = TRUE
  /\ UNCHANGED <<word, seen>>

\* A mutant: a store in place of the fetch_or.
WritePendStored(t) ==
  /\ Goto(t, "wpend", "wcas")
  /\ word' = [Free EXCEPT !.pending = TRUE]
  /\ UNCHANGED <<gate, seen>>

\* fetch_or of STORE_WRITER_PENDING: readers that come later wait.
WritePend(t) ==
  /\ Goto(t, "wpend", "wcas")
  /\ word' = [word EXCEPT !.pending = TRUE]
  /\ UNCHANGED <<gate, seen>>

\* A mutant: readers inside are not waited for.
WriteCasAmongReaders(t) ==
  /\ Goto(t, "wcas", "writing")
  /\ word.pending /\ ~word.active
  /\ word' = [word EXCEPT !.pending = FALSE, !.active = TRUE]
  /\ UNCHANGED <<gate, seen>>

\* A mutant: the exchange expects a free word, which PENDING never is.
WriteCasFromFree(t) ==
  IF word = Free
  THEN /\ Goto(t, "wcas", "writing")
       /\ word' = [Free EXCEPT !.active = TRUE]
       /\ UNCHANGED <<gate, seen>>
  ELSE Goto(t, "wcas", "wcas") /\ UNCHANGED <<word, gate, seen>>

\* The exchange of exactly PENDING, that is no reader left, for ACTIVE.
WriteCas(t) ==
  /\ Goto(t, "wcas", "writing")
  /\ word = [readers |-> 0, pending |-> TRUE, active |-> FALSE]
  /\ word' = [readers |-> 0, pending |-> FALSE, active |-> TRUE]
  /\ UNCHANGED <<gate, seen>>

\* The word is cleared first, the gate second.
WriteClear(t) ==
  /\ Goto(t, "writing", "wopen")
  /\ word' = Free
  /\ UNCHANGED <<gate, seen>>

WriteOpen(t) ==
  /\ Goto(t, "wopen", "idle")
  /\ gate' = FALSE
  /\ UNCHANGED <<word, seen>>

\* The steps a thread takes once it has called lock or unlock; how long it
\* keeps the lock, and whether it calls again, is up to the caller.
Lock(t) == ReadWait(t) \/ ReadCas(t) \/ WriteGate(t) \/ WritePend(t) \/ WriteCas(t)
Release(t) == ReadUnlock(t) \/ WriteClear(t) \/ WriteOpen(t)

Step(t) == ReadLoad(t) \/ WriteCall(t) \/ Lock(t) \/ Release(t)

Next == \E t \in Threads : Step(t)

Spec == Init /\ [][Next]_vars

\* A thread inside lock or unlock keeps running, and a critical section
\* ends: every one in info_store.c is a bounded piece of code.
FairSpec ==
  /\ Spec
  /\ \A t \in Threads : WF_vars(Lock(t)) /\ WF_vars(Release(t))

-----------------------------------------------------------------------------
Reading == {t \in Threads : pc[t] = "reading"}
Writing == {t \in Threads : pc[t] = "writing"}
AtGate  == {t \in Threads : pc[t] \in {"wpend", "wcas", "writing", "wopen"}}

\* Type correctness.
TypeOK ==
  /\ word \in Word
  /\ gate \in BOOLEAN
  /\ pc \in [Threads -> {"idle", "rcas", "reading", "wgate", "wpend", "wcas",
                         "writing", "wopen"}]
  /\ seen \in [Threads -> Word]

\* The count in the word is the number of readers that are inside: the
\* store of zero in store_write_unlock never forgets a reader, and
\* store_read_unlock never borrows from the flag bits.
ReaderCountExact == word.readers = Cardinality(Reading)

\* A writer is alone.
WriterAlone ==
  \A t \in Writing : Writing = {t} /\ Reading = {} /\ word.active

\* The detailed lock implements the abstract one.
Abstract == INSTANCE RWLock WITH reading <- Reading, writing <- Writing
ImplementsRWLock == Abstract!RWSpec

\* Once STORE_WRITER_PENDING is set no other reader gets in before the
\* writer has been through.
NoReaderOvertakes ==
  [][\A t \in Threads : word.pending /\ pc[t] # "reading" => pc'[t] # "reading"]_vars

\* The writer that has the gate gets the lock although readers keep coming; the
\* gate itself is not fair, but some waiting writer always gets in.
WritersEnter ==
  /\ \A t \in Threads : pc[t] = "wpend" ~> pc[t] = "writing"
  /\ (\E t \in Threads : pc[t] = "wgate") ~> (\E t \in Threads : pc[t] = "writing")
=============================================================================
