------------------------------ MODULE InfoNode ------------------------------
(***************************************************************************)
(* One information node of src/info_node.c: the lock byte, the regret      *)
(* snapshot version (a seqlock), the two accumulator arrays, and the       *)
(* lock-free reader cfr_info_node_current_strategy_concurrent.             *)
(*                                                                         *)
(* Numbers.  An accumulator is an integer; a double is finite when its     *)
(* magnitude is at most MaxFinite, so an addition can leave the finite     *)
(* range the way a double overflows to infinity.  The version is an        *)
(* unsigned int that wraps at VersionModulus (2^32 in the build).          *)
(*                                                                         *)
(* Memory order.  The regret stores of one update are relaxed, and so are  *)
(* the loads of one snapshot: both happen here one element at a time and   *)
(* in any order.  The release fence after the odd version, the release     *)
(* store of the even one, the acquire load of the first version and the    *)
(* fence before the second keep them between the two version accesses,     *)
(* which is what the order of the actions says.                            *)
(***************************************************************************)
EXTENDS Integers, FiniteSets

CONSTANTS
  Nodes,           \* the information nodes (their addresses)
  Actions,         \* the action indices 0..action_count-1 of a node
  Writers,         \* threads that take node locks
  Readers,         \* threads that read a strategy without a lock
  NoThread,        \* the owner of a free lock
  MaxFinite,       \* largest finite magnitude of an accumulator
  VersionModulus,  \* number of values of the snapshot version
  MaxReads         \* bound: lock-free reads started by one reader

ASSUME InfoNodeAssumption ==
  /\ NoThread \notin Writers
  /\ IsFiniteSet(Actions) /\ Actions # {}
  /\ MaxFinite \in Nat /\ MaxReads \in Nat
  /\ VersionModulus \in Nat /\ VersionModulus > 0 /\ VersionModulus % 2 = 0

VARIABLES
  lock,      \* node |-> its owner (synchronization # 0) or NoThread
  version,   \* node |-> the snapshot version
  regret,    \* node |-> regret_sums
  strategy   \* node |-> strategy_sums

VARIABLES
  rpc,       \* reader |-> control point of the snapshot loop
  rnode,     \* reader |-> the node it reads
  rversion,  \* reader |-> the version loaded first
  rtodo,     \* reader |-> regrets not yet loaded
  snap,      \* reader |-> the regrets loaded into strategy_array
  moved,     \* reader |-> history: version steps of rnode since the first
             \*            load, counted up to VersionModulus
  reads,     \* reader |-> lock-free reads started
  answer     \* thread |-> history: what its last strategy query returned

nodeVars   == <<lock, version, regret, strategy>>
readerVars == <<rpc, rnode, rversion, rtodo, snap, reads>>

Finite(x) == -MaxFinite <= x /\ x <= MaxFinite

Zero == [a \in Actions |-> 0]

\* Regret matching keeps the positive regrets and normalises them; no
\* positive regret means the uniform strategy.  The strategy is therefore a
\* function of the positive part, which stands for it.
PositivePart(v) == [a \in Actions |-> IF v[a] > 0 THEN v[a] ELSE 0]

NoAnswer == [node |-> NoThread, current |-> Zero]

InfoNodeInit ==
  /\ lock     = [n \in Nodes |-> NoThread]
  /\ version  = [n \in Nodes |-> 0]
  /\ regret   = [n \in Nodes |-> Zero]
  /\ strategy = [n \in Nodes |-> Zero]

ReaderInit ==
  /\ rpc \in [Readers -> {"idle"}]
  /\ rnode \in [Readers -> {CHOOSE n \in Nodes : TRUE}]
  /\ rversion = [r \in Readers |-> 0]
  /\ rtodo    = [r \in Readers |-> {}]
  /\ snap     = [r \in Readers |-> Zero]
  /\ moved    = [r \in Readers |-> 0]
  /\ reads    = [r \in Readers |-> 0]
  /\ answer   = [x \in Readers \union Writers |-> NoAnswer]

-----------------------------------------------------------------------------
(* The lock byte.  TryLock is the compare-and-exchange of both             *)
(* cfr_info_node_lock, which repeats it, and cfr_info_node_try_lock.       *)

TryLock(n, t) ==
  /\ lock[n] = NoThread
  /\ lock' = [lock EXCEPT ![n] = t]

Unlock(n) == lock' = [lock EXCEPT ![n] = NoThread]

(* The snapshot version.  Every reader that is between its two version     *)
(* loads of this node records that the version moved.                      *)

BumpVersion(n) ==
  /\ version' = [version EXCEPT ![n] =
                   IF @ + 1 = VersionModulus THEN 0 ELSE @ + 1]
  /\ moved' = [r \in Readers |->
                 IF /\ rnode[r] = n /\ rpc[r] \in {"load", "check"}
                    /\ moved[r] < VersionModulus
                 THEN moved[r] + 1 ELSE moved[r]]

\* A mutant: the version does not become odd.
BeginUnmarked(n) == UNCHANGED <<version, moved>>

BeginUpdate(n) == BumpVersion(n)

EndUpdate(n) == BumpVersion(n)

StoreRegret(n, a, value) == regret' = [regret EXCEPT ![n][a] = value]

-----------------------------------------------------------------------------
(* cfr_info_node_current_strategy_concurrent.                              *)

\* The call.
ReadStart(r) ==
  /\ rpc[r] = "idle"
  /\ reads[r] < MaxReads
  /\ \E n \in Nodes : rnode' = [rnode EXCEPT ![r] = n]
  /\ reads' = [reads EXCEPT ![r] = @ + 1]
  /\ rpc' = [rpc EXCEPT ![r] = "version"]
  /\ UNCHANGED <<rversion, rtodo, snap, moved, answer>>

\* The first version load; an odd version makes the reader spin.
ReadVersion(r) ==
  /\ rpc[r] = "version"
  /\ version[rnode[r]] % 2 = 0
  /\ rversion' = [rversion EXCEPT ![r] = version[rnode[r]]]
  /\ moved' = [moved EXCEPT ![r] = 0]
  /\ rtodo' = [rtodo EXCEPT ![r] = Actions]
  /\ rpc' = [rpc EXCEPT ![r] = "load"]
  /\ UNCHANGED <<rnode, snap, reads, answer>>

\* One relaxed load of a regret.
ReadRegret(r) ==
  /\ rpc[r] = "load"
  /\ \E a \in rtodo[r] :
       /\ snap' = [snap EXCEPT ![r][a] = regret[rnode[r]][a]]
       /\ rtodo' = [rtodo EXCEPT ![r] = @ \ {a}]
  /\ rpc' = [rpc EXCEPT ![r] = IF rtodo'[r] = {} THEN "check" ELSE "load"]
  /\ UNCHANGED <<rnode, rversion, moved, reads, answer>>

\* A mutant: the version is not looked at a second time.
ReadUnchecked(r) ==
  /\ rpc[r] = "check"
  /\ answer' = [answer EXCEPT ![r] =
                  [node |-> rnode[r], current |-> PositivePart(snap[r])]]
  /\ rpc' = [rpc EXCEPT ![r] = "idle"]
  /\ snap' = [snap EXCEPT ![r] = Zero]
  /\ moved' = [moved EXCEPT ![r] = 0]
  /\ UNCHANGED <<rnode, rversion, rtodo, reads>>

\* The second version load: the snapshot is accepted, and a strategy
\* returned, only when the version is the one loaded first.
ReadCheck(r) ==
  /\ rpc[r] = "check"
  /\ IF version[rnode[r]] = rversion[r]
     THEN /\ answer' = [answer EXCEPT ![r] =
                          [node |-> rnode[r], current |-> PositivePart(snap[r])]]
          /\ rpc' = [rpc EXCEPT ![r] = "idle"]
     ELSE /\ rpc' = [rpc EXCEPT ![r] = "version"]
          /\ UNCHANGED answer
  /\ snap' = [snap EXCEPT ![r] = Zero]
  /\ moved' = [moved EXCEPT ![r] = 0]
  /\ UNCHANGED <<rnode, rversion, rtodo, reads>>

ReaderStep(r) ==
  /\ \/ ReadStart(r) \/ ReadVersion(r) \/ ReadRegret(r) \/ ReadCheck(r)
  /\ UNCHANGED nodeVars
=============================================================================
