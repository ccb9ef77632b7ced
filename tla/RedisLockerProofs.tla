--------------------------- MODULE RedisLockerProofs ---------------------------
(***************************************************************************)
(* Proofs about RedisLocker, for any number of threads and any values of   *)
(* the timing constants that satisfy TimingAssumption.                     *)
(***************************************************************************)
EXTENDS RedisLocker, TLAPS

\* The variables of RedisLocker keep their types through every attempt of
\* lock(), every failing command and every crash.
THEOREM TypeCorrect == Spec => []TypeOK
<1>1. Init => TypeOK
  <2> SUFFICES ASSUME Init PROVE TypeOK
    OBVIOUS
  <2>1. /\ now \in Nat /\ key \in Stamps /\ pc \in [Proc -> PC]
        /\ begin \in [Proc -> Nat] /\ stamp \in [Proc -> Int]
        /\ seen \in [Proc -> Stamps] /\ tries \in [Proc -> 0..TryTime]
    BY ConstantsAssumption DEF Init, PC, Stamps
  <2>2. locked \subseteq Proc /\ failed \in BOOLEAN
    BY Zenon DEF Init
  <2> QED
    BY <2>1, <2>2 DEF TypeOK
<1>2. TypeOK /\ [Next]_vars => TypeOK'
  <2> SUFFICES ASSUME TypeOK, [Next]_vars
               PROVE  TypeOK'
    OBVIOUS
  <2> USE ConstantsAssumption DEF TypeOK, PC, Stamps
  <2>1. ASSUME NEW p \in Proc, Lock(p) PROVE TypeOK'
    BY <2>1 DEF Lock
  <2>2. ASSUME NEW p \in Proc, ReadClock(p) PROVE TypeOK'
    BY <2>2 DEF ReadClock, Clock
  <2>3. ASSUME NEW p \in Proc, SetNx(p) PROVE TypeOK'
    BY <2>3 DEF SetNx, Enter
  <2>4. ASSUME NEW p \in Proc, Get(p) PROVE TypeOK'
    BY <2>4 DEF Get, Again, Leave, Drop
  <2>5. ASSUME NEW p \in Proc, GetSet(p) PROVE TypeOK'
    BY <2>5 DEF GetSet, Enter, Again, Leave, Drop
  <2>6. ASSUME NEW p \in Proc, Unlock(p) PROVE TypeOK'
    BY <2>6 DEF Unlock, Leave, Drop
  <2>7. ASSUME NEW p \in Proc, SetNxFails(p) PROVE TypeOK'
    BY <2>7 DEF SetNxFails, Enter
  <2>8. ASSUME NEW p \in Proc, GetFails(p) PROVE TypeOK'
    BY <2>8 DEF GetFails, Enter
  <2>9. ASSUME NEW p \in Proc, GetSetFails(p) PROVE TypeOK'
    BY <2>9 DEF GetSetFails, Enter
  <2>10. ASSUME NEW p \in Proc, Crash(p) PROVE TypeOK'
    BY <2>10 DEF Crash, Leave, Drop
  <2>11. CASE Tick
    BY <2>11 DEF Tick
  <2>12. CASE UNCHANGED vars
    BY <2>12 DEF vars
  <2> QED
    BY <2>1, <2>2, <2>3, <2>4, <2>5, <2>6, <2>7, <2>8, <2>9, <2>10, <2>11,
       <2>12 DEF Next, Step
<1> QED
  BY <1>1, <1>2, PTL DEF Spec

\* The arithmetic of the timing assumption: a thread that is on time cannot have
\* seen as expired a stamp as young as the one under a holder who is on time.
LEMMA HeldKeyIsYoung ==
    ASSUME TypeOK, TimeInv, HolderInv, ~failed,
           NEW p \in Proc, pc[p] = "cs",
           NEW q \in Proc, pc[q] = "getset"
    PROVE  ~Unmoved(q)
<1>1. key \in Int /\ key >= begin[p] - Span - Skew
  BY DEF HolderInv, TypeOK, Stamps
<1>2. now <= begin[p] + Span
  BY DEF TimeInv, Busy
<1>3. stamp[q] <= begin[q] + Skew /\ begin[q] <= now
  BY DEF TimeInv, Busy
<1>4. CASE seen[q] = NIL
  BY <1>1, <1>4, ConstantsAssumption DEF Unmoved
<1>5. CASE seen[q] # NIL
  <2>1. seen[q] \in Int /\ stamp[q] > seen[q] + LockTimeout
    BY <1>5 DEF TimeInv, TypeOK, Stamps
  <2>2. seen[q] # key
    BY <1>1, <1>2, <1>3, <2>1, ConstantsAssumption, TimingAssumption DEF TypeOK
  <2> QED
    BY <1>1, <2>2, ConstantsAssumption DEF Unmoved
<1> QED
  BY <1>4, <1>5

\* The timing of every thread is kept by every step of RedisLocker and by time.
LEMMA TimeStep ==
    ASSUME TypeOK, TimeInv, [Next]_vars
    PROVE  TimeInv'
<1> USE ConstantsAssumption DEF TypeOK, PC, Stamps, TimeInv, Busy
<1>1. ASSUME NEW p \in Proc, Lock(p) PROVE TimeInv'
  BY <1>1 DEF Lock
<1>2. ASSUME NEW p \in Proc, ReadClock(p) PROVE TimeInv'
  BY <1>2 DEF ReadClock, Clock
<1>3. ASSUME NEW p \in Proc, SetNx(p) PROVE TimeInv'
  BY <1>3 DEF SetNx, Enter
<1>4. ASSUME NEW p \in Proc, Get(p) PROVE TimeInv'
  BY <1>4 DEF Get, Again, Leave, Drop, Expired
<1>5. ASSUME NEW p \in Proc, GetSet(p) PROVE TimeInv'
  BY <1>5 DEF GetSet, Enter, Again, Leave, Drop
<1>6. ASSUME NEW p \in Proc, Unlock(p) PROVE TimeInv'
  BY <1>6 DEF Unlock, Leave, Drop
<1>7. ASSUME NEW p \in Proc, SetNxFails(p) PROVE TimeInv'
  BY <1>7 DEF SetNxFails, Enter
<1>8. ASSUME NEW p \in Proc, GetFails(p) PROVE TimeInv'
  BY <1>8 DEF GetFails, Enter
<1>9. ASSUME NEW p \in Proc, GetSetFails(p) PROVE TimeInv'
  BY <1>9 DEF GetSetFails, Enter
<1>10. ASSUME NEW p \in Proc, Crash(p) PROVE TimeInv'
  BY <1>10 DEF Crash, Leave, Drop
<1>11. CASE Tick
  BY <1>11 DEF Tick
<1>12. CASE UNCHANGED vars
  BY <1>12 DEF vars
<1> QED
  BY <1>1, <1>2, <1>3, <1>4, <1>5, <1>6, <1>7, <1>8, <1>9, <1>10, <1>11, <1>12
     DEF Next, Step

\* A holder stays alone, on a key that is too young to be taken over.
LEMMA HolderStep ==
    ASSUME TypeOK, TimeInv, HolderInv, [Next]_vars
    PROVE  HolderInv'
<1> SUFFICES ASSUME ~failed, ~failed'
             PROVE  HolderInv'
  <2>1. failed => failed'
    BY DEF Next, Step, Lock, ReadClock, SetNx, Get, GetSet, Unlock, SetNxFails,
           GetFails, GetSetFails, Crash, Tick, vars
  <2> QED
    BY <2>1 DEF HolderInv
<1> USE ConstantsAssumption DEF TypeOK, PC, Stamps, HolderInv
<1>1. ASSUME NEW p \in Proc, Lock(p) PROVE HolderInv'
  BY <1>1 DEF Lock
<1>2. ASSUME NEW p \in Proc, ReadClock(p) PROVE HolderInv'
  BY <1>2 DEF ReadClock
<1>3. ASSUME NEW p \in Proc, SetNx(p) PROVE HolderInv'
  BY <1>3 DEF SetNx, Enter, TimeInv, Busy
<1>4. ASSUME NEW p \in Proc, Get(p) PROVE HolderInv'
  BY <1>4 DEF Get, Again, Leave, Drop
<1>5. ASSUME NEW p \in Proc, GetSet(p) PROVE HolderInv'
  <2>1. key' = stamp[p] /\ stamp[p] \in Int
    BY <1>5 DEF GetSet
  <2>2. stamp[p] >= begin[p] - Skew /\ now <= begin[p] + Span
    BY <1>5 DEF GetSet, TimeInv, Busy
  <2>3. CASE Unmoved(p)
    <3>1. \A r \in Proc : pc[r] # "cs"
      BY <1>5, <2>3, HeldKeyIsYoung DEF GetSet
    <3> QED
      BY <1>5, <2>1, <2>2, <2>3, <3>1 DEF GetSet, Enter
  <2>4. CASE ~Unmoved(p)
    <3>1. /\ pc' \in {[pc EXCEPT ![p] = "try"], [pc EXCEPT ![p] = "idle"]}
          /\ \A r \in Proc \ {p} : begin'[r] = begin[r]
      BY <1>5, <2>4 DEF GetSet, Again, Leave, Drop
    <3>2. \A r \in Proc : pc'[r] = "cs" =>
              r # p /\ pc[r] = "cs" /\ begin'[r] = begin[r]
      BY <3>1
    <3>3. \A r \in Proc : pc[r] = "cs" => begin[r] <= now
      BY DEF TimeInv, Busy
    <3> QED
      BY <2>1, <2>2, <3>2, <3>3
  <2> QED
    BY <2>3, <2>4
<1>6. ASSUME NEW p \in Proc, Unlock(p) PROVE HolderInv'
  BY <1>6 DEF Unlock, Leave, Drop
<1>7. ASSUME NEW p \in Proc, SetNxFails(p) \/ GetFails(p) \/ GetSetFails(p)
      PROVE HolderInv'
  BY <1>7 DEF SetNxFails, GetFails, GetSetFails
<1>8. ASSUME NEW p \in Proc, Crash(p) PROVE HolderInv'
  BY <1>8 DEF Crash, Leave, Drop
<1>9. CASE Tick
  BY <1>9 DEF Tick
<1>10. CASE UNCHANGED vars
  BY <1>10 DEF vars
<1> QED
  BY <1>1, <1>2, <1>3, <1>4, <1>5, <1>6, <1>7, <1>8, <1>9, <1>10 DEF Next, Step

\* Only stamps read from a clock that is at most Skew ahead reach the key.
LEMMA StaleStep ==
    ASSUME TypeOK, TimeInv, StaleKeyExpires, [Next]_vars
    PROVE  StaleKeyExpires'
<1> USE ConstantsAssumption DEF TypeOK, PC, Stamps, StaleKeyExpires
<1>1. \A p \in Proc : pc[p] \in {"setnx", "get", "getset"} =>
          stamp[p] \in Int /\ stamp[p] <= now + Skew
  BY DEF TimeInv, Busy
<1>2. ASSUME NEW p \in Proc, SetNx(p) \/ SetNxFails(p) PROVE StaleKeyExpires'
  BY <1>1, <1>2 DEF SetNx, SetNxFails
<1>3. ASSUME NEW p \in Proc, GetSet(p) \/ GetSetFails(p) PROVE StaleKeyExpires'
  BY <1>1, <1>3 DEF GetSet, GetSetFails
<1>4. ASSUME NEW p \in Proc, Unlock(p) PROVE StaleKeyExpires'
  BY <1>4 DEF Unlock
<1>5. ASSUME NEW p \in Proc,
             Lock(p) \/ ReadClock(p) \/ Get(p) \/ GetFails(p) \/ Crash(p)
      PROVE  StaleKeyExpires'
  BY <1>5 DEF Lock, ReadClock, Get, GetFails, Crash
<1>6. CASE Tick
  BY <1>6 DEF Tick
<1>7. CASE UNCHANGED vars
  BY <1>7 DEF vars
<1> QED
  BY <1>2, <1>3, <1>4, <1>5, <1>6, <1>7 DEF Next, Step

\* The inductive invariant holds: whatever the interleaving of the Redis
\* commands of try_lock and unlock, the key of a holder is not taken for expired.
THEOREM LockInvariant == Spec => []LockInv
<1>1. Init => LockInv
  BY ConstantsAssumption
     DEF Init, LockInv, TimeInv, HolderInv, StaleKeyExpires, Busy
<1>2. TypeOK /\ LockInv /\ [Next]_vars => LockInv'
  BY TimeStep, HolderStep, StaleStep DEF LockInv
<1> QED
  BY <1>1, <1>2, TypeCorrect, PTL DEF Spec

\* Two threads are never between RedisLocker::lock() and unlock() together as
\* long as every Redis command has succeeded.
THEOREM LockExcludes == Spec => []MutualExclusion
<1>1. LockInv => MutualExclusion
  BY DEF LockInv, HolderInv, MutualExclusion, InCS
<1> QED
  BY <1>1, LockInvariant, PTL

\* unlock()'s unconditional DEL never removes the key from under another holder.
THEOREM KeyUnderHolder == Spec => []HolderKeepsKey
<1>1. LockInv => HolderKeepsKey
  BY DEF LockInv, HolderInv, HolderKeepsKey, InCS
<1> QED
  BY <1>1, LockInvariant, PTL

\* A key left behind by a dead controller is never stamped in the future.
THEOREM AbandonedKeyExpires == Spec => []StaleKeyExpires
  BY LockInvariant, PTL DEF LockInv

--------------------------------------------------------------------------------
(* RedisLocker implements LockService.                                     *)

\* A thread alone in its critical section is the abstract holder.
LEMMA HolderIs ==
    ASSUME HolderInv, ~failed, NEW p \in Proc, pc[p] = "cs"
    PROVE  holderBar = p
<1>1. \A q \in Proc : pc[q] = "cs" => q = p
  BY DEF HolderInv
<1> QED
  BY <1>1 DEF holderBar, InCS

\* With nobody in a critical section the abstract lock is free.
LEMMA HolderIsNoOne ==
    ASSUME failed \/ \A p \in Proc : pc[p] # "cs"
    PROVE  holderBar = NoOne
  BY DEF holderBar, InCS

\* A step that moves nobody into or out of a critical section, and fails nothing,
\* leaves the abstract lock alone.
LEMMA Stutter ==
    ASSUME failed' = failed,
           \A p \in Proc : (pc'[p] = "cs") <=> (pc[p] = "cs")
    PROVE  UNCHANGED LS!vars
<1>1. InCS' = InCS
  BY DEF InCS
<1>2. holderBar' = holderBar
  BY <1>1 DEF holderBar
<1> QED
  BY <1>2 DEF LS!vars

\* A thread that enters a free critical section acquires the abstract lock.
LEMMA Acquires ==
    ASSUME TypeOK, HolderInv, HolderInv', ~failed, failed' = failed,
           \A r \in Proc : pc[r] # "cs",
           NEW p \in Proc, pc' = [pc EXCEPT ![p] = "cs"]
    PROVE  LS!Next
<1>1. pc'[p] = "cs" /\ ~failed'
  BY DEF TypeOK
<1>2. holderBar = NoOne
  BY HolderIsNoOne
<1>3. holderBar' = p
  <2>1. \A q \in Proc : pc'[q] = "cs" => q = p
    BY <1>1 DEF HolderInv
  <2> QED
    BY <1>1, <2>1 DEF holderBar, InCS
<1> QED
  BY <1>2, <1>3 DEF LS!Next, LS!Acquire

\* A thread that leaves its critical section releases the abstract lock; one
\* that leaves from elsewhere changes nothing.
LEMMA Releases ==
    ASSUME TypeOK, HolderInv, failed' = failed,
           NEW p \in Proc, pc' = [pc EXCEPT ![p] = "idle"]
    PROVE  [LS!Next]_(LS!vars)
<1>1. CASE ~failed /\ pc[p] = "cs"
  <2>1. holderBar = p
    BY <1>1, HolderIs
  <2>2. \A q \in Proc : pc'[q] # "cs"
    BY <1>1 DEF TypeOK, HolderInv
  <2>3. holderBar' = NoOne
    BY <2>2 DEF holderBar, InCS
  <2> QED
    BY <1>1, <2>1, <2>3 DEF LS!Next, LS!Release
<1>2. CASE failed
  BY <1>2 DEF LS!vars, holderBar
<1>3. CASE pc[p] # "cs"
  BY <1>3, Stutter DEF TypeOK
<1> QED
  BY <1>1, <1>2, <1>3

\* The first failing command breaks the abstract lock, later ones change nothing.
LEMMA Breaks ==
    ASSUME TypeOK, failed'
    PROVE  [LS!Next]_(LS!vars)
<1>1. holderBar' = NoOne
  BY DEF holderBar
<1>2. failed' = TRUE
  BY DEF TypeOK
<1>3. CASE failed
  BY <1>1, <1>3, HolderIsNoOne DEF LS!vars, TypeOK
<1>4. CASE ~failed
  BY <1>1, <1>4 DEF LS!Next, LS!Break, TypeOK
<1> QED
  BY <1>3, <1>4

\* Every step of RedisLocker is a step of LockService, or leaves it alone.
LEMMA RefinementStep ==
    ASSUME TypeOK, TimeInv, HolderInv, HolderInv', [Next]_vars
    PROVE  [LS!Next]_(LS!vars)
<1>1. ASSUME NEW p \in Proc,
             SetNxFails(p) \/ GetFails(p) \/ GetSetFails(p)
      PROVE  [LS!Next]_(LS!vars)
  BY <1>1, Breaks DEF SetNxFails, GetFails, GetSetFails
<1>2. ASSUME NEW p \in Proc, Lock(p) \/ ReadClock(p)
      PROVE  [LS!Next]_(LS!vars)
  BY <1>2, Stutter DEF Lock, ReadClock, TypeOK
<1>3. ASSUME NEW p \in Proc, Again(p), failed' = failed, pc[p] # "cs"
      PROVE  [LS!Next]_(LS!vars)
  <2>1. \A r \in Proc : (pc'[r] = "cs") <=> (pc[r] = "cs")
    BY <1>3 DEF Again, Leave, TypeOK
  <2> QED
    BY <1>3, <2>1, Stutter
<1>4. ASSUME NEW p \in Proc, Enter(p), failed' = failed,
             ~failed => \A r \in Proc : pc[r] # "cs"
      PROVE  [LS!Next]_(LS!vars)
  <2>1. CASE failed
    BY <1>4, <2>1, Breaks
  <2>2. CASE ~failed
    BY <1>4, <2>2, Acquires DEF Enter
  <2> QED
    BY <2>1, <2>2
<1>5. ASSUME NEW p \in Proc, SetNx(p) PROVE [LS!Next]_(LS!vars)
  <2>1. CASE key = NIL
    <3>1. Enter(p) /\ failed' = failed /\ (~failed => \A r \in Proc : pc[r] # "cs")
      BY <1>5, <2>1 DEF SetNx, HolderInv
    <3> QED
      BY <3>1, <1>4
  <2>2. CASE key # NIL
    BY <1>5, <2>2, Stutter DEF SetNx, TypeOK
  <2> QED
    BY <2>1, <2>2
<1>6. ASSUME NEW p \in Proc, Get(p) PROVE [LS!Next]_(LS!vars)
  <2>1. CASE pc' = [pc EXCEPT ![p] = "getset"]
    BY <1>6, <2>1, Stutter DEF Get, TypeOK
  <2>2. CASE Again(p)
    BY <1>6, <2>2, <1>3 DEF Get
  <2> QED
    BY <1>6, <2>1, <2>2 DEF Get
<1>7. ASSUME NEW p \in Proc, GetSet(p) PROVE [LS!Next]_(LS!vars)
  <2>1. CASE Unmoved(p)
    <3>1. ~failed => \A r \in Proc : pc[r] # "cs"
      BY <1>7, <2>1, HeldKeyIsYoung DEF GetSet
    <3>2. Enter(p) /\ failed' = failed
      BY <1>7, <2>1 DEF GetSet
    <3> QED
      BY <3>1, <3>2, <1>4
  <2>2. CASE ~Unmoved(p)
    BY <1>7, <2>2, <1>3 DEF GetSet
  <2> QED
    BY <2>1, <2>2
<1>8. ASSUME NEW p \in Proc, Unlock(p) \/ Crash(p) PROVE [LS!Next]_(LS!vars)
  BY <1>8, Releases DEF Unlock, Crash, Leave
<1>9. CASE Tick
  BY <1>9, Stutter DEF Tick
<1>10. CASE UNCHANGED vars
  BY <1>10, Stutter DEF vars
<1> QED
  BY <1>1, <1>2, <1>5, <1>6, <1>7, <1>8, <1>9, <1>10 DEF Next, Step

\* RedisLocker implements LockService, for any number of threads, with threads
\* dying anywhere in try_lock and with Redis commands failing.
THEOREM LockRefinement == Spec => ImplementsLockService
<1>1. Init => LS!Init
  BY HolderIsNoOne DEF Init, LS!Init
<1>2. TypeOK /\ LockInv /\ LockInv' /\ [Next]_vars => [LS!Next]_(LS!vars)
  BY RefinementStep DEF LockInv
<1> QED
  BY <1>1, <1>2, TypeCorrect, LockInvariant, PTL
     DEF Spec, ImplementsLockService, LS!Spec
================================================================================
