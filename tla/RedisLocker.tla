------------------------------ MODULE RedisLocker ------------------------------
(***************************************************************************)
(* redis/redis_locker.cpp: the lock every room is guarded by.  A thread    *)
(* takes the key with SETNX <its clock>; when the key exists it reads the  *)
(* stamp with GET and, if the stamp is older than lock_timeout, tries to   *)
(* take it over with GETSET.  unlock() deletes the key without looking at  *)
(* whose it is.  Each Redis command is one atomic step of the server, and  *)
(* every thread, clock tick and crash may come between two of them.        *)
(*                                                                         *)
(* One key is modelled: keys do not interact.                              *)
(***************************************************************************)
EXTENDS Integers

CONSTANTS
    Proc,           \* threads, of any controller, that lock this key
    LockTimeout,    \* Config::redis_lock_timeout
    TryTime,        \* Config::redis_lock_try_time
    Skew,           \* how far a controller's clock may be off
    Span,           \* the longest time from reading the clock to unlock()
    MaxTime,        \* bound on the clock, for TLC
    NIL             \* the key does not exist

ASSUME ConstantsAssumption ==
    /\ LockTimeout \in Nat
    /\ TryTime \in Nat
    /\ Skew \in Nat
    /\ Span \in Nat
    /\ MaxTime \in Nat
    /\ NIL \notin Int

\* The code does not enforce this; it is what lock_timeout has to be for the
\* lock to exclude.  Span counts twice: a thread that loses the GETSET race
\* leaves its own, up to Span older, stamp under the winner.
ASSUME TimingAssumption == 2 * Span + 2 * Skew <= LockTimeout

VARIABLES
    now,            \* real time
    key,            \* the value of the key: a stamp, or NIL
    pc,             \* where each thread is
    begin,          \* real time at which the thread read its clock
    stamp,          \* `now` of try_lock: what the clock showed
    seen,           \* `t1` of try_lock, or NIL
    locked,         \* the threads whose locked_ is true
    tries,          \* try_time of lock()
    failed          \* some Redis command has failed

vars == <<now, key, pc, begin, stamp, seen, locked, tries, failed>>

Stamps == Int \cup {NIL}

\* "try"    in lock(), about to read the clock for the next attempt
\* "setnx", "get", "getset"   about to send that command
\* "cs"     lock() has returned true and unlock() has not run
PC == {"idle", "try", "setnx", "get", "getset", "cs"}

TypeOK ==
    /\ now \in Nat
    /\ key \in Stamps
    /\ pc \in [Proc -> PC]
    /\ begin \in [Proc -> Nat]
    /\ stamp \in [Proc -> Int]
    /\ seen \in [Proc -> Stamps]
    /\ locked \subseteq Proc
    /\ tries \in [Proc -> 0..TryTime]
    /\ failed \in BOOLEAN

Busy(p) == pc[p] \in {"setnx", "get", "getset", "cs"}

Init ==
    /\ now = 0
    /\ key = NIL
    /\ pc = [p \in Proc |-> "idle"]
    /\ begin = [p \in Proc |-> 0]
    /\ stamp = [p \in Proc |-> 0]
    /\ seen = [p \in Proc |-> NIL]
    /\ locked = {}
    /\ tries = [p \in Proc |-> 0]
    /\ failed = FALSE

--------------------------------------------------------------------------------

\* A fresh RedisLocker, and the entry of lock().
Lock(p) ==
    /\ pc[p] = "idle"
    /\ pc' = [pc EXCEPT ![p] = "try"]
    /\ tries' = [tries EXCEPT ![p] = TryTime]
    /\ locked' = locked \ {p}
    /\ UNCHANGED <<now, key, begin, stamp, seen, failed>>

\* MUTANT: the key holds the time at which the lock expires.
ClockOfExpiry == (now + LockTimeout - Skew)..(now + LockTimeout + Skew)

\* uint64_t now = Utils::getSystemMs(), on a clock that is off by up to Skew.
Clock == (now - Skew)..(now + Skew)

ReadClock(p) ==
    /\ pc[p] = "try"
    /\ pc' = [pc EXCEPT ![p] = "setnx"]
    /\ begin' = [begin EXCEPT ![p] = now]
    /\ \E t \in Clock : stamp' = [stamp EXCEPT ![p] = t]
    /\ UNCHANGED <<now, key, seen, locked, tries, failed>>

\* The locals of try_lock() go out of scope.
Drop(p) ==
    /\ begin' = [begin EXCEPT ![p] = 0]
    /\ stamp' = [stamp EXCEPT ![p] = 0]
    /\ seen' = [seen EXCEPT ![p] = NIL]

\* The RedisLocker goes out of scope, or its process dies.
Leave(p) ==
    /\ pc' = [pc EXCEPT ![p] = "idle"]
    /\ locked' = locked \ {p}
    /\ tries' = [tries EXCEPT ![p] = 0]
    /\ Drop(p)

\* lock() returns true: of its locals only the time since `begin` matters.
Enter(p) ==
    /\ pc' = [pc EXCEPT ![p] = "cs"]
    /\ tries' = [tries EXCEPT ![p] = 0]
    /\ stamp' = [stamp EXCEPT ![p] = 0]
    /\ seen' = [seen EXCEPT ![p] = NIL]
    /\ UNCHANGED begin

\* MUTANT: the loop counts one attempt too many.
AgainPastZero(p) ==
    IF tries[p] >= 0
    THEN /\ pc' = [pc EXCEPT ![p] = "try"]
         /\ tries' = [tries EXCEPT ![p] = @ - 1]
         /\ UNCHANGED locked
         /\ Drop(p)
    ELSE Leave(p)

\* MUTANT: try_time is never decremented.
AgainForever(p) ==
    /\ pc' = [pc EXCEPT ![p] = "try"]
    /\ UNCHANGED <<locked, tries>>
    /\ Drop(p)

\* try_lock() returned false: lock() sleeps and tries again while try_time
\* lasts, otherwise it returns false and the destructor's unlock() does nothing
\* because locked_ is false.
Again(p) ==
    IF tries[p] > 0
    THEN /\ pc' = [pc EXCEPT ![p] = "try"]
         /\ tries' = [tries EXCEPT ![p] = @ - 1]
         /\ UNCHANGED locked
         /\ Drop(p)
    ELSE Leave(p)

SetNx(p) ==
    /\ pc[p] = "setnx"
    /\ IF key = NIL
       THEN /\ key' = stamp[p]
            /\ locked' = locked \cup {p}
            /\ Enter(p)
       ELSE /\ pc' = [pc EXCEPT ![p] = "get"]
            /\ UNCHANGED <<key, locked, begin, stamp, seen, tries>>
    /\ UNCHANGED <<now, failed>>

\* MUTANT: lock_timeout is counted from the wrong end.
ExpiredAtOnce(p, t1) == stamp[p] + LockTimeout > t1

Expired(p, t1) == stamp[p] > t1 + LockTimeout

\* The key is gone, or its stamp has expired: go on to GETSET.
Get(p) ==
    /\ pc[p] = "get"
    /\ IF key = NIL \/ (key # NIL /\ Expired(p, key))
       THEN /\ pc' = [pc EXCEPT ![p] = "getset"]
            /\ seen' = [seen EXCEPT ![p] = key]
            /\ UNCHANGED <<locked, begin, stamp, tries>>
       ELSE Again(p)
    /\ UNCHANGED <<now, key, failed>>

\* MUTANT: t2 is not compared with t1.
UnmovedAlways(p) == TRUE

\* ACLRedis::getset leaves `value` alone when the old value is nil, so that a
\* key deleted since GET also counts as unchanged.
Unmoved(p) == key \in {NIL, seen[p]}

\* MUTANT: a thread that loses the race takes its stamp back by deleting the key.
GetSetUndone(p) ==
    /\ pc[p] = "getset"
    /\ key' = IF Unmoved(p) THEN stamp[p] ELSE NIL
    /\ IF Unmoved(p)
       THEN /\ locked' = locked \cup {p}
            /\ Enter(p)
       ELSE Again(p)
    /\ UNCHANGED <<now, failed>>

\* GETSET writes the stamp whether or not the thread wins.
GetSet(p) ==
    /\ pc[p] = "getset"
    /\ key' = stamp[p]
    /\ IF Unmoved(p)
       THEN /\ locked' = locked \cup {p}
            /\ Enter(p)
       ELSE Again(p)
    /\ UNCHANGED <<now, failed>>

\* unlock(), called or run by the destructor.  The result of DEL is not looked
\* at: the key may survive.
Unlock(p) ==
    /\ pc[p] = "cs"
    /\ key' \in IF p \in locked THEN {NIL, key} ELSE {key}
    /\ Leave(p)
    /\ UNCHANGED <<now, failed>>

--------------------------------------------------------------------------------
(* Commands that fail.  The server may have executed one that did.         *)

\* SETNX returned -1, which is not 0: try_lock takes it for success.
SetNxFails(p) ==
    /\ pc[p] = "setnx"
    /\ key' \in IF key = NIL THEN {NIL, stamp[p]} ELSE {key}
    /\ locked' = locked \cup {p}
    /\ Enter(p)
    /\ failed' = TRUE
    /\ UNCHANGED now

\* if (!get(...)) return 1, with locked_ still false.
GetFails(p) ==
    /\ pc[p] = "get"
    /\ Enter(p)
    /\ failed' = TRUE
    /\ UNCHANGED <<now, key, locked>>

GetSetFails(p) ==
    /\ pc[p] = "getset"
    /\ key' \in {key, stamp[p]}
    /\ Enter(p)
    /\ failed' = TRUE
    /\ UNCHANGED <<now, locked>>

--------------------------------------------------------------------------------
(* The environment.                                                        *)

\* The thread's process dies; a key it holds stays behind.
Crash(p) ==
    /\ pc[p] # "idle"
    /\ Leave(p)
    /\ UNCHANGED <<now, key, failed>>

\* Time passes, but for no thread more than Span since it read its clock.
Tick ==
    /\ now < MaxTime
    /\ \A p \in Proc : Busy(p) => now < begin[p] + Span
    /\ now' = now + 1
    /\ UNCHANGED <<key, pc, begin, stamp, seen, locked, tries, failed>>

Step(p) ==
    \/ ReadClock(p)
    \/ SetNx(p)
    \/ Get(p)
    \/ GetSet(p)
    \/ Unlock(p)
    \/ SetNxFails(p)
    \/ GetFails(p)
    \/ GetSetFails(p)

Next ==
    \/ \E p \in Proc : Lock(p) \/ Step(p) \/ Crash(p)
    \/ Tick

Spec == Init /\ [][Next]_vars

\* A thread inside lock() or a critical section keeps running: its loops are
\* counted and its waits are sleeps.
Fairness == \A p \in Proc : WF_vars(Step(p))

FairSpec == Spec /\ Fairness

--------------------------------------------------------------------------------
(* Properties.                                                             *)

InCS == {p \in Proc : pc[p] = "cs"}

\* As long as no Redis command has failed, two threads are never between
\* RedisLocker::lock() and unlock() of one room together, whatever the order of
\* their SETNX, GET, GETSET and DEL, and whoever crashed holding the key.
MutualExclusion ==
    ~failed => \A p, q \in InCS : p = q

\* As long as no Redis command has failed, the key exists while a thread is in
\* its critical section: unlock()'s unconditional DEL never hits the key of a
\* thread that took it over.
HolderKeepsKey ==
    (~failed /\ InCS # {}) => key # NIL

\* The stamp under the key is never ahead of real time by more than the clock
\* error, so that a key left by a dead controller, however often losing GETSETs
\* have rewritten it, always expires.
StaleKeyExpires ==
    key # NIL => key <= now + Skew

\* lock() returns: with the lock or, after redis_lock_try_time retries, without.
LockReturns ==
    \A p \in Proc : pc[p] = "try" ~> pc[p] \in {"cs", "idle"}

\* Why the lock excludes: the inductive strengthening of the three invariants.
\* A thread is never later than Span after its clock reading and its stamp is
\* off by at most Skew (the third conjunct is what GET found); then the key
\* under a holder is never older than Span and Skew allow, so that no waiting
\* thread may consider it expired.
TimeInv ==
    \A p \in Proc :
        /\ Busy(p) => begin[p] <= now /\ now <= begin[p] + Span
        /\ pc[p] \in {"setnx", "get", "getset"} =>
               begin[p] - Skew <= stamp[p] /\ stamp[p] <= begin[p] + Skew
        /\ (pc[p] = "getset" /\ seen[p] # NIL) =>
               stamp[p] > seen[p] + LockTimeout

HolderInv ==
    ~failed => \A p \in Proc : pc[p] = "cs" =>
        /\ key # NIL
        /\ key >= begin[p] - Span - Skew
        /\ \A q \in Proc : pc[q] = "cs" => q = p

\* The invariant RedisLocker's safety rests on, proved in RedisLockerProofs:
\* however try_lock, unlock and crashes interleave, the stamp under a held key
\* is too young for any thread's GET to have seen it as expired.
LockInv == TimeInv /\ HolderInv /\ StaleKeyExpires

\* The lock held in the abstract: by the one thread that is in its critical
\* section, by no one after a failure.
NoOne == NIL

holderBar ==
    IF failed \/ InCS = {} THEN NoOne ELSE CHOOSE p \in InCS : TRUE

LS == INSTANCE LockService WITH holder <- holderBar, broken <- failed

\* RedisLocker implements LockService: the lock passes from thread to thread
\* only through a state in which nobody holds it.
ImplementsLockService == LS!Spec
================================================================================
