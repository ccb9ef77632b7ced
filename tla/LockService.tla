------------------------------ MODULE LockService ------------------------------
(***************************************************************************)
(* What the controller expects of RedisLocker for one room key: at most    *)
(* one thread, anywhere in the cluster, is between a successful lock() and *)
(* its unlock().  A holder that dies gives the lock up.  Nothing is        *)
(* promised any more once a Redis command has failed: try_lock answers     *)
(* such a failure with "locked".                                           *)
(***************************************************************************)
CONSTANTS
    Proc,       \* the threads that lock the key
    NoOne       \* the holder of a free lock

VARIABLES
    holder,     \* the thread that owns the lock, or NoOne
    broken      \* a Redis command has failed

vars == <<holder, broken>>

Init ==
    /\ holder = NoOne
    /\ broken = FALSE

Acquire(p) ==
    /\ ~broken
    /\ holder = NoOne
    /\ holder' = p
    /\ UNCHANGED broken

\* unlock(), or the death of the holder.
Release(p) ==
    /\ ~broken
    /\ holder = p
    /\ holder' = NoOne
    /\ UNCHANGED broken

\* From the first failed command on the lock owns up to having no holder.
Break ==
    /\ ~broken
    /\ broken' = TRUE
    /\ holder' = NoOne

Next ==
    \/ \E p \in Proc : Acquire(p) \/ Release(p)
    \/ Break

Spec == Init /\ [][Next]_vars
================================================================================
