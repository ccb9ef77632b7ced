------------------------------- MODULE Heartbeat -------------------------------
(***************************************************************************)
(* The heartbeat thread of ErizoController::init (core/erizo_controller    *)
(* .cpp, lines 90-140) in every controller of a cluster.  Twice a second   *)
(* it reads the clock, takes the cluster-wide heartbeat lock, refreshes    *)
(* its own record in Redis if that is due, reads all records, and for each *)
(* that has expired deletes the record and posts the removal of the        *)
(* clients its controller has left behind.                                 *)
(*                                                                         *)
(* The lock is the abstract one RedisLocker implements.  All clocks show   *)
(* the same time; each id is used by one process only, so that a restarted *)
(* controller is another member of EC.                                     *)
(***************************************************************************)
EXTENDS Integers, FiniteSets

CONSTANTS
    EC,         \* controllers: processes, by their id_
    None,       \* no record; no holder
    Interval,   \* Config::erizo_controller_update_interval
    Timeout,    \* Config::erizo_controller_timeout
    Nap,        \* the 500ms between two rounds
    Word,       \* 2^64: the arithmetic of the time stamps
    MaxTime,    \* bound on the clock; nothing stops that late
    MaxFaults   \* bound on stops and faults

ASSUME HeartbeatAssumption ==
    /\ {Interval, Timeout, Nap, MaxTime, MaxFaults} \subseteq Nat
    /\ Interval < MaxTime
    /\ Word \in Nat /\ MaxTime + Timeout < Word
    /\ None \notin EC \cup Nat

VARIABLES
    now,            \* Utils::getSystemMs()
    table,          \* erizo_controller_heartbeat in Redis: last_update by id
    holder, broken, \* the heartbeat lock
    pc,             \* where each heartbeat thread is
    t,              \* the local `now`
    last,           \* heartbeat_.last_update
    todo,           \* the expired ones left of heartbeats
    cur,            \* the record being removed, or None
    wake,           \* when usleep returns
    run, pool,      \* controllers whose run_ is set; whose thread pool takes tasks
    posted,         \* the tasks for removeExpireErizoController ever posted
    dropped,        \* the records for which asyncTask posted none
    stops,          \* crashes, closes and early returns of threads
    faults          \* commands that failed without notice

lockVars == <<holder, broken>>
env == <<stops, faults>>
locals == <<t, last, todo, cur, wake>>
up == <<run, pool>>
tasks == <<posted, dropped>>
vars == <<now, table, lockVars, pc, locals, up, tasks, env>>

Lock == INSTANCE LockService WITH Proc <- EC, NoOne <- None

Record == [id : EC, stamp : Nat]

\* "dead": the thread has returned, its process goes on.
Alive == {"top", "lock", "beat", "getall", "scan", "post", "sleep"}
PC == Alive \cup {"new", "final", "ended", "dead", "crashed"}

TypeOK ==
    /\ now \in Nat
    /\ table \in [EC -> 0..MaxTime \cup {None}]
    /\ holder \in EC \cup {None} /\ broken \in BOOLEAN
    /\ pc \in [EC -> PC]
    /\ {t, last, wake} \subseteq [EC -> Nat]
    /\ todo \in [EC -> SUBSET Record]
    /\ cur \in [EC -> Record \cup {None}]
    /\ run \subseteq EC /\ pool \subseteq EC
    /\ posted \subseteq [by : EC, id : EC, stamp : Nat, at : Nat]
    /\ dropped \subseteq Record
    /\ {stops, faults, stops + faults} \subseteq 0..MaxFaults

Init ==
    /\ now = Interval + 1       \* far from 0, where last_update starts
    /\ table = [e \in EC |-> None]
    /\ Lock!Init
    /\ pc = [e \in EC |-> "new"]
    /\ t = [e \in EC |-> 0]
    /\ last = [e \in EC |-> 0]
    /\ todo = [e \in EC |-> {}]
    /\ cur = [e \in EC |-> None]
    /\ wake = [e \in EC |-> 0]
    /\ run = {} /\ pool = {}
    /\ posted = {} /\ dropped = {}
    /\ stops = 0 /\ faults = 0

Goto(e, l) == pc' = [pc EXCEPT ![e] = l]

Fault ==
    /\ stops + faults < MaxFaults
    /\ faults' = faults + 1
    /\ UNCHANGED stops

Stop ==
    /\ stops + faults < MaxFaults
    /\ now < MaxTime
    /\ stops' = stops + 1
    /\ UNCHANGED faults

\* uint64_t a - b
Minus(a, b) == (a - b) % Word

--------------------------------------------------------------------------------
(* The thread.                                                             *)

\* init() starts the thread pool and then the thread.
Start(e) ==
    /\ pc[e] = "new"
    /\ now < MaxTime
    /\ run' = run \cup {e} /\ pool' = pool \cup {e}
    /\ Goto(e, "top")
    /\ UNCHANGED <<now, table, lockVars, locals, tasks, env>>

\* The top of the loop, at first and after each nap.  The clock is read before
\* the lock is waited for.
Round(e) ==
    /\ \/ pc[e] = "top"
       \/ pc[e] = "sleep" /\ (now >= wake[e] \/ now = MaxTime)
    /\ IF e \in run
       THEN /\ t' = [t EXCEPT ![e] = now]
            /\ Goto(e, "lock")
       ELSE /\ Goto(e, "final")
            /\ UNCHANGED t
    /\ wake' = [wake EXCEPT ![e] = 0]
    /\ UNCHANGED <<now, table, lockVars, last, todo, cur, up, tasks, env>>

\* MUTANT: the lock is not waited for.
TakenUnlocked(e) == Goto(e, "beat") /\ UNCHANGED lockVars

\* A lock that has failed keeps nobody out.
Taken(e) ==
    /\ Goto(e, "beat")
    /\ IF broken THEN UNCHANGED lockVars ELSE Lock!Acquire(e)

LockOk(e) ==
    /\ pc[e] = "lock"
    /\ Taken(e)
    /\ UNCHANGED <<now, table, locals, up, tasks, env>>

\* A command of the lock fails, which lock() takes for success.
LockBreaks(e) ==
    /\ Fault
    /\ pc[e] = "lock"
    /\ Lock!Break
    /\ Goto(e, "beat")
    /\ UNCHANGED <<now, table, locals, up, tasks>>

\* unlock(), called or run by the destructor of redis_locker.
Unlock(e) ==
    IF broken \/ holder # e THEN UNCHANGED lockVars ELSE Lock!Release(e)

\* now - heartbeat_.last_update > update_interval
Due(e) == Minus(t[e], last[e]) > Interval

\* The locals of the thread's loop go out of scope.
Drop(e) ==
    /\ t' = [t EXCEPT ![e] = 0]
    /\ todo' = [todo EXCEPT ![e] = {}]

\* MUTANT: the record holds the time at which it expires.
PutExpiry(e) ==
    /\ last' = [last EXCEPT ![e] = t[e]]
    /\ table' = [table EXCEPT ![e] = t[e] + Timeout]

\* hset, with the stamp that is then in Redis.
Put(e) ==
    /\ last' = [last EXCEPT ![e] = t[e]]
    /\ table' = [table EXCEPT ![e] = t[e]]

\* The thread returns early: the lock was not to be had in 1000 tries, or a Redis
\* command failed.  Its record stays, and last_update, which nobody reads any more,
\* is left at what is in Redis.
Returns(e) ==
    /\ Stop
    /\ \/ pc[e] = "lock" /\ (broken \/ holder \notin {e, None})
          /\ UNCHANGED <<last, table>>
       \/ pc[e] = "beat" /\ Due(e)
          /\ (Put(e) \/ UNCHANGED <<last, table>>)
       \/ pc[e] = "getall" /\ UNCHANGED <<last, table>>
    /\ Goto(e, "dead")
    /\ Drop(e)
    /\ Unlock(e)
    /\ UNCHANGED <<now, cur, wake, up, tasks>>

Beat(e) ==
    /\ pc[e] = "beat"
    /\ IF Due(e) THEN Put(e) ELSE UNCHANGED <<last, table>>
    /\ Goto(e, "getall")
    /\ UNCHANGED <<now, lockVars, t, todo, cur, wake, up, tasks, env>>


\* data.last_update - now > timeout
Expired(e, r) == Minus(r.stamp, t[e]) > Timeout

Records == {[id |-> d, stamp |-> table[d]] : d \in {d \in EC : table[d] # None}}

\* MUTANT: the lock is given up once the records have been read.
GetAllUnlocks(e) ==
    /\ pc[e] = "getall"
    /\ todo' = [todo EXCEPT ![e] = {r \in Records : r.id # e /\ Expired(e, r)}]
    /\ Goto(e, "scan")
    /\ Unlock(e)
    /\ UNCHANGED <<now, table, t, last, cur, wake, up, tasks, env>>

\* The other records are passed over.
GetAll(e) ==
    /\ pc[e] = "getall"
    /\ todo' = [todo EXCEPT ![e] = {r \in Records : r.id # e /\ Expired(e, r)}]
    /\ Goto(e, "scan")
    /\ UNCHANGED <<now, table, lockVars, t, last, cur, wake, up, tasks, env>>

\* removeHeartbeatData, whose failure nobody notices ...
Take(e, r) ==
    /\ pc[e] = "scan"
    /\ todo' = [todo EXCEPT ![e] = @ \ {r}]
    /\ cur' = [cur EXCEPT ![e] = r]
    /\ Goto(e, "post")

Remove(e, r) ==
    /\ Take(e, r)
    /\ table' = [table EXCEPT ![r.id] = None]
    /\ UNCHANGED <<now, lockVars, t, last, wake, up, tasks, env>>

RemoveFails(e, r) ==
    /\ Fault
    /\ Take(e, r)
    /\ UNCHANGED <<now, table, lockVars, t, last, wake, up, tasks>>

\* ... then asyncTask.  Once close() has begun to take the pool away the task may
\* go to a worker that no longer runs, and when the pool is gone there is none.
Post(e) ==
    /\ pc[e] = "post"
    /\ \/ /\ e \in run
          /\ posted' = posted \cup
                 {[by |-> e, id |-> cur[e].id, stamp |-> cur[e].stamp, at |-> t[e]]}
          /\ UNCHANGED dropped
       \/ /\ e \notin pool
          /\ dropped' = dropped \cup {cur[e]}
          /\ UNCHANGED posted
    /\ cur' = [cur EXCEPT ![e] = None]
    /\ Goto(e, "scan")
    /\ UNCHANGED <<now, table, lockVars, t, last, todo, wake, up, env>>

EndRound(e) ==
    /\ pc[e] = "scan"
    /\ todo[e] = {}
    /\ Unlock(e)
    /\ Drop(e)
    /\ wake' = [wake EXCEPT ![e] = now + Nap]
    /\ Goto(e, "sleep")
    /\ UNCHANGED <<now, table, last, cur, up, tasks, env>>

\* removeHeartbeatData(id_), outside the lock.
End(e) ==
    /\ pc[e] = "final"
    /\ table' = [table EXCEPT ![e] = None]
    /\ Goto(e, "ended")
    /\ UNCHANGED <<now, lockVars, locals, up, tasks, env>>

\* It fails, which nobody notices, or the process dies first: the record stays.
EndFails(e) ==
    /\ Stop
    /\ pc[e] = "final"
    /\ Goto(e, "ended")
    /\ UNCHANGED <<now, table, lockVars, locals, up, tasks>>

--------------------------------------------------------------------------------
(* The environment.                                                        *)

\* ErizoController::close() takes the thread pool away ...
ClosePool(e) ==
    /\ Stop
    /\ e \in pool /\ pc[e] \in Alive
    /\ pool' = pool \ {e}
    /\ UNCHANGED <<now, table, lockVars, pc, locals, run, tasks>>

\* ... and then sets run_ = false and joins the thread.
Close(e) ==
    /\ now < MaxTime
    /\ e \in run \ pool
    /\ run' = run \ {e}
    /\ UNCHANGED <<now, table, lockVars, pc, locals, pool, tasks, env>>

\* The process dies.  A holder that dies gives the lock up when its key expires.
Crash(e) ==
    /\ Stop
    /\ pc[e] \in Alive
    /\ Goto(e, "crashed")
    /\ Drop(e)
    /\ Unlock(e)
    /\ wake' = [wake EXCEPT ![e] = 0]
    /\ run' = run \ {e} /\ pool' = pool \ {e}
    /\ UNCHANGED <<now, table, last, cur, tasks>>

Tick ==
    /\ now < MaxTime
    /\ now' = now + 1
    /\ UNCHANGED <<table, lockVars, pc, locals, up, tasks, env>>

--------------------------------------------------------------------------------

Step(e) ==
    \/ Round(e)
    \/ LockOk(e)
    \/ Beat(e)
    \/ GetAll(e)
    \/ \E r \in todo[e] : Remove(e, r)
    \/ Post(e)
    \/ EndRound(e)
    \/ End(e)

Next ==
    \/ \E e \in EC :
           \/ Start(e) \/ Step(e)
           \/ LockBreaks(e) \/ Returns(e) \/ EndFails(e)
           \/ ClosePool(e) \/ Close(e) \/ Crash(e)
           \/ \E r \in todo[e] : RemoveFails(e, r)
    \/ Tick

Spec == Init /\ [][Next]_vars

\* The threads run and the clock does.  A thread that waits for the lock sleeps
\* and tries again: it gets a lock that is free again and again.
Fairness ==
    /\ \A e \in EC : SF_vars(LockOk(e)) /\ WF_vars(Step(e))
    /\ WF_vars(Tick)

FairSpec == Spec /\ Fairness

--------------------------------------------------------------------------------
(* Properties.                                                             *)

\* As long as neither the lock nor the deletion of a record has failed, whoever
\* crashes, no record is cleaned up after twice: the clients of a controller are
\* removed by one other controller, once for each time it is found expired.
CleanedOnce ==
    faults = 0 =>
        \A p, q \in posted : (p.id = q.id /\ p.stamp = q.stamp) => p = q

\* A cleaner deletes by id whatever record is there.  Unless a command of the lock
\* or a deletion has failed, it is the one it has read and found expired, or none:
\* no controller beats between the reading and the deletion, so that no heartbeat
\* is lost, although the clock is read before the lock is waited for and a
\* controller that ends deletes its record without the lock.
JudgedIsCurrent ==
    faults = 0 =>
        \A e \in EC : \A r \in todo[e] : table[r.id] \in {r.stamp, None}

Others(d) == {e \in EC \ {d} : pc[e] \in Alive}

\* One that had just deleted the record of d crashed before it posted the task.
CleanerDied(d) == \E e \in EC : pc[e] = "crashed" /\ cur[e] # None /\ cur[e].id = d

\* One that was closing deleted the record of d when it had no pool for the task.
CleanerClosing(d) == \E r \in dropped : r.id = d /\ (r.stamp = last[d] \/ broken)

\* The last record of d is gone, and its clients are being removed; on account of
\* an earlier record, perhaps, if the lock has failed and d wrote while a cleaner
\* was at work.
Cleaned(d) ==
    /\ table[d] = None
    /\ \/ \E p \in posted : p.id = d /\ (p.stamp = last[d] \/ broken)
       \/ CleanerDied(d) \/ CleanerClosing(d)


\* What is removed has expired (the comments in the loop: "expired" and "clear
\* the expired erizo_controller"): its record was older than the timeout.
OnlyExpiredRemoved ==
    \A p \in posted : p.at - p.stamp > Timeout
================================================================================
