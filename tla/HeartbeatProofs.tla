---------------------------- MODULE HeartbeatProofs ----------------------------
(***************************************************************************)
(* Proofs about Heartbeat, for any number of controllers, any timing       *)
(* parameters and any number of crashes.                                   *)
(***************************************************************************)
EXTENDS Heartbeat, TLAPS

\* Clocks do not run ahead, and a thread that posts has a record to post.
ClockInv ==
    /\ now <= MaxTime
    /\ \A e \in EC : t[e] <= now /\ (pc[e] = "post" => cur[e] \in Record)

\* A controller's record bears its last update, and a thread that may write it
\* has read the clock since.
StampInv ==
    \A d \in EC :
        /\ last[d] <= now /\ (table[d] # None => table[d] = last[d])
        /\ pc[d] \in {"lock", "beat"} => last[d] <= t[d]

\* What has been found expired is not newer than the last update.
FoundInv ==
    /\ \A e \in EC : \A r \in todo[e] : r.stamp <= last[r.id]
    /\ \A e \in EC : pc[e] = "post" => cur[e].stamp <= last[cur[e].id]
    /\ \A p \in posted : p.stamp <= last[p.id]

Same(r, p) == r.id = p.id /\ r.stamp = p.stamp

\* Between lock() and unlock().
Inside == {"beat", "getall", "scan", "post"}

\* The lock keeps all but its holder out, and only the holder has records left
\* to remove.
HolderInv ==
    /\ ~broken
    /\ \A e \in EC : pc[e] \in Inside => holder = e
    /\ \A e \in EC : todo[e] # {} => pc[e] \in {"scan", "post"}

\* What has been posted is not in the table, nor about to be posted again.
PostedInv ==
    /\ \A p, q \in posted : Same(p, q) => p = q
    /\ \A p \in posted :
           /\ table[p.id] # p.stamp
           /\ \A e \in EC : \A r \in todo[e] : ~Same(r, p)
           /\ \A e \in EC : pc[e] = "post" => ~Same(cur[e], p)
    /\ \A e \in EC : pc[e] = "post" =>
           /\ table[cur[e].id] # cur[e].stamp
           /\ \A r \in todo[e] : ~Same(cur[e], r)

\* What a cleaner is about to delete is what it has found expired.
JudgedInv == \A e \in EC : \A r \in todo[e] : table[r.id] \in {r.stamp, None}

\* The inductive invariants.
TypeInv == TypeOK /\ ClockInv
OnceInv ==
    /\ TypeInv /\ StampInv /\ FoundInv
    /\ faults = 0 => HolderInv /\ PostedInv /\ JudgedInv

--------------------------------------------------------------------------------
(* Types.                                                                  *)

\* unlock() gives up the caller's own lock and no one else's.
LEMMA UnlockEffect ==
    ASSUME TypeOK, NEW e \in EC, Unlock(e)
    PROVE  /\ holder' \in EC \cup {None} /\ broken' = broken
           /\ holder # e => holder' = holder
           /\ ~broken => holder' # e
BY HeartbeatAssumption DEF Unlock, Lock!Release, lockVars, TypeOK

\* lock() leaves the lock with the caller, unless it has failed before.
LEMMA TakenEffect ==
    ASSUME TypeOK, NEW e \in EC, Taken(e)
    PROVE  /\ holder' \in EC \cup {None} /\ broken' = broken
           /\ ~broken => holder = None /\ holder' = e
           /\ pc' = [pc EXCEPT ![e] = "beat"]
BY DEF Taken, Lock!Acquire, lockVars, TypeOK, Goto

\* A heartbeat is stamped with the time at which the round began.
LEMMA PutEffect ==
    ASSUME TypeInv, NEW e \in EC, Put(e)
    PROVE  /\ table' \in [EC -> 0..MaxTime \cup {None}] /\ last' \in [EC -> Nat]
           /\ last' = [last EXCEPT ![e] = t[e]] /\ table' = [table EXCEPT ![e] = t[e]]
<1>1. t[e] \in 0..MaxTime
  BY HeartbeatAssumption DEF TypeInv, TypeOK, ClockInv
<1> QED
  BY <1>1 DEF Put, TypeInv, TypeOK

\* What a round takes down as expired are records of other controllers.
LEMMA RecordsType ==
    ASSUME TypeInv
    PROVE  /\ Records \subseteq Record
           /\ \A r \in Records : table[r.id] = r.stamp /\ table[r.id] # None
BY HeartbeatAssumption DEF Records, Record, TypeInv, TypeOK

\* Every step keeps the types.
LEMMA TypeStep ==
    ASSUME TypeInv, [Next]_vars
    PROVE  TypeInv'
<1> USE DEF lockVars, env, locals, up, tasks
<1>1. /\ TypeOK /\ ClockInv /\ MaxTime \in Nat /\ Nap \in Nat /\ Interval \in Nat
      /\ MaxFaults \in Nat /\ Alive \subseteq PC
      /\ now \in Nat /\ now <= MaxTime /\ t \in [EC -> Nat]
      /\ stops \in Nat /\ faults \in Nat /\ stops + faults <= MaxFaults
  BY HeartbeatAssumption DEF TypeInv, TypeOK, ClockInv, PC
<1>2. Fault => /\ {stops', faults', stops' + faults'} \subseteq 0..MaxFaults
  BY <1>1 DEF Fault
<1>3. Stop => /\ {stops', faults', stops' + faults'} \subseteq 0..MaxFaults
  BY <1>1 DEF Stop
<1>4. \A e \in EC : Drop(e) => /\ t' \in [EC -> Nat] /\ todo' \in [EC -> SUBSET Record]
                               /\ \A d \in EC : t'[d] <= now
  BY <1>1 DEF Drop, TypeOK, ClockInv
<1>5. ASSUME NEW e \in EC, Start(e) PROVE TypeInv'
  <2>1. pc' \in [EC -> PC] /\ \A d \in EC : pc'[d] = "post" => pc[d] = "post"
    BY <1>1, <1>5 DEF Start, Goto, TypeOK, PC, Alive
  <2> QED
    BY <1>1, <1>5, <2>1 DEF Start, TypeInv, TypeOK, ClockInv
<1>6. ASSUME NEW e \in EC, Round(e) PROVE TypeInv'
  <2>1. /\ pc' \in [EC -> PC] /\ \A d \in EC : pc'[d] = "post" => pc[d] = "post"
        /\ t' \in [EC -> Nat] /\ \A d \in EC : t'[d] <= now
        /\ wake' \in [EC -> Nat]
    BY <1>1, <1>6 DEF Round, Goto, TypeOK, ClockInv, PC, Alive
  <2> QED
    BY <1>1, <1>6, <2>1 DEF Round, TypeInv, TypeOK, ClockInv
<1>7. ASSUME NEW e \in EC, LockOk(e) PROVE TypeInv'
  <2>1. /\ pc' \in [EC -> PC] /\ \A d \in EC : pc'[d] = "post" => pc[d] = "post"
        /\ holder' \in EC \cup {None} /\ broken' = broken
    BY <1>1, <1>7, TakenEffect DEF LockOk, TypeOK, PC, Alive
  <2> QED
    BY <1>1, <1>7, <2>1 DEF LockOk, TypeInv, TypeOK, ClockInv
<1>8. ASSUME NEW e \in EC, LockBreaks(e) PROVE TypeInv'
  <2>1. /\ pc' \in [EC -> PC] /\ \A d \in EC : pc'[d] = "post" => pc[d] = "post"
        /\ holder' = None /\ broken' = TRUE
    BY <1>1, <1>8 DEF LockBreaks, Goto, Lock!Break, TypeOK, PC, Alive
  <2> QED
    BY <1>1, <1>2, <1>8, <2>1 DEF LockBreaks, TypeInv, TypeOK, ClockInv
<1>9. ASSUME NEW e \in EC, Returns(e) PROVE TypeInv'
  <2>1. /\ pc' \in [EC -> PC] /\ \A d \in EC : pc'[d] = "post" => pc[d] = "post"
    BY <1>1, <1>9 DEF Returns, Goto, TypeOK, PC, Alive
  <2>2. table' \in [EC -> 0..MaxTime \cup {None}] /\ last' \in [EC -> Nat]
    BY <1>1, <1>9, PutEffect DEF Returns, TypeInv, TypeOK
  <2>3. holder' \in EC \cup {None} /\ broken' \in BOOLEAN
    BY <1>1, <1>9, UnlockEffect DEF Returns, TypeOK
  <2> QED
    BY <1>1, <1>3, <1>4, <1>9, <2>1, <2>2, <2>3 DEF Returns, TypeInv, TypeOK, ClockInv
<1>10. ASSUME NEW e \in EC, Beat(e) PROVE TypeInv'
  <2>1. /\ pc' \in [EC -> PC] /\ \A d \in EC : pc'[d] = "post" => pc[d] = "post"
    BY <1>1, <1>10 DEF Beat, Goto, TypeOK, PC, Alive
  <2>2. table' \in [EC -> 0..MaxTime \cup {None}] /\ last' \in [EC -> Nat]
    BY <1>1, <1>10, PutEffect DEF Beat, TypeInv, TypeOK
  <2> QED
    BY <1>1, <1>10, <2>1, <2>2 DEF Beat, TypeInv, TypeOK, ClockInv
<1>11. ASSUME NEW e \in EC, GetAll(e) PROVE TypeInv'
  <2>1. /\ pc' \in [EC -> PC] /\ \A d \in EC : pc'[d] = "post" => pc[d] = "post"
    BY <1>1, <1>11 DEF GetAll, Goto, TypeOK, PC, Alive
  <2>2. todo' \in [EC -> SUBSET Record]
    BY <1>1, <1>11, RecordsType DEF GetAll, TypeInv, TypeOK
  <2> QED
    BY <1>1, <1>11, <2>1, <2>2 DEF GetAll, TypeInv, TypeOK, ClockInv
<1>12. ASSUME NEW e \in EC, NEW r \in todo[e], Remove(e, r) \/ RemoveFails(e, r)
       PROVE  TypeInv'
  <2>1. r \in Record /\ r.id \in EC
    BY <1>1 DEF TypeOK, Record
  <2>2. Take(e, r)
    BY <1>12 DEF Remove, RemoveFails
  <2>3. /\ pc' \in [EC -> PC] /\ \A d \in EC \ {e} : pc'[d] = pc[d]
        /\ todo' \in [EC -> SUBSET Record]
        /\ cur' \in [EC -> Record \cup {None}] /\ cur'[e] = r
        /\ \A d \in EC \ {e} : cur'[d] = cur[d]
    BY <1>1, <2>1, <2>2 DEF Take, Goto, TypeOK, PC, Alive
  <2>4. \A d \in EC : pc'[d] = "post" => cur'[d] \in Record
    BY <1>1, <2>1, <2>3 DEF ClockInv
  <2>5. /\ table' \in [EC -> 0..MaxTime \cup {None}]
        /\ {stops', faults', stops' + faults'} \subseteq 0..MaxFaults
    BY <1>1, <1>2, <1>12, <2>1 DEF Remove, RemoveFails, TypeOK
  <2> QED
    BY <1>1, <1>12, <2>3, <2>4, <2>5 DEF Remove, RemoveFails, TypeInv, TypeOK, ClockInv
<1>13. ASSUME NEW e \in EC, Post(e) PROVE TypeInv'
  <2>1. cur[e] \in Record
    BY <1>1, <1>13 DEF Post, ClockInv
  <2>2. /\ posted' \subseteq [by : EC, id : EC, stamp : Nat, at : Nat]
        /\ dropped' \subseteq Record
    BY <1>1, <1>13, <2>1 DEF Post, TypeOK, Record
  <2>3. /\ pc' \in [EC -> PC] /\ pc'[e] = "scan" /\ \A d \in EC \ {e} : pc'[d] = pc[d]
        /\ cur' \in [EC -> Record \cup {None}] /\ \A d \in EC \ {e} : cur'[d] = cur[d]
    BY <1>1, <1>13 DEF Post, Goto, TypeOK, PC, Alive
  <2> QED
    BY <1>1, <1>13, <2>2, <2>3 DEF Post, TypeInv, TypeOK, ClockInv
<1>14. ASSUME NEW e \in EC, EndRound(e) PROVE TypeInv'
  <2>1. /\ pc' \in [EC -> PC] /\ \A d \in EC : pc'[d] = "post" => pc[d] = "post"
        /\ wake' \in [EC -> Nat]
    BY <1>1, <1>14 DEF EndRound, Goto, TypeOK, PC, Alive
  <2>2. holder' \in EC \cup {None} /\ broken' \in BOOLEAN
    BY <1>1, <1>14, UnlockEffect DEF EndRound, TypeOK
  <2> QED
    BY <1>1, <1>4, <1>14, <2>1, <2>2 DEF EndRound, TypeInv, TypeOK, ClockInv
<1>15. ASSUME NEW e \in EC, End(e) \/ EndFails(e) PROVE TypeInv'
  <2>1. /\ pc' \in [EC -> PC] /\ \A d \in EC : pc'[d] = "post" => pc[d] = "post"
        /\ table' \in [EC -> 0..MaxTime \cup {None}]
    BY <1>1, <1>15 DEF End, EndFails, Goto, TypeOK, PC
  <2> QED
    BY <1>1, <1>3, <1>15, <2>1 DEF End, EndFails, TypeInv, TypeOK, ClockInv
<1>16. ASSUME NEW e \in EC, ClosePool(e) \/ Close(e) PROVE TypeInv'
  BY <1>1, <1>3, <1>16 DEF ClosePool, Close, TypeInv, TypeOK, ClockInv
<1>17. ASSUME NEW e \in EC, Crash(e) PROVE TypeInv'
  <2>1. pc' \in [EC -> PC] /\ \A d \in EC : pc'[d] = "post" => pc[d] = "post"
    BY <1>1, <1>17 DEF Crash, Goto, TypeOK, PC
  <2>2. holder' \in EC \cup {None} /\ broken' \in BOOLEAN
    BY <1>1, <1>17, UnlockEffect DEF Crash, TypeOK
  <2>3. wake' \in [EC -> Nat] /\ run' \subseteq EC /\ pool' \subseteq EC
    BY <1>1, <1>17 DEF Crash, TypeOK
  <2> QED
    BY <1>1, <1>3, <1>4, <1>17, <2>1, <2>2, <2>3 DEF Crash, TypeInv, TypeOK, ClockInv
<1>18. CASE Tick
  BY <1>1, <1>18 DEF Tick, TypeInv, TypeOK, ClockInv
<1>19. CASE UNCHANGED vars
  BY <1>1, <1>19 DEF vars, TypeInv, TypeOK, ClockInv
<1> QED
  BY <1>5, <1>6, <1>7, <1>8, <1>9, <1>10, <1>11, <1>12, <1>13, <1>14, <1>15, <1>16, <1>17,
     <1>18, <1>19 DEF Next, Step

\* The types hold before anyone beats.
LEMMA TypeInit == Init => TypeInv
<1> SUFFICES ASSUME Init PROVE TypeInv
  OBVIOUS
<1>1. /\ now \in Nat /\ now <= MaxTime /\ {stops, faults, stops + faults} \subseteq 0..MaxFaults
  BY HeartbeatAssumption DEF Init
<1>2. /\ holder = None /\ broken = FALSE /\ "new" \in PC
      /\ \A e \in EC : pc[e] = "new" /\ t[e] = 0
  BY DEF Init, Lock!Init, PC
<1>3. TypeOK
  <2>1. /\ table \in [EC -> 0..MaxTime \cup {None}] /\ pc \in [EC -> PC]
        /\ cur \in [EC -> Record \cup {None}] /\ todo \in [EC -> SUBSET Record]
    BY <1>2 DEF Init
  <2>2. t \in [EC -> Nat] /\ last \in [EC -> Nat] /\ wake \in [EC -> Nat]
    BY DEF Init
  <2>3. run \subseteq EC /\ pool \subseteq EC /\ posted = {} /\ dropped = {}
    BY DEF Init
  <2> QED
    BY <1>1, <1>2, <2>1, <2>2, <2>3 DEF TypeOK
<1> QED
  BY <1>1, <1>2, <1>3 DEF TypeInv, ClockInv

\* And for good.
LEMMA TypeInvariant == Spec => []TypeInv
BY TypeInit, TypeStep, PTL DEF Spec

\* Every variable of the heartbeat keeps its type, the time stamps among them: no
\* clock reading is ahead of the clock.
THEOREM HeartbeatTypeCorrect == Spec => []TypeOK
<1>1. TypeInv => TypeOK
  BY DEF TypeInv
<1> QED
  BY <1>1, TypeInvariant, PTL

--------------------------------------------------------------------------------
(* No record is cleaned up after twice.                                    *)

\* The stamps of a controller grow, strictly when a new one is written.
LEMMA StampStep ==
    ASSUME TypeInv, StampInv, [Next]_vars
    PROVE  /\ StampInv'
           /\ \A d \in EC :
                  /\ last[d] <= last'[d]
                  /\ \/ table'[d] = table[d]
                     \/ table'[d] = None
                     \/ table'[d] \in Nat /\ table'[d] > last[d]
<1> USE DEF lockVars, env, locals, up, tasks, Goto
<1>1. /\ pc \in [EC -> PC] /\ table \in [EC -> 0..MaxTime \cup {None}]
      /\ t \in [EC -> Nat] /\ last \in [EC -> Nat] /\ now \in Nat /\ None \notin Nat
      /\ \A d \in EC : /\ t[d] <= now /\ last[d] <= now
                       /\ table[d] # None => table[d] = last[d]
                       /\ pc[d] \in {"lock", "beat"} => last[d] <= t[d]
  BY HeartbeatAssumption DEF TypeInv, TypeOK, ClockInv, StampInv
<1>2. \A d \in EC : last[d] <= last[d]
  BY <1>1
<1> DEFINE Goal == /\ StampInv'
                   /\ \A d \in EC :
                          /\ last[d] <= last'[d]
                          /\ \/ table'[d] = table[d]
                             \/ table'[d] = None
                             \/ table'[d] \in Nat /\ table'[d] > last[d]
<1>3. ASSUME UNCHANGED <<now, table, last>>,
             \A d \in EC : pc'[d] \in {"lock", "beat"} => last[d] <= t'[d]
      PROVE  Goal
  BY <1>1, <1>2, <1>3 DEF StampInv
<1>4. ASSUME NEW e \in EC, Start(e) PROVE Goal
  BY <1>1, <1>3, <1>4 DEF Start
<1>5. ASSUME NEW e \in EC, Round(e) PROVE Goal
  BY <1>1, <1>3, <1>5 DEF Round
<1>6. ASSUME NEW e \in EC, LockOk(e) \/ LockBreaks(e) PROVE Goal
  BY <1>1, <1>3, <1>6 DEF LockOk, LockBreaks, Taken
<1>7. ASSUME NEW e \in EC, Put(e), Due(e), pc[e] = "beat", now' = now,
             pc'[e] \notin {"lock", "beat"},
             \A d \in EC \ {e} : pc'[d] = pc[d] /\ t'[d] = t[d]
      PROVE  Goal
  <2>1. /\ last' = [last EXCEPT ![e] = t[e]] /\ table' = [table EXCEPT ![e] = t[e]]
        /\ t[e] \in Nat /\ t[e] <= now
    BY <1>1, <1>7 DEF Put
  <2>2. t[e] # last[e]
    <3> SUFFICES ASSUME t[e] = last[e] PROVE FALSE
      OBVIOUS
    <3>1. Minus(t[e], last[e]) = 0
      BY <1>1, HeartbeatAssumption DEF Minus
    <3> QED
      BY <1>7, <3>1, HeartbeatAssumption DEF Due
  <2>3. t[e] > last[e]
    BY <1>1, <1>7, <2>2
  <2>4. StampInv'
    BY <1>1, <1>7, <2>1 DEF StampInv
  <2> QED
    BY <1>1, <2>1, <2>3, <2>4
<1>8. ASSUME NEW e \in EC, Beat(e) PROVE Goal
  <2>1. CASE Due(e)
    <3>1. /\ Put(e) /\ pc[e] = "beat" /\ now' = now /\ pc'[e] = "getall"
          /\ \A d \in EC \ {e} : pc'[d] = pc[d] /\ t'[d] = t[d]
      BY <1>1, <1>8, <2>1 DEF Beat
    <3> QED
      BY <1>7, <2>1, <3>1
  <2>2. CASE ~Due(e)
    BY <1>1, <1>3, <1>8, <2>2 DEF Beat
  <2> QED
    BY <2>1, <2>2
<1>9. ASSUME NEW e \in EC, Returns(e) PROVE Goal
  <2>1. /\ pc'[e] = "dead" /\ now' = now
        /\ \A d \in EC \ {e} : pc'[d] = pc[d] /\ t'[d] = t[d]
    BY <1>1, <1>9 DEF Returns, Drop
  <2>2. \/ UNCHANGED <<last, table>>
        \/ pc[e] = "beat" /\ Due(e) /\ Put(e)
    BY <1>9 DEF Returns
  <2>3. CASE UNCHANGED <<last, table>>
    BY <1>1, <1>3, <2>1, <2>3
  <2>4. CASE pc[e] = "beat" /\ Due(e) /\ Put(e)
    BY <1>7, <2>1, <2>4
  <2> QED
    BY <2>2, <2>3, <2>4
<1>10. ASSUME NEW e \in EC, GetAll(e) \/ Post(e) PROVE Goal
  BY <1>1, <1>3, <1>10 DEF GetAll, Post
<1>11. ASSUME NEW e \in EC, EndRound(e) \/ Crash(e) PROVE Goal
  BY <1>1, <1>3, <1>11 DEF EndRound, Crash, Drop
<1>12. ASSUME NEW e \in EC, NEW r \in todo[e], Remove(e, r) PROVE Goal
  <2>1. /\ UNCHANGED <<now, last, t>> /\ table' = [table EXCEPT ![r.id] = None]
        /\ \A d \in EC : pc'[d] \in {"lock", "beat"} => pc[d] \in {"lock", "beat"}
    BY <1>1, <1>12 DEF Remove, Take
  <2>2. \A d \in EC : table'[d] = table[d] \/ table'[d] = None
    BY <1>1, <2>1
  <2> QED
    BY <1>1, <1>2, <2>1, <2>2 DEF StampInv
<1>13. ASSUME NEW e \in EC, NEW r \in todo[e], RemoveFails(e, r) PROVE Goal
  BY <1>1, <1>3, <1>13 DEF RemoveFails, Take
<1>14. ASSUME NEW e \in EC, End(e) PROVE Goal
  BY <1>1, <1>2, <1>14 DEF End, StampInv
<1>15. ASSUME (\E e \in EC : EndFails(e) \/ ClosePool(e) \/ Close(e)) \/ UNCHANGED vars
       PROVE  Goal
  BY <1>1, <1>3, <1>15 DEF EndFails, ClosePool, Close, vars
<1>16. ASSUME Tick PROVE Goal
  BY <1>1, <1>2, <1>16 DEF Tick, StampInv
<1> HIDE DEF Goal
<1>17. Goal
  BY <1>4, <1>5, <1>6, <1>8, <1>9, <1>10, <1>11, <1>12, <1>13, <1>14, <1>15, <1>16
     DEF Next, Step
<1> QED
  BY <1>17 DEF Goal

\* What the steps do to the records found expired.
LEMMA FoundSteps ==
    ASSUME TypeInv, [Next]_vars
    PROVE  \/ /\ UNCHANGED <<cur, posted>>
              /\ \A e \in EC : /\ todo'[e] \subseteq todo[e]
                               /\ pc'[e] = "post" => pc[e] = "post"
           \/ \E e \in EC : GetAll(e) \/ Post(e)
           \/ \E e \in EC : \E r \in todo[e] : Remove(e, r) \/ RemoveFails(e, r)
<1> USE DEF lockVars, env, locals, up, tasks, Goto
<1>1. pc \in [EC -> PC] /\ todo \in [EC -> SUBSET Record]
  BY DEF TypeInv, TypeOK
<1> DEFINE Goal == /\ UNCHANGED <<cur, posted>>
                   /\ \A e \in EC : /\ todo'[e] \subseteq todo[e]
                                    /\ pc'[e] = "post" => pc[e] = "post"
<1>2. ASSUME NEW e \in EC, Start(e) \/ Round(e) \/ LockOk(e) \/ LockBreaks(e) PROVE Goal
  BY <1>1, <1>2 DEF Start, Round, LockOk, Taken, LockBreaks
<1>3. ASSUME NEW e \in EC, Beat(e) \/ End(e) \/ EndFails(e) \/ ClosePool(e) \/ Close(e)
      PROVE  Goal
  BY <1>1, <1>3 DEF Beat, End, EndFails, ClosePool, Close
<1>4. ASSUME NEW e \in EC, EndRound(e) \/ Returns(e) \/ Crash(e) PROVE Goal
  BY <1>1, <1>4 DEF EndRound, Returns, Crash, Drop
<1>5. ASSUME Tick \/ UNCHANGED vars PROVE Goal
  BY <1>5 DEF Tick, vars
<1> HIDE DEF Goal
<1> QED
  BY <1>2, <1>3, <1>4, <1>5 DEF Next, Step, Goal

\* What is found, being removed or posted stays at most as new as the last update.
LEMMA FoundStep ==
    ASSUME TypeInv, StampInv, FoundInv, [Next]_vars
    PROVE  FoundInv'
<1> USE DEF lockVars, env, locals, up, tasks, Goto
<1>1. /\ pc \in [EC -> PC] /\ todo \in [EC -> SUBSET Record] /\ last \in [EC -> Nat]
      /\ posted \subseteq [by : EC, id : EC, stamp : Nat, at : Nat]
      /\ cur \in [EC -> Record \cup {None}]
      /\ \A e \in EC : pc[e] = "post" => cur[e] \in Record
      /\ last' \in [EC -> Nat] /\ TypeInv'
  BY TypeStep DEF TypeInv, TypeOK, ClockInv
<1>2. \A d \in EC : last[d] <= last'[d]
  BY StampStep
<1>3. /\ \A e \in EC : \A r \in todo[e] : r.stamp <= last'[r.id]
      /\ \A e \in EC : pc[e] = "post" => cur[e].stamp <= last'[cur[e].id]
      /\ \A p \in posted : p.stamp <= last'[p.id]
  <2>1. ASSUME NEW d \in EC, NEW n \in Nat, n <= last[d] PROVE n <= last'[d]
    BY <1>1, <1>2, <2>1
  <2>2. \A r \in Record : r.id \in EC /\ r.stamp \in Nat
    BY DEF Record
  <2> QED
    BY <1>1, <2>1, <2>2 DEF FoundInv
<1>4. ASSUME UNCHANGED <<cur, posted>>,
             \A e \in EC : todo'[e] \subseteq todo[e] /\ (pc'[e] = "post" => pc[e] = "post")
      PROVE  FoundInv'
  BY <1>3, <1>4 DEF FoundInv
<1>5. ASSUME NEW e \in EC, GetAll(e) PROVE FoundInv'
  <2>1. /\ UNCHANGED <<cur, posted, last>> /\ \A d \in EC : pc'[d] = "post" => pc[d] = "post"
        /\ \A d \in EC \ {e} : todo'[d] = todo[d]
        /\ todo'[e] \subseteq Records
    BY <1>1, <1>5 DEF GetAll
  <2>2. \A r \in Records : r.stamp <= last[r.id]
    <3>1. \A r \in Records : r \in Record /\ table[r.id] = r.stamp /\ table[r.id] # None
      BY RecordsType
    <3>2. \A r \in Records : r.id \in EC /\ r.stamp = last[r.id]
      BY <3>1 DEF Record, StampInv
    <3> QED
      BY <1>1, <3>2
  <2> QED
    BY <1>3, <2>1, <2>2 DEF FoundInv
<1>6. ASSUME NEW e \in EC, NEW r \in todo[e], Remove(e, r) \/ RemoveFails(e, r)
      PROVE  FoundInv'
  <2>1. /\ UNCHANGED <<posted, last>>
        /\ \A d \in EC : todo'[d] \subseteq todo[d]
        /\ cur'[e] = r /\ \A d \in EC \ {e} : cur'[d] = cur[d] /\ pc'[d] = pc[d]
    BY <1>1, <1>6 DEF Remove, RemoveFails, Take
  <2> QED
    BY <1>3, <2>1 DEF FoundInv
<1>7. ASSUME NEW e \in EC, Post(e) PROVE FoundInv'
  <2> DEFINE p0 == [by |-> e, id |-> cur[e].id, stamp |-> cur[e].stamp, at |-> t[e]]
  <2>1. /\ UNCHANGED <<todo, last>> /\ pc[e] = "post" /\ pc'[e] = "scan"
        /\ posted' \subseteq posted \cup {p0}
        /\ \A d \in EC \ {e} : cur'[d] = cur[d] /\ pc'[d] = pc[d]
    BY <1>1, <1>7 DEF Post
  <2>2. p0.stamp <= last'[p0.id]
    BY <1>3, <2>1
  <2> HIDE DEF p0
  <2> QED
    BY <1>3, <2>1, <2>2 DEF FoundInv
<1> QED
  BY <1>4, <1>5, <1>6, <1>7, FoundSteps

\* The lock keeps all but one thread out of the cleaning, as long as it has not
\* failed; whoever leaves it behind, by returning, closing or crashing, has nothing
\* left to remove.
LEMMA HolderStep ==
    ASSUME TypeInv, HolderInv, faults = 0, faults' = 0, [Next]_vars
    PROVE  HolderInv'
<1> USE DEF lockVars, env, locals, up, tasks, Goto
<1>1. /\ pc \in [EC -> PC] /\ todo \in [EC -> SUBSET Record] /\ t \in [EC -> Nat]
      /\ holder \in EC \cup {None} /\ None \notin EC /\ TypeOK
      /\ ~broken
      /\ \A e \in EC : pc[e] \in Inside => holder = e
      /\ \A e \in EC : todo[e] # {} => pc[e] \in {"scan", "post"}
  BY HeartbeatAssumption DEF TypeInv, TypeOK, HolderInv
<1>2. \A d \in EC : pc[d] \in {"scan", "post"} => pc[d] \in Inside
  BY DEF Inside
<1>3. ~Fault
  BY DEF Fault
<1>4. ASSUME NEW e \in EC, UNCHANGED lockVars,
             \A d \in EC \ {e} : pc'[d] = pc[d] /\ todo'[d] = todo[d],
             pc'[e] \in Inside => pc[e] \in Inside,
             todo'[e] # {} => pc'[e] \in {"scan", "post"}
      PROVE  HolderInv'
  BY <1>1, <1>4 DEF HolderInv
<1>5. ASSUME NEW e \in EC, holder # e => holder' = holder, broken' = broken,
             \A d \in EC \ {e} : pc'[d] = pc[d] /\ todo'[d] = todo[d],
             pc'[e] \notin Inside, todo'[e] = {}
      PROVE  HolderInv'
  BY <1>1, <1>5 DEF HolderInv
<1>6. ASSUME NEW e \in EC, Start(e) \/ Round(e) \/ Beat(e) \/ End(e) \/ EndFails(e)
      PROVE  HolderInv'
  <2>1. /\ UNCHANGED <<lockVars, todo>> /\ \A d \in EC \ {e} : pc'[d] = pc[d]
        /\ pc[e] \notin {"scan", "post"}
        /\ pc'[e] \in Inside => pc[e] \in Inside
    BY <1>1, <1>6 DEF Start, Round, Beat, End, EndFails, Inside
  <2> QED
    BY <1>1, <1>4, <2>1
<1>7. ASSUME NEW e \in EC, LockOk(e) PROVE HolderInv'
  <2>1. /\ broken' = broken /\ holder = None /\ holder' = e
        /\ pc' = [pc EXCEPT ![e] = "beat"] /\ pc[e] = "lock" /\ todo' = todo
    BY <1>1, <1>7, TakenEffect DEF LockOk
  <2>2. \A d \in EC : pc[d] \notin Inside /\ todo[d] = {}
    BY <1>1, <1>2, <2>1
  <2> QED
    BY <1>1, <2>1, <2>2 DEF HolderInv
<1>8. ASSUME NEW e \in EC, Returns(e) \/ Crash(e) \/ EndRound(e) PROVE HolderInv'
  <2>1. /\ \A d \in EC \ {e} : pc'[d] = pc[d] /\ todo'[d] = todo[d]
        /\ pc'[e] \notin Inside /\ todo'[e] = {}
    BY <1>1, <1>8 DEF Returns, Crash, EndRound, Drop, Inside
  <2>2. Unlock(e)
    BY <1>8 DEF Returns, Crash, EndRound
  <2>3. (holder # e => holder' = holder) /\ broken' = broken
    BY <1>1, <2>2, UnlockEffect
  <2> QED
    BY <1>5, <2>1, <2>3
<1>9. ASSUME NEW e \in EC, GetAll(e) \/ Post(e) PROVE HolderInv'
  <2>1. /\ UNCHANGED lockVars /\ pc[e] \in Inside /\ pc'[e] = "scan"
        /\ \A d \in EC \ {e} : pc'[d] = pc[d] /\ todo'[d] = todo[d]
    BY <1>1, <1>9 DEF GetAll, Post, Inside
  <2> QED
    BY <1>4, <2>1
<1>10. ASSUME NEW e \in EC, NEW r \in todo[e], Remove(e, r) PROVE HolderInv'
  <2>1. /\ UNCHANGED lockVars /\ pc[e] \in Inside /\ pc'[e] = "post"
        /\ \A d \in EC \ {e} : pc'[d] = pc[d] /\ todo'[d] = todo[d]
    BY <1>1, <1>10 DEF Remove, Take, Inside
  <2> QED
    BY <1>4, <2>1
<1>11. ASSUME (\E e \in EC : ClosePool(e) \/ Close(e)) \/ Tick \/ UNCHANGED vars
       PROVE  HolderInv'
  BY <1>1, <1>11 DEF ClosePool, Close, Tick, vars, HolderInv
<1> QED
  BY <1>3, <1>6, <1>7, <1>8, <1>9, <1>10, <1>11 DEF Next, Step, LockBreaks, RemoveFails

\* The controller that has found a record takes it out of the table before it posts
\* the removal, the lock keeps the others from finding it meanwhile, and what is
\* written later is newer.
LEMMA PostedStep ==
    ASSUME TypeInv, StampInv, FoundInv, HolderInv, PostedInv, faults = 0, faults' = 0,
           [Next]_vars
    PROVE  PostedInv'
<1> USE DEF lockVars, env, locals, up, tasks, Goto
<1>1. /\ pc \in [EC -> PC] /\ todo \in [EC -> SUBSET Record] /\ last \in [EC -> Nat]
      /\ posted \subseteq [by : EC, id : EC, stamp : Nat, at : Nat]
      /\ cur \in [EC -> Record \cup {None}]
      /\ table \in [EC -> 0..MaxTime \cup {None}] /\ None \notin Nat
      /\ \A e \in EC : pc[e] = "post" => cur[e] \in Record
      /\ \A r \in Record : r.id \in EC /\ r.stamp \in Nat
  BY HeartbeatAssumption DEF TypeInv, TypeOK, ClockInv, Record
<1>2. ~Fault
  BY DEF Fault
<1>3. ASSUME NEW d \in EC, NEW n \in Nat, n <= last[d], table[d] # n PROVE table'[d] # n
  <2>1. \/ table'[d] = table[d] \/ table'[d] = None
        \/ table'[d] \in Nat /\ table'[d] > last[d]
    BY StampStep
  <2>2. last[d] \in Nat
    BY <1>1
  <2> QED
    BY <1>1, <1>3, <2>1, <2>2
<1>4. \A p \in posted : p.id \in EC /\ p.stamp \in Nat /\ p.stamp <= last[p.id]
  BY <1>1 DEF FoundInv
<1>5. \A p \in posted : table'[p.id] # p.stamp
  BY <1>3, <1>4 DEF PostedInv
<1>6. \A e \in EC : pc[e] = "post" => table'[cur[e].id] # cur[e].stamp
  BY <1>1, <1>3 DEF PostedInv, FoundInv
<1>7. \A e, d \in EC : pc[e] \in {"scan", "post", "getall"} /\ d # e =>
          todo[d] = {} /\ pc[d] # "post"
  BY DEF HolderInv, Inside
<1>8. ASSUME UNCHANGED <<cur, posted>>,
             \A e \in EC : todo'[e] \subseteq todo[e] /\ (pc'[e] = "post" => pc[e] = "post")
      PROVE  PostedInv'
  BY <1>5, <1>6, <1>8 DEF PostedInv
<1>9. ASSUME NEW e \in EC, GetAll(e) PROVE PostedInv'
  <2>1. /\ UNCHANGED <<cur, posted, table>> /\ pc[e] = "getall" /\ pc'[e] = "scan"
        /\ \A d \in EC \ {e} : todo'[d] = todo[d] /\ pc'[d] = pc[d]
        /\ todo'[e] \subseteq Records
    BY <1>1, <1>9 DEF GetAll
  <2>2. \A d \in EC : pc'[d] # "post"
    BY <1>7, <2>1
  <2>3. \A p \in posted : \A r \in Records : ~Same(r, p)
    BY RecordsType DEF PostedInv, Same
  <2> QED
    BY <1>5, <2>1, <2>2, <2>3 DEF PostedInv
<1>10. ASSUME NEW e \in EC, NEW r \in todo[e], Remove(e, r) PROVE PostedInv'
  <2>1. /\ UNCHANGED posted /\ pc[e] = "scan" /\ pc'[e] = "post"
        /\ \A d \in EC \ {e} : todo'[d] = todo[d] /\ pc'[d] = pc[d] /\ cur'[d] = cur[d]
        /\ todo'[e] = todo[e] \ {r} /\ cur'[e] = r
        /\ table' = [table EXCEPT ![r.id] = None]
    BY <1>1, <1>10 DEF Remove, Take
  <2>2. r \in Record /\ r.id \in EC /\ r.stamp \in Nat
    BY <1>1
  <2>3. table'[r.id] # r.stamp
    BY <1>1, <2>1, <2>2
  <2>4. \A s \in todo'[e] : ~Same(r, s)
    BY <1>1, <2>1, <2>2 DEF Same, Record
  <2>5. \A d \in EC : pc'[d] = "post" => d = e
    BY <1>7, <2>1
  <2>6. \A p \in posted : /\ \A d \in EC : \A s \in todo'[d] : ~Same(s, p)
                          /\ ~Same(r, p)
    BY <2>1 DEF PostedInv
  <2>7. \A d \in EC : pc'[d] = "post" =>
            /\ table'[cur'[d].id] # cur'[d].stamp
            /\ \A s \in todo'[d] : ~Same(cur'[d], s)
    BY <2>1, <2>3, <2>4, <2>5
  <2>8. \A p \in posted : \A d \in EC : pc'[d] = "post" => ~Same(cur'[d], p)
    BY <2>1, <2>5, <2>6
  <2>9. \A p, q \in posted : Same(p, q) => p = q
    BY DEF PostedInv
  <2> QED
    BY <1>5, <2>1, <2>6, <2>7, <2>8, <2>9 DEF PostedInv
<1>11. ASSUME NEW e \in EC, Post(e) PROVE PostedInv'
  <2> DEFINE p0 == [by |-> e, id |-> cur[e].id, stamp |-> cur[e].stamp, at |-> t[e]]
  <2>1. /\ UNCHANGED <<todo, table>> /\ pc[e] = "post" /\ pc'[e] = "scan"
        /\ posted' \subseteq posted \cup {p0}
        /\ \A d \in EC \ {e} : cur'[d] = cur[d] /\ pc'[d] = pc[d]
    BY <1>1, <1>11 DEF Post
  <2>2. p0.id = cur[e].id /\ p0.stamp = cur[e].stamp
    OBVIOUS
  <2> HIDE DEF p0
  <2>3. \A d \in EC : pc'[d] # "post"
    BY <1>7, <2>1
  <2>4. \A d \in EC : \A r \in todo[d] : ~Same(r, p0)
    BY <1>7, <2>1, <2>2 DEF PostedInv, Same
  <2>5. \A p \in posted : ~Same(p, p0) /\ ~Same(p0, p)
    BY <2>1, <2>2 DEF PostedInv, Same
  <2>6. table'[p0.id] # p0.stamp
    BY <1>6, <2>1, <2>2
  <2>7. \A p, q \in posted' : Same(p, q) => p = q
    BY <2>1, <2>5 DEF PostedInv
  <2>8. \A p \in posted' : /\ table'[p.id] # p.stamp
                           /\ \A d \in EC : \A r \in todo'[d] : ~Same(r, p)
    BY <1>5, <2>1, <2>4, <2>6 DEF PostedInv
  <2> QED
    BY <2>3, <2>7, <2>8 DEF PostedInv
<1> QED
  BY <1>2, <1>8, <1>9, <1>10, <1>11, FoundSteps DEF RemoveFails

\* A controller beats only with the lock, and then nobody else is about to delete.
LEMMA JudgedStep ==
    ASSUME TypeInv, HolderInv, JudgedInv, [Next]_vars
    PROVE  JudgedInv'
<1> USE DEF lockVars, env, locals, up, tasks, Goto
<1>1. /\ pc \in [EC -> PC] /\ todo \in [EC -> SUBSET Record]
      /\ table \in [EC -> 0..MaxTime \cup {None}]
      /\ \A r \in Record : r.id \in EC
  BY DEF TypeInv, TypeOK, Record
<1>2. ASSUME \A d \in EC : todo'[d] \subseteq todo[d] /\ table'[d] \in {table[d], None}
      PROVE  JudgedInv'
  BY <1>1, <1>2 DEF JudgedInv
<1>3. ASSUME NEW e \in EC, pc[e] = "beat" PROVE \A d \in EC : todo[d] = {}
  BY <1>3 DEF HolderInv, Inside
<1>4. ASSUME NEW e \in EC, Start(e) \/ Round(e) \/ LockOk(e) \/ LockBreaks(e) \/ Post(e)
      PROVE  JudgedInv'
  BY <1>2, <1>4 DEF Start, Round, LockOk, LockBreaks, Post
<1>5. ASSUME NEW e \in EC, Beat(e) PROVE JudgedInv'
  <2>1. pc[e] = "beat" /\ todo' = todo
    BY <1>5 DEF Beat
  <2> QED
    BY <1>3, <2>1 DEF JudgedInv
<1>6. ASSUME NEW e \in EC, Returns(e) PROVE JudgedInv'
  <2>1. \A d \in EC : todo'[d] \subseteq todo[d]
    BY <1>1, <1>6 DEF Returns, Drop
  <2>2. CASE table' = table
    BY <1>2, <2>1, <2>2
  <2>3. CASE table' # table
    <3>1. pc[e] = "beat"
      BY <1>6, <2>3 DEF Returns
    <3> QED
      BY <1>3, <2>1, <3>1 DEF JudgedInv
  <2> QED
    BY <2>2, <2>3
<1>7. ASSUME NEW e \in EC, GetAll(e) PROVE JudgedInv'
  <2>1. /\ table' = table /\ \A d \in EC \ {e} : todo'[d] = todo[d]
        /\ todo'[e] \subseteq Records
    BY <1>1, <1>7 DEF GetAll
  <2> QED
    BY <2>1, RecordsType DEF JudgedInv
<1>8. ASSUME NEW e \in EC, NEW r \in todo[e], Remove(e, r) \/ RemoveFails(e, r)
      PROVE  JudgedInv'
  <2>1. /\ \A d \in EC : todo'[d] \subseteq todo[d]
        /\ table' = table \/ table' = [table EXCEPT ![r.id] = None]
    BY <1>1, <1>8 DEF Remove, RemoveFails, Take
  <2> QED
    BY <1>1, <1>2, <2>1
<1>9. ASSUME NEW e \in EC, EndRound(e) \/ Crash(e) PROVE JudgedInv'
  BY <1>1, <1>2, <1>9 DEF EndRound, Crash, Drop
<1>10. ASSUME NEW e \in EC, End(e) \/ EndFails(e) \/ ClosePool(e) \/ Close(e)
       PROVE  JudgedInv'
  BY <1>1, <1>2, <1>10 DEF End, EndFails, ClosePool, Close
<1>11. ASSUME Tick \/ UNCHANGED vars PROVE JudgedInv'
  BY <1>2, <1>11 DEF Tick, vars
<1> QED
  BY <1>4, <1>5, <1>6, <1>7, <1>8, <1>9, <1>10, <1>11 DEF Next, Step

\* Nothing is found or posted to begin with.
LEMMA OnceInit == Init => OnceInv
<1> SUFFICES ASSUME Init PROVE OnceInv
  OBVIOUS
<1>1. /\ now \in Nat /\ None \notin EC \cup Nat
      /\ \A e \in EC : /\ pc[e] = "new" /\ todo[e] = {} /\ last[e] = 0 /\ table[e] = None
  BY HeartbeatAssumption DEF Init
<1>2. ~broken /\ posted = {}
  BY DEF Init, Lock!Init
<1>3. StampInv /\ FoundInv
  BY <1>1, <1>2 DEF StampInv, FoundInv
<1>4. HolderInv /\ PostedInv /\ JudgedInv
  BY <1>1, <1>2 DEF HolderInv, PostedInv, JudgedInv, Inside
<1> QED
  BY <1>3, <1>4, TypeInit DEF OnceInv

\* The inductive step.
LEMMA OnceStep == OnceInv /\ [Next]_vars => OnceInv'
<1> SUFFICES ASSUME OnceInv, [Next]_vars PROVE OnceInv'
  OBVIOUS
<1>1. /\ TypeInv /\ StampInv /\ FoundInv
      /\ faults = 0 => HolderInv /\ PostedInv /\ JudgedInv
  BY DEF OnceInv
<1>2. TypeInv' /\ StampInv' /\ FoundInv'
  BY <1>1, TypeStep, StampStep, FoundStep
<1>3. faults' = faults \/ faults' = faults + 1
  BY DEF Next, Step, Start, Round, LockOk, Beat, GetAll, Remove, Post, EndRound, End,
         LockBreaks, Returns, EndFails, ClosePool, Close, Crash, RemoveFails, Tick, Stop,
         Fault, vars, env
<1>4. faults' = 0 => faults = 0
  BY <1>1, <1>3 DEF TypeInv, TypeOK
<1>5. faults' = 0 => HolderInv' /\ PostedInv' /\ JudgedInv'
  BY <1>1, <1>4, HolderStep, PostedStep, JudgedStep
<1> QED
  BY <1>2, <1>5 DEF OnceInv

\* As long as neither the lock nor the deletion of a record has failed, no record
\* is cleaned up after twice, whatever controllers crash, close or lose their
\* heartbeat thread, and wherever they do.
THEOREM NoDoubleCleaning == Spec => []CleanedOnce
<1>1. OnceInv => CleanedOnce
  BY DEF OnceInv, PostedInv, Same, CleanedOnce
<1> QED
  BY <1>1, OnceInit, OnceStep, PTL DEF Spec

\* Nor does a cleaner delete a record that was written after it had judged its
\* controller expired, so that no heartbeat is lost to a cleaning in progress.
THEOREM NoBeatLost == Spec => []JudgedIsCurrent
<1>1. OnceInv => JudgedIsCurrent
  BY DEF OnceInv, JudgedInv, JudgedIsCurrent
<1> QED
  BY <1>1, OnceInit, OnceStep, PTL DEF Spec
================================================================================
