----------------------------- MODULE AmqpRpcProofs -----------------------------
(***************************************************************************)
(* Proofs about AmqpRpc, for any number of callers, any size of the        *)
(* callback queue, any timeout and any number of tries.                    *)
(***************************************************************************)
EXTENDS AmqpRpc, TLAPS

\* allocErizo starts a round only while it has tries left.
TriesLeft == \A c \in Caller : pc[c] = "try" => left[c] > 0

\* A thread in the middle of a callback is in some caller's.
CallKnown == \A t \in Thread : thread[t].at = "done" => thread[t].func \in Caller

\* The caller spins, and nobody raced it for its slot.
Spins(c) == pc[c] = "wait" /\ ~done[c] /\ c \notin raced

\* The slot of such a caller is the caller's, and no thread will free it before
\* it has set the caller's callback_done.
WaitInv ==
    \A c \in Caller : Spins(c) =>
        /\ ts[My(c)] > 0 /\ func[My(c)] = c
        /\ \A t \in Thread : thread[t].slot = My(c) =>
               /\ thread[t].at # "clear"
               /\ thread[t].at = "done" => thread[t].func = c

\* While rpc() fills a slot nobody else fills it or spins for it; and if no
\* thread was past the mutex when the slot was stamped, none is now.
FillInv ==
    \A c \in Caller : pc[c] = "func" =>
        /\ \A d \in Caller \ {c} : (pc[d] = "func" \/ Spins(d)) => My(d) # My(c)
        /\ c \notin raced => ts[My(c)] > 0 /\ \A t \in Thread : ~Past(t, My(c))

\* The inductive invariant.
RpcInv == TypeOK /\ TriesLeft /\ CallKnown /\ WaitInv /\ FillInv

--------------------------------------------------------------------------------
(* Types.                                                                  *)

\* What the receive and the check thread hold on to.
ThreadState ==
    [at : {"idle", "touch", "read", "call", "done", "clear"},
     slot : Slot, time : 0..Now, found : BOOLEAN, func : Caller \cup {None}]

\* The clock is at least 1, and 0 a time stamp.
LEMMA NowType == Now \in Nat /\ Now > 0 /\ Now \in 0..Now /\ 0 \in 0..Now
BY RpcAssumption DEF Now

\* Every index drawn from index_, modulo kQueueSize, is one of a slot.
LEMMA SlotOfType == \A k \in Nat : SlotOf(k) \in Slot
BY RpcAssumption DEF SlotOf, Slot

\* A thread that is done with its slot is ready for the next.
LEMMA DoneType ==
    ASSUME TypeOK, NEW t \in Thread, Done(t)
    PROVE  /\ thread' \in [Thread -> ThreadState]
           /\ thread'[t].at = "idle"
           /\ \A u \in Thread \ {t} : thread'[u] = thread[u]
<1>1. SlotOf(thread[t].slot + 1) \in Slot /\ 0 \in Slot
  <2>1. thread[t].slot \in Nat /\ 0 \in Slot
    BY RpcAssumption DEF TypeOK, Slot
  <2> QED
    BY <2>1, SlotOfType
<1> DEFINE i == IF t = "check" THEN SlotOf(thread[t].slot + 1) ELSE 0
           n == [NewThread EXCEPT !.slot = i]
<1>2. i \in Slot
  BY <1>1
<1> HIDE DEF i
<1>3. n \in ThreadState /\ n.at = "idle"
  BY <1>2, NowType DEF NewThread, ThreadState
<1>4. thread' = [thread EXCEPT ![t] = n]
  BY DEF Done, i
<1>5. thread \in [Thread -> ThreadState]
  BY DEF TypeOK, ThreadState
<1> HIDE DEF n
<1> QED
  BY <1>3, <1>4, <1>5

\* A thread that has run its callback is still at its slot.
LEMMA LeaveType ==
    ASSUME TypeOK, NEW t \in Thread, Leave(t)
    PROVE  /\ thread' \in [Thread -> ThreadState]
           /\ thread'[t].at = "clear" /\ thread'[t].slot = thread[t].slot
           /\ \A u \in Thread \ {t} : thread'[u] = thread[u]
<1> DEFINE i == thread[t].slot
           n == [NewThread EXCEPT !.at = "clear", !.slot = i]
<1>1. thread \in [Thread -> ThreadState] /\ i \in Slot
  BY DEF TypeOK, ThreadState
<1> HIDE DEF i
<1>2. n \in ThreadState /\ n.at = "clear" /\ n.slot = i
  BY <1>1, NowType DEF NewThread, ThreadState
<1>3. thread' = [thread EXCEPT ![t] = n]
  BY DEF Leave, i
<1> HIDE DEF n
<1> QED
  BY <1>1, <1>2, <1>3 DEF i

\* A thread that got past the mutex.
LEMMA TouchType ==
    ASSUME TypeOK, NEW t \in Thread, Touch(t)
    PROVE  /\ thread' \in [Thread -> ThreadState]
           /\ thread'[t].at = "read" /\ thread'[t].slot = thread[t].slot
           /\ \A u \in Thread \ {t} : thread'[u] = thread[u]
<1>1. thread \in [Thread -> ThreadState]
  BY DEF TypeOK, ThreadState
<1> QED
  BY <1>1 DEF Touch, Goto, ThreadState

\* A thread that finds a call to answer.
LEMMA ReadType ==
    ASSUME TypeOK, NEW t \in Thread, Read(t)
    PROVE  /\ thread' \in [Thread -> ThreadState]
           /\ \A u \in Thread \ {t} : thread'[u] = thread[u]
           /\ \/ thread'[t].at = "idle"
              \/ thread'[t].at = "call" /\ thread'[t].slot = thread[t].slot
<1>1. thread \in [Thread -> ThreadState]
  BY DEF TypeOK, ThreadState
<1>2. CASE Done(t)
  BY <1>2, DoneType
<1>3. CASE ~Done(t)
  <2>1. thread' = [thread EXCEPT ![t].at = "call", ![t].time = 0]
    BY <1>3 DEF Read
  <2> DEFINE n == [[thread[t] EXCEPT !.at = "call"] EXCEPT !.time = 0]
  <2>2. n \in ThreadState /\ n.at = "call" /\ n.slot = thread[t].slot
    BY <1>1, NowType DEF ThreadState
  <2>3. thread' = [thread EXCEPT ![t] = n]
    BY <1>1, <2>1
  <2> HIDE DEF n
  <2> QED
    BY <1>1, <2>2, <2>3
<1> QED
  BY <1>2, <1>3

\* The callback of t's slot is called.
LEMMA CallType ==
    ASSUME TypeOK, NEW t \in Thread, Call(t)
    PROVE  LET f == func[thread[t].slot]
           IN  /\ thread' \in [Thread -> ThreadState]
               /\ thread'[t].slot = thread[t].slot
               /\ f = None => thread'[t].at = "clear"
               /\ f # None => /\ f \in Caller /\ thread'[t].func = f
                               /\ thread'[t].at = "done"
               /\ \A u \in Thread \ {t} : thread'[u] = thread[u]
               /\ ret' \in [Caller -> {0, 1}]
<1> DEFINE f == func[thread[t].slot]
<1>1. thread \in [Thread -> ThreadState]
  BY DEF TypeOK, ThreadState
<1>2. f \in Caller \cup {None}
  BY <1>1 DEF TypeOK, ThreadState
<1>3. CASE f = None
  <2>1. Leave(t) /\ ret' = ret
    BY <1>3 DEF Call
  <2> QED
    BY <1>3, <2>1, LeaveType DEF TypeOK
<1>4. CASE f # None
  <2>1. PICK v \in {0, 1} :
            /\ thread' = [thread EXCEPT ![t].at = "done", ![t].func = f]
            /\ ret' = Write(f, ret, v)
    BY <1>4 DEF Call
  <2>2. f \in Caller
    BY <1>2, <1>4
  <2> HIDE DEF f
  <2>3. ret' \in [Caller -> {0, 1}]
    BY <2>1, <2>2 DEF Write, TypeOK
  <2>4. thread' \in [Thread -> ThreadState] /\ thread'[t].slot = thread[t].slot
        /\ thread'[t].at = "done" /\ thread'[t].func = f
        /\ \A u \in Thread \ {t} : thread'[u] = thread[u]
    BY <1>1, <2>1, <2>2 DEF ThreadState
  <2> QED
    BY <1>4, <2>2, <2>3, <2>4 DEF f
<1> QED
  BY <1>3, <1>4

\* A reply reaches the receive thread.
LEMMA ReceiveType ==
    ASSUME TypeOK, NEW i \in Slot, Receive(i)
    PROVE  /\ thread' \in [Thread -> ThreadState] /\ thread'["recv"].at = "touch"
           /\ \A u \in Thread \ {"recv"} : thread'[u] = thread[u]
<1>1. thread \in [Thread -> ThreadState]
  BY DEF TypeOK, ThreadState
<1>2. PICK d \in BOOLEAN :
          thread' = [thread EXCEPT !["recv"] =
              [NewThread EXCEPT !.at = "touch", !.slot = i, !.found = d]]
  BY DEF Receive
<1> DEFINE n == [NewThread EXCEPT !.at = "touch", !.slot = i, !.found = d]
<1>3. n \in ThreadState /\ n.at = "touch"
  BY NowType DEF NewThread, ThreadState
<1> HIDE DEF n
<1> QED
  BY <1>1, <1>2, <1>3 DEF n, Thread

\* The check thread reads the clock.
LEMMA LookType ==
    ASSUME TypeOK, Look
    PROVE  /\ thread' \in [Thread -> ThreadState] /\ thread'["check"].at = "touch"
           /\ \A u \in Thread \ {"check"} : thread'[u] = thread[u]
<1>1. thread \in [Thread -> ThreadState] /\ "check" \in Thread
  BY DEF TypeOK, ThreadState, Thread
<1> DEFINE n == [[thread["check"] EXCEPT !.at = "touch"] EXCEPT !.time = Now]
<1>2. n \in ThreadState /\ n.at = "touch"
  BY <1>1, NowType DEF ThreadState
<1>3. thread' = [thread EXCEPT !["check"] = n]
  BY <1>1 DEF Look
<1> HIDE DEF n
<1> QED
  BY <1>1, <1>2, <1>3

\* When a millisecond passes no stamp in use becomes 0, which would free its slot.
LEMMA TickType ==
    ASSUME TypeOK, Tick
    PROVE  /\ ts' \in [Slot -> 0..Now]
           /\ \A i \in Slot : ts[i] > 0 => ts'[i] > 0
           /\ thread' \in [Thread -> ThreadState]
           /\ \A u \in Thread : /\ thread'[u].at = thread[u].at
                                /\ thread'[u].slot = thread[u].slot
                                /\ thread'[u].func = thread[u].func
<1>1. thread \in [Thread -> ThreadState] /\ "check" \in Thread
  BY DEF TypeOK, ThreadState, Thread
<1>2. \A x \in 0..Now : Older(x) \in 0..Now /\ (x > 1 => Older(x) > 0)
  BY NowType DEF Older
<1>3. /\ ts' = [i \in Slot |-> Older(ts[i])] /\ \A i \in Slot : ts[i] # 1
      /\ thread' = [thread EXCEPT !["check"].time = Older(thread["check"].time)]
  BY DEF Tick
<1>4. \A i \in Slot : ts[i] \in 0..Now /\ (ts[i] > 0 => ts[i] > 1)
  BY <1>3, NowType DEF TypeOK
<1>5. ts' \in [Slot -> 0..Now] /\ \A i \in Slot : ts[i] > 0 => ts'[i] > 0
  BY <1>2, <1>3, <1>4
<1>6. Older(thread["check"].time) \in 0..Now
  BY <1>1, <1>2 DEF ThreadState
<1> DEFINE o == Older(thread["check"].time)
<1> HIDE DEF o
<1>7. /\ thread' \in [Thread -> ThreadState]
      /\ \A u \in Thread : /\ thread'[u].at = thread[u].at
                           /\ thread'[u].slot = thread[u].slot
                           /\ thread'[u].func = thread[u].func
  BY <1>1, <1>3, <1>6 DEF ThreadState
<1> QED
  BY <1>5, <1>7

\* Every step keeps the types: the tries do not run below 0, and no thread leaves
\* the slots.
LEMMA TypeStep ==
    ASSUME TypeOK, TriesLeft, CallKnown, [Next]_vars
    PROVE  TypeOK' /\ TriesLeft' /\ CallKnown'
<1> USE DEF callers, slots, frame
<1>1. /\ thread \in [Thread -> ThreadState]
      /\ \A c \in Caller : My(c) \in Slot
      /\ Now \in 0..Now
  BY NowType DEF TypeOK, ThreadState, My
<1>2. ASSUME NEW c \in Caller, Try(c) PROVE TypeOK' /\ TriesLeft' /\ CallKnown'
  <2>1. left[c] - 1 \in 0..Tries /\ SlotOf(index) \in Slot
    BY <1>2, RpcAssumption, SlotOfType DEF Try, TypeOK, TriesLeft, CallKnown
  <2> QED
    BY <1>2, <2>1 DEF Try, TypeOK, TriesLeft, CallKnown
<1>3. ASSUME NEW c \in Caller, Enter(c) PROVE TypeOK' /\ TriesLeft' /\ CallKnown'
  <2>1. CASE ts[My(c)] = 0
    <3>1. /\ ts' = [ts EXCEPT ![My(c)] = Now] /\ raced' \subseteq raced \cup {c}
          /\ pc' = [pc EXCEPT ![c] = "func"]
          /\ UNCHANGED <<index, func, net, corr, left, done, ret, thread>>
      BY <1>3, <2>1 DEF Enter
    <3>2. ts' \in [Slot -> 0..Now] /\ raced' \subseteq Caller
      BY <1>1, <3>1 DEF TypeOK
    <3> QED
      BY <1>1, <3>1, <3>2 DEF TypeOK, TriesLeft, CallKnown
  <2>2. CASE ts[My(c)] # 0
    <3>1. /\ ret' = [ret EXCEPT ![c] = 1] /\ done' = [done EXCEPT ![c] = TRUE]
          /\ net' = [net EXCEPT ![My(c)] = @ + 1]
          /\ pc' = [pc EXCEPT ![c] = "wait"]
          /\ UNCHANGED <<index, ts, func, corr, left, raced, thread>>
      BY <1>3, <2>2 DEF Enter, Push
    <3>2. done' \in [Caller -> BOOLEAN] /\ ret' \in [Caller -> {0, 1}]
      BY <3>1 DEF TypeOK
    <3>3. net' \in [Slot -> Nat]
      BY <1>1, <3>1 DEF TypeOK
    <3> QED
      BY <3>1, <3>2, <3>3 DEF TypeOK, TriesLeft, CallKnown
  <2> QED
    BY <2>1, <2>2
<1>4. ASSUME NEW c \in Caller, SetFunc(c) PROVE TypeOK' /\ TriesLeft' /\ CallKnown'
  <2>1. net' \in [Slot -> Nat] /\ func' \in [Slot -> Caller \cup {None}]
    BY <1>1, <1>4 DEF SetFunc, Push, TypeOK
  <2> QED
    BY <1>1, <1>4, <2>1 DEF SetFunc, Push, TypeOK, TriesLeft, CallKnown
<1>5. ASSUME NEW c \in Caller, Wake(c) PROVE TypeOK' /\ TriesLeft' /\ CallKnown'
  <2>1. done' \in [Caller -> BOOLEAN]
    <3>1. done' = done \/ done' = [done EXCEPT ![c] = FALSE]
      BY <1>5 DEF Wake, Return
    <3> QED
      BY <3>1 DEF TypeOK
  <2>2. left' \in [Caller -> 0..Tries] /\ raced' \subseteq Caller
    BY <1>5, RpcAssumption DEF Wake, Return, TypeOK
  <2>3. /\ UNCHANGED <<index, ts, func, net, corr, ret, thread>>
        /\ pc' \in [Caller -> {"try", "enter", "func", "wait", "returned"}]
    BY <1>5 DEF Wake, Return, TypeOK
  <2>4. TriesLeft'
    BY <1>5, RpcAssumption DEF Wake, Return, TypeOK, TriesLeft
  <2> QED
    BY <1>1, <2>1, <2>2, <2>3, <2>4 DEF TypeOK, CallKnown
<1>6. ASSUME NEW t \in Thread, Touch(t) PROVE TypeOK' /\ TriesLeft' /\ CallKnown'
  BY <1>1, <1>6, TouchType DEF Touch, TypeOK, TriesLeft, CallKnown, ThreadState
<1>7. ASSUME NEW t \in Thread, Read(t) PROVE TypeOK' /\ TriesLeft' /\ CallKnown'
  BY <1>1, <1>7, ReadType DEF Read, TypeOK, TriesLeft, CallKnown, ThreadState
<1>8. ASSUME NEW t \in Thread, Call(t) PROVE TypeOK' /\ TriesLeft' /\ CallKnown'
  <2>1. /\ thread' \in [Thread -> ThreadState] /\ ret' \in [Caller -> {0, 1}]
        /\ thread'[t].at = "done" => thread'[t].func \in Caller
        /\ \A u \in Thread \ {t} : thread'[u] = thread[u]
    BY <1>8, CallType
  <2> QED
    BY <1>1, <1>8, <2>1 DEF Call, TypeOK, TriesLeft, CallKnown, ThreadState
<1>9. ASSUME NEW t \in Thread, SetDone(t) PROVE TypeOK' /\ TriesLeft' /\ CallKnown'
  <2>1. /\ thread' \in [Thread -> ThreadState] /\ thread'[t].at = "clear"
        /\ \A u \in Thread \ {t} : thread'[u] = thread[u]
    BY <1>9, LeaveType DEF SetDone
  <2> DEFINE f == thread[t].func
  <2>2. f \in Caller /\ done' = Write(f, done, TRUE) /\ done \in [Caller -> BOOLEAN]
    BY <1>9 DEF SetDone, CallKnown, TypeOK
  <2> HIDE DEF f
  <2>3. done' \in [Caller -> BOOLEAN]
    BY <2>2 DEF Write
  <2>4. CallKnown'
    BY <2>1 DEF CallKnown
  <2> QED
    BY <1>1, <1>9, <2>1, <2>3, <2>4 DEF SetDone, TypeOK, TriesLeft, ThreadState
<1>10. ASSUME NEW t \in Thread, Clear(t) PROVE TypeOK' /\ TriesLeft' /\ CallKnown'
  <2>1. /\ thread' \in [Thread -> ThreadState] /\ thread'[t].at = "idle"
        /\ \A u \in Thread \ {t} : thread'[u] = thread[u]
    BY <1>10, DoneType DEF Clear
  <2>2. ts' \in [Slot -> 0..Now]
    BY <1>10, NowType DEF Clear, TypeOK
  <2> QED
    BY <1>1, <1>10, <2>1, <2>2 DEF Clear, TypeOK, TriesLeft, CallKnown, ThreadState
<1>11. CASE Look
  BY <1>1, <1>11, LookType DEF Look, TypeOK, TriesLeft, CallKnown, ThreadState
<1>12. ASSUME NEW i \in Slot, Receive(i) PROVE TypeOK' /\ TriesLeft' /\ CallKnown'
  <2>1. net' \in [Slot -> Nat]
    BY <1>12 DEF Receive, TypeOK
  <2> QED
    BY <1>1, <1>12, <2>1, ReceiveType DEF Receive, TypeOK, TriesLeft, CallKnown, ThreadState
<1>13. ASSUME NEW i \in Slot, Lose(i) PROVE TypeOK' /\ TriesLeft' /\ CallKnown'
  <2>1. net' \in [Slot -> Nat]
    BY <1>13 DEF Lose, TypeOK
  <2> QED
    BY <1>1, <1>13, <2>1 DEF Lose, TypeOK, TriesLeft, CallKnown
<1>14. CASE Tick
  BY <1>1, <1>14, TickType DEF Tick, TypeOK, TriesLeft, CallKnown, ThreadState
<1>15. CASE UNCHANGED vars
  BY <1>15 DEF vars, TypeOK, TriesLeft, CallKnown
<1> QED
  BY <1>2, <1>3, <1>4, <1>5, <1>6, <1>7, <1>8, <1>9, <1>10, <1>11, <1>12, <1>13, <1>14, <1>15
     DEF Next, CallerStep, ThreadStep

\* The invariant holds while nobody has called.
LEMMA RpcInit == Init => RpcInv
<1> SUFFICES ASSUME Init PROVE RpcInv
  OBVIOUS
<1>1. 0 \in Slot /\ NewThread \in ThreadState /\ NewThread.at = "idle"
  BY RpcAssumption, NowType DEF Slot, NewThread, ThreadState
<1>2. TypeOK
  BY <1>1, NowType, RpcAssumption DEF Init, TypeOK, ThreadState
<1>3. TriesLeft /\ WaitInv /\ FillInv
  BY RpcAssumption DEF Init, TriesLeft, WaitInv, FillInv, Spins
<1>4. CallKnown
  BY <1>1 DEF Init, CallKnown, Thread
<1> QED
  BY <1>2, <1>3, <1>4 DEF RpcInv

\* Every variable of the RPC keeps its type: no try is made below zero, no stamp
\* in use ages to 0, and no thread writes into a frame that is not a caller's.
THEOREM RpcTypeCorrect == Spec => []TypeOK
<1>1. Init => TypeOK /\ TriesLeft /\ CallKnown
  BY RpcInit DEF RpcInv
<1>2. TypeOK /\ TriesLeft /\ CallKnown /\ [Next]_vars
          => TypeOK' /\ TriesLeft' /\ CallKnown'
  BY TypeStep
<1> QED
  BY <1>1, <1>2, PTL DEF Spec

--------------------------------------------------------------------------------
(* No lost call.                                                           *)

\* A step of one thread that leaves the callers and the slots alone keeps both
\* parts of the invariant if that thread's new state agrees with them.
LEMMA ThreadMoves ==
    ASSUME RpcInv, NEW t \in Thread, UNCHANGED <<ts, func, pc, corr, raced>>,
           \A c \in Caller : done[c] => done'[c],
           \A u \in Thread \ {t} : thread'[u] = thread[u],
           \A c \in Caller :
               (pc[c] = "wait" /\ ~done'[c] /\ c \notin raced /\ thread'[t].slot = My(c)) =>
                   /\ thread'[t].at # "clear"
                   /\ thread'[t].at = "done" => thread'[t].func = c,
           \A c \in Caller :
               (pc[c] = "func" /\ c \notin raced /\ thread'[t].slot = My(c)) =>
                   thread'[t].at \in {"idle", "touch"}
    PROVE  WaitInv' /\ FillInv'
<1>1. \A c \in Caller : My(c)' = My(c) /\ (Spins(c)' => Spins(c))
  BY DEF My, Spins
<1>2. WaitInv'
  <2> SUFFICES ASSUME NEW c \in Caller, Spins(c)'
               PROVE  /\ ts[My(c)] > 0 /\ func[My(c)] = c
                      /\ \A u \in Thread : thread'[u].slot = My(c) =>
                             /\ thread'[u].at # "clear"
                             /\ thread'[u].at = "done" => thread'[u].func = c
    BY <1>1 DEF WaitInv
  <2>1. /\ ts[My(c)] > 0 /\ func[My(c)] = c
        /\ \A u \in Thread : thread[u].slot = My(c) =>
               /\ thread[u].at # "clear"
               /\ thread[u].at = "done" => thread[u].func = c
    BY <1>1 DEF RpcInv, WaitInv
  <2>2. pc[c] = "wait" /\ ~done'[c] /\ c \notin raced
    BY DEF Spins
  <2> QED
    BY <2>1, <2>2
<1>3. FillInv'
  <2> SUFFICES ASSUME NEW c \in Caller, pc[c] = "func"
               PROVE  /\ \A d \in Caller \ {c} :
                             (pc[d] = "func" \/ Spins(d)') => My(d) # My(c)
                      /\ c \notin raced =>
                             ts[My(c)] > 0 /\ \A u \in Thread : ~Past(u, My(c))'
    BY <1>1 DEF FillInv, Past
  <2>1. /\ \A d \in Caller \ {c} : (pc[d] = "func" \/ Spins(d)) => My(d) # My(c)
        /\ c \notin raced => ts[My(c)] > 0 /\ \A u \in Thread : ~Past(u, My(c))
    BY DEF RpcInv, FillInv
  <2>2. c \notin raced => \A u \in Thread : ~Past(u, My(c))'
    BY <1>1, <2>1 DEF Past
  <2> QED
    BY <1>1, <2>1, <2>2
<1> QED
  BY <1>2, <1>3

\* The steps of the threads keep both parts of the invariant: one that runs a
\* callback read it after it was put into place.
LEMMA ThreadKeeps ==
    ASSUME RpcInv, NEW t \in Thread, ThreadStep(t)
    PROVE  WaitInv' /\ FillInv'
<1>1. /\ TypeOK /\ TriesLeft /\ CallKnown /\ WaitInv /\ FillInv
      /\ thread \in [Thread -> ThreadState]
  BY DEF RpcInv, TypeOK, ThreadState
<1>2. ASSUME Touch(t) PROVE WaitInv' /\ FillInv'
  <2>1. UNCHANGED <<ts, func, pc, corr, raced, done>>
    BY <1>2 DEF Touch, slots, callers, frame
  <2>2. \A c \in Caller : pc[c] = "func" => My(c) # thread[t].slot
    BY <1>2 DEF Touch, Held
  <2> QED
    BY <1>1, <1>2, <2>1, <2>2, TouchType, ThreadMoves
<1>3. ASSUME thread[t].at \notin {"idle", "touch"}
      PROVE  \A c \in Caller : (pc[c] = "func" /\ c \notin raced) => My(c) # thread[t].slot
  BY <1>1, <1>3 DEF FillInv, Past
<1>4. ASSUME Read(t) PROVE WaitInv' /\ FillInv'
  <2>1. UNCHANGED <<ts, func, pc, corr, raced, done>> /\ thread[t].at = "read"
    BY <1>4 DEF Read, slots, callers, frame
  <2> QED
    BY <1>1, <1>3, <1>4, <2>1, ReadType, ThreadMoves
<1>5. ASSUME Call(t) PROVE WaitInv' /\ FillInv'
  <2>1. UNCHANGED <<ts, func, pc, corr, raced, done>> /\ thread[t].at = "call"
    BY <1>5 DEF Call, slots, callers
  <2> DEFINE f == func[thread[t].slot]
  <2>2. /\ thread'[t].slot = thread[t].slot
        /\ f # None => thread'[t].at = "done" /\ thread'[t].func = f
        /\ \A u \in Thread \ {t} : thread'[u] = thread[u]
    BY <1>1, <1>5, CallType
  <2>3. \A c \in Caller : (Spins(c) /\ thread[t].slot = My(c)) => f = c /\ f # None
    BY <1>1, RpcAssumption DEF WaitInv
  <2> HIDE DEF f
  <2> QED
    BY <1>3, <2>1, <2>2, <2>3, ThreadMoves DEF Spins
<1>6. ASSUME SetDone(t) PROVE WaitInv' /\ FillInv'
  <2>1. UNCHANGED <<ts, func, pc, corr, raced>> /\ thread[t].at = "done"
    BY <1>6 DEF SetDone, slots, callers
  <2>2. /\ thread'[t].at = "clear" /\ thread'[t].slot = thread[t].slot
        /\ \A u \in Thread \ {t} : thread'[u] = thread[u]
    BY <1>1, <1>6, LeaveType DEF SetDone
  <2> DEFINE f == thread[t].func
  <2>3. f \in Caller /\ done' = Write(f, done, TRUE) /\ done \in [Caller -> BOOLEAN]
    BY <1>1, <1>6, <2>1 DEF SetDone, CallKnown, TypeOK
  <2>4. \A c \in Caller : (Spins(c) /\ thread[t].slot = My(c)) => f = c
    BY <1>1, <2>1 DEF WaitInv
  <2> HIDE DEF f
  <2>5. \A c \in Caller : done[c] => done'[c]
    BY <2>3 DEF Write
  <2>6. \A c \in Caller :
            (pc[c] = "wait" /\ c \notin raced /\ thread[t].slot = My(c)) => done'[c]
    <3> SUFFICES ASSUME NEW c \in Caller, Spins(c), thread[t].slot = My(c)
                 PROVE  done'[c]
      BY <2>5 DEF Spins
    <3>1. f = c /\ pc[f] # "returned"
      BY <2>4 DEF Spins
    <3>2. done' = [done EXCEPT ![c] = TRUE]
      BY <2>3, <3>1 DEF Write
    <3> QED
      BY <2>3, <3>2
  <2> QED
    BY <1>3, <2>1, <2>2, <2>5, <2>6, ThreadMoves
<1>7. ASSUME Clear(t) PROVE WaitInv' /\ FillInv'
  <2> DEFINE i == thread[t].slot
  <2>1. /\ UNCHANGED <<func, pc, corr, raced, done>> /\ thread[t].at = "clear"
        /\ ts' = [ts EXCEPT ![i] = 0]
    BY <1>7 DEF Clear, callers, frame
  <2>2. /\ thread'[t].at = "idle"
        /\ \A u \in Thread \ {t} : thread'[u] = thread[u]
    BY <1>1, <1>7, DoneType DEF Clear
  <2>3. \A c \in Caller : My(c) = i => ~Spins(c) /\ ~(pc[c] = "func" /\ c \notin raced)
    BY <1>1, <1>3, <2>1 DEF WaitInv
  <2>4. \A c \in Caller : /\ My(c)' = My(c) /\ My(c) \in Slot
                          /\ Spins(c)' <=> Spins(c)
    BY <1>1, <2>1 DEF My, Spins, TypeOK
  <2>5. \A c \in Caller : My(c) # i => ts'[My(c)] = ts[My(c)]
    BY <1>1, <2>1, <2>4 DEF TypeOK
  <2> HIDE DEF i
  <2>6. WaitInv'
    BY <1>1, <2>1, <2>2, <2>3, <2>4, <2>5 DEF WaitInv
  <2>7. FillInv'
    BY <1>1, <2>1, <2>2, <2>3, <2>4, <2>5 DEF FillInv, Past
  <2> QED
    BY <2>6, <2>7
<1> QED
  BY <1>2, <1>4, <1>5, <1>6, <1>7 DEF ThreadStep

\* So do the steps of the callers: one that stamps a slot is the only one to fill
\* it, and nobody spins for a free slot.
LEMMA CallerKeeps ==
    ASSUME RpcInv, NEW c \in Caller, CallerStep(c)
    PROVE  WaitInv' /\ FillInv'
<1>1. /\ TypeOK /\ WaitInv /\ FillInv /\ Now > 0
      /\ \A d \in Caller : My(d) \in Slot
  BY NowType DEF RpcInv, TypeOK, My
<1>2. thread' = thread
  BY DEF CallerStep, Try, Enter, SetFunc, Wake, frame
\* Whatever a caller does that takes no slot: it ends neither filling nor spinning.
<1>3. ASSUME UNCHANGED <<ts, func>>, pc'[c] # "func", ~Spins(c)',
             \A d \in Caller \ {c} :
                 /\ pc'[d] = pc[d] /\ done'[d] = done[d] /\ My(d)' = My(d)
                 /\ d \in raced' <=> d \in raced
      PROVE  WaitInv' /\ FillInv'
  <2>1. \A d \in Caller \ {c} : Spins(d)' <=> Spins(d)
    BY <1>3 DEF Spins
  <2>2. WaitInv'
    BY <1>1, <1>2, <1>3, <2>1 DEF WaitInv
  <2>3. FillInv'
    BY <1>1, <1>2, <1>3, <2>1 DEF FillInv, Past
  <2> QED
    BY <2>2, <2>3
<1>4. ASSUME Try(c) PROVE WaitInv' /\ FillInv'
  <2>1. /\ UNCHANGED <<ts, func>> /\ pc'[c] = "enter" /\ raced' = raced \ {c}
        /\ \A d \in Caller \ {c} : pc'[d] = pc[d] /\ done'[d] = done[d] /\ My(d)' = My(d)
    BY <1>1, <1>4 DEF Try, slots, TypeOK, My
  <2> QED
    BY <1>3, <2>1 DEF Spins
<1>5. ASSUME Wake(c) PROVE WaitInv' /\ FillInv'
  <2>1. /\ UNCHANGED <<ts, func>> /\ pc'[c] \in {"try", "returned"}
        /\ raced' \in {raced, raced \ {c}}
        /\ \A d \in Caller \ {c} : pc'[d] = pc[d] /\ done'[d] = done[d]
        /\ \A d \in Caller : My(d)' = My(d)
    BY <1>1, <1>5 DEF Wake, Return, slots, TypeOK, My
  <2> QED
    BY <1>3, <2>1 DEF Spins
<1>6. ASSUME Enter(c), ts[My(c)] # 0 PROVE WaitInv' /\ FillInv'
  <2>1. /\ UNCHANGED <<ts, func, raced>> /\ pc'[c] = "wait" /\ done'[c]
        /\ \A d \in Caller \ {c} : pc'[d] = pc[d] /\ done'[d] = done[d]
        /\ \A d \in Caller : My(d)' = My(d)
    BY <1>1, <1>6 DEF Enter, Push, TypeOK, My
  <2> QED
    BY <1>3, <2>1 DEF Spins
<1>7. ASSUME Enter(c), ts[My(c)] = 0 PROVE WaitInv' /\ FillInv'
  <2> DEFINE i == My(c)
  <2>1. /\ UNCHANGED <<func, done>> /\ pc'[c] = "func" /\ ts' = [ts EXCEPT ![i] = Now]
        /\ \A d \in Caller \ {c} : pc'[d] = pc[d] /\ (d \in raced' <=> d \in raced)
        /\ \A d \in Caller : My(d)' = My(d)
        /\ c \notin raced' => \A t \in Thread : ~Past(t, i)
    BY <1>1, <1>7 DEF Enter, frame, TypeOK, My
  <2>2. /\ ts'[i] = Now
        /\ \A d \in Caller : My(d) # i => ts'[My(d)] = ts[My(d)]
    BY <1>1, <2>1 DEF TypeOK
  <2>3. \A d \in Caller \ {c} : Spins(d)' <=> Spins(d)
    BY <2>1 DEF Spins
  <2>4. \A d \in Caller : (pc[d] = "func" \/ Spins(d)) => My(d) # i
    BY <1>1, <1>7 DEF WaitInv, Enter, Held
  <2>5. ~Spins(c)'
    BY <2>1 DEF Spins
  <2> HIDE DEF i
  <2>6. WaitInv'
    BY <1>1, <1>2, <2>1, <2>2, <2>3, <2>4, <2>5 DEF WaitInv
  <2>7. FillInv'
    <3> SUFFICES ASSUME NEW e \in Caller, pc'[e] = "func"
                 PROVE  /\ \A d \in Caller \ {e} :
                               (pc'[d] = "func" \/ Spins(d)') => My(d) # My(e)
                        /\ e \notin raced' =>
                               ts'[My(e)] > 0 /\ \A t \in Thread : ~Past(t, My(e))
      BY <1>2, <2>1 DEF FillInv, Past
    <3>1. CASE e = c
      BY <1>1, <2>1, <2>2, <2>3, <2>4, <3>1 DEF i
    <3>2. CASE e # c
      <4>1. pc[e] = "func" /\ My(e) # i
        BY <2>1, <2>4, <3>2
      <4> QED
        BY <1>1, <2>1, <2>2, <2>3, <2>5, <3>2, <4>1 DEF FillInv, i
    <3> QED
      BY <3>1, <3>2
  <2> QED
    BY <2>6, <2>7
<1>8. ASSUME SetFunc(c) PROVE WaitInv' /\ FillInv'
  <2> DEFINE i == My(c)
  <2>1. /\ UNCHANGED <<ts, done, raced>> /\ pc'[c] = "wait" /\ func' = [func EXCEPT ![i] = c]
        /\ \A d \in Caller \ {c} : pc'[d] = pc[d]
        /\ \A d \in Caller : My(d)' = My(d)
        /\ pc[c] = "func"
    BY <1>1, <1>8 DEF SetFunc, Push, frame, TypeOK, My
  <2>2. /\ func'[i] = c
        /\ \A d \in Caller : My(d) # i => func'[My(d)] = func[My(d)]
    BY <1>1, <2>1 DEF TypeOK
  <2>3. /\ \A d \in Caller \ {c} : (pc[d] = "func" \/ Spins(d)) => My(d) # i
        /\ c \notin raced => ts[i] > 0 /\ \A t \in Thread : ~Past(t, i)
    BY <1>1, <2>1 DEF FillInv
  <2>4. /\ \A d \in Caller \ {c} : Spins(d)' <=> Spins(d)
        /\ Spins(c)' => c \notin raced
    BY <2>1 DEF Spins
  <2> HIDE DEF i
  <2>5. WaitInv'
    <3> SUFFICES ASSUME NEW d \in Caller, Spins(d)'
                 PROVE  /\ ts[My(d)] > 0 /\ func'[My(d)] = d
                        /\ \A t \in Thread : thread[t].slot = My(d) =>
                               /\ thread[t].at # "clear"
                               /\ thread[t].at = "done" => thread[t].func = d
      BY <1>2, <2>1 DEF WaitInv
    <3>1. CASE d = c
      BY <2>2, <2>3, <2>4, <3>1 DEF i, Past
    <3>2. CASE d # c
      BY <1>1, <2>2, <2>3, <2>4, <3>2 DEF WaitInv
    <3> QED
      BY <3>1, <3>2
  <2>6. FillInv'
    <3> SUFFICES ASSUME NEW e \in Caller, e # c, pc[e] = "func"
                 PROVE  /\ \A d \in Caller \ {e} :
                               (pc'[d] = "func" \/ Spins(d)') => My(d) # My(e)
                        /\ e \notin raced =>
                               ts[My(e)] > 0 /\ \A t \in Thread : ~Past(t, My(e))
      BY <1>2, <2>1 DEF FillInv, Past
    <3> QED
      BY <1>1, <2>1, <2>3, <2>4 DEF FillInv, i
  <2> QED
    BY <2>5, <2>6
<1> QED
  BY <1>4, <1>5, <1>6, <1>7, <1>8 DEF CallerStep

\* The inductive step.
LEMMA RpcStep ==
    ASSUME RpcInv, [Next]_vars
    PROVE  RpcInv'
<1>1. /\ TypeOK /\ TriesLeft /\ CallKnown /\ WaitInv /\ FillInv
      /\ "check" \in Thread /\ "recv" \in Thread
  BY DEF RpcInv, Thread
<1>2. TypeOK' /\ TriesLeft' /\ CallKnown'
  BY <1>1, TypeStep
<1>3. ASSUME Look PROVE WaitInv' /\ FillInv'
  <2>1. UNCHANGED <<ts, func, pc, corr, raced, done>>
    BY <1>3 DEF Look, slots, callers, frame
  <2> QED
    BY <1>1, <1>3, <2>1, LookType, ThreadMoves
<1>4. ASSUME NEW i \in Slot, Receive(i) PROVE WaitInv' /\ FillInv'
  <2>1. UNCHANGED <<ts, func, pc, corr, raced, done>>
    BY <1>4 DEF Receive, slots, callers, frame
  <2> QED
    BY <1>1, <1>4, <2>1, ReceiveType, ThreadMoves
<1>5. ASSUME NEW i \in Slot, Lose(i) PROVE WaitInv' /\ FillInv'
  BY <1>1, <1>5 DEF Lose, slots, callers, frame, WaitInv, FillInv, My, Spins, Past
<1>6. ASSUME Tick PROVE WaitInv' /\ FillInv'
  <2>1. UNCHANGED <<func, pc, corr, raced, done>>
    BY <1>6 DEF Tick, callers, frame
  <2>2. \A c \in Caller : /\ My(c)' = My(c) /\ My(c) \in Slot
                          /\ Spins(c)' <=> Spins(c)
    BY <1>1, <2>1 DEF My, Spins, TypeOK
  <2>3. /\ \A i \in Slot : ts[i] > 0 => ts'[i] > 0
        /\ \A u \in Thread : /\ thread'[u].at = thread[u].at
                             /\ thread'[u].slot = thread[u].slot
                             /\ thread'[u].func = thread[u].func
    BY <1>1, <1>6, TickType
  <2>4. WaitInv'
    BY <1>1, <2>1, <2>2, <2>3 DEF WaitInv
  <2>5. FillInv'
    BY <1>1, <2>1, <2>2, <2>3 DEF FillInv, Past
  <2> QED
    BY <2>4, <2>5
<1>7. ASSUME UNCHANGED vars PROVE WaitInv' /\ FillInv'
  BY <1>1, <1>7 DEF vars, slots, callers, frame, WaitInv, FillInv, My, Spins, Past
<1>8. WaitInv' /\ FillInv'
  BY <1>3, <1>4, <1>5, <1>6, <1>7, CallerKeeps, ThreadKeeps DEF Next
<1> QED
  BY <1>2, <1>8 DEF RpcInv

\* The only lost wake-ups are those of calls whose slot a thread was already past
\* the mutex of: every other caller that spins in allocErizo has its callback in a
\* stamped slot until a thread has run it to its end.  Nothing is assumed of the
\* clock, of how late a reply comes, or of when a slot is used again.
THEOREM CallsNotLost == Spec => []NoLostCall
<1>1. RpcInv /\ [Next]_vars => RpcInv'
  BY RpcStep
<1>2. RpcInv => NoLostCall
  BY DEF RpcInv, WaitInv, Spins, NoLostCall
<1> QED
  BY <1>1, <1>2, RpcInit, PTL DEF Spec
================================================================================
