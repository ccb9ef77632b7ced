-------------------------------- MODULE AmqpRpc --------------------------------
(***************************************************************************)
(* rabbitmq/amqp_rpc.cpp as ErizoController::allocErizo uses it: callers   *)
(* that put a callback into the slot index_ % kQueueSize, send a request   *)
(* and spin until the callback has run; the receive thread that runs it    *)
(* with the reply; and the check thread that runs it with null after       *)
(* rabbitmq_timeout.                                                       *)
(*                                                                         *)
(* Those two threads lock the slot's mutex only for a moment: the lock is  *)
(* a temporary that is gone at the end of its statement.  Reading ts,      *)
(* running the callback and clearing ts are therefore separate steps.      *)
(***************************************************************************)
EXTENDS Integers, FiniteSets

CONSTANTS
    Caller,         \* threads in allocErizo, one call of it each
    None,           \* the no-op callback of a new slot
    QueueSize,      \* kQueueSize
    Timeout,        \* Config::rabbitmq_timeout
    Tries,          \* try_time of allocErizo
    Word,           \* 2^64: the arithmetic of the time stamps
    MaxAge          \* bound on the age of a time stamp

ASSUME RpcAssumption ==
    /\ {QueueSize, Tries, Word} \subseteq Nat \ {0}
    /\ Timeout \in Nat
    /\ MaxAge \in Nat /\ Timeout < MaxAge
    /\ None \notin Caller

VARIABLES
    index,          \* index_
    ts, func,       \* cb_queue_: time stamp, 0 when free, and callback of a slot
    net,            \* how many requests or replies are under way for each slot
    pc,             \* where each caller is
    corr,           \* the slot its current request has drawn, corrid
    left,           \* try_time
    done, ret,      \* callback_done and ret, in the frame the callbacks refer to
    thread,         \* the receive and the check thread
    raced           \* callers whose slot some thread was past the mutex of when
                    \* rpc() stamped it: a history variable

frame == <<done, ret>>
callers == <<pc, corr, left, raced>>
slots == <<ts, func>>
vars == <<index, slots, net, callers, frame, thread>>

Slot == 0..(QueueSize - 1)
SlotOf(k) == k % QueueSize
Thread == {"recv", "check"}

\* Utils::getCurrentMs().  Only differences of times matter: the origin moves on
\* with the clock, so that it is the stamps that change when time passes.
Now == MaxAge + 1

TypeOK ==
    /\ index \in Nat
    /\ ts \in [Slot -> 0..Now]
    /\ func \in [Slot -> Caller \cup {None}]
    /\ net \in [Slot -> Nat]
    /\ pc \in [Caller -> {"try", "enter", "func", "wait", "returned"}]
    /\ corr \in [Caller -> Slot]
    /\ left \in [Caller -> 0..Tries]
    /\ done \in [Caller -> BOOLEAN]
    /\ ret \in [Caller -> {0, 1}]
    /\ thread \in [Thread ->
           [at : {"idle", "touch", "read", "call", "done", "clear"},
            slot : Slot, time : 0..Now, found : BOOLEAN,
            func : Caller \cup {None}]]
    /\ raced \subseteq Caller

NewThread == [at |-> "idle", slot |-> 0, time |-> 0, found |-> FALSE, func |-> None]

Init ==
    /\ index = 0
    /\ ts = [i \in Slot |-> 0]
    /\ func = [i \in Slot |-> None]
    /\ net = [i \in Slot |-> 0]
    /\ pc = [c \in Caller |-> "try"]
    /\ corr = [c \in Caller |-> 0]
    /\ left = [c \in Caller |-> Tries]
    /\ done = [c \in Caller |-> FALSE]
    /\ ret = [c \in Caller |-> 1]      \* written before it is first read
    /\ thread = [t \in Thread |-> NewThread]
    /\ raced = {}

--------------------------------------------------------------------------------
(* allocErizo and rpc().                                                   *)

My(c) == corr[c]

\* A thread has let go of the mutex of slot i and is not done with the slot.
Past(t, i) == thread[t].slot = i /\ thread[t].at \notin {"idle", "touch"}

\* The next round of the loop, up to int corrid = index_++ % kQueueSize.
Try(c) ==
    /\ pc[c] = "try"
    /\ left' = [left EXCEPT ![c] = @ - 1]
    /\ done' = [done EXCEPT ![c] = FALSE]
    /\ corr' = [corr EXCEPT ![c] = SlotOf(index)]
    /\ index' = index + 1
    /\ pc' = [pc EXCEPT ![c] = "enter"]
    /\ raced' = raced \ {c}
    /\ UNCHANGED <<slots, net, ret, thread>>

\* rpc() really holds the mutex while it fills the slot.
Held(i) == \E c \in Caller : pc[c] = "func" /\ My(c) = i

\* send_queue_.push.
Push(c) ==
    /\ net' = [net EXCEPT ![My(c)] = @ + 1]
    /\ pc' = [pc EXCEPT ![c] = "wait"]

\* A free slot is stamped before it is given its callback; when the queue is
\* full the callback is run with null, and the request sent all the same.
Enter(c) ==
    /\ pc[c] = "enter"
    /\ ~Held(My(c))
    /\ IF ts[My(c)] = 0
       THEN /\ ts' = [ts EXCEPT ![My(c)] = Now]
            /\ raced' = IF \E t \in Thread : Past(t, My(c)) THEN raced \cup {c} ELSE raced
            /\ pc' = [pc EXCEPT ![c] = "func"]
            /\ UNCHANGED <<net, done, ret>>
       ELSE /\ ret' = [ret EXCEPT ![c] = 1]
            /\ done' = [done EXCEPT ![c] = TRUE]
            /\ Push(c)
            /\ UNCHANGED <<ts, raced>>
    /\ UNCHANGED <<index, func, corr, left, thread>>

\* The callback is in place, and the request goes into the send queue.
SetFunc(c) ==
    /\ pc[c] = "func"
    /\ func' = [func EXCEPT ![My(c)] = c]
    /\ Push(c)
    /\ UNCHANGED <<index, ts, corr, left, raced, frame, thread>>

\* allocErizo returns, and its frame is gone.
Return(c) ==
    /\ pc' = [pc EXCEPT ![c] = "returned"]
    /\ left' = [left EXCEPT ![c] = 0]
    /\ done' = [done EXCEPT ![c] = FALSE]
    /\ raced' = raced \ {c}

\* MUTANT: the loop counts one try too many.
WakePastZero(c) ==
    /\ pc[c] = "wait"
    /\ done[c]
    /\ IF ret[c] = 1 /\ left[c] >= 0
       THEN pc' = [pc EXCEPT ![c] = "try"] /\ UNCHANGED <<left, done, raced>>
       ELSE Return(c)
    /\ UNCHANGED <<index, slots, net, corr, ret, thread>>

\* while (!callback_done) is over: while (ret && try_time).
Wake(c) ==
    /\ pc[c] = "wait"
    /\ done[c]
    /\ IF ret[c] = 1 /\ left[c] > 0
       THEN pc' = [pc EXCEPT ![c] = "try"] /\ UNCHANGED <<left, done, raced>>
       ELSE Return(c)
    /\ UNCHANGED <<index, slots, net, corr, ret, thread>>

--------------------------------------------------------------------------------
(* The receive and the check thread.                                       *)

Goto(t, x) == thread' = [thread EXCEPT ![t].at = x]

\* The callback has run: all the thread still knows is its slot.
Leave(t) ==
    thread' = [thread EXCEPT ![t] =
        [NewThread EXCEPT !.at = "clear", !.slot = thread[t].slot]]

\* A reply for slot i reaches handleCallback, with an erizo or without; which erizo
\* is not told apart.  The agents send back the corrID they were given (external).
Receive(i) ==
    /\ net[i] > 0
    /\ thread["recv"].at = "idle"
    /\ net' = [net EXCEPT ![i] = @ - 1]
    /\ \E d \in BOOLEAN :
           thread' = [thread EXCEPT !["recv"] =
               [NewThread EXCEPT !.at = "touch", !.slot = i, !.found = d]]
    /\ UNCHANGED <<index, slots, callers, frame>>

\* The check thread reads the clock for its next slot.
Look ==
    /\ thread["check"].at = "idle"
    /\ thread' = [thread EXCEPT !["check"].at = "touch", !["check"].time = Now]
    /\ UNCHANGED <<index, slots, net, callers, frame>>

\* MUTANT: the mutex is not waited for.
TouchFree(t) ==
    /\ thread[t].at = "touch"
    /\ Goto(t, "read")
    /\ UNCHANGED <<index, slots, net, callers, frame>>

\* The temporary unique_lock: wait until the mutex is free, keep nothing.
Touch(t) ==
    /\ thread[t].at = "touch"
    /\ ~Held(thread[t].slot)
    /\ Goto(t, "read")
    /\ UNCHANGED <<index, slots, net, callers, frame>>

\* now - cb.ts > timeout, in uint64_t.
TimedOut(i, time) == (time - ts[i]) % Word > Timeout

\* The thread is done with its slot; the check thread goes on to the next.
Done(t) ==
    thread' = [thread EXCEPT ![t] =
        [NewThread EXCEPT !.slot = IF t = "check" THEN SlotOf(thread[t].slot + 1)
                                   ELSE 0]]

Read(t) ==
    LET i == thread[t].slot
    IN  /\ thread[t].at = "read"
        /\ IF ts[i] > 0 /\ (t = "check" => TimedOut(i, thread[t].time))
           THEN thread' = [thread EXCEPT ![t].at = "call", ![t].time = 0]
           ELSE Done(t)
        /\ UNCHANGED <<index, slots, net, callers, frame>>

\* A write into the frame of f, which is the caller's only until it returns: later
\* the write goes into a frame that is gone, and to no caller.
Write(f, var, val) ==
    IF pc[f] = "returned" THEN var ELSE [var EXCEPT ![f] = val]

\* MUTANT: the callback leaves callback_done alone when it is given null.
CallNullUndone(t) ==
    LET f == func[thread[t].slot]
    IN  /\ thread[t].at = "call"
        /\ IF f = None
           THEN Leave(t) /\ UNCHANGED ret
           ELSE /\ IF thread[t].found
                   THEN thread' = [thread EXCEPT ![t].at = "done", ![t].func = f]
                   ELSE Leave(t)
                /\ ret' = Write(f, ret, IF thread[t].found THEN 0 ELSE 1)
        /\ UNCHANGED <<index, slots, net, callers, done>>

\* cb.func is called: it sets ret, to 0 when the reply names an erizo, and then
\* callback_done.  A new slot's callback does nothing.
Call(t) ==
    LET f == func[thread[t].slot]
    IN  /\ thread[t].at = "call"
        /\ IF f = None
           THEN Leave(t) /\ UNCHANGED ret
           ELSE /\ thread' = [thread EXCEPT ![t].at = "done", ![t].func = f]
                /\ ret' = Write(f, ret, IF thread[t].found THEN 0 ELSE 1)
        /\ UNCHANGED <<index, slots, net, callers, done>>

SetDone(t) ==
    /\ thread[t].at = "done"
    /\ done' = Write(thread[t].func, done, TRUE)
    /\ Leave(t)
    /\ UNCHANGED <<index, slots, net, callers, ret>>

Clear(t) ==
    /\ thread[t].at = "clear"
    /\ ts' = [ts EXCEPT ![thread[t].slot] = 0]
    /\ Done(t)
    /\ UNCHANGED <<index, func, net, callers, frame>>

--------------------------------------------------------------------------------
(* The environment.                                                        *)

Lose(i) ==
    /\ net[i] > 0
    /\ net' = [net EXCEPT ![i] = @ - 1]
    /\ UNCHANGED <<index, slots, callers, frame, thread>>

Older(stamp) == IF stamp = 0 THEN 0 ELSE stamp - 1

\* A millisecond passes: every stamp is one further back.
Tick ==
    /\ thread["check"].time # 1
    /\ \A i \in Slot : ts[i] # 1
    /\ ts' = [i \in Slot |-> Older(ts[i])]
    /\ thread' = [thread EXCEPT !["check"].time = Older(@)]
    /\ UNCHANGED <<index, func, net, callers, frame>>

--------------------------------------------------------------------------------

CallerStep(c) == Try(c) \/ Enter(c) \/ SetFunc(c) \/ Wake(c)

ThreadStep(t) == Touch(t) \/ Read(t) \/ Call(t) \/ SetDone(t) \/ Clear(t)

Next ==
    \/ \E c \in Caller : CallerStep(c)
    \/ \E t \in Thread : ThreadStep(t)
    \/ Look
    \/ \E i \in Slot : Receive(i) \/ Lose(i)
    \/ Tick

Spec == Init /\ [][Next]_vars

\* Threads run; nothing makes a reply arrive.  Time passes although the check
\* thread is busy again and again: it sleeps 500ms after each sweep.
Fairness ==
    /\ \A c \in Caller : WF_vars(CallerStep(c))
    /\ WF_vars(ThreadStep("recv"))
    /\ WF_vars(ThreadStep("check") \/ Look)
    /\ SF_vars(Tick)

FairSpec == Spec /\ Fairness

--------------------------------------------------------------------------------
(* Properties.                                                             *)

\* A thread that is about to set callback_done of c.
Waking(c) ==
    \E t \in Thread :
        \/ thread[t].at = "done" /\ thread[t].func = c
        \/ thread[t].at = "call" /\ func[thread[t].slot] = c

\* A wake-up is lost in one way only: a caller spinning in allocErizo still has
\* its callback in a stamped slot, or a thread is about to run that callback,
\* unless some thread was already past the slot's mutex when rpc() took the slot.
\* However a timeout and a late reply to this call, an earlier try or the last
\* call in the slot overlap, and although now - ts may wrap around, nothing else
\* loses a call: a lock that were held to the end of its block would lose none.
NoLostCall ==
    \A c \in Caller :
        (pc[c] = "wait" /\ ~done[c] /\ c \notin raced) =>
            (ts[My(c)] > 0 /\ func[My(c)] = c) \/ Waking(c)

\* A caller that was raced and waits for a callback nobody will run.
Lost(c) == pc[c] = "wait" /\ c \in raced /\ ~done[c] /\ ~Waking(c)

\* Every allocErizo returns, its calls answered with a reply or with null, unless
\* one of them is lost in that way; and every slot is given back, lost calls or
\* not, so that kQueueSize is not used up by replies that never come.  The calls
\* are finitely many: in the end all of them are over, and nothing is taken.
CallsSettle ==
    []<>(/\ \A c \in Caller : pc[c] = "returned" \/ Lost(c)
         /\ \A i \in Slot : ts[i] = 0)
================================================================================
