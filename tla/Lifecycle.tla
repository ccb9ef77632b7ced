------------------------------- MODULE Lifecycle -------------------------------
(***************************************************************************)
(* One controller process from main() to its exit: ErizoController::init   *)
(* starts the thread pool, the threads of AMQPRPC, the signaling receiver, *)
(* the socket.io threads and the heartbeat thread; SIGINT makes main call  *)
(* ErizoController::close, which takes them down in its own order while    *)
(* clients, signaling messages and heartbeats go on.                       *)
(*                                                                         *)
(* Each client has a socket.io thread of its own.  What the handlers do to *)
(* Redis is the subject of Registry and Room, how a call finds its answer  *)
(* that of AmqpRpc: here a handler matters by the components it uses.      *)
(***************************************************************************)
EXTENDS ThreadPool, FiniteSets

CONSTANTS
    Client,         \* clients, by their handler and its socket.io thread
    MaxEvents       \* bound on messages and expired controllers

ASSUME LifecycleAssumption == MaxEvents \in Nat

\* event: sends to a client; ready: posts another task; command: sends to an erizo
ASSUME KindAssumption == Kind = {"event", "ready", "command"}

VARIABLES
    main,           \* where main() is, through init() and close()
    signalled,      \* ~run of main.cpp
    up,             \* components that are initialised and not yet reset
    run,            \* those whose run_ is set
    sender,         \* the send threads of SocketIOServer and AMQPRPC
    pending,        \* the ones whose send_queue_ is not empty
    rpcUp,          \* the other threads of AMQPRPC that are alive
    poster,         \* the threads that post tasks: signaling and heartbeat
    chosen,         \* the worker each of them has got, or 0
    io,             \* where the socket.io threads are
    hdl,            \* the clients' handlers in clients_
    bound,          \* the controller's callbacks each handler has copied
    joined,         \* clients whose token was accepted
    removed,        \* how often removeClient was called for each
    events          \* messages and expired controllers so far

queues == <<sender, pending>>
clients == <<io, hdl, bound, joined, removed>>
ctl == <<main, signalled, up, run>>
posters == <<poster, chosen>>
vars == <<poolVars, ctl, queues, rpcUp, posters, clients, events>>

Sender == {"sio", "rpc"}
Poster == {"sig", "hb"}

InitOrder == <<"pool", "started", "sig", "sio", "onMessage", "onClose", "hb", "loop">>

\* MUTANT: AMQPRPC is closed before the socket.io server that uses it.
CloseOrderRpcFirst ==
    <<"workers", "drain", "notify", "reset", "stopHb", "joinHb",
      "stopRpc", "notifyRpc", "joinRpc",
      "stopSio", "notifySio", "joinSio", "sweep",
      "stopSig", "joinSig", "end">>

\* The order of ErizoController::close() and of what it calls.
CloseOrder ==
    <<"workers", "drain", "notify", "reset", "stopHb", "joinHb",
      "stopSio", "notifySio", "joinSio", "sweep",
      "stopRpc", "notifyRpc", "joinRpc",
      "stopSig", "joinSig", "end">>

Steps(order) == {order[i] : i \in DOMAIN order}
Final == {"end", "failed", "crashed"}

TypeOK ==
    /\ PoolTypeOK
    /\ main \in Steps(InitOrder) \cup Steps(CloseOrder) \cup Final
    /\ signalled \in BOOLEAN
    /\ up \subseteq Sender \cup {"sig"}
    /\ run \subseteq Sender \cup Poster
    /\ sender \in [Sender -> {"off", "top", "tested", "wait", "done"}]
    /\ pending \subseteq Sender
    /\ rpcUp \subseteq {"check", "recv"}
    /\ poster \in [Poster -> {"off", "top", "tested", "got", "done"}]
    /\ chosen \in [Poster -> Worker \cup {0}]
    /\ io \in [Client -> {"off", "poll", "token", "lost", "done"}]
    /\ hdl \in [Client -> {"none", "open", "gone", "lost"}]
    /\ bound \in [Client -> SUBSET {"message", "close"}]
    /\ joined \subseteq Client
    /\ removed \in [Client -> Nat]
    /\ events \in 0..MaxEvents

Init ==
    /\ PoolInit
    /\ main = "pool"
    /\ signalled = FALSE
    /\ up = {} /\ run = {}
    /\ sender = [q \in Sender |-> "off"]
    /\ pending = {}
    /\ rpcUp = {}
    /\ poster = [t \in Poster |-> "off"]
    /\ chosen = [t \in Poster |-> 0]
    /\ io = [c \in Client |-> "off"]
    /\ hdl = [c \in Client |-> "none"]
    /\ bound = [c \in Client |-> {}]
    /\ joined = {}
    /\ removed = [c \in Client |-> 0]
    /\ events = 0

\* main reaches the step after s in its order.
Advance(order, s) ==
    /\ main = s
    /\ \E i \in DOMAIN order : order[i] = s /\ main' = order[i + 1]

--------------------------------------------------------------------------------
(* The send threads of SocketIOServer and AMQPRPC are alike.               *)

\* MUTANT: a push does not notify.
PushSilently(qs) ==
    /\ pending' = pending \cup qs
    /\ UNCHANGED sender

\* Under the mutex of the queue, which the send thread holds while it drains the
\* queue and until it waits: it is woken whenever it waits.
Push(qs) ==
    /\ pending' = pending \cup qs
    /\ sender' = [q \in Sender |->
           IF q \in qs /\ sender[q] = "wait" THEN "top" ELSE sender[q]]

\* while (run_)
SendTest(q) ==
    /\ sender[q] = "top"
    /\ sender' = [sender EXCEPT ![q] = IF q \in run THEN "tested" ELSE "done"]
    /\ UNCHANGED <<poolVars, ctl, pending, rpcUp, posters, clients, events>>

\* The lock, the loop that empties the queue, and the wait.
SendAll(q) ==
    /\ sender[q] = "tested"
    /\ pending' = pending \ {q}
    /\ sender' = [sender EXCEPT ![q] = "wait"]
    /\ UNCHANGED <<poolVars, ctl, rpcUp, posters, clients, events>>

\* close() clears run_ and notifies without the mutex: a thread that has tested
\* run_ and not yet begun to wait misses it.
Notify(q) ==
    /\ sender' = [sender EXCEPT ![q] = IF @ = "wait" THEN "top" ELSE @]
    /\ UNCHANGED pending

--------------------------------------------------------------------------------
(* main(), through init().                                                 *)

InitPool ==
    /\ Advance(InitOrder, "pool")
    /\ Construct
    /\ UNCHANGED <<signalled, up, run, queues, rpcUp, posters, clients, events>>

\* start() returns; AMQPRPC::init follows.
InitRpc ==
    /\ main = "started" /\ Started
    /\ \/ /\ main' = "sig"
          /\ up' = up \cup {"rpc"} /\ run' = run \cup {"rpc"}
          /\ rpcUp' = {"check", "recv"}
          /\ sender' = [sender EXCEPT !["rpc"] = "top"]
       \/ /\ main' = "failed"       \* AMQPCli::init
          /\ UNCHANGED <<up, run, rpcUp, sender>>
    /\ UNCHANGED <<poolVars, signalled, pending, posters, clients, events>>

InitSig ==
    /\ main = "sig"
    /\ \/ /\ main' = "sio"
          /\ up' = up \cup {"sig"} /\ run' = run \cup {"sig"}
          /\ poster' = [poster EXCEPT !["sig"] = "top"]
       \/ /\ main' = "failed"
          /\ UNCHANGED <<up, run, poster>>
    /\ UNCHANGED <<poolVars, signalled, queues, rpcUp, chosen, clients, events>>

\* SocketIOServer::init does not wait for its threads to listen.
InitSio ==
    /\ Advance(InitOrder, "sio")
    /\ up' = up \cup {"sio"} /\ run' = run \cup {"sio"}
    /\ io' = [c \in Client |-> "poll"]
    /\ sender' = [sender EXCEPT !["sio"] = "top"]
    /\ UNCHANGED <<poolVars, signalled, pending, rpcUp, posters, hdl, bound, joined, removed, events>>

\* on_message_hdl_, then on_close_hdl_: until then the server's own ones are in
\* place, which refuse a message and ignore a close, and which whoever connects
\* keeps for good.
SetHandler ==
    /\ \/ Advance(InitOrder, "onMessage")
       \/ Advance(InitOrder, "onClose")
    /\ UNCHANGED <<poolVars, signalled, up, run, queues, rpcUp, posters, clients, events>>

MessageSet == main \notin Steps(InitOrder) \ {"onClose", "hb", "loop"}
CloseSet == main \notin Steps(InitOrder) \ {"hb", "loop"}

InitHb ==
    /\ Advance(InitOrder, "hb")
    /\ run' = run \cup {"hb"}
    /\ poster' = [poster EXCEPT !["hb"] = "top"]
    /\ UNCHANGED <<poolVars, signalled, up, queues, rpcUp, chosen, clients, events>>

\* while (run) sleep(10000).  The signal ends the sleep, or comes too early for
\* it: then the sleep ends by itself.
Loop ==
    /\ main = "loop"
    /\ signalled
    /\ main' = CloseOrder[1]
    /\ UNCHANGED <<poolVars, signalled, up, run, queues, rpcUp, posters, clients, events>>

Signal ==
    /\ ~signalled
    /\ signalled' = TRUE
    /\ UNCHANGED <<poolVars, main, up, run, queues, rpcUp, posters, clients, events>>

--------------------------------------------------------------------------------
(* main(), through close().                                                *)

ClosePool ==
    /\ \/ main = "workers" /\ UNCHANGED main /\ \E w \in Worker : CloseWorker(w)
       \/ AllJoined /\ Advance(CloseOrder, "workers") /\ UNCHANGED poolVars
       \/ Advance(CloseOrder, "drain") /\ Drain
       \/ Advance(CloseOrder, "notify") /\ NotifyAll
       \/ ServiceDone /\ Advance(CloseOrder, "reset") /\ Reset
    /\ UNCHANGED <<signalled, up, run, queues, rpcUp, posters, clients, events>>

CloseHb ==
    /\ \/ Advance(CloseOrder, "stopHb") /\ run' = run \ {"hb"}
       \/ poster["hb"] = "done" /\ Advance(CloseOrder, "joinHb") /\ UNCHANGED run
    /\ UNCHANGED <<poolVars, signalled, up, queues, rpcUp, posters, clients, events>>

CloseSio ==
    /\ \/ Advance(CloseOrder, "stopSio") /\ run' = run \ {"sio"} /\ UNCHANGED queues
       \/ Advance(CloseOrder, "notifySio") /\ Notify("sio") /\ UNCHANGED run
       \/ sender["sio"] = "done" /\ Advance(CloseOrder, "joinSio")
             /\ UNCHANGED <<run, queues>>
    /\ UNCHANGED <<poolVars, signalled, up, rpcUp, posters, clients, events>>

\* MUTANT: the threads are not joined.
IoDoneAnyway == TRUE

IoDone == \A c \in Client : io[c] = "done"

\* removeClient for those of cs whose handler has the controller's callback; the
\* others only go.
Remove(cs) ==
    LET known == {c \in cs : "close" \in bound[c]}
    IN  /\ hdl' = [c \in Client |-> IF c \in known THEN "gone"
                                    ELSE IF c \in cs THEN "lost" ELSE hdl[c]]
        /\ removed' = [c \in Client |-> removed[c] + IF c \in known THEN 1 ELSE 0]
        /\ Push(IF known \cap joined # {} THEN {"rpc"} ELSE {})

\* The clients that are left, once the threads are joined.
Sweep ==
    /\ IoDone
    /\ Advance(CloseOrder, "sweep")
    /\ Remove({c \in Client : hdl[c] = "open"})
    /\ up' = up \ {"sio"}
    /\ UNCHANGED <<poolVars, signalled, run, rpcUp, posters, io, bound, joined, events>>

\* What is left in send_queue_ is dropped.
CloseRpc ==
    /\ \/ Advance(CloseOrder, "stopRpc") /\ run' = run \ {"rpc"} /\ UNCHANGED <<queues, up>>
       \/ rpcUp = {} /\ Advance(CloseOrder, "notifyRpc") /\ Notify("rpc")
             /\ UNCHANGED <<run, up>>
       \/ sender["rpc"] = "done" /\ Advance(CloseOrder, "joinRpc")
             /\ up' = up \ {"rpc"} /\ pending' = pending \ {"rpc"}
             /\ UNCHANGED <<run, sender>>
    /\ UNCHANGED <<poolVars, signalled, rpcUp, posters, clients, events>>

CloseSig ==
    /\ \/ Advance(CloseOrder, "stopSig") /\ run' = run \ {"sig"} /\ UNCHANGED up
       \/ poster["sig"] = "done" /\ Advance(CloseOrder, "joinSig") /\ up' = up \ {"sig"}
             /\ UNCHANGED run
    /\ UNCHANGED <<poolVars, signalled, queues, rpcUp, posters, clients, events>>

Main ==
    \/ InitPool \/ InitRpc \/ InitSig \/ InitSio \/ SetHandler \/ InitHb \/ Loop
    \/ ClosePool \/ CloseHb \/ CloseSio \/ Sweep \/ CloseRpc \/ CloseSig

--------------------------------------------------------------------------------
(* The other threads.                                                      *)

\* The check and the receive thread of AMQPRPC.  A thread that returns early, here
\* when its connection breaks, is one that does nothing more before it is joined.
RpcThread(r) ==
    /\ r \in rpcUp
    /\ "rpc" \notin run
    /\ rpcUp' = rpcUp \ {r}
    /\ UNCHANGED <<poolVars, ctl, queues, posters, clients, events>>

\* asyncTask, called for a signaling message or an expired controller: the test of
\* thread_pool_.  No erizo knows this controller before a client has joined.
Receive(t) ==
    /\ poster[t] = "top"
    /\ t = "sig" => joined # {}
    /\ events < MaxEvents
    /\ events' = events + 1
    /\ poster' = [poster EXCEPT ![t] = IF pool = "up" THEN "tested" ELSE "top"]
    /\ UNCHANGED <<poolVars, ctl, queues, rpcUp, chosen, clients>>

\* getSequenceWorker.  On a pool that is gone by now anything may happen: the
\* process dies, or what is left of the pool is taken for one.
GetWorker(t) ==
    /\ poster[t] = "tested"
    /\ \/ /\ pool = "up"
          /\ \E w \in Sequence : chosen' = [chosen EXCEPT ![t] = w]
          /\ poster' = [poster EXCEPT ![t] = "got"]
          /\ UNCHANGED main
       \/ /\ pool = "gone"
          /\ \/ main' = "crashed" /\ UNCHANGED poster
             \/ poster' = [poster EXCEPT ![t] = "top"] /\ UNCHANGED main
          /\ UNCHANGED chosen
    /\ UNCHANGED <<poolVars, signalled, up, run, queues, rpcUp, clients, events>>

PostTask(t) ==
    /\ poster[t] = "got"
    /\ \E k \in (IF t = "hb" THEN {"command"} ELSE {"event", "ready"}) :
           tasks' = Posted(tasks, chosen[t], k)
    /\ poster' = [poster EXCEPT ![t] = "top"]
    /\ chosen' = [chosen EXCEPT ![t] = 0]
    /\ UNCHANGED <<pool, worker, closed, sched, draining, ctl, queues, rpcUp, clients, events>>

\* The loop ends.
Leave(t) ==
    /\ poster[t] = "top"
    /\ t \notin run
    /\ poster' = [poster EXCEPT ![t] = "done"]
    /\ UNCHANGED <<poolVars, ctl, queues, rpcUp, chosen, clients, events>>

\* A worker runs its next task.  A ready task, if it gets the room lock, posts
\* another one by asyncTask: no worker outlives the pool.
RunTask(w) ==
    /\ Running(w)
    /\ LET k == Head(tasks[w]).kind
           rest == [tasks EXCEPT ![w] = Tail(@)]
       IN  \/ k = "event" /\ tasks' = rest /\ Push({"sio"})
           \/ k = "command" /\ tasks' = rest /\ Push({"rpc"})
           \/ k = "ready" /\ tasks' = rest /\ UNCHANGED queues
           \/ k = "ready" /\ UNCHANGED queues
                /\ \E v \in Sequence : tasks' = Posted(rest, v, "command")
    /\ UNCHANGED <<pool, worker, closed, sched, draining, ctl, rpcUp, posters, clients, events>>

PoolThread ==
    /\ \/ \E w \in Worker : Promise(w) \/ Enter(w) \/ Exit(w)
       \/ \E s \in Service : ServiceStep(s)
    /\ UNCHANGED <<ctl, queues, rpcUp, posters, clients, events>>

\* The new handler copies the callbacks that are in place.
Connect(c) ==
    /\ io[c] = "poll" /\ hdl[c] = "none"
    /\ hdl' = [hdl EXCEPT ![c] = "open"]
    /\ bound' = [bound EXCEPT ![c] =
           (IF MessageSet THEN {"message"} ELSE {}) \cup (IF CloseSet THEN {"close"} ELSE {})]
    /\ UNCHANGED <<poolVars, ctl, queues, rpcUp, posters, io, joined, removed, events>>

\* handleToken up to the wait in allocErizo.
Token(c) ==
    /\ io[c] = "poll" /\ hdl[c] = "open" /\ c \notin joined
    /\ "message" \in bound[c]
    /\ events < MaxEvents /\ events' = events + 1
    /\ Push({"rpc"})
    /\ io' = [io EXCEPT ![c] = "token"]
    /\ UNCHANGED <<poolVars, ctl, rpcUp, posters, hdl, bound, joined, removed>>

\* The call is answered, or found too old as often as it was tried: for both the
\* check thread has to be there.
Answer(c) ==
    /\ io[c] = "token"
    /\ "check" \in rpcUp
    /\ io' = [io EXCEPT ![c] = "poll"]
    /\ joined' \in {joined, joined \cup {c}}
    /\ UNCHANGED <<poolVars, ctl, queues, rpcUp, posters, hdl, bound, removed, events>>

\* Or it is lost, as AmqpRpc shows, and the thread spins in allocErizo for ever.
LoseCall(c) ==
    /\ io[c] = "token"
    /\ io' = [io EXCEPT ![c] = "lost"]
    /\ UNCHANGED <<poolVars, ctl, queues, rpcUp, posters, hdl, bound, joined, removed, events>>

\* publish, subscribe and signaling_message send commands.
Media(c) ==
    /\ io[c] = "poll" /\ hdl[c] = "open" /\ c \in joined
    /\ events < MaxEvents /\ events' = events + 1
    /\ Push({"rpc"})
    /\ UNCHANGED <<poolVars, ctl, rpcUp, posters, clients>>

\* onDisconnection: the close callback, then the handler is erased and deleted.
Disconnect(c) ==
    /\ io[c] = "poll" /\ hdl[c] = "open"
    /\ Remove({c})
    /\ UNCHANGED <<poolVars, ctl, rpcUp, posters, io, bound, joined, events>>

IoExit(c) ==
    /\ io[c] = "poll"
    /\ "sio" \notin run
    /\ io' = [io EXCEPT ![c] = "done"]
    /\ UNCHANGED <<poolVars, ctl, queues, rpcUp, posters, hdl, bound, joined, removed, events>>

--------------------------------------------------------------------------------

\* Once main() has returned, or the process died, its threads are gone.
Alive == main \notin Final

\* What a thread does of itself.
ThreadStep ==
    \/ Main \/ PoolThread
    \/ \E w \in Worker : RunTask(w)
    \/ \E q \in Sender : SendTest(q) \/ SendAll(q)
    \/ \E r \in rpcUp : RpcThread(r)
    \/ \E t \in Poster : GetWorker(t) \/ PostTask(t) \/ Leave(t)
    \/ \E c \in Client : Answer(c) \/ IoExit(c)

Next ==
    /\ Alive
    /\ \/ ThreadStep
       \/ Signal
       \/ \E t \in Poster : Receive(t)
       \/ \E c \in Client :
              Connect(c) \/ Token(c) \/ LoseCall(c) \/ Media(c) \/ Disconnect(c)

Spec == Init /\ [][Next]_vars

\* As long as a thread can go on, one does.  Every thread would run, but as events
\* are bounded none goes on for ever, and this much is enough.  Nothing says that
\* clients, messages or the signal come, or that anything fails.  A call that is
\* not lost is settled while the check thread runs, as AmqpRpc shows.
Fairness == WF_vars(Alive /\ ThreadStep)

FairSpec == Spec /\ Fairness

--------------------------------------------------------------------------------
(* Properties.                                                             *)

\* Whoever may still use a component finds it there: workers with tasks need the
\* socket.io server and AMQPRPC, a client's thread and the final sweep AMQPRPC
\* and the signaling receiver; and when main goes on to close Redis no thread is
\* left that could use it.
UsersGone ==
    /\ \A w \in Worker : Running(w) => {"sio", "rpc"} \subseteq up
    /\ \A c \in Client :
           (io[c] \in {"token", "lost"} \/ (hdl[c] = "open" /\ (io[c] = "poll" \/ main = "sweep")))
               => {"rpc", "sig"} \subseteq up
    /\ main = "end" =>
           /\ \A w \in Worker : Gone(w)
           /\ ServiceDone /\ IoDone /\ rpcUp = {}
           /\ \A q \in Sender : sender[q] = "done"
           /\ \A t \in Poster : poster[t] = "done"

\* A process that shuts down in order has removed every client exactly once, by its
\* disconnection or by the final sweep, if the client connected after the close
\* handler was set.  One that came before is never removed, even if it has joined:
\* no client is removed twice, and that is the only way for one to be left.
RemovedOnce ==
    main = "end" =>
        \A c \in Client :
            IF "close" \in bound[c] THEN hdl[c] = "gone" /\ removed[c] = 1
            ELSE hdl[c] \in {"none", "lost"} /\ removed[c] = 0

\* A send thread missed the notification of close() and waits for ever.
Missed ==
    \/ main = "joinSio" /\ sender["sio"] = "wait"
    \/ main = "joinRpc" /\ sender["rpc"] = "wait"

\* A client's thread spins for an answer that does not come, and is waited for.
Spun == main = "sweep" /\ \E c \in Client : io[c] = "lost"

\* A signal ends the process: everybody waits for somebody who goes on, except
\* where a send thread misses its notification or a call was lost.
CloseReturns == signalled ~> (main \in Final \/ Missed \/ Spun)

\* While the controller runs, what was queued for clients and erizos is sent: no
\* notification of a push is lost.
EventsSent == []<>(main = "loop" => pending = {})
================================================================================
