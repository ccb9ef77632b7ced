---------------------------- MODULE LifecycleProofs ----------------------------
(***************************************************************************)
(* Proofs about Lifecycle and its thread pool, for any number of workers,  *)
(* scheduler threads, clients and events.                                  *)
(***************************************************************************)
EXTENDS Lifecycle, SequenceTheorems, TLAPS

\* A thread about to post a task has a worker to post it to.
ChosenOK ==
    /\ poster \in [Poster -> {"off", "top", "tested", "got", "done"}]
    /\ chosen \in [Poster -> Worker \cup {0}]
    /\ \A t \in Poster : poster[t] = "got" => chosen[t] \in Worker

\* Whoever has left its loop was closed, and a task posted since is late.
DrainInv ==
    \A w \in Worker : worker[w] = "exited" =>
        closed[w] /\ \A i \in 1..Len(tasks[w]) : tasks[w][i].late

\* The tasks of a worker after one more was posted.
LEMMA PostedTasks ==
    ASSUME NEW ts \in [Worker -> Seq(TaskOf)], NEW v \in Worker, NEW k \in Kind,
           closed \in [Worker -> BOOLEAN]
    PROVE  LET r == Posted(ts, v, k)
           IN  /\ r \in [Worker -> Seq(TaskOf)]
               /\ \A w \in Worker \ {v} : r[w] = ts[w]
               /\ closed[v] /\ (\A i \in 1..Len(ts[v]) : ts[v][i].late)
                      => \A i \in 1..Len(r[v]) : r[v][i].late
<1> DEFINE e == [kind |-> k, late |-> closed[v]]
           r == Posted(ts, v, k)
<1>1. e \in TaskOf
  BY Zenon DEF TaskOf
<1>2. r = [ts EXCEPT ![v] = Append(ts[v], e)]
  BY DEF Posted
<1>3. r[v] = Append(ts[v], e) /\ \A w \in Worker \ {v} : r[w] = ts[w]
  <2> HIDE DEF r, e
  <2> QED
    BY <1>2
<1>4. ts[v] \in Seq(TaskOf)
  OBVIOUS
<1>5. /\ Append(ts[v], e) \in Seq(TaskOf)
      /\ Len(Append(ts[v], e)) = Len(ts[v]) + 1
      /\ Append(ts[v], e)[Len(ts[v]) + 1] = e
      /\ \A i \in 1..Len(ts[v]) : Append(ts[v], e)[i] = ts[v][i]
      /\ Len(ts[v]) \in Nat
  <2> HIDE DEF e
  <2> QED
    BY <1>1, <1>4, AppendProperties, LenProperties
<1>6. r \in [Worker -> Seq(TaskOf)]
  <2> HIDE DEF r, e
  <2> QED
    BY <1>2, <1>5
<1>7. ASSUME closed[v], \A i \in 1..Len(ts[v]) : ts[v][i].late
      PROVE  \A i \in 1..Len(r[v]) : r[v][i].late
  <2>1. e.late
    BY <1>7
  <2> HIDE DEF r, e
  <2>2. SUFFICES ASSUME NEW i \in 1..Len(r[v]) PROVE r[v][i].late
    OBVIOUS
  <2>3. CASE i = Len(ts[v]) + 1
    BY <1>3, <1>5, <2>1, <2>3
  <2>4. CASE i # Len(ts[v]) + 1
    <3>1. i \in 1..Len(ts[v]) /\ r[v][i] = ts[v][i]
      BY <1>3, <1>5, <2>4
    <3> QED
      BY <1>7, <3>1
  <2> QED
    BY <2>3, <2>4
<1> QED
  BY <1>3, <1>6, <1>7

\* The steps by what they do to the pool.
LEMMA PoolSteps ==
    ASSUME [Next]_vars
    PROVE  \/ Construct
           \/ \E w \in Worker : Promise(w) \/ Enter(w) \/ Exit(w) \/ CloseWorker(w)
           \/ \E s \in Service : ServiceStep(s)
           \/ Drain \/ NotifyAll \/ Reset
           \/ \E t \in Poster : PostTask(t)
           \/ \E w \in Worker : RunTask(w)
           \/ UNCHANGED poolVars
BY DEF Next, ThreadStep, Main, InitPool, InitRpc, InitSig, InitSio, SetHandler, InitHb,
   Loop, ClosePool, CloseHb, CloseSio, Sweep, CloseRpc, CloseSig, Signal, RpcThread,
   Receive, GetWorker, Leave, PoolThread, SendTest, SendAll, Connect, Token, Answer,
   LoseCall, Media, Disconnect, IoExit, vars

\* The pool keeps its types, through every step of the process.
LEMMA PoolTypes ==
    ASSUME PoolTypeOK, ChosenOK, [Next]_vars
    PROVE  PoolTypeOK'
<1>1. CASE Construct
  BY <1>1 DEF Construct, PoolTypeOK
<1>2. ASSUME NEW w \in Worker, Promise(w) \/ Enter(w) \/ Exit(w) \/ CloseWorker(w)
      PROVE  PoolTypeOK'
  <2>1. CASE Promise(w)
    BY <2>1 DEF Promise, PoolTypeOK
  <2>2. CASE Enter(w)
    BY <2>2 DEF Enter, PoolTypeOK
  <2>3. CASE Exit(w)
    BY <2>3 DEF Exit, PoolTypeOK
  <2>4. CASE CloseWorker(w)
    BY <2>4 DEF CloseWorker, PoolTypeOK
  <2> QED
    BY <1>2, <2>1, <2>2, <2>3, <2>4
<1>3. ASSUME NEW s \in Service, ServiceStep(s) PROVE PoolTypeOK'
  BY <1>3 DEF ServiceStep, PoolTypeOK
<1>4. CASE Drain \/ NotifyAll \/ Reset
  BY <1>4 DEF Drain, NotifyAll, Reset, PoolTypeOK
<1>5. ASSUME NEW t \in Poster, PostTask(t) PROVE PoolTypeOK'
  <2>1. chosen[t] \in Worker
    BY <1>5 DEF PostTask, ChosenOK
  <2>2. PICK k \in Kind : tasks' = Posted(tasks, chosen[t], k)
    BY <1>5, KindAssumption DEF PostTask
  <2>3. tasks' \in [Worker -> Seq(TaskOf)]
    BY <2>1, <2>2, PostedTasks DEF PoolTypeOK
  <2> QED
    BY <1>5, <2>3 DEF PostTask, PoolTypeOK
<1>6. ASSUME NEW w \in Worker, RunTask(w) PROVE PoolTypeOK'
  <2> DEFINE rest == [tasks EXCEPT ![w] = Tail(tasks[w])]
  <2>1. tasks[w] \in Seq(TaskOf) /\ tasks[w] # <<>>
    BY <1>6 DEF RunTask, Running, PoolTypeOK
  <2>2. rest \in [Worker -> Seq(TaskOf)]
    <3>1. Tail(tasks[w]) \in Seq(TaskOf)
      BY <2>1, HeadTailProperties
    <3> QED
      BY <3>1 DEF PoolTypeOK
  <2>3. tasks' = rest \/ \E v \in Worker : tasks' = Posted(rest, v, "command")
    BY <1>6 DEF RunTask, Sequence
  <2>4. tasks' \in [Worker -> Seq(TaskOf)]
    <3> HIDE DEF rest
    <3>1. "command" \in Kind
      BY KindAssumption
    <3>2. closed \in [Worker -> BOOLEAN]
      BY DEF PoolTypeOK
    <3>3. \A v \in Worker : Posted(rest, v, "command") \in [Worker -> Seq(TaskOf)]
      BY <2>2, <3>1, <3>2, PostedTasks
    <3> QED
      BY <2>2, <2>3, <3>3
  <2> QED
    BY <1>6, <2>4 DEF RunTask, PoolTypeOK
<1>7. CASE UNCHANGED poolVars
  BY <1>7 DEF poolVars, PoolTypeOK
<1> QED
  BY <1>1, <1>2, <1>3, <1>4, <1>5, <1>6, <1>7, PoolSteps

\* A thread that goes on to post has just been given a worker.
LEMMA ChosenStep ==
    ASSUME ChosenOK, [Next]_vars
    PROVE  ChosenOK'
<1>1. CASE InitSig
  BY <1>1 DEF InitSig, ChosenOK, Poster
<1>2. CASE InitHb
  BY <1>2 DEF InitHb, ChosenOK, Poster
<1>3. ASSUME NEW t \in Poster, Receive(t) PROVE ChosenOK'
  BY <1>3 DEF Receive, ChosenOK
<1>4. ASSUME NEW t \in Poster, GetWorker(t) PROVE ChosenOK'
  BY <1>4 DEF GetWorker, Sequence, ChosenOK
<1>5. ASSUME NEW t \in Poster, PostTask(t) PROVE ChosenOK'
  BY <1>5 DEF PostTask, ChosenOK
<1>6. ASSUME NEW t \in Poster, Leave(t) PROVE ChosenOK'
  BY <1>6 DEF Leave, ChosenOK
<1>7. CASE UNCHANGED posters
  BY <1>7 DEF posters, ChosenOK
<1>8. \/ InitSig \/ InitHb
      \/ \E t \in Poster : Receive(t) \/ GetWorker(t) \/ PostTask(t) \/ Leave(t)
      \/ UNCHANGED posters
  BY DEF Next, ThreadStep, Main, InitPool, InitRpc, InitSio, SetHandler, Loop, ClosePool,
     CloseHb, CloseSio, Sweep, CloseRpc, CloseSig, Signal, RpcThread, PoolThread, SendTest,
     SendAll, RunTask, Connect, Token, Answer, LoseCall, Media, Disconnect, IoExit, posters,
     vars
<1> QED
  BY <1>1, <1>2, <1>3, <1>4, <1>5, <1>6, <1>7, <1>8

\* What is posted to a worker that has left is late, and what is late stays so.
LEMMA DrainStep ==
    ASSUME PoolTypeOK, ChosenOK, DrainInv, [Next]_vars
    PROVE  DrainInv'
<1>1. CASE Construct
  BY <1>1 DEF Construct, DrainInv
<1>2. ASSUME NEW w \in Worker, Promise(w) \/ Enter(w) \/ Exit(w) \/ CloseWorker(w)
      PROVE  DrainInv'
  <2>1. CASE Promise(w)
    BY <2>1 DEF Promise, DrainInv, PoolTypeOK
  <2>2. CASE Enter(w)
    BY <2>2 DEF Enter, DrainInv, PoolTypeOK
  <2>3. CASE Exit(w)
    <3>1. closed[w] /\ Len(tasks[w]) = 0
      BY <2>3, EmptySeq DEF Exit, Returns
    <3> QED
      BY <2>3, <3>1 DEF Exit, DrainInv, PoolTypeOK
  <2>4. CASE CloseWorker(w)
    BY <2>4 DEF CloseWorker, DrainInv, PoolTypeOK
  <2> QED
    BY <1>2, <2>1, <2>2, <2>3, <2>4
<1>3. ASSUME NEW s \in Service, ServiceStep(s) PROVE DrainInv'
  BY <1>3 DEF ServiceStep, DrainInv
<1>4. CASE Drain \/ NotifyAll \/ Reset
  BY <1>4 DEF Drain, NotifyAll, Reset, DrainInv
<1>5. ASSUME NEW t \in Poster, PostTask(t) PROVE DrainInv'
  <2>1. chosen[t] \in Worker
    BY <1>5 DEF PostTask, ChosenOK
  <2>2. PICK k \in Kind : tasks' = Posted(tasks, chosen[t], k)
    BY <1>5, KindAssumption DEF PostTask
  <2>3. UNCHANGED <<worker, closed>>
    BY <1>5 DEF PostTask
  <2> SUFFICES ASSUME NEW w \in Worker, worker[w] = "exited"
               PROVE  closed[w] /\ \A i \in 1..Len(tasks'[w]) : tasks'[w][i].late
    BY <2>3 DEF DrainInv
  <2>4. closed[w] /\ \A i \in 1..Len(tasks[w]) : tasks[w][i].late
    BY DEF DrainInv
  <2>5. closed \in [Worker -> BOOLEAN] /\ tasks \in [Worker -> Seq(TaskOf)]
    BY DEF PoolTypeOK
  <2>6. /\ \A v \in Worker \ {chosen[t]} : tasks'[v] = tasks[v]
        /\ closed[chosen[t]]
             /\ (\A i \in 1..Len(tasks[chosen[t]]) : tasks[chosen[t]][i].late)
           => \A i \in 1..Len(tasks'[chosen[t]]) : tasks'[chosen[t]][i].late
    <3> DEFINE c == chosen[t]
               r == Posted(tasks, c, k)
    <3>1. /\ \A v \in Worker \ {c} : r[v] = tasks[v]
          /\ closed[c] /\ (\A i \in 1..Len(tasks[c]) : tasks[c][i].late)
             => \A i \in 1..Len(r[c]) : r[c][i].late
      <4>1. c \in Worker
        BY <2>1
      <4> HIDE DEF c
      <4> QED
        BY <2>5, <4>1, PostedTasks
    <3>2. tasks' = r
      BY <2>2
    <3> HIDE DEF r
    <3> QED
      BY <3>1, <3>2
  <2>7. CASE w = chosen[t]
    BY <2>4, <2>6, <2>7
  <2>8. CASE w # chosen[t]
    BY <2>4, <2>6, <2>8
  <2> QED
    BY <2>7, <2>8
<1>6. ASSUME NEW w \in Worker, RunTask(w) PROVE DrainInv'
  <2> DEFINE rest == [tasks EXCEPT ![w] = Tail(tasks[w])]
  <2>1. /\ worker[w] = "run"
        /\ tasks[w] \in Seq(TaskOf) /\ tasks[w] # <<>>
        /\ UNCHANGED <<worker, closed>>
    BY <1>6 DEF RunTask, Running, PoolTypeOK
  <2>2. Tail(tasks[w]) \in Seq(TaskOf)
    BY <2>1, HeadTailProperties
  <2>3. rest \in [Worker -> Seq(TaskOf)] /\ \A v \in Worker \ {w} : rest[v] = tasks[v]
    BY <2>2 DEF PoolTypeOK
  <2>4. tasks' = rest \/ \E v \in Worker : tasks' = Posted(rest, v, "command")
    BY <1>6 DEF RunTask, Sequence
  <2>5. "command" \in Kind
    BY KindAssumption
  <2> HIDE DEF rest
  <2> SUFFICES ASSUME NEW u \in Worker, worker[u] = "exited"
               PROVE  closed[u] /\ \A i \in 1..Len(tasks'[u]) : tasks'[u][i].late
    BY <2>1 DEF DrainInv
  <2>6. closed[u] /\ \A i \in 1..Len(rest[u]) : rest[u][i].late
    BY <2>1, <2>3 DEF DrainInv
  <2>7. CASE tasks' = rest
    BY <2>6, <2>7
  <2>8. CASE \E v \in Worker : tasks' = Posted(rest, v, "command")
    <3>1. PICK v \in Worker : tasks' = Posted(rest, v, "command")
      BY <2>8
    <3>2. closed \in [Worker -> BOOLEAN]
      BY DEF PoolTypeOK
    <3>3. /\ \A x \in Worker \ {v} : tasks'[x] = rest[x]
          /\ closed[v] /\ (\A i \in 1..Len(rest[v]) : rest[v][i].late)
             => \A i \in 1..Len(tasks'[v]) : tasks'[v][i].late
      <4> DEFINE r == Posted(rest, v, "command")
      <4>1. /\ \A x \in Worker \ {v} : r[x] = rest[x]
            /\ closed[v] /\ (\A i \in 1..Len(rest[v]) : rest[v][i].late)
               => \A i \in 1..Len(r[v]) : r[v][i].late
        BY <2>3, <2>5, <3>2, PostedTasks
      <4>2. tasks' = r
        BY <3>1
      <4> HIDE DEF r
      <4> QED
        BY <4>1, <4>2
    <3>4. CASE u = v
      BY <2>6, <3>3, <3>4
    <3>5. CASE u # v
      BY <2>6, <3>3, <3>5
    <3> QED
      BY <3>4, <3>5
  <2> QED
    BY <2>4, <2>7, <2>8
<1>7. CASE UNCHANGED poolVars
  BY <1>7 DEF poolVars, DrainInv
<1> QED
  BY <1>1, <1>2, <1>3, <1>4, <1>5, <1>6, <1>7, PoolSteps

\* Closing the pool runs every task that was posted before, on any number of
\* workers and whatever else the process is doing.
THEOREM WorkersDrain == Spec => []PoolDrains
<1>1. Init => PoolTypeOK /\ ChosenOK /\ DrainInv
  <2> SUFFICES ASSUME Init PROVE PoolTypeOK /\ ChosenOK /\ DrainInv
    OBVIOUS
  <2>1. PoolTypeOK
    BY EmptySeq DEF Init, PoolInit, PoolTypeOK
  <2>2. ChosenOK
    BY DEF Init, ChosenOK
  <2>3. DrainInv
    BY DEF Init, PoolInit, DrainInv
  <2> QED
    BY <2>1, <2>2, <2>3
<1>2. PoolTypeOK /\ ChosenOK /\ DrainInv /\ [Next]_vars
          => (PoolTypeOK /\ ChosenOK /\ DrainInv)'
  BY PoolTypes, ChosenStep, DrainStep
<1>3. DrainInv => PoolDrains
  BY DEF DrainInv, PoolDrains
<1> QED
  BY <1>1, <1>2, <1>3, PTL DEF Spec

--------------------------------------------------------------------------------
(* Whoever uses a component finds it there, and shutdown leaves nobody.    *)

\* The parts of close(): main is past the join of what the name says.
PastRpc == {"stopSig", "joinSig", "end"}
PastRpcThreads == {"joinRpc"} \cup PastRpc
PastSweep == {"stopRpc", "notifyRpc"} \cup PastRpcThreads
PastSio == {"sweep"} \cup PastSweep
PastHb == {"stopSio", "notifySio", "joinSio"} \cup PastSio
PastPool == {"stopHb", "joinHb"} \cup PastHb
PastWorkers == {"drain", "notify", "reset"} \cup PastPool
SioUp == {"onMessage", "onClose", "hb", "loop", "workers"} \cup (PastWorkers \ PastSweep)
RpcUp == {"sig", "sio"} \cup SioUp \cup (PastSweep \ PastRpc)
SigUp == {"sio"} \cup SioUp \cup (PastSweep \ {"end"})

\* What is up while main is where it is.
UpInv ==
    /\ main \in SioUp => "sio" \in up
    /\ main \in RpcUp => "rpc" \in up
    /\ main \in SigUp => "sig" \in up

\* Whom close() has waited for is gone.
GoneInv ==
    /\ main = "pool" => \A w \in Worker : ~closed[w]
    /\ main \in PastWorkers => AllJoined
    /\ main \in PastPool => ServiceDone
    /\ main \in PastHb => poster["hb"] = "done"
    /\ main \in PastSio => sender["sio"] = "done"
    /\ main \in PastSweep => IoDone /\ \A c \in Client : hdl[c] # "open"
    /\ main \in PastRpcThreads => rpcUp = {}
    /\ main \in PastRpc => sender["rpc"] = "done"
    /\ main = "end" => poster["sig"] = "done"

\* Tasks find what they need, or nobody is left to run them.
Serving == {"sio", "rpc"} \subseteq up \/ AllJoined

\* Nobody can post a task before both are up.
ServeInv ==
    /\ \A c \in Client : io[c] \in {"poll", "token", "lost"} => {"rpc", "sig"} \subseteq up
    /\ \A c \in Client : c \in joined => io[c] # "off"
    /\ (\E c \in Client : io[c] # "off") => Serving
    /\ poster["hb"] # "off" => Serving
    /\ \A t \in Poster : poster[t] \in {"tested", "got"} => Serving
    /\ \A w \in Worker : tasks[w] # <<>> => Serving

\* A client is removed as its handler goes, and only a handler with the controller's
\* close callback takes its client with it.
RemovedInv ==
    \A c \in Client :
        /\ removed[c] = IF hdl[c] = "gone" THEN 1 ELSE 0
        /\ hdl[c] = "gone" => "close" \in bound[c]
        /\ hdl[c] = "lost" => "close" \notin bound[c]
        /\ hdl[c] = "none" => bound[c] = {}

\* init() goes through its steps in their order.
LEMMA InitMoves ==
    ASSUME NEW s, Advance(InitOrder, s)
    PROVE  /\ main = s
           /\ s = "pool" => main' = "started"
           /\ s = "started" => main' = "sig"
           /\ s = "sig" => main' = "sio"
           /\ s = "sio" => main' = "onMessage"
           /\ s = "onMessage" => main' = "onClose"
           /\ s = "onClose" => main' = "hb"
           /\ s = "hb" => main' = "loop"
BY DEF Advance, InitOrder

\* close() does, too.
LEMMA CloseMoves ==
    ASSUME NEW s, Advance(CloseOrder, s)
    PROVE  /\ main = s
           /\ s = "workers" => main' = "drain"
           /\ s = "drain" => main' = "notify"
           /\ s = "notify" => main' = "reset"
           /\ s = "reset" => main' = "stopHb"
           /\ s = "stopHb" => main' = "joinHb"
           /\ s = "joinHb" => main' = "stopSio"
           /\ s = "stopSio" => main' = "notifySio"
           /\ s = "notifySio" => main' = "joinSio"
           /\ s = "joinSio" => main' = "sweep"
           /\ s = "sweep" => main' = "stopRpc"
           /\ s = "stopRpc" => main' = "notifyRpc"
           /\ s = "notifyRpc" => main' = "joinRpc"
           /\ s = "joinRpc" => main' = "stopSig"
           /\ s = "stopSig" => main' = "joinSig"
           /\ s = "joinSig" => main' = "end"
BY DEF Advance, CloseOrder

\* Only main() itself goes on in its order, and only its own steps bring components
\* up or down.
LEMMA OtherSteps ==
    ASSUME [Next]_vars
    PROVE  \/ Main
           \/ (main' = main \/ main' = "crashed") /\ UNCHANGED up
BY DEF Next, ThreadStep, PoolThread, Signal, RunTask, SendTest, SendAll, RpcThread,
   Receive, GetWorker, PostTask, Leave, Connect, Token, Answer, LoseCall, Media, Disconnect,
   IoExit, vars, ctl

\* What main passes, it has initialised; what it has reset, it does not need.
LEMMA UpStep ==
    ASSUME UpInv, [Next]_vars
    PROVE  UpInv'
<1> USE DEF UpInv, SioUp, RpcUp, SigUp, PastWorkers, PastPool, PastHb, PastSio, PastSweep,
            PastRpcThreads, PastRpc
<1>1. CASE InitPool
  <2>1. main = "pool" /\ main' = "started"
    BY <1>1, InitMoves DEF InitPool
  <2> QED
    BY <2>1
<1>2. CASE InitRpc
  BY <1>2 DEF InitRpc
<1>3. CASE InitSig
  BY <1>3 DEF InitSig
<1>4. CASE InitSio
  <2>1. main = "sio" /\ main' = "onMessage"
    BY <1>4, InitMoves DEF InitSio
  <2> QED
    BY <1>4, <2>1 DEF InitSio
<1>5. CASE SetHandler
  <2>1. \/ main = "onMessage" /\ main' = "onClose"
        \/ main = "onClose" /\ main' = "hb"
    BY <1>5, InitMoves DEF SetHandler
  <2> QED
    BY <1>5, <2>1 DEF SetHandler
<1>6. CASE InitHb
  <2>1. main = "hb" /\ main' = "loop"
    BY <1>6, InitMoves DEF InitHb
  <2> QED
    BY <1>6, <2>1 DEF InitHb
<1>7. CASE Loop
  BY <1>7 DEF Loop, CloseOrder
<1>8. CASE ClosePool
  <2>1. \/ main = "workers" /\ main' \in {"workers", "drain"}
        \/ main = "drain" /\ main' = "notify"
        \/ main = "notify" /\ main' = "reset"
        \/ main = "reset" /\ main' = "stopHb"
    BY <1>8, CloseMoves DEF ClosePool
  <2> QED
    BY <1>8, <2>1 DEF ClosePool
<1>9. CASE CloseHb
  <2>1. \/ main = "stopHb" /\ main' = "joinHb"
        \/ main = "joinHb" /\ main' = "stopSio"
    BY <1>9, CloseMoves DEF CloseHb
  <2> QED
    BY <1>9, <2>1 DEF CloseHb
<1>10. CASE CloseSio
  <2>1. \/ main = "stopSio" /\ main' = "notifySio"
        \/ main = "notifySio" /\ main' = "joinSio"
        \/ main = "joinSio" /\ main' = "sweep"
    BY <1>10, CloseMoves DEF CloseSio
  <2> QED
    BY <1>10, <2>1 DEF CloseSio
<1>11. CASE Sweep
  <2>1. main = "sweep" /\ main' = "stopRpc"
    BY <1>11, CloseMoves DEF Sweep
  <2> QED
    BY <1>11, <2>1 DEF Sweep
<1>12. CASE CloseRpc
  <2>1. \/ main = "stopRpc" /\ main' = "notifyRpc" /\ UNCHANGED up
        \/ main = "notifyRpc" /\ main' = "joinRpc" /\ UNCHANGED up
        \/ main = "joinRpc" /\ main' = "stopSig" /\ up' = up \ {"rpc"}
    BY <1>12, CloseMoves DEF CloseRpc
  <2> QED
    BY <2>1
<1>13. CASE CloseSig
  <2>1. \/ main = "stopSig" /\ main' = "joinSig" /\ UNCHANGED up
        \/ main = "joinSig" /\ main' = "end"
    BY <1>13, CloseMoves DEF CloseSig
  <2> QED
    BY <2>1
<1>14. ASSUME main' = main \/ main' = "crashed", UNCHANGED up PROVE UpInv'
  BY <1>14
<1> QED
  BY <1>1, <1>2, <1>3, <1>4, <1>5, <1>6, <1>7, <1>8, <1>9, <1>10, <1>11, <1>12, <1>13, <1>14,
     OtherSteps DEF Main

\* Where main() can be.
LEMMA MainPlaces ==
    Steps(InitOrder) \cup Steps(CloseOrder) \cup Final =
        {"pool", "started", "sig", "sio", "onMessage", "onClose", "hb", "loop", "workers",
         "failed", "crashed"} \cup PastWorkers
<1>1. Steps(InitOrder) =
          {"pool", "started", "sig", "sio", "onMessage", "onClose", "hb", "loop"}
  <2>1. DOMAIN InitOrder = 1..8
    BY DEF InitOrder
  <2>2. \A i \in 1..8 : i = 1 \/ i = 2 \/ i = 3 \/ i = 4 \/ i = 5 \/ i = 6 \/ i = 7 \/ i = 8
    OBVIOUS
  <2> QED
    BY <2>1, <2>2 DEF Steps, InitOrder
<1>2. Steps(CloseOrder) =
          {"workers", "drain", "notify", "reset", "stopHb", "joinHb", "stopSio", "notifySio",
           "joinSio", "sweep", "stopRpc", "notifyRpc", "joinRpc", "stopSig", "joinSig", "end"}
  <2>1. DOMAIN CloseOrder = 1..16
    BY DEF CloseOrder
  <2>2. \A i \in 1..16 : \/ i = 1 \/ i = 2 \/ i = 3 \/ i = 4 \/ i = 5 \/ i = 6 \/ i = 7
                         \/ i = 8 \/ i = 9 \/ i = 10 \/ i = 11 \/ i = 12 \/ i = 13
                         \/ i = 14 \/ i = 15 \/ i = 16
    OBVIOUS
  <2> QED
    BY <2>1, <2>2 DEF Steps, CloseOrder
<1> QED
  BY <1>1, <1>2 DEF Final, PastRpc, PastRpcThreads, PastSweep, PastSio, PastHb, PastPool,
                    PastWorkers

\* The steps main() takes through close(), each with what it has waited for.
LEMMA CloseSteps ==
    ASSUME [Next]_vars, main' \in PastWorkers, main' # main
    PROVE  \/ main = "workers" /\ main' = "drain" /\ AllJoined /\ ClosePool
           \/ main = "drain" /\ main' = "notify" /\ ClosePool
           \/ main = "notify" /\ main' = "reset" /\ ClosePool
           \/ main = "reset" /\ main' = "stopHb" /\ ServiceDone /\ ClosePool
           \/ main = "stopHb" /\ main' = "joinHb" /\ CloseHb
           \/ main = "joinHb" /\ main' = "stopSio" /\ poster["hb"] = "done" /\ CloseHb
           \/ main = "stopSio" /\ main' = "notifySio" /\ CloseSio
           \/ main = "notifySio" /\ main' = "joinSio" /\ CloseSio
           \/ main = "joinSio" /\ main' = "sweep" /\ sender["sio"] = "done" /\ CloseSio
           \/ main = "sweep" /\ main' = "stopRpc" /\ Sweep
           \/ main = "stopRpc" /\ main' = "notifyRpc" /\ CloseRpc
           \/ main = "notifyRpc" /\ main' = "joinRpc" /\ rpcUp = {} /\ CloseRpc
           \/ main = "joinRpc" /\ main' = "stopSig" /\ sender["rpc"] = "done" /\ CloseRpc
           \/ main = "stopSig" /\ main' = "joinSig" /\ CloseSig
           \/ main = "joinSig" /\ main' = "end" /\ poster["sig"] = "done" /\ CloseSig
<1> USE DEF PastWorkers, PastPool, PastHb, PastSio, PastSweep, PastRpcThreads, PastRpc
<1>1. Main
  BY OtherSteps
<1>2. ~InitPool /\ ~InitRpc /\ ~InitSig /\ ~InitSio /\ ~SetHandler /\ ~InitHb /\ ~Loop
  BY InitMoves DEF InitPool, InitRpc, InitSig, InitSio, SetHandler, InitHb, Loop, CloseOrder
<1>3. CASE ClosePool
  BY <1>3, CloseMoves DEF ClosePool
<1>4. CASE CloseHb
  BY <1>4, CloseMoves DEF CloseHb
<1>5. CASE CloseSio
  BY <1>5, CloseMoves DEF CloseSio
<1>6. CASE Sweep
  BY <1>6, CloseMoves DEF Sweep
<1>7. CASE CloseRpc
  BY <1>7, CloseMoves DEF CloseRpc
<1>8. CASE CloseSig
  BY <1>8, CloseMoves DEF CloseSig
<1> QED
  BY <1>1, <1>2, <1>3, <1>4, <1>5, <1>6, <1>7, <1>8 DEF Main

\* main() stays in its order.
LEMMA MainStep ==
    ASSUME main \in Steps(InitOrder) \cup Steps(CloseOrder) \cup Final, [Next]_vars
    PROVE  /\ main' \in Steps(InitOrder) \cup Steps(CloseOrder) \cup Final
           /\ main' = "pool" => main = "pool"
<1>1. CASE main' \in PastWorkers
  BY <1>1, MainPlaces DEF PastWorkers, PastPool, PastHb, PastSio, PastSweep,
                          PastRpcThreads, PastRpc
<1>2. ASSUME main' \notin PastWorkers PROVE \/ main' \in {main, "crashed"} \/ InitPool
        \/ InitRpc \/ InitSig \/ InitSio \/ SetHandler \/ InitHb \/ Loop
  <2> USE DEF PastWorkers, PastPool, PastHb, PastSio, PastSweep, PastRpcThreads, PastRpc
  <2>1. ~CloseHb /\ ~CloseSio /\ ~Sweep /\ ~CloseRpc /\ ~CloseSig
    BY <1>2, CloseMoves DEF CloseHb, CloseSio, Sweep, CloseRpc, CloseSig
  <2>2. ClosePool => main' = main
    BY <1>2, CloseMoves DEF ClosePool
  <2> QED
    BY <2>1, <2>2, OtherSteps DEF Main
<1>3. InitPool \/ InitRpc \/ InitSig \/ InitSio \/ SetHandler \/ InitHb \/ Loop =>
          main' \in {"started", "sig", "sio", "onMessage", "onClose", "hb", "loop", "workers",
                     "failed"}
  BY InitMoves DEF InitPool, InitRpc, InitSig, InitSio, SetHandler, InitHb, Loop, CloseOrder
<1> QED
  BY <1>1, <1>2, <1>3, MainPlaces

--------------------------------------------------------------------------------
(* Types of the whole process.                                             *)

\* All but the pool, the posters and main().
PartsOK ==
    /\ signalled \in BOOLEAN
    /\ up \subseteq Sender \cup {"sig"}
    /\ run \subseteq Sender \cup Poster
    /\ sender \in [Sender -> {"off", "top", "tested", "wait", "done"}]
    /\ pending \subseteq Sender
    /\ rpcUp \subseteq {"check", "recv"}
    /\ io \in [Client -> {"off", "poll", "token", "lost", "done"}]
    /\ hdl \in [Client -> {"none", "open", "gone", "lost"}]
    /\ bound \in [Client -> SUBSET {"message", "close"}]
    /\ joined \subseteq Client
    /\ removed \in [Client -> Nat]
    /\ events \in 0..MaxEvents

\* A push wakes the send thread, if at all.
LEMMA PushEffect ==
    ASSUME PartsOK, NEW qs \in SUBSET Sender, Push(qs)
    PROVE  /\ sender' \in [Sender -> {"off", "top", "tested", "wait", "done"}]
           /\ pending' \subseteq Sender
           /\ \A q \in Sender : sender[q] = "done" => sender'[q] = "done"
BY DEF PartsOK, Push

\* So does the notification by close().
LEMMA NotifyEffect ==
    ASSUME PartsOK, NEW q \in Sender, Notify(q)
    PROVE  /\ sender' \in [Sender -> {"off", "top", "tested", "wait", "done"}]
           /\ pending' = pending
           /\ \A p \in Sender : sender[p] = "done" => sender'[p] = "done"
BY DEF PartsOK, Notify

\* Handlers that are removed are gone or lost, and the send thread may be woken.
LEMMA RemoveEffect ==
    ASSUME PartsOK, NEW cs \in SUBSET Client, Remove(cs)
    PROVE  /\ hdl' \in [Client -> {"none", "open", "gone", "lost"}]
           /\ removed' \in [Client -> Nat]
           /\ sender' \in [Sender -> {"off", "top", "tested", "wait", "done"}]
           /\ pending' \subseteq Sender
           /\ \A q \in Sender : sender[q] = "done" => sender'[q] = "done"
           /\ \A c \in Client : hdl'[c] = "open" => hdl[c] = "open" /\ c \notin cs
<1>1. PICK qs \in SUBSET Sender : Push(qs)
  BY DEF Remove, Sender
<1>2. /\ hdl' \in [Client -> {"none", "open", "gone", "lost"}]
      /\ \A c \in Client : hdl'[c] = "open" => hdl[c] = "open" /\ c \notin cs
  BY DEF Remove, PartsOK
<1>3. removed' \in [Client -> Nat]
  BY DEF Remove, PartsOK
<1> QED
  BY <1>1, <1>2, <1>3, PushEffect

\* The steps keep the types.
LEMMA PartsStep ==
    ASSUME PartsOK, [Next]_vars
    PROVE  PartsOK'
<1> USE DEF queues, clients, ctl
<1>1. CASE InitPool \/ SetHandler \/ Loop \/ ClosePool
  BY <1>1 DEF InitPool, SetHandler, Loop, ClosePool, PartsOK
<1>2. CASE InitRpc \/ InitSig \/ InitHb
  <2>1. /\ up' \subseteq Sender \cup {"sig"} /\ run' \subseteq Sender \cup Poster
        /\ rpcUp' \subseteq {"check", "recv"}
    BY <1>2 DEF InitRpc, InitSig, InitHb, PartsOK, Sender, Poster
  <2>2. sender' \in [Sender -> {"off", "top", "tested", "wait", "done"}]
    BY <1>2 DEF InitRpc, InitSig, InitHb, PartsOK
  <2> QED
    BY <1>2, <2>1, <2>2 DEF InitRpc, InitSig, InitHb, PartsOK
<1>3. CASE InitSio
  BY <1>3 DEF InitSio, PartsOK, Sender
<1>4. CASE CloseHb \/ CloseSig
  BY <1>4 DEF CloseHb, CloseSig, PartsOK
<1>5. CASE CloseSio
  BY <1>5, NotifyEffect DEF CloseSio, PartsOK, Sender
<1>6. CASE Sweep
  <2>1. PICK cs \in SUBSET Client : Remove(cs)
    BY <1>6 DEF Sweep
  <2> QED
    BY <1>6, <2>1, RemoveEffect DEF Sweep, PartsOK
<1>7. CASE CloseRpc
  BY <1>7, NotifyEffect DEF CloseRpc, PartsOK, Sender
<1>8. ASSUME NEW r \in rpcUp, RpcThread(r) PROVE PartsOK'
  BY <1>8 DEF RpcThread, PartsOK
<1>9. ASSUME NEW t \in Poster, Receive(t) \/ GetWorker(t) \/ PostTask(t) \/ Leave(t)
      PROVE  PartsOK'
  <2>1. events' \in 0..MaxEvents
    BY <1>9, LifecycleAssumption DEF Receive, GetWorker, PostTask, Leave, PartsOK
  <2> QED
    BY <1>9, <2>1 DEF Receive, GetWorker, PostTask, Leave, PartsOK
<1>10. ASSUME NEW w \in Worker, RunTask(w) PROVE PartsOK'
  <2>1. UNCHANGED queues \/ \E qs \in SUBSET Sender : Push(qs)
    BY <1>10 DEF RunTask, Sender
  <2>2. /\ sender' \in [Sender -> {"off", "top", "tested", "wait", "done"}]
        /\ pending' \subseteq Sender
    BY <2>1, PushEffect DEF PartsOK
  <2> QED
    BY <1>10, <2>2 DEF RunTask, PartsOK
<1>11. CASE PoolThread \/ Signal \/ UNCHANGED vars
  BY <1>11 DEF PoolThread, Signal, vars, PartsOK
<1>12. ASSUME NEW q \in Sender, SendTest(q) \/ SendAll(q) PROVE PartsOK'
  <2>1. /\ sender' \in [Sender -> {"off", "top", "tested", "wait", "done"}]
        /\ pending' \subseteq Sender
    BY <1>12 DEF SendTest, SendAll, PartsOK
  <2> QED
    BY <1>12, <2>1 DEF SendTest, SendAll, PartsOK
<1>13. ASSUME NEW c \in Client, Token(c) \/ Media(c) PROVE PartsOK'
  <2>1. {"rpc"} \in SUBSET Sender /\ Push({"rpc"})
    BY <1>13 DEF Token, Media, Sender
  <2>2. /\ sender' \in [Sender -> {"off", "top", "tested", "wait", "done"}]
        /\ pending' \subseteq Sender
    BY <2>1, PushEffect
  <2>3. events' \in 0..MaxEvents
    BY <1>13, LifecycleAssumption DEF Token, Media, PartsOK
  <2> QED
    BY <1>13, <2>2, <2>3 DEF Token, Media, PartsOK
<1>14. ASSUME NEW c \in Client, Connect(c) \/ Answer(c) \/ LoseCall(c) \/ IoExit(c)
       PROVE  PartsOK'
  <2>1. CASE Connect(c)
    <3>1. hdl' \in [Client -> {"none", "open", "gone", "lost"}]
      BY <2>1 DEF Connect, PartsOK
    <3>2. bound' \in [Client -> SUBSET {"message", "close"}]
      BY <2>1 DEF Connect, PartsOK
    <3> QED
      BY <2>1, <3>1, <3>2 DEF Connect, PartsOK
  <2>2. CASE Answer(c)
    BY <2>2 DEF Answer, PartsOK
  <2>3. CASE LoseCall(c) \/ IoExit(c)
    BY <2>3 DEF LoseCall, IoExit, PartsOK
  <2> QED
    BY <1>14, <2>1, <2>2, <2>3
<1>15. ASSUME NEW c \in Client, Disconnect(c) PROVE PartsOK'
  <2>1. PICK cs \in SUBSET Client : Remove(cs)
    BY <1>15 DEF Disconnect
  <2> QED
    BY <1>15, <2>1, RemoveEffect DEF Disconnect, PartsOK
<1> QED
  BY <1>1, <1>2, <1>3, <1>4, <1>5, <1>6, <1>7, <1>8, <1>9, <1>10, <1>11, <1>12, <1>13,
     <1>14, <1>15 DEF Next, ThreadStep, Main

\* The pool starts with no tasks and nobody about to post.
LEMMA PoolTypeInit == Init => PoolTypeOK /\ ChosenOK
<1> SUFFICES ASSUME Init PROVE PoolTypeOK /\ ChosenOK
  OBVIOUS
<1>1. PoolTypeOK
  BY EmptySeq DEF Init, PoolInit, PoolTypeOK
<1>2. ChosenOK
  BY DEF Init, ChosenOK
<1> QED
  BY <1>1, <1>2

\* The process starts well formed.
LEMMA TypeInit == Init => TypeOK
<1> SUFFICES ASSUME Init PROVE TypeOK
  OBVIOUS
<1>1. PoolTypeOK /\ ChosenOK
  BY PoolTypeInit
<1>2. PartsOK
  <2>1. /\ sender \in [Sender -> {"off", "top", "tested", "wait", "done"}]
        /\ io \in [Client -> {"off", "poll", "token", "lost", "done"}]
        /\ hdl \in [Client -> {"none", "open", "gone", "lost"}]
        /\ bound \in [Client -> SUBSET {"message", "close"}]
        /\ removed \in [Client -> Nat]
    BY DEF Init
  <2>2. events \in 0..MaxEvents
    <3>1. events = 0
      BY DEF Init
    <3> QED
      BY <3>1, LifecycleAssumption
  <2>3. /\ signalled = FALSE /\ up = {} /\ run = {} /\ pending = {} /\ rpcUp = {}
        /\ joined = {}
    BY Zenon DEF Init
  <2> QED
    BY <2>1, <2>2, <2>3, Zenon DEF PartsOK
<1> QED
  BY <1>1, <1>2, MainPlaces DEF TypeOK, ChosenOK, PartsOK, Init

\* Every step keeps the types, those of the pool among them.
LEMMA TypeStep ==
    ASSUME TypeOK, ChosenOK, [Next]_vars
    PROVE  TypeOK' /\ ChosenOK'
<1>1. PoolTypeOK /\ PartsOK
  BY DEF TypeOK, PartsOK
<1>2. PoolTypeOK' /\ ChosenOK' /\ PartsOK'
  BY <1>1, PoolTypes, ChosenStep, PartsStep
<1>3. main' \in Steps(InitOrder) \cup Steps(CloseOrder) \cup Final
  BY MainStep DEF TypeOK
<1> QED
  BY <1>2, <1>3 DEF TypeOK, ChosenOK, PartsOK

\* Every variable of the process keeps its type.
THEOREM LifecycleTypeCorrect == Spec => []TypeOK
<1>1. TypeOK /\ ChosenOK /\ [Next]_vars => (TypeOK /\ ChosenOK)'
  BY TypeStep
<1> QED
  BY <1>1, TypeInit, PoolTypeInit, PTL DEF Spec

--------------------------------------------------------------------------------
(* Shutdown.                                                               *)

\* The pool's threads are started once.
LEMMA PoolNoReturn ==
    ASSUME PoolTypeOK, [Next]_vars, main # "pool"
    PROVE  (AllJoined => AllJoined') /\ (ServiceDone => ServiceDone')
<1>1. ~InitPool
  BY InitMoves DEF InitPool
<1>2. ASSUME NEW w \in Worker, Promise(w) \/ Enter(w) \/ Exit(w) \/ CloseWorker(w)
      PROVE  (AllJoined => AllJoined') /\ (ServiceDone => ServiceDone')
  BY <1>2 DEF Promise, Enter, Exit, CloseWorker, AllJoined, ServiceDone, Gone, PoolTypeOK
<1>3. ASSUME NEW s \in Service, ServiceStep(s)
      PROVE  (AllJoined => AllJoined') /\ (ServiceDone => ServiceDone')
  BY <1>3 DEF ServiceStep, AllJoined, ServiceDone, Gone, PoolTypeOK
<1>4. Drain \/ NotifyAll \/ Reset => (AllJoined => AllJoined') /\ (ServiceDone => ServiceDone')
  BY DEF Drain, NotifyAll, Reset, AllJoined, ServiceDone, Gone, PoolTypeOK
<1>5. ASSUME UNCHANGED <<worker, closed, sched>>
      PROVE  (AllJoined => AllJoined') /\ (ServiceDone => ServiceDone')
  BY <1>5 DEF AllJoined, ServiceDone, Gone
<1>6. \/ \E w \in Worker : Promise(w) \/ Enter(w) \/ Exit(w) \/ CloseWorker(w)
      \/ \E s \in Service : ServiceStep(s)
      \/ Drain \/ NotifyAll \/ Reset
      \/ UNCHANGED <<worker, closed, sched>>
  BY <1>1 DEF Next, ThreadStep, Main, InitRpc, InitSig, InitSio, SetHandler, InitHb, Loop,
     ClosePool, CloseHb, CloseSio, Sweep, CloseRpc, CloseSig, Signal, RpcThread, Receive,
     GetWorker, PostTask, Leave, PoolThread, RunTask, SendTest, SendAll, Connect, Token,
     Answer, LoseCall, Media, Disconnect, IoExit, vars, poolVars
<1> QED
  BY <1>2, <1>3, <1>4, <1>5, <1>6

\* Nobody who has gone comes back once main() is in close().
LEMMA NoReturn ==
    ASSUME TypeOK, ChosenOK, [Next]_vars, main \in PastWorkers
    PROVE  /\ AllJoined => AllJoined'
           /\ ServiceDone => ServiceDone'
           /\ \A t \in Poster : poster[t] = "done" => poster'[t] = "done"
           /\ \A q \in Sender : sender[q] = "done" => sender'[q] = "done"
           /\ IoDone => IoDone'
           /\ (IoDone /\ \A c \in Client : hdl[c] # "open") => \A c \in Client : hdl'[c] # "open"
           /\ rpcUp = {} => rpcUp' = {}
<1> USE DEF queues, clients, posters
<1>1. ~InitPool /\ ~InitRpc /\ ~InitSig /\ ~InitSio /\ ~SetHandler /\ ~InitHb /\ ~Loop
  BY InitMoves DEF InitPool, InitRpc, InitSig, InitSio, SetHandler, InitHb, Loop,
     PastWorkers, PastPool, PastHb, PastSio, PastSweep, PastRpcThreads, PastRpc
<1>2. PoolTypeOK /\ PartsOK
  BY DEF TypeOK, PartsOK
<1>3. (AllJoined => AllJoined') /\ (ServiceDone => ServiceDone')
  <2>1. main # "pool"
    BY DEF PastWorkers, PastPool, PastHb, PastSio, PastSweep, PastRpcThreads, PastRpc
  <2> QED
    BY <1>2, <2>1, PoolNoReturn
<1>4. \A t \in Poster : poster[t] = "done" => poster'[t] = "done"
  <2>1. \/ \E t \in Poster : Receive(t) \/ GetWorker(t) \/ PostTask(t) \/ Leave(t)
        \/ UNCHANGED posters
    BY <1>1 DEF Next, ThreadStep, Main, ClosePool, CloseHb, CloseSio, Sweep, CloseRpc,
       CloseSig, Signal, RpcThread, PoolThread, RunTask, SendTest, SendAll, Connect, Token,
       Answer, LoseCall, Media, Disconnect, IoExit, vars
  <2> QED
    BY <2>1 DEF Receive, GetWorker, PostTask, Leave, ChosenOK
<1>5. \A q \in Sender : sender[q] = "done" => sender'[q] = "done"
  <2>1. \/ \E qs \in SUBSET Sender : Push(qs)
        \/ \E cs \in SUBSET Client : Remove(cs)
        \/ \E q \in Sender : SendTest(q) \/ SendAll(q) \/ Notify(q)
        \/ UNCHANGED sender
    BY <1>1 DEF Next, ThreadStep, Main, ClosePool, CloseHb, CloseSio, Sweep, CloseRpc,
       CloseSig, Signal, RpcThread, PoolThread, RunTask, Receive, GetWorker, PostTask, Leave,
       Connect, Token, Answer, LoseCall, Media, Disconnect, IoExit, vars, Sender
  <2>2. ASSUME NEW q \in Sender, SendTest(q) \/ SendAll(q)
        PROVE  \A p \in Sender : sender[p] = "done" => sender'[p] = "done"
    BY <1>2, <2>2 DEF SendTest, SendAll, PartsOK
  <2> QED
    BY <1>2, <2>1, <2>2, PushEffect, NotifyEffect, RemoveEffect
<1>6. /\ IoDone => IoDone'
      /\ (IoDone /\ \A c \in Client : hdl[c] # "open") => \A c \in Client : hdl'[c] # "open"
  <2>1. ASSUME NEW c \in Client,
               Connect(c) \/ Token(c) \/ Answer(c) \/ LoseCall(c) \/ Media(c)
                  \/ Disconnect(c) \/ IoExit(c)
        PROVE  ~IoDone
    BY <2>1 DEF Connect, Token, Answer, LoseCall, Media, Disconnect, IoExit, IoDone
  <2>2. \/ \E c \in Client : Connect(c) \/ Token(c) \/ Answer(c) \/ LoseCall(c)
                               \/ Media(c) \/ Disconnect(c) \/ IoExit(c)
        \/ Sweep \/ UNCHANGED <<io, hdl>>
    BY <1>1 DEF Next, ThreadStep, Main, ClosePool, CloseHb, CloseSio, CloseRpc, CloseSig,
       Signal, RpcThread, PoolThread, RunTask, Receive, GetWorker, PostTask, Leave, SendTest,
       SendAll, vars
  <2>3. Sweep => io' = io /\ \A c \in Client : hdl'[c] # "open"
    BY DEF Sweep, Remove
  <2> QED
    BY <2>1, <2>2, <2>3 DEF IoDone
<1>7. rpcUp' \subseteq rpcUp
  BY <1>1 DEF Next, ThreadStep, Main, ClosePool, CloseHb, CloseSio, Sweep, CloseRpc,
     CloseSig, Signal, RpcThread, PoolThread, RunTask, Receive, GetWorker, PostTask, Leave,
     SendTest, SendAll, Connect, Token, Answer, LoseCall, Media, Disconnect, IoExit, vars
<1> QED
  BY <1>3, <1>4, <1>5, <1>6, <1>7

\* Each join of close() waits for what it names, and it stays away.
LEMMA GoneStep ==
    ASSUME TypeOK, ChosenOK, GoneInv, [Next]_vars
    PROVE  GoneInv'
<1>1. main' = "pool" => \A w \in Worker : ~closed'[w]
  <2> SUFFICES ASSUME main' = "pool" PROVE \A w \in Worker : ~closed'[w]
    OBVIOUS
  <2>1. main = "pool"
    BY MainStep DEF TypeOK
  <2>2. ~ClosePool /\ ~InitPool
    BY <2>1, InitMoves, CloseMoves DEF ClosePool, InitPool
  <2>3. closed' = closed
    BY <2>2 DEF Next, ThreadStep, Main, InitRpc, InitSig, InitSio, SetHandler, InitHb,
       Loop, CloseHb, CloseSio, Sweep, CloseRpc, CloseSig, Signal, RpcThread, Receive,
       GetWorker, PostTask, Leave, PoolThread, Promise, Enter, Exit, ServiceStep, RunTask,
       SendTest, SendAll, Connect, Token, Answer, LoseCall, Media, Disconnect, IoExit,
       vars, poolVars
  <2> QED
    BY <2>1, <2>3 DEF GoneInv
<1>2. ASSUME main' \notin PastWorkers, main' # "pool" PROVE GoneInv'
  BY <1>2 DEF GoneInv, PastWorkers, PastPool, PastHb, PastSio, PastSweep, PastRpcThreads,
              PastRpc
<1>3. ASSUME main' = main, main \in PastWorkers PROVE GoneInv'
  <2>1. main # "pool" /\ "hb" \in Poster /\ "sig" \in Poster /\ "sio" \in Sender /\ "rpc" \in Sender
    BY <1>3 DEF PastWorkers, PastPool, PastHb, PastSio, PastSweep, PastRpcThreads, PastRpc,
                Poster, Sender
  <2> QED
    BY <1>3, <2>1, NoReturn DEF GoneInv
<1>4. ASSUME main' # main, main' \in PastWorkers PROVE GoneInv'
  <2> USE DEF PastWorkers, PastPool, PastHb, PastSio, PastSweep, PastRpcThreads, PastRpc
  <2>1. ClosePool /\ main = "workers" => UNCHANGED poolVars
    BY <1>4, CloseMoves DEF ClosePool
  <2>2. CASE main = "workers"
    <3>1. main' = "drain" /\ AllJoined /\ ClosePool
      BY <1>4, <2>2, CloseSteps
    <3>2. AllJoined'
      BY <2>1, <2>2, <3>1 DEF AllJoined, Gone, poolVars
    <3> QED
      BY <3>1, <3>2 DEF GoneInv
  <2>3. CASE main # "workers"
    <3>1. main \in PastWorkers
      BY <1>4, <2>3, CloseSteps
    <3>2. "hb" \in Poster /\ "sig" \in Poster /\ "sio" \in Sender /\ "rpc" \in Sender
      BY DEF Poster, Sender
    <3>3. CASE main = "sweep"
      <4>1. main' = "stopRpc" /\ Sweep
        BY <1>4, <3>3, CloseSteps
      <4>2. IoDone' /\ \A c \in Client : hdl'[c] # "open"
        BY <4>1 DEF Sweep, Remove, IoDone
      <4> QED
        BY <3>1, <3>2, <3>3, <4>1, <4>2, NoReturn DEF GoneInv
    <3>4. CASE main # "sweep"
      BY <1>4, <2>3, <3>1, <3>2, <3>4, NoReturn, CloseSteps DEF GoneInv
    <3> QED
      BY <3>3, <3>4
  <2> QED
    BY <2>2, <2>3
<1> QED
  <2>1. "pool" \notin PastWorkers
    BY DEF PastWorkers, PastPool, PastHb, PastSio, PastSweep, PastRpcThreads, PastRpc
  <2>2. CASE main' = "pool"
    BY <1>1, <2>1, <2>2 DEF GoneInv, PastWorkers, PastPool, PastHb, PastSio, PastSweep, PastRpcThreads,
              PastRpc
  <2> QED
    BY <1>2, <1>3, <1>4, <2>2

\* Once tasks find what they need, they do until the last worker is gone.
LEMMA ServingStays ==
    ASSUME TypeOK, ChosenOK, GoneInv, Serving, [Next]_vars
    PROVE  Serving'
<1> USE DEF PastWorkers, PastPool, PastHb, PastSio, PastSweep, PastRpcThreads, PastRpc
<1>1. AllJoined => main # "pool"
  <2>1. 1 \in Worker
    BY PoolAssumption DEF Worker
  <2> QED
    BY <2>1 DEF GoneInv, AllJoined
<1>2. CASE AllJoined
  BY <1>1, <1>2, PoolNoReturn DEF Serving, TypeOK
<1>3. CASE {"sio", "rpc"} \subseteq up
  <2>1. ASSUME main \in PastWorkers PROVE Serving'
    BY <2>1, NoReturn DEF GoneInv, Serving
  <2>2. ASSUME main \notin PastWorkers PROVE up \subseteq up'
    <3>1. ~CloseHb /\ ~CloseSio /\ ~Sweep /\ ~CloseRpc /\ ~CloseSig
      BY <2>2, CloseMoves DEF CloseHb, CloseSio, Sweep, CloseRpc, CloseSig
    <3>2. \/ InitPool \/ InitRpc \/ InitSig \/ InitSio \/ SetHandler \/ InitHb \/ Loop
          \/ ClosePool \/ UNCHANGED up
      BY <3>1, OtherSteps DEF Main
    <3> QED
      BY <3>2 DEF InitPool, InitRpc, InitSig, InitSio, SetHandler, InitHb, Loop, ClosePool
  <2> QED
    BY <1>3, <2>1, <2>2 DEF Serving
<1> QED
  BY <1>2, <1>3 DEF Serving

\* A socket.io thread that is not done finds AMQPRPC and the signaling receiver.
LEMMA ThreadServed ==
    ASSUME TypeOK, ChosenOK, UpInv, GoneInv, ServeInv, [Next]_vars,
           NEW c \in Client, io'[c] \in {"poll", "token", "lost"}
    PROVE  {"rpc", "sig"} \subseteq up'
<1> USE DEF clients
<1>1. io \in [Client -> {"off", "poll", "token", "lost", "done"}]
  BY DEF TypeOK
<1>2. CASE InitSio
  <2>1. {"rpc", "sig"} \subseteq up
    BY <1>2, InitMoves DEF InitSio, UpInv, RpcUp, SigUp
  <2> QED
    BY <1>2, <2>1 DEF InitSio
<1>3. CASE ~InitSio
  <2>1. io[c] \in {"poll", "token", "lost"}
    <3>1. \/ \E d \in Client : Token(d) \/ Answer(d) \/ LoseCall(d) \/ IoExit(d)
          \/ UNCHANGED io
      BY <1>3 DEF Next, ThreadStep, Main, InitPool, InitRpc, InitSig, SetHandler, InitHb,
         Loop, ClosePool, CloseHb, CloseSio, Sweep, CloseRpc, CloseSig, Signal, RpcThread,
         PoolThread, RunTask, Receive, GetWorker, PostTask, Leave, SendTest, SendAll, Connect,
         Media, Disconnect, vars
    <3> QED
      BY <1>1, <3>1 DEF Token, Answer, LoseCall, IoExit
  <2>2. ~IoDone
    BY <2>1 DEF IoDone
  <2>3. main \notin PastSweep
    BY <2>2 DEF GoneInv
  <2>4. ~CloseRpc /\ ~CloseSig
    BY <2>3, CloseMoves DEF CloseRpc, CloseSig, PastSweep, PastRpcThreads, PastRpc
  <2>5. {"rpc", "sig"} \subseteq up
    BY <2>1 DEF ServeInv
  <2>6. \/ InitPool \/ InitRpc \/ InitSig \/ SetHandler \/ InitHb \/ Loop \/ ClosePool
        \/ CloseHb \/ CloseSio \/ Sweep \/ UNCHANGED up
    BY <1>3, <2>4, OtherSteps DEF Main
  <2> QED
    BY <2>5, <2>6 DEF InitPool, InitRpc, InitSig, SetHandler, InitHb, Loop, ClosePool,
                      CloseHb, CloseSio, Sweep
<1> QED
  BY <1>2, <1>3

\* Whoever begins to use the pool, or to make others use it, finds all it needs.
LEMMA ServeStep ==
    ASSUME TypeOK, ChosenOK, UpInv, GoneInv, ServeInv, [Next]_vars
    PROVE  ServeInv'
<1> USE DEF clients, posters
<1>1. /\ io \in [Client -> {"off", "poll", "token", "lost", "done"}]
      /\ poster \in [Poster -> {"off", "top", "tested", "got", "done"}]
      /\ joined \subseteq Client
  BY DEF TypeOK
<1>2. \A c \in Client : io'[c] \in {"poll", "token", "lost"} => {"rpc", "sig"} \subseteq up'
  BY ThreadServed
<1>3. Serving => Serving'
  BY ServingStays
<1>4. \A c \in Client : io[c] # "off" => Serving
  BY DEF ServeInv
<1>5. /\ \A c \in Client : c \in joined' => io'[c] # "off"
      /\ \A c \in Client : io'[c] # "off" => io[c] # "off" \/ InitSio
  <2>1. CASE InitSio
    BY <2>1 DEF InitSio
  <2>2. CASE \E c \in Client : Token(c) \/ Answer(c) \/ LoseCall(c) \/ IoExit(c)
    BY <1>1, <2>2 DEF Token, Answer, LoseCall, IoExit, ServeInv
  <2>3. CASE UNCHANGED <<io, joined>>
    BY <2>3 DEF ServeInv
  <2> QED
    BY <2>1, <2>2, <2>3
       DEF Next, ThreadStep, Main, InitPool, InitRpc, InitSig, SetHandler, InitHb, Loop,
       ClosePool, CloseHb, CloseSio, Sweep, CloseRpc, CloseSig, Signal, RpcThread, PoolThread,
       RunTask, Receive, GetWorker, PostTask, Leave, SendTest, SendAll, Connect, Media,
       Disconnect, vars
<1>6. InitSio \/ InitHb => Serving'
  BY InitMoves DEF InitSio, InitHb, UpInv, SioUp, RpcUp, Serving
<1>7. /\ poster'["hb"] # "off" => poster["hb"] # "off" \/ InitHb
      /\ \A t \in Poster : poster'[t] \in {"tested", "got"} =>
             poster[t] \in {"tested", "got"} \/ (Receive(t) /\ poster[t] = "top")
  <2>1. "hb" \in Poster
    BY DEF Poster
  <2>2. CASE InitSig
    BY <1>1, <2>1, <2>2 DEF InitSig
  <2>3. CASE InitHb
    BY <1>1, <2>3 DEF InitHb
  <2>4. ASSUME NEW t \in Poster, Receive(t) \/ GetWorker(t) \/ PostTask(t) \/ Leave(t)
        PROVE  /\ \A u \in Poster : poster'[u] # "off" => poster[u] # "off"
               /\ \A u \in Poster : poster'[u] \in {"tested", "got"} =>
                      poster[u] \in {"tested", "got"} \/ (Receive(u) /\ poster[u] = "top")
    BY <1>1, <2>4 DEF Receive, GetWorker, PostTask, Leave
  <2>5. \/ InitSig \/ InitHb
        \/ \E t \in Poster : Receive(t) \/ GetWorker(t) \/ PostTask(t) \/ Leave(t)
        \/ UNCHANGED poster
    BY DEF Next, ThreadStep, Main, InitPool, InitRpc, InitSio, SetHandler, Loop, ClosePool,
       CloseHb, CloseSio, Sweep, CloseRpc, CloseSig, Signal, RpcThread, PoolThread, SendTest,
       SendAll, RunTask, Connect, Token, Answer, LoseCall, Media, Disconnect, IoExit, vars
  <2> QED
    BY <2>1, <2>2, <2>3, <2>4, <2>5
<1>8. \A t \in Poster : Receive(t) /\ poster[t] = "top" => Serving
  <2> SUFFICES ASSUME NEW t \in Poster, Receive(t), poster[t] = "top" PROVE Serving
    OBVIOUS
  <2>1. CASE t = "hb"
    BY <2>1 DEF ServeInv
  <2>2. CASE t = "sig"
    <3>1. \E c \in Client : c \in joined
      BY <1>1, <2>2 DEF Receive
    <3> QED
      BY <1>4, <3>1 DEF ServeInv
  <2> QED
    BY <2>1, <2>2 DEF Poster
<1>9. \A w \in Worker : tasks'[w] # <<>> => Serving
  <2>1. CASE \E t \in Poster : PostTask(t)
    BY <2>1 DEF PostTask, ServeInv
  <2>2. CASE \E w \in Worker : RunTask(w)
    BY <2>2 DEF RunTask, Running, ServeInv
  <2>3. CASE UNCHANGED tasks
    BY <2>3 DEF ServeInv
  <2>4. \/ \E t \in Poster : PostTask(t)
        \/ \E w \in Worker : RunTask(w)
        \/ UNCHANGED tasks
    BY PoolSteps DEF Construct, Promise, Enter, Exit, CloseWorker, ServiceStep, Drain,
                     NotifyAll, Reset, poolVars
  <2> QED
    BY <2>1, <2>2, <2>3, <2>4
<1>10. \A c \in Client : io'[c] # "off" => Serving'
  BY <1>3, <1>4, <1>5, <1>6
<1>11. poster'["hb"] # "off" => Serving'
  BY <1>3, <1>6, <1>7 DEF ServeInv
<1>12. \A t \in Poster : poster'[t] \in {"tested", "got"} => Serving'
  BY <1>3, <1>7, <1>8 DEF ServeInv
<1> QED
  BY <1>2, <1>3, <1>5, <1>9, <1>10, <1>11, <1>12 DEF ServeInv

\* A client's handler goes once, and its client is removed as it does.
LEMMA RemovedStep ==
    ASSUME TypeOK, RemovedInv, [Next]_vars
    PROVE  RemovedInv'
<1> USE DEF clients
<1>1. /\ hdl \in [Client -> {"none", "open", "gone", "lost"}]
      /\ bound \in [Client -> SUBSET {"message", "close"}]
      /\ removed \in [Client -> Nat]
  BY DEF TypeOK
<1>2. ASSUME NEW cs \in SUBSET Client, \A c \in cs : hdl[c] = "open",
             Remove(cs), bound' = bound
      PROVE  RemovedInv'
  <2> SUFFICES ASSUME NEW c \in Client
               PROVE  /\ removed'[c] = IF hdl'[c] = "gone" THEN 1 ELSE 0
                      /\ hdl'[c] = "gone" => "close" \in bound'[c]
                      /\ hdl'[c] = "lost" => "close" \notin bound'[c]
                      /\ hdl'[c] = "none" => bound'[c] = {}
    BY DEF RemovedInv
  <2>1. CASE c \in cs
    BY <1>1, <1>2, <2>1 DEF Remove, RemovedInv
  <2>2. CASE c \notin cs
    BY <1>1, <1>2, <2>2 DEF Remove, RemovedInv
  <2> QED
    BY <2>1, <2>2
<1>3. ASSUME NEW c \in Client, Connect(c) PROVE RemovedInv'
  BY <1>1, <1>3 DEF Connect, RemovedInv
<1>4. CASE UNCHANGED <<hdl, bound, removed>>
  BY <1>4 DEF RemovedInv
<1>5. Sweep => RemovedInv'
  BY <1>2 DEF Sweep
<1>6. \A c \in Client : Disconnect(c) => RemovedInv'
  BY <1>2 DEF Disconnect
<1> QED
  BY <1>3, <1>4, <1>5, <1>6
     DEF Next, ThreadStep, Main, InitPool, InitRpc, InitSig, InitSio, SetHandler, InitHb, Loop,
     ClosePool, CloseHb, CloseSio, CloseRpc, CloseSig, Signal, RpcThread, PoolThread, RunTask,
     Receive, GetWorker, PostTask, Leave, SendTest, SendAll, Token, Answer, LoseCall, Media,
     IoExit, vars

\* What every step of the process preserves.
ShutdownInv == TypeOK /\ ChosenOK /\ UpInv /\ GoneInv /\ ServeInv /\ RemovedInv

\* And so they hold for good.
LEMMA ShutdownInvariant == Spec => []ShutdownInv
<1>1. Init => ShutdownInv
  <2> SUFFICES ASSUME Init PROVE ShutdownInv
    OBVIOUS
  <2> USE DEF PastWorkers, PastPool, PastHb, PastSio, PastSweep, PastRpcThreads, PastRpc
  <2>1. main = "pool" /\ \A w \in Worker : ~closed[w] /\ tasks[w] = <<>>
    BY DEF Init, PoolInit
  <2>2. UpInv /\ GoneInv
    BY <2>1 DEF UpInv, SioUp, RpcUp, SigUp, GoneInv
  <2>3. ServeInv /\ RemovedInv
    BY <2>1 DEF ServeInv, RemovedInv, Init, Poster
  <2> QED
    BY <2>2, <2>3, TypeInit, PoolTypeInit DEF ShutdownInv
<1>2. ShutdownInv /\ [Next]_vars => ShutdownInv'
  BY TypeStep, UpStep, GoneStep, ServeStep, RemovedStep DEF ShutdownInv
<1> QED
  BY <1>1, <1>2, PTL DEF Spec

\* Until the end of close() nobody is left without the component it uses, and at
\* its end nobody is left, on any number of workers, scheduler threads and clients.
THEOREM UsersGoneFirst == Spec => []UsersGone
<1>1. ShutdownInv => UsersGone
  <2> SUFFICES ASSUME ShutdownInv PROVE UsersGone
    OBVIOUS
  <2> USE DEF PastWorkers, PastPool, PastHb, PastSio, PastSweep, PastRpcThreads, PastRpc
  <2>1. UpInv /\ GoneInv /\ ServeInv
    BY DEF ShutdownInv
  <2>2. \A w \in Worker : Running(w) => {"sio", "rpc"} \subseteq up
    <3>1. \A w \in Worker : Running(w) => Serving /\ ~AllJoined
      BY <2>1 DEF ServeInv, Running, AllJoined, Gone
    <3> QED
      BY <3>1 DEF Serving
  <2>3. main = "sweep" => {"rpc", "sig"} \subseteq up
    BY <2>1 DEF UpInv, RpcUp, SigUp, SioUp
  <2>4. \A c \in Client :
           (io[c] \in {"token", "lost"} \/ (hdl[c] = "open" /\ (io[c] = "poll" \/ main = "sweep")))
               => {"rpc", "sig"} \subseteq up
    BY <2>1, <2>3 DEF ServeInv
  <2>5. main = "end" =>
           /\ \A w \in Worker : Gone(w)
           /\ ServiceDone /\ IoDone /\ rpcUp = {}
           /\ \A q \in Sender : sender[q] = "done"
           /\ \A t \in Poster : poster[t] = "done"
    BY <2>1 DEF GoneInv, AllJoined, Sender, Poster
  <2> QED
    BY <2>2, <2>4, <2>5 DEF UsersGone
<1> QED
  BY <1>1, ShutdownInvariant, PTL

\* However connections, disconnections and the final sweep interleave with init()
\* and close(), a shutdown in order has removed each client whose handler was made
\* with the controller's close callback once, and no other at all.
THEOREM RemovedExactlyOnce == Spec => []RemovedOnce
<1>1. ShutdownInv => RemovedOnce
  <2> SUFFICES ASSUME ShutdownInv, main = "end", NEW c \in Client
               PROVE  IF "close" \in bound[c] THEN hdl[c] = "gone" /\ removed[c] = 1
                      ELSE hdl[c] \in {"none", "lost"} /\ removed[c] = 0
    BY DEF RemovedOnce
  <2>1. /\ hdl[c] # "open"
        /\ removed[c] = IF hdl[c] = "gone" THEN 1 ELSE 0
        /\ hdl[c] = "gone" => "close" \in bound[c]
        /\ hdl[c] = "lost" => "close" \notin bound[c]
        /\ hdl[c] = "none" => bound[c] = {}
    BY DEF ShutdownInv, GoneInv, RemovedInv, PastSweep, PastRpcThreads, PastRpc
  <2>2. hdl[c] \in {"none", "open", "gone", "lost"}
    BY DEF ShutdownInv, TypeOK
  <2> QED
    BY <2>1, <2>2
<1> QED
  BY <1>1, ShutdownInvariant, PTL
================================================================================
