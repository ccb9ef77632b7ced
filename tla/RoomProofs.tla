------------------------------- MODULE RoomProofs -------------------------------
(***************************************************************************)
(* Proofs about Room: for any number of clients, agents and, but for the   *)
(* last theorem, controllers.                                              *)
(***************************************************************************)
EXTENDS Room, RegistryProofs, SequenceTheorems

--------------------------------------------------------------------------------
(* The invariants.                                                         *)

\* Nothing fails and nobody dies here.
Sound == faults = 0 /\ alive = EC

\* What a handler tells the erizos.
Command ==
    ({"pub"} \X AgentOrNone \X Client \X Stream)
    \cup ({"sub", "vpub", "vsub"} \X AgentOrNone \X (Client \cup SubId \cup {None}) \X Stream)
Batch == [add : SUBSET Command, remove : SUBSET Command]

\* What a task is about to do, or did not.
TaskKind == {"answer", "ready", "notify", "dropped"}

RoomTypes ==
    /\ outq \in [EC -> Seq(Batch)]
    /\ media \subseteq Command /\ \A m \in media : m[2] # None
    /\ tasks \subseteq [kind : TaskKind,
                        stream : Stream, client : Client]
    /\ mail \subseteq {"add", "remove"} \X Client \X Stream
    /\ shown \in [Client -> SUBSET Stream]

\* A stream id is drawn once.
StreamIds ==
    /\ \A p \in pubs : p.id <= ids.stream
    /\ \A p, q \in pubs : p.id = q.id => p = q

\* The stream has been published, and by the client if it still is.
Names(stream, client) ==
    /\ stream <= ids.stream
    /\ \A p \in pubs : p.id = stream => p.client = client

\* What is said or done about a publisher names its client.
PubsKnown ==
    /\ \A e \in EC : \A i \in 1..Len(outq[e]) : \A m \in outq[e][i].add :
           m[1] = "pub" => Names(m[4], m[3])
    /\ \A m \in media : m[1] = "pub" => m[4] <= ids.stream
    /\ \A t \in tasks : Names(t.stream, t.client)

\* A client that is told to drop a stream has left, or the publisher has.
RemovedGone ==
    \A c \in Client, s \in Stream : <<"remove", c, s>> \in mail =>
        /\ s <= ids.stream
        /\ conn[c] = "gone" \/ \A p \in pubs : p.id # s

\* A client that is in the room, or in handleToken, has connected.
Connected == \A c \in Client : (c \in clients \/ step[c] # "idle") => conn[c] # "new"

\* NoMissedStream for every client that is not between its entering the room and
\* its reading the list: whoever enters before a stream is announced is told, and
\* whoever enters later will find it on the list.
ListInv ==
    \A p \in In(Main, pubs), c \in clients :
        (/\ Announced(p) /\ p.client # c
         /\ conn[c] = "up" /\ step[c] \in {"idle", "addClient"})
            => p.id \in shown[c] \/ <<"add", c, p.id>> \in mail

\* The bridge streams' ids.
BridgeIds ==
    /\ \A b \in bridges : b.id <= ids.sub
    /\ \A a, b \in bridges : a.id = b.id => a = b

\* What the erizos will run when the queue q is empty.
Finally(m, q) ==
    \E i \in 0..Len(q) :
        /\ IF i = 0 THEN m \in media ELSE m \in q[i].add
        /\ \A j \in (i + 1)..Len(q) : m \notin q[j].remove

MirrorInv ==
    \A e \in EC : \A m \in Command : m[2] # None => (Finally(m, outq[e]) <=> m \in Wanted)

\* What the steps of the room preserve together.
RoomInv ==
    /\ RoomTypes /\ LeakInv /\ StreamsShown /\ Sound
    /\ StreamIds /\ PubsKnown /\ RemovedGone /\ Connected /\ ListInv

--------------------------------------------------------------------------------
(* The room implements the registry.                                       *)

\* Whatever happens in the room, the registry sees one of its own steps or none.
LEMMA RoomStep ==
    ASSUME [Next]_vars
    PROVE  [RegistryNext]_regVars /\ UNCHANGED <<alive, faults>>
<1> USE DEF cluster
<1>1. ASSUME NEW c \in Client, Join(c)
      PROVE  RegistryNext /\ UNCHANGED <<alive, faults>>
  <2>1. Connect(c) \/ Token(c) \/ addClient(c) \/ addClientToEC(c)
    BY <1>1 DEF Join
  <2>2. UNCHANGED <<alive, faults>>
    BY <2>1 DEF Connect, Token, addClient, addClientToEC
  <2> QED
    BY <2>1, <2>2 DEF RegistryNext
<1>2. ASSUME NEW c \in Client, ListStreams(c)
      PROVE  RegistryNext /\ UNCHANGED <<alive, faults>>
  BY <1>2 DEF ListStreams, RegistryNext, getAllPublisher
<1>3. ASSUME NEW c \in Client, Publish(c) \/ Subscribe(c)
      PROVE  RegistryNext /\ UNCHANGED <<alive, faults>>
  BY <1>3 DEF Publish, Subscribe, RegistryNext, handlePublish, handleSubscribe
<1>4. ASSUME NEW c \in Client, Leave(c)
      PROVE  RegistryNext /\ UNCHANGED <<alive, faults>>
  BY <1>4 DEF Leave, RegistryNext, Disconnect
<1>8. ASSUME NEW c \in Client, LeaveGivesUp(c)
      PROVE  RegistryNext /\ UNCHANGED <<alive, faults>>
  BY <1>8 DEF LeaveGivesUp, RegistryNext, DisconnectGivesUp
<1>5. ASSUME NEW t \in tasks, onPublisherAnswer(t)
      PROVE  [RegistryNext]_regVars /\ UNCHANGED <<alive, faults>>
  <2>1. CASE \E p \in pubs : publisherAnswer(p)
    BY <2>1 DEF RegistryNext, publisherAnswer
  <2>2. CASE UNCHANGED regVars
    BY <2>2 DEF regVars
  <2> QED
    BY <1>5, <2>1, <2>2 DEF onPublisherAnswer
<1>6. ASSUME \/ \E e \in EC : Deliver(e)
             \/ \E t \in tasks : onReady(t) \/ notifyToSubscribe(t)
             \/ \E m \in mail : onStreamEvent(m)
             \/ UNCHANGED vars
      PROVE  UNCHANGED regVars
  <2>1. ASSUME NEW e \in EC, Deliver(e) PROVE UNCHANGED regVars
    BY <2>1 DEF Deliver
  <2>2. ASSUME NEW t \in tasks, onReady(t) \/ notifyToSubscribe(t) PROVE UNCHANGED regVars
    BY <2>2 DEF onReady, notifyToSubscribe
  <2>3. ASSUME NEW m \in mail, onStreamEvent(m) PROVE UNCHANGED regVars
    BY <2>3 DEF onStreamEvent
  <2>4. UNCHANGED vars => UNCHANGED regVars
    BY DEF vars
  <2> QED
    BY <1>6, <2>1, <2>2, <2>3, <2>4
<1>7. UNCHANGED regVars => UNCHANGED <<alive, faults>>
  BY DEF regVars
<1> QED
  BY <1>1, <1>2, <1>3, <1>4, <1>5, <1>6, <1>7, <1>8 DEF Next

\* The handlers, the erizos and the signaling together do to the tables what the
\* registry is specified to do, so that all that is proved of it holds here.
THEOREM RoomImplementsRegistry == Spec => RegistrySpec
<1>1. Init => RegistryInit
  BY DEF Init
<1>2. [Next]_vars => [RegistryNext]_regVars
  BY RoomStep
<1> QED
  BY <1>1, <1>2, PTL DEF Spec, RegistrySpec

\* No step of the room fails a command or kills a controller.
LEMMA RoomSound == Spec => []Sound
<1>1. Init => Sound
  BY DEF Init, RegistryInit, Sound
<1>2. Sound /\ [Next]_vars => Sound'
  BY RoomStep DEF Sound
<1> QED
  BY <1>1, <1>2, PTL DEF Spec

\* In the room, whatever handlers, tasks and events interleave, the bridge streams
\* are counted exactly.
COROLLARY RoomCountsExact == Spec => []BridgeCountExact
BY RoomImplementsRegistry, RoomSound, CountsExact, PTL DEF Sound

--------------------------------------------------------------------------------
(* Types.                                                                  *)

\* The commands about the registry's entries.
LEMMA CommandsOf ==
    /\ \A p \in Publisher : /\ MPub(p) \in Command /\ MPub(p)[1] = "pub"
                            /\ MPub(p)[2] = p.erizo /\ MPub(p)[3] = p.client
                            /\ MPub(p)[4] = p.id
    /\ \A s \in Subscriber : MSub(s) \in Command /\ MSub(s)[1] = "sub"
    /\ \A b \in BridgeStream : /\ VPub(b) \in Command /\ VPub(b)[1] = "vpub"
                               /\ VSub(b) \in Command /\ VSub(b)[1] = "vsub"
<1>1. ASSUME NEW p \in Publisher
      PROVE  /\ MPub(p) \in Command /\ MPub(p)[1] = "pub"
             /\ MPub(p)[2] = p.erizo /\ MPub(p)[3] = p.client /\ MPub(p)[4] = p.id
  BY DEF Publisher, MPub, Command
<1>2. ASSUME NEW s \in Subscriber PROVE MSub(s) \in Command /\ MSub(s)[1] = "sub"
  BY DEF Subscriber, MSub, Command
<1>3. ASSUME NEW b \in BridgeStream PROVE VPub(b) \in Command /\ VPub(b)[1] = "vpub"
  BY DEF BridgeStream, VPub, Command
<1>4. ASSUME NEW b \in BridgeStream PROVE VSub(b) \in Command /\ VSub(b)[1] = "vsub"
  BY DEF BridgeStream, VSub, Command
<1> QED
  BY <1>1, <1>2, <1>3, <1>4

\* A command names an erizo or none, and a stream; a publisher's, its client.
LEMMA CommandParts ==
    ASSUME NEW m \in Command
    PROVE  /\ m[2] \in AgentOrNone /\ m[4] \in Stream
           /\ m[1] = "pub" => m[3] \in Client
BY DEF Command

\* What the handlers of a client send is commands.
LEMMA VirtualCommands ==
    ASSUME NEW B, B \subseteq BridgeStream
    PROVE  /\ Virtual(B) \subseteq Command
           /\ \A m \in Virtual(B) : m[1] # "pub" /\ m[1] # "sub"
BY CommandsOf DEF Virtual

\* A batch goes to the end of its controller's queue.
LEMMA SendEffect ==
    ASSUME outq \in [EC -> Seq(Batch)], NEW e \in EC,
           NEW add \in SUBSET Command, NEW remove \in SUBSET Command, Send(e, add, remove)
    PROVE  /\ outq' \in [EC -> Seq(Batch)]
           /\ \A d \in EC \ {e} : outq'[d] = outq[d]
           /\ Len(outq[e]) \in Nat
           /\ \/ add \cup remove = {} /\ outq' = outq
              \/ /\ Len(outq'[e]) = Len(outq[e]) + 1
                 /\ \A i \in 1..Len(outq[e]) : outq'[e][i] = outq[e][i]
                 /\ outq'[e][Len(outq[e]) + 1].add = add
                 /\ outq'[e][Len(outq[e]) + 1].remove = remove
<1> DEFINE b == [add |-> add, remove |-> remove]
<1>1. b \in Batch /\ b.add = add /\ b.remove = remove
  BY DEF Batch
<1>2. outq[e] \in Seq(Batch) /\ Len(outq[e]) \in Nat
  BY LenProperties
<1> HIDE DEF b
<1>3. /\ Append(outq[e], b) \in Seq(Batch)
      /\ Len(Append(outq[e], b)) = Len(outq[e]) + 1
      /\ Append(outq[e], b)[Len(outq[e]) + 1] = b
      /\ \A i \in 1..Len(outq[e]) : Append(outq[e], b)[i] = outq[e][i]
  BY <1>1, <1>2, AppendProperties
<1>4. CASE add \cup remove = {}
  BY <1>2, <1>4 DEF Send
<1>5. CASE add \cup remove # {}
  <2>1. outq' = [outq EXCEPT ![e] = Append(outq[e], b)]
    BY <1>5 DEF Send, b
  <2>2. outq'[e] = Append(outq[e], b) /\ \A d \in EC \ {e} : outq'[d] = outq[d]
    BY <2>1
  <2>3. outq' \in [EC -> Seq(Batch)]
    BY <1>3, <2>1
  <2> QED
    BY <1>1, <1>2, <1>3, <2>2, <2>3
<1> QED
  BY <1>4, <1>5

\* What handlePublish and handleSubscribe add, and what removeClient removes.
LEMMA SentCommands ==
    ASSUME RegistryTypeOK, RegistryTypeOK'
    PROVE  /\ {MPub(p) : p \in pubs' \ pubs} \subseteq Command
           /\ \A B \in SUBSET bridges' :
                  {MSub(s) : s \in subs' \ subs} \cup Virtual(B) \subseteq Command
           /\ \A c, room : \A B \in SUBSET bridges :
                  {MSub(s) : s \in SubsOf(Items(c, room))} \cup Virtual(B)
                      \cup {MPub(p) : p \in Mine(c, room)} \subseteq Command
           /\ \A c, room : SubsOf(Items(c, room)) \subseteq subs
<1>1. /\ pubs \subseteq Publisher /\ pubs' \subseteq Publisher /\ subs \subseteq Subscriber
      /\ subs' \subseteq Subscriber /\ bridges \subseteq BridgeStream
      /\ bridges' \subseteq BridgeStream
  BY DEF RegistryTypeOK
<1>2. \A c, room : SubsOf(Items(c, room)) \subseteq subs
  BY DEF SubsOf, Items, In
<1>3. \A c, room : Mine(c, room) \subseteq pubs
  BY DEF Mine, In
<1>4. {MPub(p) : p \in pubs' \ pubs} \subseteq Command
  BY <1>1, CommandsOf
<1>5. \A B \in SUBSET bridges' :
          {MSub(s) : s \in subs' \ subs} \cup Virtual(B) \subseteq Command
  BY <1>1, CommandsOf, VirtualCommands
<1>6. \A c, room : \A B \in SUBSET bridges :
          {MSub(s) : s \in SubsOf(Items(c, room))} \cup Virtual(B)
              \cup {MPub(p) : p \in Mine(c, room)} \subseteq Command
  BY <1>1, <1>2, <1>3, CommandsOf, VirtualCommands
<1> QED
  BY <1>2, <1>4, <1>5, <1>6

\* The streams torn down are some that were there, and those begun some that are.
LEMMA FreshAndTorn ==
    /\ {b \in bridges' : ~\E a \in bridges : a.id = b.id} \in SUBSET bridges'
    /\ {b \in bridges : ~\E a \in bridges' : a.id = b.id} \in SUBSET bridges
OBVIOUS

\* Every step keeps the types of queues, erizos, tasks, events and lists.
LEMMA RoomTypesStep ==
    ASSUME RoomTypes, RegistryTypeOK, RegistryTypeOK', [Next]_vars
    PROVE  RoomTypes'
<1>1. /\ outq \in [EC -> Seq(Batch)]
      /\ media \subseteq Command /\ \A m \in media : m[2] # None
      /\ tasks \subseteq [kind : TaskKind,
                          stream : Stream, client : Client]
      /\ mail \subseteq {"add", "remove"} \X Client \X Stream
      /\ shown \in [Client -> SUBSET Stream]
      /\ pubs \subseteq Publisher /\ subs \subseteq Subscriber /\ clients \subseteq Client
      /\ Home \in [Client -> EC]
  BY RoomAssumption DEF RoomTypes, RegistryTypeOK
<1>2. ASSUME NEW c \in Client, Join(c) PROVE RoomTypes'
  BY <1>2 DEF Join, async, RoomTypes
<1>3. ASSUME NEW c \in Client, ListStreams(c) PROVE RoomTypes'
  <2>1. {p.id : p \in In(Main, pubs)} \subseteq Stream
    BY <1>1 DEF In, Publisher
  <2> QED
    BY <1>3, <2>1 DEF ListStreams, RoomTypes
<1>4. ASSUME NEW c \in Client, Publish(c) PROVE RoomTypes'
  <2> DEFINE add == {MPub(p) : p \in pubs' \ pubs}
  <2>1. add \in SUBSET Command /\ {} \in SUBSET Command
    BY SentCommands
  <2>2. Send(Home[c], add, {}) /\ Home[c] \in EC
    BY <1>1, <1>4 DEF Publish
  <2> HIDE DEF add
  <2>3. outq' \in [EC -> Seq(Batch)]
    BY <1>1, <2>1, <2>2, SendEffect
  <2> QED
    BY <1>4, <2>3 DEF Publish, RoomTypes
<1>5. ASSUME NEW c \in Client, Subscribe(c) PROVE RoomTypes'
  <2> DEFINE fresh == {b \in bridges' : ~\E a \in bridges : a.id = b.id}
             add == {MSub(s) : s \in subs' \ subs} \cup Virtual(fresh)
  <2>1. add \in SUBSET Command /\ {} \in SUBSET Command
    BY SentCommands, FreshAndTorn
  <2>2. Send(Home[c], add, {}) /\ Home[c] \in EC
    BY <1>1, <1>5 DEF Subscribe
  <2> HIDE DEF add
  <2>3. outq' \in [EC -> Seq(Batch)]
    BY <1>1, <2>1, <2>2, SendEffect
  <2> QED
    BY <1>5, <2>3 DEF Subscribe, RoomTypes
<1>6. ASSUME NEW c \in Client, Leave(c) PROVE RoomTypes'
  <2> DEFINE room == sess[c].room
             dead == SubsOf(Items(c, room))
             torn == {b \in bridges : ~\E a \in bridges' : a.id = b.id}
             remove == {MSub(s) : s \in dead} \cup Virtual(torn)
                       \cup {MPub(p) : p \in Mine(c, room)}
  <2>1. remove \in SUBSET Command /\ {} \in SUBSET Command /\ dead \subseteq subs
    BY SentCommands, FreshAndTorn
  <2>2. /\ Send(Home[c], {}, remove) /\ Home[c] \in EC
        /\ mail' = mail \cup {<<"remove", s.client, s.to>> : s \in dead}
    BY <1>1, <1>6 DEF Leave, RemovalSends
  <2>3. \A s \in dead : s.client \in Client /\ s.to \in Stream
    BY <1>1, <2>1 DEF Subscriber
  <2> HIDE DEF remove, dead
  <2>4. outq' \in [EC -> Seq(Batch)]
    BY <1>1, <2>1, <2>2, SendEffect
  <2>5. mail' \subseteq {"add", "remove"} \X Client \X Stream
    BY <1>1, <2>2, <2>3
  <2>6. shown' \in [Client -> SUBSET Stream]
    BY <1>1, <1>6 DEF Leave
  <2> QED
    BY <1>6, <2>4, <2>5, <2>6 DEF Leave, RoomTypes
<1>7. ASSUME NEW e \in EC, Deliver(e) PROVE RoomTypes'
  <2> DEFINE batch == Head(outq[e])
             added == {m \in batch.add : m[2] # None}
             new == {[kind |-> k, stream |-> m[4], client |-> m[3]] :
                        k \in {"answer", "ready"}, m \in {x \in added : x[1] = "pub"}}
  <2>1. outq[e] \in Seq(Batch) /\ outq[e] # <<>>
    BY <1>1, <1>7 DEF Deliver
  <2>2. batch \in Batch /\ Tail(outq[e]) \in Seq(Batch)
    BY <2>1, HeadTailProperties
  <2>3. /\ media' = (media \ batch.remove) \cup added
        /\ tasks' = tasks \cup new
        /\ outq' = [outq EXCEPT ![e] = Tail(outq[e])]
        /\ UNCHANGED <<mail, shown>>
    BY <1>7 DEF Deliver
  <2>4. added \subseteq Command /\ \A m \in added : m[2] # None
    BY <2>2 DEF Batch
  <2>5. new \subseteq [kind : TaskKind, stream : Stream, client : Client]
    BY <2>4, CommandParts DEF TaskKind
  <2> HIDE DEF new, added, batch
  <2>6. outq' \in [EC -> Seq(Batch)]
    BY <1>1, <2>2, <2>3
  <2> QED
    BY <1>1, <2>3, <2>4, <2>5, <2>6 DEF RoomTypes
<1>8. ASSUME NEW t \in tasks, onPublisherAnswer(t) \/ onReady(t) PROVE RoomTypes'
  <2>1. t \in [kind : TaskKind, stream : Stream, client : Client]
    BY <1>1
  <2>2. \A k \in TaskKind : [t EXCEPT !.kind = k] \in
            [kind : TaskKind, stream : Stream, client : Client]
    BY <2>1
  <2>3. \E k \in {"notify", "dropped"} : tasks' \subseteq tasks \cup {[t EXCEPT !.kind = k]}
    BY <1>8 DEF onPublisherAnswer, onReady
  <2> QED
    BY <1>1, <1>8, <2>2, <2>3 DEF onPublisherAnswer, onReady, RoomTypes, TaskKind
<1>9. ASSUME NEW t \in tasks, notifyToSubscribe(t) PROVE RoomTypes'
  <2>1. t.stream \in Stream
    BY <1>1
  <2>2. mail' \subseteq {"add", "remove"} \X Client \X Stream
    BY <1>1, <1>9, <2>1 DEF notifyToSubscribe
  <2> QED
    BY <1>9, <2>2 DEF notifyToSubscribe, RoomTypes
<1>10. ASSUME NEW m \in mail, onStreamEvent(m) PROVE RoomTypes'
  <2>1. m[2] \in Client /\ m[3] \in Stream
    BY <1>1
  <2>2. shown' \in [Client -> SUBSET Stream]
    BY <1>1, <1>10, <2>1 DEF onStreamEvent
  <2> QED
    BY <1>10, <2>2 DEF onStreamEvent, RoomTypes
<1>11. CASE UNCHANGED vars
  BY <1>11 DEF vars, async, RoomTypes
<1>12. ASSUME NEW c \in Client, LeaveGivesUp(c) PROVE RoomTypes'
  BY <1>1, <1>12 DEF LeaveGivesUp, RoomTypes
<1> QED
  BY <1>2, <1>3, <1>4, <1>5, <1>6, <1>7, <1>8, <1>9, <1>10, <1>11, <1>12 DEF Next

\* They hold of the empty room.
LEMMA RoomTypesInit == Init => RoomTypes
<1> SUFFICES ASSUME Init PROVE RoomTypes
  OBVIOUS
<1>1. outq \in [EC -> Seq(Batch)] /\ shown \in [Client -> SUBSET Stream]
  BY EmptySeq DEF Init
<1> QED
  BY <1>1 DEF Init, RoomTypes

\* And so they hold for good.
LEMMA RoomTyped == Spec => []RoomTypes
<1>1. LeakInv => RegistryTypeOK
  BY DEF LeakInv, Types
<1>2. Spec => []RegistryTypeOK
  BY <1>1, RoomImplementsRegistry, LeakInvariant, PTL
<1>3. RoomTypes /\ RegistryTypeOK /\ RegistryTypeOK' /\ [Next]_vars => RoomTypes'
  BY RoomTypesStep
<1> QED
  BY <1>2, <1>3, RoomTypesInit, PTL DEF Spec

\* Queues, media processes, tasks and events keep their types: in particular no
\* command ever makes an erizo run something for no erizo at all.
THEOREM RoomTypeCorrect == Spec => []TypeOK
<1>1. RegistryTypeOK /\ RoomTypes => TypeOK
  <2> SUFFICES ASSUME RegistryTypeOK, RoomTypes PROVE TypeOK
    OBVIOUS
  <2>1. \A m \in media : m[2] \in Agent /\ m[4] \in Stream
    BY CommandParts DEF RoomTypes, AgentOrNone
  <2> QED
    BY <2>1 DEF RoomTypes, TaskKind, TypeOK
<1> QED
  BY <1>1, RoomTyped, RoomImplementsRegistry, RegistryTypeCorrect, PTL

--------------------------------------------------------------------------------
(* What is known of the streams.                                           *)

\* What the steps do to the publishers: one by a new id, an answer, a removal.
LEMMA PubsChange ==
    ASSUME RegistryTypeOK, [Next]_vars
    PROVE  \/ pubs' \subseteq pubs /\ ids'.stream = ids.stream
           \/ \E c \in Client :
                  /\ Publish(c)
                  /\ ids'.stream = ids.stream + 1
                  /\ \E p \in NewPublishers(c) : pubs' = pubs \cup {p}
           \/ /\ ids'.stream = ids.stream
              /\ \E p \in pubs : pubs' = (pubs \ {p}) \cup {[p EXCEPT !.ssrc = TRUE]}
<1> USE DEF RegistryTypeOK, link, redis, cluster
<1>1. ASSUME NEW c \in Client,
             Join(c) \/ ListStreams(c) \/ Subscribe(c) \/ LeaveGivesUp(c)
      PROVE  pubs' = pubs /\ ids'.stream = ids.stream
  <2>1. CASE Join(c)
    BY <2>1 DEF Join, Connect, Token, addClient, addClientToEC
  <2>2. CASE ListStreams(c)
    BY <2>2 DEF ListStreams, getAllPublisher
  <2>3. CASE Subscribe(c)
    BY <2>3 DEF Subscribe, handleSubscribe
  <2>4. CASE LeaveGivesUp(c)
    BY <2>4 DEF LeaveGivesUp, DisconnectGivesUp
  <2> QED
    BY <1>1, <2>1, <2>2, <2>3, <2>4
<1>2. ASSUME NEW c \in Client, Publish(c)
      PROVE  ids'.stream = ids.stream + 1 /\ \E p \in NewPublishers(c) : pubs' = pubs \cup {p}
  BY <1>2 DEF Publish, handlePublish
<1>3. ASSUME NEW c \in Client, Leave(c) PROVE pubs' \subseteq pubs /\ ids'.stream = ids.stream
  BY <1>3 DEF Leave, Disconnect, RemoveClient
<1>4. ASSUME NEW e \in EC, Deliver(e) PROVE pubs' = pubs /\ ids' = ids
  BY <1>4 DEF Deliver, regVars
<1>5. ASSUME NEW t \in tasks, onPublisherAnswer(t)
      PROVE  /\ ids' = ids
             /\ \/ pubs' = pubs
                \/ \E p \in pubs : pubs' = (pubs \ {p}) \cup {[p EXCEPT !.ssrc = TRUE]}
  BY <1>5 DEF onPublisherAnswer, publisherAnswer, regVars
<1>6. ASSUME NEW t \in tasks, onReady(t) \/ notifyToSubscribe(t) PROVE pubs' = pubs /\ ids' = ids
  BY <1>6 DEF onReady, notifyToSubscribe, regVars
<1>7. ASSUME NEW m \in mail, onStreamEvent(m) PROVE pubs' = pubs /\ ids' = ids
  BY <1>7 DEF onStreamEvent, regVars
<1>8. UNCHANGED vars => pubs' = pubs /\ ids' = ids
  BY DEF vars, regVars
<1> QED
  BY <1>1, <1>2, <1>3, <1>4, <1>5, <1>6, <1>7, <1>8 DEF Next

\* Every publisher was there, but for its ssrcs, or goes by an id drawn just now.
LEMMA PubsBefore ==
    ASSUME RegistryTypeOK, [Next]_vars
    PROVE  /\ ids.stream \in Nat /\ ids'.stream \in Nat /\ ids.stream <= ids'.stream
           /\ \A p \in pubs' :
                  \/ \E q \in pubs : /\ q.id = p.id /\ q.client = p.client /\ q.room = p.room
                                     /\ q.erizo = p.erizo /\ MPub(q) = MPub(p)
                  \/ p.id = ids.stream + 1 /\ p.id = ids'.stream /\ p \notin pubs
<1>1. ids.stream \in Nat /\ pubs \subseteq Publisher
  BY DEF RegistryTypeOK
<1>2. ASSUME NEW p \in pubs, NEW q, q = [p EXCEPT !.ssrc = TRUE]
      PROVE  /\ q.id = p.id /\ q.client = p.client /\ q.room = p.room /\ q.erizo = p.erizo
             /\ q.agent = p.agent /\ q \in Publisher
  BY <1>1, <1>2 DEF Publisher
<1>3. CASE pubs' \subseteq pubs /\ ids'.stream = ids.stream
  BY <1>1, <1>3
<1>4. ASSUME NEW c \in Client, NEW p \in NewPublishers(c), pubs' = pubs \cup {p},
             ids'.stream = ids.stream + 1
      PROVE  /\ ids'.stream \in Nat /\ ids.stream <= ids'.stream
             /\ \A q \in pubs' : q \in pubs \/ (q.id = ids.stream + 1 /\ q.id = ids'.stream /\ q \notin pubs)
  BY <1>1, <1>4 DEF NewPublishers
<1>5. ASSUME NEW p \in pubs, pubs' = (pubs \ {p}) \cup {[p EXCEPT !.ssrc = TRUE]},
             ids'.stream = ids.stream
      PROVE  /\ ids'.stream \in Nat /\ ids.stream <= ids'.stream
             /\ \A r \in pubs' :
                  \E q \in pubs : /\ q.id = r.id /\ q.client = r.client /\ q.room = r.room
                                  /\ q.erizo = r.erizo /\ MPub(q) = MPub(r)
  <2>1. ASSUME NEW r \in pubs'
        PROVE  r \in pubs \/ r = [p EXCEPT !.ssrc = TRUE]
    BY <1>5
  <2> QED
    BY <1>1, <1>2, <1>5, <2>1 DEF MPub
<1>6. CASE \E c \in Client :
              /\ ids'.stream = ids.stream + 1
              /\ \E p \in NewPublishers(c) : pubs' = pubs \cup {p}
  BY <1>1, <1>4, <1>6
<1>7. CASE /\ ids'.stream = ids.stream
           /\ \E p \in pubs : pubs' = (pubs \ {p}) \cup {[p EXCEPT !.ssrc = TRUE]}
  BY <1>1, <1>5, <1>7
<1> QED
  BY <1>3, <1>6, <1>7, PubsChange

\* A stream id names one publisher for good.
LEMMA StreamIdsStep ==
    ASSUME RegistryTypeOK, StreamIds, [Next]_vars
    PROVE  StreamIds'
<1>1. /\ ids.stream \in Nat /\ ids'.stream \in Nat /\ ids.stream <= ids'.stream
      /\ pubs \subseteq Publisher /\ \A p \in pubs : p.id \in Nat
  BY PubsBefore DEF RegistryTypeOK, Publisher, Stream
<1>2. CASE pubs' \subseteq pubs /\ ids'.stream = ids.stream
  BY <1>2 DEF StreamIds
<1>3. ASSUME NEW c \in Client, NEW p \in NewPublishers(c), pubs' = pubs \cup {p},
             ids'.stream = ids.stream + 1
      PROVE  StreamIds'
  <2>1. p.id = ids.stream + 1
    BY DEF NewPublishers
  <2>2. \A q \in pubs' : q.id <= ids'.stream
    BY <1>1, <1>3, <2>1 DEF StreamIds
  <2>3. \A q \in pubs : q.id # p.id
    BY <1>1, <2>1 DEF StreamIds
  <2>4. \A q, r \in pubs' : q.id = r.id => q = r
    BY <1>3, <2>3 DEF StreamIds
  <2> QED
    BY <2>2, <2>4 DEF StreamIds
<1>4. ASSUME NEW p \in pubs, pubs' = (pubs \ {p}) \cup {[p EXCEPT !.ssrc = TRUE]},
             ids'.stream = ids.stream
      PROVE  StreamIds'
  <2> DEFINE n == [p EXCEPT !.ssrc = TRUE]
  <2>1. n.id = p.id
    BY <1>1 DEF Publisher
  <2> HIDE DEF n
  <2>2. pubs' = (pubs \ {p}) \cup {n}
    BY <1>4 DEF n
  <2>3. \A q \in pubs' : q.id <= ids'.stream
    BY <1>4, <2>1, <2>2 DEF StreamIds
  <2>4. \A q, r \in pubs' : q.id = r.id => q = r
    BY <2>1, <2>2 DEF StreamIds
  <2> QED
    BY <2>3, <2>4 DEF StreamIds
<1> QED
  BY <1>2, <1>3, <1>4, PubsChange

\* What a stream's id names, it names for good.
LEMMA NamesStep ==
    ASSUME RegistryTypeOK, [Next]_vars, NEW s \in Stream, NEW c, Names(s, c)
    PROVE  s <= ids'.stream /\ \A p \in pubs' : p.id = s => p.client = c
<1>1. s \in Nat
  BY DEF Stream
<1> QED
  BY <1>1, PubsBefore DEF Names

\* The steps of handleToken, one by one.
LEMMA StepsInOrder ==
    /\ StepAfter("addClient") = "addClientToEC"
    /\ StepAfter("addClientToEC") = "list"
    /\ StepAfter("list") = "idle"
    /\ TokenSteps[1] = "addClient"
<1>1. /\ DOMAIN TokenSteps = {1, 2, 3} /\ Len(TokenSteps) = 3
      /\ TokenSteps[1] = "addClient" /\ TokenSteps[2] = "addClientToEC"
      /\ TokenSteps[3] = "list"
  BY DEF TokenSteps
<1> DEFINE i(x) == CHOOSE i \in DOMAIN TokenSteps : TokenSteps[i] = x
<1>2. i("addClient") = 1 /\ i("addClientToEC") = 2 /\ i("list") = 3
  BY <1>1
<1>3. \A x : StepAfter(x) = IF i(x) = Len(TokenSteps) THEN "idle" ELSE TokenSteps[i(x) + 1]
  BY DEF StepAfter
<1> HIDE DEF i
<1> QED
  BY <1>1, <1>2, <1>3

\* What the steps do to the clients: handleToken, one step at a time, and the
\* disconnection, which is for good.
LEMMA ClientsChange ==
    ASSUME RegistryTypeOK, [Next]_vars
    PROVE  \/ \E c \in Client : Join(c)
           \/ \E c \in Client : /\ ListStreams(c) /\ UNCHANGED <<conn, clients>>
                                /\ step[c] = "list"
                                /\ step' = [step EXCEPT ![c] = "idle"]
           \/ \E c \in Client, as \in {"gone", "left"} :
                                /\ Ready(c) /\ clients' \subseteq clients
                                /\ conn' = [d \in Client |-> IF d \in {c} THEN as ELSE conn[d]]
                                /\ step' = [d \in Client |-> IF d \in {c} THEN "idle" ELSE step[d]]
           \/ UNCHANGED <<conn, step, clients>>
<1> USE DEF link, redis, cluster
<1>1. ASSUME NEW c \in Client, ListStreams(c)
      PROVE  /\ UNCHANGED <<conn, clients>> /\ step[c] = "list"
             /\ step' = [step EXCEPT ![c] = "idle"]
  BY <1>1, StepsInOrder DEF ListStreams, getAllPublisher, Advance
<1>2. ASSUME NEW c \in Client, Publish(c) \/ Subscribe(c) PROVE UNCHANGED <<conn, step, clients>>
  BY <1>2 DEF Publish, Subscribe, handlePublish, handleSubscribe
<1>3. ASSUME NEW c \in Client, Leave(c)
      PROVE  /\ clients' \subseteq clients
             /\ conn' = [d \in Client |-> IF d \in {c} THEN "gone" ELSE conn[d]]
             /\ step' = [d \in Client |-> IF d \in {c} THEN "idle" ELSE step[d]]
             /\ Ready(c)
  BY <1>3 DEF Leave, Disconnect, RemoveClient, Close
<1>4. ASSUME NEW e \in EC, Deliver(e) PROVE UNCHANGED <<conn, step, clients>>
  BY <1>4 DEF Deliver, regVars
<1>5. ASSUME NEW t \in tasks, onPublisherAnswer(t) PROVE UNCHANGED <<conn, step, clients>>
  BY <1>5 DEF onPublisherAnswer, publisherAnswer, regVars
<1>6. ASSUME NEW t \in tasks, onReady(t) \/ notifyToSubscribe(t)
      PROVE  UNCHANGED <<conn, step, clients>>
  BY <1>6 DEF onReady, notifyToSubscribe, regVars
<1>7. ASSUME NEW m \in mail, onStreamEvent(m) PROVE UNCHANGED <<conn, step, clients>>
  BY <1>7 DEF onStreamEvent, regVars
<1>8. UNCHANGED vars => UNCHANGED <<conn, step, clients>>
  BY DEF vars, regVars
<1>9. ASSUME NEW c \in Client, LeaveGivesUp(c)
      PROVE  /\ clients' = clients
             /\ conn' = [d \in Client |-> IF d \in {c} THEN "left" ELSE conn[d]]
             /\ step' = [d \in Client |-> IF d \in {c} THEN "idle" ELSE step[d]]
             /\ Ready(c)
  BY <1>9 DEF LeaveGivesUp, DisconnectGivesUp, Close
<1> QED
  BY <1>1, <1>2, <1>3, <1>4, <1>5, <1>6, <1>7, <1>8, <1>9 DEF Next

\* Whoever was in the room, up and idle or about to be entered, before handleToken
\* or the connection made its next step.
LEMMA JoinChange ==
    ASSUME RegistryTypeOK, Connected, NEW c \in Client, Join(c)
    PROVE  /\ Connected'
           /\ \A d \in Client : conn[d] = "gone" => conn'[d] = "gone"
           /\ \A d \in clients' :
                  conn'[d] = "up" /\ step'[d] \in {"idle", "addClient"} =>
                      d \in clients /\ conn[d] = "up" /\ step[d] \in {"idle", "addClient"}
<1> USE DEF RegistryTypeOK, Connected
<1>1. CASE Connect(c)
  BY <1>1 DEF Connect, redis
<1>2. CASE Token(c)
  BY <1>2, StepsInOrder DEF Token, Ready, redis
<1>3. CASE addClient(c)
  BY <1>3, StepsInOrder DEF addClient, Advance
<1>4. CASE addClientToEC(c)
  BY <1>4, StepsInOrder DEF addClientToEC, Advance
<1> QED
  BY <1>1, <1>2, <1>3, <1>4 DEF Join

\* A client enters the room connected, and one that is gone does not come back.
LEMMA ConnectedStep ==
    ASSUME RegistryTypeOK, Connected, [Next]_vars
    PROVE  Connected' /\ \A c \in Client : conn[c] = "gone" => conn'[c] = "gone"
<1> USE DEF RegistryTypeOK
<1>1. ASSUME NEW c \in Client, UNCHANGED <<conn, clients>>, step[c] = "list",
             step' = [step EXCEPT ![c] = "idle"]
      PROVE  Connected'
  BY <1>1 DEF Connected
<1>2. ASSUME NEW c \in Client, NEW as \in {"gone", "left"}, Ready(c), clients' \subseteq clients,
             conn' = [d \in Client |-> IF d \in {c} THEN as ELSE conn[d]],
             step' = [d \in Client |-> IF d \in {c} THEN "idle" ELSE step[d]]
      PROVE  Connected' /\ \A d \in Client : conn[d] = "gone" => conn'[d] = "gone"
  BY <1>2 DEF Connected, Ready
<1>3. UNCHANGED <<conn, step, clients>> => Connected'
  BY DEF Connected
<1> QED
  BY <1>1, <1>2, <1>3, JoinChange, ClientsChange

\* A client that is told to drop a stream has left, or the publisher has.
LEMMA RemovedGoneStep ==
    ASSUME RegistryTypeOK, StreamsShown, Sound, StreamIds, RoomTypes, Connected, RemovedGone,
           [Next]_vars
    PROVE  RemovedGone'
<1>1. /\ \A c \in Client : conn[c] = "gone" => conn'[c] = "gone"
      /\ pubs \subseteq Publisher /\ subs \subseteq Subscriber /\ StreamIds'
      /\ \A p \in pubs : p.id \in Nat
      /\ ids.stream \in Nat /\ ids'.stream \in Nat /\ ids.stream <= ids'.stream
  BY ConnectedStep, StreamIdsStep, PubsBefore DEF RegistryTypeOK, Publisher, Stream
<1>2. ASSUME NEW c \in Client, NEW s \in Stream, s <= ids.stream,
             conn[c] = "gone" \/ \A p \in pubs : p.id # s
      PROVE  s <= ids'.stream /\ (conn'[c] = "gone" \/ \A p \in pubs' : p.id # s)
  <2>1. s \in Nat
    BY DEF Stream
  <2> QED
    BY <1>1, <1>2, <2>1, PubsBefore
<1>3. ASSUME mail' \subseteq mail \cup ({"add"} \X Client \X Stream)
      PROVE  RemovedGone'
  <2>1. \A c \in Client, s \in Stream : <<"remove", c, s>> \in mail' => <<"remove", c, s>> \in mail
    BY <1>3
  <2> QED
    BY <1>2, <2>1 DEF RemovedGone
<1>4. ASSUME NEW c \in Client, Leave(c) PROVE RemovedGone'
  <2> DEFINE room == sess[c].room
             dead == SubsOf(Items(c, room))
  <2>1. /\ mail' = mail \cup {<<"remove", s.client, s.to>> : s \in dead}
        /\ conn'[c] = "gone"
        /\ pubs' = pubs \ Mine(c, room)
    BY <1>4 DEF Leave, RemovalSends, Disconnect, RemoveClient, Close
  <2>2. \A s \in dead : /\ s \in subs /\ s.room = room
                        /\ s.client = c \/ \E p \in Mine(c, room) : s.to = p.id
    BY DEF SubsOf, Items, In
  <2>3. \A s \in dead : s.to <= ids.stream
    BY <2>2 DEF StreamsShown, StreamIds, Sound
  <2>4. \A s \in dead : conn'[s.client] = "gone" \/ \A p \in pubs' : p.id # s.to
    BY <2>1, <2>2 DEF StreamIds, Mine, In
  <2> HIDE DEF dead
  <2>5. ASSUME NEW d \in Client, NEW s \in Stream, <<"remove", d, s>> \in mail'
        PROVE  s <= ids'.stream /\ (conn'[d] = "gone" \/ \A p \in pubs' : p.id # s)
    <3>1. CASE <<"remove", d, s>> \in mail
      BY <1>2, <3>1 DEF RemovedGone
    <3>2. CASE <<"remove", d, s>> \notin mail
      <4>1. PICK x \in dead : d = x.client /\ s = x.to
        BY <2>1, <2>5, <3>2
      <4>2. s \in Nat
        BY DEF Stream
      <4> QED
        BY <1>1, <2>3, <2>4, <4>1, <4>2
    <3> QED
      BY <3>1, <3>2
  <2> QED
    BY <2>5 DEF RemovedGone
<1>5. ASSUME NEW t \in tasks, notifyToSubscribe(t)
      PROVE  mail' \subseteq mail \cup ({"add"} \X Client \X Stream)
  BY <1>5 DEF notifyToSubscribe, RoomTypes, RegistryTypeOK
<1>6. ASSUME ~\E c \in Client : Leave(c), ~\E t \in tasks : notifyToSubscribe(t)
      PROVE  mail' \subseteq mail
  <2>1. ASSUME NEW c \in Client,
               Join(c) \/ ListStreams(c) \/ Publish(c) \/ Subscribe(c) \/ LeaveGivesUp(c)
        PROVE  mail' = mail
    BY <2>1 DEF Join, async, ListStreams, Publish, Subscribe, LeaveGivesUp
  <2>2. ASSUME NEW e \in EC, Deliver(e) PROVE mail' = mail
    BY <2>2 DEF Deliver
  <2>3. ASSUME NEW t \in tasks, onPublisherAnswer(t) \/ onReady(t) PROVE mail' = mail
    BY <2>3 DEF onPublisherAnswer, onReady
  <2>4. ASSUME NEW m \in mail, onStreamEvent(m) PROVE mail' \subseteq mail
    BY <2>4 DEF onStreamEvent
  <2>5. UNCHANGED vars => mail' = mail
    BY DEF vars, async
  <2> QED
    BY <1>6, <2>1, <2>2, <2>3, <2>4, <2>5 DEF Next
<1> QED
  BY <1>3, <1>4, <1>5, <1>6

\* The batches of the send queues are batches.
LEMMA BatchOf ==
    ASSUME outq \in [EC -> Seq(Batch)], NEW e \in EC
    PROVE  /\ outq[e] \in Seq(Batch) /\ Len(outq[e]) \in Nat
           /\ \A i \in 1..Len(outq[e]) : /\ outq[e][i] \in Batch
                                         /\ outq[e][i].add \in SUBSET Command
                                         /\ outq[e][i].remove \in SUBSET Command
<1>1. outq[e] \in Seq(Batch) /\ Len(outq[e]) \in Nat
  BY LenProperties
<1>2. \A i \in 1..Len(outq[e]) : outq[e][i] \in Batch
  BY <1>1, ElementOfSeq
<1> QED
  BY <1>1, <1>2 DEF Batch

\* The tasks an erizo's answers become, for the publishers it is told of.
NewTasks(S) ==
    {[kind |-> k, stream |-> m[4], client |-> m[3]] : k \in {"answer", "ready"}, m \in S}

\* Each publisher has its ready task, and each task names its publisher.
LEMMA NewTasksName ==
    ASSUME NEW S
    PROVE  /\ \A m \in S : [kind |-> "ready", stream |-> m[4], client |-> m[3]] \in NewTasks(S)
           /\ \A t \in NewTasks(S) : \E m \in S : t.stream = m[4] /\ t.client = m[3]
<1> DEFINE F(k, m) == [kind |-> k, stream |-> m[4], client |-> m[3]]
<1>1. NewTasks(S) = {F(k, m) : k \in {"answer", "ready"}, m \in S}
  BY DEF NewTasks
<1>2. \A k, m : F(k, m).stream = m[4] /\ F(k, m).client = m[3]
  OBVIOUS
<1> HIDE DEF F
<1>3. \A m \in S : F("ready", m) \in NewTasks(S)
  BY <1>1
<1>4. \A t \in NewTasks(S) : \E m \in S : t.stream = m[4] /\ t.client = m[3]
  BY <1>1, <1>2
<1> QED
  BY <1>3, <1>4 DEF F

\* The send thread takes the first batch, and the others move up.
LEMMA TailEffect ==
    ASSUME outq \in [EC -> Seq(Batch)], NEW e \in EC, Deliver(e)
    PROVE  /\ outq[e] # <<>> /\ 1 \in 1..Len(outq[e]) /\ outq[e][1] \in Batch
           /\ outq'[e] \in Seq(Batch)
           /\ Len(outq[e]) \in Nat /\ Len(outq'[e]) = Len(outq[e]) - 1
           /\ \A i \in 1..Len(outq'[e]) :
                  i + 1 \in 1..Len(outq[e]) /\ outq'[e][i] = outq[e][i + 1]
           /\ \A d \in EC \ {e} : outq'[d] = outq[d]
           /\ media' = (media \ outq[e][1].remove)
                         \cup {m \in outq[e][1].add : m[2] # None}
           /\ tasks' = tasks \cup
                  NewTasks({x \in {m \in outq[e][1].add : m[2] # None} : x[1] = "pub"})
<1>1. outq[e] \in Seq(Batch) /\ outq[e] # <<>>
  BY DEF Deliver
<1>2. /\ Head(outq[e]) = outq[e][1] /\ Head(outq[e]) \in Batch
      /\ Tail(outq[e]) \in Seq(Batch)
      /\ Len(Tail(outq[e])) = Len(outq[e]) - 1
      /\ \A i \in 1..Len(Tail(outq[e])) : Tail(outq[e])[i] = outq[e][i + 1]
  BY <1>1, HeadTailProperties
<1>3. Len(outq[e]) \in Nat /\ Len(outq[e]) # 0
  BY <1>1, LenProperties, EmptySeq
<1>4. outq' = [outq EXCEPT ![e] = Tail(outq[e])]
  BY DEF Deliver
<1>5. outq'[e] = Tail(outq[e]) /\ \A d \in EC \ {e} : outq'[d] = outq[d]
  BY <1>4
<1>6. /\ media' = (media \ outq[e][1].remove) \cup {m \in outq[e][1].add : m[2] # None}
      /\ tasks' = tasks \cup
             NewTasks({x \in {m \in outq[e][1].add : m[2] # None} : x[1] = "pub"})
  BY <1>2 DEF Deliver, NewTasks
<1> QED
  BY <1>1, <1>2, <1>3, <1>5, <1>6

\* Whatever the erizos are told to publish was to be told before, or is a stream of
\* the room.
LEMMA QueueStep ==
    ASSUME RoomTypes, RegistryTypeOK, RegistryTypeOK', [Next]_vars,
           NEW e \in EC, NEW i \in 1..Len(outq'[e]), NEW m \in outq'[e][i].add, m[1] = "pub"
    PROVE  \/ \E j \in 1..Len(outq[e]) : m \in outq[e][j].add
           \/ \E p \in pubs' : m = MPub(p)
<1>1. outq \in [EC -> Seq(Batch)] /\ Home \in [Client -> EC]
  BY RoomAssumption DEF RoomTypes
<1>2. Len(outq[e]) \in Nat
  BY <1>1, BatchOf
<1>3. ASSUME NEW d \in EC, NEW add \in SUBSET Command, NEW remove \in SUBSET Command,
             Send(d, add, remove), m \in add => \E p \in pubs' : m = MPub(p)
      PROVE  \/ \E j \in 1..Len(outq[e]) : m \in outq[e][j].add
             \/ \E p \in pubs' : m = MPub(p)
  <2>1. CASE d # e
    <3>1. \A x \in EC \ {d} : outq'[x] = outq[x]
      BY <1>1, <1>3, SendEffect
    <3>2. outq'[e] = outq[e]
      BY <2>1, <3>1
    <3> QED
      BY <3>2
  <2>2. CASE d = e
    <3>1. CASE outq' = outq
      BY <3>1
    <3>2. CASE /\ Len(outq'[e]) = Len(outq[e]) + 1
               /\ \A k \in 1..Len(outq[e]) : outq'[e][k] = outq[e][k]
               /\ outq'[e][Len(outq[e]) + 1].add = add
      <4>1. i \in 1..Len(outq[e]) \/ i = Len(outq[e]) + 1
        BY <1>2, <3>2
      <4> QED
        BY <1>3, <3>2, <4>1
    <3> QED
      BY <1>1, <1>3, <2>2, <3>1, <3>2, SendEffect
  <2> QED
    BY <2>1, <2>2
<1>4. ASSUME NEW c \in Client, Publish(c)
      PROVE  \/ \E j \in 1..Len(outq[e]) : m \in outq[e][j].add
             \/ \E p \in pubs' : m = MPub(p)
  <2> DEFINE add == {MPub(p) : p \in pubs' \ pubs}
  <2>1. add \in SUBSET Command /\ {} \in SUBSET Command /\ Home[c] \in EC
    BY <1>1, SentCommands
  <2>2. Send(Home[c], add, {}) /\ (m \in add => \E p \in pubs' : m = MPub(p))
    BY <1>4 DEF Publish
  <2> HIDE DEF add
  <2> QED
    BY <1>3, <2>1, <2>2
<1>5. ASSUME NEW c \in Client, Subscribe(c)
      PROVE  \/ \E j \in 1..Len(outq[e]) : m \in outq[e][j].add
             \/ \E p \in pubs' : m = MPub(p)
  <2> DEFINE fresh == {b \in bridges' : ~\E a \in bridges : a.id = b.id}
             add == {MSub(s) : s \in subs' \ subs} \cup Virtual(fresh)
  <2>1. add \in SUBSET Command /\ {} \in SUBSET Command /\ Home[c] \in EC
    BY <1>1, SentCommands, FreshAndTorn
  <2>2. m \notin add
    <3>1. m \notin Virtual(fresh)
      BY VirtualCommands DEF RegistryTypeOK
    <3>2. \A s \in subs' \ subs : m # MSub(s)
      BY CommandsOf DEF RegistryTypeOK
    <3> QED
      BY <3>1, <3>2
  <2>3. Send(Home[c], add, {})
    BY <1>5 DEF Subscribe
  <2> HIDE DEF add
  <2> QED
    BY <1>3, <2>1, <2>2, <2>3
<1>6. ASSUME NEW c \in Client, Leave(c)
      PROVE  \/ \E j \in 1..Len(outq[e]) : m \in outq[e][j].add
             \/ \E p \in pubs' : m = MPub(p)
  <2> DEFINE torn == {b \in bridges : ~\E a \in bridges' : a.id = b.id}
             remove == {MSub(s) : s \in SubsOf(Items(c, sess[c].room))} \cup Virtual(torn)
                       \cup {MPub(p) : p \in Mine(c, sess[c].room)}
  <2>1. remove \in SUBSET Command /\ {} \in SUBSET Command /\ Home[c] \in EC
    BY <1>1, SentCommands, FreshAndTorn
  <2>2. Send(Home[c], {}, remove)
    BY <1>6 DEF Leave, RemovalSends
  <2> HIDE DEF remove
  <2> QED
    BY <1>3, <2>1, <2>2
<1>7. ASSUME NEW d \in EC, Deliver(d)
      PROVE  \/ \E j \in 1..Len(outq[e]) : m \in outq[e][j].add
             \/ \E p \in pubs' : m = MPub(p)
  <2>1. CASE d = e
    BY <1>1, <1>7, <2>1, TailEffect
  <2>2. CASE d # e
    <3>1. outq'[e] = outq[e]
      BY <1>1, <1>7, <2>2, TailEffect
    <3> QED
      BY <3>1
  <2> QED
    BY <2>1, <2>2
<1>8. CASE outq' = outq
  BY <1>8
<1>9. ASSUME NEW c \in Client, Join(c) \/ ListStreams(c) \/ LeaveGivesUp(c) PROVE outq' = outq
  BY <1>9 DEF Join, async, ListStreams, LeaveGivesUp
<1>10. ASSUME NEW t \in tasks, onPublisherAnswer(t) \/ onReady(t) \/ notifyToSubscribe(t)
       PROVE  outq' = outq
  BY <1>10 DEF onPublisherAnswer, onReady, notifyToSubscribe
<1>11. ASSUME NEW x \in mail, onStreamEvent(x) PROVE outq' = outq
  BY <1>11 DEF onStreamEvent
<1>12. UNCHANGED vars => outq' = outq
  BY DEF vars, async
<1> QED
  BY <1>4, <1>5, <1>6, <1>7, <1>8, <1>9, <1>10, <1>11, <1>12 DEF Next

\* Whatever the erizos run they ran, or a batch has told them to; and each task
\* is about the stream of another, or of a publisher they have just been told of.
LEMMA ErizoStep ==
    ASSUME RoomTypes, RegistryTypeOK, [Next]_vars
    PROVE  /\ \A m \in media' : \/ m \in media
                                \/ \E e \in EC : \E i \in 1..Len(outq[e]) : m \in outq[e][i].add
           /\ \A t \in tasks' :
                  \/ \E u \in tasks : u.stream = t.stream /\ u.client = t.client
                  \/ \E e \in EC : \E i \in 1..Len(outq[e]) : \E m \in outq[e][i].add :
                         m[1] = "pub" /\ t.stream = m[4] /\ t.client = m[3]
<1>1. ASSUME NEW e \in EC, Deliver(e)
      PROVE  /\ \A m \in media' : \/ m \in media
                                  \/ \E i \in 1..Len(outq[e]) : m \in outq[e][i].add
             /\ \A t \in tasks' :
                  \/ t \in tasks
                  \/ \E i \in 1..Len(outq[e]) : \E m \in outq[e][i].add :
                         m[1] = "pub" /\ t.stream = m[4] /\ t.client = m[3]
  <2>1. outq \in [EC -> Seq(Batch)]
    BY DEF RoomTypes
  <2> DEFINE told == {x \in {m \in outq[e][1].add : m[2] # None} : x[1] = "pub"}
  <2>2. /\ 1 \in 1..Len(outq[e])
        /\ media' = (media \ outq[e][1].remove) \cup {m \in outq[e][1].add : m[2] # None}
        /\ tasks' = tasks \cup NewTasks(told)
    BY <1>1, <2>1, TailEffect
  <2>3. \A m \in told : m \in outq[e][1].add /\ m[1] = "pub"
    OBVIOUS
  <2> HIDE DEF told
  <2>4. ASSUME NEW t \in tasks', t \notin tasks
        PROVE  \E m \in told : t.stream = m[4] /\ t.client = m[3]
    BY <2>2, <2>4, NewTasksName
  <2>5. \A m \in media' : m \in media \/ \E i \in 1..Len(outq[e]) : m \in outq[e][i].add
    BY <2>2
  <2> QED
    BY <2>2, <2>3, <2>4, <2>5
<1>2. ASSUME NEW t \in tasks, onPublisherAnswer(t) \/ onReady(t) \/ notifyToSubscribe(t)
      PROVE  /\ media' = media
             /\ \A u \in tasks' : u \in tasks \/ (u.stream = t.stream /\ u.client = t.client)
  <2>1. t \in [kind : TaskKind, stream : Stream, client : Client]
    BY DEF RoomTypes
  <2>2. \A k : [t EXCEPT !.kind = k].stream = t.stream /\ [t EXCEPT !.kind = k].client = t.client
    BY <2>1
  <2> QED
    BY <1>2, <2>2 DEF onPublisherAnswer, onReady, notifyToSubscribe
<1>3. ASSUME NEW c \in Client,
             \/ Join(c) \/ ListStreams(c) \/ Publish(c) \/ Subscribe(c)
             \/ Leave(c) \/ LeaveGivesUp(c)
      PROVE  media' = media /\ tasks' = tasks
  BY <1>3 DEF Join, async, ListStreams, Publish, Subscribe, Leave, LeaveGivesUp
<1>4. ASSUME NEW m \in mail, onStreamEvent(m) PROVE media' = media /\ tasks' = tasks
  BY <1>4 DEF onStreamEvent
<1>5. UNCHANGED vars => media' = media /\ tasks' = tasks
  BY DEF vars, async
<1> QED
  BY <1>1, <1>2, <1>3, <1>4, <1>5 DEF Next

\* What is said or done about a publisher names its client, also when the queue
\* moves up, an erizo answers or the publisher goes.
LEMMA PubsKnownStep ==
    ASSUME RoomTypes, RoomTypes', RegistryTypeOK, RegistryTypeOK', StreamIds, PubsKnown, [Next]_vars
    PROVE  PubsKnown'
<1>1. /\ outq \in [EC -> Seq(Batch)] /\ media \subseteq Command
      /\ \A t \in tasks : t.stream \in Stream
      /\ pubs' \subseteq Publisher
  BY DEF RoomTypes, RegistryTypeOK
<1>2. ASSUME NEW e \in EC, NEW i \in 1..Len(outq[e]), NEW m \in outq[e][i].add, m[1] = "pub"
      PROVE  Names(m[4], m[3]) /\ m[4] \in Stream
  BY <1>1, <1>2, BatchOf, CommandParts DEF PubsKnown
<1>3. StreamIds' /\ ids'.stream \in Nat
  BY StreamIdsStep, PubsBefore
<1>4. ASSUME NEW e \in EC, NEW i \in 1..Len(outq'[e]), NEW m \in outq'[e][i].add, m[1] = "pub"
      PROVE  m[4] <= ids'.stream /\ \A p \in pubs' : p.id = m[4] => p.client = m[3]
  <2>1. CASE \E j \in 1..Len(outq[e]) : m \in outq[e][j].add
    BY <1>2, <1>4, <2>1, NamesStep
  <2>2. CASE \E p \in pubs' : m = MPub(p)
    BY <1>1, <1>3, <2>2, CommandsOf DEF StreamIds
  <2> QED
    BY <1>4, <2>1, <2>2, QueueStep
<1>5. ASSUME NEW m \in media', m[1] = "pub" PROVE m[4] <= ids'.stream
  <2>1. m[4] \in Stream /\ m[4] <= ids.stream
    <3>1. CASE m \in media
      BY <1>1, <1>5, <3>1, CommandParts DEF PubsKnown
    <3>2. CASE \E e \in EC : \E i \in 1..Len(outq[e]) : m \in outq[e][i].add
      BY <1>2, <1>5, <3>2 DEF Names
    <3> QED
      BY <1>5, <3>1, <3>2, ErizoStep
  <2> QED
    BY <2>1, PubsBefore DEF Stream
<1>6. ASSUME NEW t \in tasks'
      PROVE  t.stream <= ids'.stream /\ \A p \in pubs' : p.id = t.stream => p.client = t.client
  <2>1. t.stream \in Stream /\ Names(t.stream, t.client)
    <3>1. CASE \E u \in tasks : u.stream = t.stream /\ u.client = t.client
      BY <1>1, <3>1 DEF PubsKnown
    <3>2. CASE \E e \in EC : \E i \in 1..Len(outq[e]) : \E m \in outq[e][i].add :
                   m[1] = "pub" /\ t.stream = m[4] /\ t.client = m[3]
      BY <1>2, <3>2
    <3> QED
      BY <3>1, <3>2, ErizoStep
  <2> QED
    BY <2>1, NamesStep
<1> QED
  BY <1>4, <1>5, <1>6 DEF PubsKnown, Names

--------------------------------------------------------------------------------
(* No client misses a stream.                                              *)

\* One step of any actor leaves no client without a stream that is announced.
LEMMA ListStep ==
    ASSUME RoomTypes, RegistryTypeOK, RegistryTypeOK', StreamIds, PubsKnown, RemovedGone,
           Connected, ListInv, [Next]_vars
    PROVE  ListInv'
<1> SUFFICES ASSUME NEW p \in pubs', p.room = Main, NEW c \in clients',
                    MPub(p) \in media',
                    \A t \in tasks' : t.stream = p.id => t.kind = "answer",
                    p.client # c, conn'[c] = "up", step'[c] \in {"idle", "addClient"}
             PROVE  p.id \in shown'[c] \/ <<"add", c, p.id>> \in mail'
  BY DEF ListInv, Announced, In
<1>1. /\ outq \in [EC -> Seq(Batch)] /\ shown \in [Client -> SUBSET Stream]
      /\ p \in Publisher /\ c \in Client /\ ids.stream \in Nat
      /\ pubs \subseteq Publisher /\ clients \subseteq Client
      /\ conn \in [Client -> {"new", "up", "gone", "left"}]
      /\ step \in [Client -> {"idle", "addClient", "addClientToEC", "list"}]
      /\ \A t \in tasks : t \in [kind : TaskKind,
                                 stream : Stream, client : Client]
      /\ mail \subseteq {"add", "remove"} \X Client \X Stream
  BY DEF RoomTypes, RegistryTypeOK
<1>2. p.id <= ids.stream
  <2>1. MPub(p)[1] = "pub" /\ MPub(p)[4] = p.id
    BY <1>1, CommandsOf
  <2>2. CASE MPub(p) \in media
    BY <2>1, <2>2 DEF PubsKnown
  <2>3. CASE \E e \in EC : \E i \in 1..Len(outq[e]) : MPub(p) \in outq[e][i].add
    BY <2>1, <2>3 DEF PubsKnown, Names
  <2> QED
    BY <2>2, <2>3, ErizoStep
<1>3. PICK q \in pubs : /\ q.id = p.id /\ q.client = p.client /\ q.room = p.room
                        /\ MPub(q) = MPub(p)
  BY <1>1, <1>2, PubsBefore
<1>4. ASSUME MPub(p) \in media, \A t \in tasks : t.stream = p.id => t.kind = "answer",
             c \in clients, conn[c] = "up", step[c] \in {"idle", "addClient"}
      PROVE  p.id \in shown[c] \/ <<"add", c, p.id>> \in mail
  BY <1>3, <1>4 DEF ListInv, Announced, In
<1>5. ASSUME NEW d \in Client, Join(d)
      PROVE  p.id \in shown'[c] \/ <<"add", c, p.id>> \in mail'
  BY <1>4, <1>5, JoinChange DEF Join, async
<1>6. ASSUME NEW d \in Client, ListStreams(d)
      PROVE  p.id \in shown'[c] \/ <<"add", c, p.id>> \in mail'
  <2>1. /\ shown' = [shown EXCEPT ![d] = @ \cup {x.id : x \in In(Main, pubs)}]
        /\ UNCHANGED <<media, tasks, mail, conn, clients>>
        /\ step' = [step EXCEPT ![d] = StepAfter("list")]
    BY <1>6 DEF ListStreams, getAllPublisher, Advance, redis
  <2>2. CASE d = c
    <3>1. q \in In(Main, pubs)
      BY <1>3 DEF In
    <3> QED
      BY <1>1, <1>3, <2>1, <2>2, <3>1
  <2>3. CASE d # c
    BY <1>1, <1>4, <2>1, <2>3
  <2> QED
    BY <2>2, <2>3
<1>7. ASSUME NEW d \in Client, Publish(d) \/ Subscribe(d)
      PROVE  p.id \in shown'[c] \/ <<"add", c, p.id>> \in mail'
  BY <1>4, <1>7 DEF Publish, Subscribe, handlePublish, handleSubscribe, link
<1>8. ASSUME NEW d \in Client, Leave(d)
      PROVE  p.id \in shown'[c] \/ <<"add", c, p.id>> \in mail'
  <2>1. /\ shown' = [shown EXCEPT ![d] = {}] /\ mail \subseteq mail'
        /\ UNCHANGED <<media, tasks>>
        /\ clients' \subseteq clients
        /\ conn' = [x \in Client |-> IF x \in {d} THEN "gone" ELSE conn[x]]
        /\ step' = [x \in Client |-> IF x \in {d} THEN "idle" ELSE step[x]]
    BY <1>8 DEF Leave, RemovalSends, Disconnect, RemoveClient, Close
  <2>2. c # d
    BY <1>1, <2>1
  <2> QED
    BY <1>1, <1>4, <2>1, <2>2
<1>9. ASSUME NEW e \in EC, Deliver(e)
      PROVE  p.id \in shown'[c] \/ <<"add", c, p.id>> \in mail'
  <2> DEFINE told == {x \in {m \in outq[e][1].add : m[2] # None} : x[1] = "pub"}
  <2>1. /\ UNCHANGED <<regVars, mail, shown>> /\ tasks \subseteq tasks'
        /\ media' \subseteq media \cup {m \in outq[e][1].add : m[2] # None}
        /\ \A m \in told : [kind |-> "ready", stream |-> m[4], client |-> m[3]] \in tasks'
    <3>1. UNCHANGED <<regVars, mail, shown>>
      BY <1>9 DEF Deliver
    <3>2. /\ media' = (media \ outq[e][1].remove) \cup {m \in outq[e][1].add : m[2] # None}
          /\ tasks' = tasks \cup NewTasks(told)
      BY <1>1, <1>9, TailEffect
    <3> HIDE DEF told
    <3>3. \A m \in told : [kind |-> "ready", stream |-> m[4], client |-> m[3]] \in tasks'
      BY <3>2, NewTasksName
    <3>4. tasks \subseteq tasks'
      BY <3>2
    <3>5. media' \subseteq media \cup {m \in outq[e][1].add : m[2] # None}
      BY <3>2
    <3> QED
      BY <3>1, <3>3, <3>4, <3>5
  <2>2. MPub(p) \notin told
    <3>1. \A x, y : [kind |-> "ready", stream |-> x, client |-> y].kind # "answer"
                    /\ [kind |-> "ready", stream |-> x, client |-> y].stream = x
      OBVIOUS
    <3>2. MPub(p)[4] = p.id
      BY <1>1, CommandsOf
    <3> HIDE DEF told
    <3> QED
      BY <2>1, <3>1, <3>2
  <2>3. MPub(p)[1] = "pub"
    BY <1>1, CommandsOf
  <2>4. MPub(p) \in media
    BY <2>1, <2>2, <2>3
  <2> QED
    BY <1>4, <2>1, <2>4 DEF regVars, link, redis
<1>10. ASSUME NEW t \in tasks, onPublisherAnswer(t)
       PROVE  p.id \in shown'[c] \/ <<"add", c, p.id>> \in mail'
  <2>1. /\ UNCHANGED <<media, mail, shown, conn, step, clients>> /\ tasks' = tasks \ {t}
        /\ t.kind = "answer"
    BY <1>10 DEF onPublisherAnswer, publisherAnswer, regVars, link, redis, Task
  <2> QED
    BY <1>4, <2>1
<1>11. ASSUME NEW t \in tasks, onReady(t)
       PROVE  p.id \in shown'[c] \/ <<"add", c, p.id>> \in mail'
  <2>1. PICK next \in {"notify", "dropped"} :
           /\ UNCHANGED <<media, mail, shown, conn, step, clients>>
           /\ tasks' = (tasks \ {t}) \cup IF \E x \in pubs : x.id = t.stream
                                          THEN {[t EXCEPT !.kind = next]} ELSE {}
    BY <1>11 DEF onReady, regVars, link, redis
  <2>2. t.stream # p.id
    <3>1. SUFFICES ASSUME t.stream = p.id PROVE FALSE
      OBVIOUS
    <3>2. [t EXCEPT !.kind = next] \in tasks'
      BY <1>3, <2>1, <3>1
    <3>3. [t EXCEPT !.kind = next].stream = p.id /\ [t EXCEPT !.kind = next].kind # "answer"
      BY <1>1, <2>1, <3>1
    <3> QED
      BY <3>2, <3>3
  <2>3. \A x \in tasks : x.stream = p.id => x.kind = "answer"
    BY <2>1, <2>2
  <2> QED
    BY <1>4, <2>1, <2>3
<1>12. ASSUME NEW t \in tasks, notifyToSubscribe(t)
       PROVE  p.id \in shown'[c] \/ <<"add", c, p.id>> \in mail'
  <2>1. /\ UNCHANGED <<media, shown, conn, step, clients>>
        /\ mail' = mail \cup {<<"add", d, t.stream>> : d \in clients \ {t.client}}
        /\ tasks' = tasks \ {t}
    BY <1>12 DEF notifyToSubscribe, regVars, link, redis
  <2>2. CASE t.stream = p.id
    <3>1. t.client = p.client
      BY <1>3, <2>2 DEF PubsKnown, Names
    <3> QED
      BY <2>1, <2>2, <3>1
  <2>3. CASE t.stream # p.id
    BY <1>4, <2>1, <2>3
  <2> QED
    BY <2>2, <2>3
<1>13. ASSUME NEW m \in mail, onStreamEvent(m)
       PROVE  p.id \in shown'[c] \/ <<"add", c, p.id>> \in mail'
  <2>1. /\ UNCHANGED <<media, tasks, conn, step, clients>> /\ mail' = mail \ {m}
        /\ shown' = IF conn[m[2]] # "up" THEN shown
                    ELSE [shown EXCEPT ![m[2]] =
                             IF m[1] = "add" THEN @ \cup {m[3]} ELSE @ \ {m[3]}]
    BY <1>13 DEF onStreamEvent, regVars, link, redis
  <2>2. p.id \in shown[c] \/ <<"add", c, p.id>> \in mail
    BY <1>4, <2>1
  <2>3. m = <<m[1], m[2], m[3]>> /\ m[1] \in {"add", "remove"} /\ m[2] \in Client
    BY <1>1
  <2>4. CASE m[2] # c
    BY <1>1, <2>1, <2>2, <2>3, <2>4
  <2>5. CASE m[2] = c /\ m[1] = "add"
    <3>1. shown'[c] = shown[c] \cup {m[3]}
      BY <1>1, <2>1, <2>5
    <3> QED
      BY <2>1, <2>2, <2>3, <2>5, <3>1
  <2>6. CASE m[2] = c /\ m[1] = "remove"
    <3>1. <<"remove", c, m[3]>> \in mail /\ m[3] \in Stream
      BY <1>1, <2>3, <2>6
    <3>2. p.id # m[3]
      BY <1>1, <1>3, <2>1, <3>1 DEF RemovedGone
    <3>3. shown'[c] = shown[c] \ {m[3]}
      BY <1>1, <2>1, <2>6
    <3> QED
      BY <2>1, <2>2, <2>6, <3>2, <3>3
  <2> QED
    BY <2>3, <2>4, <2>5, <2>6
<1>14. UNCHANGED vars => p.id \in shown'[c] \/ <<"add", c, p.id>> \in mail'
  BY <1>4 DEF vars, async, regVars, link, redis
<1>15. ASSUME NEW d \in Client, LeaveGivesUp(d)
       PROVE  p.id \in shown'[c] \/ <<"add", c, p.id>> \in mail'
  <2>1. /\ shown' = [shown EXCEPT ![d] = {}]
        /\ UNCHANGED <<media, tasks, mail, clients>>
        /\ conn' = [x \in Client |-> IF x \in {d} THEN "left" ELSE conn[x]]
        /\ step' = [x \in Client |-> IF x \in {d} THEN "idle" ELSE step[x]]
    BY <1>15 DEF LeaveGivesUp, DisconnectGivesUp, Close, redis
  <2>2. c # d
    BY <1>1, <2>1
  <2> QED
    BY <1>1, <1>4, <2>1, <2>2
<1> QED
  BY <1>5, <1>6, <1>7, <1>8, <1>9, <1>10, <1>11, <1>12, <1>13, <1>14, <1>15 DEF Next

\* In the empty room there is nothing to miss.
LEMMA RoomStart == Init => StreamIds /\ PubsKnown /\ RemovedGone /\ Connected /\ ListInv
<1> SUFFICES ASSUME Init PROVE StreamIds /\ PubsKnown /\ RemovedGone /\ Connected /\ ListInv
  OBVIOUS
<1>1. /\ pubs = {} /\ clients = {} /\ mail = {} /\ media = {} /\ tasks = {}
      /\ \A c \in Client : step[c] = "idle"
      /\ \A e \in EC : outq[e] = <<>>
  BY DEF Init, RegistryInit
<1>2. PubsKnown
  <2>1. Len(<<>>) = 0
    BY EmptySeq
  <2> QED
    BY <1>1, <2>1 DEF PubsKnown
<1>3. StreamIds /\ RemovedGone /\ Connected /\ ListInv
  BY <1>1 DEF StreamIds, RemovedGone, Connected, ListInv, In
<1> QED
  BY <1>2, <1>3

\* What holds between any two steps of handlers, tasks, erizos and events.
LEMMA RoomInvariant == Spec => []RoomInv
<1> DEFINE Base == RegistryTypeOK /\ StreamsShown /\ Sound /\ RoomTypes
           Rest == StreamIds /\ PubsKnown /\ RemovedGone /\ Connected /\ ListInv
<1>1. Spec => [](RegistryTypeOK /\ LeakInv /\ StreamsShown /\ Sound /\ RoomTypes)
  BY RoomImplementsRegistry, RegistryTypeCorrect, LeakInvariant, ShownInvariant, RoomSound,
     RoomTyped, PTL
<1>2. Init => Rest
  BY RoomStart
<1>3. Rest /\ Base /\ Base' /\ [Next]_vars => Rest'
  <2> SUFFICES ASSUME Rest, Base, Base', [Next]_vars PROVE Rest'
    OBVIOUS
  <2>1. StreamIds'
    BY StreamIdsStep
  <2>2. PubsKnown'
    BY PubsKnownStep
  <2>3. RemovedGone'
    BY RemovedGoneStep
  <2>4. Connected'
    BY ConnectedStep
  <2>5. ListInv'
    BY ListStep
  <2> QED
    BY <2>1, <2>2, <2>3, <2>4, <2>5
<1>4. LeakInv /\ StreamsShown /\ Sound /\ RoomTypes /\ Rest => RoomInv
  BY DEF RoomInv
<1>5. Spec => []Rest
  <2>1. Spec => []Base
    BY <1>1, PTL
  <2> HIDE DEF Base, Rest
  <2> QED
    BY <2>1, <1>2, <1>3, PTL DEF Spec
<1> HIDE DEF Rest
<1> QED
  BY <1>1, <1>4, <1>5, PTL

\* A client that has joined has, or is sent, every stream of the others that has
\* been announced, whichever of handleToken, ready and notifyToSubscribe runs first
\* and although two of them do not hold the lock of the room.
THEOREM NoStreamMissed == Spec => []NoMissedStream
<1>1. RoomInv => NoMissedStream
  BY DEF RoomInv, ListInv, NoMissedStream, Ready
<1> QED
  BY <1>1, RoomInvariant, PTL

--------------------------------------------------------------------------------
(* What the erizos are told adds up.                                       *)

\* The command is what the erizos run once the send queue is empty.
LEMMA FinallySend ==
    ASSUME outq \in [EC -> Seq(Batch)], NEW e \in EC,
           NEW add \in SUBSET Command, NEW remove \in SUBSET Command, Send(e, add, remove),
           media' = media, NEW m
    PROVE  Finally(m, outq[e])' <=> m \in add \/ (Finally(m, outq[e]) /\ m \notin remove)
<1> DEFINE n == Len(outq[e])
<1>1. n \in Nat
  BY BatchOf
<1>2. CASE add \cup remove = {} /\ outq' = outq
  BY <1>2 DEF Finally
<1>3. CASE /\ Len(outq'[e]) = n + 1
           /\ \A i \in 1..n : outq'[e][i] = outq[e][i]
           /\ outq'[e][n + 1].add = add
           /\ outq'[e][n + 1].remove = remove
  <2> DEFINE At(i) == IF i = 0 THEN m \in media ELSE m \in outq[e][i].add
             Since(i) == \A j \in (i + 1)..n : m \notin outq[e][j].remove
  <2> HIDE DEF n
  <2>1. Finally(m, outq[e]) <=> \E i \in 0..n : At(i) /\ Since(i)
    BY DEF Finally, n
  <2> DEFINE AtP(i) == IF i = 0 THEN m \in media' ELSE m \in outq'[e][i].add
             SinceP(i) == \A j \in (i + 1)..(n + 1) : m \notin outq'[e][j].remove
  <2>2. Finally(m, outq[e])' <=> \E i \in 0..(n + 1) : AtP(i) /\ SinceP(i)
    BY <1>3 DEF Finally
  <2>3. \A i \in 0..n : AtP(i) <=> At(i)
    BY <1>1, <1>3
  <2>4. ASSUME NEW i \in 0..n PROVE SinceP(i) <=> Since(i) /\ m \notin remove
    <3>1. \A j : j \in (i + 1)..(n + 1) <=> j \in (i + 1)..n \/ j = n + 1
      BY <1>1
    <3>2. \A j \in (i + 1)..n : j \in 1..n
      BY <1>1
    <3> QED
      BY <1>3, <3>1, <3>2
  <2>5. (AtP(n + 1) <=> m \in add) /\ SinceP(n + 1)
    BY <1>1, <1>3
  <2>6. \A i : i \in 0..(n + 1) <=> i \in 0..n \/ i = n + 1
    BY <1>1
  <2> HIDE DEF At, Since, AtP, SinceP
  <2> QED
    BY <2>1, <2>2, <2>3, <2>4, <2>5, <2>6
<1> QED
  BY <1>2, <1>3, SendEffect

\* Delivering a batch changes nothing in the end.
LEMMA FinallyDeliver ==
    ASSUME outq \in [EC -> Seq(Batch)], NEW e \in EC, Deliver(e), NEW m, m[2] # None
    PROVE  Finally(m, outq[e])' <=> Finally(m, outq[e])
<1> DEFINE n == Len(outq[e])
           At(i) == IF i = 0 THEN m \in media ELSE m \in outq[e][i].add
           Since(i) == \A j \in (i + 1)..n : m \notin outq[e][j].remove
           AtP(i) == IF i = 0 THEN m \in media' ELSE m \in outq'[e][i].add
           SinceP(i) == \A j \in (i + 1)..(n - 1) : m \notin outq'[e][j].remove
<1>1. /\ n \in Nat /\ 1 \in 1..n /\ Len(outq'[e]) = n - 1
      /\ \A i \in 1..(n - 1) : i + 1 \in 1..n /\ outq'[e][i] = outq[e][i + 1]
      /\ media' = (media \ outq[e][1].remove) \cup {x \in outq[e][1].add : x[2] # None}
  BY TailEffect
<1> HIDE DEF n
<1>2. Finally(m, outq[e]) <=> \E i \in 0..n : At(i) /\ Since(i)
  BY DEF Finally, n
<1>3. Finally(m, outq[e])' <=> \E i \in 0..(n - 1) : AtP(i) /\ SinceP(i)
  BY <1>1 DEF Finally
<1>4. ASSUME NEW i \in 0..(n - 1) PROVE SinceP(i) <=> Since(i + 1)
  <2>1. ASSUME NEW j \in (i + 1)..(n - 1)
        PROVE  j + 1 \in ((i + 1) + 1)..n /\ outq'[e][j] = outq[e][j + 1]
    BY <1>1
  <2>2. ASSUME NEW j \in ((i + 1) + 1)..n
        PROVE  j - 1 \in (i + 1)..(n - 1) /\ outq'[e][j - 1] = outq[e][j]
    <3>1. j - 1 \in (i + 1)..(n - 1) /\ j - 1 \in 1..(n - 1) /\ (j - 1) + 1 = j
      BY <1>1
    <3> QED
      BY <1>1, <3>1
  <2> QED
    BY <2>1, <2>2
<1>5. \A i \in 1..(n - 1) : AtP(i) <=> At(i + 1)
  BY <1>1
<1>6. AtP(0) <=> (At(0) /\ m \notin outq[e][1].remove) \/ At(1)
  BY <1>1
<1>7. Since(0) <=> m \notin outq[e][1].remove /\ Since(1)
  <2>1. \A j : j \in 1..n <=> j = 1 \/ j \in 2..n
    BY <1>1
  <2>2. (0 + 1)..n = 1..n /\ (1 + 1)..n = 2..n
    OBVIOUS
  <2> QED
    BY <2>1, <2>2
<1>8. \A i : i \in 0..n <=> i = 0 \/ i = 1 \/ (i - 1 \in 1..(n - 1) /\ i \in Int /\ (i - 1) + 1 = i)
  BY <1>1
<1>9. /\ \A i \in 0..(n - 1) : i = 0 \/ i \in 1..(n - 1)
      /\ 0 \in 0..(n - 1) /\ 0 + 1 = 1 /\ \A i \in 1..(n - 1) : i \in 0..(n - 1) /\ i + 1 \in 0..n
      /\ 0 \in 0..n /\ 1 \in 0..n
  BY <1>1
<1> HIDE DEF At, Since, AtP, SinceP
<1>10. ASSUME NEW i \in 0..n, At(i), Since(i) PROVE \E k \in 0..(n - 1) : AtP(k) /\ SinceP(k)
  <2>1. CASE i = 0 \/ i = 1
    <3>1. AtP(0) /\ Since(1)
      BY <1>6, <1>7, <1>10, <2>1
    <3> QED
      BY <1>4, <1>9, <3>1
  <2>2. CASE i - 1 \in 1..(n - 1) /\ (i - 1) + 1 = i
    <3>1. AtP(i - 1) /\ SinceP(i - 1)
      BY <1>4, <1>5, <1>9, <1>10, <2>2
    <3> QED
      BY <1>9, <2>2, <3>1
  <2> QED
    BY <1>8, <2>1, <2>2
<1>11. ASSUME NEW k \in 0..(n - 1), AtP(k), SinceP(k) PROVE \E i \in 0..n : At(i) /\ Since(i)
  <2>1. CASE k = 0
    <3>1. Since(1) /\ (At(1) \/ (At(0) /\ m \notin outq[e][1].remove))
      BY <1>4, <1>6, <1>9, <1>11, <2>1
    <3> QED
      BY <1>7, <1>9, <3>1
  <2>2. CASE k \in 1..(n - 1)
    BY <1>4, <1>5, <1>9, <1>11, <2>2
  <2> QED
    BY <1>9, <2>1, <2>2
<1> QED
  BY <1>2, <1>3, <1>10, <1>11

\* The same bridge stream, but for its count.
Twin(a, b) ==
    a.id = b.id /\ a.room = b.room /\ a.src = b.src /\ a.from = b.from /\ a.to = b.to

\* The commands about a bridge stream do not depend on its count.
LEMMA TwinCommands ==
    ASSUME NEW a, NEW b, Twin(a, b)
    PROVE  VPub(a) = VPub(b) /\ VSub(a) = VSub(b)
BY DEF Twin, VPub, VSub

\* What the erizos run for the registry's entries, erizo or not.
Entries == {MPub(p) : p \in pubs} \cup {MSub(s) : s \in subs} \cup Virtual(bridges)

\* A subscription adds its own commands and nothing else: a bridge stream that was
\* there has its twin, and a new one a new id.
LEMMA SubscribeEntries ==
    ASSUME LeakInv, BridgeIds, NEW c \in Client, handleSubscribe(c)
    PROVE  /\ BridgeIds'
           /\ Entries' = Entries \cup {MSub(s) : s \in subs' \ subs}
                  \cup Virtual({b \in bridges' : ~\E a \in bridges : a.id = b.id})
<1> DEFINE fresh == {b \in bridges' : ~\E a \in bridges : a.id = b.id}
<1>1. PICK p \in Subscribable(c) :
          LET s == NewSubscriber(c, p)
          IN  /\ subs' = subs \cup {s}
              /\ bridges' = IF s.bridge THEN Counted(s, p) ELSE bridges
  BY DEF handleSubscribe
<1> DEFINE s == NewSubscriber(c, p)
<1>2. /\ ids.sub < MaxSubs /\ ids' = [ids EXCEPT !.sub = @ + 1] /\ pubs' = pubs
      /\ Types /\ SubsDrawn /\ ids.sub \in Nat
      /\ \A b \in bridges : b \in BridgeStream /\ b.id \in Nat
  BY DEF handleSubscribe, LeakInv, Types, RegistryTypeOK, BridgeStream, SubId
<1>3. ids'.sub = ids.sub + 1
  BY <1>2 DEF Types, RegistryTypeOK
<1>4. s.id = ids.sub + 1 /\ NewBridge(s, p).id = ids.sub + 1
  BY <1>2, NewSubscriberType DEF NewBridge
<1>5. subs' = subs \cup {s} /\ bridges' = IF s.bridge THEN Counted(s, p) ELSE bridges
  BY <1>1
<1> HIDE DEF s
<1>6. ASSUME NEW b \in bridges
      PROVE  Twin(IF Match(b, s) THEN [b EXCEPT !.count = @ + 1] ELSE b, b)
  BY <1>2, <1>6 DEF Twin, BridgeStream
<1>7. CASE bridges' = bridges
  <2>1. fresh = {} /\ Virtual(fresh) = {}
    BY <1>7 DEF Virtual
  <2> HIDE DEF fresh
  <2>2. BridgeIds'
    BY <1>2, <1>3, <1>7 DEF BridgeIds
  <2> QED
    BY <1>2, <1>5, <1>7, <2>1, <2>2 DEF Entries, fresh
<1>8. CASE bridges' = {IF Match(b, s) THEN [b EXCEPT !.count = @ + 1] ELSE b : b \in bridges}
  <2> DEFINE of(b) == IF Match(b, s) THEN [b EXCEPT !.count = @ + 1] ELSE b
  <2>1. bridges' = {of(b) : b \in bridges} /\ \A b \in bridges : Twin(of(b), b)
    BY <1>6, <1>8
  <2> HIDE DEF of
  <2>2. fresh = {}
    BY <2>1 DEF Twin
  <2>3. Virtual(bridges') = Virtual(bridges)
    BY <2>1, TwinCommands DEF Virtual
  <2>4. BridgeIds'
    <3>1. \A b \in bridges' : b.id <= ids'.sub
      BY <1>2, <1>3, <2>1 DEF BridgeIds, Twin
    <3>2. \A a, b \in bridges' : a.id = b.id => a = b
      BY <2>1 DEF BridgeIds, Twin
    <3> QED
      BY <3>1, <3>2 DEF BridgeIds
  <2>5. Virtual(fresh) = {}
    BY <2>2 DEF Virtual
  <2> HIDE DEF fresh
  <2> QED
    BY <1>2, <1>5, <2>3, <2>4, <2>5 DEF Entries, fresh
<1>9. CASE bridges' = bridges \cup {NewBridge(s, p)}
  <2> DEFINE n == NewBridge(s, p)
  <2>1. n.id = ids.sub + 1 /\ bridges' = bridges \cup {n}
    BY <1>4, <1>9
  <2> HIDE DEF n
  <2>2. \A b \in bridges : b.id # n.id
    BY <1>2, <2>1 DEF BridgeIds
  <2>3. fresh = {n}
    BY <2>1, <2>2
  <2>4. BridgeIds'
    <3>1. \A b \in bridges' : b.id <= ids'.sub
      BY <1>2, <1>3, <2>1 DEF BridgeIds
    <3>2. \A a, b \in bridges' : a.id = b.id => a = b
      BY <2>1, <2>2 DEF BridgeIds
    <3> QED
      BY <3>1, <3>2 DEF BridgeIds
  <2>5. Virtual(bridges') = Virtual(bridges) \cup Virtual(fresh)
    BY <2>1, <2>3 DEF Virtual
  <2> HIDE DEF fresh
  <2> QED
    BY <1>2, <1>5, <2>4, <2>5 DEF Entries, fresh
<1> QED
  BY <1>5, <1>7, <1>8, <1>9 DEF Counted

\* What removeClient leaves of the bridge streams are twins.
LEMMA RemovalTwins ==
    ASSUME LeakInv, BridgeIds, NEW c, NEW room, RemoveClient(c, room, {})
    PROVE  /\ \A a \in bridges' : \E b \in bridges : Twin(a, b)
           /\ \A a, b \in bridges' : a.id = b.id => a = b
<1> DEFINE D == Items(c, room)
<1>1. bridges' \subseteq After(D)
  BY DEF RemoveClient
<1>2. Types /\ \A b \in bridges : b.count > 0
  <2>1. \A b \in bridges : Cardinality(Served(b)) \in Nat
    BY ServedFinite DEF LeakInv, Types
  <2> QED
    BY <2>1 DEF LeakInv, BridgeNeverLeaks
<1>3. D \in SUBSET Items(c, room)
  OBVIOUS
<1> HIDE DEF D
<1>4. \A a \in After(D) : \E b \in bridges :
          a = [b EXCEPT !.count = b.count - Hits(b, D)] /\ b \in BridgeStream
  BY <1>2, <1>3, AfterCounts DEF Types, RegistryTypeOK
<1>5. ASSUME NEW b \in BridgeStream
      PROVE  Twin([b EXCEPT !.count = b.count - Hits(b, D)], b)
  BY DEF BridgeStream, Twin
<1>6. \A a \in bridges' : \E b \in bridges :
          a = [b EXCEPT !.count = b.count - Hits(b, D)] /\ Twin(a, b)
  BY <1>1, <1>4, <1>5
<1> QED
  BY <1>6 DEF BridgeIds, Twin

\* removeClient takes back the commands of exactly what it removes.
LEMMA RemovalEntries ==
    ASSUME LeakInv, StreamsShown, Sound, StreamIds, BridgeIds,
           NEW c, NEW room, RemoveClient(c, room, {})
    PROVE  Entries' = Entries \
               ({MSub(s) : s \in SubsOf(Items(c, room))}
                \cup Virtual({b \in bridges : ~\E a \in bridges' : a.id = b.id})
                \cup {MPub(p) : p \in Mine(c, room)})
<1> DEFINE dead == SubsOf(Items(c, room))
           torn == {b \in bridges : ~\E a \in bridges' : a.id = b.id}
           mine == Mine(c, room)
           P(S) == {MPub(p) : p \in S}
           Q(S) == {MSub(s) : s \in S}
<1>1. pubs' = pubs \ mine /\ subs' = subs \ dead /\ mine \subseteq pubs /\ dead \subseteq subs
  BY DEF RemoveClient, Mine, In, SubsOf, Items
<1>2. /\ pubs \subseteq Publisher /\ subs \subseteq Subscriber
      /\ bridges \subseteq BridgeStream
  BY DEF LeakInv, Types, RegistryTypeOK
<1>3. \A a \in bridges' : \E b \in bridges : Twin(a, b)
  BY RemovalTwins
<1>4. \A p \in pubs, q \in pubs : MPub(p) = MPub(q) => p = q
  BY DEF MPub, StreamIds
<1>5. \A s, x \in subs : MSub(s) = MSub(x) => (s \in dead <=> x \in dead)
  <2>1. \A s, x \in subs : s.to = x.to => s.room = x.room
    BY DEF StreamsShown, Sound, StreamIds
  <2>2. \A s \in subs : s \in dead <=>
            s.room = room /\ (s.client = c \/ \E p \in mine : s.to = p.id)
    <3>1. \A s \in subs : s \in dead => s.room = room /\ (s.client = c \/ \E p \in mine : s.to = p.id)
      BY DEF SubsOf, Items, In
    <3>2. ASSUME NEW s \in subs, s.room = room, s.client = c \/ \E p \in mine : s.to = p.id
          PROVE  s \in dead
      <4>1. <<s, "theirs">> \in Items(c, room) \/ <<s, "own">> \in Items(c, room)
        BY <3>2 DEF Items, In
      <4> QED
        BY <4>1 DEF SubsOf
    <3> QED
      BY <3>1, <3>2
  <2> HIDE DEF dead, mine
  <2> QED
    BY <2>1, <2>2 DEF MSub
<1>6. \A b, t \in bridges : VSub(b) = VSub(t) => b = t
  BY DEF VSub, BridgeIds
<1>7. \A b, t \in bridges : VPub(b) = VPub(t) => b = t
  <2>1. \A b, t \in bridges : b.src = t.src => b.room = t.room
    BY DEF StreamsShown, Sound, StreamIds
  <2> QED
    BY <2>1 DEF VPub, LeakInv, BridgeNeverLeaks
<1>8. \A b \in bridges : b \in torn \/ \E a \in bridges' : Twin(a, b)
  BY <1>3 DEF BridgeIds, Twin
<1>9. \A a \in bridges' : \E b \in bridges \ torn : Twin(a, b)
  BY <1>3 DEF Twin
<1> HIDE DEF dead, mine
<1>10. P(pubs') = P(pubs) \ P(mine)
  BY <1>1, <1>4
<1>11. Q(subs') = Q(subs) \ Q(dead)
  BY <1>1, <1>5
<1>12. torn \subseteq bridges
  OBVIOUS
<1> HIDE DEF torn
<1>13. \A b, t \in bridges : VSub(b) # VPub(t)
  BY DEF VSub, VPub
<1>14. Virtual(bridges') = Virtual(bridges) \ Virtual(torn)
  <2>1. ASSUME NEW a \in bridges'
        PROVE  /\ VSub(a) \in Virtual(bridges) \ Virtual(torn)
               /\ VPub(a) \in Virtual(bridges) \ Virtual(torn)
    <3>1. PICK b \in bridges \ torn : Twin(a, b)
      BY <1>9
    <3>2. VPub(a) = VPub(b) /\ VSub(a) = VSub(b)
      BY <3>1, TwinCommands
    <3> QED
      BY <1>6, <1>7, <1>12, <1>13, <3>2 DEF Virtual
  <2>2. ASSUME NEW b \in bridges \ torn
        PROVE  VSub(b) \in Virtual(bridges') /\ VPub(b) \in Virtual(bridges')
    <3>1. PICK a \in bridges' : Twin(a, b)
      BY <1>8
    <3>2. VPub(a) = VPub(b) /\ VSub(a) = VSub(b)
      BY <3>1, TwinCommands
    <3> QED
      BY <3>2 DEF Virtual
  <2>3. Virtual(bridges') \subseteq Virtual(bridges) \ Virtual(torn)
    BY <2>1 DEF Virtual
  <2>4. Virtual(bridges) \ Virtual(torn) \subseteq Virtual(bridges')
    BY <2>2 DEF Virtual
  <2> QED
    BY <2>3, <2>4
<1>15. /\ \A x \in P(pubs) : x[1] = "pub"
       /\ \A x \in Q(subs) : x[1] = "sub"
       /\ \A x \in Virtual(bridges) : x[1] # "pub" /\ x[1] # "sub"
  BY <1>2, CommandsOf, VirtualCommands
<1>16. P(mine) \subseteq P(pubs) /\ Q(dead) \subseteq Q(subs) /\ Virtual(torn) \subseteq Virtual(bridges)
  BY <1>1, <1>12 DEF Virtual
<1>17. /\ Entries = P(pubs) \cup Q(subs) \cup Virtual(bridges)
       /\ Entries' = P(pubs') \cup Q(subs') \cup Virtual(bridges')
  BY DEF Entries
<1> HIDE DEF P, Q
<1>18. Entries' = Entries \ (Q(dead) \cup Virtual(torn) \cup P(mine))
  BY <1>10, <1>11, <1>14, <1>15, <1>16, <1>17
<1> QED
  BY <1>18 DEF P, Q, dead, torn, mine

\* The steps that send nothing and after which the registry has the same entries.
LEMMA SameEntries ==
    ASSUME RegistryTypeOK, BridgeIds, [Next]_vars,
           ~\E c \in Client : Publish(c) \/ Subscribe(c) \/ Leave(c),
           ~\E e \in EC : Deliver(e)
    PROVE  Entries' = Entries /\ BridgeIds' /\ outq' = outq /\ media' = media
<1>1. CASE UNCHANGED <<pubs, subs, bridges, ids, outq, media>>
  BY <1>1 DEF Entries, BridgeIds, Virtual
<1>2. ASSUME NEW c \in Client, Join(c) \/ ListStreams(c) \/ LeaveGivesUp(c)
      PROVE  UNCHANGED <<pubs, subs, bridges, ids, outq, media>>
  BY <1>2 DEF Join, async, ListStreams, Connect, Token, addClient, addClientToEC,
     getAllPublisher, LeaveGivesUp, DisconnectGivesUp, redis
<1>3. ASSUME NEW t \in tasks, onReady(t) \/ notifyToSubscribe(t)
      PROVE  UNCHANGED <<pubs, subs, bridges, ids, outq, media>>
  BY <1>3 DEF onReady, notifyToSubscribe, regVars, redis
<1>4. ASSUME NEW m \in mail, onStreamEvent(m)
      PROVE  UNCHANGED <<pubs, subs, bridges, ids, outq, media>>
  BY <1>4 DEF onStreamEvent, regVars, redis
<1>5. UNCHANGED vars => UNCHANGED <<pubs, subs, bridges, ids, outq, media>>
  BY DEF vars, async, regVars, redis
<1>6. ASSUME NEW p \in pubs, publisherAnswer(p), UNCHANGED <<outq, media>>
      PROVE  Entries' = Entries /\ BridgeIds' /\ outq' = outq /\ media' = media
  <2> DEFINE n == [p EXCEPT !.ssrc = TRUE]
  <2>1. MPub(n) = MPub(p)
    BY DEF RegistryTypeOK, Publisher, MPub
  <2>2. pubs' = (pubs \ {p}) \cup {n} /\ UNCHANGED <<subs, bridges, ids>>
    BY <1>6 DEF publisherAnswer
  <2> HIDE DEF n
  <2>3. {MPub(q) : q \in pubs'} = {MPub(q) : q \in pubs}
    BY <2>1, <2>2
  <2>4. BridgeIds' /\ Virtual(bridges)' = Virtual(bridges)
    BY <2>2 DEF BridgeIds, Virtual
  <2> QED
    BY <1>6, <2>2, <2>3, <2>4 DEF Entries
<1>7. ASSUME NEW t \in tasks, onPublisherAnswer(t)
      PROVE  Entries' = Entries /\ BridgeIds' /\ outq' = outq /\ media' = media
  <2>1. CASE \E p \in pubs : publisherAnswer(p)
    BY <1>6, <1>7, <2>1 DEF onPublisherAnswer
  <2>2. CASE UNCHANGED regVars
    BY <1>1, <1>7, <2>2 DEF onPublisherAnswer, regVars, redis
  <2> QED
    BY <1>7, <2>1, <2>2 DEF onPublisherAnswer
<1> QED
  BY <1>1, <1>2, <1>3, <1>4, <1>5, <1>7 DEF Next

\* With one controller, the commands of every handler change what the erizos will
\* run as the handler has changed the registry.
LEMMA MirrorStep ==
    ASSUME NEW e \in EC, EC = {e}, RoomTypes, LeakInv, LeakInv', StreamsShown, Sound, StreamIds,
           BridgeIds, MirrorInv, [Next]_vars
    PROVE  BridgeIds' /\ MirrorInv'
<1>1. /\ outq \in [EC -> Seq(Batch)] /\ \A c \in Client : Home[c] = e
      /\ RegistryTypeOK /\ RegistryTypeOK'
  BY RoomAssumption DEF RoomTypes, LeakInv, Types
<1>2. \A m : m \in Wanted <=> m \in Entries /\ m[2] # None
  BY DEF Wanted, Entries
<1>3. \A m : m \in Wanted' <=> m \in Entries' /\ m[2] # None
  BY DEF Wanted, Entries
<1>4. ASSUME NEW m \in Command, m[2] # None
      PROVE  Finally(m, outq[e]) <=> m \in Entries
  BY <1>2, <1>4 DEF MirrorInv
<1>5. (\A m \in Command : m[2] # None => (Finally(m, outq[e])' <=> m \in Entries')) => MirrorInv'
  BY <1>3 DEF MirrorInv
<1>6. ASSUME NEW add \in SUBSET Command, NEW remove \in SUBSET Command, Send(e, add, remove),
             media' = media, Entries' = (Entries \ remove) \cup add
      PROVE  MirrorInv'
  BY <1>1, <1>4, <1>5, <1>6, FinallySend
<1>7. ASSUME NEW c \in Client, Publish(c) PROVE BridgeIds' /\ MirrorInv'
  <2> DEFINE add == {MPub(p) : p \in pubs' \ pubs}
  <2>1. add \in SUBSET Command /\ {} \in SUBSET Command
    BY <1>1, SentCommands
  <2>2. Send(e, add, {}) /\ media' = media /\ UNCHANGED <<subs, bridges>> /\ ids'.sub = ids.sub
    BY <1>1, <1>7 DEF Publish, handlePublish, RegistryTypeOK
  <2>3. pubs \subseteq pubs'
    BY <1>7 DEF Publish, handlePublish
  <2>4. {MPub(p) : p \in pubs'} = {MPub(p) : p \in pubs} \cup add
    BY <2>3
  <2> HIDE DEF add
  <2>5. Virtual(bridges)' = Virtual(bridges) /\ BridgeIds'
    BY <2>2 DEF Virtual, BridgeIds
  <2>6. Entries' = (Entries \ {}) \cup add
    BY <2>2, <2>4, <2>5 DEF Entries
  <2> QED
    BY <1>6, <2>1, <2>2, <2>5, <2>6
<1>8. ASSUME NEW c \in Client, Subscribe(c) PROVE BridgeIds' /\ MirrorInv'
  <2> DEFINE fresh == {b \in bridges' : ~\E a \in bridges : a.id = b.id}
             add == {MSub(s) : s \in subs' \ subs} \cup Virtual(fresh)
  <2>1. add \in SUBSET Command /\ {} \in SUBSET Command
    BY <1>1, SentCommands, FreshAndTorn
  <2>2. Send(e, add, {}) /\ media' = media /\ handleSubscribe(c)
    BY <1>1, <1>8 DEF Subscribe
  <2>3. BridgeIds' /\ Entries' = (Entries \ {}) \cup add
    BY <2>2, SubscribeEntries
  <2> HIDE DEF add
  <2> QED
    BY <1>6, <2>1, <2>2, <2>3
<1>9. ASSUME NEW c \in Client, Leave(c) PROVE BridgeIds' /\ MirrorInv'
  <2> DEFINE room == sess[c].room
             torn == {b \in bridges : ~\E a \in bridges' : a.id = b.id}
             remove == {MSub(s) : s \in SubsOf(Items(c, room))} \cup Virtual(torn)
                       \cup {MPub(p) : p \in Mine(c, room)}
  <2>1. remove \in SUBSET Command /\ {} \in SUBSET Command
    BY <1>1, SentCommands, FreshAndTorn
  <2>2. Send(e, {}, remove) /\ media' = media /\ RemoveClient(c, room, {}) /\ ids' = ids
    BY <1>1, <1>9 DEF Leave, RemovalSends, Disconnect
  <2>3. Entries' = (Entries \ remove) \cup {}
    BY <2>2, RemovalEntries
  <2> HIDE DEF remove
  <2>4. BridgeIds'
    BY <2>2, RemovalTwins DEF BridgeIds, Twin
  <2> QED
    BY <1>6, <2>1, <2>2, <2>3, <2>4
<1>10. ASSUME Deliver(e) PROVE BridgeIds' /\ MirrorInv'
  <2>1. UNCHANGED <<pubs, subs, bridges, ids>>
    BY <1>10 DEF Deliver, regVars, redis
  <2>2. Entries' = Entries /\ BridgeIds'
    BY <2>1 DEF Entries, Virtual, BridgeIds
  <2>3. \A m \in Command : m[2] # None => (Finally(m, outq[e])' <=> Finally(m, outq[e]))
    BY <1>1, <1>10, FinallyDeliver
  <2> QED
    BY <1>4, <1>5, <2>2, <2>3
<1>11. ASSUME ~\E c \in Client : Publish(c) \/ Subscribe(c) \/ Leave(c),
              ~\E d \in EC : Deliver(d)
       PROVE  BridgeIds' /\ MirrorInv'
  <2>1. Entries' = Entries /\ BridgeIds' /\ outq' = outq /\ media' = media
    BY <1>1, <1>11, SameEntries
  <2>2. \A m \in Command : Finally(m, outq[e])' <=> Finally(m, outq[e])
    BY <2>1 DEF Finally
  <2> QED
    BY <1>4, <1>5, <2>1, <2>2
<1> QED
  BY <1>7, <1>8, <1>9, <1>10, <1>11

\* With one controller, the erizos run what the registry says whenever the send
\* queue is empty: the commands of handlePublish, handleSubscribe and removeClient
\* add up, over any number of clients coming and going.
THEOREM MediaFollowsRegistry ==
    ASSUME \E e : EC = {e}
    PROVE  Spec => []MediaMirrorsRegistry
<1>1. PICK e : EC = {e}
  OBVIOUS
<1>2. Init => BridgeIds /\ MirrorInv
  <2> SUFFICES ASSUME Init PROVE BridgeIds /\ MirrorInv
    OBVIOUS
  <2>1. /\ pubs = {} /\ subs = {} /\ bridges = {} /\ media = {}
        /\ \A d \in EC : outq[d] = <<>>
    BY DEF Init, RegistryInit
  <2>2. Wanted = {}
    BY <2>1 DEF Wanted, Virtual
  <2>3. \A m : ~Finally(m, <<>>)
    BY <2>1, EmptySeq DEF Finally
  <2> QED
    BY <2>1, <2>2, <2>3 DEF BridgeIds, MirrorInv
<1>3. BridgeIds /\ MirrorInv /\ RoomInv /\ RoomInv' /\ [Next]_vars => BridgeIds' /\ MirrorInv'
  BY <1>1, MirrorStep DEF RoomInv
<1>4. RoomInv /\ MirrorInv => MediaMirrorsRegistry
  <2> SUFFICES ASSUME RoomInv, MirrorInv, outq[e] = <<>> PROVE media = Wanted
    BY <1>1 DEF MediaMirrorsRegistry
  <2>1. \A m : Finally(m, <<>>) <=> m \in media
    BY EmptySeq DEF Finally
  <2>2. \A m \in Command : m[2] # None => (m \in media <=> m \in Wanted)
    BY <1>1, <2>1 DEF MirrorInv
  <2>3. media \subseteq Command /\ \A m \in media : m[2] # None
    BY DEF RoomInv, RoomTypes
  <2>4. Wanted \subseteq Command /\ \A m \in Wanted : m[2] # None
    <3>1. /\ pubs \subseteq Publisher /\ subs \subseteq Subscriber
          /\ bridges \subseteq BridgeStream
      BY DEF RoomInv, LeakInv, Types, RegistryTypeOK
    <3> QED
      BY <3>1, CommandsOf, VirtualCommands DEF Wanted
  <2> QED
    BY <2>2, <2>3, <2>4
<1> QED
  BY <1>2, <1>3, <1>4, RoomInvariant, PTL DEF Spec
================================================================================
