------------------------------- MODULE Registry --------------------------------
(***************************************************************************)
(* core/erizo_controller.cpp with redis/redis_helper.cpp: the controllers  *)
(* of a cluster and the registry of clients, publishers, subscribers and   *)
(* bridge streams they share in Redis.                                     *)
(*                                                                         *)
(* A handler that runs under the room's RedisLocker is one step: the lock  *)
(* excludes every other writer of the room (module RedisLocker).  The      *)
(* handler that works without it, handleToken, has one step per command.   *)
(* What interrupts a locked handler half way, a failing Redis command or   *)
(* the death of the controller, is an outcome of its own.  The commands    *)
(* sent to the erizos and the events sent to the clients are added by      *)
(* module Room.                                                            *)
(***************************************************************************)
EXTENDS Naturals, FiniteSets, Sequences

CONSTANTS
    Client,         \* connections (SocketIOClientHandler, a fresh id each)
    EC,             \* controllers
    Home,           \* the controller each client is connected to
    Agent,          \* erizo agents; the erizo of the room on an agent bears its name
    None,           \* the empty string
    MaxStreams,     \* bound on published streams
    MaxSubs,        \* bound on subscriptions
    MaxTokens,      \* bound on token messages per client
    MaxFaults,      \* bound on failing Redis commands and RPCs
    MaxCrashes      \* bound on controllers that die

ASSUME RoomAssumption ==
    /\ Home \in [Client -> EC]
    /\ None \notin Client \cup Agent
    /\ {MaxStreams, MaxSubs, MaxTokens, MaxFaults, MaxCrashes} \subseteq Nat

VARIABLES
    conn,       \* "new", "up", then "gone", or "left" if lock() gave up at the end
    step,       \* the next step of handleToken, "idle" outside it
    tokens,     \* token messages the client may still send
    sess,       \* Client of the handler: room_id, agent_id, erizo_id
    clients,    \* redis client_<room>: ids (only handleToken writes it, for Main)
    ecSet,      \* redis <erizo controller id>: the clients each controller keeps
    pubs,       \* redis publisher_<room>
    subs,       \* redis subscriber_<room>
    bridges,    \* redis bridge_stream_<room>
    ids,        \* how many stream and subscriber ids have been drawn
    cleaning,   \* clients of an expired controller still to be removed, by cleaner
    hb,         \* redis heartbeat table
    alive,      \* running controllers
    faults      \* how much has failed

redis == <<clients, ecSet, pubs, subs, bridges>>
link == <<conn, step, tokens, sess>>
cluster == <<cleaning, hb, alive>>
regVars == <<link, redis, ids, cluster, faults>>

\* handleToken puts every client into "test_room_id"; before it room_id is "".
Main == "test_room_id"
Lobby == ""
Rooms == {Main, Lobby}

Stream == 1..MaxStreams
SubId == 1..MaxSubs
AgentOrNone == Agent \cup {None}

Session == [room : Rooms, agent : AgentOrNone, erizo : AgentOrNone]
NoSession == [room |-> Lobby, agent |-> None, erizo |-> None]
Publisher == [id : Stream, room : Rooms, client : Client, agent : AgentOrNone,
              erizo : AgentOrNone, ssrc : BOOLEAN]
Subscriber == [id : SubId, room : Rooms, client : Client, erizo : AgentOrNone,
               to : Stream, bridge : BOOLEAN]
BridgeStream == [id : SubId, room : Rooms, src : Stream, from : AgentOrNone,
                 to : AgentOrNone, count : Nat]

RegistryTypeOK ==
    /\ conn \in [Client -> {"new", "up", "gone", "left"}]
    /\ step \in [Client -> {"idle", "addClient", "addClientToEC", "list"}]
    /\ tokens \in [Client -> 0..MaxTokens]
    /\ sess \in [Client -> Session]
    /\ clients \subseteq Client
    /\ ecSet \subseteq Client
    /\ pubs \subseteq Publisher
    /\ subs \subseteq Subscriber
    /\ bridges \subseteq BridgeStream
    /\ ids \in [stream : 0..MaxStreams, sub : 0..MaxSubs]
    /\ cleaning \in [EC -> SUBSET Client]
    /\ hb \subseteq EC
    /\ alive \subseteq EC
    /\ faults \in 0..MaxFaults

RegistryInit ==
    /\ conn = [c \in Client |-> "new"]
    /\ step = [c \in Client |-> "idle"]
    /\ tokens = [c \in Client |-> MaxTokens]
    /\ sess = [c \in Client |-> NoSession]
    /\ clients = {} /\ ecSet = {} /\ pubs = {} /\ subs = {} /\ bridges = {}
    /\ ids = [stream |-> 0, sub |-> 0]
    /\ cleaning = [e \in EC |-> {}]
    /\ hb = {}
    /\ alive = EC
    /\ faults = 0

--------------------------------------------------------------------------------
(* Helpers.                                                                *)

Fault ==
    /\ faults < MaxFaults
    /\ faults' = faults + 1

\* The hub thread of a connected client is free to take its next message.
Ready(c) == conn[c] = "up" /\ step[c] = "idle"

In(room, S) == {x \in S : x.room = room}

--------------------------------------------------------------------------------
(* Connection and handleToken.                                             *)

Connect(c) ==
    /\ conn[c] = "new"
    /\ Home[c] \in alive
    /\ conn' = [conn EXCEPT ![c] = "up"]
    /\ UNCHANGED <<step, tokens, sess, redis, ids, cluster, faults>>

\* MUTANT: the streams are listed before the client is entered in the room.
TokenStepsListFirst == <<"list", "addClient", "addClientToEC">>

\* The Redis commands of handleToken, in order.
TokenSteps == <<"addClient", "addClientToEC", "list">>

StepAfter(x) ==
    LET i == CHOOSE i \in DOMAIN TokenSteps : TokenSteps[i] = x
    IN  IF i = Len(TokenSteps) THEN "idle" ELSE TokenSteps[i + 1]

\* The handler's next step is done.
Advance(c, x) ==
    /\ step[c] = x
    /\ step' = [step EXCEPT ![c] = StepAfter(x)]

\* room_id and reply_to are set, allocAgent picks an agent of the client's area
\* and allocErizo asks it for the room's erizo.
Token(c) ==
    /\ Ready(c)
    /\ tokens[c] > 0
    /\ tokens' = [tokens EXCEPT ![c] = @ - 1]
    /\ \E a \in Agent :
           sess' = [sess EXCEPT ![c] = [room |-> Main, agent |-> a, erizo |-> a]]
    /\ step' = [step EXCEPT ![c] = TokenSteps[1]]
    /\ UNCHANGED <<conn, redis, ids, cluster, faults>>

\* allocAgent finds no agent, or allocErizo gets no answer in its three tries:
\* the handler gives up with the client half changed.
TokenFails(c) ==
    /\ Fault
    /\ Ready(c)
    /\ tokens[c] > 0
    /\ tokens' = [tokens EXCEPT ![c] = @ - 1]
    /\ \E a \in Agent \cup {sess[c].agent} :
           sess' = [sess EXCEPT ![c].room = Main, ![c].agent = a]
    /\ UNCHANGED <<conn, step, redis, ids, cluster>>

addClient(c) ==
    /\ Advance(c, "addClient")
    /\ clients' = clients \cup {c}
    /\ UNCHANGED <<conn, tokens, sess, ecSet, pubs, subs, bridges, ids, cluster, faults>>

addClientToEC(c) ==
    /\ Advance(c, "addClientToEC")
    /\ ecSet' = ecSet \cup {c}
    /\ UNCHANGED <<conn, tokens, sess, clients, pubs, subs, bridges, ids, cluster, faults>>

\* getAllPublisher, and the reply with the list of streams.
getAllPublisher(c) ==
    /\ Advance(c, "list")
    /\ UNCHANGED <<conn, tokens, sess, redis, ids, cluster, faults>>

\* A Redis command of handleToken fails; the server may have executed it.
TokenAborts(c) ==
    /\ Fault
    /\ step[c] # "idle"
    /\ clients' \in {clients, IF step[c] = "addClient" THEN clients \cup {c}
                              ELSE clients}
    /\ ecSet' \in {ecSet, IF step[c] = "addClientToEC" THEN ecSet \cup {c}
                          ELSE ecSet}
    /\ step' = [step EXCEPT ![c] = "idle"]
    /\ UNCHANGED <<conn, tokens, sess, pubs, subs, bridges, ids, cluster>>

--------------------------------------------------------------------------------
(* handlePublish and handleSubscribe.                                      *)

\* The ssrcs of a new Publisher are not initialised: they may or may not be 0.
NewPublishers(c) ==
    {[id |-> ids.stream + 1, room |-> sess[c].room, client |-> c,
      agent |-> sess[c].agent, erizo |-> sess[c].erizo, ssrc |-> x] :
        x \in BOOLEAN}

\* An HSET that fails has stored the publisher, as here, or has not.
handlePublish(c) ==
    /\ Ready(c)
    /\ ids.stream < MaxStreams
    /\ ids' = [ids EXCEPT !.stream = @ + 1]
    /\ \E p \in NewPublishers(c) : pubs' = pubs \cup {p}
    /\ UNCHANGED <<link, clients, ecSet, subs, bridges, cluster, faults>>

\* publisher_answer: under the lock, read the publisher, set its ssrcs, write it.
publisherAnswer(p) ==
    /\ p \in pubs
    /\ pubs' = (pubs \ {p}) \cup {[p EXCEPT !.ssrc = TRUE]}
    /\ UNCHANGED <<link, clients, ecSet, subs, bridges, ids, cluster, faults>>

\* is_bridge: publisher and subscriber are on different agents.
NewSubscriber(c, p) ==
    [id |-> ids.sub + 1, room |-> sess[c].room, client |-> c,
     erizo |-> sess[c].erizo, to |-> p.id, bridge |-> sess[c].agent # p.agent]

Match(b, s) == b.room = s.room /\ b.src = s.to /\ b.to = s.erizo

\* MUTANT: subscribe_count is left uninitialised.
NewBridgeUncounted(s, p) ==
    [id |-> s.id, room |-> s.room, src |-> p.id, from |-> p.erizo,
     to |-> s.erizo, count |-> 0 - 1]

NewBridge(s, p) ==
    [id |-> s.id, room |-> s.room, src |-> p.id, from |-> p.erizo,
     to |-> s.erizo, count |-> 1]

\* MUTANT: the incremented count is not written back.
CountedOnce(s, p) ==
    IF \E b \in bridges : Match(b, s) THEN bridges
    ELSE bridges \cup {NewBridge(s, p)}

\* The bridge streams once s is counted: the one that serves its erizo has one
\* subscriber more, or a new one is added.
Counted(s, p) ==
    IF \E b \in bridges : Match(b, s)
    THEN {IF Match(b, s) THEN [b EXCEPT !.count = @ + 1] ELSE b : b \in bridges}
    ELSE bridges \cup {NewBridge(s, p)}

\* A stream whose ssrcs are still 0 is waited for, with the lock dropped every
\* 100ms: the attempts that find it so change nothing.
Subscribable(c) ==
    {p \in In(sess[c].room, pubs) : p.ssrc}

handleSubscribe(c) ==
    /\ Ready(c)
    /\ ids.sub < MaxSubs
    /\ ids' = [ids EXCEPT !.sub = @ + 1]
    /\ \E p \in Subscribable(c) :
        LET s == NewSubscriber(c, p)
        IN  /\ subs' = subs \cup {s}
            /\ bridges' = IF s.bridge THEN Counted(s, p) ELSE bridges
    /\ UNCHANGED <<link, clients, ecSet, pubs, cluster, faults>>

\* The subscriber is stored and a later command fails: nothing is sent, and the
\* bridge stream may or may not have been counted.
SubscribeFails(c) ==
    /\ Fault
    /\ Ready(c)
    /\ ids.sub < MaxSubs
    /\ ids' = [ids EXCEPT !.sub = @ + 1]
    /\ \E p \in Subscribable(c) :
        LET s == NewSubscriber(c, p)
        IN  /\ subs' = subs \cup {s}
            /\ bridges' \in {bridges, IF s.bridge THEN Counted(s, p) ELSE bridges}
    /\ UNCHANGED <<link, clients, ecSet, pubs, cluster>>

--------------------------------------------------------------------------------
(* removeClient.                                                           *)

Mine(c, room) == {p \in In(room, pubs) : p.client = c}

\* What its loop over the subscribers goes through: subscriptions to a stream of
\* the client, and the client's own.  One that is both comes up twice.
Items(c, room) ==
    {<<s, "theirs">> : s \in {x \in In(room, subs) :
                                 \E p \in Mine(c, room) : x.to = p.id}}
    \cup
    {<<s, "own">> : s \in {x \in In(room, subs) : x.client = c}}

SubsOf(D) == {i[1] : i \in D}

\* MUTANT: the client's own subscriptions are removed without their bridges.
HitsTheirs(b, D) ==
    Cardinality({i \in D : i[2] = "theirs" /\ i[1].bridge /\ Match(b, i[1])})

\* removeBridgeStreamSub, for the items of D.
Hits(b, D) == Cardinality({i \in D : i[1].bridge /\ Match(b, i[1])})

Torn(D) == {b \in bridges : Hits(b, D) > 0 /\ b.count <= Hits(b, D)}

After(D) ==
    {[b EXCEPT !.count = @ - Hits(b, D)] : b \in bridges \ Torn(D)}

\* removeBridgeStreamPub, for the publishers of P: the first bridge stream of
\* each that is still there.
FirstOf(P, B) ==
    LET of(p) == {b \in B : b.room = p.room /\ b.src = p.id /\ b.from = p.erizo}
    IN  {F \in SUBSET B :
            /\ \A b \in F : \E p \in P : b \in of(p)
            /\ \A p \in P : of(p) # {} => Cardinality(of(p) \cap F) = 1}

\* removeClient, when the final deletions in K do not happen; their results are
\* ignored.  Before a token the client has no reply_to and is in no table.
RemoveClient(c, room, K) ==
    LET D == Items(c, room)
    IN  /\ \E F \in FirstOf(Mine(c, room), After(D)) : bridges' = After(D) \ F
        /\ subs' = IF "subs" \in K THEN subs ELSE subs \ SubsOf(D)
        /\ pubs' = IF "pubs" \in K THEN pubs ELSE pubs \ Mine(c, room)
        /\ clients' = IF "client" \in K \/ room = Lobby THEN clients
                      ELSE clients \ {c}
        /\ ecSet' = IF "ec" \in K \/ room = Lobby THEN ecSet ELSE ecSet \ {c}

\* removeClient stops inside its loops: the bridge streams of the items in D, and
\* then those of the publishers in P, have been dealt with; nothing is deleted yet.
RemoveClientStops(c, room) ==
    /\ \E D \in SUBSET Items(c, room), P \in SUBSET Mine(c, room) :
           /\ P # {} => D = Items(c, room)
           /\ \E F \in FirstOf(P, After(D)) : bridges' = After(D) \ F
    /\ UNCHANGED <<clients, ecSet, pubs, subs>>

Deletions == {"subs", "pubs", "client", "ec"}

\* The handlers of the clients in C are deleted.
Close(C, as) ==
    /\ conn' = [c \in Client |-> IF c \in C THEN as ELSE conn[c]]
    /\ step' = [c \in Client |-> IF c \in C THEN "idle" ELSE step[c]]
    /\ tokens' = [c \in Client |-> IF c \in C THEN 0 ELSE tokens[c]]
    /\ sess' = [c \in Client |-> IF c \in C THEN NoSession ELSE sess[c]]

\* onDisconnection -> onClose -> removeClient, and the handler is deleted.
Disconnect(c) ==
    /\ Ready(c)
    /\ RemoveClient(c, sess[c].room, {})
    /\ Close({c}, "gone")
    /\ UNCHANGED <<ids, cluster, faults>>

\* lock() gives up: removeClient returns at once, and the handler is deleted all
\* the same.  (To the other handlers that take the lock giving up is as if they
\* had not been called, and an expired client's is below.)
DisconnectGivesUp(c) ==
    /\ Ready(c)
    /\ Close({c}, "left")
    /\ UNCHANGED <<redis, ids, cluster, faults>>

\* A command in the loops fails, or some of the final ones do.
RemovalFails(c, room) ==
    \/ \E K \in (SUBSET Deletions) \ {{}} : RemoveClient(c, room, K)
    \/ RemoveClientStops(c, room)

DisconnectFails(c) ==
    /\ Fault
    /\ Ready(c)
    /\ RemovalFails(c, sess[c].room)
    /\ Close({c}, "gone")
    /\ UNCHANGED <<ids, cluster>>

--------------------------------------------------------------------------------
(* Heartbeat, expiry and crashes.                                          *)

Beat(e) ==
    /\ e \in alive \ hb
    /\ hb' = hb \cup {e}
    /\ UNCHANGED <<link, redis, ids, cleaning, alive, faults>>

\* The heartbeat thread of e finds d expired and posts
\* removeExpireErizoController(d), which reads the clients d keeps.  Whether d is
\* really dead plays no part: last_update - now is unsigned.
Expire(e, d) ==
    /\ e \in alive
    /\ d \in hb \ {e}
    /\ hb' = hb \ {d}
    /\ cleaning' = [cleaning EXCEPT ![e] = @ \cup {c \in ecSet : Home[c] = d}]
    /\ UNCHANGED <<link, redis, ids, alive, faults>>

removeExpired(e, c) ==
    /\ c \in cleaning[e]
    /\ cleaning' = [cleaning EXCEPT ![e] = @ \ {c}]
    /\ RemoveClient(c, Main, {})
    /\ UNCHANGED <<link, ids, hb, alive, faults>>

removeExpiredGivesUp(e, c) ==
    /\ c \in cleaning[e]
    /\ cleaning' = [cleaning EXCEPT ![e] = @ \ {c}]
    /\ UNCHANGED <<link, redis, ids, hb, alive, faults>>

removeExpiredFails(e, c) ==
    /\ Fault
    /\ c \in cleaning[e]
    /\ cleaning' = [cleaning EXCEPT ![e] = @ \ {c}]
    /\ RemovalFails(c, Main)
    /\ UNCHANGED <<link, ids, hb, alive>>

\* MUTANT: the publishers are deleted before the subscribers.
SuffixesPubsFirst ==
    {Deletions, {"subs", "client", "ec"}, {"client", "ec"}, {"ec"}}

\* The final deletions a removeClient that dies among them has not reached.
Suffixes == {Deletions, {"pubs", "client", "ec"}, {"client", "ec"}, {"ec"}}

\* A removeClient(c) the dying controller e may be in the middle of.
RemovalDies(e, c, room) ==
    /\ \/ Home[c] = e /\ Ready(c) /\ room = sess[c].room
       \/ c \in cleaning[e] /\ room = Main
    /\ \/ \E K \in Suffixes : RemoveClient(c, room, K)
       \/ RemoveClientStops(c, room)
    /\ UNCHANGED ids

\* A handleSubscribe it may be in the middle of: stored, but not yet counted.
SubscribeDies(e, c) ==
    /\ Home[c] = e /\ Ready(c)
    /\ ids.sub < MaxSubs
    /\ ids' = [ids EXCEPT !.sub = @ + 1]
    /\ \E p \in Subscribable(c) : subs' = subs \cup {NewSubscriber(c, p)}
    /\ UNCHANGED <<clients, ecSet, pubs, bridges>>

\* A controller dies, possibly inside a handler, with its connections and its
\* worker's tasks.  Nothing of it is left but what is in Redis.
Crash(e) ==
    /\ e \in alive
    /\ Cardinality(EC \ alive) < MaxCrashes
    /\ alive' = alive \ {e}
    /\ \/ UNCHANGED <<redis, ids>>
       \/ \E c \in Client :
             \/ \E room \in Rooms : RemovalDies(e, c, room)
             \/ SubscribeDies(e, c)
    /\ Close({c \in Client : Home[c] = e}, "gone")
    /\ cleaning' = [cleaning EXCEPT ![e] = {}]
    /\ UNCHANGED <<hb, faults>>

--------------------------------------------------------------------------------

RegistryNext ==
    \/ \E c \in Client :
           \/ Connect(c)
           \/ Token(c) \/ addClient(c) \/ addClientToEC(c) \/ getAllPublisher(c)
           \/ TokenFails(c) \/ TokenAborts(c)
           \/ handlePublish(c)
           \/ handleSubscribe(c) \/ SubscribeFails(c)
           \/ Disconnect(c) \/ DisconnectGivesUp(c) \/ DisconnectFails(c)
    \/ \E p \in pubs : publisherAnswer(p)
    \/ \E e \in EC :
           \/ Beat(e)
           \/ \E d \in EC : Expire(e, d)
           \/ \E c \in Client :
                  removeExpired(e, c) \/ removeExpiredGivesUp(e, c) \/ removeExpiredFails(e, c)
           \/ Crash(e)

RegistrySpec == RegistryInit /\ [][RegistryNext]_regVars

--------------------------------------------------------------------------------
(* Properties.                                                             *)

Served(b) == {s \in subs : s.bridge /\ Match(b, s)}

\* Between handlers, a bridge stream exists exactly while some subscriber on a
\* foreign agent needs it and subscribe_count is the number of those: what
\* handleSubscribe adds up, removeClient takes back, in any order of clients
\* subscribing, moving to another agent, leaving and being expired by another
\* controller.
BridgeCountExact ==
    /\ \A b \in bridges : b.count = Cardinality(Served(b)) /\ b.count > 0
    /\ \A s \in subs : s.bridge => \E b \in bridges : Match(b, s)

\* Whatever fails or crashes in the middle of handleSubscribe or removeClient, a
\* bridge stream is never counted more often than it has subscribers, so that
\* removing them all always tears it down, and no receiving erizo has two.
BridgeNeverLeaks ==
    /\ \A b \in bridges : b.count \in 1..Cardinality(Served(b))
    /\ \A a, b \in bridges :
           (a.room = b.room /\ a.src = b.src /\ a.to = b.to) => a = b

\* As long as no Redis command has failed, no subscriber and no bridge stream
\* refers to a publisher that removeClient has deleted, not even after a
\* controller died inside removeClient.
NoDanglingStream ==
    faults = 0 =>
        /\ \A s \in subs : \E p \in pubs : p.id = s.to /\ p.room = s.room
        /\ \A b \in bridges : \E p \in pubs : p.id = b.src /\ p.erizo = b.from

\* removeClient removes what the client published (the comment at its second
\* loop: "delete the streams this client pushed").
ClosedLeavesNoStream ==
    \A c \in Client : conn[c] = "gone" => \A p \in pubs : p.client # c
================================================================================
