----------------------------- MODULE RegistryProofs ----------------------------
(***************************************************************************)
(* Proofs about Registry: for any number of clients, controllers, agents,  *)
(* streams and subscriptions, failures and crashes.                        *)
(***************************************************************************)
EXTENDS Registry, FiniteSetTheorems, TLAPS

\* What the loops of removeClient count is finite.
Types == RegistryTypeOK /\ IsFiniteSet(subs)

\* A subscriber id is new when it is drawn.
SubsDrawn == \A s \in subs : s.id <= ids.sub

--------------------------------------------------------------------------------
(* The helpers.                                                            *)

\* What the loop over the subscribers goes through is subscribers, each with
\* one of two tags, and there are finitely many.
LEMMA ItemsFinite ==
    ASSUME IsFiniteSet(subs), NEW c, NEW room
    PROVE  /\ Items(c, room) \subseteq subs \X {"theirs", "own"}
           /\ IsFiniteSet(Items(c, room))
<1>1. Items(c, room) \subseteq subs \X {"theirs", "own"}
  BY DEF Items, In
<1>2. IsFiniteSet({"theirs", "own"})
  <2>1. IsFiniteSet({"theirs"} \cup {"own"})
    BY FS_Singleton, FS_AddElement
  <2>2. {"theirs"} \cup {"own"} = {"theirs", "own"}
    OBVIOUS
  <2> QED
    BY <2>1, <2>2
<1>3. IsFiniteSet(subs \X {"theirs", "own"})
  BY <1>2, FS_Product
<1> QED
  BY <1>1, <1>3, FS_Subset

\* The items of D whose subscriber the bridge stream b serves.
HitSet(b, D) == {i \in D : i[1].bridge /\ Match(b, i[1])}

\* removeBridgeStreamSub is called at least once for every subscriber of D that
\* b serves, and the number of its calls is a number.
LEMMA HitsCover ==
    ASSUME IsFiniteSet(subs), NEW c, NEW room, NEW D \in SUBSET Items(c, room), NEW b
    PROVE  /\ Hits(b, D) \in Nat
           /\ IsFiniteSet(HitSet(b, D))
           /\ IsFiniteSet(Served(b) \cap SubsOf(D))
           /\ Cardinality(Served(b) \cap SubsOf(D)) <= Hits(b, D)
<1> DEFINE H == HitSet(b, D)
           S == Served(b) \cap SubsOf(D)
           f == [i \in H |-> i[1]]
<1>1. D \subseteq subs \X {"theirs", "own"} /\ IsFiniteSet(D)
  BY ItemsFinite, FS_Subset
<1>2. IsFiniteSet(H)
  BY <1>1, FS_Subset DEF HitSet
<1>3. Hits(b, D) = Cardinality(H)
  BY DEF Hits, HitSet
<1>4. f \in Surjection(H, S)
  <2>1. \A i \in H : i[1] \in S
    BY <1>1 DEF HitSet, Served, SubsOf
  <2>2. \A s \in S : \E i \in H : i[1] = s
    BY <1>1 DEF HitSet, Served, SubsOf
  <2> QED
    BY <2>1, <2>2 DEF Surjection
<1> HIDE DEF H, S, f
<1>5. IsFiniteSet(S) /\ Cardinality(S) <= Cardinality(H)
  BY <1>2, <1>4, FS_Surjection
<1>6. Cardinality(H) \in Nat
  BY <1>2, FS_CardinalityType
<1> QED
  BY <1>2, <1>3, <1>5, <1>6 DEF H, S

\* What removeClient leaves of the bridge streams after D: each with the count it
\* had less the calls for it, which is still positive.
LEMMA AfterCounts ==
    ASSUME Types, NEW c, NEW room, NEW D \in SUBSET Items(c, room),
           \A b \in bridges : b.count > 0,
           NEW a \in After(D)
    PROVE  \E b \in bridges \ Torn(D) :
               /\ a = [b EXCEPT !.count = b.count - Hits(b, D)]
               /\ a.count = b.count - Hits(b, D)
               /\ a.count > 0
               /\ a \in BridgeStream
               /\ a.room = b.room /\ a.src = b.src /\ a.to = b.to /\ a.from = b.from
<1>1. PICK b \in bridges \ Torn(D) : a = [b EXCEPT !.count = b.count - Hits(b, D)]
  BY DEF After
<1>2. b \in BridgeStream
  BY DEF Types, RegistryTypeOK
<1>3. Hits(b, D) \in Nat
  BY HitsCover DEF Types
<1>4. b.count > Hits(b, D)
  BY <1>2, <1>3 DEF Torn, BridgeStream
<1>5. /\ a.count = b.count - Hits(b, D)
      /\ a.room = b.room /\ a.src = b.src /\ a.to = b.to /\ a.from = b.from
      /\ a.id = b.id
  BY <1>1, <1>2 DEF BridgeStream
<1>6. a.count \in Nat /\ a.count > 0
  BY <1>2, <1>3, <1>4, <1>5 DEF BridgeStream
<1>7. a \in BridgeStream
  BY <1>1, <1>2, <1>5, <1>6 DEF BridgeStream
<1> QED
  BY <1>1, <1>5, <1>6, <1>7

\* A new subscriber is well formed, goes by a new id, and asks for p.
LEMMA NewSubscriberType ==
    ASSUME Types, SubsDrawn, NEW c \in Client, NEW p \in Subscribable(c), ids.sub < MaxSubs
    PROVE  LET s == NewSubscriber(c, p)
           IN  /\ s \in Subscriber
               /\ s \notin subs
               /\ s.id = ids.sub + 1
               /\ s.to = p.id /\ s.room = p.room /\ s.room = sess[c].room
               /\ p \in pubs /\ p \in Publisher
               /\ NewBridge(s, p) \in BridgeStream
               /\ Match(NewBridge(s, p), s)
<1> DEFINE s == NewSubscriber(c, p)
<1>1. p \in pubs /\ p \in Publisher /\ p.room = sess[c].room
  BY DEF Subscribable, In, Types, RegistryTypeOK
<1>2. sess[c] \in Session /\ ids.sub \in Nat /\ MaxSubs \in Nat
  BY RoomAssumption DEF Types, RegistryTypeOK
<1>3. /\ s.id = ids.sub + 1 /\ s.to = p.id /\ s.room = sess[c].room
      /\ s.erizo = sess[c].erizo
  BY DEF NewSubscriber
<1>4. s \in Subscriber
  BY <1>1, <1>2 DEF NewSubscriber, Subscriber, SubId, Session, Publisher
<1>5. s \notin subs
  BY <1>2, <1>3 DEF SubsDrawn
<1>6. NewBridge(s, p) \in BridgeStream
  BY <1>1, <1>4 DEF NewBridge, BridgeStream, Subscriber, Publisher
<1>7. Match(NewBridge(s, p), s)
  BY <1>3 DEF NewBridge, Match
<1> QED
  BY <1>1, <1>3, <1>4, <1>5, <1>6, <1>7

\* The bridge streams once s is counted: those there were, each with one
\* subscriber more if it serves s, and a new one only if none did.
LEMMA CountedStreams ==
    ASSUME Types, NEW s, NEW p, NEW a \in Counted(s, p)
    PROVE  \/ \E b \in bridges :
                  /\ a \in BridgeStream
                  /\ a.room = b.room /\ a.src = b.src /\ a.to = b.to /\ a.from = b.from
                  /\ a.count = IF Match(b, s) THEN b.count + 1 ELSE b.count
           \/ a = NewBridge(s, p) /\ \A b \in bridges : ~Match(b, s)
<1>1. bridges \subseteq BridgeStream
  BY DEF Types, RegistryTypeOK
<1>2. CASE \E b \in bridges : Match(b, s)
  <2>1. PICK b \in bridges : a = IF Match(b, s) THEN [b EXCEPT !.count = b.count + 1] ELSE b
    BY <1>2 DEF Counted
  <2>2. b \in BridgeStream
    BY <1>1
  <2>3. CASE Match(b, s)
    <3>1. a = [b EXCEPT !.count = b.count + 1]
      BY <2>1, <2>3
    <3>2. /\ a.room = b.room /\ a.src = b.src /\ a.to = b.to /\ a.from = b.from
          /\ a.id = b.id /\ a.count = b.count + 1
      BY <3>1, <2>2 DEF BridgeStream
    <3>3. a \in BridgeStream
      BY <3>1, <3>2, <2>2 DEF BridgeStream
    <3> QED
      BY <2>3, <3>2, <3>3
  <2>4. CASE ~Match(b, s)
    BY <2>1, <2>2, <2>4
  <2> QED
    BY <2>3, <2>4
<1>3. CASE \A b \in bridges : ~Match(b, s)
  <2>1. a \in bridges \cup {NewBridge(s, p)}
    BY <1>3 DEF Counted
  <2> QED
    BY <1>1, <1>3, <2>1
<1> QED
  BY <1>2, <1>3

--------------------------------------------------------------------------------
(* The steps, by what they do to subscribers and bridge streams.           *)

\* A Redis command has failed or a controller has died.
Interrupted == faults' = faults + 1 \/ alive' # EC

\* handleSubscribe has stored a subscriber, and counted it unless interrupted.
Subscribes(c, p) ==
    LET s == NewSubscriber(c, p)
    IN  /\ ids.sub < MaxSubs
        /\ ids' = [ids EXCEPT !.sub = @ + 1]
        /\ subs' = subs \cup {s}
        /\ \/ bridges' = IF s.bridge THEN Counted(s, p) ELSE bridges
           \/ bridges' = bridges /\ Interrupted
        /\ UNCHANGED pubs

\* removeClient, whole or up to the deletions of K.
Removes(c, room, K) ==
    /\ RemoveClient(c, room, K)
    /\ UNCHANGED ids
    /\ \/ K = {}
       \/ K \in Suffixes /\ Interrupted
       \/ faults' = faults + 1

\* Neither: the subscribers and the bridge streams stay, and so does every
\* stream, its ssrcs apart.
Neither ==
    /\ UNCHANGED <<subs, bridges>>
    /\ ids'.sub = ids.sub
    /\ \/ pubs \subseteq pubs'
       \/ \E p \in pubs : pubs' = (pubs \ {p}) \cup {[p EXCEPT !.ssrc = TRUE]}

\* Every step is one of these; the failures are counted and the dead stay dead.
LEMMA StepKinds ==
    ASSUME RegistryTypeOK, [RegistryNext]_regVars
    PROVE  /\ faults' \in {faults, faults + 1} /\ alive' \in SUBSET alive
           /\ \/ \E c \in Client : \E p \in Subscribable(c) : Subscribes(c, p)
              \/ \E c \in Client, room \in Rooms : \E K \in SUBSET Deletions :
                     Removes(c, room, K)
              \/ \E c \in Client, room \in Rooms :
                     RemoveClientStops(c, room) /\ UNCHANGED ids /\ Interrupted
              \/ Neither
<1> USE DEF link, redis, cluster
<1>0. \A c \in Client : sess[c].room \in Rooms
  BY DEF RegistryTypeOK, Session
<1>1. ASSUME NEW c \in Client,
             Connect(c) \/ Token(c) \/ addClient(c) \/ addClientToEC(c) \/ getAllPublisher(c)
             \/ TokenFails(c) \/ TokenAborts(c)
      PROVE  Neither /\ faults' \in {faults, faults + 1} /\ alive' = alive
  BY <1>1 DEF Connect, Token, addClient, addClientToEC, getAllPublisher, TokenFails,
     TokenAborts, Fault, Neither
<1>2. ASSUME NEW c \in Client, handlePublish(c)
      PROVE  Neither /\ faults' = faults /\ alive' = alive
  BY <1>2 DEF handlePublish, Neither, RegistryTypeOK
<1>3. ASSUME NEW p \in pubs, publisherAnswer(p)
      PROVE  Neither /\ faults' = faults /\ alive' = alive
  BY <1>3 DEF publisherAnswer, Neither
<1>4. ASSUME NEW c \in Client, handleSubscribe(c) \/ SubscribeFails(c)
      PROVE  /\ faults' \in {faults, faults + 1} /\ alive' = alive
             /\ \E p \in Subscribable(c) : Subscribes(c, p)
  BY <1>4 DEF handleSubscribe, SubscribeFails, Fault, Subscribes, Interrupted
<1>5. ASSUME NEW c \in Client, NEW room \in Rooms, RemovalFails(c, room), UNCHANGED ids, Fault
      PROVE  \/ \E K \in SUBSET Deletions : Removes(c, room, K)
             \/ RemoveClientStops(c, room) /\ UNCHANGED ids /\ Interrupted
  BY <1>5 DEF RemovalFails, Fault, Removes, Interrupted
<1>6. ASSUME NEW c \in Client, Disconnect(c) \/ DisconnectFails(c)
      PROVE  /\ faults' \in {faults, faults + 1} /\ alive' = alive
             /\ \/ \E K \in SUBSET Deletions : Removes(c, sess[c].room, K)
                \/ RemoveClientStops(c, sess[c].room) /\ UNCHANGED ids /\ Interrupted
  <2>1. CASE Disconnect(c)
    BY <2>1 DEF Disconnect, Removes
  <2>2. CASE DisconnectFails(c)
    BY <2>2, <1>0, <1>5 DEF DisconnectFails, Fault
  <2> QED
    BY <1>6, <2>1, <2>2
<1>7. ASSUME NEW e \in EC, NEW d \in EC, Beat(e) \/ Expire(e, d)
      PROVE  Neither /\ faults' = faults /\ alive' = alive
  BY <1>7 DEF Beat, Expire, Neither
<1>8. ASSUME NEW e \in EC, NEW c \in Client, removeExpired(e, c) \/ removeExpiredFails(e, c)
      PROVE  /\ faults' \in {faults, faults + 1} /\ alive' = alive
             /\ \/ \E K \in SUBSET Deletions : Removes(c, Main, K)
                \/ RemoveClientStops(c, Main) /\ UNCHANGED ids /\ Interrupted
  <2>1. CASE removeExpired(e, c)
    BY <2>1 DEF removeExpired, Removes
  <2>2. CASE removeExpiredFails(e, c)
    BY <2>2, <1>5 DEF removeExpiredFails, Fault, Rooms
  <2> QED
    BY <1>8, <2>1, <2>2
<1>9. ASSUME NEW e \in EC, Crash(e)
      PROVE  /\ faults' = faults /\ alive' \in SUBSET alive
             /\ \/ \E c \in Client : \E p \in Subscribable(c) : Subscribes(c, p)
                \/ \E c \in Client, room \in Rooms : \E K \in SUBSET Deletions :
                       Removes(c, room, K)
                \/ \E c \in Client, room \in Rooms :
                       RemoveClientStops(c, room) /\ UNCHANGED ids /\ Interrupted
                \/ Neither
  <2>1. Interrupted /\ faults' = faults /\ alive' \in SUBSET alive
    BY <1>9 DEF Crash, Interrupted, RegistryTypeOK
  <2>2. CASE UNCHANGED <<redis, ids>>
    BY <2>1, <2>2 DEF Neither
  <2>3. ASSUME NEW c \in Client, NEW room \in Rooms, RemovalDies(e, c, room)
        PROVE  \/ \E K \in SUBSET Deletions : Removes(c, room, K)
               \/ RemoveClientStops(c, room) /\ UNCHANGED ids
    <3>1. Suffixes \subseteq SUBSET Deletions
      BY DEF Suffixes, Deletions
    <3> QED
      BY <2>1, <2>3, <3>1 DEF RemovalDies, Removes
  <2>4. ASSUME NEW c \in Client, SubscribeDies(e, c)
        PROVE  \E p \in Subscribable(c) : Subscribes(c, p)
    BY <2>1, <2>4 DEF SubscribeDies, Subscribes
  <2> QED
    BY <1>9, <2>1, <2>2, <2>3, <2>4 DEF Crash
<1>10. CASE UNCHANGED regVars
  BY <1>10 DEF regVars, Neither
<1>11. Main \in Rooms
  BY DEF Rooms
<1>12. ASSUME NEW c \in Client,
              DisconnectGivesUp(c) \/ \E e \in EC : removeExpiredGivesUp(e, c)
       PROVE  Neither /\ faults' = faults /\ alive' = alive
  BY <1>12 DEF DisconnectGivesUp, removeExpiredGivesUp, Neither
<1> QED
  BY <1>0, <1>1, <1>2, <1>3, <1>4, <1>6, <1>7, <1>8, <1>9, <1>10, <1>11, <1>12
     DEF RegistryNext

--------------------------------------------------------------------------------
(* Types.                                                                  *)

\* The steps of handleToken follow one another.
LEMMA StepAfterType ==
    \A x \in {"addClient", "addClientToEC", "list"} :
        StepAfter(x) \in {"idle", "addClientToEC", "list"}
<1>1. /\ DOMAIN TokenSteps = 1..3 /\ Len(TokenSteps) = 3
      /\ TokenSteps[1] = "addClient" /\ TokenSteps[2] = "addClientToEC"
      /\ TokenSteps[3] = "list"
  BY DEF TokenSteps
<1>2. SUFFICES ASSUME NEW x \in {"addClient", "addClientToEC", "list"}
               PROVE  StepAfter(x) \in {"idle", "addClientToEC", "list"}
  OBVIOUS
<1> DEFINE i == CHOOSE i \in DOMAIN TokenSteps : TokenSteps[i] = x
<1>3. i \in 1..3
  BY <1>1
<1>4. StepAfter(x) = IF i = 3 THEN "idle" ELSE TokenSteps[i + 1]
  BY <1>1 DEF StepAfter
<1> HIDE DEF i
<1>5. i = 1 \/ i = 2 \/ i = 3
  BY <1>3
<1> QED
  BY <1>1, <1>4, <1>5

\* Whatever part of removeClient happens, the tables keep their types.
LEMMA RemovalTypes ==
    ASSUME Types, BridgeNeverLeaks, NEW c \in Client, NEW room \in Rooms,
           \/ \E K \in SUBSET Deletions : RemoveClient(c, room, K)
           \/ RemoveClientStops(c, room)
    PROVE  /\ clients' \subseteq Client /\ ecSet' \subseteq Client
           /\ pubs' \subseteq Publisher /\ subs' \subseteq Subscriber
           /\ bridges' \subseteq BridgeStream
<1>1. \E D \in SUBSET Items(c, room) : bridges' \subseteq After(D)
  BY DEF RemoveClient, RemoveClientStops, FirstOf
<1>2. PICK D \in SUBSET Items(c, room) : bridges' \subseteq After(D)
  BY <1>1
<1>3. \A b \in bridges : b.count > 0
  <2>1. \A b \in bridges : b.count \in 1..Cardinality(Served(b)) /\ b.count \in Nat
    BY DEF BridgeNeverLeaks, Types, RegistryTypeOK, BridgeStream
  <2>2. \A b \in bridges : Cardinality(Served(b)) \in Nat
    BY FS_Subset, FS_CardinalityType DEF Types, Served
  <2> QED
    BY <2>1, <2>2
<1>4. bridges' \subseteq BridgeStream
  BY <1>2, <1>3, AfterCounts
<1>5. clients' \subseteq clients /\ ecSet' \subseteq ecSet /\ pubs' \subseteq pubs /\ subs' \subseteq subs
  BY DEF RemoveClient, RemoveClientStops
<1> QED
  BY <1>4, <1>5 DEF Types, RegistryTypeOK

\* The handlers that are deleted leave the connections well formed.
LEMMA CloseTypes ==
    ASSUME RegistryTypeOK, NEW C, NEW as \in {"gone", "left"}, Close(C, as)
    PROVE  /\ conn' \in [Client -> {"new", "up", "gone", "left"}]
           /\ step' \in [Client -> {"idle", "addClient", "addClientToEC", "list"}]
           /\ tokens' \in [Client -> 0..MaxTokens]
           /\ sess' \in [Client -> Session]
<1>1. NoSession \in Session
  BY DEF NoSession, Session, Rooms, AgentOrNone
<1>2. 0 \in 0..MaxTokens
  BY RoomAssumption
<1> QED
  BY <1>1, <1>2 DEF Close, RegistryTypeOK

\* Every step keeps the types, as long as no bridge stream has leaked: the counts
\* that removeClient takes back would not be numbers otherwise.
LEMMA RegistryTypeStep ==
    ASSUME Types, SubsDrawn, BridgeNeverLeaks, [RegistryNext]_regVars
    PROVE  RegistryTypeOK'
<1> USE DEF link, redis, cluster
<1>0. /\ MaxStreams \in Nat /\ MaxSubs \in Nat /\ MaxTokens \in Nat /\ MaxFaults \in Nat
      /\ RegistryTypeOK /\ Main \in Rooms /\ \A c \in Client : sess[c].room \in Rooms
  BY RoomAssumption DEF Types, RegistryTypeOK, Session, Rooms
<1>1. Fault => faults' \in 0..MaxFaults
  BY <1>0 DEF Fault, RegistryTypeOK
<1>2. ASSUME NEW c \in Client, Connect(c) PROVE RegistryTypeOK'
  BY <1>0, <1>2 DEF Connect, RegistryTypeOK
<1>3. ASSUME NEW c \in Client, Token(c) PROVE RegistryTypeOK'
  <2>1. PICK a \in Agent :
            sess' = [sess EXCEPT ![c] = [room |-> Main, agent |-> a, erizo |-> a]]
    BY <1>3 DEF Token
  <2>2. sess' \in [Client -> Session]
    BY <1>0, <2>1 DEF RegistryTypeOK, Session, AgentOrNone
  <2>3. tokens[c] - 1 \in 0..MaxTokens /\ tokens[c] \in 0..MaxTokens
    BY <1>0, <1>3 DEF Token, RegistryTypeOK
  <2>4. TokenSteps[1] = "addClient"
    BY DEF TokenSteps
  <2> QED
    BY <1>0, <1>3, <2>2, <2>3, <2>4 DEF Token, RegistryTypeOK
<1>4. ASSUME NEW c \in Client, TokenFails(c) PROVE RegistryTypeOK'
  <2>1. PICK a \in Agent \cup {sess[c].agent} :
            sess' = [sess EXCEPT ![c].room = Main, ![c].agent = a]
    BY <1>4 DEF TokenFails
  <2>2. sess' \in [Client -> Session]
    <3>1. sess[c] \in Session /\ a \in AgentOrNone
      BY <1>0, <2>1 DEF RegistryTypeOK, Session, AgentOrNone
    <3>2. [[sess[c] EXCEPT !.room = Main] EXCEPT !.agent = a] \in Session
      BY <1>0, <3>1 DEF Session
    <3>3. sess' = [sess EXCEPT ![c] = [[sess[c] EXCEPT !.room = Main] EXCEPT !.agent = a]]
      BY <1>0, <2>1 DEF RegistryTypeOK
    <3> QED
      BY <1>0, <3>2, <3>3 DEF RegistryTypeOK
  <2>3. tokens[c] - 1 \in 0..MaxTokens /\ tokens[c] \in 0..MaxTokens
    BY <1>0, <1>4 DEF TokenFails, RegistryTypeOK
  <2> QED
    BY <1>0, <1>1, <1>4, <2>2, <2>3 DEF TokenFails, RegistryTypeOK
<1>5. ASSUME NEW c \in Client, addClient(c) \/ addClientToEC(c) \/ getAllPublisher(c)
      PROVE  RegistryTypeOK'
  <2>1. step' \in [Client -> {"idle", "addClient", "addClientToEC", "list"}]
    BY <1>0, <1>5, StepAfterType
       DEF addClient, addClientToEC, getAllPublisher, Advance, RegistryTypeOK
  <2> QED
    BY <1>0, <1>5, <2>1 DEF addClient, addClientToEC, getAllPublisher, RegistryTypeOK
<1>6. ASSUME NEW c \in Client, TokenAborts(c) PROVE RegistryTypeOK'
  <2>1. clients' \subseteq Client /\ ecSet' \subseteq Client
    BY <1>0, <1>6 DEF TokenAborts, RegistryTypeOK
  <2> QED
    BY <1>0, <1>1, <1>6, <2>1 DEF TokenAborts, RegistryTypeOK
<1>7. ASSUME NEW c \in Client, handlePublish(c) PROVE RegistryTypeOK'
  <2>1. PICK p \in NewPublishers(c) : pubs' = pubs \cup {p}
    BY <1>7 DEF handlePublish
  <2>2. ids' \in [stream : 0..MaxStreams, sub : 0..MaxSubs] /\ ids.stream + 1 \in Stream
    BY <1>0, <1>7 DEF handlePublish, RegistryTypeOK, Stream
  <2>3. sess[c] \in Session
    BY <1>0 DEF RegistryTypeOK
  <2>4. p \in Publisher
    BY <2>1, <2>2, <2>3 DEF NewPublishers, Publisher, Session
  <2> QED
    BY <1>0, <1>7, <2>1, <2>2, <2>4 DEF handlePublish, RegistryTypeOK
<1>8. ASSUME NEW p \in pubs, publisherAnswer(p) PROVE RegistryTypeOK'
  <2>1. p \in Publisher
    BY <1>0 DEF RegistryTypeOK
  <2>2. [p EXCEPT !.ssrc = TRUE] \in Publisher
    BY <2>1 DEF Publisher
  <2> QED
    BY <1>0, <1>8, <2>2 DEF publisherAnswer, RegistryTypeOK
<1>9. ASSUME NEW c \in Client, NEW p \in Subscribable(c), Subscribes(c, p)
      PROVE  /\ subs' \subseteq Subscriber /\ bridges' \subseteq BridgeStream
             /\ pubs' \subseteq Publisher
             /\ ids' \in [stream : 0..MaxStreams, sub : 0..MaxSubs]
  <2> DEFINE s == NewSubscriber(c, p)
  <2>1. s \in Subscriber /\ NewBridge(s, p) \in BridgeStream
    BY <1>9, NewSubscriberType DEF Subscribes
  <2>2. Counted(s, p) \subseteq BridgeStream
    <3> HIDE DEF s
    <3> QED
      BY <2>1, CountedStreams
  <2>3. ids' \in [stream : 0..MaxStreams, sub : 0..MaxSubs]
    BY <1>0, <1>9 DEF Subscribes, RegistryTypeOK
  <2> QED
    BY <1>0, <1>9, <2>1, <2>2, <2>3 DEF Subscribes, RegistryTypeOK
<1>10. ASSUME NEW c \in Client, handleSubscribe(c) \/ SubscribeFails(c) PROVE RegistryTypeOK'
  <2>1. PICK p \in Subscribable(c) : Subscribes(c, p)
    BY <1>10 DEF handleSubscribe, SubscribeFails, Fault, Subscribes, Interrupted
  <2> QED
    BY <1>0, <1>1, <1>9, <1>10, <2>1 DEF handleSubscribe, SubscribeFails, RegistryTypeOK
<1>11. Deletions \in SUBSET Deletions /\ {} \in SUBSET Deletions /\ Suffixes \subseteq SUBSET Deletions
  BY DEF Suffixes, Deletions
<1>12. ASSUME NEW c \in Client, Disconnect(c) \/ DisconnectFails(c) PROVE RegistryTypeOK'
  <2>1. /\ clients' \subseteq Client /\ ecSet' \subseteq Client
        /\ pubs' \subseteq Publisher /\ subs' \subseteq Subscriber
        /\ bridges' \subseteq BridgeStream
    BY <1>0, <1>11, <1>12, RemovalTypes DEF Disconnect, DisconnectFails, RemovalFails
  <2>2. Close({c}, "gone")
    BY <1>12 DEF Disconnect, DisconnectFails
  <2> QED
    BY <1>0, <1>1, <1>12, <2>1, <2>2, CloseTypes DEF Disconnect, DisconnectFails, RegistryTypeOK
<1>13. ASSUME NEW e \in EC, NEW d \in EC, Beat(e) \/ Expire(e, d) PROVE RegistryTypeOK'
  <2>1. CASE Beat(e)
    BY <1>0, <2>1 DEF Beat, RegistryTypeOK
  <2>2. CASE Expire(e, d)
    <3>1. cleaning[e] \cup {c \in ecSet : Home[c] = d} \in SUBSET Client
      BY <1>0 DEF RegistryTypeOK
    <3> QED
      BY <1>0, <2>2, <3>1 DEF Expire, RegistryTypeOK
  <2> QED
    BY <1>13, <2>1, <2>2
<1>14. ASSUME NEW e \in EC, NEW c \in Client, removeExpired(e, c) \/ removeExpiredFails(e, c)
       PROVE  RegistryTypeOK'
  <2>1. /\ clients' \subseteq Client /\ ecSet' \subseteq Client
        /\ pubs' \subseteq Publisher /\ subs' \subseteq Subscriber
        /\ bridges' \subseteq BridgeStream
    BY <1>0, <1>11, <1>14, RemovalTypes DEF removeExpired, removeExpiredFails, RemovalFails
  <2>2. cleaning' \in [EC -> SUBSET Client]
    <3>1. cleaning[e] \ {c} \in SUBSET Client
      BY <1>0 DEF RegistryTypeOK
    <3> QED
      BY <1>0, <1>14, <3>1 DEF removeExpired, removeExpiredFails, RegistryTypeOK
  <2> QED
    BY <1>0, <1>1, <1>14, <2>1, <2>2 DEF removeExpired, removeExpiredFails, RegistryTypeOK
<1>15. ASSUME NEW e \in EC, Crash(e) PROVE RegistryTypeOK'
  <2> DEFINE Tables == /\ clients' \subseteq Client /\ ecSet' \subseteq Client
                       /\ pubs' \subseteq Publisher /\ subs' \subseteq Subscriber
                       /\ bridges' \subseteq BridgeStream
                       /\ ids' \in [stream : 0..MaxStreams, sub : 0..MaxSubs]
  <2>1. ASSUME NEW c \in Client, NEW room \in Rooms, RemovalDies(e, c, room) PROVE Tables
    <3>1. (\E K \in SUBSET Deletions : RemoveClient(c, room, K)) \/ RemoveClientStops(c, room)
      BY <1>11, <2>1 DEF RemovalDies
    <3>2. ids' = ids
      BY <2>1 DEF RemovalDies
    <3> QED
      BY <1>0, <3>1, <3>2, RemovalTypes DEF RegistryTypeOK
  <2>2. ASSUME NEW c \in Client, SubscribeDies(e, c) PROVE Tables
    <3>1. alive' # EC
      BY <1>0, <1>15 DEF Crash, RegistryTypeOK
    <3>2. PICK p \in Subscribable(c) : Subscribes(c, p)
      BY <2>2, <3>1 DEF SubscribeDies, Subscribes, Interrupted
    <3> QED
      BY <1>0, <1>9, <2>2, <3>2 DEF SubscribeDies, RegistryTypeOK
  <2>3. Tables
    <3> HIDE DEF Tables
    <3>1. CASE UNCHANGED <<redis, ids>>
      BY <1>0, <3>1 DEF RegistryTypeOK, Tables
    <3> QED
      BY <1>15, <2>1, <2>2, <3>1 DEF Crash
  <2>4. Close({c \in Client : Home[c] = e}, "gone")
    BY <1>15 DEF Crash
  <2> QED
    BY <1>0, <1>15, <2>3, <2>4, CloseTypes DEF Crash, RegistryTypeOK
<1>16. CASE UNCHANGED regVars
  BY <1>0, <1>16 DEF regVars, RegistryTypeOK
<1>17. ASSUME NEW c \in Client, DisconnectGivesUp(c) PROVE RegistryTypeOK'
  <2>1. Close({c}, "left")
    BY <1>17 DEF DisconnectGivesUp
  <2> QED
    BY <1>0, <1>17, <2>1, CloseTypes DEF DisconnectGivesUp, RegistryTypeOK
<1>18. ASSUME NEW e \in EC, NEW c \in Client, removeExpiredGivesUp(e, c) PROVE RegistryTypeOK'
  <2>1. cleaning[e] \ {c} \in SUBSET Client
    BY <1>0 DEF RegistryTypeOK
  <2> QED
    BY <1>0, <1>18, <2>1 DEF removeExpiredGivesUp, RegistryTypeOK
<1> QED
  BY <1>2, <1>3, <1>4, <1>5, <1>6, <1>7, <1>8, <1>10, <1>12, <1>13, <1>14, <1>15, <1>16,
     <1>17, <1>18
     DEF RegistryNext

--------------------------------------------------------------------------------
(* Bridge streams do not leak.                                             *)

\* The inductive invariant: counts and subscribers, of the right types, and ids
\* that are never drawn twice.
LeakInv == Types /\ SubsDrawn /\ BridgeNeverLeaks

\* The number of subscribers of a bridge stream is a number.
LEMMA ServedFinite ==
    ASSUME IsFiniteSet(subs), NEW b
    PROVE  IsFiniteSet(Served(b)) /\ Cardinality(Served(b)) \in Nat
BY FS_Subset, FS_CardinalityType DEF Served

\* Two bridge streams to one erizo, whatever their counts, serve the same.
LEMMA SameServed ==
    ASSUME NEW a, NEW b, a.room = b.room, a.src = b.src, a.to = b.to
    PROVE  Served(a) = Served(b) /\ \A s : Match(a, s) <=> Match(b, s)
BY DEF Served, Match

\* One subscriber more leaves room for one more in the count of the bridge
\* streams that serve it, and none in the others'.
LEMMA ServedGrows ==
    ASSUME IsFiniteSet(subs), NEW s, s \notin subs, subs' = subs \cup {s}, NEW b
    PROVE  LET n == Cardinality({x \in subs' : x.bridge /\ Match(b, x)})
           IN  n = IF s.bridge /\ Match(b, s) THEN Cardinality(Served(b)) + 1
                   ELSE Cardinality(Served(b))
<1> DEFINE N == {x \in subs' : x.bridge /\ Match(b, x)}
<1>1. IsFiniteSet(Served(b)) /\ s \notin Served(b)
  BY ServedFinite DEF Served
<1>2. CASE s.bridge /\ Match(b, s)
  <2>1. N = Served(b) \cup {s}
    BY <1>2 DEF Served
  <2> QED
    BY <1>1, <1>2, <2>1, FS_AddElement
<1>3. CASE ~(s.bridge /\ Match(b, s))
  <2>1. N = Served(b)
    BY <1>3 DEF Served
  <2> QED
    BY <1>3, <2>1
<1> QED
  BY <1>2, <1>3

\* Subscribers are only lost with as many calls to removeBridgeStreamSub.
LEMMA ServedShrinks ==
    ASSUME IsFiniteSet(subs), NEW c, NEW room, NEW D \in SUBSET Items(c, room),
           subs \ SubsOf(D) \subseteq subs', subs' \subseteq subs, NEW b
    PROVE  LET N == {x \in subs' : x.bridge /\ Match(b, x)}
           IN  /\ Cardinality(N) \in Nat
               /\ Cardinality(N) >= Cardinality(Served(b)) - Hits(b, D)
<1> DEFINE N == {x \in subs' : x.bridge /\ Match(b, x)}
           S == SubsOf(D)
<1>1. IsFiniteSet(Served(b)) /\ Cardinality(Served(b)) \in Nat
  BY ServedFinite
<1>2. N \subseteq Served(b) /\ Served(b) \ S \subseteq N
  BY DEF Served
<1> HIDE DEF N, S
<1>3. IsFiniteSet(N) /\ Cardinality(N) \in Nat
  BY <1>1, <1>2, FS_Subset, FS_CardinalityType
<1>4. /\ Cardinality(Served(b) \ S) <= Cardinality(N)
      /\ Cardinality(Served(b) \ S) = Cardinality(Served(b)) - Cardinality(Served(b) \cap S)
  BY <1>1, <1>2, <1>3, FS_Subset, FS_Difference
<1>5. /\ Cardinality(Served(b) \cap S) <= Hits(b, D) /\ Hits(b, D) \in Nat
      /\ Cardinality(Served(b) \cap S) \in Nat
  BY HitsCover, FS_CardinalityType DEF S
<1> QED
  BY <1>1, <1>3, <1>4, <1>5 DEF N

\* A subscription, counted or not, leaks nothing.
LEMMA SubscribeLeaksNothing ==
    ASSUME LeakInv, NEW c \in Client, NEW p \in Subscribable(c), Subscribes(c, p)
    PROVE  BridgeNeverLeaks'
<1> DEFINE s == NewSubscriber(c, p)
           N(b) == {x \in subs' : x.bridge /\ Match(b, x)}
<1>1. /\ s \notin subs /\ s \in Subscriber /\ s.to = p.id
      /\ NewBridge(s, p) \in BridgeStream /\ Match(NewBridge(s, p), s)
  BY NewSubscriberType DEF LeakInv, Subscribes
<1>2. subs' = subs \cup {s}
  BY DEF Subscribes
<1>3. bridges' = bridges \/ (s.bridge /\ bridges' = Counted(s, p))
  BY DEF Subscribes
<1>4. bridges \subseteq BridgeStream /\ IsFiniteSet(subs) /\ Types
  BY DEF LeakInv, Types, RegistryTypeOK
<1> HIDE DEF s
<1>5. \A b : Cardinality(N(b)) = IF s.bridge /\ Match(b, s) THEN Cardinality(Served(b)) + 1
                                 ELSE Cardinality(Served(b))
  BY <1>1, <1>2, <1>4, ServedGrows
<1>6. \A b : Cardinality(Served(b)) \in Nat
  BY <1>4, ServedFinite
<1>7. \A a \in bridges' : a.count \in 1..Cardinality(N(a))
  <2> SUFFICES ASSUME NEW a \in bridges' PROVE a.count \in 1..Cardinality(N(a))
    OBVIOUS
  <2>1. CASE a \in bridges
    <3>1. a.count \in 1..Cardinality(Served(a))
      BY <2>1 DEF LeakInv, BridgeNeverLeaks
    <3> QED
      BY <3>1, <1>5, <1>6
  <2>2. ASSUME s.bridge, NEW b \in bridges, a.room = b.room, a.src = b.src, a.to = b.to,
               a.count = IF Match(b, s) THEN b.count + 1 ELSE b.count
        PROVE  a.count \in 1..Cardinality(N(a))
    <3>1. b.count \in 1..Cardinality(Served(b))
      BY DEF LeakInv, BridgeNeverLeaks
    <3>2. N(a) = N(b) /\ (Match(a, s) <=> Match(b, s))
      BY <2>2 DEF Match
    <3> HIDE DEF N
    <3> QED
      BY <2>2, <3>1, <3>2, <1>5, <1>6
  <2>3. ASSUME s.bridge, a = NewBridge(s, p) PROVE a.count \in 1..Cardinality(N(a))
    <3>1. a.count = 1 /\ Match(a, s)
      BY <2>3, <1>1 DEF NewBridge
    <3> QED
      BY <2>3, <3>1, <1>5, <1>6
  <2> HIDE DEF N
  <2> QED
    BY <1>3, <1>4, <2>1, <2>2, <2>3, CountedStreams
<1>8. \A a, b \in bridges' : (a.room = b.room /\ a.src = b.src /\ a.to = b.to) => a = b
  <2>1. CASE bridges' = bridges
    BY <2>1 DEF LeakInv, BridgeNeverLeaks
  <2>2. CASE bridges' = Counted(s, p)
    <3>1. CASE \E b \in bridges : Match(b, s)
      <4> DEFINE g(b) == IF Match(b, s) THEN [b EXCEPT !.count = b.count + 1] ELSE b
      <4>1. bridges' = {g(b) : b \in bridges}
        BY <2>2, <3>1 DEF Counted
      <4>2. \A b \in bridges : g(b).room = b.room /\ g(b).src = b.src /\ g(b).to = b.to
        BY <1>4 DEF BridgeStream
      <4> HIDE DEF g
      <4> QED
        BY <4>1, <4>2 DEF LeakInv, BridgeNeverLeaks
    <3>2. CASE \A b \in bridges : ~Match(b, s)
      <4>1. bridges' = bridges \cup {NewBridge(s, p)}
        BY <2>2, <3>2 DEF Counted
      <4>2. \A b \in bridges : ~(/\ NewBridge(s, p).room = b.room
                                 /\ NewBridge(s, p).src = b.src /\ NewBridge(s, p).to = b.to)
        BY <1>1, <3>2 DEF Match
      <4> QED
        BY <4>1, <4>2 DEF LeakInv, BridgeNeverLeaks
    <3> QED
      BY <3>1, <3>2
  <2> QED
    BY <1>3, <2>1, <2>2
<1> QED
  BY <1>7, <1>8 DEF BridgeNeverLeaks, Served

\* The part of removeClient that has happened, if it stops, leaks nothing.
LEMMA RemovalLeaksNothing ==
    ASSUME LeakInv, NEW c, NEW room, NEW D \in SUBSET Items(c, room),
           bridges' \subseteq After(D),
           subs \ SubsOf(D) \subseteq subs', subs' \subseteq subs
    PROVE  BridgeNeverLeaks'
<1> DEFINE N(b) == {x \in subs' : x.bridge /\ Match(b, x)}
<1>1. Types /\ IsFiniteSet(subs)
  BY DEF LeakInv, Types
<1>2. \A b \in bridges : /\ b.count \in 1..Cardinality(Served(b)) /\ b.count > 0
                         /\ b.count \in Nat /\ Cardinality(Served(b)) \in Nat
  BY <1>1, ServedFinite DEF LeakInv, BridgeNeverLeaks
<1>3. ASSUME NEW a \in bridges' PROVE a.count \in 1..Cardinality(N(a))
  <2>1. PICK b \in bridges \ Torn(D) :
            /\ a.count = b.count - Hits(b, D) /\ a.count > 0
            /\ a \in BridgeStream
            /\ a.room = b.room /\ a.src = b.src /\ a.to = b.to
    BY <1>1, <1>2, AfterCounts
  <2>2. N(a) = N(b)
    BY <2>1 DEF Match
  <2>3. /\ Cardinality(N(b)) \in Nat
        /\ Cardinality(N(b)) >= Cardinality(Served(b)) - Hits(b, D)
    BY <1>1, ServedShrinks
  <2>4. Hits(b, D) \in Nat /\ a.count \in Nat
    BY <1>1, <2>1, HitsCover DEF BridgeStream
  <2> HIDE DEF N
  <2> QED
    BY <1>2, <2>1, <2>2, <2>3, <2>4
<1>4. ASSUME NEW a1 \in bridges', NEW a2 \in bridges',
             a1.room = a2.room, a1.src = a2.src, a1.to = a2.to
      PROVE  a1 = a2
  <2>1. PICK b1 \in bridges : /\ a1 = [b1 EXCEPT !.count = b1.count - Hits(b1, D)]
                              /\ a1.room = b1.room /\ a1.src = b1.src /\ a1.to = b1.to
    BY <1>1, <1>2, AfterCounts
  <2>2. PICK b2 \in bridges : /\ a2 = [b2 EXCEPT !.count = b2.count - Hits(b2, D)]
                              /\ a2.room = b2.room /\ a2.src = b2.src /\ a2.to = b2.to
    BY <1>1, <1>2, AfterCounts
  <2>3. b1 = b2
    BY <1>4, <2>1, <2>2 DEF LeakInv, BridgeNeverLeaks
  <2> QED
    BY <2>1, <2>2, <2>3
<1> QED
  BY <1>3, <1>4 DEF BridgeNeverLeaks, Served

\* What each way removeClient may go has in common.
LEMMA RemovalShape ==
    ASSUME NEW c, NEW room,
           (\E K \in SUBSET Deletions : RemoveClient(c, room, K)) \/ RemoveClientStops(c, room)
    PROVE  \E D \in SUBSET Items(c, room) :
               /\ bridges' \subseteq After(D)
               /\ subs \ SubsOf(D) \subseteq subs' /\ subs' \subseteq subs
BY DEF RemoveClient, RemoveClientStops, FirstOf

\* The inductive step.
LEMMA LeakStep ==
    ASSUME LeakInv, [RegistryNext]_regVars
    PROVE  LeakInv'
<1>1. RegistryTypeOK'
  BY RegistryTypeStep DEF LeakInv
<1>2. RegistryTypeOK /\ IsFiniteSet(subs) /\ ids.sub \in Nat
  BY DEF LeakInv, Types, RegistryTypeOK
<1>3. ASSUME NEW c \in Client, NEW p \in Subscribable(c), Subscribes(c, p)
      PROVE  LeakInv'
  <2>1. NewSubscriber(c, p).id = ids.sub + 1 /\ NewSubscriber(c, p) \in Subscriber
    BY <1>3, NewSubscriberType DEF LeakInv, Subscribes
  <2>2. SubsDrawn'
    <3>1. ids'.sub = ids.sub + 1
      BY <1>2, <1>3 DEF Subscribes, RegistryTypeOK
    <3>2. \A s \in subs : s.id \in Nat
      BY <1>2 DEF RegistryTypeOK, Subscriber, SubId
    <3> QED
      BY <1>2, <1>3, <2>1, <3>1, <3>2 DEF Subscribes, SubsDrawn, LeakInv
  <2>3. IsFiniteSet(subs')
    BY <1>2, <1>3, FS_AddElement DEF Subscribes
  <2> QED
    BY <1>1, <1>3, <2>2, <2>3, SubscribeLeaksNothing DEF LeakInv, Types
<1>4. ASSUME NEW c, NEW room, UNCHANGED ids,
             (\E K \in SUBSET Deletions : RemoveClient(c, room, K)) \/ RemoveClientStops(c, room)
      PROVE  LeakInv'
  <2>1. PICK D \in SUBSET Items(c, room) :
            /\ bridges' \subseteq After(D)
            /\ subs \ SubsOf(D) \subseteq subs' /\ subs' \subseteq subs
    BY <1>4, RemovalShape
  <2>2. BridgeNeverLeaks'
    BY <2>1, RemovalLeaksNothing
  <2>3. IsFiniteSet(subs')
    BY <1>2, <2>1, FS_Subset
  <2>4. SubsDrawn'
    BY <1>4, <2>1 DEF SubsDrawn, LeakInv
  <2> QED
    BY <1>1, <2>2, <2>3, <2>4 DEF LeakInv, Types
<1>5. CASE Neither
  <2>1. BridgeNeverLeaks'
    BY <1>5 DEF Neither, LeakInv, BridgeNeverLeaks, Served
  <2> QED
    BY <1>1, <1>2, <1>5, <2>1 DEF Neither, LeakInv, Types, SubsDrawn
<1> QED
  BY <1>2, <1>3, <1>4, <1>5, StepKinds DEF Removes

\* Nothing is subscribed to begin with.
LEMMA LeakInit == RegistryInit => LeakInv
<1> SUFFICES ASSUME RegistryInit PROVE LeakInv
  OBVIOUS
<1>1. RegistryTypeOK
  BY RoomAssumption DEF RegistryInit, RegistryTypeOK, NoSession, Session, Rooms, AgentOrNone
<1>2. IsFiniteSet(subs)
  BY FS_EmptySet DEF RegistryInit
<1> QED
  BY <1>1, <1>2 DEF RegistryInit, LeakInv, Types, SubsDrawn, BridgeNeverLeaks

\* And so they hold for good.
LEMMA LeakInvariant == RegistrySpec => []LeakInv
BY LeakInit, LeakStep, PTL DEF RegistrySpec

\* Every variable of the registry keeps its type: in particular the counts of the
\* bridge streams never fall below 0, whatever is removed, by whom and how often.
THEOREM RegistryTypeCorrect == RegistrySpec => []RegistryTypeOK
<1>1. LeakInv => RegistryTypeOK
  BY DEF LeakInv, Types
<1> QED
  BY <1>1, LeakInvariant, PTL

\* Whatever commands fail and whichever controllers die in the middle of
\* handleSubscribe and removeClient, a bridge stream is never counted more often
\* than it has subscribers, and no receiving erizo has two.
THEOREM NoBridgeLeaks == RegistrySpec => []BridgeNeverLeaks
<1>1. LeakInv => BridgeNeverLeaks
  BY DEF LeakInv
<1> QED
  BY <1>1, LeakInvariant, PTL

--------------------------------------------------------------------------------
(* No subscriber or bridge stream of a stream that is gone.                *)

\* Until a command fails, every subscriber and every bridge stream belongs to a
\* publisher of its room.
StreamsShown ==
    faults = 0 =>
        /\ \A s \in subs : \E p \in pubs : p.id = s.to /\ p.room = s.room
        /\ \A b \in bridges :
               \E p \in pubs : p.id = b.src /\ p.room = b.room /\ p.erizo = b.from

\* A bridge stream of one of the client's own streams serves only subscriptions
\* to that stream, all of which removeClient goes through: it is torn down.
LEMMA OwnBridgesTorn ==
    ASSUME LeakInv, NEW c, NEW room, NEW b \in bridges,
           NEW p \in Mine(c, room), b.room = p.room, b.src = p.id
    PROVE  b \in Torn(Items(c, room))
<1> DEFINE D == Items(c, room)
<1>1. IsFiniteSet(subs) /\ b.count \in Nat
  BY DEF LeakInv, Types, RegistryTypeOK, BridgeStream
<1>2. Served(b) \cap SubsOf(D) = Served(b)
  <2> SUFFICES ASSUME NEW s \in Served(b) PROVE s \in SubsOf(D)
    OBVIOUS
  <2>1. s \in subs /\ s.room = room /\ s.to = p.id
    BY DEF Served, Match, Mine, In
  <2>2. <<s, "theirs">> \in D
    BY <2>1 DEF Items, In
  <2> QED
    BY <2>2 DEF SubsOf
<1>3. Cardinality(Served(b)) <= Hits(b, D) /\ Hits(b, D) \in Nat
  BY <1>1, <1>2, HitsCover
<1>4. b.count \in 1..Cardinality(Served(b)) /\ Cardinality(Served(b)) \in Nat
  BY <1>1, ServedFinite DEF LeakInv, BridgeNeverLeaks
<1> HIDE DEF D
<1> QED
  BY <1>1, <1>3, <1>4 DEF Torn, D

\* As long as nothing has failed, every subscriber and every bridge stream keeps
\* its publisher: also when removeClient dies among its final deletions, as it
\* deletes the subscribers first.
LEMMA ShownStep ==
    ASSUME LeakInv, StreamsShown, [RegistryNext]_regVars
    PROVE  StreamsShown'
<1>1. /\ RegistryTypeOK /\ Types
      /\ pubs \subseteq Publisher /\ faults \in Nat
      /\ \A b \in bridges : b.count > 0
  <2>1. Types /\ RegistryTypeOK /\ IsFiniteSet(subs)
    BY DEF LeakInv, Types
  <2>2. \A b \in bridges : /\ b.count \in 1..Cardinality(Served(b))
                           /\ Cardinality(Served(b)) \in Nat
    BY <2>1, ServedFinite DEF LeakInv, BridgeNeverLeaks
  <2> QED
    BY <2>1, <2>2, RoomAssumption DEF RegistryTypeOK
<1>2. SUFFICES ASSUME faults' = 0, faults = 0
               PROVE  /\ \A s \in subs' : \E p \in pubs' : p.id = s.to /\ p.room = s.room
                      /\ \A b \in bridges' :
                             \E p \in pubs' : /\ p.id = b.src /\ p.room = b.room
                                              /\ p.erizo = b.from
  BY <1>1, StepKinds DEF StreamsShown
<1>3. /\ \A s \in subs : \E p \in pubs : p.id = s.to /\ p.room = s.room
      /\ \A b \in bridges :
             \E p \in pubs : p.id = b.src /\ p.room = b.room /\ p.erizo = b.from
  BY <1>2 DEF StreamsShown
<1>4. ASSUME NEW c \in Client, NEW p \in Subscribable(c), Subscribes(c, p)
      PROVE  StreamsShown'
  <2> DEFINE s == NewSubscriber(c, p)
  <2>1. p \in pubs /\ s.to = p.id /\ s.room = p.room
    BY <1>1, <1>4, NewSubscriberType DEF LeakInv, Subscribes
  <2>2. /\ NewBridge(s, p).src = p.id /\ NewBridge(s, p).room = p.room
        /\ NewBridge(s, p).from = p.erizo
    BY <2>1 DEF NewBridge
  <2>3. subs' = subs \cup {s} /\ pubs' = pubs
    BY <1>4 DEF Subscribes
  <2>4. bridges' = bridges \/ bridges' = Counted(s, p)
    BY <1>4 DEF Subscribes
  <2> HIDE DEF s
  <2>5. ASSUME NEW a \in bridges'
        PROVE  \E q \in pubs : q.id = a.src /\ q.room = a.room /\ q.erizo = a.from
    <3>1. CASE a \in bridges
      BY <1>3, <3>1
    <3>2. CASE a \in Counted(s, p)
      <4>1. \/ \E b \in bridges : a.room = b.room /\ a.src = b.src /\ a.from = b.from
            \/ a = NewBridge(s, p)
        BY <1>1, <3>2, CountedStreams
      <4> QED
        BY <1>3, <2>1, <2>2, <4>1
    <3> QED
      BY <2>4, <3>1, <3>2
  <2> QED
    BY <1>3, <2>1, <2>3, <2>5 DEF StreamsShown
<1>5. ASSUME NEW c, NEW room, NEW D \in SUBSET Items(c, room), bridges' \subseteq After(D),
             subs' \subseteq subs, pubs' = pubs
      PROVE  StreamsShown'
  <2>1. \A a \in bridges' : \E b \in bridges : a.room = b.room /\ a.src = b.src /\ a.from = b.from
    BY <1>1, <1>5, AfterCounts
  <2> QED
    BY <1>3, <1>5, <2>1 DEF StreamsShown
<1>6. ASSUME NEW c, NEW room, NEW K \in SUBSET Deletions, Removes(c, room, K)
      PROVE  StreamsShown'
  <2> DEFINE D == Items(c, room)
  <2>1. bridges' \subseteq After(D) /\ subs' \subseteq subs
    BY <1>6 DEF Removes, RemoveClient, FirstOf
  <2>2. K = {} \/ K \in Suffixes
    BY <1>2, <1>6 DEF Removes
  <2>3. CASE "pubs" \in K
    <3>1. pubs' = pubs
      BY <1>6, <2>3 DEF Removes, RemoveClient
    <3> QED
      BY <1>5, <2>1, <3>1
  <2>4. CASE "pubs" \notin K
    <3>1. "subs" \notin K
      BY <2>2, <2>4 DEF Suffixes, Deletions
    <3>2. subs' = subs \ SubsOf(D) /\ pubs' = pubs \ Mine(c, room)
      BY <1>6, <2>4, <3>1 DEF Removes, RemoveClient
    <3>3. ASSUME NEW s \in subs' PROVE \E p \in pubs' : p.id = s.to /\ p.room = s.room
      <4>1. PICK p \in pubs : p.id = s.to /\ p.room = s.room
        BY <1>3, <3>2
      <4>2. p \notin Mine(c, room)
        <5> SUFFICES ASSUME p \in Mine(c, room) PROVE FALSE
          OBVIOUS
        <5>1. s \in In(room, subs) /\ s.to = p.id
          BY <3>2, <4>1 DEF Mine, In
        <5>2. <<s, "theirs">> \in D
          BY <5>1 DEF Items
        <5>3. s \in SubsOf(D)
          BY <5>2 DEF SubsOf
        <5> QED
          BY <3>2, <5>3
      <4> QED
        BY <3>2, <4>1, <4>2
    <3>4. ASSUME NEW a \in bridges'
          PROVE  \E p \in pubs' : p.id = a.src /\ p.room = a.room /\ p.erizo = a.from
      <4>1. PICK b \in bridges \ Torn(D) : a.room = b.room /\ a.src = b.src /\ a.from = b.from
        BY <1>1, <2>1, AfterCounts
      <4>2. PICK p \in pubs : p.id = b.src /\ p.room = b.room /\ p.erizo = b.from
        BY <1>3, <4>1
      <4>3. p \notin Mine(c, room)
        BY <4>1, <4>2, OwnBridgesTorn
      <4> QED
        BY <3>2, <4>1, <4>2, <4>3
    <3> QED
      BY <3>3, <3>4 DEF StreamsShown
  <2> QED
    BY <2>3, <2>4
<1>7. ASSUME NEW c, NEW room, RemoveClientStops(c, room) PROVE StreamsShown'
  <2>1. PICK D \in SUBSET Items(c, room) : bridges' \subseteq After(D)
    BY <1>7 DEF RemoveClientStops, FirstOf
  <2> QED
    BY <1>5, <1>7, <2>1 DEF RemoveClientStops
<1>8. ASSUME Neither PROVE StreamsShown'
  <2>1. CASE pubs \subseteq pubs'
    BY <1>3, <1>8, <2>1 DEF Neither, StreamsShown
  <2>2. ASSUME NEW p \in pubs, pubs' = (pubs \ {p}) \cup {[p EXCEPT !.ssrc = TRUE]}
        PROVE  StreamsShown'
    <3> DEFINE q == [p EXCEPT !.ssrc = TRUE]
    <3>1. q.id = p.id /\ q.room = p.room /\ q.erizo = p.erizo
      BY <1>1 DEF Publisher
    <3> HIDE DEF q
    <3>2. \A r \in pubs : \E t \in pubs' : t.id = r.id /\ t.room = r.room /\ t.erizo = r.erizo
      BY <2>2, <3>1 DEF q
    <3> QED
      BY <1>3, <1>8, <3>2 DEF Neither, StreamsShown
  <2> QED
    BY <1>8, <2>1, <2>2 DEF Neither
<1>9. StreamsShown'
  <2>1. \/ \E c \in Client : \E p \in Subscribable(c) : Subscribes(c, p)
        \/ \E c \in Client, room \in Rooms : \E K \in SUBSET Deletions : Removes(c, room, K)
        \/ \E c \in Client, room \in Rooms : RemoveClientStops(c, room)
        \/ Neither
    BY <1>1, StepKinds
  <2> QED
    BY <1>4, <1>6, <1>7, <1>8, <2>1
<1> QED
  BY <1>2, <1>9 DEF StreamsShown

\* And so every stream keeps its publisher.
LEMMA ShownInvariant == RegistrySpec => []StreamsShown
<1>1. RegistryInit => StreamsShown
  BY DEF RegistryInit, StreamsShown
<1> QED
  BY <1>1, ShownStep, LeakInvariant, PTL DEF RegistrySpec

\* As long as no Redis command has failed, no subscriber and no bridge stream
\* refers to a publisher that removeClient has deleted, however many controllers
\* have died and wherever in removeClient.
THEOREM NothingDangles == RegistrySpec => []NoDanglingStream
<1>1. StreamsShown => NoDanglingStream
  BY DEF StreamsShown, NoDanglingStream
<1> QED
  BY <1>1, ShownInvariant, PTL

--------------------------------------------------------------------------------
(* Counts are exact as long as nothing fails.                              *)

\* Unless it is the bridge stream of one of the client's own streams, b is given
\* one call to removeBridgeStreamSub for each subscriber it loses: the items
\* that name it are all "own".
LEMMA HitsExact ==
    ASSUME LeakInv, NEW c, NEW room, NEW b,
           \A p \in Mine(c, room) : ~(b.room = p.room /\ b.src = p.id)
    PROVE  LET D == Items(c, room)
           IN  Hits(b, D) = Cardinality(Served(b) \cap SubsOf(D))
<1> DEFINE D == Items(c, room)
           H == HitSet(b, D)
           S == Served(b) \cap SubsOf(D)
           f == [i \in H |-> i[1]]
<1>1. IsFiniteSet(subs)
  BY DEF LeakInv, Types
<1>2. D \subseteq subs \X {"theirs", "own"} /\ IsFiniteSet(H)
  BY <1>1, ItemsFinite, HitsCover
<1>3. \A i \in H : i[2] = "own"
  <2> SUFFICES ASSUME NEW i \in H, i[2] # "own" PROVE FALSE
    OBVIOUS
  <2>1. i \in D /\ Match(b, i[1])
    BY DEF HitSet
  <2>2. PICK p \in Mine(c, room) : i[1].to = p.id /\ i[1].room = room
    BY <2>1 DEF Items, In
  <2>3. p.room = room
    BY DEF Mine, In
  <2> QED
    BY <2>1, <2>2, <2>3 DEF Match
<1>4. f \in Surjection(H, S)
  <2>1. \A i \in H : i[1] \in S
    BY <1>2 DEF HitSet, Served, SubsOf
  <2>2. \A s \in S : \E i \in H : i[1] = s
    BY <1>2 DEF HitSet, Served, SubsOf
  <2> QED
    BY <2>1, <2>2 DEF Surjection
<1>5. f \in Injection(H, S)
  <2>1. \A i, j \in H : i[1] = j[1] => i = j
    <3>1. \A i \in H : i = <<i[1], i[2]>>
      BY <1>2 DEF HitSet
    <3> HIDE DEF H
    <3> QED
      BY <1>3, <3>1
  <2>2. f \in [H -> S]
    BY <1>4 DEF Surjection
  <2> HIDE DEF H, S
  <2> QED
    BY <2>1, <2>2 DEF Injection, IsInjective
<1>6. Hits(b, D) = Cardinality(H)
  BY DEF Hits, HitSet
<1> HIDE DEF H, S, f
<1>7. Cardinality(S) = Cardinality(H)
  BY <1>2, <1>4, <1>5, FS_Surjection
<1> QED
  BY <1>6, <1>7 DEF S

\* A removeClient that nothing interrupts takes back exactly what the removed
\* subscribers had added up, and removeBridgeStreamPub finds nothing left to do.
LEMMA RemovalExact ==
    ASSUME LeakInv, BridgeCountExact, NEW c, NEW room, RemoveClient(c, room, {})
    PROVE  BridgeCountExact'
<1> DEFINE D == Items(c, room)
           N(b) == {x \in subs' : x.bridge /\ Match(b, x)}
           Own(b) == \E p \in Mine(c, room) : b.room = p.room /\ b.src = p.id
<1>1. /\ Types /\ IsFiniteSet(subs) /\ subs' = subs \ SubsOf(D)
      /\ \A b \in bridges : /\ b.count > 0 /\ b.count \in Nat
                            /\ b.count = Cardinality(Served(b))
  BY DEF LeakInv, Types, RegistryTypeOK, BridgeStream, BridgeCountExact, RemoveClient
<1>2. \A b \in bridges : Own(b) => b \in Torn(D)
  BY OwnBridgesTorn
<1>3. ASSUME NEW b \in bridges, ~Own(b)
      PROVE  /\ Hits(b, D) = Cardinality(Served(b) \cap SubsOf(D)) /\ Hits(b, D) \in Nat
             /\ Cardinality(N(b)) = b.count - Hits(b, D)
             /\ Cardinality(N(b)) \in Nat /\ IsFiniteSet(N(b))
  <2>1. Hits(b, D) = Cardinality(Served(b) \cap SubsOf(D))
    BY <1>3, HitsExact
  <2>2. Hits(b, D) \in Nat
    BY <1>1, HitsCover
  <2>3. N(b) = Served(b) \ SubsOf(D)
    BY <1>1 DEF Served
  <2>4. IsFiniteSet(Served(b))
    BY <1>1, ServedFinite
  <2> HIDE DEF N, D
  <2>5. /\ Cardinality(N(b)) = Cardinality(Served(b)) - Cardinality(Served(b) \cap SubsOf(D))
        /\ IsFiniteSet(N(b)) /\ Cardinality(N(b)) \in Nat
    BY <2>3, <2>4, FS_Difference, FS_CardinalityType
  <2> QED
    BY <1>1, <2>1, <2>2, <2>5
<1>4. bridges' = After(D)
  <2>1. PICK F \in FirstOf(Mine(c, room), After(D)) : bridges' = After(D) \ F
    BY DEF RemoveClient
  <2>2. F = {}
    <3> SUFFICES ASSUME NEW a \in F PROVE FALSE
      OBVIOUS
    <3>1. a \in After(D) /\ Own(a)
      BY DEF FirstOf
    <3>2. PICK b \in bridges \ Torn(D) : a.room = b.room /\ a.src = b.src
      BY <1>1, <3>1, AfterCounts
    <3>3. Own(b)
      BY <3>1, <3>2
    <3> QED
      BY <1>2, <3>2, <3>3
  <2> QED
    BY <2>1, <2>2
<1>5. ASSUME NEW a \in bridges' PROVE a.count = Cardinality(N(a)) /\ a.count > 0
  <2>1. PICK b \in bridges \ Torn(D) :
            /\ a.count = b.count - Hits(b, D) /\ a.count > 0
            /\ a.room = b.room /\ a.src = b.src /\ a.to = b.to
    BY <1>1, <1>4, AfterCounts
  <2>2. N(a) = N(b)
    BY <2>1 DEF Match
  <2>3. ~Own(b)
    BY <1>2
  <2> HIDE DEF N, D, Own
  <2> QED
    BY <1>3, <2>1, <2>2, <2>3
<1>6. ASSUME NEW s \in subs', s.bridge PROVE \E a \in bridges' : Match(a, s)
  <2>1. PICK b \in bridges : Match(b, s)
    BY <1>1, <1>6 DEF BridgeCountExact
  <2>2. s \in subs /\ s \notin SubsOf(D)
    BY <1>1
  <2>3. ~Own(b)
    <3> SUFFICES ASSUME NEW p \in Mine(c, room), b.room = p.room, b.src = p.id PROVE FALSE
      OBVIOUS
    <3>1. s.room = room /\ s.to = p.id
      BY <2>1 DEF Match, Mine, In
    <3>2. <<s, "theirs">> \in D
      BY <2>2, <3>1 DEF Items, In
    <3> QED
      BY <2>2, <3>2 DEF SubsOf
  <2>4. Hits(b, D) < b.count
    <3>1. s \in N(b)
      BY <1>6, <2>1
    <3>2. Cardinality(N(b)) # 0
      <4> HIDE DEF N, D, Own
      <4> QED
        BY <1>3, <2>3, <3>1, FS_EmptySet
    <3>3. b.count \in Nat
      BY <1>1
    <3>4. /\ Cardinality(N(b)) = b.count - Hits(b, D)
          /\ Cardinality(N(b)) \in Nat /\ Hits(b, D) \in Nat
      BY <1>3, <2>3
    <3> HIDE DEF N, D
    <3> QED
      BY <3>2, <3>3, <3>4
  <2>5. b \notin Torn(D)
    <3>1. b.count \in Nat /\ Hits(b, D) \in Nat
      BY <1>1, <1>3, <2>3
    <3> QED
      BY <2>4, <3>1 DEF Torn
  <2>6. PICK a \in After(D) : a = [b EXCEPT !.count = b.count - Hits(b, D)]
    BY <2>5 DEF After
  <2>7. a.room = b.room /\ a.src = b.src /\ a.to = b.to
    <3>1. b \in BridgeStream
      BY <1>1 DEF Types, RegistryTypeOK
    <3> HIDE DEF D
    <3> QED
      BY <2>6, <3>1 DEF BridgeStream
  <2> QED
    BY <1>4, <2>1, <2>6, <2>7 DEF Match
<1> QED
  BY <1>5, <1>6 DEF BridgeCountExact, Served

\* A subscription that nothing interrupts adds one to the count of the bridge
\* stream that serves it, or adds the bridge stream.
LEMMA SubscriptionExact ==
    ASSUME LeakInv, BridgeCountExact, NEW c \in Client, NEW p \in Subscribable(c),
           Subscribes(c, p), ~Interrupted
    PROVE  BridgeCountExact'
<1> DEFINE s == NewSubscriber(c, p)
           N(b) == {x \in subs' : x.bridge /\ Match(b, x)}
<1>1. /\ s \notin subs /\ NewBridge(s, p) \in BridgeStream /\ Match(NewBridge(s, p), s)
  BY NewSubscriberType DEF LeakInv, Subscribes
<1>2. subs' = subs \cup {s} /\ bridges' = IF s.bridge THEN Counted(s, p) ELSE bridges
  BY DEF Subscribes
<1>3. /\ Types /\ IsFiniteSet(subs) /\ bridges \subseteq BridgeStream
      /\ \A b \in bridges : /\ b.count > 0 /\ b.count \in Nat
                            /\ b.count = Cardinality(Served(b))
  BY DEF LeakInv, Types, RegistryTypeOK, BridgeStream, BridgeCountExact
<1> HIDE DEF s
<1>4. \A b : Cardinality(N(b)) = IF s.bridge /\ Match(b, s) THEN Cardinality(Served(b)) + 1
                                 ELSE Cardinality(Served(b))
  BY <1>1, <1>2, <1>3, ServedGrows
<1>5. CASE ~s.bridge
  <2>1. bridges' = bridges
    BY <1>2, <1>5
  <2>2. \A b \in bridges : b.count = Cardinality(N(b)) /\ b.count > 0
    <3> HIDE DEF N
    <3> QED
      BY <1>3, <1>4, <1>5
  <2>3. \A x \in subs' : x.bridge => \E b \in bridges : Match(b, x)
    BY <1>2, <1>5 DEF BridgeCountExact
  <2> QED
    BY <2>1, <2>2, <2>3 DEF BridgeCountExact, Served
<1>6. CASE s.bridge
  <2>1. bridges' = Counted(s, p)
    BY <1>2, <1>6
  <2>2. ASSUME NEW a \in bridges' PROVE a.count = Cardinality(N(a)) /\ a.count > 0
    <3>1. ASSUME NEW b \in bridges, a.room = b.room, a.src = b.src, a.to = b.to,
                 a.count = IF Match(b, s) THEN b.count + 1 ELSE b.count
          PROVE  a.count = Cardinality(N(a)) /\ a.count > 0
      <4>1. N(a) = N(b)
        BY <3>1 DEF Match
      <4> HIDE DEF N
      <4> QED
        BY <1>3, <1>4, <1>6, <3>1, <4>1
    <3>2. ASSUME a = NewBridge(s, p), \A b \in bridges : ~Match(b, s)
          PROVE  a.count = Cardinality(N(a)) /\ a.count > 0
      <4>1. Served(a) = {}
        <5> SUFFICES ASSUME NEW x \in Served(a) PROVE FALSE
          OBVIOUS
        <5>1. PICK b \in bridges : Match(b, x)
          BY DEF Served, BridgeCountExact
        <5>2. Match(a, x) /\ Match(a, s)
          BY <1>1, <3>2 DEF Served
        <5>3. Match(b, s)
          BY <5>1, <5>2 DEF Match
        <5> QED
          BY <3>2, <5>3
      <4>2. a.count = 1 /\ Match(a, s)
        BY <1>1, <3>2 DEF NewBridge
      <4> HIDE DEF N
      <4> QED
        BY <1>4, <1>6, <4>1, <4>2, FS_EmptySet
    <3> HIDE DEF N
    <3> QED
      BY <1>3, <2>1, <3>1, <3>2, CountedStreams
  <2>3. ASSUME NEW x \in subs', x.bridge PROVE \E a \in bridges' : Match(a, x)
    <3>1. CASE \E b \in bridges : Match(b, s)
      <4>1. PICK b \in bridges : Match(b, x)
        BY <1>2, <2>3, <3>1 DEF BridgeCountExact
      <4> DEFINE a == IF Match(b, s) THEN [b EXCEPT !.count = b.count + 1] ELSE b
      <4>2. a \in bridges'
        BY <2>1, <3>1 DEF Counted
      <4>3. a.room = b.room /\ a.src = b.src /\ a.to = b.to
        BY <1>3 DEF BridgeStream
      <4> HIDE DEF a
      <4> QED
        BY <4>1, <4>2, <4>3 DEF Match
    <3>2. CASE \A b \in bridges : ~Match(b, s)
      <4>1. bridges' = bridges \cup {NewBridge(s, p)}
        BY <2>1, <3>2 DEF Counted
      <4> QED
        BY <1>1, <1>2, <2>3, <4>1 DEF BridgeCountExact
    <3> QED
      BY <3>1, <3>2
  <2> QED
    BY <2>2, <2>3 DEF BridgeCountExact, Served
<1> QED
  BY <1>5, <1>6

\* While no command has failed and no controller has died, the counts are exact.
CountInv == (faults = 0 /\ alive = EC) => BridgeCountExact

\* While nothing fails and nobody dies, each step keeps the counts exact.
LEMMA CountStep ==
    ASSUME LeakInv, CountInv, [RegistryNext]_regVars
    PROVE  CountInv'
<1>1. RegistryTypeOK /\ faults \in Nat /\ alive \subseteq EC
  BY RoomAssumption DEF LeakInv, Types, RegistryTypeOK
<1>2. SUFFICES ASSUME faults' = 0, alive' = EC PROVE BridgeCountExact'
  BY DEF CountInv
<1>3. faults = 0 /\ alive = EC
  BY <1>1, <1>2, StepKinds
<1>4. BridgeCountExact /\ ~Interrupted
  BY <1>2, <1>3 DEF CountInv, Interrupted
<1>5. ASSUME NEW c \in Client, NEW p \in Subscribable(c), Subscribes(c, p)
      PROVE  BridgeCountExact'
  BY <1>4, <1>5, SubscriptionExact
<1>6. ASSUME NEW c, NEW room, NEW K, Removes(c, room, K) PROVE BridgeCountExact'
  <2>1. RemoveClient(c, room, {})
    BY <1>2, <1>3, <1>4, <1>6 DEF Removes
  <2> QED
    BY <1>4, <2>1, RemovalExact
<1>7. ASSUME Neither PROVE BridgeCountExact'
  BY <1>4, <1>7 DEF Neither, BridgeCountExact, Served
<1>8. \/ \E c \in Client : \E p \in Subscribable(c) : Subscribes(c, p)
      \/ \E c \in Client, room \in Rooms : \E K \in SUBSET Deletions : Removes(c, room, K)
      \/ Neither
  BY <1>1, <1>4, StepKinds
<1> QED
  BY <1>5, <1>6, <1>7, <1>8

\* While no command has failed and no controller has died, a bridge stream exists
\* exactly while some subscriber on a foreign agent needs it, and subscribe_count
\* is the number of those, in any order of clients subscribing, moving to another
\* agent, leaving and being expired.
THEOREM CountsExact == RegistrySpec => []((faults = 0 /\ alive = EC) => BridgeCountExact)
<1>1. RegistryInit => CountInv
  BY DEF RegistryInit, CountInv, BridgeCountExact
<1>2. RegistrySpec => []CountInv
  BY <1>1, CountStep, LeakInvariant, PTL DEF RegistrySpec
<1>3. CountInv => ((faults = 0 /\ alive = EC) => BridgeCountExact)
  BY DEF CountInv
<1> QED
  BY <1>2, <1>3, PTL

\* Where commands do not fail and controllers do not die, the counts are exact.
COROLLARY CountsExactUnlessFailing ==
    ASSUME MaxFaults = 0, MaxCrashes = 0
    PROVE  RegistrySpec => []BridgeCountExact
<1> DEFINE Sound == faults = 0 /\ alive = EC
<1>1. RegistryInit => Sound
  BY DEF RegistryInit
<1>2. LeakInv /\ Sound /\ [RegistryNext]_regVars => Sound'
  <2> SUFFICES ASSUME LeakInv, Sound, [RegistryNext]_regVars PROVE Sound'
    OBVIOUS
  <2>1. RegistryTypeOK /\ RegistryTypeOK'
    BY RegistryTypeStep DEF LeakInv, Types
  <2>2. faults' = 0
    BY <2>1 DEF RegistryTypeOK
  <2>3. ASSUME NEW e \in EC PROVE ~Crash(e)
    <3>1. Cardinality(EC \ alive) = 0
      BY FS_EmptySet
    <3> QED
      BY <3>1 DEF Crash
  <2>4. alive' = alive
    <3> USE DEF cluster
    <3> QED
      BY <2>3 DEF RegistryNext, regVars, Connect, Token, addClient, addClientToEC,
         getAllPublisher, TokenFails, TokenAborts, handlePublish, handleSubscribe,
         SubscribeFails, Disconnect, DisconnectGivesUp, DisconnectFails, publisherAnswer,
         Beat, Expire, removeExpired, removeExpiredGivesUp, removeExpiredFails
  <2> QED
    BY <2>2, <2>4
<1>3. RegistrySpec => []Sound
  BY <1>1, <1>2, LeakInvariant, PTL DEF RegistrySpec
<1> QED
  BY <1>3, CountsExact, PTL
================================================================================
