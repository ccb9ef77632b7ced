--------------------------------- MODULE Room ----------------------------------
(***************************************************************************)
(* The registry together with what the controllers' handlers send: the     *)
(* commands to the erizo media processes, through the AMQPRPC send queue   *)
(* of each controller, and the events to the clients.  The erizos' answers *)
(* become tasks that any worker of the controller may run in any order.    *)
(* Controllers stay up and Redis answers here, though lock() may give up:  *)
(* what a failure leaves behind is the subject of module Registry.         *)
(***************************************************************************)
EXTENDS Registry

VARIABLES
    outq,       \* AMQPRPC send queue of each controller: one batch per handler
    media,      \* what the erizos run
    tasks,      \* signaling tasks in a worker or on their way to one, and the
                \* ready ones for which lock() gave up
    mail,       \* onAddStream and onRemoveStream events on their way to clients
    shown       \* the streams each client has on its list

async == <<outq, media, tasks, mail, shown>>
vars == <<regVars, async>>

\* What an erizo runs: kind, erizo, owner and stream.  A virtual publisher is
\* known by its source stream alone.
MPub(p) == <<"pub", p.erizo, p.client, p.id>>
MSub(s) == <<"sub", s.erizo, s.client, s.to>>
VPub(b) == <<"vpub", b.to, None, b.src>>
VSub(b) == <<"vsub", b.from, b.id, b.src>>

TypeOK ==
    /\ RegistryTypeOK
    /\ DOMAIN outq = EC
    /\ \A m \in media : m[2] \in Agent /\ m[4] \in Stream
    /\ tasks \subseteq [kind : {"answer", "ready", "notify", "dropped"},
                        stream : Stream, client : Client]
    /\ mail \subseteq {"add", "remove"} \X Client \X Stream
    /\ shown \in [Client -> SUBSET Stream]

Init ==
    /\ RegistryInit
    /\ outq = [e \in EC |-> <<>>]
    /\ media = {} /\ tasks = {} /\ mail = {}
    /\ shown = [c \in Client |-> {}]

--------------------------------------------------------------------------------
(* The handlers of the clients.                                            *)

\* rpcNotReply, for the commands of one handler of controller e.
Send(e, add, remove) ==
    outq' = IF add \cup remove = {} THEN outq
            ELSE [outq EXCEPT ![e] = Append(@, [add |-> add, remove |-> remove])]

\* addVirtualPublisher and addVirtualSubscriber, or their counterparts.
Virtual(B) == {VSub(b) : b \in B} \cup {VPub(b) : b \in B}

Join(c) ==
    /\ Connect(c) \/ Token(c) \/ addClient(c) \/ addClientToEC(c)
    /\ UNCHANGED async

\* The reply to the token lists the streams.
ListStreams(c) ==
    /\ getAllPublisher(c)
    /\ shown' = [shown EXCEPT ![c] = @ \cup {p.id : p \in In(Main, pubs)}]
    /\ UNCHANGED <<outq, media, tasks, mail>>

Publish(c) ==
    /\ handlePublish(c)
    /\ Send(Home[c], {MPub(p) : p \in pubs' \ pubs}, {})
    /\ UNCHANGED <<media, tasks, mail, shown>>

\* A bridge stream that was already there only has its count written.
Subscribe(c) ==
    /\ handleSubscribe(c)
    /\ LET fresh == {b \in bridges' : ~\E a \in bridges : a.id = b.id}
       IN  Send(Home[c], {MSub(s) : s \in subs' \ subs} \cup Virtual(fresh), {})
    /\ UNCHANGED <<media, tasks, mail, shown>>

\* MUTANT: removeVirtualPublisher and removeVirtualSubscriber are forgotten.
RemovalSendsNoVirtual(e, c, room) ==
    LET dead == SubsOf(Items(c, room))
    IN  /\ Send(e, {}, {MSub(s) : s \in dead} \cup {MPub(p) : p \in Mine(c, room)})
        /\ mail' = mail \cup {<<"remove", s.client, s.to>> : s \in dead}

\* removeSubscriber, removeVirtualSubscriber, removeVirtualPublisher,
\* removePublisher and notifyToRemoveSubscriber of removeClient.
RemovalSends(e, c, room) ==
    LET dead == SubsOf(Items(c, room))
        torn == {b \in bridges : ~\E a \in bridges' : a.id = b.id}
    IN  /\ Send(e, {}, {MSub(s) : s \in dead} \cup Virtual(torn)
                       \cup {MPub(p) : p \in Mine(c, room)})
        /\ mail' = mail \cup {<<"remove", s.client, s.to>> : s \in dead}

Leave(c) ==
    /\ Disconnect(c)
    /\ RemovalSends(Home[c], c, sess[c].room)
    /\ shown' = [shown EXCEPT ![c] = {}]
    /\ UNCHANGED <<media, tasks>>

LeaveGivesUp(c) ==
    /\ DisconnectGivesUp(c)
    /\ shown' = [shown EXCEPT ![c] = {}]
    /\ UNCHANGED <<outq, media, tasks, mail>>

--------------------------------------------------------------------------------
(* Erizos and signaling.                                                   *)

\* MUTANT: commands without an erizo are broadcast.
DeliverUnrouted(e) ==
    /\ outq[e] # <<>>
    /\ media' = (media \ Head(outq[e]).remove) \cup Head(outq[e]).add
    /\ outq' = [outq EXCEPT ![e] = Tail(@)]
    /\ UNCHANGED <<regVars, tasks, mail, shown>>

\* The send thread hands a batch to the broker, the erizos execute it, and an
\* erizo that has a new publisher will answer and report it ready (external).
\* Commands for the erizo "" reach no queue.
Deliver(e) ==
    /\ outq[e] # <<>>
    /\ LET batch == Head(outq[e])
           added == {m \in batch.add : m[2] # None}
       IN  /\ media' = (media \ batch.remove) \cup added
           /\ tasks' = tasks \cup
                  {[kind |-> k, stream |-> m[4], client |-> m[3]] :
                      k \in {"answer", "ready"},
                      m \in {x \in added : x[1] = "pub"}}
    /\ outq' = [outq EXCEPT ![e] = Tail(@)]
    /\ UNCHANGED <<regVars, mail, shown>>

Task(t, kind) == t \in tasks /\ t.kind = kind

\* publisher_answer; when lock() gives up or the publisher is gone nothing is
\* written back.
onPublisherAnswer(t) ==
    /\ Task(t, "answer")
    /\ \/ \E p \in pubs : p.id = t.stream /\ publisherAnswer(p)
       \/ UNCHANGED regVars
    /\ tasks' = tasks \ {t}
    /\ UNCHANGED <<outq, media, mail, shown>>

\* MUTANT: a `ready` that overtakes the publisher_answer is dropped.
onReadyInOrder(t) ==
    /\ Task(t, "ready")
    /\ tasks' = (tasks \ {t}) \cup
           IF \E p \in pubs : p.id = t.stream /\ p.ssrc
           THEN {[t EXCEPT !.kind = "notify"]} ELSE {}
    /\ UNCHANGED <<regVars, outq, media, mail, shown>>

\* ready takes the lock, or gives up, only to post notifyToSubscribe, which runs
\* without it: it reads the publisher, and returns if that is gone ...
onReady(t) ==
    /\ Task(t, "ready")
    /\ \E next \in {"notify", "dropped"} :
           tasks' = (tasks \ {t}) \cup
               IF \E p \in pubs : p.id = t.stream
               THEN {[t EXCEPT !.kind = next]} ELSE {}
    /\ UNCHANGED <<regVars, outq, media, mail, shown>>

\* ... then reads the clients and tells each but the publisher's own.
notifyToSubscribe(t) ==
    /\ Task(t, "notify")
    /\ mail' = mail \cup {<<"add", c, t.stream>> : c \in clients \ {t.client}}
    /\ tasks' = tasks \ {t}
    /\ UNCHANGED <<regVars, outq, media, shown>>

\* new_publisher and remove_subscriber reach the controller of the client, and
\* through sendEvent the client if it is still connected.
onStreamEvent(m) ==
    /\ mail' = mail \ {m}
    /\ shown' = IF conn[m[2]] # "up" THEN shown
                ELSE [shown EXCEPT ![m[2]] =
                        IF m[1] = "add" THEN @ \cup {m[3]} ELSE @ \ {m[3]}]
    /\ UNCHANGED <<regVars, outq, media, tasks>>

--------------------------------------------------------------------------------

Next ==
    \/ \E c \in Client :
           Join(c) \/ ListStreams(c) \/ Publish(c) \/ Subscribe(c)
           \/ Leave(c) \/ LeaveGivesUp(c)
    \/ \E e \in EC : Deliver(e)
    \/ \E t \in tasks : onPublisherAnswer(t) \/ onReady(t) \/ notifyToSubscribe(t)
    \/ \E m \in mail : onStreamEvent(m)

Spec == Init /\ [][Next]_vars

\* The send thread drains its queue, the workers run what was posted and the
\* socket.io send thread delivers what it was given.
Fairness ==
    /\ \A e \in EC : WF_vars(Deliver(e))
    /\ WF_vars(\E t \in tasks : onPublisherAnswer(t) \/ onReady(t)
                                \/ notifyToSubscribe(t))
    /\ WF_vars(\E m \in mail : onStreamEvent(m))

FairSpec == Spec /\ Fairness

--------------------------------------------------------------------------------
(* Properties.                                                             *)

Wanted ==
    {m \in {MPub(p) : p \in pubs} \cup {MSub(s) : s \in subs} \cup Virtual(bridges) :
        m[2] # None}

\* When the send queue of the one controller is empty, the erizos run exactly
\* what the registry says: the commands of handlePublish, handleSubscribe and
\* removeClient add up, over any number of clients coming and going.
MediaMirrorsRegistry ==
    (\A e \in EC : outq[e] = <<>>) => media = Wanted

Announced(p) ==
    /\ MPub(p) \in media
    /\ ~\E t \in tasks : t.stream = p.id /\ t.kind # "answer"

\* A client that has joined learns of every stream that has been announced (for
\* which no ready task is left, or was dropped as lock() gave up): from the list
\* in the reply to its token or from an onAddStream event, although neither
\* handleToken nor notifyToSubscribe holds the room's lock.
NoMissedStream ==
    \A p \in In(Main, pubs), c \in clients :
        (Announced(p) /\ Ready(c) /\ p.client # c) =>
            p.id \in shown[c] \/ <<"add", c, p.id>> \in mail

\* The erizos let go of everything of a client that has disconnected, and of the
\* virtual publishers and subscribers that only its streams needed, also while
\* others leave for whom lock() gives up.
EventuallyReleased ==
    \A c \in Client :
        conn[c] = "gone" ~>
            \A m \in media : m[3] # c /\ \E p \in pubs : p.id = m[4]

\* A stream that stays in the room is eventually on the list of every client that
\* stays, whichever of publisher_answer and ready the workers run first, unless
\* lock() gives up on ready.
EventuallyShown ==
    \A c \in Client, s \in Stream :
        (/\ c \in clients /\ Ready(c)
         /\ \E p \in In(Main, pubs) : p.id = s /\ p.erizo # None /\ p.client # c)
        ~> \/ s \in shown[c] \/ conn[c] # "up" \/ ~\E p \in pubs : p.id = s
           \/ \E t \in tasks : t.stream = s /\ t.kind = "dropped"
================================================================================
