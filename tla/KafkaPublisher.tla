--------------------------- MODULE KafkaPublisher ---------------------------
(***************************************************************************)
(* The connection of KafkaPublisher: publish, which connects on demand,    *)
(* and disconnect, over the fields producer and connected.                 *)
(*                                                                         *)
(* The relay's polls and SagaExecutor call publish at the same time, so    *)
(* several calls may find connected false.  A call is at the await it is   *)
(* suspended at.  kafkajs is external: a producer refuses to send unless   *)
(* its own connection is up.                                               *)
(***************************************************************************)
EXTENDS Naturals, FiniteSets

CONSTANTS
    Publishers,     \* the calls of publish that may run at the same time
    Closers,        \* the calls of disconnect
    MaxProducers,   \* bounds on what is created, on failures of the broker
    MaxFails,       \* and on disconnections
    MaxCloses

ASSUME PublisherAssumption ==
    /\ IsFiniteSet(Publishers)
    /\ Publishers \cap Closers = {}
    /\ {MaxProducers, MaxFails, MaxCloses} \subseteq Nat

Calls == Publishers \cup Closers
Producers == 1..MaxProducers
None == 0           \* undefined

VARIABLES
    producer,       \* this.producer
    connected,      \* this.connected
    link,           \* the connection of every producer that was created
    pc,
    mine,           \* call -> the producer whose connect or disconnect it awaits
    told,           \* publisher -> what its last call gave
    spoilt,         \* history: did calls meet in one of the harmful ways?
    fails, closes

vars == <<producer, connected, link, pc, mine, told, spoilt, fails, closes>>

Init ==
    /\ producer = None
    /\ connected = FALSE
    /\ link = [n \in Producers |-> "none"]
    /\ pc = [c \in Calls |-> "idle"]
    /\ mine = [c \in Calls |-> None]
    /\ told = [c \in Publishers |-> "nothing"]
    /\ spoilt = FALSE
    /\ fails = 0
    /\ closes = 0

Await(c, site, n) ==
    /\ pc' = [pc EXCEPT ![c] = site]
    /\ mine' = [mine EXCEPT ![c] = n]

At(S, site) == {c \in S : pc[c] = site}

Tell(c, answer) == told' = [told EXCEPT ![c] = answer]

Fail ==
    /\ fails < MaxFails
    /\ fails' = fails + 1

-----------------------------------------------------------------------------
(* publish, with the connect it begins with. *)

\* A publish that begins, or goes on to a new producer, while a disconnect is
\* under way is overtaken by it.
MeetsCloser == At(Closers, "disconnecting") # {}

FindsConnected(c) ==
    /\ pc[c] = "idle"
    /\ connected
    /\ Await(c, "ready", None)
    /\ spoilt' = (spoilt \/ MeetsCloser)
    /\ UNCHANGED <<producer, connected, link, told, fails, closes>>

\* Wrong on purpose: a producer is made although there is a connection.
CreateProducerAlways(c) ==
    /\ pc[c] = "idle"
    /\ \E n \in Producers :
           /\ {m \in Producers : link[m] # "none"} = 1..(n - 1)
           /\ producer' = n
           /\ link' = [link EXCEPT ![n] = "connecting"]
           /\ Await(c, "connecting", n)
    /\ spoilt' = (spoilt \/ MeetsCloser)
    /\ UNCHANGED <<connected, told, fails, closes>>

CreateProducer(c) ==
    /\ pc[c] = "idle"
    /\ ~connected
    /\ \E n \in Producers :
           /\ {m \in Producers : link[m] # "none"} = 1..(n - 1)
           /\ producer' = n
           /\ link' = [link EXCEPT ![n] = "connecting"]
           /\ Await(c, "connecting", n)
    /\ spoilt' = (spoilt \/ MeetsCloser)
    /\ UNCHANGED <<connected, told, fails, closes>>

\* connect sets connected whatever this.producer is by now.  A producer that
\* was told to disconnect while it was connecting may end either way.
ConnectSucceeds(c) ==
    /\ pc[c] = "connecting"
    /\ \E state \in {"up", link[mine[c]]} \ {"connecting"} :
           link' = [link EXCEPT ![mine[c]] = state]
    /\ connected' = TRUE
    /\ Await(c, "ready", None)
    /\ UNCHANGED <<producer, told, spoilt, fails, closes>>

\* Wrong on purpose: the flag is set in a finally block.
ConnectFailsConnected(c) ==
    /\ pc[c] = "connecting"
    /\ Fail
    /\ link' = [link EXCEPT ![mine[c]] = "down"]
    /\ spoilt' = (spoilt \/ (mine[c] = producer
                              /\ (connected \/ At(Publishers \ {c}, "connecting") # {})))
    /\ connected' = TRUE
    /\ Await(c, "idle", None)
    /\ Tell(c, "error")
    /\ UNCHANGED <<producer, closes>>

\* The broker is not there: publish throws, this.producer stays.
ConnectFails(c) ==
    /\ pc[c] = "connecting"
    /\ Fail
    /\ link' = [link EXCEPT ![mine[c]] = "down"]
    /\ spoilt' = (spoilt \/ (mine[c] = producer
                              /\ (connected \/ At(Publishers \ {c}, "connecting") # {})))
    /\ Await(c, "idle", None)
    /\ Tell(c, "error")
    /\ UNCHANGED <<producer, connected, closes>>

Usable == producer # None /\ link[producer] = "up"

\* this.producer!.send: on the producer that is there now, which need not be
\* the one this call connected.  Without one it is a TypeError.
Send(c) ==
    /\ pc[c] = "ready"
    /\ Tell(c, IF Usable THEN "ok" ELSE "error")
    /\ Await(c, "idle", None)
    /\ UNCHANGED <<producer, connected, link, spoilt, fails, closes>>

SendFails(c) ==
    /\ pc[c] = "ready"
    /\ Fail
    /\ Tell(c, "error")
    /\ Await(c, "idle", None)
    /\ UNCHANGED <<producer, connected, link, spoilt, closes>>

Publish(c) ==
    \/ FindsConnected(c) \/ CreateProducer(c)
    \/ ConnectSucceeds(c) \/ ConnectFails(c)
    \/ Send(c) \/ SendFails(c)

-----------------------------------------------------------------------------
(* disconnect. *)

\* kafkajs refuses messages from here on.
BeginDisconnect(d) ==
    /\ pc[d] = "idle"
    /\ producer # None
    /\ closes < MaxCloses
    /\ closes' = closes + 1
    /\ link' = [link EXCEPT ![producer] = "down"]
    /\ spoilt' = (spoilt \/ \E c \in Calls : pc[c] # "idle")
    /\ Await(d, "disconnecting", producer)
    /\ UNCHANGED <<producer, connected, told, fails>>

\* Wrong on purpose: the flag is left as it is.
DisconnectedOnly(d) ==
    /\ pc[d] = "disconnecting"
    /\ producer' = None
    /\ Await(d, "idle", None)
    /\ UNCHANGED <<connected, link, told, spoilt, fails, closes>>

\* Both fields are reset, whatever they became in the meantime.
Disconnected(d) ==
    /\ pc[d] = "disconnecting"
    /\ producer' = None
    /\ connected' = FALSE
    /\ Await(d, "idle", None)
    /\ UNCHANGED <<link, told, spoilt, fails, closes>>

\* disconnect throws: both fields stay.
DisconnectFails(d) ==
    /\ pc[d] = "disconnecting"
    /\ Fail
    /\ spoilt' = TRUE
    /\ Await(d, "idle", None)
    /\ UNCHANGED <<producer, connected, link, told, closes>>

Disconnect(d) == BeginDisconnect(d) \/ Disconnected(d) \/ DisconnectFails(d)

Next ==
    \/ \E c \in Publishers : Publish(c)
    \/ \E d \in Closers : Disconnect(d)

Spec == Init /\ [][Next]_vars

\* The relay publishes again and again, and the calls of kafkajs settle.
FairSpec ==
    /\ Spec
    /\ \A c \in Publishers : WF_vars(Publish(c))
    /\ \A d \in Closers : WF_vars(Disconnected(d) \/ DisconnectFails(d))

-----------------------------------------------------------------------------
(* Correctness. *)

\* The fields, the producers and the calls have the values the code gives
\* them; a call that awaits connect or disconnect has a producer to await it of,
\* never undefined, and no other call has one.
TypeOK ==
    /\ producer \in Producers \cup {None}
    /\ connected \in BOOLEAN
    /\ link \in [Producers -> {"none", "connecting", "up", "down"}]
    /\ pc \in [Calls -> {"idle", "connecting", "ready", "disconnecting"}]
    /\ mine \in [Calls -> Producers \cup {None}]
    /\ told \in [Publishers -> {"nothing", "ok", "error"}]
    /\ spoilt \in BOOLEAN
    /\ {fails, closes} \subseteq Nat
    /\ \A c \in Calls : mine[c] = None <=> pc[c] \in {"idle", "ready"}

\* First publishes that race leave producers behind, but the flag and the
\* producer agree once they are over: it takes a disconnect in the middle of
\* another call, one that fails, or the failure of the last of several racing
\* connects to leave connected true over a producer that cannot send.
RacesHeal ==
    connected /\ ~spoilt /\ (\A c \in Calls : pc[c] \in {"idle", "ready"}) => Usable

\* disconnect closes one producer, the last; the others of a race stay open
\* for good.  Still no publisher has more than one for each time the
\* connection was closed.
OpenProducersBounded ==
    Cardinality({n \in Producers : link[n] \in {"connecting", "up"}})
        <= Cardinality(Publishers) * (closes + 1)

\* Unless calls met in one of those ways, publishing recovers from every
\* failure of the broker and from every disconnect.
PublishingRecovers ==
    []~spoilt => \A c \in Publishers : <>[](told[c] = "ok")
=============================================================================
