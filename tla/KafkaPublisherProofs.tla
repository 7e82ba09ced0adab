----------------------- MODULE KafkaPublisherProofs -----------------------
(***************************************************************************)
(* Theorems about KafkaPublisher, for any number of concurrent publishes   *)
(* and disconnects and any bounds on failures and on producers.            *)
(***************************************************************************)
EXTENDS KafkaPublisher, FiniteSetTheorems, TLAPS

\* A call awaits what its kind of call awaits.
Kinds ==
    /\ \A c \in Publishers : pc[c] # "disconnecting"
    /\ \A d \in Closers : pc[d] \in {"idle", "disconnecting"}

Typed == TypeOK /\ Kinds

LEMMA InitTyped == Init => Typed
<1> SUFFICES ASSUME Init PROVE Typed
  OBVIOUS
<1>1. /\ link \in [Producers -> {"none", "connecting", "up", "down"}]
      /\ pc \in [Calls -> {"idle", "connecting", "ready", "disconnecting"}]
      /\ mine \in [Calls -> Producers \cup {None}]
      /\ told \in [Publishers -> {"nothing", "ok", "error"}]
  BY DEF Init
<1>2. \A c \in Calls : pc[c] = "idle" /\ mine[c] = None
  BY DEF Init
<1>3. Kinds
  BY <1>2 DEF Kinds, Calls
<1>4. {fails, closes} \subseteq Nat
  BY DEF Init
<1>5. producer \in Producers \cup {None} /\ connected \in BOOLEAN /\ spoilt \in BOOLEAN
  BY DEF Init
<1>6. QED
  BY <1>1, <1>2, <1>3, <1>4, <1>5 DEF Typed, TypeOK

LEMMA PublishTyped ==
    ASSUME Typed, NEW c \in Publishers, Publish(c) PROVE Typed'
<1> USE PublisherAssumption DEF Typed, TypeOK, Kinds, Calls, Producers, None, Await, Tell, Fail
<1>1. CASE FindsConnected(c)
  BY <1>1 DEF FindsConnected, MeetsCloser
<1>2. CASE CreateProducer(c)
  BY <1>2 DEF CreateProducer, MeetsCloser
<1>3. CASE ConnectSucceeds(c)
  <2>1. mine[c] \in Producers
    BY <1>3 DEF ConnectSucceeds
  <2>2. link' \in [Producers -> {"none", "connecting", "up", "down"}]
    BY <1>3, <2>1 DEF ConnectSucceeds
  <2>3. QED
    BY <1>3, <2>2 DEF ConnectSucceeds
<1>4. CASE ConnectFails(c)
  BY <1>4 DEF ConnectFails
<1>5. CASE Send(c)
  BY <1>5 DEF Send
<1>6. CASE SendFails(c)
  BY <1>6 DEF SendFails
<1>7. QED
  BY <1>1, <1>2, <1>3, <1>4, <1>5, <1>6 DEF Publish

LEMMA DisconnectTyped ==
    ASSUME Typed, NEW d \in Closers, Disconnect(d) PROVE Typed'
<1> USE PublisherAssumption DEF Typed, TypeOK, Kinds, Calls, Producers, None, Await, Fail
<1>1. CASE BeginDisconnect(d)
  BY <1>1 DEF BeginDisconnect
<1>2. CASE Disconnected(d)
  BY <1>2 DEF Disconnected
<1>3. CASE DisconnectFails(d)
  BY <1>3 DEF DisconnectFails
<1>4. QED
  BY <1>1, <1>2, <1>3 DEF Disconnect

LEMMA NextTyped == Typed /\ [Next]_vars => Typed'
<1> SUFFICES ASSUME Typed, [Next]_vars PROVE Typed'
  OBVIOUS
<1>1. CASE UNCHANGED vars
  BY <1>1 DEF vars, Typed, TypeOK, Kinds
<1>2. QED
  BY <1>1, PublishTyped, DisconnectTyped DEF Next

\* Every reachable state of the publisher is well typed, and a call has a
\* producer in hand exactly while it awaits one.
THEOREM PublisherTypeCorrect == Spec => []TypeOK
<1>1. Typed => TypeOK
  BY DEF Typed
<1>2. QED
  BY <1>1, InitTyped, NextTyped, PTL DEF Spec

-----------------------------------------------------------------------------
(* As long as calls have met in none of the harmful ways: a disconnect is  *)
(* alone, every connecting call has a producer of its own that is          *)
(* connecting, and once there is a connection or an attempt at one, the    *)
(* field holds a producer that is up or that one of the calls connects.    *)

Connecting == At(Publishers, "connecting")

CloserAlone ==
    \A d \in Closers : pc[d] = "disconnecting" =>
        \A c \in Calls \ {d} : pc[c] = "idle"

OwnProducer ==
    \A c \in Connecting :
        /\ link[mine[c]] = "connecting"
        /\ \A d \in Connecting : mine[d] = mine[c] => d = c

FieldIsServed ==
    (connected \/ Connecting # {}) /\ ~MeetsCloser =>
        /\ producer # None
        /\ link[producer] = "up" \/ \E c \in Connecting : mine[c] = producer

HealInv == Typed /\ (~spoilt => CloserAlone /\ OwnProducer /\ FieldIsServed)

LEMMA InitHeals == Init => HealInv
BY InitTyped DEF Init, HealInv, CloserAlone, OwnProducer, FieldIsServed, Connecting, At,
                 Calls

\* Once calls have met in a harmful way it stays on record.
LEMMA SpoiltStays ==
    ASSUME NEW c, spoilt, Publish(c) \/ Disconnect(c) PROVE spoilt'
<1>1. CASE FindsConnected(c)
  BY <1>1 DEF FindsConnected
<1>2. CASE CreateProducer(c)
  BY <1>2 DEF CreateProducer
<1>3. CASE ConnectSucceeds(c) \/ Send(c) \/ SendFails(c) \/ Disconnected(c)
  BY <1>3 DEF ConnectSucceeds, Send, SendFails, Disconnected
<1>4. CASE ConnectFails(c)
  BY <1>4 DEF ConnectFails
<1>5. CASE BeginDisconnect(c) \/ DisconnectFails(c)
  BY <1>5 DEF BeginDisconnect, DisconnectFails
<1>6. QED
  BY <1>1, <1>2, <1>3, <1>4, <1>5 DEF Publish, Disconnect

LEMMA PublishHeals ==
    ASSUME HealInv, NEW c \in Publishers, Publish(c) PROVE HealInv'
<1> SUFFICES ASSUME ~spoilt' PROVE (CloserAlone /\ OwnProducer /\ FieldIsServed)'
  BY PublishTyped DEF HealInv
<1>1. Typed /\ Typed'
  BY PublishTyped DEF HealInv
<1>2. ~spoilt /\ CloserAlone /\ OwnProducer /\ FieldIsServed
  BY SpoiltStays DEF HealInv
<1>3. \A d \in Closers : pc[d] = "idle"
  BY <1>1, <1>2, PublisherAssumption
  DEF Typed, Kinds, CloserAlone, Calls, MeetsCloser, At, Publish, FindsConnected,
      CreateProducer, ConnectSucceeds, ConnectFails, Send, SendFails
<1>4. /\ \A d \in Closers : pc'[d] = "idle"
      /\ CloserAlone' /\ ~MeetsCloser /\ ~MeetsCloser'
  BY <1>1, <1>3, PublisherAssumption
  DEF Typed, TypeOK, CloserAlone, Calls, MeetsCloser, At, Publish, FindsConnected,
      CreateProducer, ConnectSucceeds, ConnectFails, Send, SendFails, Await
<1> USE <1>1, <1>2, <1>4 DEF Typed, TypeOK, Calls, Connecting, At, Await, OwnProducer,
                            FieldIsServed, None
<1>5. CASE FindsConnected(c) \/ Send(c) \/ SendFails(c)
  BY <1>5 DEF FindsConnected, Send, SendFails
<1>6. CASE CreateProducer(c)
  BY <1>6 DEF CreateProducer, Producers
<1>7. CASE ConnectSucceeds(c)
  BY <1>7 DEF ConnectSucceeds
<1>8. CASE ConnectFails(c)
  <2>1. /\ mine[c] \in Producers /\ c \in Connecting
        /\ Connecting' = Connecting \ {c}
        /\ \A d \in Connecting' : mine'[d] = mine[d] /\ mine[d] # mine[c]
    BY <1>8 DEF ConnectFails
  <2>2. \A n \in Producers : n # mine[c] => link'[n] = link[n]
    BY <1>8 DEF ConnectFails
  <2>3. OwnProducer'
    BY <2>1, <2>2
  <2>4. producer' = producer /\ connected' = connected
    BY <1>8 DEF ConnectFails
  <2>5. CASE mine[c] = producer
    <3>1. ~connected /\ At(Publishers \ {c}, "connecting") = {}
      BY <1>8, <2>5 DEF ConnectFails
    <3>2. Connecting' = {}
      BY <2>1, <3>1
    <3>3. QED
      BY <2>3, <2>4, <3>1, <3>2
  <2>6. CASE mine[c] # producer
    <3>1. producer # None /\ (link[producer] = "up" \/ \E d \in Connecting : mine[d] = producer)
      BY <2>1, <2>4
    <3>2. CASE link[producer] = "up"
      BY <2>2, <2>3, <2>4, <2>6, <3>1, <3>2
    <3>3. CASE \E d \in Connecting : mine[d] = producer
      BY <2>1, <2>3, <2>4, <2>6, <3>1, <3>3
    <3>4. QED
      BY <3>1, <3>2, <3>3
  <2>7. QED
    BY <2>5, <2>6
<1>9. QED
  BY <1>5, <1>6, <1>7, <1>8 DEF Publish

LEMMA DisconnectHeals ==
    ASSUME HealInv, NEW d \in Closers, Disconnect(d) PROVE HealInv'
<1> SUFFICES ASSUME ~spoilt' PROVE (CloserAlone /\ OwnProducer /\ FieldIsServed)'
  BY DisconnectTyped DEF HealInv
<1>1. Typed /\ Typed' /\ ~spoilt /\ CloserAlone
  BY DisconnectTyped, SpoiltStays DEF HealInv
<1>2. CASE BeginDisconnect(d)
  BY <1>1, <1>2, PublisherAssumption
  DEF Typed, TypeOK, Calls, Connecting, At, Await, CloserAlone, OwnProducer, FieldIsServed,
      MeetsCloser, BeginDisconnect
<1>3. CASE Disconnected(d)
  BY <1>1, <1>3, PublisherAssumption
  DEF Typed, TypeOK, Calls, Connecting, At, Await, CloserAlone, OwnProducer, FieldIsServed,
      MeetsCloser, Disconnected
<1>4. CASE DisconnectFails(d)
  BY <1>4 DEF DisconnectFails
<1>5. QED
  BY <1>2, <1>3, <1>4 DEF Disconnect

LEMMA NextHeals == HealInv /\ [Next]_vars => HealInv'
<1> SUFFICES ASSUME HealInv, [Next]_vars PROVE HealInv'
  OBVIOUS
<1>1. CASE UNCHANGED vars
  BY <1>1 DEF vars, HealInv, Typed, TypeOK, Kinds, CloserAlone, OwnProducer, FieldIsServed,
              MeetsCloser, Connecting, At
<1>2. QED
  BY <1>1, PublishHeals, DisconnectHeals DEF Next

\* Racing publishes alone never leave connected true over a producer that
\* cannot send, however many of them there are.
THEOREM RacesDoNoHarm == Spec => []RacesHeal
<1>1. HealInv => RacesHeal
  <2> SUFFICES ASSUME HealInv, connected, ~spoilt,
                      \A c \in Calls : pc[c] \in {"idle", "ready"}
               PROVE  Usable
    BY DEF RacesHeal
  <2>1. ~MeetsCloser /\ Connecting = {}
    BY DEF MeetsCloser, Connecting, At, Calls
  <2>2. QED
    BY <2>1 DEF HealInv, FieldIsServed, Usable
<1>2. QED
  BY <1>1, InitHeals, NextHeals, PTL DEF Spec

-----------------------------------------------------------------------------
(* Producers left open.  A race begins with connected false, so that at    *)
(* most one producer for each publisher comes up before the next           *)
(* disconnect; the one that is under way has closed its producer already   *)
(* and lets the next race begin when it returns.                           *)

Up == {n \in Producers : link[n] = "up"}
Opening == {n \in Producers : link[n] = "connecting"}
Closing == At(Closers, "disconnecting")

Races(n) == Cardinality(Publishers) * n

OpeningServed == \A n \in Opening : \E c \in Connecting : mine[c] = n

UpCounted ==
    IF connected
    THEN Cardinality(Up) + Cardinality(Connecting) + Races(Cardinality(Closing))
             <= Races(closes) + Cardinality(Publishers)
    ELSE Cardinality(Up) + Races(Cardinality(Closing)) <= Races(closes)

OpenInv == Typed /\ IsFiniteSet(Closing) /\ OpeningServed /\ UpCounted

LEMMA OneMore ==
    ASSUME NEW S, NEW T, NEW x, IsFiniteSet(T), S \subseteq T \cup {x}
    PROVE  Cardinality(S) <= Cardinality(T) + 1
<1>1. Cardinality(T) \in Nat
  BY FS_CardinalityType
<1>2. IsFiniteSet(T \cup {x}) /\ Cardinality(T \cup {x}) <= Cardinality(T) + 1
  BY <1>1, FS_AddElement
<1>3. IsFiniteSet(S) /\ Cardinality(S) <= Cardinality(T \cup {x})
  BY <1>2, FS_Subset
<1> QED
  BY <1>1, <1>2, <1>3, FS_CardinalityType

LEMMA RacesAdd ==
    /\ Races(0) = 0
    /\ \A n \in Nat : Races(n) \in Nat /\ Races(n + 1) = Races(n) + Cardinality(Publishers)
BY PublisherAssumption, FS_CardinalityType DEF Races

Countable ==
    /\ IsFiniteSet(Up) /\ Cardinality(Up) \in Nat
    /\ IsFiniteSet(Opening) /\ Cardinality(Opening) \in Nat
    /\ IsFiniteSet(Connecting) /\ Cardinality(Connecting) \in Nat
    /\ Cardinality(Publishers) \in Nat /\ Cardinality(Connecting) <= Cardinality(Publishers)

LEMMA Counts == Countable
<1>1. MaxProducers \in Int
  BY PublisherAssumption
<1>2. IsFiniteSet(Producers)
  BY <1>1, FS_Interval DEF Producers
<1>3. IsFiniteSet(Up) /\ IsFiniteSet(Opening)
  BY <1>2, FS_Subset DEF Up, Opening
<1>4. IsFiniteSet(Connecting) /\ Cardinality(Connecting) <= Cardinality(Publishers)
  BY PublisherAssumption, FS_Subset DEF Connecting, At
<1> QED
  BY <1>3, <1>4, PublisherAssumption, FS_CardinalityType DEF Countable

LEMMA CountsNext == Countable'
BY Counts, PTL

\* What a publish does to the producers.
LEMMA PublishOpen ==
    ASSUME OpenInv, NEW c \in Publishers, Publish(c) PROVE OpenInv'
<1>1. Typed /\ Typed' /\ c \in Calls
  BY PublishTyped DEF OpenInv, Calls
<1>2. Closing' = Closing /\ UNCHANGED closes /\ closes \in Nat
  <2>1. /\ UNCHANGED closes /\ closes \in Nat
        /\ \A d \in Calls \ {c} : pc'[d] = pc[d]
    BY <1>1 DEF Typed, TypeOK, Publish, FindsConnected, CreateProducer, ConnectSucceeds,
       ConnectFails, Send, SendFails, Await
  <2> QED
    BY <2>1, PublisherAssumption DEF Closing, At, Calls
<1> DEFINE u  == Cardinality(Up)
           uu == Cardinality(Up')
           n  == Cardinality(Connecting)
           nn == Cardinality(Connecting')
           P  == Cardinality(Publishers)
           d  == Races(Cardinality(Closing))
           q  == Races(closes)
<1>3. /\ u \in Nat /\ n \in Nat /\ n <= P /\ P \in Nat
      /\ uu \in Nat /\ nn \in Nat
      /\ d \in Nat /\ q \in Nat
  <2>1. Cardinality(Closing) \in Nat
    BY FS_CardinalityType DEF OpenInv
  <2> QED
    BY <1>2, <2>1, Counts, CountsNext, RacesAdd DEF Countable
<1>4. IF connected THEN u + n + d <= q + P ELSE u + d <= q
  BY DEF OpenInv, UpCounted
<1>5. ASSUME OpeningServed', IF connected' THEN uu + nn + d <= q + P ELSE uu + d <= q
      PROVE  OpenInv'
  <2>1. UpCounted'
    BY <1>2, <1>5 DEF UpCounted
  <2> QED
    BY <1>1, <1>2, <1>5, <2>1 DEF OpenInv
<1>6. CASE FindsConnected(c) \/ Send(c) \/ SendFails(c)
  <2>2. /\ link' = link /\ connected' = connected
        /\ pc[c] # "connecting" /\ pc'[c] # "connecting"
        /\ \A k \in Calls \ {c} : mine'[k] = mine[k] /\ pc'[k] = pc[k]
    BY <1>1, <1>6 DEF Typed, TypeOK, FindsConnected, Send, SendFails, Await
  <2>1. Up' = Up /\ Opening' = Opening /\ Connecting' = Connecting /\ connected' = connected
    BY <2>2 DEF Up, Opening, Connecting, At, Calls
  <2>3. OpeningServed'
    <3> SUFFICES ASSUME NEW m \in Producers, link'[m] = "connecting"
                 PROVE  \E k \in Connecting' : mine'[k] = m
      BY DEF OpeningServed, Opening
    <3>1. PICK k \in Connecting : mine[k] = m
      BY <2>2 DEF OpenInv, OpeningServed, Opening
    <3>2. k \in Calls \ {c}
      BY <2>2, <3>1 DEF Connecting, At, Calls
    <3> QED
      BY <2>1, <2>2, <3>1, <3>2
  <2>4. uu = u /\ nn = n
    BY <2>1
  <2> HIDE DEF u, uu, n, nn, P, d, q
  <2>5. IF connected' THEN uu + nn + d <= q + P ELSE uu + d <= q
    BY <1>4, <2>1, <2>4
  <2> QED
    BY <1>5, <2>3, <2>5
<1>7. CASE CreateProducer(c)
  <2>1. PICK m \in Producers : /\ link[m] = "none"
                               /\ link' = [link EXCEPT ![m] = "connecting"]
                               /\ Await(c, "connecting", m)
    <3>1. PICK m \in Producers : /\ {k \in Producers : link[k] # "none"} = 1..(m - 1)
                                 /\ link' = [link EXCEPT ![m] = "connecting"]
                                 /\ Await(c, "connecting", m)
      BY <1>7 DEF CreateProducer
    <3>2. m \notin 1..(m - 1)
      BY PublisherAssumption DEF Producers
    <3> QED
      BY <3>1, <3>2
  <2>2. pc[c] = "idle" /\ ~connected /\ ~connected'
    BY <1>7 DEF CreateProducer
  <2>3. Up' = Up
    BY <1>1, <2>1 DEF Typed, TypeOK, Up
  <2>4. OpeningServed'
    <3>1. /\ pc'[c] = "connecting" /\ mine'[c] = m
          /\ \A k \in Calls \ {c} : pc'[k] = pc[k] /\ mine'[k] = mine[k]
          /\ \A l \in Producers : l # m => link'[l] = link[l]
      BY <1>1, <2>1 DEF Typed, TypeOK, Await
    <3> SUFFICES ASSUME NEW l \in Producers, link'[l] = "connecting"
                 PROVE  \E k \in Connecting' : mine'[k] = l
      BY DEF OpeningServed, Opening
    <3>2. CASE l = m
      BY <3>1, <3>2 DEF Connecting, At
    <3>3. CASE l # m
      <4>1. PICK k \in Connecting : mine[k] = l
        BY <3>1, <3>3 DEF OpenInv, OpeningServed, Opening
      <4> QED
        BY <2>2, <3>1, <4>1 DEF Connecting, At, Calls
    <3> QED
      BY <3>2, <3>3
  <2>5. u + d <= q /\ uu = u
    BY <1>4, <2>2, <2>3
  <2> HIDE DEF u, uu, n, nn, P, d, q
  <2>6. uu + d <= q
    BY <2>5
  <2> QED
    BY <1>5, <2>2, <2>4, <2>6
<1>8. CASE ConnectSucceeds(c) \/ ConnectFails(c)
  <2>1. /\ pc[c] = "connecting" /\ mine[c] \in Producers
        /\ link'[mine[c]] # "connecting"
        /\ \A m \in Producers : m # mine[c] => link'[m] = link[m]
        /\ pc'[c] # "connecting"
        /\ \A k \in Calls \ {c} : pc'[k] = pc[k] /\ mine'[k] = mine[k]
    BY <1>1, <1>8 DEF Typed, TypeOK, ConnectSucceeds, ConnectFails, Await
  <2>2. OpeningServed'
    <3> SUFFICES ASSUME NEW m \in Producers, link'[m] = "connecting"
                 PROVE  \E k \in Connecting' : mine'[k] = m
      BY DEF OpeningServed, Opening
    <3>1. m # mine[c] /\ m \in Opening
      BY <2>1 DEF Opening
    <3>2. PICK k \in Connecting : mine[k] = m
      BY <3>1 DEF OpenInv, OpeningServed
    <3> QED
      BY <2>1, <3>1, <3>2 DEF Connecting, At, Calls
  <2>3. nn + 1 <= n
    <3>1. c \in Connecting /\ Connecting' = Connecting \ {c}
      BY <2>1 DEF Connecting, At, Calls
    <3>2. nn = n - 1
      BY <3>1, Counts, FS_RemoveElement DEF Countable
    <3> QED
      BY <1>3, <3>2
  <2>4. uu <= u + 1
    <3>1. Up' \subseteq Up \cup {mine[c]}
      BY <2>1 DEF Up
    <3> QED
      BY <3>1, Counts, OneMore, Zenon DEF Countable
  <2>5. CASE connected
    <3>1. connected'
      BY <1>8, <2>5 DEF ConnectSucceeds, ConnectFails
    <3>2. u + n + d <= q + P
      BY <1>4, <2>5
    <3> HIDE DEF u, uu, n, nn, P, d, q
    <3>3. uu + nn + d <= q + P
      BY <1>3, <2>3, <2>4, <3>2
    <3> QED
      BY <1>5, <2>2, <3>1, <3>3
  <2>6. CASE ~connected /\ connected'
    <3>1. u + d <= q
      BY <1>4, <2>6
    <3> HIDE DEF u, uu, n, nn, P, d, q
    <3>2. uu + nn + d <= q + P
      BY <1>3, <2>3, <2>4, <3>1
    <3> QED
      BY <1>5, <2>2, <2>6, <3>2
  <2>7. CASE ~connected /\ ~connected'
    <3>1. ConnectFails(c)
      BY <1>8, <2>7 DEF ConnectSucceeds
    <3>2. Up' \subseteq Up
      BY <1>1, <2>1, <3>1 DEF ConnectFails, Up, Typed, TypeOK
    <3>3. uu <= u /\ u + d <= q
      BY <1>4, <2>7, <3>2, Counts, FS_Subset DEF Countable
    <3> HIDE DEF u, uu, n, nn, P, d, q
    <3>4. uu + d <= q
      BY <1>3, <3>3
    <3> QED
      BY <1>5, <2>2, <2>7, <3>4
  <2> QED
    BY <1>1, <2>5, <2>6, <2>7
<1> QED
  BY <1>6, <1>7, <1>8 DEF Publish

\* What a disconnect does to the producers: it closes one when it begins, and
\* takes the place of a race when it ends.
LEMMA DisconnectOpen ==
    ASSUME OpenInv, NEW d \in Closers, Disconnect(d) PROVE OpenInv'
<1>1. Typed /\ Typed' /\ d \in Calls
  BY DisconnectTyped DEF OpenInv, Calls
<1>2. /\ Connecting' = Connecting
      /\ \A c \in Connecting : mine'[c] = mine[c]
      /\ \A n \in Producers : link'[n] = link[n] \/ link'[n] = "down"
  BY <1>1, PublisherAssumption
  DEF Typed, TypeOK, Calls, Connecting, At, Disconnect, BeginDisconnect, Disconnected,
      DisconnectFails, Await
<1>3. OpeningServed'
  BY <1>2 DEF OpenInv, OpeningServed, Opening
<1> DEFINE u  == Cardinality(Up)
           uu == Cardinality(Up')
           n  == Cardinality(Connecting)
           P  == Cardinality(Publishers)
           k  == Cardinality(Closing)
           kk == Cardinality(Closing')
<1>4. uu <= u
  <2>1. Up' \subseteq Up
    BY <1>2 DEF Up
  <2> QED
    BY <2>1, Counts, FS_Subset DEF Countable
<1>5. /\ u \in Nat /\ uu \in Nat /\ n \in Nat /\ P \in Nat /\ k \in Nat /\ closes \in Nat
      /\ Races(k) \in Nat /\ Races(closes) \in Nat
      /\ Races(k + 1) = Races(k) + P /\ Races(closes + 1) = Races(closes) + P
  <2>1. k \in Nat /\ closes \in Nat
    BY <1>1, FS_CardinalityType DEF OpenInv, Typed, TypeOK
  <2> QED
    BY <2>1, Counts, CountsNext, RacesAdd DEF Countable
<1>6. IF connected THEN u + n + Races(k) <= Races(closes) + P ELSE u + Races(k) <= Races(closes)
  BY DEF OpenInv, UpCounted
<1>7. ASSUME IsFiniteSet(Closing'),
             IF connected' THEN uu + n + Races(kk) <= Races(closes') + P
                           ELSE uu + Races(kk) <= Races(closes')
      PROVE  OpenInv'
  <2>1. UpCounted'
    BY <1>2, <1>7 DEF UpCounted
  <2> QED
    BY <1>1, <1>3, <1>7, <2>1 DEF OpenInv
<1>8. CASE BeginDisconnect(d)
  <2>1. /\ Closing' = Closing \cup {d} /\ d \notin Closing
        /\ closes' = closes + 1 /\ connected' = connected
    BY <1>1, <1>8, PublisherAssumption
    DEF Typed, TypeOK, Calls, BeginDisconnect, Await, Closing, At
  <2>2. IsFiniteSet(Closing') /\ kk = k + 1
    BY <2>1, FS_AddElement DEF OpenInv
  <2>3. Races(kk) = Races(k) + P /\ Races(closes') = Races(closes) + P
    BY <1>5, <2>1, <2>2
  <2> HIDE DEF u, uu, n, P, k, kk
  <2>4. CASE connected
    <3>1. uu + n + Races(kk) <= Races(closes') + P
      BY <1>4, <1>5, <1>6, <2>3, <2>4
    <3> QED
      BY <1>7, <2>1, <2>2, <2>4, <3>1
  <2>5. CASE ~connected
    <3>1. uu + Races(kk) <= Races(closes')
      BY <1>4, <1>5, <1>6, <2>3, <2>5
    <3> QED
      BY <1>7, <2>1, <2>2, <2>5, <3>1
  <2> QED
    BY <2>4, <2>5
<1>9. CASE Disconnected(d) \/ DisconnectFails(d)
  <2>1. /\ Closing' = Closing \ {d} /\ d \in Closing
        /\ closes' = closes /\ (connected' = connected \/ ~connected')
    BY <1>1, <1>9, PublisherAssumption
    DEF Typed, TypeOK, Calls, Disconnected, DisconnectFails, Await, Closing, At
  <2>2. IsFiniteSet(Closing') /\ kk = k - 1
    BY <2>1, FS_RemoveElement DEF OpenInv
  <2>3. kk \in Nat /\ k = kk + 1
    BY <1>5, <2>2, FS_CardinalityType
  <2>4. Races(k) = Races(kk) + P /\ Races(kk) \in Nat
    BY <2>3, RacesAdd
  <2> HIDE DEF u, uu, n, P, k, kk
  <2>5. CASE connected'
    <3>0. connected
      BY <2>1, <2>5, Zenon
    <3>2. u + n + Races(k) <= Races(closes) + P
      BY <1>6, <3>0
    <3>1. uu + n + Races(kk) <= Races(closes') + P
      BY <1>4, <1>5, <2>1, <2>4, <3>2
    <3> QED
      BY <1>7, <2>2, <2>5, <3>1
  <2>6. CASE ~connected'
    <3>1. uu + Races(kk) <= Races(closes')
      BY <1>4, <1>5, <1>6, <2>1, <2>4, <2>6
    <3> QED
      BY <1>7, <2>2, <2>6, <3>1
  <2> QED
    BY <2>5, <2>6
<1> QED
  BY <1>8, <1>9 DEF Disconnect

LEMMA NextOpen == OpenInv /\ [Next]_vars => OpenInv'
<1> SUFFICES ASSUME OpenInv, [Next]_vars PROVE OpenInv'
  OBVIOUS
<1>1. CASE UNCHANGED vars
  BY <1>1, NextTyped DEF vars, OpenInv, OpeningServed, UpCounted, Up, Opening, Connecting, Closing,
     At
<1> QED
  BY <1>1, PublishOpen, DisconnectOpen DEF Next

LEMMA InitOpen == Init => OpenInv
<1> SUFFICES ASSUME Init PROVE OpenInv
  OBVIOUS
<1>1. Up = {} /\ Opening = {} /\ Closing = {} /\ ~connected /\ closes = 0
  BY DEF Init, Up, Opening, Closing, At, Calls
<1>2. UpCounted
  BY <1>1, FS_EmptySet, RacesAdd DEF UpCounted
<1> QED
  BY <1>1, <1>2, InitTyped, FS_EmptySet DEF OpenInv, OpeningServed

\* However publishes and disconnects meet, a publisher leaves no more than
\* one producer open for each time the connection was closed, and one more.
THEOREM FewProducersOpen == Spec => []OpenProducersBounded
<1>1. OpenInv => OpenProducersBounded
  <2> SUFFICES ASSUME OpenInv PROVE OpenProducersBounded
    OBVIOUS
  <2> DEFINE u == Cardinality(Up)
             o == Cardinality(Opening)
             n == Cardinality(Connecting)
             P == Cardinality(Publishers)
             d == Races(Cardinality(Closing))
             q == Races(closes)
  <2>1. o <= n
    <3> DEFINE f == [c \in Connecting |-> mine[c]]
               T == {mine[c] : c \in Connecting}
    <3>1. f \in Surjection(Connecting, T)
      BY DEF Surjection
    <3>2. IsFiniteSet(T) /\ Cardinality(T) <= n
      BY <3>1, Counts, FS_Surjection DEF Countable
    <3>3. Opening \subseteq T
      BY DEF OpenInv, OpeningServed
    <3>4. o <= Cardinality(T) /\ Cardinality(T) \in Nat
      BY <3>2, <3>3, FS_Subset, FS_CardinalityType
    <3> QED
      BY <3>2, <3>4, Counts DEF Countable
  <2>2. /\ u \in Nat /\ o \in Nat /\ n \in Nat /\ P \in Nat /\ n <= P
        /\ d \in Nat /\ q \in Nat /\ Races(closes + 1) = q + P
    <3>1. Cardinality(Closing) \in Nat /\ closes \in Nat
      BY FS_CardinalityType DEF OpenInv, Typed, TypeOK
    <3> QED
      BY <3>1, Counts, RacesAdd DEF Countable
  <2>3. u + n + d <= q + P \/ u + d <= q
    BY DEF OpenInv, UpCounted
  <2>4. Cardinality(Up \cup Opening) <= u + o
    <3>1. Up \cap Opening = {}
      BY DEF Up, Opening
    <3>2. Cardinality(Up \cup Opening) = u + o - Cardinality(Up \cap Opening)
      BY Counts, FS_Union, Zenon DEF Countable
    <3>3. Cardinality(Up \cap Opening) = 0
      BY <3>1, FS_EmptySet, Zenon
    <3> QED
      BY <2>2, <3>2, <3>3
  <2>5. {m \in Producers : link[m] \in {"connecting", "up"}} = Up \cup Opening
    BY DEF Up, Opening
  <2>6. Cardinality(Up \cup Opening) \in Nat
    BY Counts, FS_Union, FS_CardinalityType DEF Countable
  <2> DEFINE a == Cardinality(Up \cup Opening)
  <2>7. a <= Races(closes + 1)
    <3> HIDE DEF u, o, n, P, d, q, a
    <3>1. a <= u + o
      BY <2>4 DEF a, u, o
    <3>2. a \in Nat
      BY <2>6 DEF a
    <3> QED
      BY <2>1, <2>2, <2>3, <3>1, <3>2
  <2> QED
    BY <2>5, <2>7 DEF OpenProducersBounded, Races
<1> QED
  BY <1>1, InitOpen, NextOpen, PTL DEF Spec
=============================================================================
