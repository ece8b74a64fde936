--------------------------- MODULE RegistryProofs ---------------------------
(***************************************************************************)
(* Theorems about Registry, for any components, requests, clients, any     *)
(* capacity of the channel and any patterns.  Three invariants carry them: *)
(* Connected is about one connection, Announced counts the offline events  *)
(* against the silences, Agreed relates the requests that still have to    *)
(* publish to the components.                                              *)
(***************************************************************************)
EXTENDS Registry, FiniteSetTheorems, TLAPS

Good(k) ==
    /\ k \in Connection
    /\ k.next <= Len(log) + 1 /\ k.held <= Len(log)
    /\ k.state = "open" => k.next >= 1
    /\ k.held # 0 => k.state = "open" /\ k.held = k.next - 1
    /\ k.whole => /\ k.state = "open" /\ "*" \in k.subs
                  /\ k.upto + (IF k.held = 0 THEN 1 ELSE 2) >= k.next

Connected == \A c \in Clients : Good(client[c])

-----------------------------------------------------------------------------
LEMMA PublishGrows ==
    ASSUME log \in Seq(Event), NEW e \in Event, Publish(e)
    PROVE  /\ log' \in Seq(Event)
           /\ Len(log') = Len(log) + 1
           /\ \A i \in 1..Len(log) : log'[i] = log[i]
           /\ log'[Len(log) + 1] = e
BY DEF Publish

LEMMA ClosedType ==
    ASSUME log \in Seq(Event)
    PROVE  Good(Closed)
<1>1. Len(log) \in Nat
  OBVIOUS
<1>2. QED
  BY <1>1 DEF Good, Closed, Connection

LEMMA Happens ==
    ASSUME NEW kind \in Kinds, NEW id \in Ids
    PROVE  /\ Happened(kind, id) \in Event /\ Happened(kind, id) # None
           /\ Happened(kind, id).kind = kind /\ Happened(kind, id).id = id
<1>1. Happened(kind, id) \in Event
  BY DEF Happened, Event
<1>2. QED
  BY <1>1, NoneAssumption DEF Happened

LEMMA Oldests ==
    ASSUME log \in Seq(Event)
    PROVE  Oldest \in Nat /\ Oldest >= 1 /\ Oldest <= Len(log) + 1
<1>1. Len(log) \in Nat
  OBVIOUS
<1>2. QED
  BY <1>1, RegistryAssumption DEF Oldest

(* The ways in which a connection changes, each from good to good.         *)
LEMMA ConnectionMoves ==
    ASSUME log \in Seq(Event), NEW k, Good(k)
    PROVE  /\ k.state = "open" /\ k.held = 0 /\ k.next < Oldest =>
                Good(Broken([k EXCEPT !.next = Oldest]))
           /\ k.state = "open" /\ k.held = 0 /\ k.next \in Oldest..Len(log) =>
                Good([k EXCEPT !.next = @ + 1, !.held = k.next])
           /\ Good(Broken([k EXCEPT !.state = "deaf", !.held = 0]))
           /\ \A pat \in Patterns :
                /\ Good([k EXCEPT !.subs = @ \cup {pat}])
                /\ pat = "*" /\ k.state = "open" =>
                     Good([[k EXCEPT !.subs = @ \cup {pat}]
                               EXCEPT !.whole = TRUE, !.upto = k.next - 1])
                /\ pat # "*" => Good([k EXCEPT !.subs = @ \ {pat}])
                /\ Good(Broken([k EXCEPT !.subs = @ \ {pat}]))
<1> DEFINE N == Len(log)
<1>1. k \in Connection /\ N \in Nat
  BY DEF Good
<1>2. /\ k.state \in {"closed", "accepted", "open", "deaf"} /\ k.next \in Nat
      /\ k.held \in Nat /\ k.subs \subseteq Patterns /\ k.whole \in BOOLEAN /\ k.upto \in Nat
  BY <1>1 DEF Connection
<1>3. /\ k.next <= N + 1 /\ k.held <= N
      /\ k.state = "open" => k.next >= 1
      /\ k.held # 0 => k.state = "open" /\ k.held = k.next - 1
      /\ k.whole => /\ k.state = "open" /\ "*" \in k.subs
                    /\ k.upto + (IF k.held = 0 THEN 1 ELSE 2) >= k.next
  BY DEF Good
<1>4. ASSUME k.state = "open", k.held = 0, k.next < Oldest
      PROVE  Good(Broken([k EXCEPT !.next = Oldest]))
  <2> DEFINE n == Broken([k EXCEPT !.next = Oldest])
  <2>1. /\ n \in Connection /\ n.next = Oldest /\ n.held = 0 /\ ~n.whole
    BY <1>1, <1>2, <1>4, Oldests DEF Broken, Connection
  <2>2. QED
    BY <1>1, <2>1, Oldests DEF Good
<1>5. ASSUME k.state = "open", k.held = 0, k.next \in Oldest..N
      PROVE  Good([k EXCEPT !.next = @ + 1, !.held = k.next])
  <2> DEFINE n == [k EXCEPT !.next = @ + 1, !.held = k.next]
  <2>0. k.next + 1 \in Nat
    BY <1>2
  <2>1. /\ n \in Connection /\ n.next = k.next + 1 /\ n.held = k.next
        /\ n.state = "open" /\ n.whole = k.whole /\ n.upto = k.upto /\ n.subs = k.subs
    BY <2>0, <1>1, <1>2, <1>5 DEF Connection
  <2>2. k.next >= 1 /\ k.next <= N
    BY <1>2, <1>5, Oldests
  <2>3. QED
    BY <1>1, <1>2, <1>3, <1>5, <2>1, <2>2 DEF Good
<1>6. Good(Broken([k EXCEPT !.state = "deaf", !.held = 0]))
  <2> DEFINE n == Broken([k EXCEPT !.state = "deaf", !.held = 0])
  <2>1. n \in Connection /\ n.next = k.next /\ n.held = 0 /\ ~n.whole /\ n.state = "deaf"
    BY <1>1, <1>2 DEF Broken, Connection
  <2>2. QED
    BY <1>1, <1>2, <1>3, <2>1 DEF Good
<1>7. ASSUME NEW pat \in Patterns
      PROVE  /\ Good([k EXCEPT !.subs = @ \cup {pat}])
             /\ pat # "*" => Good([k EXCEPT !.subs = @ \ {pat}])
             /\ Good(Broken([k EXCEPT !.subs = @ \ {pat}]))
  <2> DEFINE Same(n) == /\ n \in Connection /\ n.next = k.next /\ n.held = k.held
                        /\ n.state = k.state
  <2>1. ASSUME NEW n, Same(n), n.whole => k.whole /\ n.upto = k.upto /\ "*" \in n.subs
        PROVE  Good(n)
    BY <1>1, <1>2, <1>3, <2>1 DEF Good
  <2>2. LET n == [k EXCEPT !.subs = @ \cup {pat}]
        IN  Same(n) /\ n.whole = k.whole /\ n.upto = k.upto /\ n.subs = k.subs \cup {pat}
    BY <1>1, <1>2 DEF Connection
  <2>3. LET n == [k EXCEPT !.subs = @ \ {pat}]
        IN  Same(n) /\ n.whole = k.whole /\ n.upto = k.upto /\ n.subs = k.subs \ {pat}
    BY <1>1, <1>2 DEF Connection
  <2>4. LET n == Broken([k EXCEPT !.subs = @ \ {pat}])
        IN  Same(n) /\ ~n.whole
    BY <1>1, <1>2 DEF Connection, Broken
  <2>5. QED
    BY <1>3, <2>1, <2>2, <2>3, <2>4
<1>8. ASSUME NEW pat \in Patterns, pat = "*", k.state = "open"
      PROVE  Good([[k EXCEPT !.subs = @ \cup {pat}]
                      EXCEPT !.whole = TRUE, !.upto = k.next - 1])
  <2> DEFINE n == [[k EXCEPT !.subs = @ \cup {pat}]
                      EXCEPT !.whole = TRUE, !.upto = k.next - 1]
  <2>1. k.next - 1 \in Nat
    BY <1>2, <1>3, <1>8
  <2>2. /\ n \in Connection /\ n.next = k.next /\ n.held = k.held /\ n.state = "open"
        /\ n.upto = k.next - 1 /\ n.subs = k.subs \cup {pat}
    BY <1>1, <1>2, <1>8, <2>1 DEF Connection
  <2>3. QED
    BY <1>1, <1>2, <1>3, <1>8, <2>2 DEF Good
<1>9. QED
  BY <1>4, <1>5, <1>6, <1>7, <1>8

(* Whatever a client does leaves one good connection in place of another.  *)
LEMMA ClientMoves ==
    ASSUME RegistryTypeOK, Connected, NEW c \in Clients, ClientNext(c)
    PROVE  \E k : Good(k) /\ ClientStep(c, k)
<1> DEFINE k == client[c]
<1>1. Good(k) /\ k \in Connection /\ log \in Seq(Event) /\ Len(log) \in Nat
  BY DEF Connected, RegistryTypeOK, Good
<1>2. Good(Closed) /\ Closed \in Connection
  BY <1>1, ClosedType DEF Good
<1>3. CASE Connect(c)
  <2>1. Good([Closed EXCEPT !.state = "accepted"])
    BY <1>1, <1>2 DEF Good, Closed, Connection
  <2>2. QED
    BY <1>3, <2>1 DEF Connect
<1>4. CASE Join(c)
  <2> DEFINE n == [Closed EXCEPT !.state = "open", !.next = Len(log) + 1]
  <2>0. Len(log) + 1 \in Nat
    BY <1>1
  <2>1. n \in Connection /\ n.next = Len(log) + 1 /\ n.held = 0 /\ ~n.whole
    BY <2>0 DEF Closed, Connection
  <2>2. Good(n)
    BY <1>1, <2>1 DEF Good
  <2>3. QED
    BY <1>4, <2>2 DEF Join
<1>5. CASE Lag(c)
  BY <1>1, <1>5, ConnectionMoves DEF Lag
<1>6. CASE Take(c)
  BY <1>1, <1>6, ConnectionMoves DEF Take
<1>7. CASE Forward(c)
  <2> DEFINE sent == event_matches(log[k.held], k.subs)
             n == [k EXCEPT !.held = 0,
                     !.upto = IF sent /\ k.whole /\ k.held = @ + 1 THEN k.held ELSE @]
  <2>1. k.held \in 1..Len(log) /\ k.held = k.next - 1 /\ k.state = "open"
    BY <1>1, <1>7 DEF Forward, Good, Connection
  <2>2. k.whole => sent
    <3>1. log[k.held] \in Event
      BY <1>1, <2>1
    <3>2. QED
      BY <1>1, <3>1, RegistryAssumption DEF Good, event_matches, Event
  <2>3. n \in Connection
    BY <1>1 DEF Connection
  <2>4. n.whole => n.upto + 1 >= n.next
    <3>1. k.upto \in Nat /\ k.next \in Nat /\ k.held \in Nat
      BY <1>1 DEF Connection
    <3>2. k.whole => k.upto + 2 >= k.next
      BY <1>1, <3>1 DEF Good
    <3>3. n.whole = k.whole /\ n.next = k.next
          /\ n.upto = IF sent /\ k.whole /\ k.held = k.upto + 1 THEN k.held ELSE k.upto
      BY <1>1 DEF Connection
    <3>4. QED
      BY <2>1, <2>2, <3>1, <3>2, <3>3
  <2>5. Good(n)
    BY <1>1, <2>1, <2>3, <2>4 DEF Good
  <2>6. ClientStep(c, n)
    BY <1>7 DEF Forward
  <2>7. QED
    BY <2>5, <2>6
<1>8. CASE SendFails(c)
  BY <1>1, <1>8, ConnectionMoves DEF SendFails
<1>9. CASE Close(c)
  BY <1>2, <1>9 DEF Close
<1>10. ASSUME NEW pat \in Patterns, Subscribe(c, pat)
       PROVE  \E n : Good(n) /\ ClientStep(c, n)
  BY <1>1, <1>10, ConnectionMoves DEF Subscribe
<1>11. ASSUME NEW pat \in Patterns, Unsubscribe(c, pat)
       PROVE  \E n : Good(n) /\ ClientStep(c, n)
  BY <1>1, <1>11, ConnectionMoves DEF Unsubscribe
<1>12. QED
  BY <1>3, <1>4, <1>5, <1>6, <1>7, <1>8, <1>9, <1>10, <1>11 DEF ClientNext

-----------------------------------------------------------------------------
(* The steps of the components, and what is sent.                          *)
ComponentStep ==
    \/ \E t \in Requests, id \in Ids : Register(t, id) \/ Unregister(t, id)
    \/ \E id \in Ids : Heartbeat(id) \/ Silent(id)
    \/ CheckHeartbeats

Sending ==
    \/ \E t \in Requests : PublishJob(t)
    \/ \E id \in Ids : PublishOffline(id)

LEMMA StepKinds ==
    RegistryNext <=> \/ ComponentStep \/ Sending
                     \/ \E c \in Clients : ClientNext(c)
BY DEF RegistryNext, ComponentStep, Sending, CheckerStep

LEMMA ComponentsStay ==
    ASSUME RegistryTypeOK, ComponentStep
    PROVE  RegistryTypeOK' /\ UNCHANGED <<log, client>>
<1> USE DEF RegistryTypeOK
<1>1. ASSUME NEW id \in Ids, Refresh(id) PROVE refreshes' \in [Ids -> 0..MaxRefreshes]
  BY <1>1, RegistryAssumption DEF Refresh
<1>2. ASSUME NEW id \in Ids, Overlap(id) PROVE overlapped' \in [Ids -> BOOLEAN]
  BY <1>2 DEF Overlap, Pending
<1>3. ASSUME NEW t \in Requests, NEW id \in Ids, Register(t, id) \/ Unregister(t, id)
      PROVE  RegistryTypeOK' /\ UNCHANGED <<log, client>>
  <2>1. [fresh |-> TRUE, status |-> "running"] \in Component
    BY DEF Component
  <2>2. Happened("registered", id) \in Event /\ Happened("unregistered", id) \in Event
    BY Happens DEF Kinds
  <2>3. QED
    BY <1>1, <1>2, <1>3, <2>1, <2>2 DEF Register, Unregister
<1>4. ASSUME NEW id \in Ids, Heartbeat(id)
      PROVE  RegistryTypeOK' /\ UNCHANGED <<log, client>>
  <2>1. \A s \in {"running", "offline"} : [fresh |-> TRUE, status |-> s] \in Component
    BY DEF Component
  <2>2. QED
    BY <1>1, <1>4, <2>1 DEF Heartbeat
<1>5. ASSUME NEW id \in Ids, Silent(id)
      PROVE  RegistryTypeOK' /\ UNCHANGED <<log, client>>
  <2>1. [comps[id] EXCEPT !.fresh = FALSE] \in Component
    BY <1>5 DEF Silent, Registered, Component
  <2>2. QED
    BY <1>5, <2>1 DEF Silent
<1>6. ASSUME CheckHeartbeats
      PROVE  RegistryTypeOK' /\ UNCHANGED <<log, client>>
  <2>1. \A id \in Expired : [comps[id] EXCEPT !.status = "offline"] \in Component
    BY DEF Expired, Registered, Component
  <2>2. QED
    BY <1>6, <2>1 DEF CheckHeartbeats, Expired
<1>7. QED
  BY <1>3, <1>4, <1>5, <1>6 DEF ComponentStep

LEMMA SendingGrows ==
    ASSUME RegistryTypeOK, Sending
    PROVE  /\ RegistryTypeOK' /\ UNCHANGED client
           /\ \E e \in Event : Publish(e)
           /\ Len(log') = Len(log) + 1
<1> USE DEF RegistryTypeOK
<1>1. PICK e \in Event : Publish(e)
  <2>1. ASSUME NEW id \in Ids PROVE Happened("offline", id) \in Event
    BY Happens DEF Kinds
  <2>2. QED
    BY <2>1 DEF Sending, PublishJob, PublishOffline
<1>2. log' \in Seq(Event) /\ Len(log') = Len(log) + 1 /\ Len(log) \in Nat
  BY <1>1, PublishGrows
<1>3. UNCHANGED <<client, comps, refreshes, overlapped>>
  BY DEF Sending, PublishJob, PublishOffline
<1>4. job' \in [Requests -> Event \cup {None}] /\ offline' \subseteq Ids
  BY DEF Sending, PublishJob, PublishOffline
<1>5. \A c \in Clients : client[c].next \in Nat /\ client[c].held \in Nat
  BY DEF Connection
<1>6. QED
  BY <1>1, <1>2, <1>3, <1>4, <1>5

LEMMA ConnectedStep ==
    ASSUME RegistryTypeOK, Connected, [RegistryNext]_rvars
    PROVE  RegistryTypeOK' /\ Connected'
<1>0. log \in Seq(Event) /\ Len(log) \in Nat /\ client \in [Clients -> Connection]
  BY DEF RegistryTypeOK
<1>1. CASE ComponentStep
  BY <1>1, ComponentsStay DEF Connected, Good
<1>2. CASE Sending
  <2>1. RegistryTypeOK' /\ client' = client /\ Len(log') = Len(log) + 1
    BY <1>2, SendingGrows
  <2>2. \A c \in Clients : client[c].next \in Nat /\ client[c].held \in Nat
    BY <1>0 DEF Connection
  <2>3. QED
    BY <1>0, <2>1, <2>2 DEF Connected, Good
<1>3. ASSUME NEW c \in Clients, ClientNext(c)
      PROVE  RegistryTypeOK' /\ Connected'
  <2>1. PICK k : Good(k) /\ ClientStep(c, k)
    BY <1>3, ClientMoves
  <2>2. client' = [client EXCEPT ![c] = k] /\ log' = log
    BY <2>1 DEF ClientStep
  <2>3. k \in Connection /\ k.next <= Len(log) + 1 /\ k.held <= Len(log)
    BY <2>1 DEF Good
  <2>4. RegistryTypeOK'
    BY <1>0, <2>1, <2>2, <2>3 DEF RegistryTypeOK, ClientStep
  <2>5. \A d \in Clients : Good(client'[d])
    BY <1>0, <2>1, <2>2 DEF Connected
  <2>6. QED
    BY <2>2, <2>4, <2>5 DEF Connected, Good
<1>4. CASE UNCHANGED rvars
  BY <1>4 DEF rvars, RegistryTypeOK, Connected, Good, Registered, Pending
<1>5. QED
  BY <1>1, <1>2, <1>3, <1>4, StepKinds

LEMMA ConnectedInit == RegistryInit => RegistryTypeOK /\ Connected
<1> SUFFICES ASSUME RegistryInit PROVE RegistryTypeOK /\ Connected
  OBVIOUS
<1>1. log = <<>> /\ log \in Seq(Event) /\ Len(log) = 0
  BY DEF RegistryInit
<1>2. Good(Closed)
  BY <1>1, ClosedType
<1>3. Connected
  BY <1>2 DEF RegistryInit, Connected
<1>4. \A c \in Clients : client[c] = Closed /\ Closed.next = 0 /\ Closed.held = 0
  BY DEF RegistryInit, Closed
<1>5. client \in [Clients -> Connection]
  BY <1>2 DEF RegistryInit, Good
<1>6. RegistryTypeOK
  BY <1>1, <1>4, <1>5, RegistryAssumption DEF RegistryInit, RegistryTypeOK
<1>7. QED
  BY <1>3, <1>6

LEMMA AlwaysConnected == RegistrySpec => [](RegistryTypeOK /\ Connected)
<1>1. RegistryInit => RegistryTypeOK /\ Connected
  BY ConnectedInit
<1>2. RegistryTypeOK /\ Connected /\ [RegistryNext]_rvars => (RegistryTypeOK /\ Connected)'
  BY ConnectedStep
<1>3. QED
  BY <1>1, <1>2, PTL DEF RegistrySpec

(* Type correctness, for any registry.                                     *)
THEOREM RegistryTypeCorrect == RegistrySpec => []RegistryTypeOK
BY AlwaysConnected, PTL

(* A client that follows everything is sent every event in order unless it *)
(* is told of a lag, however many events the channel keeps.                *)
THEOREM NothingMissed == RegistrySpec => []SubscriberMissesNothing
<1>1. RegistryTypeOK /\ Connected => SubscriberMissesNothing
  <2> SUFFICES ASSUME RegistryTypeOK, Connected, NEW c \in Clients, client[c].whole,
                      NEW i \in (client[c].upto + 1)..(client[c].next - 1)
               PROVE  i = client[c].held
    BY DEF SubscriberMissesNothing
  <2>1. /\ client[c].upto \in Nat /\ client[c].next \in Nat /\ client[c].held \in Nat
    BY DEF RegistryTypeOK, Connection
  <2>2. /\ client[c].held # 0 => client[c].held = client[c].next - 1
        /\ client[c].upto + (IF client[c].held = 0 THEN 1 ELSE 2) >= client[c].next
    BY DEF Connected, Good
  <2>3. QED
    BY <2>1, <2>2
<1>2. QED
  BY <1>1, AlwaysConnected, PTL

-----------------------------------------------------------------------------
(* Every step of the bus is a step of the feed, or none.                   *)
Readers == [c \in Clients |-> Reader(client[c])]

LEMMA FeedInit == RegistryInit => Feed!Init
BY DEF RegistryInit, Feed!Init, Feed!Away, Reader, Closed

LEMMA FeedClient ==
    ASSUME RegistryTypeOK, Connected, NEW c \in Clients, ClientNext(c)
    PROVE  [Feed!Next]_<<log, Readers>>
<1> DEFINE k == client[c]
<1>0. /\ k.next \in Nat /\ k.held \in Nat /\ Len(log) \in Nat /\ Good(k)
      /\ k \in Connection /\ client \in [Clients -> Connection]
  BY DEF RegistryTypeOK, Connection, Connected
<1>1. ASSUME NEW n, ClientStep(c, n)
      PROVE  /\ log' = log /\ Readers' = [Readers EXCEPT ![c] = Reader(n)]
             /\ Readers[c] = Reader(k)
             /\ Feed!Become(c, Reader(n))
  BY <1>0, <1>1 DEF ClientStep, Readers, Feed!Become
<1>2. ASSUME NEW n, ClientStep(c, n), Reader(n) = Reader(k)
      PROVE  UNCHANGED <<log, Readers>>
  BY <1>1, <1>2 DEF Readers
<1>3. CASE Connect(c)
  BY <1>2, <1>3 DEF Connect, Closed, Reader
<1>4. CASE Join(c)
  <2> DEFINE n == [Closed EXCEPT !.state = "open", !.next = Len(log) + 1]
  <2>1. ClientStep(c, n) /\ ~Reader(k).open
    BY <1>4 DEF Join, Reader
  <2>2. n.state = "open" /\ n.next = Len(log) + 1 /\ n.held = 0
    BY DEF Closed
  <2>3. Reader(n) = [open |-> TRUE, pos |-> Len(log)]
    BY <1>0, <2>2 DEF Reader
  <2>4. Feed!Join(c)
    BY <1>1, <2>1, <2>3 DEF Feed!Join, Readers
  <2>5. QED
    BY <2>4 DEF Feed!Next
<1>5. CASE Lag(c)
  <2> DEFINE n == Broken([k EXCEPT !.next = Oldest])
  <2>1. ClientStep(c, n) /\ k.state = "open" /\ k.held = 0 /\ k.next < Oldest /\ k.next >= 1
    BY <1>0, <1>5 DEF Lag, Good
  <2>2. Oldest = Len(log) - Capacity + 1
    BY <1>0, <2>1, RegistryAssumption DEF Oldest
  <2>3. n.state = "open" /\ n.next = Oldest /\ n.held = 0
    BY <1>0, <2>1 DEF Broken, Connection
  <2>8. n.next - 1 = Len(log) - Capacity
    BY <1>0, <2>2, <2>3, RegistryAssumption
  <2>4. Reader(n) = [open |-> TRUE, pos |-> Len(log) - Capacity]
    BY <2>3, <2>8 DEF Reader
  <2>5. Reader(k).open /\ Reader(k).pos + Capacity < Len(log)
    BY <1>0, <2>1, <2>2, RegistryAssumption DEF Reader
  <2>6. Feed!Skip(c)
    BY <1>1, <2>1, <2>4, <2>5 DEF Feed!Skip, Readers
  <2>7. QED
    BY <2>6 DEF Feed!Next
<1>6. CASE Take(c)
  <2> DEFINE n == [k EXCEPT !.next = @ + 1, !.held = k.next]
  <2>1. ClientStep(c, n) /\ k.state = "open" /\ k.held = 0 /\ k.next >= 1
    BY <1>0, <1>6 DEF Take, Good
  <2>2. n.state = "open" /\ n.next = k.next + 1 /\ n.held = k.next
    BY <1>0, <2>1 DEF Connection
  <2>5. n.next - 2 = k.next - 1 /\ n.held # 0
    BY <1>0, <2>1, <2>2
  <2>3. Reader(n) = Reader(k)
    BY <2>1, <2>2, <2>5 DEF Reader
  <2>4. QED
    BY <1>2, <2>1, <2>3
<1>7. CASE Forward(c)
  <2> DEFINE sent == event_matches(log[k.held], k.subs)
             n == [k EXCEPT !.held = 0,
                     !.upto = IF sent /\ k.whole /\ k.held = @ + 1 THEN k.held ELSE @]
  <2>1. ClientStep(c, n) /\ k.state = "open" /\ k.held # 0
    BY <1>7 DEF Forward
  <2>2. n.state = "open" /\ n.next = k.next /\ n.held = 0
    BY <1>0, <2>1 DEF Connection
  <2>3. k.held = k.next - 1 /\ k.next <= Len(log) + 1
    BY <1>0, <2>1 DEF Good
  <2>4. /\ Reader(k).open /\ Reader(k).pos = k.next - 2
        /\ Reader(n) = [open |-> TRUE, pos |-> k.next - 1]
    BY <1>0, <2>1, <2>2 DEF Reader
  <2>8. k.next - 2 < Len(log) /\ (k.next - 2) + 1 = k.next - 1
    BY <1>0, <2>3
  <2>5. Reader(k).pos < Len(log) /\ Reader(n) = [open |-> TRUE, pos |-> Reader(k).pos + 1]
    BY <2>4, <2>8
  <2>6. Feed!Deliver(c)
    BY <1>1, <2>1, <2>4, <2>5 DEF Feed!Deliver, Readers
  <2>7. QED
    BY <2>6 DEF Feed!Next
<1>8. CASE SendFails(c)
  <2> DEFINE n == Broken([k EXCEPT !.state = "deaf", !.held = 0])
  <2>1. ClientStep(c, n) /\ k.state = "open"
    BY <1>8 DEF SendFails
  <2>2. n.state = "deaf"
    BY <1>0 DEF Broken, Connection
  <2>3. Reader(k).open /\ Reader(n) = Feed!Away
    BY <2>1, <2>2 DEF Reader, Feed!Away
  <2>4. Feed!Leave(c)
    BY <1>1, <2>1, <2>3 DEF Feed!Leave, Readers
  <2>5. QED
    BY <2>4 DEF Feed!Next
<1>9. CASE Close(c)
  <2>1. ClientStep(c, Closed) /\ Reader(Closed) = Feed!Away
    BY <1>9 DEF Close, Closed, Reader, Feed!Away
  <2>2. CASE k.state = "open"
    <3>1. Feed!Leave(c)
      BY <1>1, <2>1, <2>2 DEF Feed!Leave, Readers, Reader
    <3>2. QED
      BY <3>1 DEF Feed!Next
  <2>3. CASE k.state # "open"
    BY <1>2, <2>1, <2>3 DEF Reader, Feed!Away
  <2>4. QED
    BY <2>2, <2>3
<1>10. ASSUME NEW n, ClientStep(c, n),
              n.state = k.state, n.next = k.next, n.held = k.held
       PROVE  UNCHANGED <<log, Readers>>
  BY <1>2, <1>10 DEF Reader
<1>11. ASSUME NEW pat \in Patterns, Subscribe(c, pat)
       PROVE  UNCHANGED <<log, Readers>>
  BY <1>0, <1>10, <1>11 DEF Subscribe, Connection
<1>12. ASSUME NEW pat \in Patterns, Unsubscribe(c, pat)
       PROVE  UNCHANGED <<log, Readers>>
  BY <1>0, <1>10, <1>12 DEF Unsubscribe, Broken, Connection
<1>13. QED
  BY <1>3, <1>4, <1>5, <1>6, <1>7, <1>8, <1>9, <1>11, <1>12 DEF ClientNext

LEMMA FeedStep ==
    ASSUME RegistryTypeOK, Connected, [RegistryNext]_rvars
    PROVE  [Feed!Next]_<<log, Readers>>
<1>1. CASE ComponentStep
  BY <1>1, ComponentsStay DEF Readers
<1>2. CASE Sending
  <2>1. PICK e \in Event : Publish(e)
    BY <1>2, SendingGrows
  <2>2. UNCHANGED client
    BY <1>2, SendingGrows
  <2>3. Feed!Send
    BY <2>1, <2>2 DEF Feed!Send, Publish
  <2>4. QED
    BY <2>3 DEF Feed!Next
<1>3. CASE \E c \in Clients : ClientNext(c)
  BY <1>3, FeedClient
<1>4. CASE UNCHANGED rvars
  BY <1>4 DEF rvars, Readers
<1>5. QED
  BY <1>1, <1>2, <1>3, <1>4, StepKinds

(* The bus implements the lossy feed, for any capacity and any clients.    *)
THEOREM BusImplementsFeed == RegistrySpec => RefinesLossyFeed
<1>1. RegistryInit => Feed!Init
  BY FeedInit
<1>2. RegistryTypeOK /\ Connected /\ [RegistryNext]_rvars => [Feed!Next]_<<log, Readers>>
  BY FeedStep
<1>3. RegistryTypeOK /\ Connected /\ [RegistryNext]_rvars
         => [Feed!Next]_<<log, [c \in Clients |-> Reader(client[c])]>>
  BY <1>2 DEF Readers
<1>4. QED
  BY <1>1, <1>3, AlwaysConnected, PTL DEF RegistrySpec, RefinesLossyFeed, Feed!Spec

-----------------------------------------------------------------------------
(* The events of an id are those it had, and the one just sent.            *)
LEMMA EventsFinite ==
    ASSUME log \in Seq(Event), NEW kinds, NEW id
    PROVE  /\ IsFiniteSet(EventsOf(kinds, id)) /\ Cardinality(EventsOf(kinds, id)) \in Nat
           /\ EventsOf(kinds, id) \subseteq 1..Len(log)
<1>1. Len(log) \in Nat /\ EventsOf(kinds, id) \subseteq 1..Len(log)
  BY DEF EventsOf
<1>2. IsFiniteSet(1..Len(log))
  BY <1>1, FS_Interval
<1>3. IsFiniteSet(EventsOf(kinds, id))
  BY <1>1, <1>2, FS_Subset
<1>4. QED
  BY <1>1, <1>3, FS_CardinalityType

LEMMA EventsSent ==
    ASSUME log \in Seq(Event), NEW e \in Event, Publish(e), NEW kinds, NEW id
    PROVE  /\ e.id = id /\ e.kind \in kinds =>
                /\ EventsOf(kinds, id)' = EventsOf(kinds, id) \cup {Len(log) + 1}
                /\ Cardinality(EventsOf(kinds, id)') = Cardinality(EventsOf(kinds, id)) + 1
           /\ ~(e.id = id /\ e.kind \in kinds) =>
                EventsOf(kinds, id)' = EventsOf(kinds, id)
<1>1. /\ log' \in Seq(Event) /\ Len(log') = Len(log) + 1 /\ Len(log) \in Nat
      /\ \A i \in 1..Len(log) : log'[i] = log[i]
      /\ log'[Len(log) + 1] = e
  BY PublishGrows
<1>2. ASSUME NEW i
      PROVE  i \in EventsOf(kinds, id)' <=>
                \/ i \in EventsOf(kinds, id)
                \/ i = Len(log) + 1 /\ e.id = id /\ e.kind \in kinds
  BY <1>1 DEF EventsOf
<1>3. /\ IsFiniteSet(EventsOf(kinds, id)) /\ EventsOf(kinds, id) \subseteq 1..Len(log)
      /\ Len(log) + 1 \notin EventsOf(kinds, id)
  BY <1>1, EventsFinite
<1>4. ASSUME e.id = id, e.kind \in kinds
      PROVE  EventsOf(kinds, id)' = EventsOf(kinds, id) \cup {Len(log) + 1}
  BY <1>2, <1>4
<1>5. Cardinality(EventsOf(kinds, id) \cup {Len(log) + 1})
         = Cardinality(EventsOf(kinds, id)) + 1
  BY <1>3, FS_AddElement
<1>6. ASSUME ~(e.id = id /\ e.kind \in kinds)
      PROVE  EventsOf(kinds, id)' = EventsOf(kinds, id)
  BY <1>2, <1>6
<1>7. QED
  BY <1>4, <1>5, <1>6

LEMMA EventsStay ==
    ASSUME UNCHANGED log, NEW kinds, NEW id
    PROVE  EventsOf(kinds, id)' = EventsOf(kinds, id)
BY DEF EventsOf

-----------------------------------------------------------------------------
(* A component that is not marked has a silence to come; a marked one has  *)
(* had it, and its event is sent or about to be.                           *)
Awake(id) == IF Registered(id) THEN comps[id].status # "offline" ELSE FALSE

One(b) == IF b THEN 1 ELSE 0

Announcements(id) ==
    Cardinality(EventsOf({"offline"}, id)) + One(id \in offline) + One(Awake(id))

Announced ==
    /\ \A t \in Requests : job[t] # None => job[t].kind # "offline"
    /\ \A id \in Ids : Announcements(id) <= refreshes[id]

LEMMA AnnouncedInit == RegistryInit => Announced
<1> SUFFICES ASSUME RegistryInit PROVE Announced
  OBVIOUS
<1>1. log = <<>>
  BY DEF RegistryInit
<1>2. \A id \in Ids : EventsOf({"offline"}, id) = {}
  BY <1>1 DEF EventsOf
<1>3. \A id \in Ids : Cardinality(EventsOf({"offline"}, id)) = 0
  BY <1>2, FS_EmptySet
<1>4. QED
  BY <1>3 DEF RegistryInit, Announced, Announcements, One, Awake, Registered

LEMMA AnnouncedStep ==
    ASSUME RegistryTypeOK, Announced, [RegistryNext]_rvars
    PROVE  Announced'
<1> DEFINE O(id) == EventsOf({"offline"}, id)
<1>0. /\ log \in Seq(Event) /\ \A id \in Ids : Cardinality(O(id)) \in Nat
      /\ \A id \in Ids : refreshes[id] \in Nat
      /\ comps \in [Ids -> Component \cup {None}]
      /\ job \in [Requests -> Event \cup {None}]
      /\ refreshes \in [Ids -> 0..MaxRefreshes]
  BY EventsFinite, RegistryAssumption DEF RegistryTypeOK
<1>1. ASSUME UNCHANGED log PROVE \A id \in Ids : O(id)' = O(id)
  BY <1>1, EventsStay
<1>2. ASSUME UNCHANGED log,
             \A id \in Ids : /\ refreshes'[id] \in Nat
                            /\ One(id \in offline') + One(Awake(id)') + refreshes[id]
                                 <= One(id \in offline) + One(Awake(id)) + refreshes'[id],
             \A t \in Requests : job'[t] # None => job'[t].kind # "offline"
      PROVE  Announced'
  <2>1. ASSUME NEW id \in Ids PROVE Announcements(id)' <= refreshes'[id]
    <3>1. O(id)' = O(id) /\ Cardinality(O(id)) \in Nat /\ refreshes[id] \in Nat
      BY <1>0, <1>1, <1>2
    <3>2. Cardinality(O(id)) + One(id \in offline) + One(Awake(id)) <= refreshes[id]
      BY DEF Announced, Announcements
    <3>3. Announcements(id)' = Cardinality(O(id)) + One(id \in offline') + One(Awake(id)')
      BY <3>1 DEF Announcements
    <3>4. /\ One(id \in offline) \in Nat /\ One(Awake(id)) \in Nat
          /\ One(id \in offline') \in Nat /\ One(Awake(id)') \in Nat
      BY DEF One
    <3>5. QED
      BY <1>2, <3>1, <3>2, <3>3, <3>4
  <2>2. QED
    BY <1>2, <2>1 DEF Announced
<1>3. ASSUME NEW t \in Requests, NEW id \in Ids, Register(t, id) PROVE Announced'
  <2>1. Happened("registered", id).kind = "registered"
    BY DEF Happened
  <2>2. \A u \in Requests : job'[u] # None => job'[u].kind # "offline"
    BY <1>0, <1>3, <2>1 DEF Register, Announced
  <2>3. \A i \in Ids : /\ refreshes'[i] \in Nat
                       /\ refreshes'[i] = IF i = id THEN refreshes[i] + 1 ELSE refreshes[i]
    BY <1>0, <1>3 DEF Register, Refresh
  <2>4. \A i \in Ids : i # id => Awake(i)' = Awake(i)
    BY <1>0, <1>3 DEF Register, Awake, Registered
  <2>5. UNCHANGED <<log, offline>>
    BY <1>3 DEF Register
  <2>6. ASSUME NEW i \in Ids
        PROVE  One(i \in offline') + One(Awake(i)') + refreshes[i]
                  <= One(i \in offline) + One(Awake(i)) + refreshes'[i]
    <3>1. One(Awake(i)') \in 0..1 /\ One(Awake(i)) \in 0..1 /\ One(i \in offline) \in Nat
      BY DEF One
    <3>2. One(i \in offline') = One(i \in offline) /\ refreshes[i] \in Nat
      BY <1>0, <2>5
    <3>3. CASE i = id
      BY <2>3, <3>1, <3>2, <3>3
    <3>4. CASE i # id
      BY <2>3, <2>4, <3>1, <3>2, <3>4
    <3>5. QED
      BY <3>3, <3>4
  <2>7. QED
    BY <1>2, <2>2, <2>3, <2>5, <2>6
<1>4. ASSUME NEW t \in Requests, NEW id \in Ids, Unregister(t, id) PROVE Announced'
  <2>1. Happened("unregistered", id).kind = "unregistered"
    BY DEF Happened
  <2>2. \A u \in Requests : job'[u] # None => job'[u].kind # "offline"
    BY <1>0, <1>4, <2>1 DEF Unregister, Announced
  <2>3. \A i \in Ids : Awake(i)' => Awake(i)
    BY <1>0, <1>4 DEF Unregister, Awake, Registered
  <2>4. UNCHANGED <<log, offline, refreshes>>
    BY <1>4 DEF Unregister
  <2>5. QED
    BY <1>0, <1>2, <2>2, <2>3, <2>4 DEF One
<1>5. ASSUME NEW id \in Ids, Heartbeat(id) PROVE Announced'
  <2>1. UNCHANGED <<log, offline, job>>
    BY <1>5 DEF Heartbeat
  <2>2. \A i \in Ids : /\ refreshes'[i] \in Nat
                       /\ refreshes'[i] = IF i = id THEN refreshes[i] + 1 ELSE refreshes[i]
    BY <1>0, <1>5 DEF Heartbeat, Refresh
  <2>3. \A i \in Ids : i # id => Awake(i)' = Awake(i)
    BY <1>0, <1>5 DEF Heartbeat, Awake, Registered
  <2>4. ASSUME NEW i \in Ids
        PROVE  One(i \in offline') + One(Awake(i)') + refreshes[i]
                  <= One(i \in offline) + One(Awake(i)) + refreshes'[i]
    <3>1. One(Awake(i)') \in 0..1 /\ One(Awake(i)) \in 0..1 /\ One(i \in offline) \in Nat
      BY DEF One
    <3>2. One(i \in offline') = One(i \in offline) /\ refreshes[i] \in Nat
      BY <1>0, <2>1
    <3>3. CASE i = id
      BY <2>2, <3>1, <3>2, <3>3
    <3>4. CASE i # id
      BY <2>2, <2>3, <3>1, <3>2, <3>4
    <3>5. QED
      BY <3>3, <3>4
  <2>5. \A t \in Requests : job'[t] # None => job'[t].kind # "offline"
    BY <2>1 DEF Announced
  <2>6. QED
    BY <1>2, <2>1, <2>2, <2>4, <2>5
<1>6. ASSUME NEW id \in Ids, Silent(id) PROVE Announced'
  <2>1. UNCHANGED <<log, offline, job, refreshes>>
    BY <1>6 DEF Silent
  <2>2. comps[id] \in Component /\ comps' = [comps EXCEPT ![id].fresh = FALSE]
    BY <1>0, <1>6 DEF Silent, Registered
  <2>3. \A i \in Ids : Awake(i)' => Awake(i)
    BY <1>0, <2>2, NoneAssumption DEF Awake, Registered, Component
  <2>4. QED
    BY <1>0, <1>2, <2>1, <2>3 DEF One, Announced
<1>7. ASSUME CheckHeartbeats PROVE Announced'
  <2>1. UNCHANGED <<log, job, refreshes>> /\ offline = {} /\ offline' = Expired
    BY <1>7 DEF CheckHeartbeats
  <2>2. \A i \in Ids : i \in Expired => comps[i] \in Component /\ Awake(i)
    BY <1>0 DEF Expired, Awake, Registered
  <2>3. \A i \in Ids : /\ i \in Expired => ~Awake(i)'
                       /\ i \notin Expired => Awake(i)' = Awake(i)
    BY <1>0, <1>7, <2>2 DEF CheckHeartbeats, Awake, Registered, Component
  <2>4. QED
    BY <1>0, <1>2, <2>1, <2>2, <2>3 DEF One, Announced
<1>8. ASSUME NEW t \in Requests, PublishJob(t) PROVE Announced'
  <2>1. job[t] \in Event /\ Publish(job[t]) /\ job[t].kind # "offline"
    BY <1>0, <1>8 DEF PublishJob, Announced
  <2>2. \A id \in Ids : O(id)' = O(id)
    BY <1>0, <2>1, EventsSent
  <2>3. UNCHANGED <<comps, offline, refreshes>>
    BY <1>8 DEF PublishJob
  <2>4. \A u \in Requests : job'[u] # None => job'[u].kind # "offline"
    BY <1>0, <1>8 DEF PublishJob, Announced
  <2>5. QED
    BY <2>2, <2>3, <2>4 DEF Announced, Announcements, Awake, Registered
<1>9. ASSUME NEW id \in Ids, PublishOffline(id) PROVE Announced'
  <2> DEFINE e == Happened("offline", id)
  <2>1. e \in Event /\ e.id = id /\ e.kind = "offline" /\ Publish(e)
    BY <1>9, Happens DEF PublishOffline, Kinds
  <2>2. /\ Cardinality(O(id)') = Cardinality(O(id)) + 1
        /\ \A i \in Ids : i # id => O(i)' = O(i)
    BY <1>0, <2>1, EventsSent
  <2>3. UNCHANGED <<comps, job, refreshes>> /\ id \in offline /\ offline' = offline \ {id}
    BY <1>9 DEF PublishOffline
  <2>4. ASSUME NEW i \in Ids PROVE Announcements(i)' <= refreshes[i]
    <3>1. Awake(i)' = Awake(i) /\ Announcements(i) <= refreshes[i]
      BY <2>3 DEF Awake, Registered, Announced
    <3>2. CASE i = id
      <4>1. One(i \in offline) = 1 /\ One(i \in offline') = 0 /\ One(Awake(i)) \in Nat
        BY <2>3, <3>2 DEF One
      <4>2. QED
        BY <1>0, <2>2, <3>1, <3>2, <4>1 DEF Announcements
    <3>3. CASE i # id
      BY <2>2, <2>3, <3>1, <3>3 DEF Announcements, One
    <3>4. QED
      BY <3>2, <3>3
  <2>5. QED
    BY <2>3, <2>4 DEF Announced
<1>10. ASSUME NEW c \in Clients, ClientNext(c) PROVE Announced'
  <2>1. PICK k : ClientStep(c, k)
    BY <1>10 DEF ClientNext, Connect, Join, Lag, Take, Forward, SendFails, Close,
                 Subscribe, Unsubscribe
  <2>2. QED
    BY <1>1, <2>1 DEF ClientStep, Announced, Announcements, Awake, Registered
<1>11. CASE UNCHANGED rvars
  BY <1>1, <1>11 DEF rvars, Announced, Announcements, Awake, Registered
<1>12. QED
  BY <1>3, <1>4, <1>5, <1>6, <1>7, <1>8, <1>9, <1>10, <1>11 DEF RegistryNext, CheckerStep

(* A silence is announced once, for any number of components.              *)
THEOREM SilenceAnnouncedOnce == RegistrySpec => []OfflineOncePerSilence
<1>1. RegistryInit => RegistryTypeOK /\ Connected /\ Announced
  BY ConnectedInit, AnnouncedInit
<1>2. /\ RegistryTypeOK /\ Connected /\ Announced
      /\ [RegistryNext]_rvars
      => (RegistryTypeOK /\ Connected /\ Announced)'
  BY ConnectedStep, AnnouncedStep
<1>3. RegistryTypeOK /\ Announced => OfflineOncePerSilence
  <2> SUFFICES ASSUME RegistryTypeOK, Announced, NEW id \in Ids
               PROVE  Cardinality(EventsOf({"offline"}, id))
                         + (IF id \in offline THEN 1 ELSE 0) <= refreshes[id]
    BY DEF OfflineOncePerSilence
  <2>1. Cardinality(EventsOf({"offline"}, id)) \in Nat /\ refreshes[id] \in Nat
    BY EventsFinite, RegistryAssumption DEF RegistryTypeOK
  <2>2. QED
    BY <2>1 DEF Announced, Announcements, One
<1>4. QED
  BY <1>1, <1>2, <1>3, PTL DEF RegistrySpec

-----------------------------------------------------------------------------
(* A request in progress has changed its component already; with a single  *)
(* one of an id the event it holds tells what the component now is, and    *)
(* without any the last event sent does.                                   *)
Changes == {"registered", "unregistered"}

Of(t, id) == IF job[t] = None THEN FALSE ELSE job[t].id = id

LastRegistered(id) ==
    \E i \in EventsOf(Changes, id) :
        log[i].kind = "registered" /\ \A j \in EventsOf(Changes, id) : j <= i

AgreedOn(id) ==
    /\ \A t, u \in Requests : Of(t, id) /\ Of(u, id) => t = u
    /\ \A t \in Requests : Of(t, id) => (Registered(id) <=> job[t].kind = "registered")
    /\ ~Pending(id) => (Registered(id) <=> LastRegistered(id))

Agreed ==
    /\ \A t \in Requests : job[t] # None => job[t].kind \in Changes
    /\ \A id \in Ids : ~overlapped[id] => AgreedOn(id)

LEMMA AgreedPresence == Agreed => PresenceAgrees
BY DEF Agreed, AgreedOn, PresenceAgrees, LastRegistered, Changes

LEMMA LastOneStays ==
    ASSUME UNCHANGED log, NEW id
    PROVE  LastRegistered(id)' <=> LastRegistered(id)
BY EventsStay DEF LastRegistered

(* The event just sent is the last one of its id, and of no other.         *)
LEMMA LastOneSent ==
    ASSUME log \in Seq(Event), NEW e \in Event, Publish(e), NEW id
    PROVE  /\ e.id = id /\ e.kind \in Changes =>
                (LastRegistered(id)' <=> e.kind = "registered")
           /\ ~(e.id = id /\ e.kind \in Changes) =>
                (LastRegistered(id)' <=> LastRegistered(id))
<1> DEFINE es == EventsOf(Changes, id)
           n == Len(log) + 1
<1>1. /\ Len(log) \in Nat /\ \A i \in 1..Len(log) : log'[i] = log[i]
      /\ log'[n] = e
  BY PublishGrows
<1>2. es \subseteq 1..Len(log)
  BY EventsFinite
<1>3. CASE e.id = id /\ e.kind \in Changes
  <2>1. EventsOf(Changes, id)' = es \cup {n}
    BY <1>3, EventsSent
  <2>2. \A i \in es \cup {n} : i <= n /\ (n <= i => i = n)
    BY <1>1, <1>2
  <2>3. QED
    BY <1>1, <1>3, <2>1, <2>2 DEF LastRegistered
<1>4. CASE ~(e.id = id /\ e.kind \in Changes)
  <2>1. EventsOf(Changes, id)' = es /\ \A i \in es : log'[i] = log[i]
    BY <1>1, <1>2, <1>4, EventsSent
  <2>2. QED
    BY <1>4, <2>1 DEF LastRegistered
<1>5. QED
  BY <1>3, <1>4

LEMMA AgreedInit == RegistryInit => Agreed
<1> SUFFICES ASSUME RegistryInit PROVE Agreed
  OBVIOUS
<1>1. log = <<>>
  BY DEF RegistryInit
<1>2. \A id \in Ids : EventsOf(Changes, id) = {}
  BY <1>1 DEF EventsOf
<1>3. QED
  BY <1>2 DEF RegistryInit, Agreed, AgreedOn, Of, Pending, Registered, LastRegistered

(* A request that changes the component id to what its event tells.        *)
LEMMA AgreedChange ==
    ASSUME RegistryTypeOK, Agreed, NEW t \in Requests, NEW id \in Ids,
           NEW kind \in Changes, job[t] = None, Overlap(id), UNCHANGED log,
           job' = [job EXCEPT ![t] = Happened(kind, id)],
           Registered(id)' <=> kind = "registered",
           \A i \in Ids : i # id => comps'[i] = comps[i]
    PROVE  Agreed'
<1> DEFINE e == Happened(kind, id)
<1>1. e # None /\ e.kind = kind /\ e.id = id
  BY Happens DEF Changes, Kinds
<1>2. job \in [Requests -> Event \cup {None}] /\ overlapped \in [Ids -> BOOLEAN]
  BY DEF RegistryTypeOK
<1>3. \A u \in Requests : job'[u] = IF u = t THEN e ELSE job[u]
  BY <1>2
<1>4. \A u \in Requests : job'[u] # None => job'[u].kind \in Changes
  BY <1>1, <1>3 DEF Agreed
<1>5. ASSUME NEW i \in Ids, i # id, ~overlapped'[i] PROVE AgreedOn(i)'
  <2>1. ~overlapped[i] /\ AgreedOn(i)
    BY <1>2, <1>5 DEF Overlap, Agreed
  <2>2. \A u \in Requests : Of(u, i)' <=> Of(u, i)
    BY <1>1, <1>3, <1>5 DEF Of
  <2>3. \A u \in Requests : Of(u, i) => job'[u] = job[u]
    BY <1>3 DEF Of
  <2>4. Pending(i)' <=> Pending(i)
    BY <2>2 DEF Pending, Of
  <2>5. Registered(i)' <=> Registered(i)
    BY <1>5 DEF Registered
  <2>6. LastRegistered(i)' <=> LastRegistered(i)
    BY LastOneStays
  <2>7. QED
    BY <2>1, <2>2, <2>3, <2>4, <2>5, <2>6 DEF AgreedOn
<1>6. ASSUME ~overlapped'[id] PROVE AgreedOn(id)'
  <2>1. ~Pending(id)
    BY <1>2, <1>6 DEF Overlap
  <2>2. \A u \in Requests : Of(u, id)' <=> u = t
    BY <1>1, <1>3, <2>1 DEF Of, Pending
  <2>3. Pending(id)'
    BY <2>2 DEF Pending, Of
  <2>4. QED
    BY <1>1, <1>3, <2>2, <2>3 DEF AgreedOn
<1>7. QED
  BY <1>4, <1>5, <1>6 DEF Agreed

LEMMA AgreedSame ==
    ASSUME Agreed, UNCHANGED <<log, job, overlapped>>,
           \A id \in Ids : Registered(id)' <=> Registered(id)
    PROVE  Agreed'
<1>1. \A id \in Ids : LastRegistered(id)' <=> LastRegistered(id)
  BY LastOneStays
<1>2. QED
  BY <1>1 DEF Agreed, AgreedOn, Of, Pending

LEMMA AgreedStep ==
    ASSUME RegistryTypeOK, Agreed, [RegistryNext]_rvars
    PROVE  Agreed'
<1>0. /\ log \in Seq(Event) /\ comps \in [Ids -> Component \cup {None}]
      /\ job \in [Requests -> Event \cup {None}]
  BY DEF RegistryTypeOK
<1>1. ASSUME NEW t \in Requests, NEW id \in Ids, Register(t, id) PROVE Agreed'
  <2>0. [fresh |-> TRUE, status |-> "running"] \in Component
    BY DEF Component
  <2>1. [fresh |-> TRUE, status |-> "running"] # None
    BY <2>0, NoneAssumption
  <2>2. Registered(id)'
    BY <1>0, <1>1, <2>1 DEF Register, Registered
  <2>3. QED
    BY <1>0, <1>1, <2>2, AgreedChange DEF Register, Changes
<1>2. ASSUME NEW t \in Requests, NEW id \in Ids, Unregister(t, id) PROVE Agreed'
  <2>1. ~Registered(id)'
    BY <1>0, <1>2 DEF Unregister, Registered
  <2>2. QED
    BY <1>0, <1>2, <2>1, AgreedChange DEF Unregister, Changes
<1>3. ASSUME NEW id \in Ids, Heartbeat(id) PROVE Agreed'
  <2>0. \A s \in {"running", "offline"} : [fresh |-> TRUE, status |-> s] \in Component
    BY DEF Component
  <2>1. \A s \in {"running", "offline"} : [fresh |-> TRUE, status |-> s] # None
    BY <2>0, NoneAssumption
  <2>2. QED
    BY <1>0, <1>3, <2>1, AgreedSame DEF Heartbeat, Registered
<1>4. ASSUME NEW id \in Ids, Silent(id) PROVE Agreed'
  <2>1. [comps[id] EXCEPT !.fresh = FALSE] \in Component
    BY <1>0, <1>4 DEF Silent, Registered, Component
  <2>2. QED
    BY <1>0, <1>4, <2>1, AgreedSame, NoneAssumption DEF Silent, Registered
<1>5. ASSUME CheckHeartbeats PROVE Agreed'
  <2>1. \A id \in Expired : [comps[id] EXCEPT !.status = "offline"] \in Component
    BY <1>0 DEF Expired, Registered, Component
  <2>2. \A id \in Ids : Registered(id)' <=> Registered(id)
    BY <1>0, <1>5, <2>1, NoneAssumption DEF CheckHeartbeats, Expired, Registered
  <2>3. QED
    BY <1>5, <2>2, AgreedSame DEF CheckHeartbeats
<1>6. ASSUME NEW t \in Requests, PublishJob(t) PROVE Agreed'
  <2> DEFINE e == job[t]
  <2>1. e \in Event /\ Publish(e) /\ e.kind \in Changes /\ e # None
    BY <1>0, <1>6 DEF PublishJob, Agreed
  <2>2. /\ UNCHANGED <<comps, overlapped>>
        /\ \A u \in Requests : job'[u] = IF u = t THEN None ELSE job[u]
    BY <1>0, <1>6 DEF PublishJob
  <2>3. \A u \in Requests : job'[u] # None => job'[u].kind \in Changes
    BY <2>2 DEF Agreed
  <2>4. ASSUME NEW id \in Ids, ~overlapped'[id] PROVE AgreedOn(id)'
    <3>1. AgreedOn(id) /\ (Registered(id)' <=> Registered(id))
      BY <2>2, <2>4 DEF Agreed, Registered
    <3>2. \A u \in Requests : Of(u, id)' <=> Of(u, id) /\ u # t
      BY <2>2 DEF Of
    <3>3. Of(t, id) <=> e.id = id
      BY <2>1 DEF Of
    <3>4. CASE e.id = id
      <4>1. LastRegistered(id)' <=> e.kind = "registered"
        BY <1>0, <2>1, <3>4, LastOneSent
      <4>2. Registered(id) <=> e.kind = "registered"
        BY <3>1, <3>3, <3>4 DEF AgreedOn
      <4>3. \A u \in Requests : ~Of(u, id)'
        BY <3>1, <3>2, <3>3, <3>4 DEF AgreedOn
      <4>4. QED
        BY <3>1, <4>1, <4>2, <4>3 DEF AgreedOn
    <3>5. CASE e.id # id
      <4>1. LastRegistered(id)' <=> LastRegistered(id)
        BY <1>0, <2>1, <3>5, LastOneSent
      <4>2. \A u \in Requests : /\ Of(u, id)' <=> Of(u, id)
                                /\ Of(u, id) => job'[u] = job[u]
        BY <2>2, <3>2, <3>3, <3>5
      <4>3. Pending(id)' <=> Pending(id)
        BY <4>2 DEF Pending, Of
      <4>4. QED
        BY <3>1, <4>1, <4>2, <4>3 DEF AgreedOn
    <3>6. QED
      BY <3>4, <3>5
  <2>5. QED
    BY <2>3, <2>4 DEF Agreed
<1>7. ASSUME NEW id \in Ids, PublishOffline(id) PROVE Agreed'
  <2> DEFINE e == Happened("offline", id)
  <2>1. e \in Event /\ e.kind \notin Changes /\ Publish(e)
    BY <1>7, Happens DEF PublishOffline, Kinds, Changes
  <2>2. UNCHANGED <<comps, job, overlapped>>
    BY <1>7 DEF PublishOffline
  <2>3. \A i \in Ids : LastRegistered(i)' <=> LastRegistered(i)
    BY <1>0, <2>1, LastOneSent
  <2>4. QED
    BY <2>2, <2>3 DEF Agreed, AgreedOn, Of, Pending, Registered
<1>8. ASSUME NEW c \in Clients, ClientNext(c) PROVE Agreed'
  <2>1. PICK k : ClientStep(c, k)
    BY <1>8 DEF ClientNext, Connect, Join, Lag, Take, Forward, SendFails, Close,
                Subscribe, Unsubscribe
  <2>2. QED
    BY <2>1, AgreedSame DEF ClientStep, Registered
<1>9. CASE UNCHANGED rvars
  BY <1>9, AgreedSame DEF rvars, Registered
<1>10. QED
  BY <1>1, <1>2, <1>3, <1>4, <1>5, <1>6, <1>7, <1>8, <1>9 DEF RegistryNext, CheckerStep

(* The events tell who is registered, for any number of requests, however  *)
(* the sections and the publishing of different components interleave.     *)
THEOREM EventsTellPresence == RegistrySpec => []PresenceAgrees
<1>1. RegistryInit => RegistryTypeOK /\ Connected /\ Agreed
  BY ConnectedInit, AgreedInit
<1>2. /\ RegistryTypeOK /\ Connected /\ Agreed
      /\ [RegistryNext]_rvars
      => (RegistryTypeOK /\ Connected /\ Agreed)'
  BY ConnectedStep, AgreedStep
<1>3. QED
  BY <1>1, <1>2, AgreedPresence, PTL DEF RegistrySpec
=============================================================================
