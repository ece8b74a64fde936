------------------------------ MODULE Registry ------------------------------
(***************************************************************************)
(* The component registry of src/registry.rs with its API of               *)
(* src/api/apps.rs, and the event bus of src/ws.rs it publishes on.        *)
(*                                                                         *)
(* The registry changes inside one section of its lock; the event is       *)
(* published after the section, in another step, so that the order of the  *)
(* events need not be the order of the changes.  There is no await between *)
(* the two, so that a dropped request drops neither or only its answer.    *)
(***************************************************************************)
EXTENDS Naturals, Sequences, FiniteSets

CONSTANTS
    Ids,          \* component ids
    Requests,     \* concurrent API requests
    Clients,      \* WebSocket clients
    None,         \* not registered, nothing held
    Capacity,     \* events the broadcast channel retains
    Matches,      \* subscription pattern -> the kinds of events it matches
    MaxRefreshes  \* bound: registrations and heartbeats per id

Kinds == {"registered", "unregistered", "offline"}
Patterns == DOMAIN Matches

ASSUME RegistryAssumption ==
    /\ Capacity \in Nat \ {0} /\ MaxRefreshes \in Nat
    /\ Matches \in [Patterns -> SUBSET Kinds]
    /\ "*" \in Patterns /\ Matches["*"] = Kinds

VARIABLES
    comps,       \* id -> component, or None
    job,         \* request -> the event it still has to publish, or None
    offline,     \* ids whose offline event the checker still has to publish
    log,         \* every event sent on the bus
    client,      \* client -> its connection
    refreshes,   \* history: id -> registrations and heartbeats so far
    overlapped   \* history: id -> two requests changed it at the same time

rvars == <<comps, job, offline, log, client, refreshes, overlapped>>

-----------------------------------------------------------------------------
Event == [kind : Kinds, id : Ids]

(* fresh: the last heartbeat is younger than heartbeat_timeout.            *)
Component == [fresh : BOOLEAN, status : {"running", "offline"}]

(* next: the receiver's position on the bus; held: the event taken from it *)
(* and not yet matched.  History: whole is whether the client has had "*"  *)
(* without a break and was told of no lag since, and upto the last event   *)
(* up to which it has been sent all of them from there on, in order.       *)
Connection ==
    [state : {"closed", "accepted", "open", "deaf"}, next : Nat, held : Nat,
     subs : SUBSET Patterns, whole : BOOLEAN, upto : Nat]

ASSUME NoneAssumption == None \notin Event /\ None \notin Component

Closed == [state |-> "closed", next |-> 0, held |-> 0, subs |-> {},
           whole |-> FALSE, upto |-> 0]

RegistryTypeOK ==
    /\ comps \in [Ids -> Component \cup {None}]
    /\ job \in [Requests -> Event \cup {None}]
    /\ offline \subseteq Ids
    /\ log \in Seq(Event)
    /\ client \in [Clients -> Connection]
    /\ \A c \in Clients : client[c].next <= Len(log) + 1 /\ client[c].held <= Len(log)
    /\ refreshes \in [Ids -> 0..MaxRefreshes]
    /\ overlapped \in [Ids -> BOOLEAN]

Registered(id) == comps[id] # None

Pending(id) == \E t \in Requests : IF job[t] = None THEN FALSE ELSE job[t].id = id

Happened(kind, id) == [kind |-> kind, id |-> id]

Publish(e) == log' = Append(log, e)

Refresh(id) ==
    /\ refreshes[id] < MaxRefreshes
    /\ refreshes' = [refreshes EXCEPT ![id] = @ + 1]

Overlap(id) == overlapped' = [overlapped EXCEPT ![id] = @ \/ Pending(id)]

-----------------------------------------------------------------------------
(* The sections of the API requests.                                       *)

Register(t, id) ==
    /\ job[t] = None
    /\ Refresh(id)
    /\ Overlap(id)
    /\ comps' = [comps EXCEPT ![id] = [fresh |-> TRUE, status |-> "running"]]
    /\ job' = [job EXCEPT ![t] = Happened("registered", id)]
    /\ UNCHANGED <<offline, log, client>>

Mutant_Unregister(t, id) ==
    /\ job[t] = None
    /\ Registered(id)
    /\ Overlap(id)
    /\ comps' = [comps EXCEPT ![id] = None]
    /\ UNCHANGED <<job, offline, log, client, refreshes>>

(* Nothing is published when the id was not registered.                    *)
Unregister(t, id) ==
    /\ job[t] = None
    /\ Registered(id)
    /\ Overlap(id)
    /\ comps' = [comps EXCEPT ![id] = None]
    /\ job' = [job EXCEPT ![t] = Happened("unregistered", id)]
    /\ UNCHANGED <<offline, log, client, refreshes>>

(* The component reports its own status, and nothing is published.         *)
Heartbeat(id) ==
    /\ Registered(id)
    /\ Refresh(id)
    /\ \E s \in {"running", "offline"} :
          comps' = [comps EXCEPT ![id] = [fresh |-> TRUE, status |-> s]]
    /\ UNCHANGED <<job, offline, log, client, overlapped>>

Mutant_PublishJob(t) ==
    /\ job[t] # None
    /\ Len(log) < Capacity
    /\ Publish(job[t])
    /\ job' = [job EXCEPT ![t] = None]
    /\ UNCHANGED <<comps, offline, client, refreshes, overlapped>>

PublishJob(t) ==
    /\ job[t] # None
    /\ Publish(job[t])
    /\ job' = [job EXCEPT ![t] = None]
    /\ UNCHANGED <<comps, offline, client, refreshes, overlapped>>

-----------------------------------------------------------------------------
(* The heartbeat checker: one section marks, then it publishes one by one  *)
(* in the order the HashMap gave.                                          *)

Silent(id) ==
    /\ Registered(id)
    /\ comps[id].fresh
    /\ comps' = [comps EXCEPT ![id].fresh = FALSE]
    /\ UNCHANGED <<job, offline, log, client, refreshes, overlapped>>

Mutant_Expired == {id \in Ids : IF Registered(id) THEN ~comps[id].fresh ELSE FALSE}

Expired ==
    {id \in Ids : IF Registered(id)
                  THEN ~comps[id].fresh /\ comps[id].status # "offline"
                  ELSE FALSE}

CheckHeartbeats ==
    /\ offline = {}
    /\ Expired # {}
    /\ comps' = [id \in Ids |-> IF id \in Expired
                               THEN [comps[id] EXCEPT !.status = "offline"]
                               ELSE comps[id]]
    /\ offline' = Expired
    /\ UNCHANGED <<job, log, client, refreshes, overlapped>>

Mutant_PublishOffline(id) ==
    /\ id \in offline
    /\ Len(log) < Capacity
    /\ Publish(Happened("offline", id))
    /\ offline' = offline \ {id}
    /\ UNCHANGED <<comps, job, client, refreshes, overlapped>>

PublishOffline(id) ==
    /\ id \in offline
    /\ Publish(Happened("offline", id))
    /\ offline' = offline \ {id}
    /\ UNCHANGED <<comps, job, client, refreshes, overlapped>>

-----------------------------------------------------------------------------
(* A WebSocket connection: the reader keeps the subscriptions, the         *)
(* forwarder takes events from its receiver, matches and sends them.       *)

ClientStep(c, k) ==
    /\ client' = [client EXCEPT ![c] = k]
    /\ UNCHANGED <<comps, job, offline, log, refreshes, overlapped>>

(* The handshake wants the token of some registered component; the socket *)
(* joins the bus later, whatever has become of the component.              *)
Connect(c) ==
    /\ client[c].state = "closed"
    /\ \E id \in Ids : Registered(id)
    /\ ClientStep(c, [Closed EXCEPT !.state = "accepted"])

Join(c) ==
    /\ client[c].state = "accepted"
    /\ ClientStep(c, [Closed EXCEPT !.state = "open", !.next = Len(log) + 1])

Broken(k) == [k EXCEPT !.whole = FALSE, !.upto = 0]

Subscribe(c, pat) ==
    LET k == client[c]
        j == [k EXCEPT !.subs = @ \cup {pat}]
    IN  /\ k.state \in {"open", "deaf"} /\ pat \notin k.subs
        /\ ClientStep(c, IF pat = "*" /\ k.state = "open"
                         THEN [j EXCEPT !.whole = TRUE, !.upto = k.next - 1]
                         ELSE j)

Unsubscribe(c, pat) ==
    LET k == client[c]
        j == [k EXCEPT !.subs = @ \ {pat}]
    IN  /\ k.state \in {"open", "deaf"} /\ pat \in k.subs
        /\ ClientStep(c, IF pat = "*" THEN Broken(j) ELSE j)

(* The oldest event the channel still retains: send overwrites the oldest  *)
(* one when the channel is full.                                           *)
Oldest == IF Len(log) > Capacity THEN Len(log) - Capacity + 1 ELSE 1

(* A lagging receiver that gives up all that is retained for it.           *)
Mutant_Lag(c) ==
    LET k == client[c]
    IN  /\ k.state = "open" /\ k.held = 0
        /\ k.next < Oldest
        /\ ClientStep(c, Broken([k EXCEPT !.next = Len(log) + 1]))

Lag(c) ==
    LET k == client[c]
    IN  /\ k.state = "open" /\ k.held = 0
        /\ k.next < Oldest
        /\ ClientStep(c, Broken([k EXCEPT !.next = Oldest]))

Mutant_Take(c) ==
    LET k == client[c]
    IN  /\ k.state = "open"
        /\ k.next \in Oldest..Len(log)
        /\ ClientStep(c, [k EXCEPT !.next = @ + 1, !.held = k.next])

Mutant_TakeEarly(c) ==
    LET k == client[c]
    IN  /\ k.state = "open" /\ k.held = 0
        /\ k.next \in Oldest..(Len(log) + 1)
        /\ ClientStep(c, [k EXCEPT !.next = @ + 1, !.held = k.next])

Take(c) ==
    LET k == client[c]
    IN  /\ k.state = "open" /\ k.held = 0
        /\ k.next \in Oldest..Len(log)
        /\ ClientStep(c, [k EXCEPT !.next = @ + 1, !.held = k.next])

event_matches(e, subs) == \E pat \in subs : e.kind \in Matches[pat]

(* Matched against the subscriptions of this moment, then sent.            *)
Forward(c) ==
    LET k == client[c]
        sent == event_matches(log[k.held], k.subs)
    IN  /\ k.state = "open" /\ k.held # 0
        /\ ClientStep(c, [k EXCEPT !.held = 0,
              !.upto = IF sent /\ k.whole /\ k.held = @ + 1 THEN k.held ELSE @])

(* A failed send, of the event in hand or of a Pong in between, ends the   *)
(* forwarder; the reader goes on until the client closes.                  *)
SendFails(c) ==
    LET k == client[c]
    IN  /\ k.state = "open"
        /\ k.held # 0 => event_matches(log[k.held], k.subs)
        /\ ClientStep(c, Broken([k EXCEPT !.state = "deaf", !.held = 0]))

Close(c) == client[c].state # "closed" /\ ClientStep(c, Closed)

-----------------------------------------------------------------------------
RegistryInit ==
    /\ comps = [id \in Ids |-> None]
    /\ job = [t \in Requests |-> None]
    /\ offline = {}
    /\ log = <<>>
    /\ client = [c \in Clients |-> Closed]
    /\ refreshes = [id \in Ids |-> 0]
    /\ overlapped = [id \in Ids |-> FALSE]

CheckerStep == CheckHeartbeats \/ \E id \in Ids : PublishOffline(id)

ClientNext(c) ==
    \/ Connect(c) \/ Join(c) \/ Lag(c) \/ Take(c) \/ Forward(c) \/ SendFails(c) \/ Close(c)
    \/ \E pat \in Patterns : Subscribe(c, pat) \/ Unsubscribe(c, pat)

RegistryNext ==
    \/ \E t \in Requests, id \in Ids : Register(t, id) \/ Unregister(t, id)
    \/ \E t \in Requests : PublishJob(t)
    \/ \E id \in Ids : Heartbeat(id) \/ Silent(id)
    \/ CheckerStep
    \/ \E c \in Clients : ClientNext(c)

RegistrySpec == RegistryInit /\ [][RegistryNext]_rvars

(* The checker's timer fires again and again and a request goes on to its  *)
(* publish.  Nothing is assumed of the clients: a slow one must not matter. *)
RegistryFairSpec ==
    /\ RegistrySpec
    /\ WF_rvars(CheckerStep)
    /\ \A t \in Requests : WF_rvars(PublishJob(t))

-----------------------------------------------------------------------------
EventsOf(kinds, id) ==
    {i \in 1..Len(log) : log[i].id = id /\ log[i].kind \in kinds}

(* A silence is announced once: no more offline events of a component,     *)
(* sent or about to be, than registrations and heartbeats before them.     *)
OfflineOncePerSilence ==
    \A id \in Ids :
        Cardinality(EventsOf({"offline"}, id)) + (IF id \in offline THEN 1 ELSE 0)
            <= refreshes[id]

(* Who follows the events knows who is registered: when nothing is about   *)
(* to be published of an id, and its requests never overlapped, the last   *)
(* of its registered and unregistered events tells.                        *)
PresenceAgrees ==
    \A id \in Ids : ~Pending(id) /\ ~overlapped[id] =>
        LET es == EventsOf({"registered", "unregistered"}, id)
        IN  Registered(id) <=>
               \E i \in es : log[i].kind = "registered" /\ \A j \in es : j <= i

(* A client that has subscribed to everything is sent every event from     *)
(* then on and in their order, but for the one in hand, unless the         *)
(* forwarder is told that the receiver lagged.                             *)
SubscriberMissesNothing ==
    \A c \in Clients : LET k == client[c] IN
        k.whole => \A i \in (k.upto + 1)..(k.next - 1) : i = k.held

(* Every connection is a reader of a feed that keeps Capacity events: the  *)
(* event in hand is the first it is not done with.                         *)
Reader(k) ==
    IF k.state = "open"
    THEN [open |-> TRUE, pos |-> IF k.held = 0 THEN k.next - 1 ELSE k.next - 2]
    ELSE [open |-> FALSE, pos |-> 0]

Feed == INSTANCE LossyFeed
            WITH feed <- log, reader <- [c \in Clients |-> Reader(client[c])],
                 Events <- Event, Readers <- Clients

(* The bus with its tasks is such a feed: events reach a connection in the *)
(* order they were sent, none twice, and only the oldest are given up by   *)
(* one that lags.                                                          *)
RefinesLossyFeed == Feed!Spec

(* A component that fell silent is marked offline, unless it comes back or *)
(* leaves.                                                                 *)
SilenceNoticed == \A id \in Ids : id \in Expired ~> id \notin Expired

(* Every change is announced, however slow the clients are.                *)
ChangesAnnounced == \A id \in Ids : Pending(id) ~> ~Pending(id)
=============================================================================
