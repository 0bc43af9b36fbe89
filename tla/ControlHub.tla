----------------------------- MODULE ControlHub -----------------------------
(***************************************************************************)
(* Wake-up of connected clients (service/control.go, handler/control.go,   *)
(* service/admin.go, service/announcement.go).  A change is committed to   *)
(* the database and only then published to the in-memory hub; each open    *)
(* event stream owns a channel of capacity one, and a full channel drops   *)
(* the new event.  The client never trusts an event: it confirms the state *)
(* with a heartbeat, or by listing its announcements.                      *)
(***************************************************************************)
EXTENDS Naturals, Sequences

CONSTANTS
  User,        \* accounts
  Client,      \* client programs
  UserOf,      \* the account each client is logged in with
  Id,          \* subscriber ids; one is used again once nobody refers to it
  Publisher,   \* slots for administrator requests in flight
  NoId,        \* the absence of a stream
  WireSize,    \* bound: events written to a connection and not yet read
  MaxChanges,  \* bound: changes committed per account, for each kind
  MaxBreaks    \* bound: connections broken and restarts, in total

(* What an event may be about: account_status_changed and access_changed,  *)
(* or announcement_published and announcement_changed.                     *)
Kind == {"account", "announcement"}
Event == Kind \cup {"connected"}

ASSUME ConstantsAssumption ==
  /\ UserOf \in [Client -> User]
  /\ NoId \notin Id
  /\ WireSize \in Nat \ {0}
  /\ MaxChanges \in [Kind -> Nat]
  /\ MaxBreaks \in Nat

VARIABLES
  truth,        \* number of changes committed, per account and kind
  view,         \* the truth each client has last confirmed
  asked,        \* what each client is asking the server for
  lost,         \* history: changes that no signal will carry, per kind
  pub,          \* publishers: events still to be handed to the hub
  subscribers,  \* the hub: subscriber ids of each account
  slot,         \* the hub: the channel of each subscriber
  handler,      \* the goroutine serving each stream
  client,       \* the client at the other end of each stream
  wire,         \* events written to each stream and not yet read
  conn,         \* the stream each client believes to have
  breaks        \* breaks so far

clientVars == <<view, asked, conn>>
hubVars == <<subscribers, slot>>
streamVars == <<handler, client, wire>>
vars == <<truth, view, asked, lost, pub, subscribers, slot, handler, client, wire,
          conn, breaks>>

Idle == [kind |-> "account", todo |-> {}, all |-> FALSE]

Init ==
  /\ truth = [u \in User |-> [k \in Kind |-> 0]]
  /\ view = [c \in Client |-> [k \in Kind |-> 0]]
  /\ asked = [c \in Client |-> {}]
  /\ lost = [k \in Kind |-> IF k = "announcement" THEN Client ELSE {}]
  /\ pub = [p \in Publisher |-> Idle]
  /\ subscribers = [u \in User |-> {}]
  /\ slot = [i \in Id |-> "closed"]
  /\ handler = [i \in Id |-> "none"]
  /\ client \in [Id -> Client]
  /\ wire = [i \in Id |-> <<>>]
  /\ conn = [c \in Client |-> NoId]
  /\ breaks = 0

Clients(us) == {c \in Client : UserOf[c] \in us}

(* Announcements are not pulled again when a stream reconnects: what a     *)
(* client misses while it has no subscription is left to its poll.         *)
Unsubscribed(cs) == [lost EXCEPT !["announcement"] = @ \cup cs]

-----------------------------------------------------------------------------
(* The administrator's request: the commit, then the publication. *)

(* UpdateUserAccess and UpdateUserStatus. *)
UpdateAccount(p, u) ==
  /\ pub[p] = Idle
  /\ truth[u]["account"] < MaxChanges["account"]
  /\ truth' = [truth EXCEPT ![u]["account"] = @ + 1]
  /\ pub' = [pub EXCEPT ![p] = [kind |-> "account", todo |-> {u}, all |-> FALSE]]
  /\ UNCHANGED <<clientVars, lost, hubVars, streamVars, breaks>>

(* Publish, Update, Unpublish and Delete of an announcement that changes   *)
(* the list of the accounts us.  The publication of a targeted one is sent *)
(* to its targets one by one, anything else is broadcast.                  *)
ChangeAnnouncement(p, us, all) ==
  /\ pub[p] = Idle
  /\ us # {}
  /\ \A u \in us : truth[u]["announcement"] < MaxChanges["announcement"]
  /\ truth' = [u \in User |-> IF u \in us THEN [truth[u] EXCEPT !["announcement"] = @ + 1]
                                          ELSE truth[u]]
  /\ pub' = [pub EXCEPT ![p] = [kind |-> "announcement", all |-> all,
                                todo |-> IF all THEN User ELSE us]]
  /\ UNCHANGED <<clientVars, lost, hubVars, streamVars, breaks>>

(* The non-blocking send to every channel of the accounts us. *)
Offer(us, e) ==
  slot' = [i \in Id |-> IF slot[i] = "empty" /\ \E u \in us : i \in subscribers[u]
                        THEN e ELSE slot[i]]

(* PublishEvent, under the read lock. *)
Publish(p, u) ==
  /\ u \in pub[p].todo
  /\ ~pub[p].all
  /\ Offer({u}, pub[p].kind)
  /\ pub' = [pub EXCEPT ![p] = IF pub[p].todo = {u} THEN Idle
                               ELSE [pub[p] EXCEPT !.todo = @ \ {u}]]
  /\ UNCHANGED <<truth, clientVars, lost, subscribers, streamVars, breaks>>

Broadcast(p) ==
  /\ pub[p].all
  /\ Offer(pub[p].todo, pub[p].kind)
  /\ pub' = [pub EXCEPT ![p] = Idle]
  /\ UNCHANGED <<truth, clientVars, lost, subscribers, streamVars, breaks>>

(* The request ends between the commit and the publication: RevokeAll      *)
(* failed, or the announcement could not be read again.                    *)
PublishSkipped(p) ==
  /\ pub[p] # Idle
  /\ lost' = [lost EXCEPT ![pub[p].kind] = @ \cup Clients(pub[p].todo)]
  /\ pub' = [pub EXCEPT ![p] = Idle]
  /\ UNCHANGED <<truth, clientVars, hubVars, streamVars, breaks>>

-----------------------------------------------------------------------------
(* The stream handler. *)

Subscribe(c, i) ==
  /\ handler[i] = "none"
  /\ \A d \in Client : conn[d] # i
  /\ handler' = [handler EXCEPT ![i] = "starting"]
  /\ client' = [client EXCEPT ![i] = c]
  /\ slot' = [slot EXCEPT ![i] = "empty"]
  /\ subscribers' = [subscribers EXCEPT ![UserOf[c]] = @ \cup {i}]

(* Does what handler i writes still reach its client? *)
Attached(i) == conn[client[i]] = i
Write(i, e) == wire' = IF Attached(i) THEN [wire EXCEPT ![i] = Append(@, e)] ELSE wire

(* Mutant of WriteConnected: the stream opens without the first event. *)
OpenSilently(i) ==
  /\ handler[i] = "starting"
  /\ handler' = [handler EXCEPT ![i] = "open"]
  /\ UNCHANGED <<truth, clientVars, lost, pub, hubVars, client, wire, breaks>>

(* The "connected" event, written once the subscription exists. *)
WriteConnected(i) ==
  /\ handler[i] = "starting"
  /\ Write(i, "connected")
  /\ handler' = [handler EXCEPT ![i] = "open"]
  /\ UNCHANGED <<truth, clientVars, lost, pub, hubVars, client, breaks>>

(* Mutant of Deliver: the loop does not wait for an event to arrive, and   *)
(* writes the empty one.                                                   *)
DeliverWithoutWaiting(i) ==
  /\ handler[i] = "open"
  /\ Len(wire[i]) < WireSize
  /\ Write(i, slot[i])
  /\ slot' = [slot EXCEPT ![i] = "empty"]
  /\ UNCHANGED <<truth, clientVars, lost, pub, subscribers, handler, client, breaks>>

(* The select loop takes the pending event and writes it; a connection     *)
(* whose reader is slow blocks the write.                                  *)
Deliver(i) ==
  /\ handler[i] = "open"
  /\ slot[i] \in Kind
  /\ Len(wire[i]) < WireSize
  /\ Write(i, slot[i])
  /\ slot' = [slot EXCEPT ![i] = "empty"]
  /\ UNCHANGED <<truth, clientVars, lost, pub, subscribers, handler, client, breaks>>

(* Mutant of HandlerEnds: unsubscribing drops the account's whole map. *)
ForgetAccount(i) ==
  /\ handler[i] # "none"
  /\ Attached(i) => breaks < MaxBreaks
  /\ breaks' = IF Attached(i) THEN breaks + 1 ELSE breaks
  /\ handler' = [handler EXCEPT ![i] = "none"]
  /\ subscribers' = [subscribers EXCEPT ![UserOf[client[i]]] = {}]
  /\ slot' = [slot EXCEPT ![i] = "closed"]
  /\ lost' = IF Attached(i) THEN Unsubscribed({client[i]}) ELSE lost
  /\ UNCHANGED <<truth, clientVars, pub, client, wire>>

(* Mutant of HandlerEnds: the handler returns without unsubscribing. *)
LeaveSubscribed(i) ==
  /\ handler[i] # "none"
  /\ Attached(i) => breaks < MaxBreaks
  /\ breaks' = IF Attached(i) THEN breaks + 1 ELSE breaks
  /\ handler' = [handler EXCEPT ![i] = "none"]
  /\ lost' = IF Attached(i) THEN Unsubscribed({client[i]}) ELSE lost
  /\ UNCHANGED <<truth, clientVars, pub, hubVars, client, wire>>

(* The request context is done or a write failed: the deferred unsubscribe *)
(* removes this id only and closes its channel.  The client may not have   *)
(* noticed yet.                                                            *)
HandlerEnds(i) ==
  /\ handler[i] # "none"
  /\ Attached(i) => breaks < MaxBreaks
  /\ breaks' = IF Attached(i) THEN breaks + 1 ELSE breaks
  /\ handler' = [handler EXCEPT ![i] = "none"]
  /\ subscribers' = [subscribers EXCEPT ![UserOf[client[i]]] = @ \ {i}]
  /\ slot' = [slot EXCEPT ![i] = "closed"]
  /\ lost' = IF Attached(i) THEN Unsubscribed({client[i]}) ELSE lost
  /\ UNCHANGED <<truth, clientVars, pub, client, wire>>

-----------------------------------------------------------------------------
(* The client, as the documents describe it. *)

(* It (re)connects its event stream; the server runs Subscribe. *)
Connect(c, i) ==
  /\ conn[c] = NoId
  /\ Subscribe(c, i)
  /\ conn' = [conn EXCEPT ![c] = i]
  /\ UNCHANGED <<truth, view, asked, lost, pub, wire, breaks>>

Disconnect(c) ==
  /\ conn' = [conn EXCEPT ![c] = NoId]
  /\ wire' = [wire EXCEPT ![conn[c]] = <<>>]
  /\ lost' = Unsubscribed({c})

(* The connection breaks, and the handler has yet to notice. *)
ConnectionBreaks(c) ==
  /\ conn[c] # NoId
  /\ breaks < MaxBreaks
  /\ breaks' = breaks + 1
  /\ Disconnect(c)
  /\ UNCHANGED <<truth, view, asked, pub, hubVars, handler, client>>

(* The client notices that the server has closed the stream. *)
NoticeClosed(c) ==
  /\ conn[c] # NoId
  /\ handler[conn[c]] = "none"
  /\ wire[conn[c]] = <<>>
  /\ Disconnect(c)
  /\ UNCHANGED <<truth, view, asked, pub, hubVars, handler, client, breaks>>

(* Any event makes it confirm its account at once; one about an            *)
(* announcement makes it list its announcements as well.                   *)
Receive(c) ==
  LET i == conn[c] IN
  /\ i # NoId
  /\ wire[i] # <<>>
  /\ asked[c] = {}
  /\ asked' = [asked EXCEPT ![c] = {"account"} \cup ({Head(wire[i])} \cap Kind)]
  /\ wire' = [wire EXCEPT ![i] = Tail(@)]
  /\ UNCHANGED <<truth, view, lost, pub, hubVars, handler, client, conn, breaks>>

(* The poll that runs every minute whatever the stream does. *)
Poll(c) ==
  /\ asked[c] = {}
  /\ asked' = [asked EXCEPT ![c] = Kind]
  /\ UNCHANGED <<truth, view, lost, pub, hubVars, streamVars, conn, breaks>>

(* HeartbeatService.Report and ListForUser answer with the committed       *)
(* state.                                                                  *)
Confirm(c, k) ==
  LET subscribed == \E i \in subscribers[UserOf[c]] : conn[c] = i IN
  /\ k \in asked[c]
  /\ asked' = [asked EXCEPT ![c] = @ \ {k}]
  /\ view' = [view EXCEPT ![c][k] = truth[UserOf[c]][k]]
  /\ lost' = IF k = "account" \/ subscribed THEN [lost EXCEPT ![k] = @ \ {c}] ELSE lost
  /\ UNCHANGED <<truth, pub, hubVars, streamVars, conn, breaks>>

-----------------------------------------------------------------------------

(* The process restarts: the hub, the streams and the requests in flight   *)
(* are gone, the database stays.                                           *)
Restart ==
  /\ breaks < MaxBreaks
  /\ breaks' = breaks + 1
  /\ subscribers' = [u \in User |-> {}]
  /\ slot' = [i \in Id |-> "closed"]
  /\ handler' = [i \in Id |-> "none"]
  /\ wire' = [i \in Id |-> <<>>]
  /\ conn' = [c \in Client |-> NoId]
  /\ pub' = [p \in Publisher |-> Idle]
  /\ lost' = [k \in Kind |->
                IF k = "announcement" THEN Client
                ELSE lost[k] \cup UNION {Clients(pub[p].todo) :
                                           p \in {q \in Publisher : pub[q].kind = k}}]
  /\ UNCHANGED <<truth, view, asked, client>>

Next ==
  \/ \E p \in Publisher :
       \/ \E u \in User : UpdateAccount(p, u) \/ Publish(p, u)
       \/ \E us \in SUBSET User, all \in BOOLEAN : ChangeAnnouncement(p, us, all)
       \/ Broadcast(p)
       \/ PublishSkipped(p)
  \/ \E i \in Id : WriteConnected(i) \/ Deliver(i) \/ HandlerEnds(i)
  \/ \E c \in Client :
       \/ \E i \in Id : Connect(c, i)
       \/ \E k \in Kind : Confirm(c, k)
       \/ ConnectionBreaks(c) \/ NoticeClosed(c) \/ Receive(c) \/ Poll(c)
  \/ Restart

(* Goroutines are scheduled, a broken connection is noticed at both ends   *)
(* and the client reconnects and answers what it reads.  Nothing is        *)
(* assumed of administrators, of breaks, or of the poll.                   *)
Fairness ==
  /\ \A p \in Publisher : WF_vars((\E u \in User : Publish(p, u)) \/ Broadcast(p))
  /\ \A i \in Id : /\ WF_vars(WriteConnected(i))
                   /\ WF_vars(Deliver(i))
                   /\ WF_vars(~Attached(i) /\ HandlerEnds(i))
  /\ \A c \in Client : /\ WF_vars(\E i \in Id : Connect(c, i))
                       /\ WF_vars(NoticeClosed(c))
                       /\ WF_vars(Receive(c))
                       /\ \A k \in Kind : WF_vars(Confirm(c, k))

Spec == Init /\ [][Next]_vars /\ Fairness

-----------------------------------------------------------------------------
(* Properties. *)

(* Every variable keeps its type: a channel only ever carries events of a *)
(* known kind, and a client asks only for what the server can answer.      *)
TypeOK ==
  /\ truth \in [User -> [Kind -> Nat]]
  /\ view \in [Client -> [Kind -> Nat]]
  /\ asked \in [Client -> SUBSET Kind]
  /\ lost \in [Kind -> SUBSET Client]
  /\ pub \in [Publisher -> [kind : Kind, todo : SUBSET User, all : BOOLEAN]]
  /\ subscribers \in [User -> SUBSET Id]
  /\ slot \in [Id -> Kind \cup {"empty", "closed"}]
  /\ handler \in [Id -> {"none", "starting", "open"}]
  /\ client \in [Id -> Client]
  /\ wire \in [Id -> Seq(Event)]
  /\ conn \in [Client -> Id \cup {NoId}]
  /\ breaks \in 0 .. MaxBreaks

Stale(c, k) == view[c][k] # truth[UserOf[c]][k]

Unpublished(c, k) == \E p \in Publisher : pub[p].kind = k /\ UserOf[c] \in pub[p].todo

(* Is a confirmation of the account of c under way?  A client without a    *)
(* stream will be told to confirm when it has one again.                   *)
Due(c) ==
  \/ Unpublished(c, "account")
  \/ "account" \in asked[c]
  \/ conn[c] = NoId
  \/ LET i == conn[c] IN
       \/ handler[i] \in {"none", "starting"}
       \/ slot[i] \in Kind
       \/ wire[i] # <<>>

(* control.go: "Keeping one pending signal is sufficient."  A client whose *)
(* picture of its account is out of date has a confirmation coming,        *)
(* although events are dropped, streams overlap and the server restarts;   *)
(* the exception is a publication that never happened.                     *)
NoLostWakeup ==
  \A c \in Client : Stale(c, "account") => Due(c) \/ c \in lost["account"]

(* The hub holds exactly the channels of the running handlers, each under  *)
(* the account of its client and open: a send never meets a closed channel *)
(* (it would panic), and no subscription outlives its stream.              *)
SubscriptionsMatchHandlers ==
  \A i \in Id :
    /\ \A u \in User : i \in subscribers[u] <=> handler[i] # "none" /\ UserOf[client[i]] = u
    /\ slot[i] = "closed" <=> handler[i] = "none"

(* Signals alone bring every client up to date, without waiting for the    *)
(* poll, unless a publication never happened.                              *)
SignalsReachClients ==
  \A c \in Client : Stale(c, "account") ~> ~Stale(c, "account") \/ c \in lost["account"]

(* What the hub is for, said without it. *)
W == INSTANCE WakeUp WITH
       change <- [u \in User |-> truth[u]["account"]],
       known <- [c \in Client |-> view[c]["account"]],
       due <- {c \in Client : Due(c)},
       dropped <- lost["account"]

(* The hub implements a wake-up service that drops nothing silently. *)
ImplementsWakeUp == W!Spec

=============================================================================
