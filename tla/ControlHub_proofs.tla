-------------------------- MODULE ControlHub_proofs -------------------------
(***************************************************************************)
(* Machine-checked proofs about ControlHub, for any accounts, clients,     *)
(* streams and administrators and any number of changes and breaks.        *)
(***************************************************************************)
EXTENDS ControlHub, TLAPS

(* A stream that a client believes to have is served to that client: the   *)
(* id of a stream is not used again while somebody refers to it.           *)
StreamsAreTheirs == \A c \in Client : conn[c] # NoId => client[conn[c]] = c

IInv == TypeOK /\ SubscriptionsMatchHandlers /\ StreamsAreTheirs

-----------------------------------------------------------------------------
(* Types. *)

LEMMA IdleType ==
  /\ Idle \in [kind : Kind, todo : SUBSET User, all : BOOLEAN]
  /\ Idle.todo = {} /\ Idle.all = FALSE
BY DEF Idle, Kind

LEMMA InitInvariant == Init => IInv
<1> SUFFICES ASSUME Init PROVE IInv
  OBVIOUS
<1>1. TypeOK
  BY ConstantsAssumption, IdleType DEF Init, TypeOK, Kind
<1>2. SubscriptionsMatchHandlers
  BY DEF Init, SubscriptionsMatchHandlers
<1>3. StreamsAreTheirs
  BY DEF Init, StreamsAreTheirs
<1> QED
  BY <1>1, <1>2, <1>3 DEF IInv

LEMMA OfferTypes ==
  ASSUME TypeOK, NEW us, NEW e \in Kind, Offer(us, e)
  PROVE  /\ slot' \in [Id -> Kind \cup {"empty", "closed"}]
         /\ \A i \in Id : /\ slot[i] = "closed" <=> slot'[i] = "closed"
                          /\ slot[i] \in Kind => slot'[i] \in Kind
                          /\ slot[i] = "empty" /\ (\E u \in us : i \in subscribers[u]) =>
                               slot'[i] \in Kind
BY DEF TypeOK, Offer, Kind

LEMMA WriteTypes ==
  ASSUME TypeOK, NEW i \in Id, NEW e \in Event, Write(i, e)
  PROVE  /\ wire' \in [Id -> Seq(Event)]
         /\ \A j \in Id : j # i => wire'[j] = wire[j]
         /\ Attached(i) => wire'[i] # <<>>
<1>1. wire \in [Id -> Seq(Event)]
  BY DEF TypeOK
<1>2. CASE Attached(i)
  <2>1. wire' = [wire EXCEPT ![i] = Append(wire[i], e)]
    BY <1>2 DEF Write
  <2>2. Append(wire[i], e) \in Seq(Event) /\ Append(wire[i], e) # <<>>
    BY <1>1
  <2> QED
    BY <1>1, <2>1, <2>2
<1>3. CASE ~Attached(i)
  BY <1>1, <1>3 DEF Write
<1> QED
  BY <1>2, <1>3

(* What each kind of step leaves alone. *)

LEMMA PublisherTypes ==
  ASSUME TypeOK, NEW p \in Publisher,
         \/ \E u \in User : UpdateAccount(p, u) \/ Publish(p, u)
         \/ \E us \in SUBSET User, all \in BOOLEAN : ChangeAnnouncement(p, us, all)
         \/ Broadcast(p)
         \/ PublishSkipped(p)
  PROVE  TypeOK'
<1>0. /\ truth \in [User -> [Kind -> Nat]]
      /\ lost \in [Kind -> SUBSET Client]
      /\ pub \in [Publisher -> [kind : Kind, todo : SUBSET User, all : BOOLEAN]]
      /\ pub[p] \in [kind : Kind, todo : SUBSET User, all : BOOLEAN]
      /\ pub[p].kind \in Kind /\ pub[p].todo \in SUBSET User
  BY DEF TypeOK
<1>1. ASSUME NEW u \in User, UpdateAccount(p, u)
      PROVE  TypeOK'
  <2>1. [truth[u] EXCEPT !["account"] = truth[u]["account"] + 1] \in [Kind -> Nat]
    BY <1>0 DEF Kind
  <2>2. truth' \in [User -> [Kind -> Nat]]
    BY <1>0, <1>1, <2>1 DEF UpdateAccount
  <2>3. pub' \in [Publisher -> [kind : Kind, todo : SUBSET User, all : BOOLEAN]]
    BY <1>0, <1>1 DEF UpdateAccount, Kind
  <2> QED
    BY <1>1, <2>2, <2>3 DEF UpdateAccount, TypeOK, clientVars, hubVars, streamVars
<1>2. ASSUME NEW u \in User, Publish(p, u)
      PROVE  TypeOK'
  <2>1. slot' \in [Id -> Kind \cup {"empty", "closed"}]
    BY <1>0, <1>2, OfferTypes DEF Publish
  <2>2. pub' \in [Publisher -> [kind : Kind, todo : SUBSET User, all : BOOLEAN]]
    <3>1. [pub[p] EXCEPT !.todo = pub[p].todo \ {u}]
            \in [kind : Kind, todo : SUBSET User, all : BOOLEAN]
      BY <1>0
    <3> DEFINE left == IF pub[p].todo = {u} THEN Idle
                       ELSE [pub[p] EXCEPT !.todo = pub[p].todo \ {u}]
    <3>2. left \in [kind : Kind, todo : SUBSET User, all : BOOLEAN]
      BY <3>1, IdleType
    <3>3. pub' = [pub EXCEPT ![p] = left]
      BY <1>2 DEF Publish
    <3> HIDE DEF left
    <3> QED
      BY <1>0, <3>2, <3>3
  <2> QED
    BY <1>2, <2>1, <2>2 DEF Publish, TypeOK, clientVars, streamVars
<1>3. ASSUME NEW us \in SUBSET User, NEW all \in BOOLEAN, ChangeAnnouncement(p, us, all)
      PROVE  TypeOK'
  <2>1. \A u \in User : [truth[u] EXCEPT !["announcement"] = truth[u]["announcement"] + 1]
                          \in [Kind -> Nat]
    <3> SUFFICES ASSUME NEW u \in User
                 PROVE  [truth[u] EXCEPT !["announcement"] = truth[u]["announcement"] + 1]
                          \in [Kind -> Nat]
      OBVIOUS
    <3>1. truth[u] \in [Kind -> Nat] /\ truth[u]["announcement"] + 1 \in Nat
      BY <1>0 DEF Kind
    <3> QED
      BY <3>1
  <2>2. truth' \in [User -> [Kind -> Nat]]
    <3> DEFINE row(u) == IF u \in us
                         THEN [truth[u] EXCEPT !["announcement"] = truth[u]["announcement"] + 1]
                         ELSE truth[u]
    <3>1. \A u \in User : row(u) \in [Kind -> Nat]
      BY <1>0, <2>1
    <3>2. truth' = [u \in User |-> row(u)]
      BY <1>3 DEF ChangeAnnouncement
    <3> HIDE DEF row
    <3> QED
      BY <3>1, <3>2
  <2>3. pub' \in [Publisher -> [kind : Kind, todo : SUBSET User, all : BOOLEAN]]
    BY <1>0, <1>3 DEF ChangeAnnouncement, Kind
  <2> QED
    BY <1>3, <2>2, <2>3 DEF ChangeAnnouncement, TypeOK, clientVars, hubVars, streamVars
<1>4. CASE Broadcast(p)
  <2>1. slot' \in [Id -> Kind \cup {"empty", "closed"}]
    BY <1>0, <1>4, OfferTypes DEF Broadcast
  <2> QED
    BY <1>0, <1>4, <2>1, IdleType DEF Broadcast, TypeOK, clientVars, streamVars
<1>5. CASE PublishSkipped(p)
  <2>1. lost[pub[p].kind] \cup Clients(pub[p].todo) \in SUBSET Client
    BY <1>0 DEF Clients
  <2>2. lost' \in [Kind -> SUBSET Client]
    BY <1>0, <1>5, <2>1 DEF PublishSkipped
  <2> QED
    BY <1>0, <1>5, <2>2, IdleType DEF PublishSkipped, TypeOK, clientVars, hubVars, streamVars
<1> QED
  BY <1>1, <1>2, <1>3, <1>4, <1>5

LEMMA UnsubscribedTypes ==
  ASSUME TypeOK, NEW cs \in SUBSET Client
  PROVE  /\ Unsubscribed(cs) \in [Kind -> SUBSET Client]
         /\ Unsubscribed(cs)["account"] = lost["account"]
<1>1. lost \in [Kind -> SUBSET Client] /\ "announcement" \in Kind /\ "account" \in Kind
  BY DEF TypeOK, Kind
<1>2. lost["announcement"] \cup cs \in SUBSET Client
  BY <1>1
<1> QED
  BY <1>1, <1>2 DEF Unsubscribed

LEMMA StreamTypes ==
  ASSUME TypeOK, NEW i \in Id, WriteConnected(i) \/ Deliver(i) \/ HandlerEnds(i)
  PROVE  TypeOK'
<1>0. /\ slot \in [Id -> Kind \cup {"empty", "closed"}]
      /\ handler \in [Id -> {"none", "starting", "open"}]
      /\ client[i] \in Client
      /\ subscribers \in [User -> SUBSET Id]
      /\ UserOf[client[i]] \in User
      /\ breaks \in 0 .. MaxBreaks
  BY ConstantsAssumption DEF TypeOK
<1>1. CASE WriteConnected(i)
  <2>1. wire' \in [Id -> Seq(Event)]
    BY <1>1, WriteTypes DEF WriteConnected, Event
  <2> QED
    BY <1>0, <1>1, <2>1 DEF WriteConnected, TypeOK, clientVars, hubVars
<1>2. CASE Deliver(i)
  <2>1. wire' \in [Id -> Seq(Event)]
    BY <1>2, WriteTypes DEF Deliver, Event
  <2> QED
    BY <1>0, <1>2, <2>1 DEF Deliver, TypeOK, clientVars
<1>3. CASE HandlerEnds(i)
  <2>1. lost' \in [Kind -> SUBSET Client]
    BY <1>0, <1>3, UnsubscribedTypes DEF HandlerEnds, TypeOK
  <2>2. breaks' \in 0 .. MaxBreaks
    BY <1>0, <1>3, ConstantsAssumption DEF HandlerEnds
  <2>3. subscribers' \in [User -> SUBSET Id]
    <3>1. subscribers[UserOf[client[i]]] \ {i} \in SUBSET Id
      BY <1>0
    <3> QED
      BY <1>0, <1>3, <3>1 DEF HandlerEnds
  <2> QED
    BY <1>0, <1>3, <2>1, <2>2, <2>3 DEF HandlerEnds, TypeOK, clientVars
<1> QED
  BY <1>1, <1>2, <1>3

LEMMA ClientTypes ==
  ASSUME TypeOK, NEW c \in Client,
         \/ \E i \in Id : Connect(c, i)
         \/ \E k \in Kind : Confirm(c, k)
         \/ ConnectionBreaks(c) \/ NoticeClosed(c) \/ Receive(c) \/ Poll(c)
  PROVE  TypeOK'
<1>0. /\ truth \in [User -> [Kind -> Nat]] /\ view \in [Client -> [Kind -> Nat]]
      /\ asked \in [Client -> SUBSET Kind]
      /\ lost \in [Kind -> SUBSET Client]
      /\ slot \in [Id -> Kind \cup {"empty", "closed"}]
      /\ handler \in [Id -> {"none", "starting", "open"}]
      /\ client \in [Id -> Client]
      /\ subscribers \in [User -> SUBSET Id]
      /\ UserOf[c] \in User
      /\ wire \in [Id -> Seq(Event)]
      /\ conn \in [Client -> Id \cup {NoId}]
      /\ breaks \in 0 .. MaxBreaks
  BY ConstantsAssumption DEF TypeOK
<1>1. ASSUME NEW i \in Id, Connect(c, i)
      PROVE  TypeOK'
  <2>1. subscribers' \in [User -> SUBSET Id]
    <3>1. subscribers[UserOf[c]] \cup {i} \in SUBSET Id
      BY <1>0
    <3> QED
      BY <1>0, <1>1, <3>1 DEF Connect, Subscribe
  <2>2. /\ handler' \in [Id -> {"none", "starting", "open"}]
        /\ client' \in [Id -> Client]
        /\ slot' \in [Id -> Kind \cup {"empty", "closed"}]
        /\ conn' \in [Client -> Id \cup {NoId}]
    BY <1>0, <1>1 DEF Connect, Subscribe
  <2> QED
    BY <1>1, <2>1, <2>2 DEF Connect, TypeOK
<1>2. ASSUME NEW k \in Kind, Confirm(c, k)
      PROVE  TypeOK'
  <2>1. asked' \in [Client -> SUBSET Kind]
    BY <1>0, <1>2 DEF Confirm
  <2>2. view' \in [Client -> [Kind -> Nat]]
    <3>1. [view[c] EXCEPT ![k] = truth[UserOf[c]][k]] \in [Kind -> Nat]
      BY <1>0
    <3> QED
      BY <1>0, <1>2, <3>1 DEF Confirm
  <2>3. lost' \in [Kind -> SUBSET Client]
    <3> DEFINE subscribed == \E i \in subscribers[UserOf[c]] : conn[c] = i
    <3>1. lost' = lost \/ lost' = [lost EXCEPT ![k] = lost[k] \ {c}]
      <4>1. lost' = IF k = "account" \/ subscribed THEN [lost EXCEPT ![k] = lost[k] \ {c}] ELSE lost
        BY <1>2 DEF Confirm
      <4> HIDE DEF subscribed
      <4> QED
        BY <4>1
    <3>2. lost[k] \ {c} \in SUBSET Client
      BY <1>0
    <3>3. [lost EXCEPT ![k] = lost[k] \ {c}] \in [Kind -> SUBSET Client]
      BY <1>0, <3>2
    <3> QED
      BY <1>0, <3>1, <3>3
  <2> QED
    BY <1>2, <2>1, <2>2, <2>3 DEF Confirm, TypeOK, hubVars, streamVars
<1>3. ASSUME Disconnect(c), conn[c] # NoId
      PROVE  /\ conn' \in [Client -> Id \cup {NoId}]
             /\ wire' \in [Id -> Seq(Event)]
             /\ lost' \in [Kind -> SUBSET Client]
  <2>1. lost' \in [Kind -> SUBSET Client]
    BY <1>3, UnsubscribedTypes DEF Disconnect
  <2>2. <<>> \in Seq(Event)
    OBVIOUS
  <2> QED
    BY <1>0, <1>3, <2>1, <2>2 DEF Disconnect
<1>4. CASE ConnectionBreaks(c)
  <2>1. breaks' \in 0 .. MaxBreaks
    BY <1>0, <1>4, ConstantsAssumption DEF ConnectionBreaks
  <2> QED
    BY <1>3, <1>4, <2>1 DEF ConnectionBreaks, TypeOK, hubVars
<1>5. CASE NoticeClosed(c)
  BY <1>3, <1>5 DEF NoticeClosed, TypeOK, hubVars
<1>6. CASE Receive(c)
  <2>1. conn[c] \in Id /\ wire[conn[c]] \in Seq(Event) /\ wire[conn[c]] # <<>>
    BY <1>0, <1>6 DEF Receive
  <2>2. Tail(wire[conn[c]]) \in Seq(Event)
    BY <2>1
  <2>3. wire' \in [Id -> Seq(Event)]
    BY <1>0, <1>6, <2>1, <2>2 DEF Receive
  <2>4. {"account"} \cup ({Head(wire[conn[c]])} \cap Kind) \in SUBSET Kind
    BY DEF Kind
  <2>5. asked' \in [Client -> SUBSET Kind]
    BY <1>0, <1>6, <2>4 DEF Receive
  <2> QED
    BY <1>6, <2>3, <2>5 DEF Receive, TypeOK, hubVars
<1>7. CASE Poll(c)
  BY <1>0, <1>7 DEF Poll, TypeOK, hubVars, streamVars
<1> QED
  BY <1>1, <1>2, <1>4, <1>5, <1>6, <1>7

LEMMA RestartTypes ==
  ASSUME TypeOK, Restart
  PROVE  /\ TypeOK'
         /\ lost["account"] \subseteq lost'["account"]
<1>0. lost \in [Kind -> SUBSET Client] /\ breaks \in 0 .. MaxBreaks
  BY DEF TypeOK
<1> DEFINE cut(k) == UNION {Clients(pub[p].todo) : p \in {q \in Publisher : pub[q].kind = k}}
<1>1. \A k : cut(k) \in SUBSET Client
  BY DEF Clients
<1>2. lost' = [k \in Kind |-> IF k = "announcement" THEN Client ELSE lost[k] \cup cut(k)]
  BY DEF Restart
<1> HIDE DEF cut
<1>3. lost' \in [Kind -> SUBSET Client]
  BY <1>0, <1>1, <1>2
<1>4. lost["account"] \subseteq lost'["account"]
  BY <1>0, <1>2 DEF Kind
<1>5. breaks' \in 0 .. MaxBreaks
  BY <1>0, ConstantsAssumption DEF Restart
<1>6. <<>> \in Seq(Event)
  OBVIOUS
<1> QED
  BY <1>3, <1>4, <1>5, <1>6, IdleType DEF Restart, TypeOK

LEMMA TypeStep == TypeOK /\ [Next]_vars => TypeOK'
<1> SUFFICES ASSUME TypeOK, [Next]_vars PROVE TypeOK'
  OBVIOUS
<1>1. CASE UNCHANGED vars
  BY <1>1 DEF vars, TypeOK
<1> QED
  BY <1>1, PublisherTypes, StreamTypes, ClientTypes, RestartTypes DEF Next

-----------------------------------------------------------------------------
(* Subscriptions and streams. *)

LEMMA StructureStep == IInv /\ [Next]_vars => SubscriptionsMatchHandlers' /\ StreamsAreTheirs'
<1> SUFFICES ASSUME IInv, [Next]_vars
             PROVE  SubscriptionsMatchHandlers' /\ StreamsAreTheirs'
  OBVIOUS
<1>0. /\ TypeOK
      /\ slot \in [Id -> Kind \cup {"empty", "closed"}]
      /\ handler \in [Id -> {"none", "starting", "open"}]
      /\ client \in [Id -> Client]
      /\ subscribers \in [User -> SUBSET Id]
      /\ conn \in [Client -> Id \cup {NoId}]
      /\ UserOf \in [Client -> User]
  BY ConstantsAssumption DEF IInv, TypeOK
<1>1. /\ \A i \in Id :
           /\ \A u \in User : i \in subscribers[u] <=> handler[i] # "none" /\ UserOf[client[i]] = u
           /\ slot[i] = "closed" <=> handler[i] = "none"
      /\ \A c \in Client : conn[c] # NoId => client[conn[c]] = c
  BY DEF IInv, SubscriptionsMatchHandlers, StreamsAreTheirs
(* Handlers and subscriptions stay; channels open or closed stay so. *)
<1>2. ASSUME UNCHANGED <<subscribers, client>>,
             \A i \in Id : /\ handler'[i] = "none" <=> handler[i] = "none"
                           /\ slot'[i] = "closed" <=> slot[i] = "closed"
      PROVE  SubscriptionsMatchHandlers'
  BY <1>1, <1>2 DEF SubscriptionsMatchHandlers
(* Connections stay, or are given up. *)
<1>3. ASSUME UNCHANGED client, \A c \in Client : conn'[c] \in {conn[c], NoId}
      PROVE  StreamsAreTheirs'
  BY <1>1, <1>3 DEF StreamsAreTheirs
<1>4. ASSUME NEW p \in Publisher, NEW u \in User, UpdateAccount(p, u)
      PROVE  SubscriptionsMatchHandlers' /\ StreamsAreTheirs'
  BY <1>2, <1>3, <1>4 DEF UpdateAccount, hubVars, streamVars, clientVars
<1>5. ASSUME NEW p \in Publisher, NEW us, NEW all, ChangeAnnouncement(p, us, all)
      PROVE  SubscriptionsMatchHandlers' /\ StreamsAreTheirs'
  BY <1>2, <1>3, <1>5 DEF ChangeAnnouncement, hubVars, streamVars, clientVars
<1>6. ASSUME NEW p \in Publisher, NEW us, Offer(us, pub[p].kind),
             UNCHANGED <<subscribers, streamVars, clientVars>>
      PROVE  SubscriptionsMatchHandlers' /\ StreamsAreTheirs'
  <2>1. pub[p].kind \in Kind
    BY <1>0 DEF TypeOK
  <2>2. \A i \in Id : slot[i] = "closed" <=> slot'[i] = "closed"
    BY <1>0, <1>6, <2>1, OfferTypes
  <2> QED
    BY <1>2, <1>3, <1>6, <2>2 DEF streamVars, clientVars
<1>7. ASSUME NEW p \in Publisher, PublishSkipped(p)
      PROVE  SubscriptionsMatchHandlers' /\ StreamsAreTheirs'
  BY <1>2, <1>3, <1>7 DEF PublishSkipped, hubVars, streamVars, clientVars
<1>8. ASSUME NEW i \in Id, WriteConnected(i)
      PROVE  SubscriptionsMatchHandlers' /\ StreamsAreTheirs'
  <2>1. \A j \in Id : handler'[j] = "none" <=> handler[j] = "none"
    BY <1>0, <1>8 DEF WriteConnected
  <2> QED
    BY <1>2, <1>3, <1>8, <2>1 DEF WriteConnected, hubVars, clientVars
<1>9. ASSUME NEW i \in Id, Deliver(i)
      PROVE  SubscriptionsMatchHandlers' /\ StreamsAreTheirs'
  <2>1. \A j \in Id : slot'[j] = "closed" <=> slot[j] = "closed"
    BY <1>0, <1>9 DEF Deliver, Kind
  <2> QED
    BY <1>2, <1>3, <1>9, <2>1 DEF Deliver, clientVars
<1>10. ASSUME NEW i \in Id, HandlerEnds(i)
       PROVE  SubscriptionsMatchHandlers' /\ StreamsAreTheirs'
  <2>1. /\ handler' = [handler EXCEPT ![i] = "none"]
        /\ subscribers' = [subscribers EXCEPT ![UserOf[client[i]]] =
                             subscribers[UserOf[client[i]]] \ {i}]
        /\ slot' = [slot EXCEPT ![i] = "closed"]
        /\ client' = client /\ conn' = conn
    BY <1>10 DEF HandlerEnds, clientVars
  <2>2. /\ \A j \in Id : j # i => handler'[j] = handler[j] /\ slot'[j] = slot[j]
        /\ handler'[i] = "none" /\ slot'[i] = "closed"
    BY <1>0, <2>1
  <2>3. \A u \in User : \A j \in Id : j # i => (j \in subscribers'[u] <=> j \in subscribers[u])
    BY <1>0, <2>1
  <2>4. \A u \in User : i \notin subscribers'[u]
    BY <1>0, <1>1, <2>1
  <2>5. SubscriptionsMatchHandlers'
    BY <1>1, <2>1, <2>2, <2>3, <2>4 DEF SubscriptionsMatchHandlers
  <2> QED
    BY <1>3, <2>1, <2>5
<1>11. ASSUME NEW c \in Client, NEW i \in Id, Connect(c, i)
       PROVE  SubscriptionsMatchHandlers' /\ StreamsAreTheirs'
  <2>1. /\ handler[i] = "none" /\ \A d \in Client : conn[d] # i
        /\ handler' = [handler EXCEPT ![i] = "starting"]
        /\ client' = [client EXCEPT ![i] = c]
        /\ slot' = [slot EXCEPT ![i] = "empty"]
        /\ subscribers' = [subscribers EXCEPT ![UserOf[c]] = subscribers[UserOf[c]] \cup {i}]
        /\ conn' = [conn EXCEPT ![c] = i]
    BY <1>11 DEF Connect, Subscribe
  <2>2. /\ \A j \in Id : j # i => handler'[j] = handler[j] /\ slot'[j] = slot[j]
                                  /\ client'[j] = client[j]
        /\ handler'[i] = "starting" /\ slot'[i] = "empty" /\ client'[i] = c
    BY <1>0, <2>1
  <2>3. \A u \in User : \A j \in Id : j # i => (j \in subscribers'[u] <=> j \in subscribers[u])
    BY <1>0, <2>1
  <2>4. \A u \in User : i \in subscribers'[u] <=> UserOf[c] = u
    BY <1>0, <1>1, <2>1
  <2>5. SubscriptionsMatchHandlers'
    BY <1>1, <2>2, <2>3, <2>4 DEF SubscriptionsMatchHandlers
  <2>6. ASSUME NEW d \in Client, conn'[d] # NoId
        PROVE  client'[conn'[d]] = d
    <3>1. CASE d = c
      BY <1>0, <2>1, <2>2, <3>1
    <3>2. CASE d # c
      <4>1. conn'[d] = conn[d] /\ conn[d] \in Id /\ conn[d] # i
        BY <1>0, <2>1, <2>6, <3>2
      <4> QED
        BY <1>1, <2>2, <2>6, <4>1
    <3> QED
      BY <3>1, <3>2
  <2> QED
    BY <2>5, <2>6 DEF StreamsAreTheirs
<1>12. ASSUME NEW c \in Client,
              \/ \E k \in Kind : Confirm(c, k)
              \/ ConnectionBreaks(c) \/ NoticeClosed(c) \/ Receive(c) \/ Poll(c)
       PROVE  SubscriptionsMatchHandlers' /\ StreamsAreTheirs'
  <2>1. UNCHANGED <<subscribers, slot, handler, client>>
    BY <1>12 DEF Confirm, ConnectionBreaks, NoticeClosed, Receive, Poll, hubVars, streamVars
  <2>2. conn' = conn \/ conn' = [conn EXCEPT ![c] = NoId]
    BY <1>12 DEF Confirm, ConnectionBreaks, NoticeClosed, Receive, Poll, Disconnect
  <2>3. \A d \in Client : conn'[d] \in {conn[d], NoId}
    BY <1>0, <2>2
  <2> QED
    BY <1>2, <1>3, <2>1, <2>3
<1>13. CASE Restart
  BY <1>13 DEF Restart, SubscriptionsMatchHandlers, StreamsAreTheirs
<1>14. CASE UNCHANGED vars
  BY <1>2, <1>3, <1>14 DEF vars
<1> QED
  BY <1>4, <1>5, <1>6, <1>7, <1>8, <1>9, <1>10, <1>11, <1>12, <1>13, <1>14
     DEF Next, Publish, Broadcast

LEMMA InvariantStep == IInv /\ [Next]_vars => IInv'
BY TypeStep, StructureStep DEF IInv

THEOREM HubInvariant == Spec => []IInv
BY InitInvariant, InvariantStep, PTL DEF Spec

(* A channel only ever carries events of a known kind, and a client asks   *)
(* only for what the server can answer.                                    *)
THEOREM HubTypeCorrect == Spec => []TypeOK
<1>1. IInv => TypeOK
  BY DEF IInv
<1> QED
  BY <1>1, HubInvariant, PTL

(* The hub holds exactly the open channels of the running handlers, for    *)
(* any number of overlapping streams: no send meets a closed channel.      *)
THEOREM SubscriptionsFollowStreams == Spec => []SubscriptionsMatchHandlers
<1>1. IInv => SubscriptionsMatchHandlers
  BY DEF IInv
<1> QED
  BY <1>1, HubInvariant, PTL

-----------------------------------------------------------------------------
(* The hub implements WakeUp. *)

AccountChanges(t) == [u \in User |-> t[u]["account"]]
AccountViews(v) == [c \in Client |-> v[c]["account"]]
DueClients == {c \in Client : Due(c)}

(* A step that adds signals, or repeats them, wakes.                       *)
LEMMA WakeStep ==
  ASSUME AccountChanges(truth)' = AccountChanges(truth), AccountViews(view)' = AccountViews(view),
         lost'["account"] = lost["account"],
         \A c \in Client : Due(c) => Due(c)'
  PROVE  W!Wake
BY DEF W!Wake, AccountChanges, AccountViews

(* A step that loses signals drops them on record.                         *)
LEMMA DropStep ==
  ASSUME AccountChanges(truth)' = AccountChanges(truth), AccountViews(view)' = AccountViews(view),
         lost["account"] \subseteq lost'["account"], lost'["account"] \subseteq Client,
         \A c \in Client : Due(c) => Due(c)' \/ c \in lost'["account"]
  PROVE  W!Drop
BY DEF W!Drop, AccountChanges, AccountViews

(* What keeps a client due. *)
LEMMA StaysDue ==
  ASSUME NEW c \in Client, Due(c),
         Unpublished(c, "account") => Unpublished(c, "account")' \/ Due(c)',
         "account" \in asked[c] => "account" \in asked'[c],
         conn'[c] \in {conn[c], NoId},
         conn[c] # NoId =>
           /\ handler'[conn[c]] \in {handler[conn[c]], "none"}
           /\ slot[conn[c]] \in Kind => slot'[conn[c]] \in Kind
           /\ wire[conn[c]] # <<>> => wire'[conn[c]] # <<>>
  PROVE  Due(c)'
BY DEF Due

LEMMA OfferKeepsDue ==
  ASSUME IInv, NEW p \in Publisher, NEW us, Offer(us, pub[p].kind),
         UNCHANGED <<clientVars, streamVars, subscribers>>,
         NEW c \in Client, Due(c),
         Unpublished(c, "account") => Unpublished(c, "account")' \/ UserOf[c] \in us
  PROVE  Due(c)'
<1>0. /\ TypeOK /\ pub[p].kind \in Kind /\ UserOf[c] \in User
      /\ conn[c] \in Id \cup {NoId}
      /\ handler \in [Id -> {"none", "starting", "open"}]
      /\ slot \in [Id -> Kind \cup {"empty", "closed"}]
  BY ConstantsAssumption DEF IInv, TypeOK
<1>1. UNCHANGED <<asked, conn, handler, wire>>
  BY DEF clientVars, streamVars
<1>2. \A i \in Id : /\ slot[i] \in Kind => slot'[i] \in Kind
                    /\ slot[i] = "empty" /\ (\E u \in us : i \in subscribers[u]) => slot'[i] \in Kind
  BY <1>0, OfferTypes
<1>3. ASSUME UserOf[c] \in us
      PROVE  Due(c)'
  <2>1. CASE conn[c] = NoId
    BY <1>1, <2>1 DEF Due
  <2>2. CASE conn[c] # NoId
    <3>1. client[conn[c]] = c /\ conn[c] \in Id
      BY <1>0, <2>2 DEF IInv, StreamsAreTheirs
    <3>2. CASE handler[conn[c]] \in {"none", "starting"}
      BY <1>1, <3>2 DEF Due
    <3>3. CASE handler[conn[c]] = "open"
      <4>1. conn[c] \in subscribers[UserOf[c]] /\ slot[conn[c]] # "closed"
        BY <1>0, <3>1, <3>3 DEF IInv, SubscriptionsMatchHandlers
      <4>2. slot'[conn[c]] \in Kind
        BY <1>0, <1>2, <1>3, <3>1, <4>1
      <4> QED
        BY <1>1, <4>2 DEF Due
    <3> QED
      BY <1>0, <3>1, <3>2, <3>3
  <2> QED
    BY <2>1, <2>2
<1> QED
  BY <1>0, <1>1, <1>2, <1>3, StaysDue

LEMMA PublisherRefines ==
  ASSUME IInv, NEW p \in Publisher,
         \/ \E u \in User : UpdateAccount(p, u) \/ Publish(p, u)
         \/ \E us \in SUBSET User, all \in BOOLEAN : ChangeAnnouncement(p, us, all)
         \/ Broadcast(p)
         \/ PublishSkipped(p)
  PROVE  W!Next
<1>0. /\ TypeOK
      /\ truth \in [User -> [Kind -> Nat]]
      /\ lost \in [Kind -> SUBSET Client]
      /\ pub \in [Publisher -> [kind : Kind, todo : SUBSET User, all : BOOLEAN]]
      /\ pub[p].kind \in Kind /\ pub[p].todo \in SUBSET User
      /\ UserOf \in [Client -> User]
      /\ "account" \in Kind /\ "announcement" \in Kind
  BY ConstantsAssumption DEF IInv, TypeOK, Kind
<1>1. ASSUME NEW u \in User, UpdateAccount(p, u)
      PROVE  W!Change(u)
  <2>1. /\ pub[p] = Idle
        /\ truth' = [truth EXCEPT ![u] = [truth[u] EXCEPT !["account"] = truth[u]["account"] + 1]]
        /\ pub' = [pub EXCEPT ![p] = [kind |-> "account", todo |-> {u}, all |-> FALSE]]
        /\ UNCHANGED <<view, asked, conn, lost, slot, handler, wire>>
    BY <1>1 DEF UpdateAccount, clientVars, hubVars, streamVars
  <2>2. AccountChanges(truth)' = [AccountChanges(truth) EXCEPT ![u] = AccountChanges(truth)[u] + 1]
    <3>1. [truth[u] EXCEPT !["account"] = truth[u]["account"] + 1]["account"] = truth[u]["account"] + 1
      BY <1>0
    <3> QED
      BY <1>0, <2>1, <3>1 DEF AccountChanges
  <2>3. \A c \in Client : Unpublished(c, "account")' <=> Unpublished(c, "account") \/ UserOf[c] = u
    <3> SUFFICES ASSUME NEW c \in Client
                 PROVE  Unpublished(c, "account")' <=> Unpublished(c, "account") \/ UserOf[c] = u
      OBVIOUS
    <3>1. \A q \in Publisher : q # p => pub'[q] = pub[q]
      BY <1>0, <2>1
    <3>2. pub'[p].kind = "account" /\ pub'[p].todo = {u} /\ pub[p].todo = {}
      BY <1>0, <2>1, IdleType
    <3> QED
      BY <3>1, <3>2 DEF Unpublished
  <2>4. \A c \in Client : Due(c)' <=> Due(c) \/ UserOf[c] = u
    BY <2>1, <2>3 DEF Due
  <2>5. DueClients' = DueClients \cup {c \in Client : UserOf[c] = u}
    BY <2>4 DEF DueClients
  <2> QED
    BY <2>1, <2>2, <2>5 DEF W!Change, AccountChanges, DueClients
<1>2. ASSUME NEW u \in User, Publish(p, u)
      PROVE  W!Wake
  <2> DEFINE left == IF pub[p].todo = {u} THEN Idle
                     ELSE [pub[p] EXCEPT !.todo = pub[p].todo \ {u}]
  <2>1. /\ Offer({u}, pub[p].kind) /\ pub' = [pub EXCEPT ![p] = left]
        /\ UNCHANGED <<truth, lost, clientVars, streamVars, subscribers>>
    BY <1>2 DEF Publish
  <2>2. \A v \in User : v \in pub[p].todo => v = u \/ (v \in left.todo /\ left.kind = pub[p].kind)
    BY <1>0
  <2>3. ASSUME NEW c \in Client, Unpublished(c, "account")
        PROVE  Unpublished(c, "account")' \/ UserOf[c] \in {u}
    <3> HIDE DEF left
    <3>1. PICK q \in Publisher : pub[q].kind = "account" /\ UserOf[c] \in pub[q].todo
      BY <2>3 DEF Unpublished
    <3>2. CASE q = p
      BY <1>0, <2>1, <2>2, <3>1, <3>2 DEF Unpublished
    <3>3. CASE q # p
      BY <1>0, <2>1, <3>1, <3>3 DEF Unpublished
    <3> QED
      BY <3>2, <3>3
  <2>4. \A c \in Client : Due(c) => Due(c)'
    BY <2>1, <2>3, OfferKeepsDue
  <2> QED
    BY <2>1, <2>4, WakeStep DEF clientVars, AccountChanges, AccountViews
<1>3. ASSUME NEW us \in SUBSET User, NEW all \in BOOLEAN, ChangeAnnouncement(p, us, all)
      PROVE  W!Wake
  <2>1. /\ pub[p] = Idle
        /\ pub' = [pub EXCEPT ![p] = [kind |-> "announcement", all |-> all,
                                      todo |-> IF all THEN User ELSE us]]
        /\ UNCHANGED <<view, asked, conn, lost, slot, handler, wire>>
    BY <1>3 DEF ChangeAnnouncement, clientVars, hubVars, streamVars
  <2>2. \A u \in User : truth'[u]["account"] = truth[u]["account"]
    <3> SUFFICES ASSUME NEW u \in User PROVE truth'[u]["account"] = truth[u]["account"]
      OBVIOUS
    <3>1. [truth[u] EXCEPT !["announcement"] = truth[u]["announcement"] + 1]["account"]
            = truth[u]["account"]
      BY <1>0
    <3>2. truth'[u] = IF u \in us
                      THEN [truth[u] EXCEPT !["announcement"] = truth[u]["announcement"] + 1]
                      ELSE truth[u]
      BY <1>3 DEF ChangeAnnouncement
    <3> QED
      BY <3>1, <3>2
  <2>3. ASSUME NEW c \in Client, Unpublished(c, "account")
        PROVE  Unpublished(c, "account")'
    <3>1. PICK q \in Publisher : pub[q].kind = "account" /\ UserOf[c] \in pub[q].todo
      BY <2>3 DEF Unpublished
    <3>2. q # p /\ pub'[q] = pub[q]
      BY <1>0, <2>1, <3>1, IdleType
    <3> QED
      BY <3>1, <3>2 DEF Unpublished
  <2>4. \A c \in Client : Due(c) => Due(c)'
    BY <2>1, <2>3, StaysDue
  <2>5. AccountChanges(truth)' = AccountChanges(truth)
    BY <2>2 DEF AccountChanges
  <2> QED
    BY <2>1, <2>4, <2>5, WakeStep DEF AccountViews
<1>4. ASSUME Broadcast(p)
      PROVE  W!Wake
  <2>1. /\ Offer(pub[p].todo, pub[p].kind) /\ pub' = [pub EXCEPT ![p] = Idle]
        /\ UNCHANGED <<truth, lost, clientVars, streamVars, subscribers>>
    BY <1>4 DEF Broadcast
  <2>2. ASSUME NEW c \in Client, Unpublished(c, "account")
        PROVE  Unpublished(c, "account")' \/ UserOf[c] \in pub[p].todo
    BY <1>0, <2>1, <2>2 DEF Unpublished
  <2>3. \A c \in Client : Due(c) => Due(c)'
    BY <2>1, <2>2, OfferKeepsDue
  <2> QED
    BY <2>1, <2>3, WakeStep DEF clientVars, AccountChanges, AccountViews
<1>5. ASSUME PublishSkipped(p)
      PROVE  W!Drop
  <2>1. /\ lost' = [lost EXCEPT ![pub[p].kind] = lost[pub[p].kind] \cup Clients(pub[p].todo)]
        /\ pub' = [pub EXCEPT ![p] = Idle]
        /\ UNCHANGED <<truth, view, asked, conn, slot, handler, wire>>
    BY <1>5 DEF PublishSkipped, clientVars, hubVars, streamVars
  <2>2. /\ lost["account"] \subseteq lost'["account"]
        /\ lost'["account"] \subseteq Client
        /\ pub[p].kind = "account" => Clients(pub[p].todo) \subseteq lost'["account"]
    BY <1>0, <2>1 DEF Clients
  <2>3. ASSUME NEW c \in Client, Unpublished(c, "account")
        PROVE  Unpublished(c, "account")' \/ c \in lost'["account"]
    <3>1. PICK q \in Publisher : pub[q].kind = "account" /\ UserOf[c] \in pub[q].todo
      BY <2>3 DEF Unpublished
    <3>2. CASE q = p
      BY <2>2, <3>1, <3>2 DEF Clients
    <3>3. CASE q # p
      BY <1>0, <2>1, <3>1, <3>3 DEF Unpublished
    <3> QED
      BY <3>2, <3>3
  <2>4. \A c \in Client : Due(c) => Due(c)' \/ c \in lost'["account"]
    <3> SUFFICES ASSUME NEW c \in Client, Due(c), c \notin lost'["account"] PROVE Due(c)'
      OBVIOUS
    <3> QED
      BY <2>1, <2>3, StaysDue
  <2> QED
    BY <2>1, <2>2, <2>4, DropStep DEF AccountChanges, AccountViews
<1> QED
  BY <1>1, <1>2, <1>3, <1>4, <1>5 DEF W!Next

LEMMA StreamRefines ==
  ASSUME IInv, NEW i \in Id, WriteConnected(i) \/ Deliver(i) \/ HandlerEnds(i)
  PROVE  W!Wake
<1>0. /\ TypeOK
      /\ slot \in [Id -> Kind \cup {"empty", "closed"}]
      /\ handler \in [Id -> {"none", "starting", "open"}]
      /\ client[i] \in Client
      /\ \A c \in Client : conn[c] \in Id \cup {NoId}
  BY DEF IInv, TypeOK
<1>1. /\ UNCHANGED <<truth, view, asked, conn, pub>>
      /\ lost'["account"] = lost["account"]
  <2>1. CASE HandlerEnds(i)
    BY <1>0, <2>1, UnsubscribedTypes DEF HandlerEnds, clientVars
  <2>2. CASE WriteConnected(i) \/ Deliver(i)
    BY <2>2 DEF WriteConnected, Deliver, clientVars
  <2> QED
    BY <2>1, <2>2
<1>2. \A c \in Client : Unpublished(c, "account")' = Unpublished(c, "account")
  BY <1>1 DEF Unpublished
<1>3. ASSUME NEW e \in Event, Write(i, e), NEW c \in Client
      PROVE  /\ conn[c] = i => wire'[i] # <<>>
             /\ \A j \in Id : j # i => wire'[j] = wire[j]
  <2>1. conn[c] = i => Attached(i)
    BY ConstantsAssumption DEF IInv, StreamsAreTheirs, Attached
  <2> QED
    BY <1>0, <1>3, <2>1, WriteTypes
<1>4. \A j \in Id : j # i => handler'[j] = handler[j] /\ slot'[j] = slot[j]
  BY <1>0 DEF WriteConnected, Deliver, HandlerEnds, hubVars
<1>5. ASSUME NEW c \in Client, Due(c)
      PROVE  Due(c)'
  <2>1. CASE HandlerEnds(i)
    <3>1. handler'[i] = "none" /\ wire' = wire
      BY <1>0, <2>1 DEF HandlerEnds
    <3>2. CASE conn[c] = i
      BY <1>1, <3>1, <3>2 DEF Due
    <3>3. CASE conn[c] # i
      BY <1>0, <1>1, <1>2, <1>4, <1>5, <3>1, <3>3, StaysDue
    <3> QED
      BY <3>2, <3>3
  <2>2. CASE WriteConnected(i) \/ Deliver(i)
    <3>1. PICK e \in Event : Write(i, e)
      BY <2>2 DEF WriteConnected, Deliver, Event
    <3>2. CASE conn[c] = i
      <4>1. wire'[i] # <<>>
        BY <1>3, <3>1, <3>2
      <4> QED
        BY <1>1, <3>2, <4>1 DEF Due
    <3>3. CASE conn[c] # i
      <4>1. \A j \in Id : j # i => wire'[j] = wire[j]
        BY <1>3, <3>1
      <4> QED
        BY <1>0, <1>1, <1>2, <1>4, <1>5, <3>3, <4>1, StaysDue
    <3> QED
      BY <3>2, <3>3
  <2> QED
    BY <2>1, <2>2
<1> QED
  BY <1>1, <1>5, WakeStep DEF AccountChanges, AccountViews

(* No two clients believe to have the same stream. *)
LEMMA StreamsDiffer ==
  ASSUME IInv, NEW c \in Client, NEW d \in Client, c # d, conn[c] # NoId
  PROVE  conn[c] # conn[d]
BY DEF IInv, StreamsAreTheirs

LEMMA ClientRefines ==
  ASSUME IInv, NEW c \in Client,
         \/ \E i \in Id : Connect(c, i)
         \/ \E k \in Kind : Confirm(c, k)
         \/ ConnectionBreaks(c) \/ NoticeClosed(c) \/ Receive(c) \/ Poll(c)
  PROVE  W!Next
<1>0. /\ TypeOK
      /\ truth \in [User -> [Kind -> Nat]] /\ view \in [Client -> [Kind -> Nat]]
      /\ lost \in [Kind -> SUBSET Client]
      /\ asked \in [Client -> SUBSET Kind]
      /\ slot \in [Id -> Kind \cup {"empty", "closed"}]
      /\ handler \in [Id -> {"none", "starting", "open"}]
      /\ wire \in [Id -> Seq(Event)]
      /\ conn \in [Client -> Id \cup {NoId}]
      /\ UserOf[c] \in User
      /\ "account" \in Kind /\ "announcement" \in Kind
  BY ConstantsAssumption DEF IInv, TypeOK, Kind
<1>1. UNCHANGED <<truth, pub>>
  BY DEF Connect, Confirm, ConnectionBreaks, NoticeClosed, Receive, Poll
<1>2. \A d \in Client : Unpublished(d, "account")' = Unpublished(d, "account")
  BY <1>1 DEF Unpublished
<1>3. AccountChanges(truth)' = AccountChanges(truth)
  BY <1>1 DEF AccountChanges
<1>4. ASSUME NEW i \in Id, Connect(c, i)
      PROVE  W!Wake
  <2>1. /\ \A d \in Client : conn[d] # i
        /\ handler' = [handler EXCEPT ![i] = "starting"]
        /\ slot' = [slot EXCEPT ![i] = "empty"]
        /\ conn' = [conn EXCEPT ![c] = i]
        /\ UNCHANGED <<view, asked, lost, wire>>
    BY <1>4 DEF Connect, Subscribe
  <2>2. conn'[c] = i /\ handler'[i] = "starting"
    BY <1>0, <2>1
  <2>3. ASSUME NEW d \in Client, Due(d)
        PROVE  Due(d)'
    <3>1. CASE d = c
      BY <2>2, <3>1 DEF Due
    <3>2. CASE d # c
      <4>1. /\ conn'[d] = conn[d]
            /\ conn[d] # NoId => /\ handler'[conn[d]] = handler[conn[d]]
                                 /\ slot'[conn[d]] = slot[conn[d]]
        BY <1>0, <2>1, <3>2
      <4> QED
        BY <1>2, <2>1, <2>3, <4>1, StaysDue
    <3> QED
      BY <3>1, <3>2
  <2> QED
    BY <1>3, <2>1, <2>3, WakeStep DEF AccountViews
<1>5. ASSUME Confirm(c, "account")
      PROVE  W!Confirm(c)
  <2>1. /\ "account" \in asked[c]
        /\ asked' = [asked EXCEPT ![c] = asked[c] \ {"account"}]
        /\ view' = [view EXCEPT ![c] = [view[c] EXCEPT !["account"] = truth[UserOf[c]]["account"]]]
        /\ lost' = [lost EXCEPT !["account"] = lost["account"] \ {c}]
        /\ UNCHANGED <<conn, slot, handler, wire>>
    BY <1>5 DEF Confirm, hubVars, streamVars
  <2>2. AccountViews(view)' = [AccountViews(view) EXCEPT ![c] = AccountChanges(truth)[UserOf[c]]]
    <3>1. [view[c] EXCEPT !["account"] = truth[UserOf[c]]["account"]]["account"]
            = truth[UserOf[c]]["account"]
      BY <1>0
    <3> QED
      BY <1>0, <2>1, <3>1 DEF AccountViews, AccountChanges
  <2>3. lost'["account"] = lost["account"] \ {c}
    BY <1>0, <2>1
  <2>4. c \in DueClients
    BY <2>1 DEF DueClients, Due
  <2>5. ASSUME NEW d \in Client, d # c
        PROVE  Due(d)' = Due(d)
    <3>1. asked'[d] = asked[d]
      BY <1>0, <2>1, <2>5
    <3> QED
      BY <1>2, <2>1, <3>1 DEF Due
  <2>6. DueClients' \in {DueClients, DueClients \ {c}}
    BY <2>4, <2>5 DEF DueClients
  <2> QED
    BY <1>3, <2>2, <2>3, <2>4, <2>6 DEF W!Confirm, DueClients, AccountViews, AccountChanges
<1>6. ASSUME Confirm(c, "announcement")
      PROVE  W!Wake
  <2> DEFINE subscribed == \E i \in subscribers[UserOf[c]] : conn[c] = i
  <2>1. /\ asked' = [asked EXCEPT ![c] = asked[c] \ {"announcement"}]
        /\ view' = [view EXCEPT ![c] = [view[c] EXCEPT !["announcement"] =
                                          truth[UserOf[c]]["announcement"]]]
        /\ UNCHANGED <<conn, slot, handler, wire>>
    BY <1>6 DEF Confirm, hubVars, streamVars
  <2>2. lost' = IF "announcement" = "account" \/ subscribed
                THEN [lost EXCEPT !["announcement"] = lost["announcement"] \ {c}] ELSE lost
    BY <1>6 DEF Confirm
  <2> HIDE DEF subscribed
  <2>3. lost'["account"] = lost["account"]
    BY <1>0, <2>2
  <2>4. AccountViews(view)' = AccountViews(view)
    <3>1. [view[c] EXCEPT !["announcement"] = truth[UserOf[c]]["announcement"]]["account"]
            = view[c]["account"]
      BY <1>0
    <3> QED
      BY <1>0, <2>1, <3>1 DEF AccountViews
  <2>5. \A d \in Client : "account" \in asked[d] => "account" \in asked'[d]
    BY <1>0, <2>1
  <2>6. \A d \in Client : Due(d) => Due(d)'
    BY <1>2, <2>1, <2>5, StaysDue
  <2> QED
    BY <1>3, <2>3, <2>4, <2>6, WakeStep
<1>7. ASSUME ConnectionBreaks(c) \/ NoticeClosed(c)
      PROVE  W!Wake
  <2>1. /\ conn[c] # NoId
        /\ conn' = [conn EXCEPT ![c] = NoId]
        /\ wire' = [wire EXCEPT ![conn[c]] = <<>>]
        /\ lost' = Unsubscribed({c})
        /\ UNCHANGED <<view, asked, slot, handler>>
    BY <1>7 DEF ConnectionBreaks, NoticeClosed, Disconnect, hubVars
  <2>2. lost'["account"] = lost["account"]
    BY <1>0, <2>1, UnsubscribedTypes
  <2>3. ASSUME NEW d \in Client, Due(d)
        PROVE  Due(d)'
    <3>1. CASE d = c
      <4>1. conn'[d] = NoId
        BY <1>0, <2>1, <3>1
      <4> QED
        BY <4>1 DEF Due
    <3>2. CASE d # c
      <4>1. conn'[d] = conn[d] /\ (conn[d] # NoId => wire'[conn[d]] = wire[conn[d]])
        BY <1>0, <2>1, <3>2, StreamsDiffer
      <4> QED
        BY <1>2, <2>1, <2>3, <4>1, StaysDue
    <3> QED
      BY <3>1, <3>2
  <2> QED
    BY <1>3, <2>1, <2>2, <2>3, WakeStep DEF AccountViews
<1>8. ASSUME Receive(c)
      PROVE  W!Wake
  <2> DEFINE next == {"account"} \cup ({Head(wire[conn[c]])} \cap Kind)
             rest == Tail(wire[conn[c]])
  <2>1. /\ conn[c] # NoId
        /\ asked' = [asked EXCEPT ![c] = next]
        /\ wire' = [wire EXCEPT ![conn[c]] = rest]
        /\ UNCHANGED <<view, lost, conn, slot, handler>>
    BY <1>8 DEF Receive, hubVars
  <2>2. "account" \in next
    OBVIOUS
  <2> HIDE DEF next, rest
  <2>3. ASSUME NEW d \in Client, Due(d)
        PROVE  Due(d)'
    <3>1. CASE d = c
      <4>1. "account" \in asked'[d]
        BY <1>0, <2>1, <2>2, <3>1
      <4> QED
        BY <4>1 DEF Due
    <3>2. CASE d # c
      <4>1. asked'[d] = asked[d] /\ (conn[d] # NoId => wire'[conn[d]] = wire[conn[d]])
        BY <1>0, <2>1, <3>2, StreamsDiffer
      <4> QED
        BY <1>2, <2>1, <2>3, <4>1, StaysDue
    <3> QED
      BY <3>1, <3>2
  <2> QED
    BY <1>3, <2>1, <2>3, WakeStep DEF AccountViews
<1>9. ASSUME Poll(c)
      PROVE  W!Wake
  <2>1. /\ asked' = [asked EXCEPT ![c] = Kind]
        /\ UNCHANGED <<view, lost, conn, slot, handler, wire>>
    BY <1>9 DEF Poll, hubVars, streamVars
  <2>2. \A d \in Client : "account" \in asked[d] => "account" \in asked'[d]
    BY <1>0, <2>1
  <2>3. \A d \in Client : Due(d) => Due(d)'
    BY <1>2, <2>1, <2>2, StaysDue
  <2> QED
    BY <1>3, <2>1, <2>3, WakeStep DEF AccountViews
<1> QED
  BY <1>4, <1>5, <1>6, <1>7, <1>8, <1>9 DEF Kind, W!Next

LEMMA RestartRefines ==
  ASSUME IInv, Restart
  PROVE  W!Drop
<1>1. UNCHANGED <<truth, view>> /\ \A c \in Client : conn'[c] = NoId
  BY DEF Restart
<1>2. lost["account"] \subseteq lost'["account"] /\ lost'["account"] \subseteq Client
  BY RestartTypes DEF IInv, TypeOK, Kind
<1>3. \A c \in Client : Due(c)'
  BY <1>1 DEF Due
<1> QED
  BY <1>1, <1>2, <1>3, DropStep DEF AccountChanges, AccountViews

LEMMA WakeUpStep == IInv /\ [Next]_vars => [W!Next]_W!vars
<1> SUFFICES ASSUME IInv, [Next]_vars PROVE W!Next \/ UNCHANGED W!vars
  OBVIOUS
<1>1. CASE UNCHANGED vars
  <2>1. \A c \in Client : Due(c)' = Due(c)
    BY <1>1 DEF vars, Due, Unpublished
  <2> QED
    BY <1>1, <2>1 DEF vars, W!vars
<1> QED
  BY <1>1, PublisherRefines, StreamRefines, ClientRefines, RestartRefines DEF Next, W!Next

LEMMA WakeUpInit == Init => W!Init
BY DEF Init, W!Init, Kind

(* The hub, its streams and the client together are a wake-up service that *)
(* drops nothing silently: events dropped on full channels, overlapping    *)
(* streams, slow readers and restarts cost nobody a wake-up.               *)
THEOREM HubImplementsWakeUp == Spec => ImplementsWakeUp
BY WakeUpInit, WakeUpStep, HubInvariant, PTL DEF Spec, ImplementsWakeUp, W!Spec

-----------------------------------------------------------------------------
(* What follows of every wake-up service follows of the hub. *)

LEMMA NoLostWakeupStep == NoLostWakeup /\ [W!Next]_W!vars => NoLostWakeup'
<1> SUFFICES ASSUME NoLostWakeup, [W!Next]_W!vars PROVE NoLostWakeup'
  OBVIOUS
<1> DEFINE t == AccountChanges(truth)
           v == AccountViews(view)
<1>0. /\ UserOf \in [Client -> User]
      /\ t = [u \in User |-> t[u]] /\ v = [c \in Client |-> v[c]]
  BY ConstantsAssumption DEF AccountChanges, AccountViews
<1>1. NoLostWakeup <=>
        \A c \in Client : v[c] # t[UserOf[c]] => c \in DueClients \cup lost["account"]
  BY <1>0 DEF NoLostWakeup, Stale, AccountChanges, AccountViews, DueClients
<1>2. NoLostWakeup' <=>
        \A c \in Client : v'[c] # t'[UserOf[c]] => c \in DueClients' \cup lost'["account"]
  BY <1>0 DEF NoLostWakeup, Stale, AccountChanges, AccountViews, DueClients
<1>3. CASE \E u \in User : W!Change(u)
  <2>1. PICK u \in User : /\ t' = [t EXCEPT ![u] = t[u] + 1]
                          /\ DueClients' = DueClients \cup {c \in Client : UserOf[c] = u}
                          /\ v' = v /\ lost'["account"] = lost["account"]
    BY <1>3 DEF W!Change, AccountChanges, AccountViews, DueClients
  <2> HIDE DEF t, v
  <2> QED
    BY <1>0, <1>1, <1>2, <2>1
<1>4. CASE \E c \in Client : W!Confirm(c)
  <2>1. PICK c \in Client : /\ v' = [v EXCEPT ![c] = t[UserOf[c]]]
                            /\ DueClients' \in {DueClients, DueClients \ {c}}
                            /\ lost'["account"] = lost["account"] \ {c}
                            /\ t' = t
    BY <1>4 DEF W!Confirm, AccountChanges, AccountViews, DueClients
  <2> HIDE DEF t, v
  <2> QED
    BY <1>0, <1>1, <1>2, <2>1
<1>5. CASE W!Wake \/ W!Drop \/ UNCHANGED W!vars
  <2>1. /\ v' = v /\ t' = t
        /\ lost["account"] \subseteq lost'["account"]
        /\ DueClients \subseteq DueClients' \cup lost'["account"]
    BY <1>5 DEF W!Wake, W!Drop, W!vars, AccountChanges, AccountViews, DueClients
  <2> HIDE DEF t, v
  <2> QED
    BY <1>1, <1>2, <2>1
<1> QED
  BY <1>3, <1>4, <1>5 DEF W!Next

(* control.go: "Keeping one pending signal is sufficient."  A client whose *)
(* picture of its account is out of date has a confirmation coming, unless *)
(* the publication never happened.                                         *)
THEOREM PendingSignalSuffices == Spec => []NoLostWakeup
<1>1. Init => NoLostWakeup
  BY ConstantsAssumption DEF Init, NoLostWakeup, Stale, Kind
<1> QED
  BY <1>1, NoLostWakeupStep, HubImplementsWakeUp, PTL DEF ImplementsWakeUp, W!Spec, Spec

=============================================================================
