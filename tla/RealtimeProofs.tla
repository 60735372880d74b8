---------------------------- MODULE RealtimeProofs ----------------------------
(***************************************************************************)
(* The rights behind the rooms of Realtime, for every number of sockets,   *)
(* tokens, users, orders and messages under way.  RealtimeInv is inductive *)
(* by itself: claims are signed once, what a socket has been given only    *)
(* grows, and a message knows a socket that stays as it is until the       *)
(* message is over.                                                        *)
(***************************************************************************)
EXTENDS Realtime, TLAPS

\* The rooms are told apart by the length or the first word of their names.
LEMMA RoomsDiffer ==
    /\ Dashboard # Management
    /\ \A o : Dashboard # <<"order", o>> /\ Management # <<"order", o>>
    /\ \A u : Dashboard # <<"client", u>> /\ Management # <<"client", u>>
    /\ \A o, u : <<"order", o>> # <<"client", u>>
    /\ \A o, p : <<"order", o>> = <<"order", p>> => o = p
    /\ \A u, v : <<"client", u>> = <<"client", v>> => u = v
<1>1. Dashboard # Management
  BY DEF Dashboard, Management
<1>2. \A o : Dashboard # <<"order", o>> /\ Management # <<"order", o>>
  BY DEF Dashboard, Management
<1>3. \A u : Dashboard # <<"client", u>> /\ Management # <<"client", u>>
  BY DEF Dashboard, Management
<1>4. \A o, u : <<"order", o>> # <<"client", u>>
  OBVIOUS
<1>5. /\ \A o, p : <<"order", o>> = <<"order", p>> => o = p
      /\ \A u, v : <<"client", u>> = <<"client", v>> => u = v
  OBVIOUS
<1> QED BY <1>1, <1>2, <1>3, <1>4, <1>5

\* A signed token has the claims of an account.
LEMMA SignedClaim == TypeOK => \A t \in signed : claims[t] \in Claim
BY DEF TypeOK, signed

\* The claims of a socket that has connected are an account's.
LEMMA KnownClaim ==
    TypeOK => \A s \in Sockets : Known(s) => handshake[s] \in signed /\ data(s) \in Claim
BY SignedClaim DEF TypeOK, Known, data

\* A message under way names a socket and an order.
LEMMA MessageShape ==
    ASSUME TypeOK, NEW w \in Workers, req[w].op \in {"ask"} \cup Purpose
    PROVE  req[w].s \in Sockets /\ req[w].o \in Orders /\ req[w].for \in Purpose
BY DEF TypeOK, MessageRequest, RevokeRequest, Idle, Purpose

LEMMA RightsInit == Init => RealtimeInv
<1> SUFFICES ASSUME Init PROVE RealtimeInv
  OBVIOUS
<1>1. TypeOK
  BY DEF Init, TypeOK, Unsigned, Idle
<1>2. ClaimsOK
  BY DEF Init, ClaimsOK, Known
<1>3. RoomsOK /\ EventsOK
  BY DEF Init, RoomsOK, EventsOK
<1>4. MessagesOK
  BY DEF Init, MessagesOK, MessageOK, Idle, Purpose
<1> QED BY <1>1, <1>2, <1>3, <1>4 DEF RealtimeInv

-----------------------------------------------------------------------------
(* Around the gateway *)

LEMMA SignStep ==
    ASSUME RealtimeInv, NEW t \in Tokens, NEW u \in Users, NEW totp \in BOOLEAN, Sign(t, u, totp)
    PROVE  RealtimeInv'
<1>1. claims'[t] \in Claim /\ claims'[t].user = u /\ \A x \in Tokens \ {t} : claims'[x] = claims[x]
  BY RolesAssumption DEF Sign, RealtimeInv, TypeOK, Claim
<1>2. signed \subseteq signed' /\ t \notin signed
  BY <1>1, NobodyAssumption DEF signed, Claim, Unsigned, Sign
<1>3. \A s \in Sockets : Known(s) => data(s)' = data(s)
  BY <1>1, <1>2, KnownClaim DEF Sign, RealtimeInv, data, sockets, signed
<1>4. TypeOK'
  <2>1. claims' \in [Tokens -> Claim \cup {Unsigned}]
    BY <1>1 DEF Sign, RealtimeInv, TypeOK
  <2> QED BY <2>1, <1>2 DEF Sign, sockets, RealtimeInv, TypeOK
<1>5. ClaimsOK'
  BY <1>3 DEF Sign, sockets, RealtimeInv, ClaimsOK, Known, data
<1>6. RoomsOK'
  BY <1>3 DEF Sign, sockets, RealtimeInv, RoomsOK, Entitled, TypeOK, Known, data
<1>7. MessagesOK'
  <2> SUFFICES ASSUME NEW w \in Workers PROVE MessageOK(w)'
    BY DEF MessagesOK
  <2>1. MessageOK(w) /\ req' = req /\ given' = given /\ handshake' = handshake
    BY DEF Sign, sockets, RealtimeInv, MessagesOK
  <2>2. req[w].op \in {"ask"} \cup Purpose => data(req[w].s)' = data(req[w].s)
    BY <1>3, <2>1, MessageShape DEF MessageOK, RealtimeInv, data
  <2> QED BY <2>1, <2>2 DEF MessageOK, Entitled, Known
<1>8. EventsOK'
  BY DEF Sign, RealtimeInv, EventsOK
<1> QED BY <1>4, <1>5, <1>6, <1>7, <1>8 DEF RealtimeInv

LEMMA ExpireStep ==
    ASSUME RealtimeInv, NEW t \in Tokens, Expire(t) PROVE RealtimeInv'
<1>1. UNCHANGED <<role, mechanic, claims, handshake, open, rooms, given, events, req>>
      /\ expired' \in SUBSET Tokens
  BY DEF Expire, sockets, RealtimeInv, TypeOK
<1> QED BY <1>1 DEF RealtimeInv, TypeOK, signed, ClaimsOK, RoomsOK, MessagesOK, MessageOK,
                    EventsOK, Entitled, Known, data

LEMMA ChangeRoleStep ==
    ASSUME RealtimeInv, NEW u \in Users, NEW r \in Roles, ChangeRole(u, r) PROVE RealtimeInv'
<1>1. UNCHANGED <<mechanic, claims, expired, handshake, open, rooms, given, events, req>>
      /\ role' \in [Users -> Roles]
  BY DEF ChangeRole, sockets, RealtimeInv, TypeOK
<1> QED BY <1>1 DEF RealtimeInv, TypeOK, signed, ClaimsOK, RoomsOK, MessagesOK, MessageOK,
                    EventsOK, Entitled, Known, data

\* The order is given to every socket of its new user; nobody loses what was given.
LEMMA AssignStep ==
    ASSUME RealtimeInv, NEW o \in Orders, NEW u \in Users \cup {Nobody}, Assign(o, u)
    PROVE  RealtimeInv'
<1>1. UNCHANGED <<role, claims, expired, handshake, open, rooms, events, req>>
  BY DEF Assign
<1>2. /\ mechanic' = [mechanic EXCEPT ![o] = u]
      /\ mechanic \in [Orders -> Users \cup {Nobody}]
      /\ given \in [Sockets -> SUBSET Orders]
      /\ given' = [s \in Sockets |-> IF handshake[s] # Nobody /\ data(s).user = u
                                     THEN given[s] \cup {o} ELSE given[s]]
  BY DEF Assign, RealtimeInv, TypeOK
<1>3. \A s \in Sockets : given[s] \subseteq given'[s]
  BY <1>2
<1>4. TypeOK'
  <2>1. mechanic' \in [Orders -> Users \cup {Nobody}] /\ given' \in [Sockets -> SUBSET Orders]
    BY <1>2
  <2> QED BY <1>1, <2>1 DEF RealtimeInv, TypeOK, signed
<1>5. ClaimsOK'
  <2> SUFFICES ASSUME NEW s \in Sockets, Known(s), NEW p \in Orders
               PROVE  /\ data(s).role \in Panels => data(s).mfa
                      /\ mechanic'[p] = data(s).user => p \in given'[s]
    BY <1>1 DEF ClaimsOK, Known, data
  <2>1. /\ data(s).role \in Panels => data(s).mfa
        /\ mechanic[p] = data(s).user => p \in given[s]
    BY DEF RealtimeInv, ClaimsOK
  <2>2. CASE p = o
    BY <1>2, <1>3, <2>1, <2>2 DEF Known
  <2>3. CASE p # o
    BY <1>2, <1>3, <2>1, <2>3
  <2> QED BY <2>2, <2>3
<1>6. \A s \in Sockets, p \in Orders : Entitled(s, p) => Entitled(s, p)'
  BY <1>1, <1>3 DEF Entitled, data
<1>7. RoomsOK'
  BY <1>1, <1>6 DEF RealtimeInv, RoomsOK, TypeOK, data
<1>8. MessagesOK'
  <2> SUFFICES ASSUME NEW w \in Workers PROVE MessageOK(w)'
    BY DEF MessagesOK
  <2>1. MessageOK(w)
    BY DEF RealtimeInv, MessagesOK
  <2> QED BY <1>1, <1>6, <2>1, MessageShape DEF MessageOK, Known, RealtimeInv
<1>9. EventsOK'
  BY <1>1 DEF RealtimeInv, EventsOK
<1> QED BY <1>4, <1>5, <1>7, <1>8, <1>9 DEF RealtimeInv

-----------------------------------------------------------------------------
(* Requests *)

\* Nothing changes but the slot of one worker, whose new request r is as it has to be.
LEMMA SlotStep ==
    ASSUME RealtimeInv, UNCHANGED <<accounts, sockets>>,
           events' \subseteq [role : Roles, given : BOOLEAN], EventsOK',
           NEW w \in Workers, NEW r \in MessageRequest \cup RevokeRequest \cup {Idle},
           req' = [req EXCEPT ![w] = r],
           r.op \in {"ask"} \cup Purpose => Known(r.s),
           r.op \in Purpose => Entitled(r.s, r.o)
    PROVE  RealtimeInv'
<1>1. UNCHANGED <<role, mechanic, claims, expired, handshake, open, rooms, given>>
  BY DEF accounts, sockets
<1>2. req \in [Workers -> MessageRequest \cup RevokeRequest \cup {Idle}]
  BY DEF RealtimeInv, TypeOK
<1>3. TypeOK'
  <2>1. req' \in [Workers -> MessageRequest \cup RevokeRequest \cup {Idle}]
    BY <1>2
  <2> QED BY <1>1, <2>1 DEF RealtimeInv, TypeOK, signed
<1>4. ClaimsOK' /\ RoomsOK'
  BY <1>1 DEF RealtimeInv, ClaimsOK, RoomsOK, Known, Entitled, data
<1>5. MessagesOK'
  <2> SUFFICES ASSUME NEW v \in Workers PROVE MessageOK(v)'
    BY DEF MessagesOK
  <2>1. MessageOK(v)
    BY DEF RealtimeInv, MessagesOK
  <2>2. CASE v = w
    BY <1>1, <1>2, <2>2 DEF MessageOK, Known, Entitled, data
  <2>3. CASE v # w
    BY <1>1, <1>2, <2>1, <2>3 DEF MessageOK, Known, Entitled, data
  <2> QED BY <2>2, <2>3
<1> QED BY <1>3, <1>4, <1>5 DEF RealtimeInv

\* A request that ends leaves the rest as it was.
LEMMA IdleStep ==
    ASSUME RealtimeInv, UNCHANGED <<accounts, sockets, events>>,
           NEW w \in Workers, req' = [req EXCEPT ![w] = Idle]
    PROVE  RealtimeInv'
<1>1. /\ UNCHANGED <<accounts, sockets>>
      /\ events' = events
  OBVIOUS
<1>2. events' \subseteq [role : Roles, given : BOOLEAN] /\ EventsOK'
  BY <1>1 DEF RealtimeInv, TypeOK, EventsOK
<1>3. Idle.op \notin {"ask"} \cup Purpose
  BY DEF Idle, Purpose
<1> QED BY <1>1, <1>2, <1>3, SlotStep

LEMMA BeginMessageStep ==
    ASSUME RealtimeInv, NEW w \in Workers, NEW s \in Sockets, NEW o \in Orders,
           NEW for \in Purpose, BeginMessage(w, s, o, for)
    PROVE  RealtimeInv'
<1> DEFINE r == [op |-> "ask", for |-> for, s |-> s, o |-> o]
<1>1. /\ UNCHANGED <<accounts, sockets>>
      /\ events' = events
      /\ req' = [req EXCEPT ![w] = r]
  BY DEF BeginMessage, Park
<1>2. r \in MessageRequest /\ r.op \notin Purpose
  BY DEF MessageRequest, Purpose
<1>3. Known(r.s)
  BY DEF BeginMessage, Operative, RealtimeInv, TypeOK, Known
<1>4. events' \subseteq [role : Roles, given : BOOLEAN] /\ EventsOK'
  BY <1>1 DEF RealtimeInv, TypeOK, EventsOK
<1> HIDE DEF r
<1> QED BY <1>1, <1>2, <1>3, <1>4, SlotStep

\* What the answer lets the user do, the order's having been given lets them for good.
LEMMA ReadStep ==
    ASSUME RealtimeInv, NEW w \in Workers, Read(w) PROVE RealtimeInv'
<1> DEFINE r == [req[w] EXCEPT !.op = req[w].for]
<1>1. /\ UNCHANGED <<accounts, sockets>>
      /\ events' = events
  BY DEF Read
<1>2. req[w] \in MessageRequest
  BY DEF Read, RealtimeInv, TypeOK, RevokeRequest, Idle
<1>3. r \in MessageRequest /\ r.s = req[w].s /\ r.o = req[w].o
  BY <1>2 DEF MessageRequest, Purpose
<1>4. req' = [req EXCEPT ![w] = r]
  BY <1>2 DEF Read, MessageRequest, RealtimeInv, TypeOK
<1>5. Known(r.s) /\ r.s \in Sockets /\ r.o \in Orders
  BY <1>2, <1>3 DEF Read, RealtimeInv, MessagesOK, MessageOK, MessageRequest
<1>6. Entitled(r.s, r.o)
  <2>1. MayAccess(data(r.s), r.o)
    BY <1>3 DEF Read
  <2>2. mechanic[r.o] = data(r.s).user => r.o \in given[r.s]
    BY <1>5 DEF RealtimeInv, ClaimsOK
  <2> QED BY <2>1, <2>2 DEF MayAccess, Entitled
<1>7. events' \subseteq [role : Roles, given : BOOLEAN] /\ EventsOK'
  BY <1>1 DEF RealtimeInv, TypeOK, EventsOK
<1> HIDE DEF r
<1> QED BY <1>1, <1>3, <1>4, <1>5, <1>6, <1>7, SlotStep

\* A report or a relayed message: its user was entitled when the order was read.
LEMMA SayStep ==
    ASSUME RealtimeInv, NEW w \in Workers, req[w].op \in Purpose, Say(w) PROVE RealtimeInv'
<1> DEFINE e == [role |-> data(req[w].s).role, given |-> req[w].o \in given[req[w].s]]
<1>1. /\ UNCHANGED <<accounts, sockets>>
      /\ req' = [req EXCEPT ![w] = Idle]
      /\ events' = events \cup {e}
  BY DEF Say
<1>2. Known(req[w].s) /\ req[w].s \in Sockets /\ Entitled(req[w].s, req[w].o)
  BY MessageShape DEF RealtimeInv, MessagesOK, MessageOK
<1>3. data(req[w].s).role \in Roles
  BY <1>2, KnownClaim DEF RealtimeInv, Claim
<1>4. e \in [role : Roles, given : BOOLEAN]
  BY <1>3
<1>5. e.role # "CLIENT" /\ (e.role \in Workshop => e.given)
  BY <1>2 DEF Entitled, Panels, Workshop
<1> HIDE DEF e
<1>6. events' \subseteq [role : Roles, given : BOOLEAN] /\ EventsOK'
  BY <1>1, <1>4, <1>5 DEF RealtimeInv, TypeOK, EventsOK
<1>7. Idle.op \notin {"ask"} \cup Purpose
  BY DEF Idle, Purpose
<1> QED BY <1>1, <1>6, <1>7, SlotStep

-----------------------------------------------------------------------------
(* Rooms *)

\* What lets s into the room r.
Allowed(s, r) ==
    /\ r = Dashboard => data(s).role \in Panels
    /\ r = Management => data(s).role \in Managers
    /\ \A o \in Orders : r = <<"order", o>> => Entitled(s, o)
    /\ \A u \in Users : r = <<"client", u>> => data(s).role \in Panels \/ data(s).user = u

LEMMA RoomsAllowed == RoomsOK <=> \A s \in open : \A r \in rooms[s] : Allowed(s, r)
BY DEF RoomsOK, Allowed

\* Sockets leave, or enter rooms they are allowed in, and perhaps a request is over.
LEMMA RoomsStep ==
    ASSUME RealtimeInv, UNCHANGED <<accounts, handshake, given, events>>,
           open' \subseteq open, rooms' \in [Sockets -> SUBSET Room],
           \A s \in open' : \A r \in rooms'[s] : r \in rooms[s] \/ Allowed(s, r),
           req' \in [Workers -> MessageRequest \cup RevokeRequest \cup {Idle}],
           \A w \in Workers : req'[w] = req[w] \/ req'[w] = Idle
    PROVE  RealtimeInv'
<1>1. UNCHANGED <<role, mechanic, claims, expired, handshake, given, events>>
  BY DEF accounts
<1>2. TypeOK'
  BY <1>1 DEF RealtimeInv, TypeOK, signed
<1>3. ClaimsOK' /\ EventsOK'
  BY <1>1 DEF RealtimeInv, ClaimsOK, EventsOK, Known, data
<1>4. RoomsOK'
  <2>1. \A s \in open : \A r \in rooms[s] : Allowed(s, r)
    BY RoomsAllowed DEF RealtimeInv
  <2>2. \A s \in open' : \A r \in rooms'[s] : Allowed(s, r)
    BY <2>1
  <2>3. \A s, r : Allowed(s, r) => Allowed(s, r)'
    BY <1>1 DEF Allowed, Entitled, data
  <2>4. (\A s \in open : \A r \in rooms[s] : Allowed(s, r))'
    BY <2>2, <2>3
  <2> QED BY <2>4, RoomsAllowed, PTL
<1>5. MessagesOK'
  <2> SUFFICES ASSUME NEW w \in Workers PROVE MessageOK(w)'
    BY DEF MessagesOK
  <2>1. MessageOK(w)
    BY DEF RealtimeInv, MessagesOK
  <2>2. Idle.op \notin {"ask"} \cup Purpose
    BY DEF Idle, Purpose
  <2> QED BY <1>1, <2>1, <2>2 DEF MessageOK, Known, Entitled, data
<1> QED BY <1>2, <1>3, <1>4, <1>5 DEF RealtimeInv

\* A request that ends, next to changes of the rooms.
LEMMA SlotEnds ==
    ASSUME TypeOK, NEW w \in Workers, req' = [req EXCEPT ![w] = Idle]
    PROVE  /\ req' \in [Workers -> MessageRequest \cup RevokeRequest \cup {Idle}]
           /\ \A v \in Workers : req'[v] = req[v] \/ req'[v] = Idle
BY DEF TypeOK

LEMMA SlotsStay ==
    ASSUME TypeOK, req' = req
    PROVE  /\ req' \in [Workers -> MessageRequest \cup RevokeRequest \cup {Idle}]
           /\ \A v \in Workers : req'[v] = req[v] \/ req'[v] = Idle
BY DEF TypeOK

\* The sockets that go have no rooms, the others keep theirs.
LEMMA DropRooms ==
    ASSUME TypeOK, NEW ss \in SUBSET Sockets, Drop(ss)
    PROVE  /\ open' \subseteq open /\ rooms' \in [Sockets -> SUBSET Room]
           /\ \A s \in open' : \A r \in rooms'[s] : r \in rooms[s]
BY DEF TypeOK, Drop

LEMMA DisconnectStep ==
    ASSUME RealtimeInv, NEW s \in Sockets, Disconnect(s) PROVE RealtimeInv'
<1>1. Drop({s}) /\ UNCHANGED <<accounts, handshake, given, events, req>> /\ TypeOK
  BY DEF Disconnect, RealtimeInv
<1>2. /\ UNCHANGED <<accounts, handshake, given, events>>
      /\ req' = req
  BY <1>1
<1>3. {s} \in SUBSET Sockets
  OBVIOUS
<1> QED BY <1>1, <1>2, <1>3, DropRooms, SlotsStay, RoomsStep

LEMMA DisconnectUserStep ==
    ASSUME RealtimeInv, NEW w \in Workers, DisconnectUser(w) PROVE RealtimeInv'
<1>1. /\ Drop(Of(req[w].u)) /\ TypeOK
      /\ UNCHANGED <<accounts, handshake, given, events>>
      /\ req' = [req EXCEPT ![w] = Idle]
  BY DEF DisconnectUser, RealtimeInv
<1>2. Of(req[w].u) \in SUBSET Sockets
  BY <1>1 DEF Of, TypeOK
<1> QED BY <1>1, <1>2, DropRooms, SlotEnds, RoomsStep

\* One room more for one socket.
LEMMA EnterRoom ==
    ASSUME TypeOK, NEW s \in Sockets, NEW q \in Room, open' = open,
           rooms' = [rooms EXCEPT ![s] = @ \cup {q}], Allowed(s, q)
    PROVE  /\ open' \subseteq open /\ rooms' \in [Sockets -> SUBSET Room]
           /\ \A x \in open' : \A r \in rooms'[x] : r \in rooms[x] \/ Allowed(x, r)
BY DEF TypeOK

LEMMA JoinStep == ASSUME RealtimeInv, NEW w \in Workers, Join(w) PROVE RealtimeInv'
<1> DEFINE s == req[w].s
           q == <<"order", req[w].o>>
<1>1. /\ UNCHANGED <<accounts, handshake, open, given, events>>
      /\ req' = [req EXCEPT ![w] = Idle]
      /\ rooms' = [rooms EXCEPT ![s] = IF s \in open THEN @ \cup {q} ELSE @]
      /\ TypeOK /\ req[w].op = "join"
  BY DEF Join, RealtimeInv
<1>2. s \in Sockets /\ req[w].o \in Orders
  BY <1>1, MessageShape DEF Purpose
<1>3. Entitled(s, req[w].o)
  BY <1>1 DEF RealtimeInv, MessagesOK, MessageOK, Purpose
<1>4. Allowed(s, q)
  BY <1>3, RoomsDiffer DEF Allowed
<1>5. q \in Room
  BY <1>2 DEF Room, OrderRoom
<1> HIDE DEF s, q
<1>6. CASE s \in open
  BY <1>1, <1>2, <1>4, <1>5, <1>6, EnterRoom, SlotEnds, RoomsStep
<1>7. CASE s \notin open
  <2>1. /\ open' \subseteq open /\ rooms' \in [Sockets -> SUBSET Room]
        /\ \A x \in open' : \A r \in rooms'[x] : r \in rooms[x]
    BY <1>1, <1>7 DEF TypeOK
  <2> QED BY <1>1, <2>1, SlotEnds, RoomsStep
<1> QED BY <1>6, <1>7

LEMMA LeaveStep ==
    ASSUME RealtimeInv, NEW s \in Sockets, NEW r, Leave(s, r) PROVE RealtimeInv'
<1>1. /\ UNCHANGED <<accounts, handshake, open, given, events>>
      /\ req' = req /\ TypeOK
      /\ rooms' = [rooms EXCEPT ![s] = @ \ {r}]
  BY DEF Leave, RealtimeInv
<1>2. /\ open' \subseteq open /\ rooms' \in [Sockets -> SUBSET Room]
      /\ \A x \in open' : \A q \in rooms'[x] : q \in rooms[x]
  BY <1>1 DEF TypeOK
<1> QED BY <1>1, <1>2, SlotsStay, RoomsStep

LEMMA ClientSubscribeStep ==
    ASSUME RealtimeInv, NEW s \in Sockets, NEW u \in Users, ClientSubscribe(s, u)
    PROVE  RealtimeInv'
<1> DEFINE q == <<"client", u>>
<1>1. /\ UNCHANGED <<accounts, handshake, open, given, events>>
      /\ req' = req /\ TypeOK
      /\ rooms' = [rooms EXCEPT ![s] = @ \cup {q}]
  BY DEF ClientSubscribe, RealtimeInv
<1>2. q \in Room
  BY DEF Room, ClientRoom
<1>3. Allowed(s, q)
  BY RoomsDiffer DEF Allowed, ClientSubscribe
<1> HIDE DEF q
<1> QED BY <1>1, <1>2, <1>3, EnterRoom, SlotsStay, RoomsStep

LEMMA DashboardSubscribeStep ==
    ASSUME RealtimeInv, NEW s \in Sockets, DashboardSubscribe(s) PROVE RealtimeInv'
<1>1. /\ UNCHANGED <<accounts, handshake, open, given, events>>
      /\ req' = req /\ TypeOK
      /\ rooms' = [rooms EXCEPT ![s] = @ \cup {Dashboard}]
  BY DEF DashboardSubscribe, RealtimeInv
<1>2. Dashboard \in Room
  BY DEF Room
<1>3. Allowed(s, Dashboard)
  BY RoomsDiffer DEF Allowed, DashboardSubscribe
<1> QED BY <1>1, <1>2, <1>3, EnterRoom, SlotsStay, RoomsStep

-----------------------------------------------------------------------------
(* Connections *)

\* The rooms of a welcome are those its claims allow.
LEMMA WelcomeRooms ==
    ASSUME NEW c \in Claim
    PROVE  /\ Welcome(c) \subseteq Room
           /\ Dashboard \in Welcome(c) => c.role \in Panels
           /\ Management \in Welcome(c) => c.role \in Managers
           /\ \A o \in Orders : <<"order", o>> \notin Welcome(c)
           /\ \A u \in Users : <<"client", u>> \in Welcome(c) => u = c.user
<1>1. \A r \in ClientRoom : r # Dashboard /\ r # Management
                             /\ \E u \in Users : r = <<"client", u>> /\ r[2] = u
  BY RoomsDiffer DEF ClientRoom
<1>2. \A o \in Orders : <<"order", o>> \notin ClientRoom
  BY RoomsDiffer DEF ClientRoom
<1> QED BY <1>1, <1>2, RoomsDiffer DEF Welcome, Room

\* The slot of a connection is its own: nothing is under way from the last one.
LEMMA ConnectStep ==
    ASSUME RealtimeInv, NEW s \in Sockets, NEW t \in Tokens, Connect(s, t) PROVE RealtimeInv'
<1>1. /\ UNCHANGED <<role, mechanic, claims, expired, events, req>> /\ TypeOK
      /\ open' = open \cup {s} /\ s \notin open
      /\ handshake' = [handshake EXCEPT ![s] = t]
      /\ rooms' = [rooms EXCEPT ![s] = Welcome(claims[t])]
      /\ given' = [given EXCEPT ![s] = {o \in Orders : mechanic[o] = claims[t].user}]
      /\ \A w \in Workers : req[w].op \in {"ask"} \cup Purpose => req[w].s # s
  BY DEF Connect, accounts, RealtimeInv
<1>2. /\ t \in signed /\ claims[t] \in Claim
      /\ claims[t].role \in Panels => claims[t].mfa
  BY <1>1, SignedClaim DEF Connect, Verified
<1>3. t # Nobody
  BY NobodyAssumption
<1>4. handshake'[s] = t /\ data(s)' = claims[t] /\ Known(s)'
  BY <1>1, <1>3 DEF TypeOK, data, Known
<1>5. \A x \in Sockets \ {s} : /\ handshake'[x] = handshake[x] /\ data(x)' = data(x)
                               /\ rooms'[x] = rooms[x] /\ given'[x] = given[x]
                               /\ Known(x)' = Known(x)
  BY <1>1 DEF TypeOK, data, Known
<1>6. TypeOK'
  <2>1. /\ handshake' \in [Sockets -> Tokens \cup {Nobody}]
        /\ given' \in [Sockets -> SUBSET Orders]
        /\ open' \subseteq Sockets
    BY <1>1 DEF TypeOK
  <2>2. rooms' \in [Sockets -> SUBSET Room]
    BY <1>1, <1>2, WelcomeRooms DEF TypeOK
  <2>3. signed' = signed
    BY <1>1 DEF signed
  <2>4. \A x \in Sockets : handshake'[x] # Nobody => handshake'[x] \in signed
    BY <1>1, <1>2, <1>4, <1>5 DEF TypeOK
  <2>5. \A x \in open' : handshake'[x] # Nobody
    BY <1>1, <1>3, <1>4, <1>5 DEF TypeOK
  <2> QED BY <1>1, <2>1, <2>2, <2>3, <2>4, <2>5 DEF TypeOK
<1>7. ClaimsOK'
  <2> SUFFICES ASSUME NEW x \in Sockets, Known(x)'
               PROVE  /\ data(x)'.role \in Panels => data(x)'.mfa
                      /\ \A o \in Orders : mechanic[o] = data(x)'.user => o \in given'[x]
    BY <1>1 DEF ClaimsOK
  <2>1. CASE x = s
    BY <1>1, <1>2, <1>4, <2>1 DEF TypeOK
  <2>2. CASE x # s
    BY <1>5, <2>2 DEF RealtimeInv, ClaimsOK
  <2> QED BY <2>1, <2>2
<1>8. RoomsOK'
  <2> SUFFICES ASSUME NEW x \in open'
               PROVE  /\ Dashboard \in rooms'[x] => data(x)'.role \in Panels
                      /\ Management \in rooms'[x] => data(x)'.role \in Managers
                      /\ \A o \in Orders : <<"order", o>> \in rooms'[x] => Entitled(x, o)'
                      /\ \A u \in Users : <<"client", u>> \in rooms'[x] =>
                              data(x)'.role \in Panels \/ data(x)'.user = u
    BY DEF RoomsOK
  <2>1. CASE x = s
    <3>1. rooms'[x] = Welcome(claims[t])
      BY <1>1, <2>1 DEF TypeOK
    <3> QED BY <3>1, <1>2, <1>4, <2>1, WelcomeRooms
  <2>2. CASE x # s
    <3>1. x \in open /\ x \in Sockets
      BY <1>1, <2>2 DEF TypeOK
    <3> QED BY <1>5, <2>2, <3>1 DEF RealtimeInv, RoomsOK, Entitled
  <2> QED BY <2>1, <2>2
<1>9. MessagesOK'
  <2> SUFFICES ASSUME NEW w \in Workers PROVE MessageOK(w)'
    BY DEF MessagesOK
  <2>1. MessageOK(w)
    BY DEF RealtimeInv, MessagesOK
  <2>2. CASE req[w].op \in {"ask"} \cup Purpose
    <3>1. req[w].s \in Sockets \ {s}
      BY <1>1, <2>2, MessageShape
    <3> QED BY <1>1, <1>5, <2>1, <3>1 DEF MessageOK, Entitled
  <2>3. CASE req[w].op \notin {"ask"} \cup Purpose
    BY <1>1, <2>3 DEF MessageOK
  <2> QED BY <2>2, <2>3
<1>10. EventsOK'
  BY <1>1 DEF RealtimeInv, EventsOK
<1> QED BY <1>6, <1>7, <1>8, <1>9, <1>10 DEF RealtimeInv

-----------------------------------------------------------------------------
(* The theorems *)

LEMMA RightsStep == RealtimeInv /\ [Next]_vars => RealtimeInv'
<1> SUFFICES ASSUME RealtimeInv, [Next]_vars PROVE RealtimeInv'
  OBVIOUS
<1>1. CASE Around
  BY <1>1, SignStep, ExpireStep, ChangeRoleStep, AssignStep DEF Around
<1>2. ASSUME NEW s \in Sockets, Message(s) PROVE RealtimeInv'
  BY <1>2, ConnectStep, DisconnectStep, LeaveStep, ClientSubscribeStep, DashboardSubscribeStep,
     BeginMessageStep
  DEF Message, Unsubscribe, ClientUnsubscribe
<1>3. ASSUME NEW w \in Workers, Continue(w) PROVE RealtimeInv'
  <2>1. CASE Read(w)
    BY <2>1, ReadStep
  <2>2. CASE Join(w)
    BY <2>2, JoinStep
  <2>3. CASE Report(w) \/ Relay(w)
    BY <2>3, SayStep DEF Report, Relay, Purpose
  <2>4. CASE DisconnectUser(w)
    BY <2>4, DisconnectUserStep
  <2>5. CASE Fail(w)
    BY <2>5, IdleStep DEF Fail, sockets
  <2>6. ASSUME NEW u \in Users, BeginRevoke(w, u) PROVE RealtimeInv'
    <3> DEFINE r == [op |-> "disconnect", u |-> u]
    <3>1. /\ UNCHANGED <<accounts, sockets>>
          /\ events' = events
          /\ req' = [req EXCEPT ![w] = r]
      BY <2>6 DEF BeginRevoke, sockets
    <3>2. r \in RevokeRequest /\ r.op \notin {"ask"} \cup Purpose
      BY DEF RevokeRequest, Purpose
    <3>3. events' \subseteq [role : Roles, given : BOOLEAN] /\ EventsOK'
      BY <3>1 DEF RealtimeInv, TypeOK, EventsOK
    <3> HIDE DEF r
    <3> QED BY <3>1, <3>2, <3>3, SlotStep
  <2> QED BY <1>3, <2>1, <2>2, <2>3, <2>4, <2>5, <2>6 DEF Continue
<1>4. CASE UNCHANGED vars
  BY <1>4 DEF vars, RealtimeInv, TypeOK, signed, ClaimsOK, RoomsOK, MessagesOK, MessageOK,
              EventsOK, Entitled, Known, data
<1> QED BY <1>1, <1>2, <1>3, <1>4 DEF Next

\* The invariant behind the gateway's rights.
THEOREM RightsInvariant == Spec => []RealtimeInv
BY RightsInit, RightsStep, PTL DEF Spec

\* Every variable of the gateway has its type.
THEOREM RealtimeTypeCorrect == Spec => []TypeOK
<1>1. RealtimeInv => TypeOK
  BY DEF RealtimeInv
<1> QED BY <1>1, RightsInvariant, PTL

\* A workshop socket hears of an order, or speaks in its room, only if the order was
\* given to its user since it connected, however the reads and the joins interleave
\* with changes of hands.
THEOREM RightsFollow == Spec => []RightsFollowAssignment
<1>1. RealtimeInv => RightsFollowAssignment
  <2> SUFFICES ASSUME RealtimeInv, NEW s \in open, NEW o \in Orders,
                      Hears(s, ToInspect(o)), data(s).role \in Workshop
               PROVE  o \in given[s]
    BY DEF RealtimeInv, EventsOK, RightsFollowAssignment
  <2>1. Dashboard \in rooms[s] \/ Management \in rooms[s] \/ <<"order", o>> \in rooms[s]
    BY DEF Hears, ToInspect, ToOrder
  <2>2. data(s).role \notin Panels /\ data(s).role \notin Managers
    BY DEF Workshop, Panels, Managers
  <2> QED BY <2>1, <2>2 DEF RealtimeInv, RoomsOK, Entitled
<1> QED BY <1>1, RightsInvariant, PTL

\* What is meant for the panels, for the workshop of an order or for a client reaches
\* nobody else, and no panel without its second factor.
THEOREM PanelsVerified == Spec => []PanelRoomsVerified
<1>1. RealtimeInv => PanelRoomsVerified
  <2> SUFFICES ASSUME RealtimeInv, NEW s \in open
               PROVE  /\ Hears(s, ToBoard) => Proven(s)
                      /\ \A o \in Orders : Hears(s, ToOrder(o)) =>
                              Proven(s) \/ data(s).role \in Workshop
                      /\ \A u \in Users : Hears(s, ToDelivered(u)) =>
                              Proven(s) \/ data(s).user = u
                      /\ Hears(s, {Management}) => Proven(s) /\ data(s).role \in Managers
    BY DEF PanelRoomsVerified
  <2>1. s \in Sockets /\ Known(s)
    BY DEF RealtimeInv, TypeOK, Known
  <2>2. data(s).role \in Panels => Proven(s)
    BY <2>1 DEF RealtimeInv, ClaimsOK, Proven
  <2>3. data(s).role \in Managers => data(s).role \in Panels
    BY DEF Managers, Panels
  <2>4. Hears(s, ToBoard) => Dashboard \in rooms[s]
    BY DEF Hears, ToBoard
  <2>5. \A o \in Orders : Hears(s, ToOrder(o)) =>
            Dashboard \in rooms[s] \/ <<"order", o>> \in rooms[s]
    BY DEF Hears, ToOrder
  <2>6. \A u \in Users : Hears(s, ToDelivered(u)) =>
            Dashboard \in rooms[s] \/ <<"client", u>> \in rooms[s]
    BY DEF Hears, ToDelivered
  <2>7. Hears(s, {Management}) => Management \in rooms[s]
    BY DEF Hears
  <2> QED BY <2>2, <2>3, <2>4, <2>5, <2>6, <2>7 DEF RealtimeInv, RoomsOK, Entitled
<1> QED BY <1>1, RightsInvariant, PTL

-----------------------------------------------------------------------------
(* What an expired token still gets *)

LEMMA PurposeStep ==
    ASSUME ReachInv, Next PROVE \A w \in Workers : req'[w].op \in Purpose => req'[w].for = req'[w].op
<1> SUFFICES ASSUME NEW w \in Workers, req'[w].op \in Purpose PROVE req'[w].for = req'[w].op
  OBVIOUS
<1>1. /\ req \in [Workers -> MessageRequest \cup RevokeRequest \cup {Idle}]
      /\ \A v \in Workers : req[v].op \in Purpose => req[v].for = req[v].op
      /\ Idle.op \notin Purpose
  BY DEF ReachInv, RealtimeInv, TypeOK, Idle, Purpose
<1>2. CASE req' = req
  BY <1>1, <1>2
<1>3. CASE \E v \in Workers : req' = [req EXCEPT ![v] = Idle]
  BY <1>1, <1>3
<1>4. ASSUME NEW v \in Workers, Read(v) PROVE req'[w].for = req'[w].op
  <2>1. req[v] \in MessageRequest
    BY <1>1, <1>4 DEF Read, RevokeRequest, Idle
  <2> QED BY <1>1, <1>4, <2>1 DEF Read, MessageRequest
<1>5. ASSUME NEW v \in Workers, NEW s \in Sockets, NEW o \in Orders, NEW for \in Purpose,
             BeginMessage(v, s, o, for)
      PROVE  req'[w].for = req'[w].op
  <2>1. req' = [req EXCEPT ![v] = [op |-> "ask", for |-> for, s |-> s, o |-> o]]
    BY <1>5 DEF BeginMessage, Park
  <2> QED BY <1>1, <2>1 DEF Purpose
<1>6. ASSUME NEW v \in Workers, NEW u \in Users, BeginRevoke(v, u) PROVE req'[w].for = req'[w].op
  <2>1. req' = [req EXCEPT ![v] = [op |-> "disconnect", u |-> u]]
    BY <1>6 DEF BeginRevoke
  <2> QED BY <1>1, <2>1 DEF Purpose
<1>7. CASE Around
  <2>1. req' = req
    BY <1>7 DEF Around, Expire, Sign, ChangeRole, Assign
  <2> QED BY <1>2, <2>1
<1>8. ASSUME NEW s \in Sockets, Message(s) PROVE req'[w].for = req'[w].op
  BY <1>2, <1>5, <1>8 DEF Message, Connect, Disconnect, Unsubscribe, ClientUnsubscribe, Leave,
                          ClientSubscribe, DashboardSubscribe
<1>9. ASSUME NEW v \in Workers, Continue(v) PROVE req'[w].for = req'[w].op
  BY <1>3, <1>4, <1>6, <1>9 DEF Continue, Join, Report, Relay, Say, DisconnectUser, Fail
<1> QED BY <1>7, <1>8, <1>9 DEF Next

\* A step that signs nothing leaves a socket that stays connected its claims.
LEMMA SameClaims ==
    ASSUME RealtimeInv, Next, NEW s \in open, s \in open'
    PROVE  handshake'[s] = handshake[s] /\ data(s)' = data(s)
<1>1. TypeOK /\ s \in Sockets /\ Known(s)
  BY DEF RealtimeInv, TypeOK, Known
<1>2. handshake[s] \in signed
  BY <1>1, KnownClaim
<1>3. ASSUME NEW t \in Tokens, NEW u \in Users, NEW totp \in BOOLEAN, Sign(t, u, totp)
      PROVE  handshake'[s] = handshake[s] /\ data(s)' = data(s)
  BY <1>1, <1>2, <1>3 DEF Sign, sockets, data, signed, TypeOK
<1>4. ASSUME NEW x \in Sockets, NEW t \in Tokens, Connect(x, t)
      PROVE  handshake'[s] = handshake[s] /\ data(s)' = data(s)
  BY <1>1, <1>4 DEF Connect, accounts, data, TypeOK
<1>5. CASE UNCHANGED <<claims, handshake>>
  BY <1>5 DEF data
<1>6. CASE Around
  BY <1>3, <1>5, <1>6 DEF Around, Expire, ChangeRole, Assign, sockets
<1>7. ASSUME NEW x \in Sockets, Message(x) PROVE handshake'[s] = handshake[s] /\ data(s)' = data(s)
  BY <1>4, <1>5, <1>7 DEF Message, Disconnect, Unsubscribe, ClientUnsubscribe, Leave,
     ClientSubscribe, DashboardSubscribe, BeginMessage, Park, accounts, sockets
<1>8. ASSUME NEW w \in Workers, Continue(w) PROVE handshake'[s] = handshake[s] /\ data(s)' = data(s)
  BY <1>5, <1>8 DEF Continue, Read, Join, Report, Relay, Say, DisconnectUser, Fail, BeginRevoke,
     accounts, sockets
<1> QED BY <1>6, <1>7, <1>8 DEF Next

\* The rooms of a socket that stays connected: what a step may take and what it may add.
LEMMA RoomsOfStep ==
    ASSUME RealtimeInv, Next, NEW s \in open, s \in open'
    PROVE  /\ Dashboard \in rooms[s] => Dashboard \in rooms'[s]
           /\ \A r \in rooms'[s] \ rooms[s] :
                 \/ handshake[s] \notin expired
                 \/ r = Dashboard /\ data(s).role \in Panels
                 \/ \E w \in Workers : /\ req[w].op = "join" /\ req[w].s = s
                                      /\ r = <<"order", req[w].o>>
<1> DEFINE Goal == /\ Dashboard \in rooms[s] => Dashboard \in rooms'[s]
                   /\ \A r \in rooms'[s] \ rooms[s] :
                         \/ handshake[s] \notin expired
                         \/ r = Dashboard /\ data(s).role \in Panels
                         \/ \E w \in Workers : /\ req[w].op = "join" /\ req[w].s = s
                                              /\ r = <<"order", req[w].o>>
<1>1. TypeOK /\ s \in Sockets
  BY DEF RealtimeInv, TypeOK
<1>2. ASSUME rooms' = rooms PROVE Goal
  BY <1>2
<1>3. ASSUME NEW x \in Sockets, NEW t \in Tokens, Connect(x, t) PROVE Goal
  BY <1>1, <1>3 DEF Connect, TypeOK
<1>4. ASSUME NEW ss \in SUBSET Sockets, Drop(ss) PROVE Goal
  BY <1>1, <1>4 DEF Drop, TypeOK
<1>5. ASSUME NEW x \in Sockets, NEW r, r # Dashboard, Leave(x, r) PROVE Goal
  BY <1>1, <1>5 DEF Leave, TypeOK
<1>6. ASSUME NEW x \in Sockets, NEW u \in Users, ClientSubscribe(x, u) PROVE Goal
  BY <1>1, <1>6 DEF ClientSubscribe, Operative, TypeOK
<1>7. ASSUME NEW x \in Sockets, DashboardSubscribe(x) PROVE Goal
  BY <1>1, <1>7 DEF DashboardSubscribe, TypeOK
<1>8. ASSUME NEW w \in Workers, Join(w) PROVE Goal
  BY <1>1, <1>8 DEF Join, TypeOK
<1> HIDE DEF Goal
<1>9. ASSUME Around PROVE Goal
  BY <1>2, <1>9 DEF Around, Sign, Expire, ChangeRole, Assign, sockets
<1>10. ASSUME NEW x \in Sockets, Message(x) PROVE Goal
  <2>1. ASSUME Disconnect(x) PROVE Goal
    <3>1. Drop({x}) /\ {x} \in SUBSET Sockets
      BY <2>1 DEF Disconnect
    <3> QED BY <3>1, <1>4
  <2>2. ASSUME NEW o \in Orders, Unsubscribe(x, o) PROVE Goal
    BY <1>5, <2>2, RoomsDiffer DEF Unsubscribe
  <2>3. ASSUME NEW u \in Users, ClientUnsubscribe(x, u) PROVE Goal
    BY <1>5, <2>3, RoomsDiffer DEF ClientUnsubscribe
  <2>4. ASSUME NEW w \in Workers, NEW o \in Orders, NEW for \in Purpose, BeginMessage(w, x, o, for)
        PROVE  Goal
    BY <1>2, <2>4 DEF BeginMessage, Park, sockets
  <2> QED BY <1>3, <1>6, <1>7, <1>10, <2>1, <2>2, <2>3, <2>4 DEF Message
<1>11. ASSUME NEW w \in Workers, Continue(w) PROVE Goal
  <2>1. ASSUME DisconnectUser(w) PROVE Goal
    <3>1. Drop(Of(req[w].u)) /\ Of(req[w].u) \in SUBSET Sockets
      BY <1>1, <2>1 DEF DisconnectUser, Of, TypeOK
    <3> QED BY <3>1, <1>4
  <2>2. ASSUME rooms' = rooms PROVE Goal
    BY <1>2, <2>2
  <2> QED BY <1>8, <1>11, <2>1, <2>2 DEF Continue, Read, Report, Relay, Say, Fail, BeginRevoke, sockets
<1>12. Goal
  BY <1>9, <1>10, <1>11 DEF Next
<1> QED BY <1>12 DEF Goal

\* A socket that has just connected as a panel is in the room of the dashboard.
LEMMA NewInBoard ==
    ASSUME RealtimeInv, Next, NEW s \in open' \ open, data(s)'.role \in Panels
    PROVE  Dashboard \in rooms'[s]
<1>1. TypeOK
  BY DEF RealtimeInv
<1>2. ASSUME NEW x \in Sockets, NEW t \in Tokens, Connect(x, t) PROVE Dashboard \in rooms'[s]
  <2>1. s = x /\ rooms'[s] = Welcome(claims[t]) /\ handshake'[s] = t /\ claims' = claims
    BY <1>1, <1>2 DEF Connect, accounts, TypeOK
  <2> QED BY <2>1 DEF data, Welcome
<1>3. CASE open' \subseteq open
  BY <1>3
<1>4. CASE Around
  BY <1>3, <1>4 DEF Around, Sign, Expire, ChangeRole, Assign, sockets
<1>5. ASSUME NEW x \in Sockets, Message(x) PROVE Dashboard \in rooms'[s]
  BY <1>2, <1>3, <1>5 DEF Message, Disconnect, Drop, Unsubscribe, ClientUnsubscribe, Leave,
     ClientSubscribe, DashboardSubscribe, BeginMessage, Park, sockets
<1>6. ASSUME NEW w \in Workers, Continue(w) PROVE Dashboard \in rooms'[s]
  BY <1>3, <1>6 DEF Continue, Read, Join, Report, Relay, Say, DisconnectUser, Drop, Fail,
     BeginRevoke, sockets
<1> QED BY <1>4, <1>5, <1>6 DEF Next

\* A socket past its expiry has no new wish to join: the ones after a step are from before.
LEMMA PurposeOfStep ==
    ASSUME TypeOK, Next, NEW s \in open, handshake[s] \in expired, NEW w \in Workers,
           req'[w].op \in {"ask", "join"}, req'[w].for = "join", req'[w].s = s
    PROVE  /\ req[w].op \in {"ask", "join"} /\ req[w].for = "join" /\ req[w].s = s
           /\ req[w].o = req'[w].o
<1> DEFINE Goal == /\ req[w].op \in {"ask", "join"} /\ req[w].for = "join" /\ req[w].s = s
                   /\ req[w].o = req'[w].o
<1>1. req \in [Workers -> MessageRequest \cup RevokeRequest \cup {Idle}]
  BY DEF TypeOK
<1>2. ASSUME req' = req PROVE Goal
  BY <1>2
<1>3. ASSUME NEW v \in Workers, req' = [req EXCEPT ![v] = Idle] PROVE Goal
  BY <1>1, <1>3 DEF Idle
<1>4. ASSUME NEW v \in Workers, Read(v) PROVE Goal
  <2>1. req[v] \in MessageRequest
    BY <1>1, <1>4 DEF Read, RevokeRequest, Idle
  <2> QED BY <1>1, <1>4, <2>1 DEF Read, MessageRequest
<1>5. ASSUME NEW v \in Workers, NEW x \in Sockets, NEW o \in Orders, NEW for \in Purpose,
             BeginMessage(v, x, o, for)
      PROVE  Goal
  <2>1. /\ req' = [req EXCEPT ![v] = [op |-> "ask", for |-> for, s |-> x, o |-> o]]
        /\ handshake[x] \notin expired
    BY <1>5 DEF BeginMessage, Park, Operative
  <2> QED BY <1>1, <2>1
<1>6. ASSUME NEW v \in Workers, NEW u \in Users, BeginRevoke(v, u) PROVE Goal
  <2>1. req' = [req EXCEPT ![v] = [op |-> "disconnect", u |-> u]]
    BY <1>6 DEF BeginRevoke
  <2> QED BY <1>1, <2>1
<1> HIDE DEF Goal
<1>7. ASSUME Around PROVE Goal
  BY <1>2, <1>7 DEF Around, Expire, Sign, ChangeRole, Assign
<1>8. ASSUME NEW x \in Sockets, Message(x) PROVE Goal
  BY <1>2, <1>5, <1>8 DEF Message, Connect, Disconnect, Unsubscribe, ClientUnsubscribe, Leave,
                          ClientSubscribe, DashboardSubscribe
<1>9. ASSUME NEW v \in Workers, Continue(v) PROVE Goal
  BY <1>3, <1>4, <1>6, <1>9 DEF Continue, Join, Report, Relay, Say, DisconnectUser, Fail
<1>10. Goal
  BY <1>7, <1>8, <1>9 DEF Next
<1> QED BY <1>10 DEF Goal

LEMMA ReachStep == ReachInv /\ [Next]_vars => ReachInv'
<1> SUFFICES ASSUME ReachInv, [Next]_vars PROVE ReachInv'
  OBVIOUS
<1>1. RealtimeInv /\ RealtimeInv'
  BY RightsStep DEF ReachInv
<1>2. CASE Next
  <2>1. \A w \in Workers : req'[w].op \in Purpose => req'[w].for = req'[w].op
    BY <1>2, PurposeStep
  <2>2. ASSUME NEW s \in open', data(s)'.role \in Panels PROVE Dashboard \in rooms'[s]
    <3>1. CASE s \in open
      BY <1>1, <1>2, <2>2, <3>1, SameClaims, RoomsOfStep DEF ReachInv
    <3>2. CASE s \notin open
      BY <1>1, <1>2, <2>2, <3>2, NewInBoard
    <3> QED BY <3>1, <3>2
  <2> QED BY <1>1, <2>1, <2>2 DEF ReachInv
<1>3. CASE UNCHANGED vars
  BY <1>1, <1>3 DEF vars, ReachInv, data
<1> QED BY <1>2, <1>3

\* Past the expiry of its token a socket gains no room: what it may still enter it had
\* asked for before.
THEOREM ExpiryHolds == Spec => ExpiredGainsNothing
<1>1. Init => ReachInv
  BY RightsInit DEF ReachInv, Init, Idle, Purpose
<1>2. ReachInv /\ [Next]_vars =>
        [\A s \in open \cap open' : handshake[s] \in expired => Reach(s)' \subseteq Reach(s)]_vars
  <2> SUFFICES ASSUME ReachInv, Next, NEW s \in open, s \in open', handshake[s] \in expired,
                      NEW r \in Reach(s)'
               PROVE  r \in Reach(s)
    OBVIOUS
  <2>1. RealtimeInv /\ TypeOK
    BY DEF ReachInv, RealtimeInv
  <2>2. CASE r \in rooms'[s]
    <3>1. CASE r \in rooms[s]
      BY <3>1 DEF Reach
    <3>2. CASE r = Dashboard /\ data(s).role \in Panels
      BY <3>2 DEF Reach, ReachInv
    <3>3. ASSUME NEW w \in Workers, req[w].op = "join", req[w].s = s, r = <<"order", req[w].o>>
          PROVE  r \in Reach(s)
      BY <3>3 DEF Reach, ReachInv, Purpose
    <3> QED BY <2>1, <2>2, <3>1, <3>2, <3>3, RoomsOfStep
  <2>3. ASSUME NEW w \in Workers, req'[w].op \in {"ask", "join"}, req'[w].for = "join",
               req'[w].s = s, r = <<"order", req'[w].o>>
        PROVE  r \in Reach(s)
    <3> DEFINE Old == req[w].op \in {"ask", "join"} /\ req[w].for = "join" /\ req[w].s = s
                      /\ req[w].o = req'[w].o
    <3>1. Old
      BY <2>1, <2>3, PurposeOfStep
    <3> QED BY <2>3, <3>1 DEF Reach
  <2> QED BY <2>2, <2>3 DEF Reach
<1> QED BY <1>1, <1>2, ReachStep, PTL DEF Spec, ExpiredGainsNothing

=============================================================================
