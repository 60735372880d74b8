------------------------------ MODULE Realtime ------------------------------
(***************************************************************************)
(* The WebSocket gateway: who gets into which room, and what that means    *)
(* while tokens expire, roles and assignments change and sessions are      *)
(* revoked around a socket that stays connected.                           *)
(*                                                                         *)
(* A socket keeps the claims of the access token of its handshake.  A      *)
(* message is let in by getSocketUser, reads the order, and acts on what   *)
(* it read when the answer comes back: a slot in req.  A slot of Sockets   *)
(* is taken again only when nothing of its last connection is under way.   *)
(***************************************************************************)
EXTENDS Naturals, Requests

CONSTANTS
    Sockets,    \* connections open at the same time
    Tokens,     \* access tokens ever signed
    Users,      \* accounts
    Orders,     \* work orders
    Roles,      \* roles the accounts may be given
    Nobody

UserRole == {"OWNER", "ADMIN", "FINANCE", "MECHANIC", "TRAINEE", "CLIENT"}

ASSUME RolesAssumption == Roles \subseteq UserRole

ASSUME NobodyAssumption == Nobody \notin Users \cup Tokens

VARIABLES
    role,       \* Account.role
    mechanic,   \* WorkOrder.mechanicId
    claims,     \* what each access token says, once signed
    expired,    \* access tokens past their exp
    handshake,  \* the token of a socket's handshake, Nobody before any; the
                \* data of a socket outlive its connection
    open,       \* the sockets connected
    rooms,      \* the rooms they have joined
    given,      \* observer: orders a socket's user has had since it connected
    events      \* what came from a socket into the room or the events of an order:
                \* the role of its user, and whether the order had been given to
                \* them (observer)

accounts == <<role, mechanic, claims, expired>>
sockets == <<handshake, open, rooms, given>>
vars == <<role, mechanic, claims, expired, handshake, open, rooms, given, events, req>>

-----------------------------------------------------------------------------
Panels == {"OWNER", "ADMIN", "FINANCE"}
Managers == {"OWNER", "ADMIN"}
Workshop == {"MECHANIC", "TRAINEE"}

\* The rooms: "dashboard", "room:management", order:<id> and client:<id>.
Dashboard == <<"dashboard">>
Management == <<"management">>
OrderRoom == {"order"} \X Orders
ClientRoom == {"client"} \X Users
Room == {Dashboard, Management} \cup OrderRoom \cup ClientRoom

Claim == [user : Users, role : Roles, mfa : BOOLEAN]
Unsigned == [user |-> Nobody, role |-> "none", mfa |-> FALSE]

\* What a message is for, and the id in its body, without which it is refused.
Purpose == {"join", "report", "relay"}
MessageRequest == [op : {"ask"} \cup Purpose, for : Purpose, s : Sockets, o : Orders]
RevokeRequest == [op : {"disconnect"}, u : Users]

signed == {t \in Tokens : claims[t] # Unsigned}

\* The session data of a socket, as handleConnection left them.
data(s) == claims[handshake[s]]

TypeOK ==
    /\ role      \in [Users -> Roles]
    /\ mechanic  \in [Orders -> Users \cup {Nobody}]
    /\ claims    \in [Tokens -> Claim \cup {Unsigned}]
    /\ expired   \in SUBSET Tokens
    /\ handshake \in [Sockets -> Tokens \cup {Nobody}]
    /\ open      \in SUBSET Sockets
    /\ \A s \in Sockets : handshake[s] # Nobody => handshake[s] \in signed
    /\ \A s \in open : handshake[s] # Nobody
    /\ rooms     \in [Sockets -> SUBSET Room]
    /\ given     \in [Sockets -> SUBSET Orders]
    /\ events    \in SUBSET [role : Roles, given : BOOLEAN]
    /\ req       \in [Workers -> MessageRequest \cup RevokeRequest \cup {Idle}]

Init ==
    /\ role      \in [Users -> Roles]
    /\ mechanic  = [o \in Orders |-> Nobody]
    /\ claims    = [t \in Tokens |-> Unsigned]
    /\ expired   = {}
    /\ handshake = [s \in Sockets |-> Nobody]
    /\ open      = {}
    /\ rooms     = [s \in Sockets |-> {}]
    /\ given     = [s \in Sockets |-> {}]
    /\ events    = {}
    /\ req       = [w \in Workers |-> Idle]

-----------------------------------------------------------------------------
(* Around the gateway *)

\* AuthService.generateTokens signs the role of the row; only a role outside the
\* panels is verified without a TOTP code.
Sign(t, u, totp) ==
    /\ claims[t] = Unsigned
    /\ claims' = [claims EXCEPT ![t] =
                    [user |-> u, role |-> role[u], mfa |-> totp \/ role[u] \notin Panels]]
    /\ UNCHANGED <<role, mechanic, expired, sockets, events, req>>

Expire(t) ==
    /\ t \in signed \ expired
    /\ expired' = expired \cup {t}
    /\ UNCHANGED <<role, mechanic, claims, sockets, events, req>>

\* PATCH /personnel/:id/role: an OWNER neither becomes anything else nor is made.
\* The sockets stay as they are.
ChangeRole(u, r) ==
    /\ role[u] # "OWNER" /\ r # "OWNER" /\ r # role[u]
    /\ role' = [role EXCEPT ![u] = r]
    /\ UNCHANGED <<mechanic, claims, expired, sockets, events, req>>

\* Every route that writes mechanicId: orders, vehicle check-in, PATCH
\* /orders/:id/assign, POST and PATCH /orders.  The sockets stay as they are.
Assign(o, u) ==
    /\ mechanic[o] # u
    /\ mechanic' = [mechanic EXCEPT ![o] = u]
    /\ given' = [s \in Sockets |->
                   IF handshake[s] # Nobody /\ data(s).user = u
                   THEN given[s] \cup {o} ELSE given[s]]
    /\ UNCHANGED <<role, claims, expired, handshake, open, rooms, events, req>>

-----------------------------------------------------------------------------
(* Connections *)

\* The rooms handleConnection joins; those named role:, user: and mechanic: are
\* left out, they follow from the claims and nothing else joins them.
Welcome(c) ==
    {r \in {Dashboard} : c.role \in Panels}
    \cup {r \in {Management} : c.role \in Managers}
    \cup {r \in ClientRoom : c.role = "CLIENT" /\ r[2] = c.user}

\* Mutant: the gateway does not ask for MFA, as before SEC-05-bis.
VerifiedWithoutMfa(t) == t \in signed \ expired

\* A token that expired, or a panel role without MFA, is disconnected at once.
Verified(t) == t \in signed \ expired /\ (claims[t].role \in Panels => claims[t].mfa)

Connect(s, t) ==
    /\ s \notin open
    /\ open' = open \cup {s}
    /\ \A w \in Workers : req[w].op \in {"ask"} \cup Purpose => req[w].s # s
    /\ Verified(t)
    /\ handshake' = [handshake EXCEPT ![s] = t]
    /\ rooms' = [rooms EXCEPT ![s] = Welcome(claims[t])]
    /\ given' = [given EXCEPT ![s] = {o \in Orders : mechanic[o] = claims[t].user}]
    /\ UNCHANGED <<accounts, events, req>>

\* The sockets of ss leave every room; a message of theirs under way goes on.
Drop(ss) ==
    /\ open' = open \ ss
    /\ rooms' = [s \in Sockets |-> IF s \in ss THEN {} ELSE rooms[s]]

\* The client goes, or its message finds the token expired.
Disconnect(s) ==
    /\ s \in open
    /\ Drop({s})
    /\ UNCHANGED <<accounts, handshake, given, events, req>>

-----------------------------------------------------------------------------
(* Messages *)

\* Mutant: the expiry is not looked at, as before SEC-24.
OperativeForever(s) == s \in open

\* getSocketUser lets the message in; otherwise the socket goes, as in Disconnect.
Operative(s) == s \in open /\ handshake[s] \notin expired

Park(w, r) ==
    /\ req[w] = Idle
    /\ req' = [req EXCEPT ![w] = r]
    /\ UNCHANGED <<accounts, sockets, events>>

\* order:subscribe, mechanic:progress and order:status-changed, up to the first await
BeginMessage(w, s, o, for) ==
    /\ Operative(s)
    /\ for = "report" => data(s).role \in Managers \cup Workshop
    /\ Park(w, [op |-> "ask", for |-> for, s |-> s, o |-> o])

\* Mutant: the order only has to exist.
MayAccessAny(c, o) == c.role # "CLIENT"

\* What canAccessOrder and handleMechanicProgress answer for the claims c: the
\* panels see every order, the workshop its own.  A CLIENT is compared by account
\* with a column of clients, and a report excludes neither management role.
MayAccess(c, o) ==
    \/ c.role \in Panels
    \/ c.role \in Workshop /\ mechanic[o] = c.user

\* The order is read, for the user the message came from, whether the socket is
\* still there or not; an answer that refuses ends the message, as in Fail.
Read(w) ==
    /\ req[w].op = "ask"
    /\ MayAccess(data(req[w].s), req[w].o)
    /\ req' = [req EXCEPT ![w].op = req[w].for]
    /\ UNCHANGED <<accounts, sockets, events>>

\* A socket that has gone joins nothing.
Join(w) ==
    /\ req[w].op = "join"
    /\ rooms' = [rooms EXCEPT ![req[w].s] =
                   IF req[w].s \in open THEN @ \cup {<<"order", req[w].o>>} ELSE @]
    /\ req' = [req EXCEPT ![w] = Idle]
    /\ UNCHANGED <<accounts, handshake, open, given, events>>

Say(w) ==
    /\ events' = events \cup {[role  |-> data(req[w].s).role,
                               given |-> req[w].o \in given[req[w].s]]}
    /\ req' = [req EXCEPT ![w] = Idle]
    /\ UNCHANGED <<accounts, sockets>>

\* The progress is broadcast and its row written, even when the socket has gone.
Report(w) == req[w].op = "report" /\ Say(w)

\* The body of order:status-changed goes on to the room of the order, as it came.
Relay(w) == req[w].op = "relay" /\ Say(w)

\* Leaving asks nobody, not even whether the token has expired.
Leave(s, r) ==
    /\ s \in open
    /\ r \in rooms[s]
    /\ rooms' = [rooms EXCEPT ![s] = @ \ {r}]
    /\ UNCHANGED <<accounts, handshake, open, given, events, req>>

Unsubscribe(s, o) == Leave(s, <<"order", o>>)

ClientUnsubscribe(s, u) == Leave(s, <<"client", u>>)

\* client:subscribe
ClientSubscribe(s, u) ==
    /\ Operative(s)
    /\ data(s).role \in Panels \/ data(s).user = u
    /\ rooms' = [rooms EXCEPT ![s] = @ \cup {<<"client", u>>}]
    /\ UNCHANGED <<accounts, handshake, open, given, events, req>>

\* dashboard:subscribe looks at the role and at nothing else.
DashboardSubscribe(s) ==
    /\ s \in open
    /\ data(s).role \in Panels
    /\ rooms' = [rooms EXCEPT ![s] = @ \cup {Dashboard}]
    /\ UNCHANGED <<accounts, handshake, open, given, events, req>>

-----------------------------------------------------------------------------
(* Broadcasts: the rooms a message of the server goes to *)

\* orders created, cash closed, low stock, payments, attendance, overdue vehicles,
\* approvals, security alerts and anomalies
ToBoard == {Dashboard}

\* order:updated, order:status_changed and mechanic:progress; the reporter, in
\* whose own room the last is repeated, is left out
ToOrder(o) == {Dashboard, <<"order", o>>}

\* qa:inspection_requested
ToInspect(o) == {Management} \cup ToOrder(o)

\* vehicle:delivered: the client u hears less of it than the panels do.
ToDelivered(u) == {Dashboard, <<"client", u>>}

Hears(s, to) == s \in open /\ rooms[s] \cap to # {}

-----------------------------------------------------------------------------
(* AuthService.revokeAllUserSessions *)

Of(u) == {s \in open : data(s).user = u}

\* The refresh tokens are revoked and the keys of the sessions are next.
BeginRevoke(w, u) ==
    /\ req[w] = Idle
    /\ req' = [req EXCEPT ![w] = [op |-> "disconnect", u |-> u]]
    /\ UNCHANGED <<accounts, handshake, open, rooms, given, events>>

DisconnectUser(w) ==
    /\ req[w].op = "disconnect"
    /\ Drop(Of(req[w].u))
    /\ req' = [req EXCEPT ![w] = Idle]
    /\ UNCHANGED <<accounts, handshake, given, events>>

-----------------------------------------------------------------------------
\* A message is refused, or one of its calls fails; a revocation whose call to
\* Redis fails never reaches the sockets.
Fail(w) ==
    /\ req[w] # Idle
    /\ req' = [req EXCEPT ![w] = Idle]
    /\ UNCHANGED <<accounts, handshake, open, rooms, given, events>>

Around ==
    \/ \E t \in Tokens : Expire(t) \/ \E u \in Users, totp \in BOOLEAN : Sign(t, u, totp)
    \/ \E u \in Users, r \in Roles : ChangeRole(u, r)
    \/ \E o \in Orders, u \in Users \cup {Nobody} : Assign(o, u)

Message(s) ==
    \/ \E t \in Tokens : Connect(s, t)
    \/ Disconnect(s)
    \/ \E o \in Orders : Unsubscribe(s, o)
    \/ \E u \in Users : ClientSubscribe(s, u) \/ ClientUnsubscribe(s, u)
    \/ DashboardSubscribe(s)
    \/ \E w \in Workers, o \in Orders, for \in Purpose : BeginMessage(w, s, o, for)

Continue(w) ==
    \/ Read(w) \/ Join(w) \/ Report(w) \/ Relay(w) \/ DisconnectUser(w) \/ Fail(w)
    \/ \E u \in Users : BeginRevoke(w, u)

Next ==
    \/ Around
    \/ \E s \in Sockets : Message(s)
    \/ \E w \in Workers : Continue(w)

Spec == Init /\ [][Next]_vars

-----------------------------------------------------------------------------
(* What holds however messages, expiry, roles and assignments interleave *)

\* "MECHANIC/TRAINEE: solo su OT asignada": a workshop socket hears of an order,
\* and its user appears in the order's progress or speaks in its room, only if the
\* order was given to them since the socket connected, whatever happens between
\* the read and the join.
RightsFollowAssignment ==
    /\ \A s \in open, o \in Orders :
         Hears(s, ToInspect(o)) /\ data(s).role \in Workshop => o \in given[s]
    /\ \A e \in events : e.role # "CLIENT" /\ (e.role \in Workshop => e.given)

Proven(s) == data(s).role \in Panels /\ data(s).mfa

\* SEC-05-bis and SEC-13: what the server tells the panels, or of an order outside
\* the workshop, or of a delivery to anyone but its client, reaches only sockets
\* that signed in with a role of the panels and a verified second factor; and the
\* room of the management has managers only.
PanelRoomsVerified ==
    \A s \in open :
        /\ Hears(s, ToBoard) => Proven(s)
        /\ \A o \in Orders : Hears(s, ToOrder(o)) => Proven(s) \/ data(s).role \in Workshop
        /\ \A u \in Users : Hears(s, ToDelivered(u)) => Proven(s) \/ data(s).user = u
        /\ Hears(s, {Management}) => Proven(s) /\ data(s).role \in Managers

\* What a socket is in, or may yet get into by a message already let in.
Reach(s) ==
    rooms[s] \cup {<<"order", req[w].o>> : w \in
        {v \in Workers : req[v].op \in {"ask", "join"} /\ req[v].for = "join" /\ req[v].s = s}}

\* SEC-24, "para que un socket no sobreviva operativo a su token": once the token
\* has expired a connection gets into no room it had not asked for before, by
\* dashboard:subscribe either, which does not look at the expiry.
ExpiredGainsNothing ==
    [][\A s \in open \cap open' :
         handshake[s] \in expired => Reach(s)' \subseteq Reach(s)]_vars

-----------------------------------------------------------------------------
(* The inductive invariant *)

\* A socket that has ever connected, the connection over or not.
Known(s) == handshake[s] # Nobody

\* A panel's claims are verified, and every order its user holds was given.
ClaimsOK ==
    \A s \in Sockets :
        Known(s) =>
            /\ data(s).role \in Panels => data(s).mfa
            /\ \A o \in Orders : mechanic[o] = data(s).user => o \in given[s]

\* What lets the user of s into the room of an order.
Entitled(s, o) == data(s).role \in Panels \/ (data(s).role \in Workshop /\ o \in given[s])

\* What lets a socket into each of its rooms.
RoomsOK ==
    \A s \in open :
        /\ Dashboard \in rooms[s] => data(s).role \in Panels
        /\ Management \in rooms[s] => data(s).role \in Managers
        /\ \A o \in Orders : <<"order", o>> \in rooms[s] => Entitled(s, o)
        /\ \A u \in Users : <<"client", u>> \in rooms[s] =>
                data(s).role \in Panels \/ data(s).user = u

\* A message under way comes from a socket that has connected, and once its order has
\* been read its user is entitled to it for good.
MessageOK(w) ==
    /\ req[w].op \in {"ask"} \cup Purpose => Known(req[w].s)
    /\ req[w].op \in Purpose => Entitled(req[w].s, req[w].o)

MessagesOK == \A w \in Workers : MessageOK(w)

EventsOK == \A e \in events : e.role # "CLIENT" /\ (e.role \in Workshop => e.given)

RealtimeInv == TypeOK /\ ClaimsOK /\ RoomsOK /\ MessagesOK /\ EventsOK

\* Every panel is in the room of the dashboard, and a message that has been let do
\* something does what it was sent for.
ReachInv ==
    /\ RealtimeInv
    /\ \A s \in open : data(s).role \in Panels => Dashboard \in rooms[s]
    /\ \A w \in Workers : req[w].op \in Purpose => req[w].for = req[w].op

=============================================================================
