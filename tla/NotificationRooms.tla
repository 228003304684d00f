--------------------------- MODULE NotificationRooms ---------------------------
(***************************************************************************)
(* The socket gateway: a client authenticates with an access token and     *)
(* joins the room of the token's role; notifications are sent to rooms, to *)
(* one socket of a user, or to everybody.  Handlers are synchronous.       *)
(***************************************************************************)
CONSTANTS Socket, User, Role, NoClient

Client == [user : User, role : Role]

VARIABLES
    connected,      \* sockets of the namespace
    room,           \* the rooms each socket has joined: roles
    client          \* connectedClients: who authenticated on each socket

roomVars == <<connected, room, client>>

Init ==
    /\ connected = {}
    /\ room = [s \in Socket |-> {}]
    /\ client = [s \in Socket |-> NoClient]

\* authenticateClient: join the room of the role, and register.  A socket that
\* authenticates again stays in the rooms it had joined.
Enrol(s, user, role) ==
    /\ room' = [room EXCEPT ![s] = @ \cup {role}]
    /\ client' = [client EXCEPT ![s] = [user |-> user, role |-> role]]

\* A handshake with a valid token.
Connect(s, user, role) ==
    /\ s \notin connected
    /\ connected' = connected \cup {s}
    /\ Enrol(s, user, role)

\* The "authenticate" message with a valid token.
Authenticate(s, user, role) ==
    /\ s \in connected
    /\ Enrol(s, user, role)
    /\ UNCHANGED connected

\* Mutant: the registration of a lost socket is forgotten.
ForgetRoomsOnly(s) ==
    /\ room' = [room EXCEPT ![s] = {}]
    /\ UNCHANGED client

Forget(s) ==
    /\ room' = [room EXCEPT ![s] = {}]
    /\ client' = [client EXCEPT ![s] = NoClient]

\* A lost connection, or the disconnection that follows an invalid token: the
\* socket leaves its rooms and handleDisconnect unregisters it.
Disconnect(s) ==
    /\ s \in connected
    /\ connected' = connected \ {s}
    /\ Forget(s)

\* Whom a notification to a role reaches (one to several roles is sent to each).
RoleReceivers(role) == {s \in connected : role \in room[s]}

RoomsTypeOK ==
    /\ connected \subseteq Socket
    /\ room \in [Socket -> SUBSET Role]
    /\ client \in [Socket -> Client \cup {NoClient}]
===============================================================================
