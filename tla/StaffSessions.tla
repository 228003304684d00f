----------------------------- MODULE StaffSessions -----------------------------
(***************************************************************************)
(* Accounts and the sockets of the people who use them.  A socket shows    *)
(* the access token it was given when it connected, or a newer one, and    *)
(* lives on when the token expires, the session is closed or the rights    *)
(* change.                                                                 *)
(***************************************************************************)
EXTENDS Accounts

CONSTANTS Socket, NoClient

VARIABLES connected, room, client

roomVars == <<connected, room, client>>

Rooms == INSTANCE NotificationRooms WITH
             Socket <- Socket, User <- User, Role <- Role, NoClient <- NoClient,
             connected <- connected, room <- room, client <- client

ASSUME SocketsAssumption == NoClient \notin Rooms!Client

staffVars == <<vars, roomVars>>

StaffInit == Init /\ Rooms!Init

\* A socket handler runs to its end; it checks the token and nothing else.
SocketStep(s) ==
    /\ \/ \E t \in tokens : \/ Rooms!Connect(s, t.user, t.right.role)
                            \/ Rooms!Authenticate(s, t.user, t.right.role)
       \/ Rooms!Disconnect(s)
    /\ UNCHANGED vars

StaffNext == \/ Next /\ UNCHANGED roomVars
             \/ \E s \in Socket : SocketStep(s)

StaffSpec == StaffInit /\ [][StaffNext]_staffVars

-----------------------------------------------------------------------------
(* Properties *)

\* Rows, tokens, memories and sockets have their types.
StaffTypeOK == TypeOK /\ Rooms!RoomsTypeOK

\* A notification to a role reaches every socket registered with that role,
\* whatever tokens it has shown before and after, and nobody registered is gone.
RolesReachTheirSockets ==
    \A s \in Socket : client[s] # NoClient => s \in Rooms!RoleReceivers(client[s].role)
===============================================================================
