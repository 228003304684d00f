------------------------------- MODULE Accounts -------------------------------
(***************************************************************************)
(* Users, their sessions and the lock of a login after repeated failures.  *)
(*                                                                         *)
(* A user has one session: a login or a refresh opens it by storing a hash *)
(* of the refresh token, a logout closes it.  The hash is bcrypt's, which  *)
(* reads 72 bytes; those of a token are its header and the beginning of    *)
(* the user's id, so that what the comparison of a refresh tells is        *)
(* whether the session of the token's user is open.                        *)
(***************************************************************************)
EXTENDS Integers, FiniteSets

CONSTANTS
    User,           \* identities of users, never reused
    NoUser,
    Email,
    NoEmail,
    Role,
    Granted,        \* the rights administrators give: [role, admin]
    Call,           \* slots in which HTTP calls follow one another
    Patch,          \* the edits of a user: [email, right], either left out or both given
    MaxFailed,      \* AUTH_MAX_FAILED_ATTEMPTS
    MaxTokens       \* bound: pairs of tokens that are valid at a time

Right == [role : Role, admin : BOOLEAN]

\* What a PATCH leaves out.
NoRight == [role |-> "none", admin |-> FALSE]

ASSUME AccountsAssumption ==
    /\ NoUser \notin User
    /\ NoEmail \notin Email
    /\ Granted \subseteq Right
    /\ "GERANT" \in Role
    /\ MaxFailed \in Nat \ {0}
    /\ MaxTokens \in Nat
    /\ Patch \subseteq [email : Email \cup {NoEmail}, right : Granted \cup {NoRight}]

VARIABLES
    account,        \* the users' rows
    tokens,         \* pairs of tokens not expired: who, with which rights
    login,          \* what each call in progress remembers
    failures,       \* history: failed passwords of each user, up to MaxFailed
    held            \* history: the rights a call's user had since it began

vars == <<account, tokens, login, failures, held>>

Account == [state : {"absent", "present", "removed"},
            email : Email \cup {NoEmail}, right : Right \cup {NoRight},
            open : BOOLEAN, failed : 0 .. MaxFailed, locked : BOOLEAN]

Token == [user : User, right : Right]

Memory == [pc : {"idle", "fail", "reset", "session", "create", "edit"},
           user : User \cup {NoUser},
           failed : 0 .. MaxFailed,
           email : Email \cup {NoEmail},
           right : Right \cup {NoRight}]

Exists(u) == account[u].state = "present"

Blank(state) == [state |-> state, email |-> NoEmail, right |-> NoRight,
                 open |-> FALSE, failed |-> 0, locked |-> FALSE]

Fresh(email, right) == [Blank("present") EXCEPT !.email = email, !.right = right]

Idle == [pc |-> "idle", user |-> NoUser, failed |-> 0,
         email |-> NoEmail, right |-> NoRight]

\* The seed creates one administrator.
Init ==
    /\ \E u \in User, e \in Email :
          account = [v \in User |->
              IF v = u THEN Fresh(e, [role |-> "GERANT", admin |-> TRUE]) ELSE Blank("absent")]
    /\ tokens = {}
    /\ login = [c \in Call |-> Idle]
    /\ failures = [u \in User |-> 0]
    /\ held = [c \in Call |-> {}]

IsIdle(c) == login[c].pc = "idle"

Become(c, m) == login' = [login EXCEPT ![c] = m]

\* A call that will open a session begins.
BeginSession(c, m) ==
    /\ Become(c, m)
    /\ held' = [held EXCEPT ![c] = {account[m.user].right}]

End(c) ==
    /\ Become(c, Idle)
    /\ held' = [held EXCEPT ![c] = {}]

-----------------------------------------------------------------------------
(* Login, refresh, logout *)

\* The row is read once; what follows acts on what was read.
ReadLogin(c, u) ==
    /\ IsIdle(c)
    /\ Exists(u)
    /\ ~account[u].locked
    /\ \/ /\ BeginSession(c, [Idle EXCEPT !.pc = "reset", !.user = u, !.right = account[u].right])
       \/ /\ Become(c, [Idle EXCEPT !.pc = "fail", !.user = u, !.failed = account[u].failed])
          /\ UNCHANGED held
    /\ UNCHANGED <<account, tokens, failures>>

\* Mutant: the test of the limit is off by one.
AfterFailureOnce(a, n) ==
    IF n + 2 >= MaxFailed THEN [a EXCEPT !.failed = 0, !.locked = TRUE]
    ELSE [a EXCEPT !.failed = n + 1]

\* The count written is the one read plus one; at the limit the user is locked
\* and counted from zero again.
AfterFailure(a, n) ==
    IF n + 1 >= MaxFailed THEN [a EXCEPT !.failed = 0, !.locked = TRUE]
    ELSE [a EXCEPT !.failed = n + 1]

WriteFailure(c) ==
    LET u == login[c].user IN
    /\ login[c].pc = "fail"
    /\ Exists(u)
    /\ account' = [account EXCEPT ![u] = AfterFailure(@, login[c].failed)]
    /\ failures' = [failures EXCEPT ![u] = IF @ < MaxFailed THEN @ + 1 ELSE @]
    /\ End(c)
    /\ UNCHANGED <<tokens>>

WriteReset(c) ==
    LET u == login[c].user IN
    /\ login[c].pc = "reset"
    /\ Exists(u)
    /\ account' = [account EXCEPT ![u].failed = 0, ![u].locked = FALSE]
    /\ Become(c, [login[c] EXCEPT !.pc = "session"])
    /\ UNCHANGED <<tokens, failures, held>>

\* Mutant: a refresh copies the rights of the token it was given.
RefreshedRightOfToken(t) == t.right

\* The rights of a refreshed session are those of the row, not of the token.
RefreshedRight(t) == account[t.user].right

\* A token tells which user asks; the old rights it carries are ignored.
ReadRefresh(c, t) ==
    /\ IsIdle(c)
    /\ t \in tokens
    /\ Exists(t.user)
    /\ account[t.user].open
    /\ BeginSession(c, [Idle EXCEPT !.pc = "session", !.user = t.user, !.right = RefreshedRight(t)])
    /\ UNCHANGED <<account, tokens, failures>>

\* createSession: the row, then the answer with both tokens.
WriteSession(c) ==
    LET u == login[c].user IN
    /\ login[c].pc = "session"
    /\ Exists(u)
    /\ account' = [account EXCEPT ![u].open = TRUE, ![u].failed = 0, ![u].locked = FALSE]
    /\ tokens' = tokens \cup {[user |-> u, right |-> login[c].right]}
    /\ Cardinality(tokens') <= MaxTokens
    /\ End(c)
    /\ UNCHANGED failures

Logout(t) ==
    /\ t \in tokens
    /\ Exists(t.user)
    /\ account' = [account EXCEPT ![t.user].open = FALSE]
    /\ UNCHANGED <<tokens, login, failures, held>>

\* A pair expires as one: an access token that outlived its refresh token, or the
\* other way round, would only do less.
ExpireTokens(t) ==
    /\ tokens' = tokens \ {t}
    /\ UNCHANGED <<account, login, failures, held>>

ExpireLock(u) ==
    /\ account[u].locked
    /\ account' = [account EXCEPT ![u].locked = FALSE]
    /\ UNCHANGED <<tokens, login, failures, held>>

-----------------------------------------------------------------------------
(* Administration, by the token of an administrator *)

\* AdminGuard looks at the token only.
MayAdminister(t) == t \in tokens /\ (t.right.admin \/ t.right.role = "GERANT")

\* The checks of the services, in a statement before the write.
EmailTaken(e, u) == \E v \in User \ {u} : account[v].email = e

\* The unique index of emails, at the write.
UniqueEmail(e, u) == ~EmailTaken(e, u)

\* POST /users, and POST /auth/register, which gives one fixed right.
ReadCreate(c, t, e, r) ==
    /\ IsIdle(c)
    /\ MayAdminister(t)
    /\ ~EmailTaken(e, NoUser)
    /\ Become(c, [Idle EXCEPT !.pc = "create", !.email = e, !.right = r])
    /\ UNCHANGED <<account, tokens, failures, held>>

\* The password was hashed meanwhile: the unique index decides.
WriteCreate(c, u) ==
    /\ login[c].pc = "create"
    /\ account[u].state = "absent"
    /\ UniqueEmail(login[c].email, u)
    /\ account' = [account EXCEPT ![u] = Fresh(login[c].email, login[c].right)]
    /\ End(c)
    /\ UNCHANGED <<tokens, failures>>

\* A PATCH gives an email, a right, or both.
ReadEdit(c, t, u, patch) ==
    /\ IsIdle(c)
    /\ MayAdminister(t)
    /\ Exists(u)
    /\ patch.email # NoEmail => ~EmailTaken(patch.email, u)
    /\ Become(c, [Idle EXCEPT !.pc = "edit", !.user = u,
                              !.email = patch.email, !.right = patch.right])
    /\ UNCHANGED <<account, tokens, failures, held>>

Edited(a, m) ==
    [a EXCEPT !.email = IF m.email = NoEmail THEN @ ELSE m.email,
              !.right = IF m.right = NoRight THEN @ ELSE m.right]

OpensSession(c) == login[c].pc \in {"reset", "session"}

\* The rights of a user may change under the user's other calls.
WriteEdit(c) ==
    LET m == login[c] IN
    /\ m.pc = "edit"
    /\ Exists(m.user)
    /\ m.email # NoEmail => UniqueEmail(m.email, m.user)
    /\ account' = [account EXCEPT ![m.user] = Edited(@, m)]
    /\ held' = [d \in Call |-> IF login[d].user = m.user /\ OpensSession(d)
                               THEN held[d] \cup {Edited(account[m.user], m).right}
                               ELSE held[d]]
    /\ Become(c, Idle)
    /\ UNCHANGED <<tokens, failures>>

\* DELETE, when no audit row names the user: the database refuses otherwise.
RemoveUser(t, u) ==
    /\ MayAdminister(t)
    /\ Exists(u)
    /\ account' = [account EXCEPT ![u] = Blank("removed")]
    /\ UNCHANGED <<tokens, login, failures, held>>

\* A user who is gone, an email taken meanwhile, a lost connection.
Abort(c) ==
    /\ ~IsIdle(c)
    /\ End(c)
    /\ UNCHANGED <<account, tokens, failures>>

Next ==
    \/ \E c \in Call :
          \/ \E u \in User : ReadLogin(c, u)
          \/ WriteFailure(c)
          \/ WriteReset(c)
          \/ \E t \in tokens : ReadRefresh(c, t)
          \/ WriteSession(c)
          \/ \E t \in tokens, e \in Email, r \in Granted : ReadCreate(c, t, e, r)
          \/ \E u \in User : WriteCreate(c, u)
          \/ \E t \in tokens, u \in User, patch \in Patch : ReadEdit(c, t, u, patch)
          \/ WriteEdit(c)
          \/ Abort(c)
    \/ \E t \in tokens : Logout(t) \/ ExpireTokens(t) \/ \E u \in User : RemoveUser(t, u)
    \/ \E u \in User : ExpireLock(u)

Spec == Init /\ [][Next]_vars

-----------------------------------------------------------------------------
(* Properties *)

\* Rows, tokens and the memories of calls have their types.
TypeOK ==
    /\ account \in [User -> Account]
    /\ tokens \subseteq Token
    /\ login \in [Call -> Memory]
    /\ failures \in [User -> 0 .. MaxFailed]
    /\ held \in [Call -> SUBSET Right]

\* However overlapping logins overwrite each other's count, the count stays below
\* the limit and never exceeds the failures there were, and nobody is locked
\* before as many failures as the limit asks for.
LockedAfterEnoughFailures ==
    \A u \in User :
        /\ account[u].failed < MaxFailed
        /\ account[u].failed <= failures[u]
        /\ account[u].locked => failures[u] = MaxFailed

\* A session is opened with rights its user has had since the call began: rights
\* withdrawn before a refresh began are not in the tokens it gives.
SessionHasCurrentRights ==
    \A c \in Call : login[c].pc = "session" => login[c].right \in held[c]

\* Emails identify users although they are checked in an earlier statement.
EmailsDistinct ==
    \A u, v \in User :
        Exists(u) /\ Exists(v) /\ account[u].email = account[v].email => u = v
===============================================================================
