------------------------- MODULE AdministrationProofs -------------------------
(***************************************************************************)
(* Proofs about what the administrators keep: first the accounts of the    *)
(* staff and their sessions (Accounts, StaffSessions), then the company    *)
(* that issues the documents and its templates (CompanySettings,           *)
(* DocumentTemplates); for any users, rights, limit of failures, sockets   *)
(* and overlapping calls, any profiles, kinds of logo slots, templates     *)
(* and readers.                                                            *)
(***************************************************************************)
EXTENDS StaffSessions, CompanySettings, FiniteSetTheorems, SequenceTheorems,
        NaturalsInduction, TLAPS

-----------------------------------------------------------------------------
(***************************************************************************)
(* Accounts and StaffSessions                                              *)
(***************************************************************************)

\* What is known of a row that exists, and of a call by what it is doing.
RowsKnown ==
  \A u \in User : Exists(u) => account[u].right \in Right /\ account[u].email \in Email

CallsKnown ==
  \A c \in Call :
    /\ login[c].pc \in {"fail", "reset", "session", "edit"} => login[c].user \in User
    /\ OpensSession(c) => login[c].right \in Right
    /\ login[c].pc = "create" => login[c].right \in Right /\ login[c].email \in Email

TypeInv == TypeOK /\ RowsKnown /\ CallsKnown

LEMMA LimitIsPositive == MaxFailed \in Nat /\ 0 \in 0 .. MaxFailed /\ 0 < MaxFailed
  BY AccountsAssumption

-----------------------------------------------------------------------------
(* What the handlers write in a row and in the memory of a call.           *)

LEMMA IdleType == Idle \in Memory /\ Idle.pc = "idle"
  BY LimitIsPositive DEF Idle, Memory

LEMMA BlankType ==
  ASSUME NEW state \in {"absent", "removed"}
  PROVE  /\ Blank(state) \in Account /\ Blank(state).state = state
         /\ Blank(state).email = NoEmail
         /\ Blank(state).failed = 0 /\ ~Blank(state).locked
  BY LimitIsPositive DEF Blank, Account

LEMMA FreshType ==
  ASSUME NEW e \in Email, NEW r \in Right
  PROVE  /\ Fresh(e, r) \in Account /\ Fresh(e, r).right = r /\ Fresh(e, r).email = e
         /\ Fresh(e, r).failed = 0 /\ ~Fresh(e, r).locked
  BY LimitIsPositive DEF Fresh, Blank, Account

LEMMA EditedType ==
  ASSUME NEW a \in Account, NEW m \in Memory
  PROVE  /\ Edited(a, m) \in Account /\ Edited(a, m).state = a.state
         /\ Edited(a, m).right = IF m.right = NoRight THEN a.right ELSE m.right
         /\ Edited(a, m).email = IF m.email = NoEmail THEN a.email ELSE m.email
         /\ Edited(a, m).failed = a.failed /\ Edited(a, m).locked = a.locked
  BY DEF Edited, Account, Memory

LEMMA AfterFailureType ==
  ASSUME NEW a \in Account, NEW n \in 0 .. MaxFailed, n < MaxFailed
  PROVE  /\ AfterFailure(a, n) \in Account
         /\ AfterFailure(a, n).state = a.state /\ AfterFailure(a, n).right = a.right
         /\ AfterFailure(a, n).email = a.email
         /\ AfterFailure(a, n).failed < MaxFailed /\ AfterFailure(a, n).failed <= n + 1
         /\ AfterFailure(a, n).locked => a.locked \/ n + 1 >= MaxFailed
<1>1. MaxFailed \in Nat /\ 0 < MaxFailed /\ n \in Nat
  BY LimitIsPositive
<1>2. CASE n + 1 >= MaxFailed
  <2>1. AfterFailure(a, n) = [a EXCEPT !.failed = 0, !.locked = TRUE]
    BY <1>2 DEF AfterFailure
  <2>2. /\ AfterFailure(a, n).failed = 0 /\ AfterFailure(a, n).state = a.state
        /\ AfterFailure(a, n).right = a.right /\ AfterFailure(a, n).email = a.email
    BY <2>1 DEF Account
  <2>3. AfterFailure(a, n) \in Account
    BY <2>1, LimitIsPositive DEF Account
  <2>4. 0 < MaxFailed /\ 0 <= n + 1
    BY <1>1
  <2> QED
    BY <1>2, <2>2, <2>3, <2>4
<1>3. CASE ~(n + 1 >= MaxFailed)
  <2>1. AfterFailure(a, n) = [a EXCEPT !.failed = n + 1]
    BY <1>3 DEF AfterFailure
  <2>2. n + 1 \in 0 .. MaxFailed /\ n + 1 < MaxFailed
    BY <1>1, <1>3
  <2> QED
    BY <1>1, <2>1, <2>2 DEF Account
<1> QED
  BY <1>2, <1>3

\* The rows after a step: u's row is a, the others are kept.
RowBecomes(u, a) ==
  /\ account' \in [User -> Account]
  /\ account'[u] = a
  /\ \A v \in User \ {u} : account'[v] = account[v]

CallBecomes(c, m) ==
  /\ login' \in [Call -> Memory]
  /\ login'[c] = m
  /\ \A d \in Call \ {c} : login'[d] = login[d]

LEMMA RowWritten ==
  ASSUME TypeOK, NEW u \in User, NEW a \in Account, account' = [account EXCEPT ![u] = a]
  PROVE  RowBecomes(u, a)
  BY DEF RowBecomes, TypeOK

LEMMA CallWritten ==
  ASSUME TypeOK, NEW c \in Call, NEW m \in Memory, Become(c, m)
  PROVE  CallBecomes(c, m)
  BY DEF CallBecomes, Become, TypeOK

\* A login or a session written in a row counts its failures from zero.
Counted(a, open) == [a EXCEPT !.open = open, !.failed = 0, !.locked = FALSE]

LEMMA CountedType ==
  ASSUME NEW a \in Account, NEW open \in BOOLEAN
  PROVE  /\ Counted(a, open) \in Account
         /\ Counted(a, open).state = a.state /\ Counted(a, open).right = a.right
         /\ Counted(a, open).email = a.email
         /\ Counted(a, open).failed = 0 /\ ~Counted(a, open).locked
  BY LimitIsPositive DEF Counted, Account

LEMMA ResetRow ==
  ASSUME TypeOK, NEW u \in User,
         account' = [account EXCEPT ![u].failed = 0, ![u].locked = FALSE]
  PROVE  RowBecomes(u, Counted(account[u], account[u].open))
<1> DEFINE a == account[u]
           a1 == [a EXCEPT !.failed = 0]
           a2 == [a1 EXCEPT !.locked = FALSE]
<1>1. a \in Account
  BY DEF TypeOK
<1>2. account' = [account EXCEPT ![u] = a2]
  BY DEF TypeOK
<1>3. a2 = Counted(a, a.open)
  BY <1>1 DEF Counted, Account
<1>4. Counted(a, a.open) \in Account
  BY <1>1, CountedType DEF Account
<1> QED
  BY <1>2, <1>3, <1>4, RowWritten

LEMMA OpenedRow ==
  ASSUME TypeOK, NEW u \in User, NEW open \in BOOLEAN,
         account' = [account EXCEPT ![u].open = open, ![u].failed = 0, ![u].locked = FALSE]
  PROVE  RowBecomes(u, Counted(account[u], open))
<1> DEFINE a == account[u]
           a1 == [a EXCEPT !.open = open]
           a2 == [a1 EXCEPT !.failed = 0]
           a3 == [a2 EXCEPT !.locked = FALSE]
<1>1. a \in Account
  BY DEF TypeOK
<1>2. account' = [account EXCEPT ![u] = a3]
  BY DEF TypeOK
<1>3. a3 = Counted(a, open)
  BY DEF Counted
<1>4. Counted(a, open) \in Account
  BY <1>1, CountedType
<1> HIDE DEF a3
<1>5. account' = [account EXCEPT ![u] = Counted(a, open)]
  BY <1>2, <1>3
<1> QED
  BY <1>4, <1>5, RowWritten

\* A logout, or the end of a lock, changes one flag of a row.
LEMMA FlagRow ==
  ASSUME TypeOK, NEW u \in User,
         \/ account' = [account EXCEPT ![u].open = FALSE]
         \/ account' = [account EXCEPT ![u].locked = FALSE]
  PROVE  /\ account' \in [User -> Account]
         /\ \A v \in User :
              /\ account'[v].state = account[v].state /\ account'[v].right = account[v].right
              /\ account'[v].email = account[v].email /\ account'[v].failed = account[v].failed
              /\ account'[v].locked => account[v].locked
<1>1. account[u] \in Account
  BY DEF TypeOK
<1>2. CASE account' = [account EXCEPT ![u].open = FALSE]
  <2> DEFINE a == [account[u] EXCEPT !.open = FALSE]
  <2>1. /\ a \in Account /\ a.state = account[u].state /\ a.right = account[u].right
        /\ a.email = account[u].email /\ a.failed = account[u].failed
        /\ a.locked = account[u].locked
    BY <1>1 DEF Account
  <2>2. account' = [account EXCEPT ![u] = a]
    BY <1>2
  <2> HIDE DEF a
  <2>3. RowBecomes(u, a)
    BY <2>1, <2>2, RowWritten
  <2> QED
    BY <2>1, <2>3 DEF RowBecomes
<1>3. CASE account' = [account EXCEPT ![u].locked = FALSE]
  <2> DEFINE a == [account[u] EXCEPT !.locked = FALSE]
  <2>1. /\ a \in Account /\ a.state = account[u].state /\ a.right = account[u].right
        /\ a.email = account[u].email /\ a.failed = account[u].failed /\ ~a.locked
    BY <1>1 DEF Account
  <2>2. account' = [account EXCEPT ![u] = a]
    BY <1>3
  <2> HIDE DEF a
  <2>3. RowBecomes(u, a)
    BY <2>1, <2>2, RowWritten
  <2> QED
    BY <2>1, <2>3 DEF RowBecomes
<1> QED
  BY <1>2, <1>3

-----------------------------------------------------------------------------
(* Types.                                                                  *)

LEMMA TypeInvInit == Init => TypeInv
<1> SUFFICES ASSUME Init PROVE TypeInv
  OBVIOUS
<1>1. PICK u \in User, e \in Email :
        account = [v \in User |->
          IF v = u THEN Fresh(e, [role |-> "GERANT", admin |-> TRUE]) ELSE Blank("absent")]
  BY DEF Init
<1>2. [role |-> "GERANT", admin |-> TRUE] \in Right
  BY AccountsAssumption DEF Right
<1>3. account \in [User -> Account] /\ RowsKnown
  <2>1. \A v \in User : account[v] \in Account
    BY <1>1, <1>2, FreshType, BlankType
  <2>2. \A v \in User : Exists(v) => v = u
    BY <1>1, BlankType DEF Exists
  <2>3. account[u].right \in Right /\ account[u].email \in Email
    BY <1>1, <1>2, FreshType
  <2>4. account \in [User -> Account]
    BY <1>1, <2>1
  <2> QED
    BY <2>2, <2>3, <2>4 DEF RowsKnown
<1>4. login \in [Call -> Memory] /\ \A c \in Call : login[c].pc = "idle"
  BY IdleType DEF Init
<1>5. /\ tokens \subseteq Token /\ failures \in [User -> 0 .. MaxFailed]
      /\ held \in [Call -> SUBSET Right]
  BY LimitIsPositive DEF Init
<1>6. CallsKnown
  BY <1>4 DEF CallsKnown, OpensSession
<1> QED
  BY <1>3, <1>4, <1>5, <1>6 DEF TypeInv, TypeOK

\* The rows keep what is known of them when one of them is written.
LEMMA RowKept ==
  ASSUME TypeInv, NEW u \in User, NEW a \in Account, RowBecomes(u, a),
         a.state = "present" => a.right \in Right /\ a.email \in Email
  PROVE  RowsKnown'
<1> SUFFICES ASSUME NEW v \in User, account'[v].state = "present"
             PROVE  account'[v].right \in Right /\ account'[v].email \in Email
  BY DEF RowsKnown, Exists
<1>1. CASE v = u
  <2>1. account'[v] = a
    BY <1>1 DEF RowBecomes
  <2> QED
    BY <2>1
<1>2. CASE v # u
  <2>1. account'[v] = account[v]
    BY <1>2 DEF RowBecomes
  <2> QED
    BY <2>1 DEF RowsKnown, Exists, TypeInv
<1> QED
  BY <1>1, <1>2

LEMMA CallKept ==
  ASSUME TypeInv, NEW c \in Call, NEW m \in Memory, CallBecomes(c, m),
         m.pc \in {"fail", "reset", "session", "edit"} => m.user \in User,
         m.pc \in {"reset", "session"} => m.right \in Right,
         m.pc = "create" => m.right \in Right /\ m.email \in Email
  PROVE  CallsKnown'
<1> SUFFICES ASSUME NEW d \in Call
             PROVE  /\ login'[d].pc \in {"fail", "reset", "session", "edit"} => login'[d].user \in User
                    /\ login'[d].pc \in {"reset", "session"} => login'[d].right \in Right
                    /\ login'[d].pc = "create" => login'[d].right \in Right /\ login'[d].email \in Email
  BY DEF CallsKnown, OpensSession
<1>1. CASE d = c
  BY <1>1 DEF CallBecomes
<1>2. CASE d # c
  <2>1. login'[d] = login[d]
    BY <1>2 DEF CallBecomes
  <2> QED
    BY <2>1 DEF TypeInv, CallsKnown, OpensSession
<1> QED
  BY <1>1, <1>2

LEMMA EndKept ==
  ASSUME TypeInv, NEW c \in Call, Become(c, Idle)
  PROVE  login' \in [Call -> Memory] /\ CallsKnown' /\ CallBecomes(c, Idle)
<1>1. CallBecomes(c, Idle)
  BY IdleType, CallWritten DEF TypeInv
<1> QED
  BY <1>1, IdleType, CallKept DEF CallBecomes

-----------------------------------------------------------------------------
(* What each handler changes.                                              *)

LEMMA ReadLoginEffect ==
  ASSUME TypeInv, NEW c \in Call, NEW u \in User, ReadLogin(c, u)
  PROVE  \E m \in Memory :
           /\ CallBecomes(c, m) /\ m.user = u /\ Exists(u)
           /\ \/ m.pc = "reset" /\ m.right = account[u].right
                 /\ held' = [held EXCEPT ![c] = {account[u].right}]
              \/ m.pc = "fail" /\ m.failed = account[u].failed /\ UNCHANGED held
           /\ UNCHANGED <<account, tokens, failures>>
<1>0. account[u] \in Account /\ Idle \in Memory
  BY IdleType DEF TypeInv, TypeOK
<1> DEFINE reset == [Idle EXCEPT !.pc = "reset", !.user = u, !.right = account[u].right]
           fail == [Idle EXCEPT !.pc = "fail", !.user = u, !.failed = account[u].failed]
<1>1. /\ reset \in Memory /\ reset.pc = "reset" /\ reset.user = u
      /\ reset.right = account[u].right
  BY <1>0, LimitIsPositive DEF Idle, Memory, Account
<1>2. /\ fail \in Memory /\ fail.pc = "fail" /\ fail.user = u
      /\ fail.failed = account[u].failed
  BY <1>0, LimitIsPositive DEF Idle, Memory, Account
<1>3. \/ Become(c, reset) /\ held' = [held EXCEPT ![c] = {account[reset.user].right}]
      \/ Become(c, fail) /\ UNCHANGED held
  BY DEF ReadLogin, BeginSession
<1>4. Exists(u) /\ UNCHANGED <<account, tokens, failures>>
  BY DEF ReadLogin
<1> HIDE DEF reset, fail
<1> QED
  BY <1>1, <1>2, <1>3, <1>4, CallWritten DEF TypeInv

LEMMA WriteFailureEffect ==
  ASSUME TypeInv, NEW c \in Call, WriteFailure(c)
  PROVE  LET u == login[c].user IN
         /\ u \in User /\ login[c].pc = "fail"
         /\ account' = [account EXCEPT ![u] = AfterFailure(account[u], login[c].failed)]
         /\ failures' = [failures EXCEPT ![u] = IF failures[u] < MaxFailed THEN failures[u] + 1
                                                 ELSE failures[u]]
         /\ CallBecomes(c, Idle) /\ held' = [held EXCEPT ![c] = {}] /\ UNCHANGED tokens
  BY EndKept DEF WriteFailure, End, TypeInv, CallsKnown, TypeOK

LEMMA WriteResetEffect ==
  ASSUME TypeInv, NEW c \in Call, WriteReset(c)
  PROVE  LET u == login[c].user IN
         /\ u \in User /\ login[c].pc = "reset"
         /\ RowBecomes(u, Counted(account[u], account[u].open))
         /\ \E m \in Memory : /\ CallBecomes(c, m) /\ m.pc = "session"
                              /\ m.user = u /\ m.right = login[c].right
         /\ UNCHANGED <<tokens, failures, held>>
<1> DEFINE u == login[c].user
           m == [login[c] EXCEPT !.pc = "session"]
<1>1. u \in User /\ login[c].pc = "reset"
  BY DEF WriteReset, TypeInv, CallsKnown
<1>2. m \in Memory /\ m.pc = "session" /\ m.user = u /\ m.right = login[c].right
  BY DEF TypeInv, TypeOK, Memory
<1>3. Become(c, m) /\ UNCHANGED <<tokens, failures, held>>
  BY DEF WriteReset
<1>4. RowBecomes(u, Counted(account[u], account[u].open))
  BY <1>1, ResetRow DEF WriteReset, TypeInv
<1> HIDE DEF m
<1> QED
  BY <1>1, <1>2, <1>3, <1>4, CallWritten DEF TypeInv

LEMMA ReadRefreshEffect ==
  ASSUME TypeInv, NEW c \in Call, NEW t \in tokens, ReadRefresh(c, t)
  PROVE  \E m \in Memory :
           /\ CallBecomes(c, m) /\ m.pc = "session" /\ m.user \in User /\ Exists(m.user)
           /\ m.right = account[m.user].right
           /\ held' = [held EXCEPT ![c] = {account[m.user].right}]
           /\ UNCHANGED <<account, tokens, failures>>
<1> DEFINE u == t.user
           m == [Idle EXCEPT !.pc = "session", !.user = u, !.right = account[u].right]
<1>1. u \in User /\ account[u] \in Account /\ Idle \in Memory
  BY IdleType DEF TypeInv, TypeOK, Token
<1>2. m \in Memory /\ m.pc = "session" /\ m.user = u /\ m.right = account[u].right
  BY <1>1, LimitIsPositive DEF Idle, Memory, Account
<1>3. /\ Become(c, m) /\ held' = [held EXCEPT ![c] = {account[m.user].right}]
      /\ Exists(u) /\ UNCHANGED <<account, tokens, failures>>
  BY DEF ReadRefresh, BeginSession, RefreshedRight
<1> HIDE DEF m
<1> QED
  BY <1>1, <1>2, <1>3, CallWritten DEF TypeInv

LEMMA WriteSessionEffect ==
  ASSUME TypeInv, NEW c \in Call, WriteSession(c)
  PROVE  LET u == login[c].user IN
         /\ u \in User /\ RowBecomes(u, Counted(account[u], TRUE))
         /\ tokens' \subseteq Token
         /\ CallBecomes(c, Idle) /\ held' = [held EXCEPT ![c] = {}] /\ UNCHANGED failures
<1> DEFINE u == login[c].user
<1>1. u \in User /\ login[c].right \in Right
  BY DEF WriteSession, TypeInv, CallsKnown, OpensSession
<1>2. RowBecomes(u, Counted(account[u], TRUE))
  BY <1>1, OpenedRow DEF WriteSession, TypeInv
<1>3. tokens' \subseteq Token
  BY <1>1 DEF WriteSession, TypeInv, TypeOK, Token
<1> QED
  BY <1>1, <1>2, <1>3, EndKept DEF WriteSession, End

LEMMA ReadCreateEffect ==
  ASSUME TypeInv, NEW c \in Call, NEW t \in tokens, NEW e \in Email, NEW r \in Granted,
         ReadCreate(c, t, e, r)
  PROVE  \E m \in Memory :
           /\ CallBecomes(c, m) /\ m.pc = "create" /\ m.email = e /\ m.right \in Right
           /\ UNCHANGED <<account, tokens, failures, held>>
<1> DEFINE m == [Idle EXCEPT !.pc = "create", !.email = e, !.right = r]
<1>1. r \in Right
  BY AccountsAssumption
<1>2. m \in Memory /\ m.pc = "create" /\ m.email = e /\ m.right = r
  BY <1>1, IdleType, LimitIsPositive DEF Idle, Memory
<1>3. Become(c, m) /\ UNCHANGED <<account, tokens, failures, held>>
  BY DEF ReadCreate
<1> HIDE DEF m
<1> QED
  BY <1>1, <1>2, <1>3, CallWritten DEF TypeInv

LEMMA WriteCreateEffect ==
  ASSUME TypeInv, NEW c \in Call, NEW u \in User, WriteCreate(c, u)
  PROVE  LET m == login[c] IN
         /\ m.right \in Right /\ m.email \in Email /\ UniqueEmail(m.email, u)
         /\ RowBecomes(u, Fresh(m.email, m.right))
         /\ CallBecomes(c, Idle) /\ held' = [held EXCEPT ![c] = {}]
         /\ UNCHANGED <<tokens, failures>>
<1> DEFINE m == login[c]
<1>1. m.right \in Right /\ m.email \in Email
  BY DEF WriteCreate, TypeInv, CallsKnown
<1>2. RowBecomes(u, Fresh(m.email, m.right))
  BY <1>1, FreshType, RowWritten DEF WriteCreate, TypeInv
<1> QED
  BY <1>1, <1>2, EndKept DEF WriteCreate, End

LEMMA ReadEditEffect ==
  ASSUME TypeInv, NEW c \in Call, NEW t \in tokens, NEW u \in User, NEW patch \in Patch,
         ReadEdit(c, t, u, patch)
  PROVE  \E m \in Memory :
           /\ CallBecomes(c, m) /\ m.pc = "edit" /\ m.user = u
           /\ UNCHANGED <<account, tokens, failures, held>>
<1> DEFINE m == [Idle EXCEPT !.pc = "edit", !.user = u,
                             !.email = patch.email, !.right = patch.right]
<1>1. patch.email \in Email \cup {NoEmail} /\ patch.right \in Right \cup {NoRight}
  BY AccountsAssumption
<1>2. m \in Memory /\ m.pc = "edit" /\ m.user = u
  BY <1>1, IdleType, LimitIsPositive DEF Idle, Memory
<1>3. Become(c, m) /\ UNCHANGED <<account, tokens, failures, held>>
  BY DEF ReadEdit
<1> HIDE DEF m
<1> QED
  BY <1>2, <1>3, CallWritten DEF TypeInv

LEMMA WriteEditEffect ==
  ASSUME TypeInv, NEW c \in Call, WriteEdit(c)
  PROVE  LET m == login[c]
             u == login[c].user
             a == Edited(account[u], m) IN
         /\ u \in User /\ Exists(u) /\ RowBecomes(u, a)
         /\ m.email # NoEmail => UniqueEmail(m.email, u)
         /\ held' \in [Call -> SUBSET Right]
         /\ \A d \in Call : held[d] \subseteq held'[d]
         /\ CallBecomes(c, Idle) /\ UNCHANGED <<tokens, failures>>
<1> DEFINE m == login[c]
           u == login[c].user
           a == Edited(account[u], m)
<1>1. u \in User /\ Exists(u) /\ m \in Memory /\ account[u] \in Account
  BY DEF WriteEdit, TypeInv, CallsKnown, TypeOK
<1>2. a \in Account /\ a.right \in Right
  <2>1. account[u].right \in Right
    BY <1>1 DEF TypeInv, RowsKnown
  <2>2. m.right \in Right \cup {NoRight}
    BY <1>1 DEF Memory
  <2> QED
    BY <1>1, <2>1, <2>2, EditedType
<1>3. RowBecomes(u, a)
  BY <1>1, <1>2, RowWritten DEF WriteEdit, TypeInv
<1>4. held' = [d \in Call |-> IF login[d].user = u /\ OpensSession(d)
                               THEN held[d] \cup {a.right} ELSE held[d]]
  BY DEF WriteEdit
<1> HIDE DEF a
<1>5. held' \in [Call -> SUBSET Right] /\ \A d \in Call : held[d] \subseteq held'[d]
  BY <1>2, <1>4 DEF TypeInv, TypeOK
<1> QED
  BY <1>1, <1>3, <1>5, EndKept DEF WriteEdit, a

-----------------------------------------------------------------------------
(* Types, for every step.                                                  *)

LEMMA FailedIsTyped ==
  ASSUME TypeInv, NEW c \in Call, NEW f \in [User -> 0 .. MaxFailed], NEW u \in User
  PROVE  [f EXCEPT ![u] = IF f[u] < MaxFailed THEN f[u] + 1 ELSE f[u]] \in [User -> 0 .. MaxFailed]
<1>1. (IF f[u] < MaxFailed THEN f[u] + 1 ELSE f[u]) \in 0 .. MaxFailed
  BY LimitIsPositive
<1> QED
  BY <1>1

LEMMA HeldType ==
  ASSUME TypeOK, NEW c \in Call, NEW rights \in SUBSET Right,
         held' = [held EXCEPT ![c] = rights]
  PROVE  held' \in [Call -> SUBSET Right]
  BY DEF TypeOK

\* The bound of the count that a call remembers, needed for the type of a row.
FailBelowLimit ==
  /\ \A u \in User : account[u].failed < MaxFailed
  /\ \A c \in Call : login[c].pc = "fail" => login[c].failed < MaxFailed

LEMMA RowsKnownUnchanged ==
  ASSUME TypeInv, UNCHANGED account
  PROVE  RowsKnown'
  BY DEF TypeInv, RowsKnown, Exists

LEMMA TypeInvStep ==
  ASSUME TypeInv, FailBelowLimit, [Next]_vars
  PROVE  TypeInv'
<1>1. ASSUME NEW c \in Call, NEW u \in User, ReadLogin(c, u) PROVE TypeInv'
  <2>1. PICK m \in Memory :
          /\ CallBecomes(c, m) /\ m.user = u /\ Exists(u)
          /\ \/ m.pc = "reset" /\ m.right = account[u].right
                /\ held' = [held EXCEPT ![c] = {account[u].right}]
             \/ m.pc = "fail" /\ m.failed = account[u].failed /\ UNCHANGED held
          /\ UNCHANGED <<account, tokens, failures>>
    BY <1>1, ReadLoginEffect
  <2>2. account[u].right \in Right
    BY <2>1 DEF TypeInv, RowsKnown
  <2>3. held' \in [Call -> SUBSET Right]
    BY <2>1, <2>2, HeldType DEF TypeInv, TypeOK
  <2>4. CallsKnown'
    BY <2>1, <2>2, CallKept
  <2> QED
    BY <2>1, <2>3, <2>4, RowsKnownUnchanged DEF CallBecomes, TypeInv, TypeOK
<1>2. ASSUME NEW c \in Call, WriteFailure(c) PROVE TypeInv'
  <2> DEFINE u == login[c].user
             a == AfterFailure(account[u], login[c].failed)
  <2>1. /\ u \in User /\ login[c].pc = "fail" /\ account' = [account EXCEPT ![u] = a]
        /\ failures' = [failures EXCEPT ![u] = IF failures[u] < MaxFailed THEN failures[u] + 1
                                                ELSE failures[u]]
        /\ CallBecomes(c, Idle) /\ held' = [held EXCEPT ![c] = {}] /\ UNCHANGED tokens
    BY <1>2, WriteFailureEffect
  <2>2. login[c].failed \in 0 .. MaxFailed /\ login[c].failed < MaxFailed /\ account[u] \in Account
    BY <2>1 DEF TypeInv, TypeOK, Memory, FailBelowLimit
  <2>3. /\ a \in Account /\ a.state = account[u].state /\ a.right = account[u].right
        /\ a.email = account[u].email
    BY <2>2, AfterFailureType
  <2> HIDE DEF a
  <2>4. RowBecomes(u, a)
    BY <2>1, <2>3, RowWritten DEF TypeInv
  <2>5. RowsKnown'
    <3>1. a.state = "present" => a.right \in Right /\ a.email \in Email
      BY <2>1, <2>3 DEF TypeInv, RowsKnown, Exists
    <3> QED
      BY <2>1, <2>3, <2>4, <3>1, RowKept
  <2>6. CallsKnown'
    BY <2>1, IdleType, CallKept
  <2>7. failures' \in [User -> 0 .. MaxFailed] /\ held' \in [Call -> SUBSET Right]
    BY <2>1, FailedIsTyped, HeldType DEF TypeInv, TypeOK
  <2> QED
    BY <2>1, <2>4, <2>5, <2>6, <2>7 DEF RowBecomes, CallBecomes, TypeInv, TypeOK
<1>3. ASSUME NEW c \in Call, WriteReset(c) PROVE TypeInv'
  <2> DEFINE u == login[c].user
             a == Counted(account[u], account[u].open)
  <2>1. u \in User /\ login[c].pc = "reset" /\ RowBecomes(u, a)
        /\ UNCHANGED <<tokens, failures, held>>
    BY <1>3, WriteResetEffect
  <2>2. PICK m \in Memory : /\ CallBecomes(c, m) /\ m.pc = "session"
                            /\ m.user = u /\ m.right = login[c].right
    BY <1>3, WriteResetEffect
  <2>3. account[u] \in Account /\ account[u].open \in BOOLEAN
    BY <2>1 DEF TypeInv, TypeOK, Account
  <2>4. /\ a \in Account /\ a.state = account[u].state /\ a.right = account[u].right
        /\ a.email = account[u].email
    BY <2>3, CountedType
  <2>5. login[c].right \in Right
    BY <2>1 DEF TypeInv, CallsKnown, OpensSession
  <2> HIDE DEF a
  <2>6. RowsKnown'
    <3>1. a.state = "present" => a.right \in Right /\ a.email \in Email
      BY <2>1, <2>4 DEF TypeInv, RowsKnown, Exists
    <3> QED
      BY <2>1, <2>4, <3>1, RowKept
  <2>7. CallsKnown'
    BY <2>1, <2>2, <2>5, CallKept
  <2> QED
    BY <2>1, <2>2, <2>6, <2>7 DEF RowBecomes, CallBecomes, TypeInv, TypeOK
<1>4. ASSUME NEW c \in Call, NEW t \in tokens, ReadRefresh(c, t) PROVE TypeInv'
  <2>1. PICK m \in Memory :
          /\ CallBecomes(c, m) /\ m.pc = "session" /\ m.user \in User /\ Exists(m.user)
          /\ m.right = account[m.user].right
          /\ held' = [held EXCEPT ![c] = {account[m.user].right}]
          /\ UNCHANGED <<account, tokens, failures>>
    BY <1>4, ReadRefreshEffect
  <2>2. account[m.user].right \in Right
    BY <2>1 DEF TypeInv, RowsKnown
  <2>3. held' \in [Call -> SUBSET Right]
    BY <2>1, <2>2, HeldType DEF TypeInv
  <2>4. CallsKnown'
    BY <2>1, <2>2, CallKept
  <2> QED
    BY <2>1, <2>3, <2>4, RowsKnownUnchanged DEF CallBecomes, TypeInv, TypeOK
<1>5. ASSUME NEW c \in Call, WriteSession(c) PROVE TypeInv'
  <2> DEFINE u == login[c].user
             a == Counted(account[u], TRUE)
  <2>1. /\ u \in User /\ RowBecomes(u, a) /\ tokens' \subseteq Token
        /\ CallBecomes(c, Idle) /\ held' = [held EXCEPT ![c] = {}] /\ UNCHANGED failures
    BY <1>5, WriteSessionEffect
  <2>2. account[u] \in Account
    BY <2>1 DEF TypeInv, TypeOK
  <2>3. /\ a \in Account /\ a.state = account[u].state /\ a.right = account[u].right
        /\ a.email = account[u].email
    BY <2>2, CountedType
  <2> HIDE DEF a
  <2>4. RowsKnown'
    <3>1. a.state = "present" => a.right \in Right /\ a.email \in Email
      BY <2>1, <2>3 DEF TypeInv, RowsKnown, Exists
    <3> QED
      BY <2>1, <2>3, <3>1, RowKept
  <2>5. CallsKnown'
    BY <2>1, IdleType, CallKept
  <2>6. held' \in [Call -> SUBSET Right]
    BY <2>1, HeldType DEF TypeInv
  <2> QED
    BY <2>1, <2>4, <2>5, <2>6 DEF RowBecomes, CallBecomes, TypeInv, TypeOK
<1>6. ASSUME NEW c \in Call, NEW t \in tokens, NEW e \in Email, NEW r \in Granted,
             ReadCreate(c, t, e, r)
      PROVE  TypeInv'
  <2>1. PICK m \in Memory :
          /\ CallBecomes(c, m) /\ m.pc = "create" /\ m.email = e /\ m.right \in Right
          /\ UNCHANGED <<account, tokens, failures, held>>
    BY <1>6, ReadCreateEffect
  <2>2. CallsKnown'
    BY <2>1, CallKept
  <2> QED
    BY <2>1, <2>2, RowsKnownUnchanged DEF CallBecomes, TypeInv, TypeOK
<1>7. ASSUME NEW c \in Call, NEW u \in User, WriteCreate(c, u) PROVE TypeInv'
  <2> DEFINE a == Fresh(login[c].email, login[c].right)
  <2>1. /\ login[c].right \in Right /\ login[c].email \in Email
        /\ RowBecomes(u, a)
        /\ CallBecomes(c, Idle) /\ held' = [held EXCEPT ![c] = {}]
        /\ UNCHANGED <<tokens, failures>>
    BY <1>7, WriteCreateEffect
  <2>2. a \in Account /\ a.right \in Right /\ a.email \in Email
    BY <2>1, FreshType
  <2> HIDE DEF a
  <2>3. RowsKnown'
    BY <2>1, <2>2, RowKept
  <2>4. CallsKnown'
    BY <2>1, IdleType, CallKept
  <2>5. held' \in [Call -> SUBSET Right]
    BY <2>1, HeldType DEF TypeInv
  <2> QED
    BY <2>1, <2>3, <2>4, <2>5 DEF RowBecomes, CallBecomes, TypeInv, TypeOK
<1>8. ASSUME NEW c \in Call, NEW t \in tokens, NEW u \in User, NEW patch \in Patch,
             ReadEdit(c, t, u, patch)
      PROVE  TypeInv'
  <2>1. PICK m \in Memory :
          /\ CallBecomes(c, m) /\ m.pc = "edit" /\ m.user = u
          /\ UNCHANGED <<account, tokens, failures, held>>
    BY <1>8, ReadEditEffect
  <2>2. CallsKnown'
    BY <2>1, CallKept
  <2> QED
    BY <2>1, <2>2, RowsKnownUnchanged DEF CallBecomes, TypeInv, TypeOK
<1>9. ASSUME NEW c \in Call, WriteEdit(c) PROVE TypeInv'
  <2> DEFINE m == login[c]
             u == login[c].user
             a == Edited(account[u], m)
  <2>1. /\ u \in User /\ Exists(u) /\ RowBecomes(u, a)
        /\ held' \in [Call -> SUBSET Right]
        /\ CallBecomes(c, Idle) /\ UNCHANGED <<tokens, failures>>
    BY <1>9, WriteEditEffect
  <2>2. account[u] \in Account /\ m \in Memory
    BY <2>1 DEF TypeInv, TypeOK
  <2>3. a.right \in Right /\ a.email \in Email
    <3>1. account[u].right \in Right /\ account[u].email \in Email
      BY <2>1 DEF TypeInv, RowsKnown
    <3>2. m.right \in Right \cup {NoRight} /\ m.email \in Email \cup {NoEmail}
      BY <2>2 DEF Memory
    <3> QED
      BY <2>2, <3>1, <3>2, EditedType
  <2>4. a \in Account
    BY <2>2, EditedType
  <2> HIDE DEF a
  <2>5. RowsKnown'
    BY <2>1, <2>3, <2>4, RowKept
  <2>6. CallsKnown'
    BY <2>1, IdleType, CallKept
  <2> QED
    BY <2>1, <2>5, <2>6 DEF RowBecomes, CallBecomes, TypeInv, TypeOK
<1>10. ASSUME NEW c \in Call, Abort(c) PROVE TypeInv'
  <2>1. /\ Become(c, Idle) /\ held' = [held EXCEPT ![c] = {}]
        /\ UNCHANGED <<account, tokens, failures>>
    BY <1>10 DEF Abort, End
  <2>2. held' \in [Call -> SUBSET Right]
    BY <2>1, HeldType DEF TypeInv
  <2> QED
    BY <2>1, <2>2, EndKept, RowsKnownUnchanged DEF TypeInv, TypeOK
<1>11. ASSUME NEW t \in tokens, Logout(t) PROVE TypeInv'
  <2>1. t.user \in User
    BY DEF TypeInv, TypeOK, Token
  <2>2. /\ account' = [account EXCEPT ![t.user].open = FALSE]
        /\ UNCHANGED <<tokens, login, failures, held>>
    BY <1>11 DEF Logout
  <2> QED
    BY <2>1, <2>2, FlagRow DEF TypeInv, TypeOK, RowsKnown, Exists, CallsKnown, OpensSession
<1>12. ASSUME NEW t \in tokens, ExpireTokens(t) PROVE TypeInv'
  BY <1>12 DEF ExpireTokens, TypeInv, TypeOK, RowsKnown, Exists, CallsKnown, OpensSession
<1>13. ASSUME NEW t \in tokens, NEW u \in User, RemoveUser(t, u) PROVE TypeInv'
  <2>1. /\ account' = [account EXCEPT ![u] = Blank("removed")]
        /\ UNCHANGED <<tokens, login, failures, held>>
    BY <1>13 DEF RemoveUser
  <2>2. Blank("removed") \in Account /\ Blank("removed").state = "removed"
    BY BlankType
  <2>3. RowBecomes(u, Blank("removed"))
    BY <2>1, <2>2, RowWritten DEF TypeInv
  <2>4. RowsKnown'
    BY <2>2, <2>3, RowKept
  <2> QED
    BY <2>1, <2>3, <2>4 DEF RowBecomes, TypeInv, TypeOK, CallsKnown, OpensSession
<1>14. ASSUME NEW u \in User, ExpireLock(u) PROVE TypeInv'
  <2>1. /\ account' = [account EXCEPT ![u].locked = FALSE]
        /\ UNCHANGED <<tokens, login, failures, held>>
    BY <1>14 DEF ExpireLock
  <2> QED
    BY <2>1, FlagRow DEF TypeInv, TypeOK, RowsKnown, Exists, CallsKnown, OpensSession
<1>15. CASE UNCHANGED vars
  BY <1>15 DEF vars, TypeInv, TypeOK, RowsKnown, Exists, CallsKnown, OpensSession
<1> QED
  BY <1>1, <1>2, <1>3, <1>4, <1>5, <1>6, <1>7, <1>8, <1>9, <1>10, <1>11, <1>12, <1>13,
     <1>14, <1>15 DEF Next

-----------------------------------------------------------------------------
(* Failed logins.                                                          *)

\* A count that is to be written was read: it is not above the failures there
\* were then, which only grow.
FailureRead ==
  \A c \in Call : login[c].pc = "fail" =>
    login[c].failed < MaxFailed /\ login[c].failed <= failures[login[c].user]

FailInv == LockedAfterEnoughFailures /\ FailureRead

LEMMA FailInvBounds == FailInv => FailBelowLimit
  BY DEF FailInv, LockedAfterEnoughFailures, FailureRead, FailBelowLimit

\* A row written with no failures counted is not locked.
LEMMA FailRowReset ==
  ASSUME TypeInv, FailInv, NEW u \in User, NEW a \in Account, RowBecomes(u, a),
         a.failed = 0, ~a.locked, UNCHANGED failures
  PROVE  LockedAfterEnoughFailures'
<1>1. \A v \in User : failures[v] \in Nat
  BY LimitIsPositive DEF TypeInv, TypeOK
<1>2. LockedAfterEnoughFailures
  BY DEF FailInv
<1> QED
  BY <1>1, <1>2, LimitIsPositive DEF LockedAfterEnoughFailures, RowBecomes

LEMMA FailCalls ==
  ASSUME FailInv, NEW c \in Call, NEW m \in Memory, CallBecomes(c, m), UNCHANGED failures,
         m.pc = "fail" => m.failed < MaxFailed /\ m.failed <= failures[m.user]
  PROVE  FailureRead'
<1> SUFFICES ASSUME NEW d \in Call, login'[d].pc = "fail"
             PROVE  login'[d].failed < MaxFailed /\ login'[d].failed <= failures'[login'[d].user]
  BY DEF FailureRead
<1>1. CASE d = c
  BY <1>1 DEF CallBecomes
<1>2. CASE d # c
  <2>1. login'[d] = login[d]
    BY <1>2 DEF CallBecomes
  <2> QED
    BY <2>1 DEF FailInv, FailureRead
<1> QED
  BY <1>1, <1>2

LEMMA FailRowsKept ==
  ASSUME FailInv, UNCHANGED <<account, failures>>
  PROVE  LockedAfterEnoughFailures'
  BY DEF FailInv, LockedAfterEnoughFailures

\* Two overlapping failures write counts they have read: the row may miss one, and
\* is locked only when the last one makes as many as the limit.
LEMMA FailWrite ==
  ASSUME TypeInv, FailInv, NEW c \in Call, WriteFailure(c)
  PROVE  FailInv'
<1> DEFINE u == login[c].user
           n == login[c].failed
           a == AfterFailure(account[u], n)
<1>1. /\ u \in User /\ login[c].pc = "fail" /\ account' = [account EXCEPT ![u] = a]
      /\ failures' = [failures EXCEPT ![u] = IF failures[u] < MaxFailed THEN failures[u] + 1
                                              ELSE failures[u]]
      /\ CallBecomes(c, Idle)
  BY WriteFailureEffect
<1>2. /\ n \in 0 .. MaxFailed /\ n < MaxFailed /\ n <= failures[u] /\ account[u] \in Account
  BY <1>1 DEF TypeInv, TypeOK, Memory, FailInv, FailureRead
<1>3. /\ a \in Account /\ a.failed < MaxFailed /\ a.failed <= n + 1 /\ a.failed \in Nat
      /\ a.locked => account[u].locked \/ n + 1 >= MaxFailed
  <2>1. a \in Account
    BY <1>2, AfterFailureType
  <2>2. a.failed \in 0 .. MaxFailed
    BY <2>1 DEF Account
  <2> HIDE DEF a
  <2>3. a.failed \in Nat
    BY <2>2, LimitIsPositive
  <2> QED
    BY <1>2, <2>1, <2>3, AfterFailureType DEF a
<1> HIDE DEF a
<1>4. /\ account'[u] = a /\ \A v \in User \ {u} : account'[v] = account[v]
  BY <1>1 DEF TypeInv, TypeOK
<1>5. /\ failures'[u] = IF failures[u] < MaxFailed THEN failures[u] + 1 ELSE failures[u]
      /\ \A v \in User \ {u} : failures'[v] = failures[v]
  BY <1>1 DEF TypeInv, TypeOK
<1>6. /\ \A v \in User : failures[v] \in 0 .. MaxFailed
      /\ n \in Nat /\ MaxFailed \in Nat
  BY <1>2, LimitIsPositive DEF TypeInv, TypeOK
<1>7. a.failed <= failures'[u] /\ (a.locked => failures'[u] = MaxFailed)
  <2>1. account[u].locked => failures[u] = MaxFailed
    BY <1>1 DEF FailInv, LockedAfterEnoughFailures
  <2>2. failures[u] \in 0 .. MaxFailed
    BY <1>1, <1>6
  <2> QED
    BY <1>2, <1>3, <1>5, <1>6, <2>1, <2>2
<1>8. LockedAfterEnoughFailures'
  BY <1>3, <1>4, <1>5, <1>7 DEF FailInv, LockedAfterEnoughFailures
<1>9. FailureRead'
  <2> SUFFICES ASSUME NEW d \in Call, login'[d].pc = "fail"
               PROVE  login'[d].failed < MaxFailed /\ login'[d].failed <= failures'[login'[d].user]
    BY DEF FailureRead
  <2>1. d # c
    BY <1>1, IdleType DEF CallBecomes
  <2>2. login'[d] = login[d]
    BY <1>1, <2>1 DEF CallBecomes
  <2>3. login[d].failed < MaxFailed /\ login[d].failed <= failures[login[d].user]
    BY <2>2 DEF FailInv, FailureRead
  <2>4. login[d].user \in User /\ login[d].failed \in 0 .. MaxFailed
    BY <2>2 DEF TypeInv, TypeOK, CallsKnown, Memory
  <2>5. failures[login[d].user] <= failures'[login[d].user]
    BY <1>5, <1>6, <2>4
  <2>6. failures'[login[d].user] \in Nat
    BY <1>5, <1>6, <2>4
  <2> QED
    BY <1>6, <2>2, <2>3, <2>4, <2>5, <2>6
<1> QED
  BY <1>8, <1>9 DEF FailInv

LEMMA FailInvStep ==
  ASSUME TypeInv, FailInv, [Next]_vars
  PROVE  FailInv'
<1> USE DEF FailInv
<1>1. ASSUME NEW c \in Call, NEW u \in User, ReadLogin(c, u) PROVE FailInv'
  <2>1. PICK m \in Memory :
          /\ CallBecomes(c, m) /\ m.user = u
          /\ m.pc = "reset" \/ (m.pc = "fail" /\ m.failed = account[u].failed)
          /\ UNCHANGED <<account, failures>>
    BY <1>1, ReadLoginEffect
  <2>2. account[u].failed < MaxFailed /\ account[u].failed <= failures[u]
    BY DEF LockedAfterEnoughFailures
  <2> QED
    BY <2>1, <2>2, FailCalls, FailRowsKept
<1>2. ASSUME NEW c \in Call, WriteFailure(c) PROVE FailInv'
  BY <1>2, FailWrite
<1>3. ASSUME NEW c \in Call, WriteReset(c) PROVE FailInv'
  <2> DEFINE u == login[c].user
             a == Counted(account[u], account[u].open)
  <2>1. u \in User /\ RowBecomes(u, a) /\ UNCHANGED failures
    BY <1>3, WriteResetEffect
  <2>2. PICK m \in Memory : CallBecomes(c, m) /\ m.pc = "session"
    BY <1>3, WriteResetEffect
  <2>3. account[u] \in Account /\ account[u].open \in BOOLEAN
    BY <2>1 DEF TypeInv, TypeOK, Account
  <2>4. a \in Account /\ a.failed = 0 /\ ~a.locked
    BY <2>3, CountedType
  <2> HIDE DEF a
  <2> QED
    BY <2>1, <2>2, <2>4, FailRowReset, FailCalls
<1>4. ASSUME NEW c \in Call, NEW t \in tokens, ReadRefresh(c, t) PROVE FailInv'
  BY <1>4, ReadRefreshEffect, FailCalls, FailRowsKept
<1>5. ASSUME NEW c \in Call, WriteSession(c) PROVE FailInv'
  <2> DEFINE u == login[c].user
             a == Counted(account[u], TRUE)
  <2>1. u \in User /\ RowBecomes(u, a) /\ CallBecomes(c, Idle) /\ UNCHANGED failures
    BY <1>5, WriteSessionEffect
  <2>2. account[u] \in Account
    BY <2>1 DEF TypeInv, TypeOK
  <2>3. a \in Account /\ a.failed = 0 /\ ~a.locked
    BY <2>2, CountedType
  <2> HIDE DEF a
  <2> QED
    BY <2>1, <2>3, IdleType, FailRowReset, FailCalls
<1>6. ASSUME NEW c \in Call, NEW t \in tokens, NEW e \in Email, NEW r \in Granted,
             ReadCreate(c, t, e, r)
      PROVE  FailInv'
  BY <1>6, ReadCreateEffect, FailCalls, FailRowsKept
<1>7. ASSUME NEW c \in Call, NEW u \in User, WriteCreate(c, u) PROVE FailInv'
  <2> DEFINE a == Fresh(login[c].email, login[c].right)
  <2>1. /\ login[c].right \in Right /\ login[c].email \in Email /\ RowBecomes(u, a)
        /\ CallBecomes(c, Idle) /\ UNCHANGED failures
    BY <1>7, WriteCreateEffect
  <2>2. a \in Account /\ a.failed = 0 /\ ~a.locked
    BY <2>1, FreshType
  <2> HIDE DEF a
  <2> QED
    BY <2>1, <2>2, IdleType, FailRowReset, FailCalls
<1>8. ASSUME NEW c \in Call, NEW t \in tokens, NEW u \in User, NEW patch \in Patch,
             ReadEdit(c, t, u, patch)
      PROVE  FailInv'
  BY <1>8, ReadEditEffect, FailCalls, FailRowsKept
<1>9. ASSUME NEW c \in Call, WriteEdit(c) PROVE FailInv'
  <2> DEFINE u == login[c].user
             a == Edited(account[u], login[c])
  <2>1. u \in User /\ RowBecomes(u, a) /\ CallBecomes(c, Idle) /\ UNCHANGED failures
    BY <1>9, WriteEditEffect
  <2>2. account[u] \in Account /\ login[c] \in Memory
    BY <2>1 DEF TypeInv, TypeOK
  <2>3. a.failed = account[u].failed /\ a.locked = account[u].locked
    BY <2>2, EditedType
  <2> HIDE DEF a
  <2>4. LockedAfterEnoughFailures'
    BY <2>1, <2>3 DEF LockedAfterEnoughFailures, RowBecomes
  <2> QED
    BY <2>1, <2>4, IdleType, FailCalls
<1>10. ASSUME NEW c \in Call, Abort(c) PROVE FailInv'
  BY <1>10, EndKept, IdleType, FailCalls, FailRowsKept DEF Abort, End
<1>11. ASSUME NEW t \in tokens, Logout(t) PROVE FailInv'
  <2>1. t.user \in User /\ account' = [account EXCEPT ![t.user].open = FALSE]
        /\ UNCHANGED <<login, failures>>
    BY <1>11 DEF Logout, TypeInv, TypeOK, Token
  <2> QED
    BY <2>1, FlagRow DEF TypeInv, LockedAfterEnoughFailures, FailureRead
<1>12. ASSUME NEW t \in tokens, ExpireTokens(t) PROVE FailInv'
  BY <1>12, FailRowsKept DEF ExpireTokens, FailureRead
<1>13. ASSUME NEW t \in tokens, NEW u \in User, RemoveUser(t, u) PROVE FailInv'
  <2>1. /\ account' = [account EXCEPT ![u] = Blank("removed")]
        /\ UNCHANGED <<login, failures>>
    BY <1>13 DEF RemoveUser
  <2>2. /\ Blank("removed") \in Account /\ Blank("removed").failed = 0
        /\ ~Blank("removed").locked
    BY BlankType
  <2>3. RowBecomes(u, Blank("removed"))
    BY <2>1, <2>2, RowWritten DEF TypeInv
  <2> QED
    BY <2>1, <2>2, <2>3, FailRowReset DEF FailureRead
<1>14. ASSUME NEW u \in User, ExpireLock(u) PROVE FailInv'
  <2>1. account' = [account EXCEPT ![u].locked = FALSE] /\ UNCHANGED <<login, failures>>
    BY <1>14 DEF ExpireLock
  <2> QED
    BY <2>1, FlagRow DEF TypeInv, LockedAfterEnoughFailures, FailureRead
<1>15. CASE UNCHANGED vars
  BY <1>15 DEF vars, LockedAfterEnoughFailures, FailureRead
<1> QED
  BY <1>1, <1>2, <1>3, <1>4, <1>5, <1>6, <1>7, <1>8, <1>9, <1>10, <1>11, <1>12, <1>13,
     <1>14, <1>15 DEF Next

LEMMA FailInvInit == Init => FailInv
<1> SUFFICES ASSUME Init PROVE FailInv
  OBVIOUS
<1>1. PICK u \in User, e \in Email :
        account = [v \in User |->
          IF v = u THEN Fresh(e, [role |-> "GERANT", admin |-> TRUE]) ELSE Blank("absent")]
  BY DEF Init
<1>2. [role |-> "GERANT", admin |-> TRUE] \in Right
  BY AccountsAssumption DEF Right
<1>3. \A v \in User : account[v].failed = 0 /\ ~account[v].locked
  BY <1>1, <1>2, FreshType, BlankType
<1>4. \A c \in Call : login[c].pc = "idle"
  BY IdleType DEF Init
<1>5. \A v \in User : failures[v] = 0
  BY DEF Init
<1> QED
  BY <1>3, <1>4, <1>5, LimitIsPositive DEF FailInv, LockedAfterEnoughFailures, FailureRead

-----------------------------------------------------------------------------
(* The rights of a session.                                                *)

\* A call that will open a session has rights its user had since it began.
RightsHeld == \A c \in Call : OpensSession(c) => login[c].right \in held[c]

LEMMA RightsCalls ==
  ASSUME RightsHeld, NEW c \in Call, NEW m \in Memory, CallBecomes(c, m),
         m.pc \in {"reset", "session"} => m.right \in held'[c],
         \A d \in Call \ {c} : held[d] \subseteq held'[d]
  PROVE  RightsHeld'
<1> SUFFICES ASSUME NEW d \in Call, login'[d].pc \in {"reset", "session"}
             PROVE  login'[d].right \in held'[d]
  BY DEF RightsHeld, OpensSession
<1>1. CASE d = c
  BY <1>1 DEF CallBecomes
<1>2. CASE d # c
  <2>1. login'[d] = login[d]
    BY <1>2 DEF CallBecomes
  <2> QED
    BY <1>2, <2>1 DEF RightsHeld, OpensSession
<1> QED
  BY <1>1, <1>2

LEMMA RightsEnd ==
  ASSUME TypeInv, RightsHeld, NEW c \in Call, CallBecomes(c, Idle),
         held' = [held EXCEPT ![c] = {}]
  PROVE  RightsHeld'
<1>1. \A d \in Call \ {c} : held[d] \subseteq held'[d]
  BY DEF TypeInv, TypeOK
<1> QED
  BY <1>1, IdleType, RightsCalls

LEMMA RightsStep ==
  ASSUME TypeInv, RightsHeld, [Next]_vars
  PROVE  RightsHeld'
<1>1. ASSUME NEW c \in Call, NEW u \in User, ReadLogin(c, u) PROVE RightsHeld'
  <2>1. PICK m \in Memory :
          /\ CallBecomes(c, m)
          /\ \/ m.pc = "reset" /\ m.right = account[u].right
                /\ held' = [held EXCEPT ![c] = {account[u].right}]
             \/ m.pc = "fail" /\ UNCHANGED held
    BY <1>1, ReadLoginEffect
  <2>2. m.pc \in {"reset", "session"} => m.right \in held'[c]
    BY <2>1 DEF TypeInv, TypeOK
  <2>3. \A d \in Call \ {c} : held[d] \subseteq held'[d]
    BY <2>1 DEF TypeInv, TypeOK
  <2> QED
    BY <2>1, <2>2, <2>3, RightsCalls
<1>2. ASSUME NEW c \in Call, WriteFailure(c) PROVE RightsHeld'
  BY <1>2, WriteFailureEffect, RightsEnd
<1>3. ASSUME NEW c \in Call, WriteReset(c) PROVE RightsHeld'
  <2>1. PICK m \in Memory : CallBecomes(c, m) /\ m.pc = "session" /\ m.right = login[c].right
    BY <1>3, WriteResetEffect
  <2>2. login[c].pc = "reset" /\ UNCHANGED held
    BY <1>3, WriteResetEffect
  <2>3. login[c].right \in held[c]
    BY <2>2 DEF RightsHeld, OpensSession
  <2> QED
    BY <2>1, <2>2, <2>3, RightsCalls
<1>4. ASSUME NEW c \in Call, NEW t \in tokens, ReadRefresh(c, t) PROVE RightsHeld'
  <2>1. PICK m \in Memory :
          /\ CallBecomes(c, m) /\ m.right = account[m.user].right
          /\ held' = [held EXCEPT ![c] = {account[m.user].right}]
    BY <1>4, ReadRefreshEffect
  <2>2. m.right \in held'[c] /\ \A d \in Call \ {c} : held[d] \subseteq held'[d]
    BY <2>1 DEF TypeInv, TypeOK
  <2> QED
    BY <2>1, <2>2, RightsCalls
<1>5. ASSUME NEW c \in Call, WriteSession(c) PROVE RightsHeld'
  BY <1>5, WriteSessionEffect, RightsEnd
<1>6. ASSUME NEW c \in Call, NEW t \in tokens, NEW e \in Email, NEW r \in Granted,
             ReadCreate(c, t, e, r)
      PROVE  RightsHeld'
  BY <1>6, ReadCreateEffect, RightsCalls
<1>7. ASSUME NEW c \in Call, NEW u \in User, WriteCreate(c, u) PROVE RightsHeld'
  BY <1>7, WriteCreateEffect, RightsEnd
<1>8. ASSUME NEW c \in Call, NEW t \in tokens, NEW u \in User, NEW patch \in Patch,
             ReadEdit(c, t, u, patch)
      PROVE  RightsHeld'
  BY <1>8, ReadEditEffect, RightsCalls
<1>9. ASSUME NEW c \in Call, WriteEdit(c) PROVE RightsHeld'
  <2>1. CallBecomes(c, Idle) /\ \A d \in Call : held[d] \subseteq held'[d]
    BY <1>9, WriteEditEffect
  <2> QED
    BY <2>1, IdleType, RightsCalls
<1>10. ASSUME NEW c \in Call, Abort(c) PROVE RightsHeld'
  BY <1>10, EndKept, RightsEnd DEF Abort, End
<1>11. ASSUME UNCHANGED <<login, held>> PROVE RightsHeld'
  BY <1>11 DEF RightsHeld, OpensSession
<1> QED
  BY <1>1, <1>2, <1>3, <1>4, <1>5, <1>6, <1>7, <1>8, <1>9, <1>10, <1>11
  DEF Next, Logout, ExpireTokens, RemoveUser, ExpireLock, vars

-----------------------------------------------------------------------------
(* Emails.                                                                 *)

\* A row that is gone, or never was, has no email.
AbsentHasNone == \A u \in User : ~Exists(u) => account[u].email = NoEmail

EmailInv == AbsentHasNone /\ EmailsDistinct

\* A row keeps its email, or takes one that no other row has.
LEMMA EmailRow ==
  ASSUME TypeInv, EmailInv, NEW u \in User, NEW a \in Account, RowBecomes(u, a),
         a.state # "present" => a.email = NoEmail,
         a.state = "present" => \/ Exists(u) /\ a.email = account[u].email
                                \/ \A v \in User \ {u} : account[v].email # a.email
  PROVE  EmailInv'
<1>1. AbsentHasNone'
  BY DEF EmailInv, AbsentHasNone, Exists, RowBecomes
<1>2. EmailsDistinct'
  <2> SUFFICES ASSUME NEW v \in User, NEW w \in User, v # w,
                      account'[v].state = "present", account'[w].state = "present",
                      account'[v].email = account'[w].email
               PROVE  FALSE
    BY DEF EmailsDistinct, Exists
  <2>1. CASE v # u /\ w # u
    BY <2>1 DEF RowBecomes, EmailInv, EmailsDistinct, Exists
  <2>2. ASSUME NEW x \in User \ {u}, account'[x].state = "present", a.state = "present",
               account'[x].email = a.email
        PROVE  FALSE
    <3>1. account'[x] = account[x]
      BY DEF RowBecomes
    <3>2. Exists(u) /\ account[x].email = account[u].email /\ Exists(x)
      BY <2>2, <3>1 DEF Exists
    <3> QED
      BY <3>2 DEF EmailInv, EmailsDistinct
  <2> QED
    BY <2>1, <2>2 DEF RowBecomes
<1> QED
  BY <1>1, <1>2 DEF EmailInv

LEMMA EmailStep ==
  ASSUME TypeInv, FailBelowLimit, EmailInv, [Next]_vars
  PROVE  EmailInv'
<1>0. \A u \in User : account[u] \in Account
  BY DEF TypeInv, TypeOK
<1>1. ASSUME UNCHANGED account PROVE EmailInv'
  BY <1>1 DEF EmailInv, AbsentHasNone, EmailsDistinct, Exists
<1>2. ASSUME NEW u \in User, NEW a \in Account, RowBecomes(u, a),
             a.state = account[u].state, a.email = account[u].email
      PROVE  EmailInv'
  BY <1>2, EmailRow DEF EmailInv, AbsentHasNone, Exists
<1>3. ASSUME NEW c \in Call, WriteFailure(c) PROVE EmailInv'
  <2> DEFINE u == login[c].user
             a == AfterFailure(account[u], login[c].failed)
  <2>1. u \in User /\ login[c].pc = "fail" /\ account' = [account EXCEPT ![u] = a]
    BY <1>3, WriteFailureEffect
  <2>2. login[c].failed \in 0 .. MaxFailed /\ login[c].failed < MaxFailed
    BY <2>1 DEF TypeInv, TypeOK, Memory, FailBelowLimit
  <2>3. a \in Account /\ a.state = account[u].state /\ a.email = account[u].email
    BY <1>0, <2>1, <2>2, AfterFailureType
  <2> HIDE DEF a
  <2> QED
    BY <1>2, <2>1, <2>3, RowWritten DEF TypeInv
<1>4. ASSUME NEW u \in User, NEW open \in BOOLEAN, RowBecomes(u, Counted(account[u], open))
      PROVE  EmailInv'
  BY <1>0, <1>2, <1>4, CountedType
<1>5. ASSUME NEW c \in Call, WriteReset(c) PROVE EmailInv'
  <2>1. login[c].user \in User
        /\ RowBecomes(login[c].user, Counted(account[login[c].user], account[login[c].user].open))
    BY <1>5, WriteResetEffect
  <2>2. account[login[c].user].open \in BOOLEAN
    BY <1>0, <2>1 DEF Account
  <2> QED
    BY <1>4, <2>1, <2>2
<1>6. ASSUME NEW c \in Call, WriteSession(c) PROVE EmailInv'
  BY <1>4, <1>6, WriteSessionEffect
<1>7. ASSUME NEW c \in Call, NEW u \in User, WriteCreate(c, u) PROVE EmailInv'
  <2> DEFINE a == Fresh(login[c].email, login[c].right)
  <2>1. /\ login[c].right \in Right /\ login[c].email \in Email
        /\ UniqueEmail(login[c].email, u) /\ RowBecomes(u, a)
    BY <1>7, WriteCreateEffect
  <2>2. a \in Account /\ a.email = login[c].email
    BY <2>1, FreshType
  <2>3. a.state = "present"
    BY DEF Fresh, Blank
  <2>4. \A v \in User \ {u} : account[v].email # a.email
    BY <2>1, <2>2 DEF UniqueEmail, EmailTaken
  <2> HIDE DEF a
  <2> QED
    BY <2>1, <2>2, <2>3, <2>4, EmailRow
<1>8. ASSUME NEW c \in Call, WriteEdit(c) PROVE EmailInv'
  <2> DEFINE u == login[c].user
             a == Edited(account[u], login[c])
  <2>1. /\ u \in User /\ Exists(u) /\ RowBecomes(u, a)
        /\ login[c].email # NoEmail => UniqueEmail(login[c].email, u)
    BY <1>8, WriteEditEffect
  <2>2. login[c] \in Memory
    BY DEF TypeInv, TypeOK
  <2>3. /\ a \in Account /\ a.state = account[u].state
        /\ a.email = IF login[c].email = NoEmail THEN account[u].email ELSE login[c].email
    BY <1>0, <2>1, <2>2, EditedType
  <2> HIDE DEF a
  <2> QED
    BY <2>1, <2>3, EmailRow DEF Exists, UniqueEmail, EmailTaken
<1>9. ASSUME NEW t \in tokens, NEW u \in User, RemoveUser(t, u) PROVE EmailInv'
  <2>1. Blank("removed") \in Account /\ Blank("removed").state = "removed"
        /\ Blank("removed").email = NoEmail
    BY BlankType
  <2> QED
    BY <1>9, <2>1, RowWritten, EmailRow DEF RemoveUser, TypeInv
<1>10. ASSUME NEW u \in User,
              \/ account' = [account EXCEPT ![u].open = FALSE]
              \/ account' = [account EXCEPT ![u].locked = FALSE]
       PROVE  EmailInv'
  BY <1>10, FlagRow DEF TypeInv, EmailInv, AbsentHasNone, EmailsDistinct, Exists
<1>11. ASSUME NEW t \in tokens, Logout(t) PROVE EmailInv'
  BY <1>10, <1>11 DEF Logout, TypeInv, TypeOK, Token
<1>12. ASSUME NEW u \in User, ExpireLock(u) PROVE EmailInv'
  BY <1>10, <1>12 DEF ExpireLock
<1> QED
  BY <1>1, <1>3, <1>5, <1>6, <1>7, <1>8, <1>9, <1>11, <1>12
  DEF Next, ReadLogin, ReadRefresh, ReadCreate, ReadEdit, Abort, ExpireTokens, vars

-----------------------------------------------------------------------------
(* Accounts with their sockets.                                            *)

AccountsInv == TypeInv /\ FailInv /\ RightsHeld /\ EmailInv

LEMMA AccountsInvInit == Init => AccountsInv
<1> SUFFICES ASSUME Init PROVE AccountsInv
  OBVIOUS
<1>1. RightsHeld
  BY IdleType DEF Init, RightsHeld, OpensSession
<1>2. PICK u \in User, e \in Email :
        account = [v \in User |->
          IF v = u THEN Fresh(e, [role |-> "GERANT", admin |-> TRUE]) ELSE Blank("absent")]
  BY DEF Init
<1>3. \A v \in User \ {u} : account[v] = Blank("absent")
  BY <1>2
<1>4. account[u].state = "present"
  BY <1>2 DEF Fresh, Blank
<1>5. EmailInv
  BY <1>3, <1>4, BlankType DEF EmailInv, AbsentHasNone, EmailsDistinct, Exists
<1> QED
  BY <1>1, <1>5, TypeInvInit, FailInvInit DEF AccountsInv

LEMMA AccountsInvStep == AccountsInv /\ [Next]_vars => AccountsInv'
  BY TypeInvStep, FailInvStep, FailInvBounds, RightsStep, EmailStep DEF AccountsInv

LEMMA AccountsInvAlways == StaffSpec => []AccountsInv
<1>1. StaffInit => AccountsInv
  BY AccountsInvInit DEF StaffInit
<1>2. [StaffNext]_staffVars => [Next]_vars
  BY DEF StaffNext, SocketStep, staffVars
<1> QED
  BY <1>1, <1>2, AccountsInvStep, PTL DEF StaffSpec

\* However overlapping failed logins overwrite each other's count, nobody is locked
\* before as many failures as the limit asks for, and the count stays below it.
THEOREM NoLockIsInvented == StaffSpec => []LockedAfterEnoughFailures
<1>1. AccountsInv => LockedAfterEnoughFailures
  BY DEF AccountsInv, FailInv
<1> QED
  BY <1>1, AccountsInvAlways, PTL

\* Rights withdrawn before a login or a refresh began are not in the session it
\* opens: both read the row, and not the token they were given.
THEOREM SessionRightsAreCurrent == StaffSpec => []SessionHasCurrentRights
<1>1. AccountsInv => SessionHasCurrentRights
  BY DEF AccountsInv, RightsHeld, SessionHasCurrentRights, OpensSession
<1> QED
  BY <1>1, AccountsInvAlways, PTL

\* Two users never share an email: the check of the services may be overtaken, the
\* unique index decides at the write.
THEOREM EmailsIdentify == StaffSpec => []EmailsDistinct
<1>1. AccountsInv => EmailsDistinct
  BY DEF AccountsInv, EmailInv
<1> QED
  BY <1>1, AccountsInvAlways, PTL

\* A registered socket is connected, in the room of its role.
Registered ==
  /\ room \in [Socket -> SUBSET Role]
  /\ connected \subseteq Socket
  /\ client \in [Socket -> [user : User, role : Role] \cup {NoClient}]
  /\ \A s \in Socket : client[s] # NoClient => s \in connected /\ client[s].role \in room[s]

LEMMA EnrolRegisters ==
  ASSUME Registered, NEW s \in Socket, NEW t \in Token,
         connected' \subseteq Socket, connected \subseteq connected', s \in connected',
         Rooms!Enrol(s, t.user, t.right.role)
  PROVE  Registered'
<1> DEFINE entry == [user |-> t.user, role |-> t.right.role]
<1>1. entry \in [user : User, role : Role] /\ entry.role = t.right.role /\ t.right.role \in Role
  BY DEF Token, Right
<1>2. /\ room' = [room EXCEPT ![s] = @ \cup {t.right.role}]
      /\ client' = [client EXCEPT ![s] = entry]
  BY DEF Rooms!Enrol
<1> HIDE DEF entry
<1>3. /\ room' \in [Socket -> SUBSET Role]
      /\ client' \in [Socket -> [user : User, role : Role] \cup {NoClient}]
  BY <1>1, <1>2 DEF Registered
<1>4. ASSUME NEW r \in Socket, client'[r] # NoClient
      PROVE  r \in connected' /\ client'[r].role \in room'[r]
  <2>1. CASE r = s
    BY <1>1, <1>2, <2>1 DEF Registered
  <2>2. CASE r # s
    BY <1>2, <1>4, <2>2 DEF Registered
  <2> QED
    BY <2>1, <2>2
<1> QED
  BY <1>3, <1>4 DEF Registered

LEMMA RegisteredStep ==
  ASSUME AccountsInv, Registered, [StaffNext]_staffVars
  PROVE  Registered'
<1>1. ASSUME NEW s \in Socket, SocketStep(s) PROVE Registered'
  <2>1. \A t \in tokens : t \in Token
    BY DEF AccountsInv, TypeInv, TypeOK
  <2>2. ASSUME NEW t \in tokens, Rooms!Connect(s, t.user, t.right.role) PROVE Registered'
    BY <2>1, <2>2, EnrolRegisters DEF Rooms!Connect, Registered
  <2>3. ASSUME NEW t \in tokens, Rooms!Authenticate(s, t.user, t.right.role) PROVE Registered'
    BY <2>1, <2>3, EnrolRegisters DEF Rooms!Authenticate, Registered
  <2>4. ASSUME Rooms!Disconnect(s) PROVE Registered'
    BY <2>4 DEF Rooms!Disconnect, Rooms!Forget, Registered
  <2> QED
    BY <1>1, <2>2, <2>3, <2>4 DEF SocketStep
<1>2. ASSUME UNCHANGED roomVars PROVE Registered'
  BY <1>2 DEF roomVars, Registered
<1> QED
  BY <1>1, <1>2 DEF StaffNext, staffVars

\* Whatever a socket shows and however often, a notification to the role it is
\* registered with reaches it, and nobody registered is disconnected.
THEOREM RolesAreReached == StaffSpec => []RolesReachTheirSockets
<1>1. StaffInit => Registered
  BY DEF StaffInit, Rooms!Init, Registered
<1>2. AccountsInv /\ Registered /\ [StaffNext]_staffVars => Registered'
  BY RegisteredStep
<1>3. Registered => RolesReachTheirSockets
  BY DEF Registered, RolesReachTheirSockets, Rooms!RoleReceivers
<1> QED
  BY <1>1, <1>2, <1>3, AccountsInvAlways, PTL DEF StaffSpec

\* Rows, tokens, the memories of calls and the sockets keep their types.
THEOREM StaffTypesAreKept == StaffSpec => []StaffTypeOK
<1>1. StaffInit => Registered
  BY DEF StaffInit, Rooms!Init, Registered
<1>2. AccountsInv /\ Registered /\ [StaffNext]_staffVars => Registered'
  BY RegisteredStep
<1>3. AccountsInv /\ Registered => StaffTypeOK
  BY DEF AccountsInv, TypeInv, Registered, StaffTypeOK, Rooms!RoomsTypeOK, Rooms!Client
<1> QED
  BY <1>1, <1>2, <1>3, AccountsInvAlways, PTL DEF StaffSpec

-----------------------------------------------------------------------------
(***************************************************************************)
(* CompanySettings and DocumentTemplates                                   *)
(***************************************************************************)

-----------------------------------------------------------------------------
(* The short sequences of steps that are left to do.                       *)

LEMMA ShortSequences ==
  ASSUME NEW a, NEW b, NEW c, NEW d
  PROVE  /\ Head(<<a>>) = a /\ Tail(<<a>>) = <<>> /\ <<a>> # <<>>
         /\ Head(<<a, b>>) = a /\ Tail(<<a, b>>) = <<b>> /\ <<a, b>> # <<>>
         /\ Head(<<a, b, c>>) = a /\ Tail(<<a, b, c>>) = <<b, c>> /\ <<a, b, c>> # <<>>
         /\ Head(<<a, b, c, d>>) = a /\ Tail(<<a, b, c, d>>) = <<b, c, d>>
         /\ <<a, b, c, d>> # <<>>
  OBVIOUS

LEMMA EmptyFirst ==
  ASSUME NEW a, NEW b
  PROVE  /\ <<>> \o <<a>> = <<a>> /\ <<a>> \o <<>> = <<a>> /\ <<>> \o <<>> = <<>>
         /\ <<>> \o <<a, b>> = <<a, b>>
<1>1. <<>> \in Seq({a, b}) /\ <<a>> \in Seq({a, b}) /\ <<a, b>> \in Seq({a, b})
  OBVIOUS
<1> QED
  BY <1>1, ConcatEmptySeq

LEMMA JoinTwo ==
  ASSUME NEW a, NEW b
  PROVE  <<a>> \o <<b>> = <<a, b>>
<1> DEFINE S == {a, b}
           s == <<a>> \o <<b>>
           t == <<a, b>>
<1>1. s \in Seq(S) /\ Len(s) = 2 /\ s[1] = a /\ s[2] = b
  OBVIOUS
<1>2. t \in Seq(S) /\ Len(t) = 2 /\ t[1] = a /\ t[2] = b
  OBVIOUS
<1>3. s = t
  <2> HIDE DEF s, t, S
  <2> QED
    BY <1>1, <1>2, SeqEqual
<1> QED
  BY <1>3

LEMMA JoinThree ==
  ASSUME NEW a, NEW b, NEW c
  PROVE  <<a>> \o <<b, c>> = <<a, b, c>> /\ <<a, b>> \o <<c>> = <<a, b, c>>
<1> DEFINE S == {a, b, c}
           s == <<a>> \o <<b, c>>
           u == <<a, b>> \o <<c>>
           t == <<a, b, c>>
<1>1. s \in Seq(S) /\ Len(s) = 3 /\ s[1] = a /\ s[2] = b /\ s[3] = c
  OBVIOUS
<1>2. u \in Seq(S) /\ Len(u) = 3 /\ u[1] = a /\ u[2] = b /\ u[3] = c
  OBVIOUS
<1>3. t \in Seq(S) /\ Len(t) = 3 /\ t[1] = a /\ t[2] = b /\ t[3] = c
  OBVIOUS
<1>4. s = t
  <2> HIDE DEF s, t, u, S
  <2> QED
    BY <1>1, <1>3, SeqEqual
<1>5. u = t
  <2> HIDE DEF s, t, u, S
  <2> QED
    BY <1>2, <1>3, SeqEqual
<1> QED
  BY <1>4, <1>5

LEMMA JoinFour ==
  ASSUME NEW a, NEW b, NEW c, NEW d
  PROVE  <<a, b>> \o <<c, d>> = <<a, b, c, d>>
<1> DEFINE S == {a, b, c, d}
           s == <<a, b>> \o <<c, d>>
           t == <<a, b, c, d>>
<1>1. s \in Seq(S) /\ Len(s) = 4 /\ s[1] = a /\ s[2] = b /\ s[3] = c /\ s[4] = d
  OBVIOUS
<1>2. t \in Seq(S) /\ Len(t) = 4 /\ t[1] = a /\ t[2] = b /\ t[3] = c /\ t[4] = d
  OBVIOUS
<1>3. s = t
  <2> HIDE DEF s, t, S
  <2> QED
    BY <1>1, <1>2, SeqEqual
<1> QED
  BY <1>3

LEMMA SequenceOfSet ==
  ASSUME NEW x
  PROVE  SetToSeq({}) = <<>> /\ SetToSeq({x}) = <<x>>
<1>1. Cardinality({}) = 0 /\ Cardinality({x}) = 1
  BY FS_EmptySet, FS_Singleton
<1>2. SetToSeq({}) = <<>>
  <2>1. <<>> \in [1..0 -> {}] /\ IsInjective(<<>>)
    BY DEF IsInjective
  <2>2. SetToSeq({}) \in [1..0 -> {}]
    BY <1>1, <2>1 DEF SetToSeq
  <2> QED
    BY <2>2
<1>3. SetToSeq({x}) = <<x>>
  <2>1. <<x>> \in [1..1 -> {x}] /\ <<x>>[1] = x /\ IsInjective(<<x>>)
    BY DEF IsInjective
  <2>2. SetToSeq({x}) \in [1..1 -> {x}]
    BY <1>1, <2>1 DEF SetToSeq
  <2> QED
    BY <2>1, <2>2
<1> QED
  BY <1>2, <1>3

-----------------------------------------------------------------------------
(* Templates: a scope has one default at most.                             *)

OneDefaultByScope ==
  /\ template \in [Template -> TemplateRow]
  /\ \A t, u \in Template :
       /\ template[t].present /\ template[t].isDefault
       /\ template[u].present /\ template[u].isDefault
       /\ template[t].scope = template[u].scope
       => t = u

\* The row of one template is written; a default one has cleared its scope.
LEMMA TemplateWritten ==
  ASSUME OneDefaultByScope, NEW t \in Template, NEW row \in TemplateRow, NEW clear \in BOOLEAN,
         row.present /\ row.isDefault => clear,
         template' = [IF clear THEN ClearDefaultInScope(row.scope, t) ELSE template
                        EXCEPT ![t] = row]
  PROVE  OneDefaultByScope'
<1> DEFINE base == IF clear THEN ClearDefaultInScope(row.scope, t) ELSE template
<1>1. /\ base \in [Template -> TemplateRow]
      /\ \A u \in Template : /\ base[u].present = template[u].present
                             /\ base[u].scope = template[u].scope
                             /\ base[u].isDefault => template[u].isDefault
  BY DEF ClearDefaultInScope, OneDefaultByScope, TemplateRow
<1>2. clear => \A u \in Template \ {t} :
                 ~(base[u].present /\ base[u].isDefault /\ base[u].scope = row.scope)
  BY DEF ClearDefaultInScope, DefaultsOf, OneDefaultByScope, TemplateRow
<1>3. template' = [base EXCEPT ![t] = row]
  OBVIOUS
<1> HIDE DEF base
<1>4. template' \in [Template -> TemplateRow] /\ template'[t] = row
  BY <1>1, <1>3
<1>5. \A u \in Template \ {t} : template'[u] = base[u]
  BY <1>1, <1>3
<1>6. ASSUME NEW u \in Template, NEW v \in Template, u # v,
             template'[u].present /\ template'[u].isDefault,
             template'[v].present /\ template'[v].isDefault
      PROVE  template'[u].scope # template'[v].scope
  <2>1. CASE u = t \/ v = t
    BY <1>2, <1>4, <1>5, <1>6, <2>1
  <2>2. CASE u # t /\ v # t
    BY <1>1, <1>5, <1>6, <2>2 DEF OneDefaultByScope
  <2> QED
    BY <2>1, <2>2
<1> QED
  BY <1>4, <1>6 DEF OneDefaultByScope

LEMMA TemplateStep ==
  ASSUME OneDefaultByScope, TemplateNext
  PROVE  OneDefaultByScope'
<1> USE DEF TemplateRow
<1>1. ASSUME NEW t \in Template, NEW scope \in Scope, NEW isDefault \in BOOLEAN,
             CreateTemplate(t, scope, isDefault)
      PROVE  OneDefaultByScope'
  <2> DEFINE row == [present |-> TRUE, scope |-> scope, isDefault |-> isDefault]
  <2>1. row \in TemplateRow /\ row.scope = scope /\ row.isDefault = isDefault
    OBVIOUS
  <2>2. template' = [IF isDefault THEN ClearDefaultInScope(row.scope, t) ELSE template
                       EXCEPT ![t] = row]
    BY <1>1 DEF CreateTemplate
  <2> HIDE DEF row
  <2> QED
    BY <2>1, <2>2, TemplateWritten
<1>2. ASSUME NEW t \in Template, NEW scope \in Scope, NEW isDefault \in BOOLEAN,
             template' = [IF isDefault THEN ClearDefaultInScope(scope, t) ELSE template
                            EXCEPT ![t].scope = scope, ![t].isDefault = isDefault]
      PROVE  OneDefaultByScope'
  <2> DEFINE base == IF isDefault THEN ClearDefaultInScope(scope, t) ELSE template
             row == [present |-> base[t].present, scope |-> scope, isDefault |-> isDefault]
  <2>1. base \in [Template -> TemplateRow]
    BY DEF ClearDefaultInScope, OneDefaultByScope
  <2>2. row \in TemplateRow /\ row.scope = scope /\ row.isDefault = isDefault
    BY <2>1
  <2>3. template' = [base EXCEPT ![t] = row]
    <3> HIDE DEF base
    <3>1. template' = [base EXCEPT ![t].scope = scope, ![t].isDefault = isDefault]
      BY <1>2 DEF base
    <3>2. /\ template' \in [Template -> TemplateRow]
          /\ \A u \in Template \ {t} : template'[u] = base[u]
      BY <2>1, <3>1 DEF Scope
    <3>3. /\ template'[t].present = base[t].present /\ template'[t].scope = scope
          /\ template'[t].isDefault = isDefault
      BY <2>1, <3>1
    <3>4. template'[t] = row
      BY <3>2, <3>3
    <3> HIDE DEF row
    <3> QED
      BY <2>1, <3>2, <3>4
  <2>4. template' = [IF isDefault THEN ClearDefaultInScope(row.scope, t) ELSE template
                       EXCEPT ![t] = row]
    BY <2>2, <2>3
  <2> HIDE DEF row
  <2> QED
    BY <2>2, <2>4, TemplateWritten
<1>3. ASSUME NEW t \in Template, NEW scopes \in Sent(Scope, template[t].scope),
             NEW defaults \in Sent(BOOLEAN, template[t].isDefault),
             UpdateTemplate(t, scopes, defaults)
      PROVE  OneDefaultByScope'
  <2>1. scopes \subseteq Scope /\ defaults \subseteq BOOLEAN
    BY DEF Sent, OneDefaultByScope
  <2> QED
    BY <1>2, <1>3, <2>1 DEF UpdateTemplate
<1>4. ASSUME NEW t \in Template, SetDefaultTemplate(t) PROVE OneDefaultByScope'
  <2> DEFINE s == template[t].scope
             base == ClearDefaultInScope(s, t)
  <2>1. s \in Scope /\ base \in [Template -> TemplateRow] /\ base[t] = template[t]
    BY DEF ClearDefaultInScope, OneDefaultByScope
  <2>2. template' = [base EXCEPT ![t].isDefault = TRUE]
    BY <1>4 DEF SetDefaultTemplate
  <2>3. template' = [base EXCEPT ![t].scope = s, ![t].isDefault = TRUE]
    <3> HIDE DEF base
    <3> QED
      BY <2>1, <2>2
  <2>4. template' = [IF TRUE THEN ClearDefaultInScope(s, t) ELSE template
                       EXCEPT ![t].scope = s, ![t].isDefault = TRUE]
    BY <2>3
  <2> HIDE DEF s
  <2> QED
    BY <1>2, <2>1, <2>4
<1>5. ASSUME NEW t \in Template, RemoveTemplate(t) PROVE OneDefaultByScope'
  <2>1. NoTemplate \in TemplateRow /\ ~NoTemplate.present
    BY DEF NoTemplate, Scope
  <2>2. template' = [IF FALSE THEN ClearDefaultInScope(NoTemplate.scope, t) ELSE template
                       EXCEPT ![t] = NoTemplate]
    BY <1>5 DEF RemoveTemplate
  <2> QED
    BY <2>1, <2>2, TemplateWritten
<1> QED
  BY <1>1, <1>3, <1>4, <1>5 DEF TemplateNext

LEMMA OneDefaultMeansOneLayout == OneDefaultByScope => OneLayout
<1> SUFFICES ASSUME OneDefaultByScope, NEW type \in InvoiceType
             PROVE  Cardinality(ResolvedTemplates(type)) <= 1
  BY DEF OneLayout
<1>1. \A s : \A t, u \in DefaultsOf(s) : t = u
  BY DEF DefaultsOf, OneDefaultByScope
<1>2. \A t, u \in ResolvedTemplates(type) : t = u
  BY <1>1 DEF ResolvedTemplates
<1>3. CASE ResolvedTemplates(type) = {}
  BY <1>3, FS_EmptySet
<1>4. CASE ResolvedTemplates(type) # {}
  <2>1. PICK t : ResolvedTemplates(type) = {t}
    BY <1>2, <1>4
  <2>2. Cardinality({t}) = 1
    BY FS_Singleton
  <2> QED
    BY <2>1, <2>2
<1> QED
  BY <1>3, <1>4

-----------------------------------------------------------------------------
(* Profiles, logo rows and their objects.                                  *)

LEMMA SmallestOf ==
  ASSUME NEW T, T \subseteq Nat, T # {}
  PROVE  \E x \in T : \A y \in T : x <= y
<1>1. PICK x \in T : \A y \in T : <<y, x>> \notin OpToRel(<, Nat)
  BY NatLessThanWellFounded, WFMin
<1>2. ASSUME NEW y \in T PROVE x <= y
  <2>1. <<y, x>> \in Nat \X Nat /\ <<y, x>>[1] = y /\ <<y, x>>[2] = x
    OBVIOUS
  <2>2. ~(y < x)
    BY <1>1, <2>1 DEF OpToRel
  <2> QED
    BY <2>2
<1> QED
  BY <1>2

IsDefault(p) == Present(p) /\ profile[p].isDefault

LogoKey == [of : {"profile"}, id : Profiles, path : Nat]
             \cup [of : {"slot"}, id : Kind, path : Nat]
RowPath(key) == IF key.of = "slot" THEN slot[key.id] ELSE profile[key.id].logo
SameRow(j, key) == j.of = key.of /\ j.id = key.id

\* The objects the rows point to, and those of the other rows than that of key.
Listed == {key \in LogoKey : key.path > 0 /\ RowPath(key) = key.path}
Elsewhere(key) == {j \in Listed : ~SameRow(j, key)}

\* Two sets of objects are the same but for some.
Alike(S, T, but) == \A x : x \notin but => (x \in S <=> x \in T)

LEMMA AlikeSets ==
  ASSUME NEW S, NEW T, NEW but, Alike(S, T, but), NEW x
  PROVE  Alike(S \cup {x}, T \cup {x}, but) /\ Alike(S \ {x}, T \ {x}, but)
  BY DEF Alike

RowsTyped ==
  /\ calls \in Nat
  /\ settings \in [name : Name, apart : BOOLEAN]
  /\ profile \in [Profiles -> ProfileRow]
  /\ slot \in [Kind -> Nat]

\* An absent profile has no logo, one profile is the default, and no path is of a
\* later call.
RowsSound ==
  /\ \A p \in Profiles : ~Present(p) => profile[p].logo = 0
  /\ \E p \in Profiles : \A q \in Profiles : IsDefault(q) <=> q = p
  /\ \A key \in Listed : key.path <= calls

\* The settings carry the name of the default profile.
Agree == \A p \in Profiles : IsDefault(p) => settings.apart \/ settings.name = profile[p].name

\* What was harmed was there before the next call, and a logo that is harmed and
\* listed is not in the store.
HarmSound ==
  /\ harmed \subseteq LogoKey
  /\ \A key \in harmed : key.path <= calls /\ ~(key \in Listed /\ key \in object)

LEMMA HarmKept ==
  ASSUME HarmSound, calls \in Nat, harmed' = harmed, calls' = calls \/ calls' = calls + 1,
         Listed' \cap object' \cap harmed \subseteq Listed \cap object
  PROVE  HarmSound'
<1>1. \A key \in harmed : key.path \in Nat
  BY DEF HarmSound, LogoKey
<1>2. \A key \in harmed : key.path <= calls'
  BY <1>1 DEF HarmSound
<1>3. LogoKey' = LogoKey
  BY DEF LogoKey
<1> QED
  BY <1>2, <1>3 DEF HarmSound

LEMMA KeysTyped ==
  ASSUME RowsTyped
  PROVE  /\ \A p \in Profiles, n \in Nat :
              /\ ProfileKey(p, n) \in LogoKey /\ ProfileKey(p, n).path = n
              /\ ProfileKey(p, n).of = "profile" /\ ProfileKey(p, n).id = p
         /\ \A k \in Kind, n \in Nat :
              /\ SlotKey(k, n) \in LogoKey /\ SlotKey(k, n).path = n
              /\ SlotKey(k, n).of = "slot" /\ SlotKey(k, n).id = k
         /\ \A p \in Profiles : profile[p].logo \in Nat
         /\ \A k \in Kind : slot[k] \in Nat
         /\ \A key \in LogoKey : key.path \in Nat /\ RowPath(key) \in Nat
  BY DEF RowsTyped, ProfileKey, SlotKey, LogoKey, ProfileRow, RowPath

\* A key is told by its row and its path.
LEMMA KeysEqual ==
  ASSUME NEW j \in LogoKey, NEW key \in LogoKey, SameRow(j, key), j.path = key.path
  PROVE  j = key
<1>1. CASE key \in [of : {"profile"}, id : Profiles, path : Nat]
  <2>1. j \in [of : {"profile"}, id : Profiles, path : Nat]
    BY <1>1 DEF LogoKey, SameRow
  <2> QED
    BY <1>1, <2>1 DEF SameRow
<1>2. CASE key \in [of : {"slot"}, id : Kind, path : Nat]
  <2>1. j \in [of : {"slot"}, id : Kind, path : Nat]
    BY <1>2 DEF LogoKey, SameRow
  <2> QED
    BY <1>2, <2>1 DEF SameRow
<1> QED
  BY <1>1, <1>2 DEF LogoKey

LEMMA ListedOnce ==
  ASSUME NEW key \in LogoKey
  PROVE  /\ \A j \in Listed : SameRow(j, key) => j.path = RowPath(key)
         /\ RowPath(key) = 0 => Elsewhere(key) = Listed
         /\ key \in Listed => Elsewhere(key) = Listed \ {key}
<1>1. \A j \in Listed : SameRow(j, key) => j.path = RowPath(key)
  BY DEF Listed, SameRow, RowPath
<1>2. \A j \in Listed : j.path > 0 /\ j \in LogoKey
  BY DEF Listed
<1>3. RowPath(key) = 0 => Elsewhere(key) = Listed
  <2> SUFFICES ASSUME RowPath(key) = 0, NEW j \in Listed PROVE ~SameRow(j, key)
    BY DEF Elsewhere
  <2>1. j.path \in Nat /\ j.path > 0
    BY <1>2 DEF LogoKey
  <2> QED
    BY <1>1, <2>1
<1>4. key \in Listed => Elsewhere(key) = Listed \ {key}
  <2> SUFFICES ASSUME key \in Listed, NEW j \in Listed PROVE SameRow(j, key) <=> j = key
    BY DEF Elsewhere
  <2>1. SameRow(key, key)
    BY DEF SameRow
  <2> QED
    BY <1>1, <1>2, <2>1, KeysEqual DEF Listed
<1> QED
  BY <1>1, <1>3, <1>4

\* The objects as the property names them.
LEMMA ListedIs ==
  ASSUME RowsTyped
  PROVE  Listed = RowKeys
<1>1. \A p \in Profiles : LogoKeys(p) \subseteq Listed
  <2> TAKE p \in Profiles
  <2>1. RowPath(ProfileKey(p, profile[p].logo)) = profile[p].logo
    BY KeysTyped DEF RowPath
  <2> QED
    BY <2>1, KeysTyped DEF LogoKeys, Listed
<1>2. \A k \in Kind : SlotKeys(k) \subseteq Listed
  <2> TAKE k \in Kind
  <2>1. RowPath(SlotKey(k, slot[k])) = slot[k]
    BY KeysTyped DEF RowPath
  <2> QED
    BY <2>1, KeysTyped DEF SlotKeys, Listed
<1>3. ASSUME NEW key \in Listed
      PROVE  (\E p \in Profiles : key \in LogoKeys(p)) \/ (\E k \in Kind : key \in SlotKeys(k))
  <2>1. CASE key \in [of : {"profile"}, id : Profiles, path : Nat]
    <3>1. key.id \in Profiles /\ profile[key.id].logo = key.path /\ key.path > 0
      BY <2>1 DEF Listed, RowPath
    <3>2. key = ProfileKey(key.id, profile[key.id].logo)
      BY <2>1, <3>1 DEF ProfileKey
    <3> QED
      BY <3>1, <3>2 DEF LogoKeys
  <2>2. CASE key \in [of : {"slot"}, id : Kind, path : Nat]
    <3>1. key.id \in Kind /\ slot[key.id] = key.path /\ key.path > 0
      BY <2>2 DEF Listed, RowPath
    <3>2. key = SlotKey(key.id, slot[key.id])
      BY <2>2, <3>1 DEF SlotKey
    <3> QED
      BY <3>1, <3>2 DEF SlotKeys
  <2> QED
    BY <2>1, <2>2 DEF Listed, LogoKey
<1> QED
  BY <1>1, <1>2, <1>3 DEF RowKeys

LEMMA ListedSame ==
  ASSUME slot' = slot, \A q \in Profiles : profile'[q].logo = profile[q].logo
  PROVE  Listed' = Listed /\ \A key \in LogoKey : RowPath(key)' = RowPath(key)
<1>1. \A key \in LogoKey : RowPath(key)' = RowPath(key)
  BY DEF RowPath, LogoKey
<1> QED
  BY <1>1 DEF Listed

\* A logo row is written.
PutRow(key, path) ==
  IF key.of = "slot"
  THEN slot' = [slot EXCEPT ![key.id] = path] /\ UNCHANGED profile
  ELSE profile' = [profile EXCEPT ![key.id].logo = path] /\ UNCHANGED slot

LEMMA RowPut ==
  ASSUME RowsTyped, NEW key \in LogoKey, NEW path \in Nat, PutRow(key, path)
  PROVE  /\ profile' \in [Profiles -> ProfileRow] /\ slot' \in [Kind -> Nat]
         /\ \A q \in Profiles : /\ profile'[q].state = profile[q].state
                                /\ profile'[q].name = profile[q].name
                                /\ profile'[q].isDefault = profile[q].isDefault
         /\ \A q \in Profiles : profile'[q].logo # profile[q].logo =>
              key.of = "profile" /\ key.id = q /\ profile'[q].logo = path
         /\ \A j \in LogoKey : RowPath(j)' = IF SameRow(j, key) THEN path ELSE RowPath(j)
<1>1. CASE key \in [of : {"slot"}, id : Kind, path : Nat]
  <2>1. key.id \in Kind /\ slot' = [slot EXCEPT ![key.id] = path] /\ profile' = profile
    BY <1>1 DEF PutRow
  <2>2. \A k \in Kind : slot'[k] = IF k = key.id THEN path ELSE slot[k]
    BY <2>1 DEF RowsTyped
  <2> QED
    BY <1>1, <2>1, <2>2 DEF RowPath, SameRow, LogoKey, RowsTyped
<1>2. CASE key \in [of : {"profile"}, id : Profiles, path : Nat]
  <2>1. key.id \in Profiles /\ profile' = [profile EXCEPT ![key.id].logo = path] /\ slot' = slot
    BY <1>2 DEF PutRow
  <2>2. profile' \in [Profiles -> ProfileRow]
    BY <2>1 DEF RowsTyped, ProfileRow
  <2>3. \A q \in Profiles \ {key.id} : profile'[q] = profile[q]
    BY <2>1 DEF RowsTyped
  <2>4. /\ profile'[key.id].state = profile[key.id].state
        /\ profile'[key.id].name = profile[key.id].name
        /\ profile'[key.id].isDefault = profile[key.id].isDefault
        /\ profile'[key.id].logo = path
    BY <2>1 DEF RowsTyped, ProfileRow
  <2> QED
    BY <1>2, <2>1, <2>2, <2>3, <2>4 DEF RowPath, SameRow, LogoKey, RowsTyped
<1> QED
  BY <1>1, <1>2 DEF LogoKey

LEMMA RowPutListed ==
  ASSUME RowsTyped, NEW key \in LogoKey, NEW path \in Nat, PutRow(key, path)
  PROVE  /\ path = 0 => Listed' = Elsewhere(key)
         /\ path = key.path /\ path > 0 => Listed' = Elsewhere(key) \cup {key}
<1>1. \A j \in LogoKey : RowPath(j)' = IF SameRow(j, key) THEN path ELSE RowPath(j)
  BY RowPut
<1>2. \A j : j \in Listed' <=> j \in LogoKey /\ j.path > 0 /\ RowPath(j)' = j.path
  BY DEF Listed
<1>3. \A j \in LogoKey : j.path \in Nat
  BY DEF LogoKey
<1>4. path = 0 => Listed' = Elsewhere(key)
  BY <1>1, <1>2, <1>3 DEF Elsewhere, Listed
<1>5. ASSUME path = key.path, path > 0 PROVE Listed' = Elsewhere(key) \cup {key}
  <2>1. SameRow(key, key)
    BY DEF SameRow
  <2>2. key \in Listed'
    BY <1>1, <1>2, <1>5, <2>1
  <2>3. ASSUME NEW j \in Listed', SameRow(j, key) PROVE j = key
    BY <1>1, <1>2, <1>5, <2>3, KeysEqual
  <2>4. \A j \in LogoKey : ~SameRow(j, key) => (j \in Listed' <=> j \in Listed)
    BY <1>1, <1>2 DEF Listed
  <2>5. Listed' \subseteq Elsewhere(key) \cup {key}
    BY <1>2, <2>3, <2>4 DEF Elsewhere
  <2>6. Elsewhere(key) \subseteq Listed'
    BY <2>4 DEF Elsewhere, Listed
  <2> QED
    BY <2>2, <2>5, <2>6
<1> QED
  BY <1>4, <1>5

-----------------------------------------------------------------------------
(* A write: what is left to do and what the store holds, step by step.     *)

RowThere(key) == key.of = "profile" => Present(key.id)

\* Nothing is left to do for the objects.
Closing ==
  /\ Alike(object, Listed, harmed)
  /\ \/ Agree /\ (todo = <<>> \/ todo = <<Invalidate>>)
     \/ \E q \in Profiles : IsDefault(q) /\ todo = <<Sync(q), Invalidate>>

\* The logo of a profile that was deleted.
Removing ==
  \E k \in LogoKey \ Listed :
    /\ Alike(object, Listed \cup {k}, harmed) /\ k.path <= calls
    /\ \/ Agree /\ todo = <<Unlink(k), Invalidate>>
       \/ \E q \in Profiles : IsDefault(q) /\ todo = <<Unlink(k), Sync(q), Invalidate>>

\* A first logo for a row, or one in the place of another.
Uploading ==
  \E n \in LogoKey :
    /\ Agree /\ 0 < n.path /\ n.path <= calls /\ RowThere(n) /\ n \notin harmed
    /\ \/ /\ Alike(object, Listed, harmed) /\ RowPath(n) = 0
          /\ todo = <<Put(n), Point(n), Invalidate>>
       \/ /\ Alike(object, Elsewhere(n) \cup {n}, harmed)
          /\ todo = <<Point(n), Invalidate>>
       \/ \E o \in Listed :
            /\ SameRow(o, n) /\ o # n
            /\ \/ /\ Alike(object, Listed, harmed)
                  /\ todo = <<Put(n), Unlink(o), Point(n), Invalidate>>
               \/ /\ Alike(object, Listed \cup {n}, harmed)
                  /\ todo = <<Unlink(o), Point(n), Invalidate>>

\* A logo that is deleted before its row.
Erasing ==
  \E o \in Listed :
    /\ Agree
    /\ \/ Alike(object, Listed, harmed) /\ todo = <<Unlink(o), Unpoint(o), Invalidate>>
       \/ Alike(object, Listed \ {o}, harmed) /\ todo = <<Unpoint(o), Invalidate>>

StoreInv == Closing \/ Removing \/ Uploading \/ Erasing

RowsInv == RowsTyped /\ RowsSound /\ HarmSound /\ StoreInv

\* What a later step does is told by what is next.
LEMMA LaterEffect ==
  ASSUME LaterStep, NEW do, NEW key, Head(todo) = [do |-> do, key |-> key]
  PROVE  /\ todo' = Tail(todo) /\ UNCHANGED <<template, calls, reader, harmed>>
         /\ do = "put" =>
              object' = object \cup {key} /\ UNCHANGED <<settings, profile, slot, cache>>
         /\ do = "remove" =>
              object' = object \ {key} /\ UNCHANGED <<settings, profile, slot, cache>>
         /\ do = "point" =>
              PutRow(key, key.path) /\ UNCHANGED <<settings, object, cache>>
         /\ do = "unpoint" =>
              PutRow(key, 0) /\ UNCHANGED <<settings, object, cache>>
         /\ do = "sync" =>
              /\ settings' = [name |-> profile[key.id].name, apart |-> FALSE]
              /\ UNCHANGED <<profile, slot, object, cache>>
         /\ do = "invalidate" =>
              cache' = None /\ UNCHANGED <<settings, profile, slot, object>>
<1>1. Key = key /\ Head(todo).do = do
  BY DEF Key
<1>2. CASE PutObject
  BY <1>1, <1>2 DEF PutObject, Step, templateVars
<1>3. CASE RemoveObject
  BY <1>1, <1>3 DEF RemoveObject, Step, templateVars
<1>4. CASE PointRow
  BY <1>1, <1>4 DEF PointRow, SetLogoRow, PutRow, Step, templateVars
<1>5. CASE UnpointRow
  BY <1>1, <1>5 DEF UnpointRow, SetLogoRow, PutRow, Step, templateVars
<1>6. CASE SyncDefaultProfile
  BY <1>1, <1>6 DEF SyncDefaultProfile, Step, templateVars
<1>7. CASE InvalidateSettingsCache
  BY <1>1, <1>7 DEF InvalidateSettingsCache, Step, templateVars
<1> QED
  BY <1>2, <1>3, <1>4, <1>5, <1>6, <1>7 DEF LaterStep

\* A step that leaves the rows as they are.
LEMMA RowsKept ==
  ASSUME RowsTyped, RowsSound, UNCHANGED <<calls, profile, slot>>,
         settings' \in [name : Name, apart : BOOLEAN]
  PROVE  /\ RowsTyped' /\ RowsSound' /\ Listed' = Listed
         /\ \A p \in Profiles : IsDefault(p)' = IsDefault(p)
         /\ \A key \in LogoKey : /\ RowPath(key)' = RowPath(key)
                                 /\ Elsewhere(key)' = Elsewhere(key)
                                 /\ RowThere(key)' = RowThere(key)
         /\ settings' = settings /\ Agree => Agree'
<1>1. Listed' = Listed /\ \A key \in LogoKey : RowPath(key)' = RowPath(key)
  BY ListedSame
<1>2. \A p \in Profiles : Present(p)' = Present(p) /\ IsDefault(p)' = IsDefault(p)
  BY DEF Present, IsDefault
<1>3. RowsTyped' /\ RowsSound'
  BY <1>1, <1>2 DEF RowsTyped, RowsSound
<1>4. \A key \in LogoKey : /\ Elsewhere(key)' = Elsewhere(key)
                           /\ RowThere(key)' = RowThere(key)
  BY <1>1 DEF Elsewhere, SameRow, RowThere, Present
<1>5. settings' = settings /\ Agree => Agree'
  BY <1>2 DEF Agree
<1> QED
  BY <1>1, <1>2, <1>3, <1>4, <1>5

\* A step that writes the row of a logo.
LEMMA RowsPut ==
  ASSUME RowsTyped, RowsSound, Agree, UNCHANGED <<calls, settings>>,
         NEW key \in LogoKey, NEW path \in Nat, PutRow(key, path),
         path = 0 \/ (path = key.path /\ path <= calls /\ RowThere(key))
  PROVE  RowsTyped' /\ RowsSound' /\ Agree'
<1>1. /\ profile' \in [Profiles -> ProfileRow] /\ slot' \in [Kind -> Nat]
      /\ \A q \in Profiles : /\ profile'[q].state = profile[q].state
                             /\ profile'[q].name = profile[q].name
                             /\ profile'[q].isDefault = profile[q].isDefault
      /\ \A q \in Profiles : profile'[q].logo # profile[q].logo =>
           key.of = "profile" /\ key.id = q /\ profile'[q].logo = path
  BY RowPut
<1>2. /\ path = 0 => Listed' = Elsewhere(key)
      /\ path = key.path /\ path > 0 => Listed' = Elsewhere(key) \cup {key}
  BY RowPutListed
<1>3. RowsTyped'
  BY <1>1 DEF RowsTyped
<1>4. \A q \in Profiles : Present(q)' = Present(q) /\ IsDefault(q)' = IsDefault(q)
  BY <1>1 DEF Present, IsDefault
<1>5. \A p \in Profiles : ~Present(p)' => profile'[p].logo = 0
  BY <1>1, <1>4 DEF RowsSound, RowThere
<1>6. \A j \in Listed' : j.path <= calls
  BY <1>2 DEF RowsSound, Elsewhere
<1>7. RowsSound'
  BY <1>4, <1>5, <1>6 DEF RowsSound
<1>8. Agree'
  BY <1>1, <1>4 DEF Agree
<1> QED
  BY <1>3, <1>7, <1>8

\* What a later step leaves of the conclusion that its callers need.
LaterDone ==
  /\ RowsInv' /\ todo # <<>>
  /\ todo' = <<>> => cache' = None
  /\ cache' = None \/ cache' = cache
  /\ UNCHANGED <<template, calls, reader, harmed>>

LEMMA LaterClosing ==
  ASSUME RowsTyped, RowsSound, HarmSound, Closing, LaterStep
  PROVE  LaterDone
<1>1. CASE todo = <<>>
  BY <1>1 DEF LaterStep, PutObject, RemoveObject, PointRow, UnpointRow, SyncDefaultProfile,
     InvalidateSettingsCache, Step
<1>2. CASE Agree /\ todo = <<Invalidate>>
  <2>1. Head(todo) = [do |-> "invalidate", key |-> None] /\ Tail(todo) = <<>> /\ todo # <<>>
    BY <1>2, ShortSequences DEF Invalidate
  <2>2. /\ todo' = <<>> /\ cache' = None /\ UNCHANGED <<settings, profile, slot, object>>
        /\ UNCHANGED <<template, calls, reader, harmed>>
    BY <2>1, LaterEffect
  <2>3. RowsTyped' /\ RowsSound' /\ Listed' = Listed /\ Agree'
    BY <1>2, <2>2, RowsKept DEF RowsTyped
  <2>4. Closing'
    BY <2>2, <2>3 DEF Closing, Alike
  <2>5. HarmSound'
    BY <2>2, <2>3, HarmKept DEF RowsTyped
  <2> QED
    BY <2>1, <2>2, <2>3, <2>4, <2>5 DEF LaterDone, RowsInv, StoreInv
<1>3. ASSUME NEW q \in Profiles, IsDefault(q), todo = <<Sync(q), Invalidate>>
      PROVE  LaterDone
  <2>1. /\ Head(todo) = [do |-> "sync", key |-> ProfileKey(q, 0)] /\ Tail(todo) = <<Invalidate>>
        /\ todo # <<>> /\ <<Invalidate>> # <<>> /\ ProfileKey(q, 0).id = q
    BY <1>3, ShortSequences, KeysTyped DEF Sync
  <2>2. /\ todo' = <<Invalidate>> /\ settings' = [name |-> profile[q].name, apart |-> FALSE]
        /\ UNCHANGED <<profile, slot, object, cache>>
        /\ UNCHANGED <<template, calls, reader, harmed>>
    BY <2>1, LaterEffect
  <2>3. settings' \in [name : Name, apart : BOOLEAN] /\ settings'.name = profile[q].name
    BY <2>2 DEF RowsTyped, ProfileRow
  <2>4. /\ RowsTyped' /\ RowsSound' /\ Listed' = Listed
        /\ \A p \in Profiles : IsDefault(p)' = IsDefault(p)
    BY <2>2, <2>3, RowsKept
  <2>5. \A p \in Profiles : IsDefault(p) => p = q
    BY <1>3 DEF RowsSound
  <2>6. Agree'
    BY <2>2, <2>3, <2>4, <2>5 DEF Agree
  <2>7. Closing'
    BY <1>3, <2>2, <2>4, <2>6 DEF Closing, Alike
  <2>8. HarmSound'
    BY <2>2, <2>4, HarmKept DEF RowsTyped
  <2> QED
    BY <2>1, <2>2, <2>4, <2>7, <2>8 DEF LaterDone, RowsInv, StoreInv
<1> QED
  BY <1>1, <1>2, <1>3 DEF Closing

LEMMA LaterRemoving ==
  ASSUME RowsTyped, RowsSound, HarmSound, Removing, LaterStep
  PROVE  LaterDone
<1>1. PICK k \in LogoKey \ Listed :
        /\ Alike(object, Listed \cup {k}, harmed) /\ k.path <= calls
        /\ \/ Agree /\ todo = <<Unlink(k), Invalidate>>
           \/ \E q \in Profiles : IsDefault(q) /\ todo = <<Unlink(k), Sync(q), Invalidate>>
  BY DEF Removing
<1>2. ASSUME NEW rest, Head(todo) = Unlink(k), Tail(todo) = rest, todo # <<>>, rest # <<>>,
             \/ Agree /\ rest = <<Invalidate>>
             \/ \E q \in Profiles : IsDefault(q) /\ rest = <<Sync(q), Invalidate>>
      PROVE  LaterDone
  <2>1. Head(todo) = [do |-> "remove", key |-> k]
    BY <1>2 DEF Unlink
  <2>2. /\ todo' = rest /\ object' = object \ {k}
        /\ UNCHANGED <<settings, profile, slot, cache>>
        /\ UNCHANGED <<template, calls, reader, harmed>>
    BY <1>2, <2>1, LaterEffect
  <2>3. Alike(object', Listed, harmed)
    <3>1. Alike(object \ {k}, (Listed \cup {k}) \ {k}, harmed)
      BY <1>1, AlikeSets
    <3>2. (Listed \cup {k}) \ {k} = Listed
      BY <1>1
    <3> QED
      BY <2>2, <3>1, <3>2
  <2>4. /\ RowsTyped' /\ RowsSound' /\ Listed' = Listed /\ (Agree => Agree')
        /\ \A p \in Profiles : IsDefault(p)' = IsDefault(p)
    BY <2>2, RowsKept DEF RowsTyped
  <2>5. Closing'
    BY <1>2, <2>2, <2>3, <2>4 DEF Closing
  <2>6. HarmSound'
    BY <2>2, <2>4, HarmKept DEF RowsTyped
  <2> QED
    BY <1>2, <2>2, <2>4, <2>5, <2>6 DEF LaterDone, RowsInv, StoreInv
<1>3. CASE Agree /\ todo = <<Unlink(k), Invalidate>>
  <2>1. /\ Head(todo) = Unlink(k) /\ Tail(todo) = <<Invalidate>> /\ todo # <<>>
        /\ <<Invalidate>> # <<>>
    BY <1>3, ShortSequences
  <2> QED
    BY <1>2, <1>3, <2>1
<1>4. ASSUME NEW q \in Profiles, IsDefault(q), todo = <<Unlink(k), Sync(q), Invalidate>>
      PROVE  LaterDone
  <2>1. /\ Head(todo) = Unlink(k) /\ Tail(todo) = <<Sync(q), Invalidate>> /\ todo # <<>>
        /\ <<Sync(q), Invalidate>> # <<>>
    BY <1>4, ShortSequences
  <2> QED
    BY <1>2, <1>4, <2>1
<1> QED
  BY <1>1, <1>3, <1>4

LEMMA LaterUploading ==
  ASSUME RowsTyped, RowsSound, HarmSound, Uploading, LaterStep
  PROVE  LaterDone
<1>1. PICK n \in LogoKey :
        /\ Agree /\ 0 < n.path /\ n.path <= calls /\ RowThere(n) /\ n \notin harmed
        /\ \/ /\ Alike(object, Listed, harmed) /\ RowPath(n) = 0
              /\ todo = <<Put(n), Point(n), Invalidate>>
           \/ /\ Alike(object, Elsewhere(n) \cup {n}, harmed)
              /\ todo = <<Point(n), Invalidate>>
           \/ \E o \in Listed :
                /\ SameRow(o, n) /\ o # n
                /\ \/ /\ Alike(object, Listed, harmed)
                      /\ todo = <<Put(n), Unlink(o), Point(n), Invalidate>>
                   \/ /\ Alike(object, Listed \cup {n}, harmed)
                      /\ todo = <<Unlink(o), Point(n), Invalidate>>
  BY DEF Uploading
<1>2. CASE Alike(object, Listed, harmed) /\ RowPath(n) = 0 /\ todo = <<Put(n), Point(n), Invalidate>>
  <2>1. /\ Head(todo) = [do |-> "put", key |-> n] /\ Tail(todo) = <<Point(n), Invalidate>>
        /\ todo # <<>> /\ <<Point(n), Invalidate>> # <<>>
    BY <1>2, ShortSequences DEF Put
  <2>2. /\ todo' = <<Point(n), Invalidate>> /\ object' = object \cup {n}
        /\ UNCHANGED <<settings, profile, slot, cache>>
        /\ UNCHANGED <<template, calls, reader, harmed>>
    BY <2>1, LaterEffect
  <2>3. /\ RowsTyped' /\ RowsSound' /\ Agree' /\ Elsewhere(n)' = Elsewhere(n) /\ RowThere(n)'
        /\ Listed' = Listed
    BY <1>1, <2>2, RowsKept DEF RowsTyped
  <2>4. Elsewhere(n) = Listed
    BY <1>2, ListedOnce
  <2>5. Alike(object', Elsewhere(n)' \cup {n}, harmed')
    BY <1>2, <2>2, <2>3, <2>4, AlikeSets
  <2>6. Uploading'
    BY <1>1, <2>2, <2>3, <2>5 DEF Uploading
  <2>7. HarmSound'
    BY <1>1, <2>2, <2>3, HarmKept DEF RowsTyped
  <2> QED
    BY <2>1, <2>2, <2>3, <2>6, <2>7 DEF LaterDone, RowsInv, StoreInv
<1>3. CASE Alike(object, Elsewhere(n) \cup {n}, harmed) /\ todo = <<Point(n), Invalidate>>
  <2>1. /\ Head(todo) = [do |-> "point", key |-> n] /\ Tail(todo) = <<Invalidate>>
        /\ todo # <<>> /\ <<Invalidate>> # <<>>
    BY <1>3, ShortSequences DEF Point
  <2>2. /\ todo' = <<Invalidate>> /\ PutRow(n, n.path)
        /\ UNCHANGED <<settings, object, cache>>
        /\ UNCHANGED <<template, calls, reader, harmed>>
    BY <2>1, LaterEffect
  <2>3. n.path \in Nat
    BY DEF LogoKey
  <2>4. RowsTyped' /\ RowsSound' /\ Agree'
    BY <1>1, <2>2, <2>3, RowsPut
  <2>5. Listed' = Elsewhere(n) \cup {n}
    BY <1>1, <2>2, <2>3, RowPutListed
  <2>6. Closing'
    BY <1>3, <2>2, <2>4, <2>5 DEF Closing
  <2>7. HarmSound'
    BY <1>1, <2>2, <2>5, HarmKept DEF RowsTyped, Elsewhere
  <2> QED
    BY <2>1, <2>2, <2>4, <2>6, <2>7 DEF LaterDone, RowsInv, StoreInv
<1>4. ASSUME NEW o \in Listed, SameRow(o, n), o # n, Alike(object, Listed, harmed),
             todo = <<Put(n), Unlink(o), Point(n), Invalidate>>
      PROVE  LaterDone
  <2>1. /\ Head(todo) = [do |-> "put", key |-> n]
        /\ Tail(todo) = <<Unlink(o), Point(n), Invalidate>>
        /\ todo # <<>> /\ <<Unlink(o), Point(n), Invalidate>> # <<>>
    BY <1>4, ShortSequences DEF Put
  <2>2. /\ todo' = <<Unlink(o), Point(n), Invalidate>> /\ object' = object \cup {n}
        /\ UNCHANGED <<settings, profile, slot, cache>>
        /\ UNCHANGED <<template, calls, reader, harmed>>
    BY <2>1, LaterEffect
  <2>3. RowsTyped' /\ RowsSound' /\ Agree' /\ Listed' = Listed /\ RowThere(n)'
    BY <1>1, <2>2, RowsKept DEF RowsTyped
  <2>4. Alike(object', Listed' \cup {n}, harmed')
    BY <1>4, <2>2, <2>3, AlikeSets
  <2>5. SameRow(o, n)'
    BY <1>4 DEF SameRow
  <2>6. Uploading'
    BY <1>1, <1>4, <2>2, <2>3, <2>4, <2>5 DEF Uploading
  <2>7. HarmSound'
    BY <1>1, <2>2, <2>3, HarmKept DEF RowsTyped
  <2> QED
    BY <2>1, <2>2, <2>3, <2>6, <2>7 DEF LaterDone, RowsInv, StoreInv
<1>5. ASSUME NEW o \in Listed, SameRow(o, n), o # n, Alike(object, Listed \cup {n}, harmed),
             todo = <<Unlink(o), Point(n), Invalidate>>
      PROVE  LaterDone
  <2>1. /\ Head(todo) = [do |-> "remove", key |-> o] /\ Tail(todo) = <<Point(n), Invalidate>>
        /\ todo # <<>> /\ <<Point(n), Invalidate>> # <<>>
    BY <1>5, ShortSequences DEF Unlink
  <2>2. /\ todo' = <<Point(n), Invalidate>> /\ object' = object \ {o}
        /\ UNCHANGED <<settings, profile, slot, cache>>
        /\ UNCHANGED <<template, calls, reader, harmed>>
    BY <2>1, LaterEffect
  <2>3. /\ RowsTyped' /\ RowsSound' /\ Agree' /\ Elsewhere(n)' = Elsewhere(n) /\ RowThere(n)'
        /\ Listed' = Listed
    BY <1>1, <2>2, RowsKept DEF RowsTyped
  <2>4. Elsewhere(n) = Listed \ {o}
    <3>1. o \in LogoKey
      BY DEF Listed
    <3>2. Elsewhere(o) = Listed \ {o}
      BY <3>1, ListedOnce
    <3>3. Elsewhere(n) = Elsewhere(o)
      BY <1>5 DEF Elsewhere, SameRow
    <3> QED
      BY <3>2, <3>3
  <2>5. Alike(object', Elsewhere(n)' \cup {n}, harmed')
    <3>1. Alike(object \ {o}, (Listed \cup {n}) \ {o}, harmed)
      BY <1>5, AlikeSets
    <3>2. (Listed \cup {n}) \ {o} = Elsewhere(n)' \cup {n}
      BY <1>5, <2>3, <2>4
    <3> QED
      BY <2>2, <3>1, <3>2
  <2>6. Uploading'
    BY <1>1, <2>2, <2>3, <2>5 DEF Uploading
  <2>7. HarmSound'
    BY <2>2, <2>3, HarmKept DEF RowsTyped
  <2> QED
    BY <2>1, <2>2, <2>3, <2>6, <2>7 DEF LaterDone, RowsInv, StoreInv
<1> QED
  BY <1>1, <1>2, <1>3, <1>4, <1>5

LEMMA LaterErasing ==
  ASSUME RowsTyped, RowsSound, HarmSound, Erasing, LaterStep
  PROVE  LaterDone
<1>1. PICK o \in Listed :
        /\ Agree
        /\ \/ Alike(object, Listed, harmed) /\ todo = <<Unlink(o), Unpoint(o), Invalidate>>
           \/ Alike(object, Listed \ {o}, harmed) /\ todo = <<Unpoint(o), Invalidate>>
  BY DEF Erasing
<1>2. o \in LogoKey
  BY DEF Listed
<1>3. CASE Alike(object, Listed, harmed) /\ todo = <<Unlink(o), Unpoint(o), Invalidate>>
  <2>1. /\ Head(todo) = [do |-> "remove", key |-> o] /\ Tail(todo) = <<Unpoint(o), Invalidate>>
        /\ todo # <<>> /\ <<Unpoint(o), Invalidate>> # <<>>
    BY <1>3, ShortSequences DEF Unlink
  <2>2. /\ todo' = <<Unpoint(o), Invalidate>> /\ object' = object \ {o}
        /\ UNCHANGED <<settings, profile, slot, cache>>
        /\ UNCHANGED <<template, calls, reader, harmed>>
    BY <2>1, LaterEffect
  <2>3. RowsTyped' /\ RowsSound' /\ Agree' /\ Listed' = Listed
    BY <1>1, <2>2, RowsKept DEF RowsTyped
  <2>4. Alike(object', Listed' \ {o}, harmed')
    BY <1>3, <2>2, <2>3, AlikeSets
  <2>5. Erasing'
    BY <2>2, <2>3, <2>4 DEF Erasing
  <2>6. HarmSound'
    BY <2>2, <2>3, HarmKept DEF RowsTyped
  <2> QED
    BY <2>1, <2>2, <2>3, <2>5, <2>6 DEF LaterDone, RowsInv, StoreInv
<1>4. CASE Alike(object, Listed \ {o}, harmed) /\ todo = <<Unpoint(o), Invalidate>>
  <2>1. /\ Head(todo) = [do |-> "unpoint", key |-> o] /\ Tail(todo) = <<Invalidate>>
        /\ todo # <<>> /\ <<Invalidate>> # <<>>
    BY <1>4, ShortSequences DEF Unpoint
  <2>2. /\ todo' = <<Invalidate>> /\ PutRow(o, 0)
        /\ UNCHANGED <<settings, object, cache>>
        /\ UNCHANGED <<template, calls, reader, harmed>>
    BY <2>1, LaterEffect
  <2>3. RowsTyped' /\ RowsSound' /\ Agree'
    BY <1>1, <1>2, <2>2, RowsPut
  <2>4. Listed' = Elsewhere(o) /\ Elsewhere(o) = Listed \ {o}
    BY <1>2, <2>2, RowPutListed, ListedOnce
  <2>5. Closing'
    BY <1>4, <2>2, <2>3, <2>4 DEF Closing
  <2>6. HarmSound'
    BY <2>2, <2>4, HarmKept DEF RowsTyped
  <2> QED
    BY <2>1, <2>2, <2>3, <2>5, <2>6 DEF LaterDone, RowsInv, StoreInv
<1> QED
  BY <1>1, <1>3, <1>4

LEMMA LaterKeeps ==
  ASSUME RowsInv, LaterStep
  PROVE  LaterDone
  BY LaterClosing, LaterRemoving, LaterUploading, LaterErasing DEF RowsInv, StoreInv

\* What a failure leaves of the conclusion that its callers need.
FailDone ==
  /\ RowsInv' /\ todo # <<>> /\ todo' = <<>>
  /\ cache' = IF cache = None THEN None ELSE [cache EXCEPT !.quiet = FALSE]
  /\ UNCHANGED <<template, calls, reader>>

\* A failure harms no more than the logo of the step that failed.
LEMMA FailHarms ==
  ASSUME RowsTyped, RowsSound, HarmSound, FailStep, NEW do, NEW key,
         Head(todo) = [do |-> do, key |-> key],
         \A x : x \notin harmed =>
           /\ x \in Listed \ object => do \in {"point", "unpoint"} /\ SameRow(x, key)
           /\ x \in object \ Listed =>
                /\ x \in LogoKey /\ x.path <= calls
                /\ do \in {"remove", "point"} /\ SameRow(x, key),
         Agree \/ \E i \in DOMAIN todo : todo[i].do = "sync"
  PROVE  FailDone
<1>1. /\ todo # <<>> /\ todo' = <<>> /\ harmed' = harmed \cup Harm
      /\ settings' = [settings EXCEPT
                        !.apart = @ \/ \E i \in DOMAIN todo : todo[i].do = "sync"]
      /\ cache' = IF cache = None THEN None ELSE [cache EXCEPT !.quiet = FALSE]
      /\ UNCHANGED <<template, calls, profile, slot, object, reader>>
  BY DEF FailStep, templateVars
<1>2. PICK v \in BOOLEAN :
        v <=> (settings.apart \/ \E i \in DOMAIN todo : todo[i].do = "sync")
  OBVIOUS
<1>3. settings' = [settings EXCEPT !.apart = v]
  <2>1. settings.apart \in BOOLEAN
    BY DEF RowsTyped
  <2>2. v = (settings.apart \/ \E i \in DOMAIN todo : todo[i].do = "sync")
    BY <1>2, <2>1
  <2> QED
    BY <1>1, <2>2
<1>4. /\ settings' \in [name : Name, apart : BOOLEAN]
      /\ settings'.name = settings.name /\ settings'.apart = v
  BY <1>3 DEF RowsTyped
<1>5. /\ RowsTyped' /\ RowsSound' /\ Listed' = Listed
      /\ \A p \in Profiles : IsDefault(p)' = IsDefault(p)
  BY <1>1, <1>4, RowsKept
<1>6. Agree'
  BY <1>1, <1>2, <1>4, <1>5 DEF Agree
<1>7. Key = key /\ Head(todo).do = do
  BY DEF Key
<1>8. /\ {x \in Listed \ object : do \in {"point", "unpoint"} /\ SameRow(x, key)} \subseteq Harm
      /\ {x \in object \ Listed : do \in {"remove", "point"} /\ SameRow(x, key)} \subseteq Harm
      /\ Harm \subseteq (Listed \ object) \cup (object \ Listed)
  BY <1>7, ListedIs DEF Harm, SameLogo, SameRow
<1>9. Alike(object', Listed', harmed')
  BY <1>1, <1>5, <1>8 DEF Alike
<1>10. HarmSound'
  <2>1. \A x \in Harm : x \in LogoKey /\ x.path <= calls /\ ~(x \in Listed /\ x \in object)
    BY <1>8 DEF HarmSound, RowsSound, Listed
  <2>2. LogoKey' = LogoKey
    BY DEF LogoKey
  <2> QED
    BY <1>1, <1>5, <2>1, <2>2 DEF HarmSound
<1>11. Closing'
  BY <1>1, <1>6, <1>9 DEF Closing
<1> QED
  BY <1>1, <1>5, <1>10, <1>11 DEF FailDone, RowsInv, StoreInv

LEMMA FailKeeps ==
  ASSUME RowsInv, FailStep
  PROVE  FailDone
<1>1. RowsTyped /\ RowsSound /\ HarmSound /\ todo # <<>>
  BY DEF RowsInv, FailStep
<1>2. CASE Closing
  <2>1. CASE Agree /\ todo = <<Invalidate>>
    <3>1. Head(todo) = [do |-> "invalidate", key |-> None]
      BY <2>1, ShortSequences DEF Invalidate
    <3> QED
      BY <1>1, <1>2, <2>1, <3>1, FailHarms DEF Closing, Alike
  <2>2. ASSUME NEW q \in Profiles, IsDefault(q), todo = <<Sync(q), Invalidate>> PROVE FailDone
    <3>1. Head(todo) = [do |-> "sync", key |-> ProfileKey(q, 0)]
      BY <2>2, ShortSequences DEF Sync
    <3>2. 1 \in DOMAIN todo /\ todo[1].do = "sync"
      BY <2>2 DEF Sync
    <3> QED
      BY <1>1, <1>2, <3>1, <3>2, FailHarms DEF Closing, Alike
  <2> QED
    BY <1>1, <1>2, <2>1, <2>2 DEF Closing
<1>3. CASE Removing
  <2>1. PICK k \in LogoKey \ Listed :
          /\ Alike(object, Listed \cup {k}, harmed) /\ k.path <= calls
          /\ \/ Agree /\ todo = <<Unlink(k), Invalidate>>
             \/ \E q \in Profiles : IsDefault(q) /\ todo = <<Unlink(k), Sync(q), Invalidate>>
    BY <1>3 DEF Removing
  <2>2. Head(todo) = [do |-> "remove", key |-> k]
    BY <2>1, ShortSequences DEF Unlink
  <2>3. ASSUME ~Agree PROVE \E i \in DOMAIN todo : todo[i].do = "sync"
    <3>1. PICK q \in Profiles : todo = <<Unlink(k), Sync(q), Invalidate>>
      BY <2>1, <2>3
    <3>2. 2 \in DOMAIN todo /\ todo[2] = Sync(q)
      BY <3>1
    <3> QED
      BY <3>2 DEF Sync
  <2>4. \A x : x \notin harmed =>
          /\ x \notin Listed \ object
          /\ x \in object \ Listed => x = k
    BY <2>1 DEF Alike
  <2>5. SameRow(k, k)
    BY DEF SameRow
  <2> QED
    BY <1>1, <2>1, <2>2, <2>3, <2>4, <2>5, FailHarms
<1>4. CASE Uploading
  <2>1. PICK n \in LogoKey :
          /\ Agree /\ 0 < n.path /\ n.path <= calls /\ RowThere(n) /\ n \notin harmed
          /\ \/ /\ Alike(object, Listed, harmed) /\ RowPath(n) = 0
                /\ todo = <<Put(n), Point(n), Invalidate>>
             \/ /\ Alike(object, Elsewhere(n) \cup {n}, harmed)
                /\ todo = <<Point(n), Invalidate>>
             \/ \E o \in Listed :
                  /\ SameRow(o, n) /\ o # n
                  /\ \/ /\ Alike(object, Listed, harmed)
                        /\ todo = <<Put(n), Unlink(o), Point(n), Invalidate>>
                     \/ /\ Alike(object, Listed \cup {n}, harmed)
                        /\ todo = <<Unlink(o), Point(n), Invalidate>>
    BY <1>4 DEF Uploading
  <2>2. ASSUME Alike(object, Listed, harmed), Head(todo) = Put(n) PROVE FailDone
    BY <1>1, <2>1, <2>2, FailHarms DEF Alike, Put
  <2>3. CASE Alike(object, Elsewhere(n) \cup {n}, harmed) /\ todo = <<Point(n), Invalidate>>
    <3>1. Head(todo) = [do |-> "point", key |-> n]
      BY <2>3, ShortSequences DEF Point
    <3>2. SameRow(n, n)
      BY DEF SameRow
    <3>3. \A x : x \notin harmed =>
            /\ x \in Listed \ object => SameRow(x, n)
            /\ x \in object \ Listed => x = n
      BY <2>3 DEF Alike, Elsewhere
    <3> QED
      BY <1>1, <2>1, <3>1, <3>2, <3>3, FailHarms
  <2>4. ASSUME NEW o \in Listed, SameRow(o, n), Alike(object, Listed \cup {n}, harmed),
               todo = <<Unlink(o), Point(n), Invalidate>>
        PROVE  FailDone
    <3>1. Head(todo) = [do |-> "remove", key |-> o]
      BY <2>4, ShortSequences DEF Unlink
    <3>2. SameRow(n, o)
      BY <2>4 DEF SameRow
    <3>3. \A x : x \notin harmed =>
            /\ x \notin Listed \ object
            /\ x \in object \ Listed => x = n
      BY <2>4 DEF Alike
    <3> QED
      BY <1>1, <2>1, <3>1, <3>2, <3>3, FailHarms
  <2>5. \A o : /\ Head(<<Put(n), Point(n), Invalidate>>) = Put(n)
              /\ Head(<<Put(n), Unlink(o), Point(n), Invalidate>>) = Put(n)
    BY ShortSequences
  <2> QED
    BY <2>1, <2>2, <2>3, <2>4, <2>5
<1>5. CASE Erasing
  <2>1. PICK o \in Listed :
          /\ Agree
          /\ \/ Alike(object, Listed, harmed) /\ todo = <<Unlink(o), Unpoint(o), Invalidate>>
             \/ Alike(object, Listed \ {o}, harmed) /\ todo = <<Unpoint(o), Invalidate>>
    BY <1>5 DEF Erasing
  <2>2. CASE Alike(object, Listed, harmed) /\ todo = <<Unlink(o), Unpoint(o), Invalidate>>
    <3>1. Head(todo) = [do |-> "remove", key |-> o]
      BY <2>2, ShortSequences DEF Unlink
    <3> QED
      BY <1>1, <2>1, <2>2, <3>1, FailHarms DEF Alike
  <2>3. CASE Alike(object, Listed \ {o}, harmed) /\ todo = <<Unpoint(o), Invalidate>>
    <3>1. Head(todo) = [do |-> "unpoint", key |-> o]
      BY <2>3, ShortSequences DEF Unpoint
    <3>2. SameRow(o, o)
      BY DEF SameRow
    <3>3. \A x : x \notin harmed =>
            /\ x \in Listed \ object => x = o
            /\ x \notin object \ Listed
      BY <2>3 DEF Alike
    <3> QED
      BY <1>1, <2>1, <3>1, <3>2, <3>3, FailHarms
  <2> QED
    BY <2>1, <2>2, <2>3
<1> QED
  BY <1>2, <1>3, <1>4, <1>5 DEF RowsInv, StoreInv

-----------------------------------------------------------------------------
(* The beginning of a write *)

WriteBegun ==
  /\ todo = <<>> /\ todo' # <<>>
  /\ reader' = [r \in Reader |-> [reader[r] EXCEPT !.quiet = FALSE]]
  /\ UNCHANGED <<template, cache, harmed>>

LEMMA AtRest ==
  ASSUME RowsInv, todo = <<>>
  PROVE  Alike(object, Listed, harmed) /\ Agree
<1>1. \A k, q : <<Unlink(k), Invalidate>> # <<>> /\ <<Sync(q), Invalidate>> # <<>>
                  /\ <<Unlink(k), Sync(q), Invalidate>> # <<>>
  BY ShortSequences
<1>2. \A n, o : /\ <<Put(n), Point(n), Invalidate>> # <<>> /\ <<Point(n), Invalidate>> # <<>>
                /\ <<Put(n), Unlink(o), Point(n), Invalidate>> # <<>>
                /\ <<Unlink(o), Point(n), Invalidate>> # <<>>
                /\ <<Unlink(o), Unpoint(o), Invalidate>> # <<>>
                /\ <<Unpoint(o), Invalidate>> # <<>>
  BY ShortSequences
<1>3. <<Invalidate>> # <<>>
  BY ShortSequences
<1>4. ~Removing
  BY <1>1 DEF Removing
<1>5. ~Uploading
  BY <1>2 DEF Uploading
<1>6. ~Erasing
  BY <1>2 DEF Erasing
<1> QED
  BY <1>1, <1>4, <1>5, <1>6 DEF RowsInv, StoreInv, Closing

LEMMA WriteBegins ==
  ASSUME NEW steps, BeginWrite(steps), steps # <<>>
  PROVE  WriteBegun /\ calls' = calls + 1 /\ todo' = steps
  BY DEF BeginWrite, WriteBegun, CountCall

\* The profiles are written and no logo is.
LEMMA WriteProfiles ==
  ASSUME RowsInv, todo = <<>>, calls' = calls + 1, UNCHANGED <<settings, slot, object, harmed>>,
         profile' \in [Profiles -> ProfileRow],
         \A q \in Profiles : profile'[q].logo = profile[q].logo,
         \A q \in Profiles : ~Present(q)' => profile'[q].logo = 0,
         NEW d \in Profiles, \A q \in Profiles : IsDefault(q)' <=> q = d,
         \/ todo' = <<Sync(d), Invalidate>>
         \/ todo' = <<Invalidate>> /\ IsDefault(d) /\ profile'[d].name = profile[d].name
  PROVE  RowsInv'
<1>1. Alike(object', Listed, harmed') /\ Agree
  BY AtRest
<1>2. Listed' = Listed
  BY ListedSame
<1>a. HarmSound'
  BY <1>2, HarmKept DEF RowsInv, RowsTyped
<1>3. RowsTyped'
  BY DEF RowsInv, RowsTyped
<1>4. RowsSound'
  <2>1. \A key \in Listed : key.path <= calls'
    <3>1. \A key \in Listed : key.path <= calls /\ key.path \in Nat
      BY DEF RowsInv, RowsSound, Listed, LogoKey
    <3> QED
      BY <3>1 DEF RowsInv, RowsTyped
  <2> QED
    BY <1>2, <2>1 DEF RowsSound
<1>5. CASE todo' = <<Sync(d), Invalidate>>
  <2>1. Closing'
    BY <1>1, <1>2, <1>5 DEF Closing
  <2> QED
    BY <1>3, <1>4, <1>a, <2>1 DEF RowsInv, StoreInv
<1>6. CASE todo' = <<Invalidate>> /\ IsDefault(d) /\ profile'[d].name = profile[d].name
  <2>1. settings.apart \/ settings.name = profile[d].name
    BY <1>1, <1>6 DEF Agree
  <2>2. Agree'
    BY <1>6, <2>1 DEF Agree
  <2>3. Closing'
    BY <1>1, <1>2, <1>6, <2>2 DEF Closing
  <2> QED
    BY <1>3, <1>4, <1>a, <2>3 DEF RowsInv, StoreInv
<1> QED
  BY <1>5, <1>6

LEMMA CreateKeeps ==
  ASSUME RowsInv, NEW p \in Profiles, NEW n \in Name, NEW asked \in BOOLEAN,
         CreateProfile(p, n, asked)
  PROVE  RowsInv' /\ WriteBegun
<1> DEFINE hasDefault == \E q \in Profiles : Present(q) /\ profile[q].isDefault
           make == asked \/ ~hasDefault
           base == IF make THEN ClearDefaults(p) ELSE profile
           row == [state |-> "present", name |-> n, isDefault |-> make, logo |-> 0]
           steps == (IF make THEN <<Sync(p)>> ELSE <<>>) \o <<Invalidate>>
<1>1. /\ profile[p].state = "none" /\ BeginWrite(steps)
      /\ profile' = [base EXCEPT ![p] = row]
      /\ UNCHANGED <<settings, slot, object>>
  BY DEF CreateProfile
<1>2. /\ base \in [Profiles -> ProfileRow] /\ row \in ProfileRow
      /\ \A q \in Profiles : /\ base[q].state = profile[q].state
                             /\ base[q].logo = profile[q].logo
                             /\ base[q].name = profile[q].name
                             /\ base[q].isDefault => profile[q].isDefault
                             /\ ~make => base[q].isDefault = profile[q].isDefault
      /\ make => \A q \in Profiles \ {p} : ~base[q].isDefault
      /\ row.state = "present" /\ row.isDefault = make /\ row.logo = 0
  BY DEF ClearDefaults, RowsInv, RowsTyped, ProfileRow
<1>3. steps = IF make THEN <<Sync(p), Invalidate>> ELSE <<Invalidate>>
  <2>1. <<Sync(p)>> \o <<Invalidate>> = <<Sync(p), Invalidate>>
    BY JoinTwo
  <2>2. <<>> \o <<Invalidate>> = <<Invalidate>>
    BY EmptyFirst
  <2> QED
    BY <2>1, <2>2
<1>4. steps # <<>>
  BY <1>3, ShortSequences
<1>5. make \in BOOLEAN
  OBVIOUS
<1>6. PICK d \in Profiles : \A q \in Profiles : IsDefault(q) <=> q = d
  BY DEF RowsInv, RowsSound
<1> HIDE DEF make, base, row, steps
<1>7. WriteBegun /\ calls' = calls + 1 /\ todo' = steps
  BY <1>1, <1>4, WriteBegins
<1>8. /\ profile' \in [Profiles -> ProfileRow] /\ profile'[p] = row
      /\ \A q \in Profiles \ {p} : profile'[q] = base[q]
  BY <1>1, <1>2
<1>9. profile[p].logo = 0
  BY <1>1 DEF RowsInv, RowsSound, Present
<1>10. \A q \in Profiles : profile'[q].logo = profile[q].logo
  BY <1>2, <1>8, <1>9
<1>11. \A q \in Profiles : ~Present(q)' => profile'[q].logo = 0
  BY <1>2, <1>8, <1>10 DEF Present, RowsInv, RowsSound
<1>12. CASE make
  <2>1. \A q \in Profiles : IsDefault(q)' <=> q = p
    BY <1>2, <1>8, <1>12 DEF IsDefault, Present
  <2>2. todo' = <<Sync(p), Invalidate>>
    BY <1>3, <1>7, <1>12
  <2>3. todo = <<>> /\ UNCHANGED harmed
    BY <1>7 DEF WriteBegun
  <2> QED
    BY <1>1, <1>7, <1>8, <1>10, <1>11, <2>1, <2>2, <2>3, WriteProfiles
<1>13. CASE ~make
  <2>1. p # d
    BY <1>1, <1>6 DEF IsDefault, Present
  <2>2. \A q \in Profiles : IsDefault(q)' <=> q = d
    BY <1>2, <1>6, <1>8, <1>13, <2>1 DEF IsDefault, Present
  <2>3. todo' = <<Invalidate>> /\ IsDefault(d) /\ profile'[d].name = profile[d].name
    BY <1>2, <1>3, <1>6, <1>7, <1>8, <1>13, <2>1
  <2>4. todo = <<>> /\ UNCHANGED harmed
    BY <1>7 DEF WriteBegun
  <2> QED
    BY <1>1, <1>7, <1>8, <1>10, <1>11, <2>2, <2>3, <2>4, WriteProfiles
<1> QED
  BY <1>12, <1>13

\* A profile that is there gets a name, and is the default or not.
LEMMA ProfileEdited ==
  ASSUME RowsInv, NEW p \in Profiles, Present(p), NEW n \in Name, NEW clear \in BOOLEAN,
         NEW isDefault \in BOOLEAN,
         UNCHANGED <<settings, slot, object>>,
         profile' = [IF clear THEN ClearDefaults(p) ELSE profile
                       EXCEPT ![p].name = n, ![p].isDefault = isDefault],
         BeginWrite((IF isDefault THEN <<Sync(p)>> ELSE <<>>) \o <<Invalidate>>),
         isDefault <=> clear \/ IsDefault(p)
  PROVE  RowsInv' /\ WriteBegun
<1> DEFINE base == IF clear THEN ClearDefaults(p) ELSE profile
           steps == (IF isDefault THEN <<Sync(p)>> ELSE <<>>) \o <<Invalidate>>
<1>1. /\ base \in [Profiles -> ProfileRow]
      /\ \A q \in Profiles : /\ base[q].state = profile[q].state
                             /\ base[q].logo = profile[q].logo
                             /\ base[q].name = profile[q].name
                             /\ ~clear => base[q].isDefault = profile[q].isDefault
      /\ clear => \A q \in Profiles \ {p} : ~base[q].isDefault
  BY DEF ClearDefaults, RowsInv, RowsTyped, ProfileRow
<1>2. steps = IF isDefault THEN <<Sync(p), Invalidate>> ELSE <<Invalidate>>
  <2>1. <<Sync(p)>> \o <<Invalidate>> = <<Sync(p), Invalidate>>
    BY JoinTwo
  <2>2. <<>> \o <<Invalidate>> = <<Invalidate>>
    BY EmptyFirst
  <2> QED
    BY <2>1, <2>2
<1>3. steps # <<>>
  BY <1>2, ShortSequences
<1>4. profile' = [base EXCEPT ![p].name = n, ![p].isDefault = isDefault] /\ BeginWrite(steps)
  OBVIOUS
<1>5. PICK d \in Profiles : \A q \in Profiles : IsDefault(q) <=> q = d
  BY DEF RowsInv, RowsSound
<1> HIDE DEF base, steps
<1>6. WriteBegun /\ calls' = calls + 1 /\ todo' = steps
  BY <1>3, <1>4, WriteBegins
<1>7. /\ profile' \in [Profiles -> ProfileRow]
      /\ profile'[p].state = base[p].state /\ profile'[p].logo = base[p].logo
      /\ profile'[p].isDefault = isDefault
      /\ \A q \in Profiles \ {p} : profile'[q] = base[q]
  BY <1>1, <1>4 DEF ProfileRow
<1>8. \A q \in Profiles : profile'[q].logo = profile[q].logo /\ profile'[q].state = profile[q].state
  BY <1>1, <1>7
<1>9. \A q \in Profiles : ~Present(q)' => profile'[q].logo = 0
  BY <1>8 DEF Present, RowsInv, RowsSound
<1>10. todo = <<>> /\ UNCHANGED harmed
  BY <1>6 DEF WriteBegun
<1>11. CASE isDefault
  <2>1. \A q \in Profiles \ {p} : ~IsDefault(q)'
    BY <1>1, <1>5, <1>7, <1>8, <1>11 DEF IsDefault, Present
  <2>2. IsDefault(p)'
    BY <1>7, <1>8, <1>11 DEF IsDefault, Present
  <2>3. todo' = <<Sync(p), Invalidate>>
    BY <1>2, <1>6, <1>11
  <2>4. \A q \in Profiles : IsDefault(q)' <=> q = p
    BY <2>1, <2>2
  <2> QED
    BY <1>6, <1>7, <1>8, <1>9, <1>10, <2>3, <2>4, WriteProfiles
<1>12. CASE ~isDefault
  <2>1. p # d /\ ~clear
    BY <1>5, <1>12
  <2>2. \A q \in Profiles : IsDefault(q)' <=> q = d
    BY <1>1, <1>5, <1>7, <1>8, <1>12, <2>1 DEF IsDefault, Present
  <2>3. todo' = <<Invalidate>> /\ IsDefault(d) /\ profile'[d].name = profile[d].name
    BY <1>1, <1>2, <1>5, <1>6, <1>7, <1>12, <2>1
  <2> QED
    BY <1>6, <1>7, <1>8, <1>9, <1>10, <2>2, <2>3, WriteProfiles
<1> QED
  BY <1>11, <1>12

LEMMA UpdateKeeps ==
  ASSUME RowsInv, NEW p \in Profiles, NEW n \in Name, NEW flag \in {TRUE, FALSE, None},
         UpdateProfile(p, n, flag)
  PROVE  RowsInv' /\ WriteBegun
<1> DEFINE isDefault == IF flag = None THEN profile[p].isDefault ELSE flag
           clear == flag = TRUE
<1>1. profile[p].isDefault \in BOOLEAN
  BY DEF RowsInv, RowsTyped, ProfileRow
<1>2. None # TRUE /\ None # FALSE
  BY SettingsAssumption
<1>3. isDefault \in BOOLEAN /\ clear \in BOOLEAN
  BY <1>1
<1>4. Present(p) /\ ~(flag = FALSE /\ profile[p].isDefault)
  BY DEF UpdateProfile
<1>5. /\ UNCHANGED <<settings, slot, object>>
      /\ BeginWrite((IF isDefault THEN <<Sync(p)>> ELSE <<>>) \o <<Invalidate>>)
      /\ profile' = [IF clear THEN ClearDefaults(p) ELSE profile
                       EXCEPT ![p].name = n, ![p].isDefault = isDefault]
  BY DEF UpdateProfile
<1>6. isDefault <=> clear \/ IsDefault(p)
  <2>1. CASE flag = None
    BY <1>2, <1>4, <2>1 DEF IsDefault
  <2>2. CASE flag = TRUE
    BY <1>2, <2>2
  <2>3. CASE flag = FALSE
    BY <1>2, <1>4, <2>3 DEF IsDefault
  <2> QED
    BY <2>1, <2>2, <2>3
<1> HIDE DEF isDefault, clear
<1> QED
  BY <1>3, <1>4, <1>5, <1>6, ProfileEdited

LEMMA SetDefaultKeeps ==
  ASSUME RowsInv, NEW p \in Profiles, SetDefaultProfile(p)
  PROVE  RowsInv' /\ WriteBegun
<1> DEFINE n == profile[p].name
           base == ClearDefaults(p)
<1>1. Present(p) /\ UNCHANGED <<settings, slot, object>> /\ n \in Name
  BY DEF SetDefaultProfile, RowsInv, RowsTyped, ProfileRow
<1>2. BeginWrite((IF TRUE THEN <<Sync(p)>> ELSE <<>>) \o <<Invalidate>>)
  <2>1. <<Sync(p)>> \o <<Invalidate>> = <<Sync(p), Invalidate>>
    BY JoinTwo
  <2> QED
    BY <2>1 DEF SetDefaultProfile
<1>3. base \in [Profiles -> ProfileRow] /\ base[p] = profile[p]
  BY DEF ClearDefaults, RowsInv, RowsTyped, ProfileRow
<1>4. profile' = [base EXCEPT ![p].isDefault = TRUE]
  BY DEF SetDefaultProfile
<1>5. profile' = [base EXCEPT ![p].name = n, ![p].isDefault = TRUE]
  <2> HIDE DEF base
  <2>1. [base EXCEPT ![p].name = n] = base
    BY <1>3 DEF ProfileRow
  <2> QED
    BY <1>4, <2>1
<1>6. profile' = [IF TRUE THEN ClearDefaults(p) ELSE profile
                    EXCEPT ![p].name = n, ![p].isDefault = TRUE]
  BY <1>5
<1> HIDE DEF n
<1> QED
  BY <1>1, <1>2, <1>6, ProfileEdited

\* A profile is deleted: the oldest other one is the default if it was, and its
\* logo, if it had one, is left in the store for the next step.
LEMMA DeleteKeeps ==
  ASSUME RowsInv, NEW p \in Profiles, DeleteProfile(p)
  PROVE  RowsInv' /\ WriteBegun
<1> DEFINE others == {q \in Profiles \ {p} : Present(q)}
           oldest == CHOOSE q \in others : \A r \in others : q <= r
           unlinks == SetToSeq({Unlink(key) : key \in LogoKeys(p)})
           syncs == IF profile[p].isDefault THEN <<Sync(oldest)>> ELSE <<>>
           steps == unlinks \o syncs \o <<Invalidate>>
<1>1. /\ Present(p) /\ others # {} /\ BeginWrite(steps)
      /\ UNCHANGED <<settings, slot, object>>
      /\ profile' = [profile EXCEPT
           ![p].state = "gone", ![p].isDefault = FALSE, ![p].logo = 0,
           ![oldest].isDefault = @ \/ profile[p].isDefault]
  BY DEF DeleteProfile
<1>2. oldest \in others
  <2>1. others \subseteq Nat
    BY DEF Profiles
  <2>2. \E q \in others : \A r \in others : q <= r
    BY <1>1, <2>1, SmallestOf
  <2> QED
    BY <2>2
<1>3. PICK next \in Profiles :
        /\ next # p /\ Present(next)
        /\ syncs = IF profile[p].isDefault THEN <<Sync(next)>> ELSE <<>>
        /\ profile' = [profile EXCEPT
             ![p].state = "gone", ![p].isDefault = FALSE, ![p].logo = 0,
             ![next].isDefault = @ \/ profile[p].isDefault]
  BY <1>1, <1>2
<1> HIDE DEF oldest, others, syncs
<1>4. /\ profile' \in [Profiles -> ProfileRow]
      /\ profile'[p].state = "gone" /\ ~profile'[p].isDefault /\ profile'[p].logo = 0
      /\ profile'[next].state = profile[next].state /\ profile'[next].name = profile[next].name
      /\ profile'[next].logo = profile[next].logo
      /\ profile'[next].isDefault = (profile[next].isDefault \/ profile[p].isDefault)
      /\ \A q \in Profiles \ {p, next} : profile'[q] = profile[q]
  <2> DEFINE first == [profile EXCEPT
               ![p].state = "gone", ![p].isDefault = FALSE, ![p].logo = 0]
             flag == profile[next].isDefault \/ profile[p].isDefault
  <2>1. /\ first \in [Profiles -> ProfileRow]
        /\ first[p].state = "gone" /\ first[p].isDefault = FALSE /\ first[p].logo = 0
        /\ \A q \in Profiles \ {p} : first[q] = profile[q]
    BY DEF RowsInv, RowsTyped, ProfileRow
  <2>2. flag \in BOOLEAN
    BY <1>3 DEF RowsInv, RowsTyped, ProfileRow
  <2>3. profile' = [first EXCEPT ![next].isDefault = @ \/ profile[p].isDefault]
    BY <1>3
  <2>a. first[next] = profile[next]
    BY <1>3, <2>1
  <2> HIDE DEF first
  <2>4. profile' = [first EXCEPT ![next].isDefault = flag]
    BY <2>3, <2>a
  <2> HIDE DEF flag
  <2>5. /\ profile' \in [Profiles -> ProfileRow]
        /\ profile'[next].state = first[next].state /\ profile'[next].name = first[next].name
        /\ profile'[next].logo = first[next].logo /\ profile'[next].isDefault = flag
        /\ \A q \in Profiles \ {next} : profile'[q] = first[q]
    BY <1>3, <2>1, <2>2, <2>4 DEF ProfileRow
  <2>6. \A q \in Profiles \ {p, next} : profile'[q] = profile[q]
    BY <2>1, <2>5
  <2>7. profile'[p] = first[p]
    BY <1>3, <2>5
  <2> QED
    BY <2>1, <2>5, <2>6, <2>7, <2>a DEF flag
<1>5. PICK d0 \in Profiles : \A q \in Profiles : IsDefault(q) <=> q = d0
  BY DEF RowsInv, RowsSound
<1>6. PICK d \in Profiles : d = IF profile[p].isDefault THEN next ELSE d0
  BY <1>3
<1>7. \A q \in Profiles : IsDefault(q)' <=> q = d
  <2>1. CASE profile[p].isDefault
    <3>1. p = d0
      BY <1>1, <1>5, <2>1 DEF IsDefault
    <3>2. \A q \in Profiles \ {p, next} : ~IsDefault(q)'
      BY <1>4, <1>5, <3>1 DEF IsDefault, Present
    <3>3. ~IsDefault(p)'
      BY <1>4 DEF IsDefault
    <3>4. IsDefault(next)'
      BY <1>3, <1>4, <2>1 DEF IsDefault, Present
    <3> QED
      BY <1>6, <2>1, <3>2, <3>3, <3>4
  <2>2. CASE ~profile[p].isDefault
    <3>1. p # d0 /\ d = d0
      BY <1>5, <1>6, <2>2 DEF IsDefault
    <3>2. \A q \in Profiles \ {p} : IsDefault(q)' <=> IsDefault(q)
      BY <1>4, <2>2 DEF IsDefault, Present, RowsInv, RowsTyped, ProfileRow
    <3>3. ~IsDefault(p)'
      BY <1>4 DEF IsDefault
    <3> QED
      BY <1>5, <3>1, <3>2, <3>3
  <2> QED
    BY <2>1, <2>2
<1>8. \A q \in Profiles \ {p} : profile'[q].logo = profile[q].logo /\ profile'[q].state = profile[q].state
  BY <1>4
<1>9. \A q \in Profiles : ~Present(q)' => profile'[q].logo = 0
  BY <1>4, <1>8 DEF Present, RowsInv, RowsSound
<1>10. ASSUME ~profile[p].isDefault
       PROVE  IsDefault(d) /\ profile'[d].name = profile[d].name
  <2>1. d = d0 /\ d # p
    BY <1>5, <1>6, <1>10 DEF IsDefault
  <2> QED
    BY <1>4, <1>5, <2>1
<1>11. syncs = IF profile[p].isDefault THEN <<Sync(d)>> ELSE <<>>
  BY <1>3, <1>6
<1>12. CASE profile[p].logo = 0
  <2>1. unlinks = <<>>
    <3>1. {Unlink(key) : key \in LogoKeys(p)} = {}
      BY <1>12 DEF LogoKeys
    <3> QED
      BY <3>1, SequenceOfSet
  <2> HIDE DEF unlinks
  <2>2. CASE profile[p].isDefault
    <3>1. steps = (<<>> \o <<Sync(d)>>) \o <<Invalidate>>
      BY <1>11, <2>1, <2>2
    <3>2. steps = <<Sync(d), Invalidate>>
      <4>1. <<>> \o <<Sync(d)>> = <<Sync(d)>>
        BY EmptyFirst
      <4>2. <<Sync(d)>> \o <<Invalidate>> = <<Sync(d), Invalidate>>
        BY JoinTwo
      <4> QED
        BY <3>1, <4>1, <4>2
    <3> HIDE DEF steps
    <3>3. WriteBegun /\ calls' = calls + 1 /\ todo' = steps
      BY <1>1, <3>2, ShortSequences, WriteBegins
    <3>4. \A q \in Profiles : profile'[q].logo = profile[q].logo
      BY <1>4, <1>8, <1>12
    <3>5. todo = <<>> /\ UNCHANGED harmed
      BY <3>3 DEF WriteBegun
    <3> QED
      BY <1>1, <1>4, <1>7, <1>9, <3>2, <3>3, <3>4, <3>5, WriteProfiles
  <2>3. CASE ~profile[p].isDefault
    <3>1. steps = (<<>> \o <<>>) \o <<Invalidate>>
      BY <1>11, <2>1, <2>3
    <3>2. steps = <<Invalidate>>
      <4>1. <<>> \o <<>> = <<>> /\ <<>> \o <<Invalidate>> = <<Invalidate>>
        BY EmptyFirst
      <4> QED
        BY <3>1, <4>1
    <3> HIDE DEF steps
    <3>3. WriteBegun /\ calls' = calls + 1 /\ todo' = steps
      BY <1>1, <3>2, ShortSequences, WriteBegins
    <3>4. \A q \in Profiles : profile'[q].logo = profile[q].logo
      BY <1>4, <1>8, <1>12
    <3>5. todo = <<>> /\ UNCHANGED harmed
      BY <3>3 DEF WriteBegun
    <3> QED
      BY <1>1, <1>4, <1>7, <1>9, <1>10, <2>3, <3>2, <3>3, <3>4, <3>5, WriteProfiles
  <2> QED
    BY <2>2, <2>3
<1>13. CASE profile[p].logo # 0
  <2> DEFINE k == ProfileKey(p, profile[p].logo)
  <2>1. /\ k \in LogoKey /\ k.of = "profile" /\ k.id = p /\ k.path = profile[p].logo
        /\ profile[p].logo \in Nat
    <3>1. RowsTyped /\ p \in Profiles
      BY DEF RowsInv
    <3>2. /\ profile[p].logo \in Nat
          /\ \A n \in Nat :
               /\ ProfileKey(p, n) \in LogoKey /\ ProfileKey(p, n).path = n
               /\ ProfileKey(p, n).of = "profile" /\ ProfileKey(p, n).id = p
      BY ONLY <3>1, KeysTyped
    <3> QED
      BY <3>2
  <2>2. LogoKeys(p) = {k} /\ k \in Listed
    BY <1>13, <2>1 DEF LogoKeys, Listed, RowPath
  <2> HIDE DEF k
  <2>3. unlinks = <<Unlink(k)>>
    <3>1. {Unlink(key) : key \in LogoKeys(p)} = {Unlink(k)}
      BY <2>2
    <3> QED
      BY <3>1, SequenceOfSet
  <2> HIDE DEF unlinks
  <2>4. steps = IF profile[p].isDefault THEN <<Unlink(k), Sync(d), Invalidate>>
                                        ELSE <<Unlink(k), Invalidate>>
    <3>1. <<Unlink(k)>> \o <<Sync(d)>> = <<Unlink(k), Sync(d)>>
      BY JoinTwo
    <3>2. <<Unlink(k), Sync(d)>> \o <<Invalidate>> = <<Unlink(k), Sync(d), Invalidate>>
      BY JoinThree
    <3>3. <<Unlink(k)>> \o <<>> = <<Unlink(k)>>
      BY EmptyFirst
    <3>4. <<Unlink(k)>> \o <<Invalidate>> = <<Unlink(k), Invalidate>>
      BY JoinTwo
    <3> QED
      BY <1>11, <2>3, <3>1, <3>2, <3>3, <3>4
  <2>5. steps # <<>>
    BY <2>4, ShortSequences
  <2> HIDE DEF steps
  <2>6. WriteBegun /\ calls' = calls + 1 /\ todo' = steps
    BY <1>1, <2>5, WriteBegins
  <2>7. Alike(object, Listed, harmed) /\ Agree /\ UNCHANGED harmed
    BY <2>6, AtRest DEF WriteBegun
  <2>8. RowsTyped'
    BY <1>1, <1>4, <2>6 DEF RowsInv, RowsTyped
  <2>9. Listed' = Listed \ {k}
    <3>1. \A j \in LogoKey : ~SameRow(j, k) => RowPath(j)' = RowPath(j)
      BY <1>1, <1>8, <2>1 DEF RowPath, SameRow, LogoKey
    <3>2. \A j \in LogoKey : SameRow(j, k) => RowPath(j)' = 0
      BY <1>4, <2>1 DEF RowPath, SameRow
    <3>3. Listed' = Elsewhere(k)
      BY <3>1, <3>2 DEF Listed, Elsewhere, LogoKey
    <3>4. Elsewhere(k) = Listed \ {k}
      BY <2>1, <2>2, ListedOnce
    <3> QED
      BY <3>3, <3>4
  <2>10. RowsSound'
    <3>1. \A key \in Listed : key.path <= calls'
      <4>1. \A key \in Listed : key.path <= calls /\ key.path \in Nat
        BY DEF RowsInv, RowsSound, Listed, LogoKey
      <4> QED
        BY <2>6, <4>1 DEF RowsInv, RowsTyped
    <3> QED
      BY <1>7, <1>9, <2>9, <3>1 DEF RowsSound
  <2>11. Alike(object', Listed' \cup {k}, harmed') /\ k \in LogoKey \ Listed' /\ k.path <= calls'
    <3>1. Listed' \cup {k} = Listed
      BY <2>2, <2>9
    <3>2. k.path <= calls /\ k.path \in Nat /\ calls \in Nat
      BY <2>1, <2>2 DEF RowsInv, RowsSound, RowsTyped
    <3>3. UNCHANGED <<object, harmed>>
      BY <1>1, <2>7
    <3>4. Alike(object', Listed' \cup {k}, harmed')
      BY ONLY <2>7, <3>1, <3>3 DEF Alike
    <3>5. k \in LogoKey \ Listed'
      BY <2>1, <2>9
    <3>6. k.path <= calls'
      BY <2>6, <3>2
    <3> QED
      BY <3>4, <3>5, <3>6
  <2>a. HarmSound'
    BY <1>1, <2>6, <2>7, <2>9, HarmKept DEF RowsInv, RowsTyped
  <2>12. CASE profile[p].isDefault
    <3>1. Removing'
      BY <1>7, <2>4, <2>6, <2>11, <2>12 DEF Removing
    <3> QED
      BY <2>6, <2>8, <2>10, <2>a, <3>1 DEF RowsInv, StoreInv
  <2>13. CASE ~profile[p].isDefault
    <3>1. settings.apart \/ settings.name = profile[d].name
      BY <1>10, <2>7, <2>13 DEF Agree
    <3>2. Agree'
      BY <1>1, <1>7, <1>10, <2>13, <3>1 DEF Agree
    <3>3. Removing'
      BY <2>4, <2>6, <2>11, <2>13, <3>2 DEF Removing
    <3> QED
      BY <2>6, <2>8, <2>10, <2>a, <3>3 DEF RowsInv, StoreInv
  <2> QED
    BY <2>12, <2>13
<1> QED
  BY <1>12, <1>13

\* A write that leaves the rows for later.
LEMMA RowsWait ==
  ASSUME RowsInv, todo = <<>>, calls' = calls + 1, UNCHANGED <<settings, profile, slot>>
  PROVE  /\ RowsTyped' /\ RowsSound' /\ Listed' = Listed /\ Agree'
         /\ \A key \in LogoKey : RowPath(key)' = RowPath(key)
<1>1. Agree
  BY AtRest
<1>2. Listed' = Listed /\ \A key \in LogoKey : RowPath(key)' = RowPath(key)
  BY ListedSame
<1>3. \A key \in Listed : key.path <= calls'
  <2>1. \A key \in Listed : key.path <= calls /\ key.path \in Nat
    BY DEF RowsInv, RowsSound, Listed, LogoKey
  <2> QED
    BY <2>1 DEF RowsInv, RowsTyped
<1>4. RowsTyped' /\ Agree'
  BY <1>1 DEF RowsInv, RowsTyped, Agree, IsDefault, Present
<1>5. RowsSound'
  BY <1>2, <1>3 DEF RowsInv, RowsSound, IsDefault, Present
<1> QED
  BY <1>2, <1>4, <1>5

LEMMA UpdateSettingsKeeps ==
  ASSUME RowsInv, NEW n \in Name, UpdateSettings(n)
  PROVE  RowsInv' /\ WriteBegun
<1>1. <<Invalidate>> # <<>>
  BY ShortSequences
<1>2. WriteBegun /\ calls' = calls + 1 /\ todo' = <<Invalidate>>
  BY <1>1, WriteBegins DEF UpdateSettings
<1>3. settings' = [name |-> n, apart |-> TRUE] /\ UNCHANGED <<profile, slot, object>>
  BY DEF UpdateSettings
<1>4. Alike(object, Listed, harmed) /\ UNCHANGED harmed
  BY <1>2, AtRest DEF WriteBegun
<1>5. Listed' = Listed
  BY <1>3, ListedSame
<1>a. HarmSound'
  BY <1>2, <1>3, <1>4, <1>5, HarmKept DEF RowsInv, RowsTyped
<1>6. RowsTyped'
  BY <1>2, <1>3 DEF RowsInv, RowsTyped
<1>7. \A key \in Listed : key.path <= calls'
  <2>1. \A key \in Listed : key.path <= calls /\ key.path \in Nat
    BY DEF RowsInv, RowsSound, Listed, LogoKey
  <2> QED
    BY <1>2, <2>1 DEF RowsInv, RowsTyped
<1>8. RowsSound'
  BY <1>3, <1>5, <1>7 DEF RowsInv, RowsSound, IsDefault, Present
<1>9. Agree'
  BY <1>3 DEF Agree
<1>10. Closing'
  BY <1>2, <1>3, <1>4, <1>5, <1>9 DEF Closing
<1> QED
  BY <1>2, <1>6, <1>8, <1>10, <1>a DEF RowsInv, StoreInv

\* A logo is uploaded for a row that has one, or has none.
LEMMA UpsertKeeps ==
  ASSUME RowsInv, NEW n \in LogoKey, n.path = NewPath, RowThere(n), NEW old,
         \/ old = {} /\ RowPath(n) = 0
         \/ \E o \in Listed : old = {o} /\ SameRow(o, n),
         UpsertLogo(old, n)
  PROVE  RowsInv' /\ WriteBegun
<1> DEFINE steps == <<Put(n)>> \o SetToSeq({Unlink(key) : key \in old})
                      \o <<Point(n), Invalidate>>
<1>1. BeginWrite(steps) /\ UNCHANGED <<settings, profile, slot, object>>
  BY DEF UpsertLogo
<1>2. ASSUME steps # <<>>
      PROVE  /\ WriteBegun /\ calls' = calls + 1 /\ todo' = steps /\ todo = <<>>
             /\ RowsTyped' /\ RowsSound' /\ Listed' = Listed /\ Agree'
             /\ \A key \in LogoKey : RowPath(key)' = RowPath(key)
             /\ Alike(object', Listed', harmed') /\ HarmSound'
             /\ 0 < n.path /\ n.path <= calls' /\ RowThere(n)' /\ n \notin harmed'
  <2> HIDE DEF steps
  <2>1. WriteBegun /\ calls' = calls + 1 /\ todo' = steps /\ todo = <<>>
    BY <1>1, <1>2, WriteBegins DEF WriteBegun
  <2>2. Alike(object, Listed, harmed) /\ UNCHANGED harmed
    BY <2>1, AtRest DEF WriteBegun
  <2>3. /\ RowsTyped' /\ RowsSound' /\ Listed' = Listed /\ Agree'
        /\ \A key \in LogoKey : RowPath(key)' = RowPath(key)
    BY <1>1, <2>1, RowsWait
  <2>4. 0 < n.path /\ n.path <= calls'
    BY <2>1 DEF NewPath, RowsInv, RowsTyped
  <2>5. RowThere(n)'
    BY <1>1 DEF RowThere, Present
  <2>6. HarmSound'
    BY <1>1, <2>1, <2>2, <2>3, HarmKept DEF RowsInv, RowsTyped
  <2>7. n \notin harmed
    <3>1. \A key \in harmed : key.path <= calls /\ key.path \in Nat
      BY DEF RowsInv, HarmSound, LogoKey
    <3> QED
      BY <3>1 DEF NewPath, RowsInv, RowsTyped
  <2> QED
    BY <1>1, <2>1, <2>2, <2>3, <2>4, <2>5, <2>6, <2>7
<1>3. CASE old = {} /\ RowPath(n) = 0
  <2>1. steps = <<Put(n), Point(n), Invalidate>>
    <3>1. {Unlink(key) : key \in old} = {}
      BY <1>3
    <3>2. SetToSeq({Unlink(key) : key \in old}) = <<>>
      BY <3>1, SequenceOfSet
    <3>3. <<Put(n)>> \o <<>> = <<Put(n)>>
      BY EmptyFirst
    <3>4. <<Put(n)>> \o <<Point(n), Invalidate>> = <<Put(n), Point(n), Invalidate>>
      BY JoinThree
    <3> QED
      BY <3>2, <3>3, <3>4
  <2> HIDE DEF steps
  <2>2. steps # <<>>
    BY <2>1, ShortSequences
  <2>3. Uploading'
    BY <1>2, <1>3, <2>1, <2>2 DEF Uploading
  <2> QED
    BY <1>2, <2>2, <2>3 DEF RowsInv, StoreInv
<1>4. ASSUME NEW o \in Listed, old = {o}, SameRow(o, n) PROVE RowsInv' /\ WriteBegun
  <2>1. steps = <<Put(n), Unlink(o), Point(n), Invalidate>>
    <3>1. {Unlink(key) : key \in old} = {Unlink(o)}
      BY <1>4
    <3>2. SetToSeq({Unlink(key) : key \in old}) = <<Unlink(o)>>
      BY <3>1, SequenceOfSet
    <3>3. <<Put(n)>> \o <<Unlink(o)>> = <<Put(n), Unlink(o)>>
      BY JoinTwo
    <3>4. <<Put(n), Unlink(o)>> \o <<Point(n), Invalidate>>
            = <<Put(n), Unlink(o), Point(n), Invalidate>>
      BY JoinFour
    <3> QED
      BY <3>2, <3>3, <3>4
  <2> HIDE DEF steps
  <2>2. steps # <<>>
    BY <2>1, ShortSequences
  <2>3. o # n
    <3>1. o.path <= calls /\ o.path \in Nat /\ calls \in Nat
      BY DEF RowsInv, RowsSound, RowsTyped, Listed, LogoKey
    <3> QED
      BY <3>1 DEF NewPath
  <2>4. SameRow(o, n)' /\ o \in Listed'
    BY <1>2, <1>4, <2>2 DEF SameRow
  <2>5. Uploading'
    BY <1>2, <2>1, <2>2, <2>3, <2>4 DEF Uploading
  <2> QED
    BY <1>2, <2>2, <2>5 DEF RowsInv, StoreInv
<1> QED
  BY <1>3, <1>4

LEMMA EraseKeeps ==
  ASSUME RowsInv, NEW o \in Listed, DeleteLogo(o)
  PROVE  RowsInv' /\ WriteBegun
<1> DEFINE steps == <<Unlink(o), Unpoint(o), Invalidate>>
<1>1. BeginWrite(steps) /\ UNCHANGED <<settings, profile, slot, object>>
  BY DEF DeleteLogo
<1>2. steps # <<>>
  BY ShortSequences
<1>3. WriteBegun /\ calls' = calls + 1 /\ todo' = steps /\ todo = <<>>
  BY <1>1, <1>2, WriteBegins DEF WriteBegun
<1>4. Alike(object, Listed, harmed) /\ UNCHANGED harmed
  BY <1>3, AtRest DEF WriteBegun
<1>5. RowsTyped' /\ RowsSound' /\ Listed' = Listed /\ Agree'
  BY <1>1, <1>3, RowsWait
<1>6. Erasing'
  BY <1>1, <1>3, <1>4, <1>5 DEF Erasing
<1>7. HarmSound'
  BY <1>1, <1>3, <1>4, <1>5, HarmKept DEF RowsInv, RowsTyped
<1> QED
  BY <1>3, <1>5, <1>6, <1>7 DEF RowsInv, StoreInv

LEMMA WriteKeeps ==
  ASSUME RowsInv, Write
  PROVE  RowsInv' /\ WriteBegun
<1>0. RowsTyped /\ NewPath \in Nat
  BY DEF RowsInv, RowsTyped, NewPath
<1>1. ASSUME NEW p \in Profiles, UpsertProfileLogo(p) PROVE RowsInv' /\ WriteBegun
  <2> DEFINE n == ProfileKey(p, NewPath)
             o == ProfileKey(p, profile[p].logo)
  <2>1. Present(p) /\ UpsertLogo(LogoKeys(p), n)
    BY <1>1 DEF UpsertProfileLogo
  <2>2. n \in LogoKey /\ n.path = NewPath /\ n.of = "profile" /\ n.id = p
    BY <1>0, KeysTyped
  <2>3. /\ o \in LogoKey /\ o.path = profile[p].logo /\ o.of = "profile" /\ o.id = p
        /\ profile[p].logo \in Nat
    BY <1>0, KeysTyped
  <2>4. LogoKeys(p) = IF profile[p].logo > 0 THEN {o} ELSE {}
    BY DEF LogoKeys
  <2> HIDE DEF n, o
  <2>5. RowThere(n) /\ RowPath(n) = profile[p].logo /\ RowPath(o) = profile[p].logo /\ SameRow(o, n)
    BY <2>1, <2>2, <2>3 DEF RowThere, RowPath, SameRow
  <2>6. \/ LogoKeys(p) = {} /\ RowPath(n) = 0
        \/ \E j \in Listed : LogoKeys(p) = {j} /\ SameRow(j, n)
    BY <2>3, <2>4, <2>5 DEF Listed
  <2> QED
    BY <2>1, <2>2, <2>5, <2>6, UpsertKeeps
<1>2. ASSUME NEW k \in Kind, UpsertSlotLogo(k) PROVE RowsInv' /\ WriteBegun
  <2> DEFINE n == SlotKey(k, NewPath)
             o == SlotKey(k, slot[k])
  <2>1. UpsertLogo(SlotKeys(k), n)
    BY <1>2 DEF UpsertSlotLogo
  <2>2. n \in LogoKey /\ n.path = NewPath /\ n.of = "slot" /\ n.id = k
    BY <1>0, KeysTyped
  <2>3. o \in LogoKey /\ o.path = slot[k] /\ o.of = "slot" /\ o.id = k /\ slot[k] \in Nat
    BY <1>0, KeysTyped
  <2>4. SlotKeys(k) = IF slot[k] > 0 THEN {o} ELSE {}
    BY DEF SlotKeys
  <2> HIDE DEF n, o
  <2>5. RowThere(n) /\ RowPath(n) = slot[k] /\ RowPath(o) = slot[k] /\ SameRow(o, n)
    BY <2>1, <2>2, <2>3 DEF RowThere, RowPath, SameRow
  <2>6. \/ SlotKeys(k) = {} /\ RowPath(n) = 0
        \/ \E j \in Listed : SlotKeys(k) = {j} /\ SameRow(j, n)
    BY <2>3, <2>4, <2>5 DEF Listed
  <2> QED
    BY <2>1, <2>2, <2>5, <2>6, UpsertKeeps
<1>3. ASSUME NEW p \in Profiles, DeleteProfileLogo(p) PROVE RowsInv' /\ WriteBegun
  <2> DEFINE o == ProfileKey(p, profile[p].logo)
  <2>1. profile[p].logo > 0 /\ DeleteLogo(o)
    BY <1>3 DEF DeleteProfileLogo
  <2>2. o \in Listed
    BY <1>0, <2>1, KeysTyped DEF Listed, RowPath
  <2> QED
    BY <2>1, <2>2, EraseKeeps
<1>4. ASSUME NEW k \in Kind, DeleteSlotLogo(k) PROVE RowsInv' /\ WriteBegun
  <2> DEFINE o == SlotKey(k, slot[k])
  <2>1. slot[k] > 0 /\ DeleteLogo(o)
    BY <1>4 DEF DeleteSlotLogo
  <2>2. o \in Listed
    BY <1>0, <2>1, KeysTyped DEF Listed, RowPath
  <2> QED
    BY <2>1, <2>2, EraseKeeps
<1> QED
  BY <1>1, <1>2, <1>3, <1>4, UpdateSettingsKeeps, CreateKeeps, UpdateKeeps, SetDefaultKeeps,
     DeleteKeeps DEF Write

-----------------------------------------------------------------------------
(* Readers, the cache and the previews                                     *)

At == {"idle", "logos", "profiles", "fill", "answered"}

IsResponse(x) ==
  /\ x = [at |-> x.at, quiet |-> x.quiet, name |-> x.name, logos |-> x.logos,
          rows |-> x.rows]
  /\ x.quiet \in BOOLEAN

ReadersTyped ==
  /\ reader = [r \in Reader |-> reader[r]]
  /\ \A r \in Reader : IsResponse(reader[r]) /\ reader[r].at \in At
  /\ cache # None => IsResponse(cache)

\* What a response holds when it has been read as far as "at".
ReadSoFar(x, at) ==
  /\ x.name = settings.name
  /\ at # "logos" => x.logos = Shown(slot)
  /\ at \in {"fill", "answered"} => x.rows = profile

\* A reader that no write disturbed has read what the rows still say.
ReaderFresh ==
  \A r \in Reader : reader[r].quiet /\ reader[r].at # "idle" =>
    todo = <<>> /\ ReadSoFar(reader[r], reader[r].at)

\* The cached response too, unless a write has still to empty the cache.
CacheFresh == cache # None /\ cache.quiet /\ todo = <<>> => ReadSoFar(cache, "answered")

ReadInv == ReadersTyped /\ ReaderFresh /\ CacheFresh

SettingsInv == OneDefaultByScope /\ RowsInv /\ ReadInv

LEMMA ResponseAt ==
  ASSUME NEW x, IsResponse(x), NEW at
  PROVE  /\ [x EXCEPT !.at = at] = [at |-> at, quiet |-> x.quiet, name |-> x.name,
                                    logos |-> x.logos, rows |-> x.rows]
         /\ \A v : [x EXCEPT !.at = at, !.quiet = v] =
              [at |-> at, quiet |-> v, name |-> x.name, logos |-> x.logos, rows |-> x.rows]
         /\ \A v : [x EXCEPT !.at = at, !.logos = v] =
              [at |-> at, quiet |-> x.quiet, name |-> x.name, logos |-> v, rows |-> x.rows]
         /\ \A v : [x EXCEPT !.at = at, !.rows = v] =
              [at |-> at, quiet |-> x.quiet, name |-> x.name, logos |-> x.logos, rows |-> v]
         /\ \A v : [x EXCEPT !.quiet = v] =
              [at |-> x.at, quiet |-> v, name |-> x.name, logos |-> x.logos, rows |-> x.rows]
<1> DEFINE a == x.at
           q == x.quiet
           n == x.name
           l == x.logos
           w == x.rows
<1>1. x = [at |-> a, quiet |-> q, name |-> n, logos |-> l, rows |-> w]
  BY DEF IsResponse
<1> HIDE DEF a, q, n, l, w
<1>2. [x EXCEPT !.at = at] = [at |-> at, quiet |-> q, name |-> n, logos |-> l, rows |-> w]
  BY <1>1
<1>3. ASSUME NEW v
      PROVE  [x EXCEPT !.at = at, !.quiet = v] =
               [at |-> at, quiet |-> v, name |-> n, logos |-> l, rows |-> w]
  <2>1. [[at |-> at, quiet |-> q, name |-> n, logos |-> l, rows |-> w] EXCEPT !.quiet = v] =
          [at |-> at, quiet |-> v, name |-> n, logos |-> l, rows |-> w]
    OBVIOUS
  <2> QED
    BY <1>2, <2>1, Zenon
<1>4. ASSUME NEW v
      PROVE  [x EXCEPT !.at = at, !.logos = v] =
               [at |-> at, quiet |-> q, name |-> n, logos |-> v, rows |-> w]
  <2>1. [[at |-> at, quiet |-> q, name |-> n, logos |-> l, rows |-> w] EXCEPT !.logos = v] =
          [at |-> at, quiet |-> q, name |-> n, logos |-> v, rows |-> w]
    OBVIOUS
  <2> QED
    BY <1>2, <2>1, Zenon
<1>5. ASSUME NEW v
      PROVE  [x EXCEPT !.at = at, !.rows = v] =
               [at |-> at, quiet |-> q, name |-> n, logos |-> l, rows |-> v]
  <2>1. [[at |-> at, quiet |-> q, name |-> n, logos |-> l, rows |-> w] EXCEPT !.rows = v] =
          [at |-> at, quiet |-> q, name |-> n, logos |-> l, rows |-> v]
    OBVIOUS
  <2> QED
    BY <1>2, <2>1, Zenon
<1>6. ASSUME NEW v
      PROVE  [x EXCEPT !.quiet = v] =
               [at |-> a, quiet |-> v, name |-> n, logos |-> l, rows |-> w]
  BY <1>1
<1> USE DEF a, q, n, l, w
<1> QED
  BY <1>2, <1>3, <1>4, <1>5, <1>6, Zenon

LEMMA IdleResponse ==
  /\ IsResponse(NotReading) /\ NotReading.at = "idle"
  /\ \A v, n : [NotReading EXCEPT !.at = "logos", !.quiet = v, !.name = n] =
       [at |-> "logos", quiet |-> v, name |-> n, logos |-> None, rows |-> None]
<1>1. IsResponse(NotReading) /\ NotReading.at = "idle"
  BY DEF IsResponse, NotReading
<1>2. ASSUME NEW v, NEW n
      PROVE  [NotReading EXCEPT !.at = "logos", !.quiet = v, !.name = n] =
               [at |-> "logos", quiet |-> v, name |-> n, logos |-> None, rows |-> None]
  <2>1. [NotReading EXCEPT !.at = "logos"] =
          [at |-> "logos", quiet |-> TRUE, name |-> None, logos |-> None, rows |-> None]
    <3>1. PICK t : t = TRUE
      OBVIOUS
    <3>2. NotReading = [at |-> "idle", quiet |-> t, name |-> None, logos |-> None, rows |-> None]
      BY <3>1 DEF NotReading
    <3>3. [[at |-> "idle", quiet |-> t, name |-> None, logos |-> None, rows |-> None]
             EXCEPT !.at = "logos"] =
            [at |-> "logos", quiet |-> t, name |-> None, logos |-> None, rows |-> None]
      OBVIOUS
    <3> QED
      BY <3>1, <3>2, <3>3, Zenon
  <2>2. [[at |-> "logos", quiet |-> TRUE, name |-> None, logos |-> None, rows |-> None]
           EXCEPT !.quiet = v] =
          [at |-> "logos", quiet |-> v, name |-> None, logos |-> None, rows |-> None]
    OBVIOUS
  <2>3. [[at |-> "logos", quiet |-> v, name |-> None, logos |-> None, rows |-> None]
           EXCEPT !.name = n] =
          [at |-> "logos", quiet |-> v, name |-> n, logos |-> None, rows |-> None]
    OBVIOUS
  <2> QED
    BY <2>1, <2>2, <2>3, Zenon
<1> QED
  BY <1>1, <1>2, Zenon

\* One reader moves and nothing else does, but perhaps the cache.
LEMMA ReaderMoves ==
  ASSUME ReadInv, NEW r \in Reader, NEW x, reader' = [reader EXCEPT ![r] = x],
         UNCHANGED <<settings, profile, slot, todo>>,
         IsResponse(x), x.at \in At,
         x.quiet /\ x.at # "idle" => todo = <<>> /\ ReadSoFar(x, x.at)
  PROVE  /\ reader' = [q \in Reader |-> reader'[q]]
         /\ \A q \in Reader : IsResponse(reader'[q]) /\ reader'[q].at \in At
         /\ ReaderFresh'
<1>1. /\ reader' = [q \in Reader |-> reader'[q]] /\ reader'[r] = x
      /\ \A q \in Reader \ {r} : reader'[q] = reader[q]
  BY DEF ReadInv, ReadersTyped
<1>2. \A q \in Reader : IsResponse(reader'[q]) /\ reader'[q].at \in At
  BY <1>1 DEF ReadInv, ReadersTyped
<1>3. ReaderFresh'
  <2> SUFFICES ASSUME NEW q \in Reader, reader'[q].quiet, reader'[q].at # "idle"
               PROVE  todo = <<>> /\ ReadSoFar(reader'[q], reader'[q].at)
    BY DEF ReaderFresh, ReadSoFar, Shown
  <2>1. CASE q = r
    BY <1>1, <2>1
  <2>2. CASE q # r
    BY <1>1, <2>2 DEF ReadInv, ReaderFresh
  <2> QED
    BY <2>1, <2>2
<1> QED
  BY <1>1, <1>2, <1>3

LEMMA BeginReadKeeps ==
  ASSUME ReadInv, NEW r \in Reader, BeginRead(r)
  PROVE  ReadInv'
<1> DEFINE idle == todo = <<>>
<1>1. UNCHANGED <<settings, profile, slot, todo, cache, harmed>>
  BY DEF BeginRead, ReadersUnchanged
<1>2. CASE cache # None
  <2> DEFINE x == [cache EXCEPT !.at = "answered", !.quiet = cache.quiet /\ idle]
  <2>1. reader' = [reader EXCEPT ![r] = x]
    BY <1>2 DEF BeginRead
  <2>2. IsResponse(cache) /\ cache.quiet \in BOOLEAN
    BY <1>2 DEF ReadInv, ReadersTyped, IsResponse
  <2>3. x = [at |-> "answered", quiet |-> cache.quiet /\ idle, name |-> cache.name,
             logos |-> cache.logos, rows |-> cache.rows]
    <3>1. [cache EXCEPT !.at = "answered"] =
            [at |-> "answered", quiet |-> cache.quiet, name |-> cache.name,
             logos |-> cache.logos, rows |-> cache.rows]
      BY <2>2, ResponseAt
    <3> DEFINE q == cache.quiet
               n == cache.name
               l == cache.logos
               w == cache.rows
    <3>2. PICK v : v = (cache.quiet /\ idle)
      OBVIOUS
    <3> HIDE DEF q, n, l, w
    <3>3. [[at |-> "answered", quiet |-> q, name |-> n, logos |-> l, rows |-> w]
             EXCEPT !.quiet = v] =
            [at |-> "answered", quiet |-> v, name |-> n, logos |-> l, rows |-> w]
      OBVIOUS
    <3> USE DEF q, n, l, w
    <3> QED
      BY <3>1, <3>2, <3>3, Zenon
  <2> HIDE DEF x
  <2>4. IsResponse(x) /\ x.at = "answered" /\ x.quiet = (cache.quiet /\ idle)
        /\ x.name = cache.name /\ x.logos = cache.logos /\ x.rows = cache.rows
    BY <2>2, <2>3 DEF IsResponse
  <2>5. x.quiet => todo = <<>> /\ ReadSoFar(x, "answered")
    BY <1>2, <2>4 DEF ReadInv, CacheFresh, ReadSoFar
  <2>6. /\ reader' = [q \in Reader |-> reader'[q]]
        /\ \A q \in Reader : IsResponse(reader'[q]) /\ reader'[q].at \in At
        /\ ReaderFresh'
    BY <1>1, <2>1, <2>4, <2>5, ReaderMoves DEF At
  <2> QED
    BY <1>1, <2>6 DEF ReadInv, ReadersTyped, CacheFresh, ReadSoFar, Shown
<1>3. CASE cache = None
  <2> DEFINE x == [NotReading EXCEPT !.at = "logos", !.quiet = idle, !.name = settings.name]
  <2>1. reader' = [reader EXCEPT ![r] = x]
    BY <1>3 DEF BeginRead
  <2>2. x = [at |-> "logos", quiet |-> idle, name |-> settings.name,
             logos |-> None, rows |-> None]
    BY IdleResponse
  <2> HIDE DEF x
  <2>3. IsResponse(x) /\ x.at = "logos" /\ x.quiet = idle /\ x.name = settings.name
    BY <2>2 DEF IsResponse
  <2>4. x.quiet => todo = <<>> /\ ReadSoFar(x, "logos")
    BY <2>3 DEF ReadSoFar
  <2>5. /\ reader' = [q \in Reader |-> reader'[q]]
        /\ \A q \in Reader : IsResponse(reader'[q]) /\ reader'[q].at \in At
        /\ ReaderFresh'
    BY <1>1, <2>1, <2>3, <2>4, ReaderMoves DEF At
  <2> QED
    BY <1>1, <2>5 DEF ReadInv, ReadersTyped, CacheFresh, ReadSoFar, Shown
<1> QED
  BY <1>2, <1>3

LEMMA ReadLogosKeeps ==
  ASSUME ReadInv, NEW r \in Reader, ReadLogos(r)
  PROVE  ReadInv'
<1> DEFINE old == reader[r]
           x == [old EXCEPT !.at = "profiles", !.logos = Shown(slot)]
<1>1. UNCHANGED <<settings, profile, slot, todo, cache, harmed>> /\ old.at = "logos"
  BY DEF ReadLogos, ReadersUnchanged
<1>2. reader' = [reader EXCEPT ![r] = x]
  BY DEF ReadLogos, ReadInv, ReadersTyped
<1>3. IsResponse(old) /\ old.quiet \in BOOLEAN
  BY DEF ReadInv, ReadersTyped, IsResponse
<1>4. x = [at |-> "profiles", quiet |-> old.quiet, name |-> old.name, logos |-> Shown(slot),
           rows |-> old.rows]
  BY <1>3, ResponseAt
<1>5. old.quiet => todo = <<>> /\ ReadSoFar(old, "logos")
  BY <1>1 DEF ReadInv, ReaderFresh
<1> HIDE DEF x, old
<1>6. /\ IsResponse(x) /\ x.at = "profiles" /\ x.quiet = old.quiet /\ x.name = old.name
      /\ x.logos = Shown(slot)
  BY <1>3, <1>4 DEF IsResponse
<1>7. x.quiet => todo = <<>> /\ ReadSoFar(x, "profiles")
  BY <1>5, <1>6 DEF ReadSoFar
<1>8. /\ reader' = [q \in Reader |-> reader'[q]]
      /\ \A q \in Reader : IsResponse(reader'[q]) /\ reader'[q].at \in At
      /\ ReaderFresh'
  BY <1>1, <1>2, <1>6, <1>7, ReaderMoves DEF At
<1> QED
  BY <1>1, <1>8 DEF ReadInv, ReadersTyped, CacheFresh, ReadSoFar, Shown

LEMMA ListProfilesKeeps ==
  ASSUME ReadInv, NEW r \in Reader, ListProfiles(r)
  PROVE  ReadInv'
<1> DEFINE old == reader[r]
           x == [old EXCEPT !.at = "fill", !.rows = profile]
<1>1. UNCHANGED <<settings, profile, slot, todo, cache, harmed>> /\ old.at = "profiles"
  BY DEF ListProfiles, ReadersUnchanged
<1>2. reader' = [reader EXCEPT ![r] = x]
  BY DEF ListProfiles, ReadInv, ReadersTyped
<1>3. IsResponse(old) /\ old.quiet \in BOOLEAN
  BY DEF ReadInv, ReadersTyped, IsResponse
<1>4. x = [at |-> "fill", quiet |-> old.quiet, name |-> old.name, logos |-> old.logos,
           rows |-> profile]
  BY <1>3, ResponseAt
<1>5. old.quiet => todo = <<>> /\ ReadSoFar(old, "profiles")
  BY <1>1 DEF ReadInv, ReaderFresh
<1> HIDE DEF x, old
<1>6. /\ IsResponse(x) /\ x.at = "fill" /\ x.quiet = old.quiet /\ x.name = old.name
      /\ x.logos = old.logos /\ x.rows = profile
  BY <1>3, <1>4 DEF IsResponse
<1>7. x.quiet => todo = <<>> /\ ReadSoFar(x, "fill")
  BY <1>5, <1>6 DEF ReadSoFar
<1>8. /\ reader' = [q \in Reader |-> reader'[q]]
      /\ \A q \in Reader : IsResponse(reader'[q]) /\ reader'[q].at \in At
      /\ ReaderFresh'
  BY <1>1, <1>2, <1>6, <1>7, ReaderMoves DEF At
<1> QED
  BY <1>1, <1>8 DEF ReadInv, ReadersTyped, CacheFresh, ReadSoFar, Shown

LEMMA FillCacheKeeps ==
  ASSUME ReadInv, NEW r \in Reader, FillCache(r)
  PROVE  ReadInv'
<1> DEFINE old == reader[r]
           x == [old EXCEPT !.at = "answered"]
           y == [old EXCEPT !.at = "idle"]
<1>1. UNCHANGED <<settings, profile, slot, todo, harmed>> /\ old.at = "fill" /\ cache' = y
  BY DEF FillCache, ReadersUnchanged
<1>2. reader' = [reader EXCEPT ![r] = x]
  BY DEF FillCache, ReadInv, ReadersTyped
<1>3. IsResponse(old) /\ old.quiet \in BOOLEAN
  BY DEF ReadInv, ReadersTyped, IsResponse
<1>4. /\ x = [at |-> "answered", quiet |-> old.quiet, name |-> old.name, logos |-> old.logos,
              rows |-> old.rows]
      /\ y = [at |-> "idle", quiet |-> old.quiet, name |-> old.name, logos |-> old.logos,
              rows |-> old.rows]
  BY <1>3, ResponseAt
<1>5. old.quiet => todo = <<>> /\ ReadSoFar(old, "fill")
  BY <1>1 DEF ReadInv, ReaderFresh
<1> HIDE DEF x, y, old
<1>6. /\ IsResponse(x) /\ x.at = "answered" /\ x.quiet = old.quiet /\ x.name = old.name
      /\ x.logos = old.logos /\ x.rows = old.rows
  BY <1>3, <1>4 DEF IsResponse
<1>7. /\ IsResponse(y) /\ y.quiet = old.quiet /\ y.name = old.name
      /\ y.logos = old.logos /\ y.rows = old.rows
  BY <1>3, <1>4 DEF IsResponse
<1>8. x.quiet => todo = <<>> /\ ReadSoFar(x, "answered")
  BY <1>5, <1>6 DEF ReadSoFar
<1>9. y.quiet => ReadSoFar(y, "answered")
  BY <1>5, <1>7 DEF ReadSoFar
<1>10. /\ reader' = [q \in Reader |-> reader'[q]]
       /\ \A q \in Reader : IsResponse(reader'[q]) /\ reader'[q].at \in At
       /\ ReaderFresh'
  BY <1>1, <1>2, <1>6, <1>8, ReaderMoves DEF At
<1>11. CacheFresh'
  BY <1>1, <1>9 DEF ReadInv, CacheFresh, ReadSoFar, Shown
<1> QED
  BY <1>1, <1>7, <1>10, <1>11 DEF ReadInv, ReadersTyped

\* A reader that ends leaves the cache.
LEMMA ReaderEnds ==
  ASSUME ReadInv, NEW r \in Reader, reader' = [reader EXCEPT ![r] = NotReading],
         UNCHANGED <<settings, profile, slot, todo, cache>>
  PROVE  ReadInv'
<1>1. /\ reader' = [q \in Reader |-> reader'[q]]
      /\ \A q \in Reader : IsResponse(reader'[q]) /\ reader'[q].at \in At
      /\ ReaderFresh'
  BY IdleResponse, ReaderMoves DEF At
<1> QED
  BY <1>1 DEF ReadInv, ReadersTyped, CacheFresh, ReadSoFar, Shown

LEMMA ReadKeeps ==
  ASSUME RowsInv, ReadInv, NEW r \in Reader, Read(r)
  PROVE  ReadInv'
<1>1. CASE Answer(r)
  <2>1. /\ reader' = [reader EXCEPT ![r] = NotReading]
        /\ UNCHANGED <<settings, profile, slot, todo, cache, harmed>>
    BY <1>1 DEF Answer, ReadersUnchanged
  <2> QED
    BY <2>1, ReaderEnds
<1> QED
  BY <1>1, BeginReadKeeps, ReadLogosKeeps, ListProfilesKeeps, FillCacheKeeps
  DEF Read

\* A write disturbs every reader.
LEMMA WriteDisturbs ==
  ASSUME ReadInv, WriteBegun
  PROVE  ReadInv'
<1>1. /\ reader' = [r \in Reader |-> [reader[r] EXCEPT !.quiet = FALSE]]
      /\ todo' # <<>> /\ cache' = cache
  BY DEF WriteBegun
<1>2. ASSUME NEW r \in Reader
      PROVE  /\ IsResponse(reader'[r]) /\ reader'[r].at = reader[r].at
             /\ ~reader'[r].quiet
  <2> DEFINE x == reader[r]
  <2>1. reader'[r] = [x EXCEPT !.quiet = FALSE]
    BY <1>1
  <2>2. IsResponse(x)
    BY DEF ReadInv, ReadersTyped
  <2>3. reader'[r] = [at |-> x.at, quiet |-> FALSE, name |-> x.name, logos |-> x.logos,
                      rows |-> x.rows]
    BY <2>1, <2>2, ResponseAt
  <2> QED
    BY <2>3 DEF IsResponse
<1>3. reader' = [r \in Reader |-> reader'[r]]
  BY <1>1
<1>4. ReadersTyped'
  BY <1>1, <1>2, <1>3 DEF ReadInv, ReadersTyped
<1>5. ReaderFresh'
  BY <1>2 DEF ReaderFresh
<1>6. CacheFresh'
  BY <1>1 DEF CacheFresh
<1> QED
  BY <1>4, <1>5, <1>6 DEF ReadInv

\* A later step of a write finds no undisturbed reader, and the last one no cache.
LEMMA LaterDisturbs ==
  ASSUME ReadInv, LaterDone
  PROVE  ReadInv'
<1>1. /\ todo # <<>> /\ (todo' = <<>> => cache' = None)
      /\ cache' = None \/ cache' = cache
      /\ UNCHANGED <<reader, harmed>>
  BY DEF LaterDone
<1>2. ReadersTyped'
  BY <1>1 DEF ReadInv, ReadersTyped
<1>3. ReaderFresh'
  BY <1>1 DEF ReadInv, ReaderFresh
<1>4. CacheFresh'
  BY <1>1 DEF ReadInv, CacheFresh
<1> QED
  BY <1>2, <1>3, <1>4 DEF ReadInv

\* A write that fails leaves a cached response no longer undisturbed.
LEMMA FailDisturbs ==
  ASSUME ReadInv, FailDone
  PROVE  ReadInv'
<1>1. /\ todo # <<>> /\ todo' = <<>> /\ reader' = reader
      /\ cache' = IF cache = None THEN None ELSE [cache EXCEPT !.quiet = FALSE]
  BY DEF FailDone
<1>2. cache' # None => IsResponse(cache') /\ ~cache'.quiet
  <2>1. CASE cache = None
    BY <1>1, <2>1
  <2>2. CASE cache # None
    <3>1. IsResponse(cache)
      BY <2>2 DEF ReadInv, ReadersTyped
    <3>2. cache' = [at |-> cache.at, quiet |-> FALSE, name |-> cache.name,
                    logos |-> cache.logos, rows |-> cache.rows]
      BY <1>1, <2>2, <3>1, ResponseAt
    <3> QED
      BY <3>2 DEF IsResponse
  <2> QED
    BY <2>1, <2>2
<1>3. ReadersTyped'
  BY <1>1, <1>2 DEF ReadInv, ReadersTyped
<1>4. ReaderFresh'
  BY <1>1 DEF ReadInv, ReaderFresh
<1>5. CacheFresh'
  BY <1>2 DEF CacheFresh
<1> QED
  BY <1>3, <1>4, <1>5 DEF ReadInv

-----------------------------------------------------------------------------
(* The invariant, and what it says                                         *)

settingsAll == <<templateVars, settingsVars>>

LEMMA RowsUntouched ==
  ASSUME RowsInv, UNCHANGED <<calls, settings, profile, slot, object, harmed, todo>>
  PROVE  RowsInv'
<1>1. /\ RowsTyped' /\ RowsSound' /\ Listed' = Listed
      /\ \A p \in Profiles : IsDefault(p)' = IsDefault(p)
      /\ \A key \in LogoKey : /\ RowPath(key)' = RowPath(key)
                              /\ Elsewhere(key)' = Elsewhere(key)
                              /\ RowThere(key)' = RowThere(key)
      /\ Agree => Agree'
  BY RowsKept DEF RowsInv, RowsTyped
<1>2. Closing => Closing'
  BY <1>1 DEF Closing
<1>3. Removing => Removing'
  BY <1>1 DEF Removing
<1>4. Uploading => Uploading'
  <2>1. \A o, n : SameRow(o, n)' = SameRow(o, n)
    BY DEF SameRow
  <2> QED
    BY <1>1, <2>1 DEF Uploading
<1>5. Erasing => Erasing'
  BY <1>1 DEF Erasing
<1>6. HarmSound'
  BY <1>1, HarmKept DEF RowsInv, RowsTyped
<1> QED
  BY <1>1, <1>2, <1>3, <1>4, <1>5, <1>6 DEF RowsInv, StoreInv

LEMMA RowsLater ==
  ASSUME RowsInv, todo = <<>>, calls' = calls + 1,
         UNCHANGED <<settings, profile, slot, object, harmed, todo>>
  PROVE  RowsInv'
<1>1. RowsTyped' /\ RowsSound' /\ Listed' = Listed /\ Agree'
  BY RowsWait
<1>2. Alike(object, Listed, harmed)
  BY AtRest
<1>3. Closing'
  BY <1>1, <1>2 DEF Closing
<1>4. HarmSound'
  BY <1>1, HarmKept DEF RowsInv, RowsTyped
<1> QED
  BY <1>1, <1>3, <1>4 DEF RowsInv, StoreInv

LEMMA SettingsInvInit == SettingsInit => SettingsInv
<1> SUFFICES ASSUME SettingsInit PROVE SettingsInv
  OBVIOUS
<1>1. PICK n \in Name :
        /\ settings = [name |-> n, apart |-> FALSE]
        /\ profile = [p \in Profiles |->
              [state |-> IF p = 1 THEN "present" ELSE "none", name |-> n,
               isDefault |-> p = 1, logo |-> 0]]
  BY DEF SettingsInit
<1>2. /\ calls = 0 /\ slot = [k \in Kind |-> 0] /\ object = {} /\ todo = <<>>
      /\ cache = None /\ reader = [r \in Reader |-> NotReading] /\ harmed = {}
      /\ template = [t \in Template |-> NoTemplate]
  BY DEF SettingsInit, TemplatesInit
<1>3. 1 \in Profiles
  BY SettingsAssumption DEF Profiles
<1>4. OneDefaultByScope
  BY <1>2 DEF OneDefaultByScope, NoTemplate, TemplateRow, Scope
<1>5. RowsTyped
  BY <1>1, <1>2 DEF RowsTyped, ProfileRow
<1>6. Listed = {}
  BY <1>1, <1>2 DEF Listed, RowPath, LogoKey
<1>7. \A q \in Profiles : IsDefault(q) <=> q = 1
  BY <1>1 DEF IsDefault, Present
<1>8. RowsSound
  BY <1>1, <1>3, <1>6, <1>7 DEF RowsSound
<1>9. Closing /\ HarmSound
  BY <1>1, <1>2, <1>6 DEF Closing, Agree, Alike, HarmSound
<1>10. ReadersTyped
  BY <1>2, IdleResponse DEF ReadersTyped, At
<1>11. ReaderFresh /\ CacheFresh
  BY <1>2, IdleResponse DEF ReaderFresh, CacheFresh
<1> QED
  BY <1>4, <1>5, <1>8, <1>9, <1>10, <1>11 DEF SettingsInv, RowsInv, StoreInv, ReadInv

LEMMA SettingsInvStep == SettingsInv /\ [SettingsNext]_settingsAll => SettingsInv'
<1> SUFFICES ASSUME SettingsInv, [SettingsNext]_settingsAll PROVE SettingsInv'
  OBVIOUS
<1> USE DEF SettingsInv
<1>1. CASE Write
  <2>1. RowsInv' /\ WriteBegun
    BY <1>1, WriteKeeps
  <2>2. OneDefaultByScope'
    BY <2>1 DEF WriteBegun, OneDefaultByScope
  <2> QED
    BY <2>1, <2>2, WriteDisturbs
<1>2. CASE LaterStep
  <2>1. LaterDone
    BY <1>2, LaterKeeps
  <2>2. OneDefaultByScope' /\ RowsInv'
    BY <2>1 DEF LaterDone, OneDefaultByScope
  <2> QED
    BY <2>1, <2>2, LaterDisturbs
<1>3. CASE ExpireCache
  <2>1. /\ cache' = None
        /\ UNCHANGED <<template, calls, settings, profile, slot, object, harmed, todo, reader>>
    BY <1>3 DEF ExpireCache, ReadersUnchanged, templateVars
  <2>2. OneDefaultByScope' /\ RowsInv'
    BY <2>1, RowsUntouched DEF OneDefaultByScope
  <2>3. ReadInv'
    BY <2>1 DEF ReadInv, ReadersTyped, ReaderFresh, CacheFresh, ReadSoFar, Shown
  <2> QED
    BY <2>2, <2>3
<1>4. ASSUME NEW r \in Reader, Read(r) PROVE SettingsInv'
  <2>1. UNCHANGED <<template, calls, settings, profile, slot, object, harmed, todo>>
    BY <1>4 DEF Read, BeginRead, ReadLogos, ListProfiles, FillCache, Answer,
       ReadersUnchanged, templateVars
  <2>2. OneDefaultByScope' /\ RowsInv'
    BY <2>1, RowsUntouched DEF OneDefaultByScope
  <2> QED
    BY <1>4, <2>2, ReadKeeps
<1>5. CASE TemplateNext /\ todo = <<>> /\ UNCHANGED settingsVars
  <2>1. /\ todo = <<>>
        /\ UNCHANGED <<settings, profile, slot, object, todo, cache, reader, harmed>>
    BY <1>5 DEF settingsVars
  <2>2. calls' = calls + 1
    BY <1>5 DEF TemplateNext, CreateTemplate, UpdateTemplate, SetDefaultTemplate,
       RemoveTemplate, CountCall
  <2>3. RowsInv'
    BY <2>1, <2>2, RowsLater
  <2>4. ReadInv'
    BY <2>1 DEF ReadInv, ReadersTyped, ReaderFresh, CacheFresh, ReadSoFar, Shown
  <2> QED
    BY <1>5, <2>3, <2>4, TemplateStep
<1>6. CASE UNCHANGED settingsAll
  <2>1. UNCHANGED <<template, calls, settings, profile, slot, object, todo, cache, reader,
                    harmed>>
    BY <1>6 DEF settingsAll, settingsVars, templateVars
  <2>2. OneDefaultByScope' /\ RowsInv'
    BY <2>1, RowsUntouched DEF OneDefaultByScope
  <2>3. ReadInv'
    BY <2>1 DEF ReadInv, ReadersTyped, ReaderFresh, CacheFresh, ReadSoFar, Shown
  <2> QED
    BY <2>2, <2>3
<1>7. CASE FailStep
  <2>1. FailDone
    BY <1>7, FailKeeps
  <2>2. OneDefaultByScope' /\ RowsInv'
    BY <2>1 DEF FailDone, OneDefaultByScope
  <2> QED
    BY <2>1, <2>2, FailDisturbs
<1> QED
  BY <1>1, <1>2, <1>3, <1>4, <1>5, <1>6, <1>7 DEF SettingsNext

LEMMA SettingsInvAlways == SettingsSpec => []SettingsInv
  BY SettingsInvInit, SettingsInvStep, PTL DEF SettingsSpec, settingsAll

\* The rows, the templates and the readers keep the shape the services rely on.
THEOREM SettingsAreTyped == SettingsSpec => []SettingsTypeOK
<1>1. SettingsInv => SettingsTypeOK
  BY DEF SettingsInv, OneDefaultByScope, RowsInv, RowsTyped, ReadInv, ReadersTyped, At,
     SettingsTypeOK
<1> QED
  BY <1>1, SettingsInvAlways, PTL

\* Whatever scopes templates are moved through, a document has one layout.
THEOREM LayoutIsDetermined == SettingsSpec => []OneLayout
<1>1. SettingsInv => OneLayout
  BY OneDefaultMeansOneLayout DEF SettingsInv
<1> QED
  BY <1>1, SettingsInvAlways, PTL

\* One profile is the default at any time, and between two writes the settings carry
\* its name, unless they were edited by themselves since or a write failed before
\* the copy, whichever profiles were created, edited, chosen or deleted.
THEOREM DefaultProfileIsMirrored == SettingsSpec => []DefaultIsMirrored
<1>1. SettingsInv => DefaultIsMirrored
  <2> SUFFICES ASSUME RowsInv
               PROVE  \E p \in Profiles :
                        /\ {q \in Profiles : Present(q) /\ profile[q].isDefault} = {p}
                        /\ todo = <<>> => settings.apart \/ settings.name = profile[p].name
    BY DEF SettingsInv, DefaultIsMirrored
  <2>1. PICK d \in Profiles : \A q \in Profiles : IsDefault(q) <=> q = d
    BY DEF RowsInv, RowsSound
  <2>2. todo = <<>> => settings.apart \/ settings.name = profile[d].name
    BY <2>1, AtRest DEF Agree
  <2>3. {q \in Profiles : Present(q) /\ profile[q].isDefault} = {d}
    BY <2>1 DEF IsDefault
  <2> QED
    BY <2>2, <2>3
<1> QED
  BY <1>1, SettingsInvAlways, PTL

\* Between two writes the stored logos are those the rows point to, but for the
\* logo each failed write was about, and only a replacement or a deletion of that
\* logo can lose it.
THEOREM NoOtherLogoIsHarmed == SettingsSpec => []LogosMatchObjects
<1>1. SettingsInv => LogosMatchObjects
  <2> SUFFICES ASSUME RowsInv, todo = <<>>
               PROVE  RowKeys \ object \subseteq harmed /\ object \ RowKeys \subseteq harmed
    BY DEF SettingsInv, LogosMatchObjects
  <2>1. Alike(object, Listed, harmed) /\ Listed = RowKeys
    BY AtRest, ListedIs DEF RowsInv
  <2> QED
    BY <2>1 DEF Alike
<1> QED
  BY <1>1, SettingsInvAlways, PTL

\* A cached response built undisturbed says what the rows say, until a write that
\* will empty the cache, or fails to.
THEOREM CachedResponseIsCurrent == SettingsSpec => []CacheIsFresh
<1>1. SettingsInv => CacheIsFresh
  <2> SUFFICES ASSUME RowsInv, ReadInv, cache # None, cache.quiet, todo = <<>>
               PROVE  Current(cache)
    BY DEF SettingsInv, CacheIsFresh
  <2>1. /\ cache.name = settings.name /\ cache.logos = Shown(slot) /\ cache.rows = profile
    BY DEF ReadInv, CacheFresh, ReadSoFar
  <2>2. Alike(object, Listed, harmed) /\ HarmSound
    BY AtRest DEF RowsInv
  <2>3. \A k \in Kind : slot[k] > 0 =>
          /\ SlotKey(k, slot[k]) # None
          /\ SlotKey(k, slot[k]) \in object <=> SlotKey(k, slot[k]) \notin harmed
    <3> TAKE k \in Kind
    <3>1. SlotKey(k, slot[k]) \in [of : {"slot"}, id : Kind, path : Nat]
      BY DEF SlotKey, RowsInv, RowsTyped
    <3>2. slot[k] > 0 => SlotKey(k, slot[k]) \in Listed
      BY KeysTyped DEF RowsInv, Listed, RowPath
    <3> QED
      BY <2>2, <3>1, <3>2, SettingsAssumption DEF Alike, HarmSound
  <2>4. Primary \in Kind
    BY SettingsAssumption
  <2>5. ASSUME NEW k \in Kind PROVE ResolveLogo(k) = {Shown(slot)[k]} \ ({None} \cup harmed)
    <3> DEFINE own == SlotKey(k, slot[k])
               prim == SlotKey(Primary, slot[Primary])
    <3>1. Shown(slot)[k] = IF slot[k] > 0 THEN own ELSE IF slot[Primary] > 0 THEN prim ELSE None
      BY DEF Shown
    <3>2. ResolveLogo(k) = IF slot[k] > 0 THEN {own} \cap object
                           ELSE IF slot[Primary] > 0 THEN {prim} \cap object ELSE {}
      BY DEF ResolveLogo, ReadLogo
    <3>3. /\ slot[k] > 0 => own # None /\ (own \in object <=> own \notin harmed)
          /\ slot[Primary] > 0 => prim # None /\ (prim \in object <=> prim \notin harmed)
      BY <2>3, <2>4
    <3> HIDE DEF own, prim
    <3> QED
      BY <3>1, <3>2, <3>3
  <2> QED
    BY <2>1, <2>5 DEF Current
<1> QED
  BY <1>1, SettingsInvAlways, PTL
===============================================================================
