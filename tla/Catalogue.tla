------------------------------- MODULE Catalogue -------------------------------
(***************************************************************************)
(* Categories, products and the catalogues shared with clients.            *)
(*                                                                         *)
(* A product belongs to the company or is the model of one client; its     *)
(* reference is the prefix of its category and a number, typed by hand or  *)
(* drawn from the counter of the category.  A catalogue shows products of  *)
(* the company to whoever holds its token, a limited number of times.      *)
(***************************************************************************)
EXTENDS Integers, FiniteSets

CONSTANTS
    Product, Category, Share,   \* identities of rows, never reused
    Client,
    Company,                    \* the owner of what is not a client's model
    Prefix,
    MaxNumber,                  \* largest number of refSequenceLength digits
    MaxTries,                   \* 50 in the code
    Limit,                      \* the view limits people give
    NoLimit,
    Call,                       \* slots in which HTTP calls follow one another
    NoCall,
    MaxCalls,                   \* bound: calls of a behaviour
    None

ASSUME CatalogueAssumption ==
    /\ Company \notin Client
    /\ NoCall \notin Call
    /\ None \notin Product \cup Category \cup Share \cup Client \cup {Company}
    /\ MaxNumber \in Nat \ {0} /\ MaxTries \in Nat /\ MaxCalls \in Nat
    /\ Limit \subseteq Nat \ {0}
    /\ NoLimit \notin Limit

VARIABLES
    category,   \* rows: state, prefix, next number
    locked,     \* the call whose transaction has updated a category's counter
    product,    \* rows: state, category, reference, owner
    share,      \* rows: state, products, limit, views; unseen are the products another
                \* call has put in since a call began to replace them all
    call,       \* what each call in progress remembers
    begun,      \* calls begun, bounded by MaxCalls
    typed,      \* history: references entered by hand
    drawn,      \* history: references drawn and committed, by category
    peak        \* history: the largest limit each share has had

catalogueVars == <<category, locked, product, share, call, begun, typed, drawn, peak>>

Owner == Client \cup {Company}
NoRef == [prefix |-> None, number |-> 0]
Ref == [prefix : Prefix, number : 1 .. MaxNumber]

CategoryRow == [state : {"present", "gone"}, prefix : Prefix, next : Nat]
ProductRow == [state : {"none", "present", "gone"}, category : Category \cup {None},
               ref : Ref \cup {NoRef}, owner : Owner \cup {None}]
ShareRow == [state : {"none", "ACTIVE", "CLOSED", "gone"}, products : SUBSET Product,
             limit : Limit \cup {NoLimit}, views : Nat,
             unseen : SUBSET (Call \X Product)]

Memory == [pc : {"idle", "draw", "probe", "insert", "edit", "share", "fill", "drop", "view"},
           category : Category \cup {None}, ref : Ref \cup {NoRef},
           tries : Nat, product : Product \cup {None}, owner : Owner \cup {None},
           share : Share \cup {None}, products : SUBSET Product]

Idle == [pc |-> "idle", category |-> None, ref |-> NoRef, tries |-> 0,
         product |-> None, owner |-> None, share |-> None, products |-> {}]

Blank(state) == [state |-> state, category |-> None, ref |-> NoRef, owner |-> None]
NoShare(state) ==
    [state |-> state, products |-> {}, limit |-> NoLimit, views |-> 0, unseen |-> {}]

Present(p) == product[p].state = "present"
Shown(s) == share[s].state \in {"ACTIVE", "CLOSED"}

\* Categories without a code whose names begin alike, and one product entered by hand.
CatalogueInit ==
    /\ \E x \in Prefix :
          category = [k \in Category |-> [state |-> "present", prefix |-> x, next |-> 1]]
    /\ locked = [k \in Category |-> NoCall]
    /\ \E p \in Product, k \in Category, n \in 1 .. MaxNumber :
          LET ref == [prefix |-> category[k].prefix, number |-> n] IN
          /\ product = [q \in Product |->
                IF q = p THEN [state |-> "present", category |-> k, ref |-> ref, owner |-> Company]
                ELSE Blank("none")]
          /\ typed = {ref}
    /\ \E s \in Share, l \in Limit \cup {NoLimit} :
          /\ share = [t \in Share |->
                IF t = s THEN [NoShare("ACTIVE") EXCEPT !.limit = l] ELSE NoShare("none")]
          /\ peak = [t \in Share |-> IF t # s THEN 0 ELSE IF l = NoLimit THEN MaxCalls ELSE l]
    /\ call = [c \in Call |-> Idle]
    /\ begun = 0
    /\ drawn = {}

\* A call begins, among those the bound allows.
Begin(c, m) ==
    /\ call[c].pc = "idle"
    /\ begun < MaxCalls
    /\ begun' = begun + 1
    /\ call' = [call EXCEPT ![c] = m]

Become(c, m) == call' = [call EXCEPT ![c] = m] /\ UNCHANGED begun

Release(c) == locked' = [k \in Category |-> IF locked[k] = c THEN NoCall ELSE locked[k]]

End(c) == Become(c, Idle) /\ Release(c)

\* A statement that is a call by itself.
Single == begun < MaxCalls /\ begun' = begun + 1 /\ UNCHANGED call

-----------------------------------------------------------------------------
(* Products *)

RefIsFree(p, ref) == \A q \in Product \ {p} : product[q].ref # ref

\* The transaction reads the category, and takes the typed number or draws one.
BeginCreate(c, k, n, owner) ==
    /\ category[k].state = "present"
    /\ LET ref == [prefix |-> category[k].prefix, number |-> IF n = 0 THEN 1 ELSE n] IN
          /\ Begin(c, [Idle EXCEPT !.pc = IF n = 0 THEN "draw" ELSE "insert",
                                   !.category = k, !.ref = ref, !.owner = owner])
          /\ typed' = IF n = 0 THEN typed ELSE typed \cup {ref}
    /\ UNCHANGED <<category, locked, product, share, drawn, peak>>

\* The number drawn: the counter's, or the next one of the same transaction.
Number(c, k) == IF locked[k] = c THEN call[c].ref.number + 1 ELSE category[k].next

\* Mutant: the counter is read, not locked.
AnyLock(c, k) == TRUE

MayLock(c, k) == locked[k] \in {NoCall, c}

\* The increment locks the row of the category until the transaction ends.
Draw(c) ==
    LET k == call[c].category IN
    /\ call[c].pc = "draw"
    /\ category[k].state = "present"
    /\ MayLock(c, k)
    /\ call[c].tries < MaxTries
    /\ Number(c, k) <= MaxNumber
    /\ locked' = [locked EXCEPT ![k] = c]
    /\ Become(c, [call[c] EXCEPT !.pc = "probe", !.ref.number = Number(c, k), !.tries = @ + 1])
    /\ UNCHANGED <<category, product, share, typed, drawn, peak>>

CandidateIsFree(c) == RefIsFree(None, call[c].ref)

Probe(c) ==
    /\ call[c].pc = "probe"
    /\ Become(c, [call[c] EXCEPT !.pc = IF CandidateIsFree(c) THEN "insert" ELSE "draw"])
    /\ UNCHANGED <<category, locked, product, share, typed, drawn, peak>>

\* Mutant: the increments of the transaction are lost.
CounterKept(c, k) == category[k].next

CounterAfter(c, k) == IF locked[k] = c THEN call[c].ref.number + 1 ELSE category[k].next

\* The insertion and the commit; the unique index has the last word.
Insert(c, p) ==
    LET m == call[c] k == call[c].category IN
    /\ m.pc = "insert"
    /\ product[p].state = "none"
    /\ category[k].state = "present"
    /\ RefIsFree(p, m.ref)
    /\ product' = [product EXCEPT ![p] =
          [state |-> "present", category |-> k, ref |-> m.ref, owner |-> m.owner]]
    /\ category' = [category EXCEPT ![k].next = CounterAfter(c, k)]
    /\ drawn' = IF locked[k] = c THEN drawn \cup {<<k, m.ref>>} ELSE drawn
    /\ End(c)
    /\ UNCHANGED <<share, typed, peak>>

HasPrefixOf(ref, k) == ref.prefix = category[k].prefix

InShare(p) == \E s \in Share : Shown(s) /\ p \in share[s].products

\* PATCH: the reads of its transaction.  The reference, given or kept, must have
\* the prefix of the category, given or kept; a product of the company that is in
\* a catalogue does not become a client's.
ReadEdit(c, p, k, ref, owner) ==
    /\ Present(p)
    /\ category[k].state = "present"
    /\ HasPrefixOf(IF ref = NoRef THEN product[p].ref ELSE ref, k)
    /\ product[p].owner = Company /\ owner \in Client => ~InShare(p)
    /\ Begin(c, [Idle EXCEPT !.pc = "edit", !.product = p, !.category = k,
                             !.ref = ref, !.owner = owner])
    /\ typed' = IF ref = NoRef THEN typed ELSE typed \cup {ref}
    /\ UNCHANGED <<category, locked, product, share, drawn, peak>>

WriteEdit(c) ==
    LET m == call[c] IN
    /\ m.pc = "edit"
    /\ Present(m.product)
    /\ category[m.category].state = "present"
    /\ m.ref # NoRef => RefIsFree(m.product, m.ref)
    /\ product' = [product EXCEPT
          ![m.product].category = m.category,
          ![m.product].ref = IF m.ref = NoRef THEN @ ELSE m.ref,
          ![m.product].owner = IF m.owner = None THEN @ ELSE m.owner]
    /\ End(c)
    /\ UNCHANGED <<category, share, typed, drawn, peak>>

\* DELETE: the catalogues that show a product hold it.
RemoveProduct(p) ==
    /\ Present(p)
    /\ ~InShare(p)
    /\ product' = [product EXCEPT ![p] = Blank("gone")]
    /\ Single
    /\ UNCHANGED <<category, locked, share, typed, drawn, peak>>

\* A new code changes the prefix of references to come, and of none there are.
EditCategory(k, prefix) ==
    /\ category[k].state = "present"
    /\ locked[k] = NoCall
    /\ category' = [category EXCEPT ![k].prefix = prefix]
    /\ Single
    /\ UNCHANGED <<locked, product, share, typed, drawn, peak>>

RemoveCategory(k) ==
    /\ category[k].state = "present"
    /\ locked[k] = NoCall
    /\ \A p \in Product : product[p].category # k
    /\ category' = [category EXCEPT ![k].state = "gone"]
    /\ Single
    /\ UNCHANGED <<locked, product, share, typed, drawn, peak>>

-----------------------------------------------------------------------------
(* Shared catalogues *)

CompanyOwned(ps) == \A p \in ps : Present(p) /\ product[p].owner = Company

Peak(s, l) == peak' = [peak EXCEPT ![s] =
    LET bound == IF l = NoLimit THEN MaxCalls ELSE l IN IF bound > @ THEN bound ELSE @]

\* create and replaceProducts check the products in an earlier statement.
ReadShare(c, s, ps) ==
    /\ s # None => Shown(s)
    /\ CompanyOwned(ps)
    /\ Begin(c, [Idle EXCEPT !.pc = "share", !.share = s, !.products = ps])
    /\ UNCHANGED <<category, locked, product, share, typed, drawn, peak>>

\* The transaction of replaceProducts deletes the products it sees,
WipeShare(c) ==
    LET m == call[c] IN
    /\ m.pc = "share" /\ m.share # None
    /\ Shown(m.share)
    /\ share' = [share EXCEPT ![m.share].unseen = {x \in @ : x[1] # c}]
    /\ Become(c, [m EXCEPT !.pc = "fill"])
    /\ UNCHANGED <<category, locked, product, typed, drawn, peak>>

\* then inserts its own: nothing locks the catalogue, so what another call has put
\* in between stays; the unique index refuses a product that is already there.
Survivors(c) ==
    LET s == call[c].share IN {p \in share[s].products : <<c, p>> \in share[s].unseen}
Filling(s) == {c \in Call : call[c].pc = "fill" /\ call[c].share = s}

WriteReplacement(c) ==
    LET m == call[c] IN
    /\ m.pc = "fill"
    /\ Shown(m.share)
    /\ \A p \in m.products : Present(p)
    /\ Survivors(c) \cap m.products = {}
    /\ share' = [share EXCEPT
          ![m.share].products = Survivors(c) \cup m.products,
          ![m.share].unseen = @ \cup (Filling(m.share) \X m.products)]
    /\ End(c)
    /\ UNCHANGED <<category, product, typed, drawn, peak>>

WriteShare(c, s, l) ==
    LET m == call[c] IN
    /\ m.pc = "share" /\ m.share = None
    /\ share[s].state = "none"
    /\ \A p \in m.products : Present(p)
    /\ share' = [share EXCEPT ![s] =
          [state |-> "ACTIVE", products |-> m.products, limit |-> l, views |-> 0,
           unseen |-> {}]]
    /\ Peak(s, l)
    /\ End(c)
    /\ UNCHANGED <<category, product, typed, drawn>>

\* PATCH: status (CLOSED stands for revoked and expired, also by its date), limit.
EditShare(s, status, l) ==
    /\ Shown(s)
    /\ share' = [share EXCEPT ![s].state = status, ![s].limit = l]
    /\ Peak(s, l)
    /\ Single
    /\ UNCHANGED <<category, locked, product, typed, drawn>>

RemoveFromShare(s, p) ==
    /\ p \in share[s].products
    /\ share' = [share EXCEPT ![s].products = @ \ {p}]
    /\ Single
    /\ UNCHANGED <<category, locked, product, typed, drawn, peak>>

ReadDrop(c, s) ==
    /\ share[s].state = "CLOSED"
    /\ Begin(c, [Idle EXCEPT !.pc = "drop", !.share = s])
    /\ UNCHANGED <<category, locked, product, share, typed, drawn, peak>>

WriteDrop(c) ==
    /\ call[c].pc = "drop"
    /\ Shown(call[c].share)
    /\ share' = [share EXCEPT ![call[c].share] = NoShare("gone")]
    /\ End(c)
    /\ UNCHANGED <<category, product, typed, drawn, peak>>

\* What the public sees: a client's model is filtered out once more.
PublicProducts(s) == {p \in share[s].products : product[p].owner = Company}

\* Mutant: the limit itself may be passed.
LimitAllowsOneMore(s) == share[s].limit # NoLimit => share[s].views <= share[s].limit

LimitAllows(s) == share[s].limit # NoLimit => share[s].views < share[s].limit

ReadView(c, s) ==
    /\ share[s].state = "ACTIVE"
    /\ LimitAllows(s)
    /\ Begin(c, [Idle EXCEPT !.pc = "view", !.share = s, !.products = PublicProducts(s)])
    /\ UNCHANGED <<category, locked, product, share, typed, drawn, peak>>

CountView(c) ==
    LET s == call[c].share IN
    /\ call[c].pc = "view"
    /\ Shown(s)
    /\ share' = [share EXCEPT ![s].views = @ + 1]
    /\ End(c)
    /\ UNCHANGED <<category, product, typed, drawn, peak>>

\* A refusal by a constraint, the last try, a number too long, a lost connection.
Abort(c) ==
    /\ call[c].pc # "idle"
    /\ End(c)
    /\ UNCHANGED <<category, product, share, typed, drawn, peak>>

ProductStep(c) ==
    \/ /\ call[c].pc = "idle"
       /\ \E k \in Category, owner \in Owner, n \in 0 .. MaxNumber : BeginCreate(c, k, n, owner)
    \/ Draw(c)
    \/ Probe(c)
    \/ \E p \in Product : Insert(c, p)
    \/ /\ call[c].pc = "idle"
       /\ \E p \in Product, k \in Category, ref \in Ref \cup {NoRef}, owner \in Owner \cup {None} :
             ReadEdit(c, p, k, ref, owner)
    \/ WriteEdit(c)

ShareStep(c) ==
    \/ \E s \in Share \cup {None}, ps \in SUBSET Product : ReadShare(c, s, ps)
    \/ WipeShare(c)
    \/ WriteReplacement(c)
    \/ \E s \in Share, l \in Limit \cup {NoLimit} : WriteShare(c, s, l)
    \/ \E s \in Share : ReadDrop(c, s)
    \/ WriteDrop(c)
    \/ \E s \in Share : ReadView(c, s)
    \/ CountView(c)

CatalogueNext ==
    \/ \E c \in Call : ProductStep(c) \/ ShareStep(c) \/ Abort(c)
    \/ \E p \in Product : RemoveProduct(p)
    \/ \E k \in Category : RemoveCategory(k) \/ \E x \in Prefix : EditCategory(k, x)
    \/ \E s \in Share :
          \/ \E status \in {"ACTIVE", "CLOSED"}, l \in Limit \cup {NoLimit} : EditShare(s, status, l)
          \/ \E p \in Product : RemoveFromShare(s, p)

-----------------------------------------------------------------------------
(* Properties *)

\* Rows and memories have their types.
CatalogueTypeOK ==
    /\ category \in [Category -> CategoryRow]
    /\ locked \in [Category -> Call \cup {NoCall}]
    /\ product \in [Product -> ProductRow]
    /\ share \in [Share -> ShareRow]
    /\ call \in [Call -> Memory]
    /\ begun \in 0 .. MaxCalls
    /\ typed \subseteq Ref
    /\ drawn \subseteq Category \X Ref
    /\ peak \in [Share -> Nat]

\* The counter of a category stays ahead of every reference it has given: after
\* collisions, retries and roll-backs alike, no number is drawn again.
CounterPassesDrawn == \A d \in drawn : d[2].number < category[d[1]].next

\* A drawn reference that was found free and is taken at the insertion was typed
\* by hand, or drawn by another category with the same prefix.
DrawnRefIsFree ==
    \A c \in Call, p \in Product :
        LET m == call[c] IN
        m.pc = "insert" /\ locked[m.category] = c /\ product[p].ref = m.ref
            => \/ m.ref \in typed
               \/ \E k \in Category \ {m.category} : <<k, m.ref>> \in drawn

\* The limit of views is checked in one statement and counted in another: it is
\* passed by fewer views than there are calls at a time.
ViewsNearLimit ==
    \A s \in Share : share[s].views + Cardinality({c \in Call : call[c].pc = "view" /\ call[c].share = s})
                        <= peak[s] + Cardinality(Call) - 1

\* The public sees no model of a client, although a product may change hands
\* between the check of a catalogue's products and their insertion.
PublicSeesCompanyProducts ==
    [][\A c \in Call : call[c].pc = "idle" /\ call'[c].pc = "view"
          => \A p \in call'[c].products : product[p].owner = Company]_catalogueVars
===============================================================================
