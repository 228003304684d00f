---------------------------- MODULE DocumentNumbers ----------------------------
(***************************************************************************)
(* The numbers of business documents.  Sales orders (CMD), production      *)
(* orders (OF), deliveries (LIV), purchase orders (ACH) and invoices (one  *)
(* prefix per type) take their levels from one counter, or from the sales  *)
(* order they belong to, or from a number typed by hand.                   *)
(*                                                                         *)
(* A creation is a transaction of up to three round trips: read the order, *)
(* increment the counter (whose row stays locked to the end), insert.      *)
(***************************************************************************)
EXTENDS Integers, FiniteSets

CONSTANTS
    Doc,            \* identities of documents, never reused
    NoDoc,
    Call,           \* slots in which HTTP calls follow one another
    NoCall,
    InvoiceType,    \* prefixes of the invoice types
    Kind,           \* the kinds of documents people create
    Legacy,         \* sales orders older than the shared levels
    MaxLevel,       \* bound: largest level of a behaviour
    ByHand          \* the levels people type

ASSUME NumbersAssumption ==
    /\ Legacy \subseteq Doc
    /\ NoDoc \notin Doc
    /\ NoCall \notin Call
    /\ MaxLevel \in Nat
    /\ ByHand \subseteq 0 .. MaxLevel
    /\ InvoiceType \cap {"CMD", "OF", "LIV", "ACH", "none", "gone"} = {}
    /\ Kind \subseteq {"CMD", "OF", "LIV", "ACH"} \cup InvoiceType

VARIABLES
    row,        \* the committed documents
    next,       \* DocumentSequence.nextValue, 1 while the row is missing
    holder,     \* the call whose transaction has incremented the counter
    call,       \* what each call in progress remembers
    typed,      \* history: levels ever entered by hand
    carried     \* history: levels ever allocated to a committed document

vars == <<row, next, holder, call, typed, carried>>

Level == 0 .. MaxLevel
NoLevel == -1
Prefix == {"CMD", "OF", "LIV", "ACH"} \cup InvoiceType
MayBelong == {"OF", "LIV"} \cup InvoiceType

Row == [kind : Prefix \cup {"none", "gone"},
        prefix : Prefix \cup {"none"},
        number : Level \cup {NoLevel},
        level : Level \cup {NoLevel},
        lines : Level \cup {NoLevel},
        order : Doc \cup {NoDoc}]

Memory == [pc : {"idle", "allocate", "insert", "edit"},
           kind : Prefix,
           doc : Doc \cup {NoDoc},
           order : Doc \cup {NoDoc},
           asked : Level \cup {NoLevel},
           level : Level \cup {NoLevel},
           fresh : BOOLEAN]

Blank(kind) == [kind |-> kind, prefix |-> "none", number |-> NoLevel,
                level |-> NoLevel, lines |-> NoLevel, order |-> NoDoc]

Idle == [pc |-> "idle", kind |-> "CMD", doc |-> NoDoc, order |-> NoDoc,
         asked |-> NoLevel, level |-> NoLevel, fresh |-> FALSE]

Init ==
    /\ row = [d \in Doc |-> IF d \in Legacy THEN Blank("CMD") ELSE Blank("none")]
    /\ next = 1
    /\ holder = NoCall
    /\ call = [c \in Call |-> Idle]
    /\ typed = {}
    /\ carried = {}

Orders == {d \in Doc : row[d].kind = "CMD"}

\* The level a call reads from the sales order of a document.
OrderLevel(o) == IF o \in Orders THEN row[o].level ELSE NoLevel

Typing(l) == typed' = IF l = NoLevel THEN typed ELSE typed \cup {l}

\* Mutant: a number is unique within its order only.
UnusedInOrder(d, prefix, l) ==
    \A e \in Doc \ {d} :
        ~(row[e].prefix = prefix /\ row[e].number = l /\ row[e].order = row[d].order)

\* Unique index of the number's column in the table of the kind.
Unused(d, prefix, l) ==
    \A e \in Doc \ {d} : ~(row[e].prefix = prefix /\ row[e].number = l)

\* SalesOrder also has a unique index on referenceLevel.
LevelUnused(d, l) == \A e \in Orders \ {d} : row[e].level # l

-----------------------------------------------------------------------------
(* Creation *)

\* A typed number must name the level of the order, when the order has one.
Matches(o, asked) ==
    asked = NoLevel \/ OrderLevel(o) = NoLevel \/ asked = OrderLevel(o)

NeedsLevel(o, asked) ==
    IF o # NoDoc THEN OrderLevel(o) = NoLevel ELSE asked = NoLevel

BeginCreate(c, kind, o, asked) ==
    /\ call[c].pc = "idle"
    /\ o # NoDoc => o \in Orders /\ kind \in MayBelong
    /\ kind = "LIV" => o # NoDoc
    /\ Matches(o, asked)
    /\ call' = [call EXCEPT ![c] =
          [pc |-> IF NeedsLevel(o, asked) THEN "allocate" ELSE "insert",
           kind |-> kind, doc |-> NoDoc, order |-> o,
           asked |-> IF NeedsLevel(o, asked) THEN asked ELSE NoLevel,
           level |-> IF o # NoDoc THEN OrderLevel(o) ELSE asked,
           fresh |-> FALSE]]
    /\ Typing(asked)
    /\ UNCHANGED <<row, next, holder, carried>>

\* The increment locks the counter's row until the transaction ends.  A typed
\* number that is not the one allocated to the order is refused here.
Allocate(c) ==
    /\ call[c].pc = "allocate"
    /\ holder = NoCall
    /\ next <= MaxLevel
    /\ call[c].asked \in {NoLevel, next}
    /\ holder' = c
    /\ call' = [call EXCEPT ![c].pc = "insert", ![c].asked = NoLevel,
                                    ![c].level = next, ![c].fresh = TRUE]
    /\ UNCHANGED <<row, next, typed, carried>>

\* Mutant: the counter moves with every commit.
CounterAfterAny(c) == next + 1

\* Mutant: the increment is lost.
CounterKept(c) == IF holder = c THEN next ELSE next

\* The counter moves with the commit of its holder, and not otherwise.
CounterAfter(c) == IF holder = c THEN next + 1 ELSE next

Release(c) == holder' = IF holder = c THEN NoCall ELSE holder

NewRow(m) == [kind |-> m.kind, prefix |-> m.kind, number |-> m.level,
              level |-> m.level,
              lines |-> IF m.kind = "LIV" THEN NoLevel ELSE m.level,
              order |-> m.order]

\* The last statement, and the commit.  An order without a level has received
\* the fresh one in the same transaction.
Insert(c, d) ==
    LET m == call[c] IN
    /\ m.pc = "insert"
    /\ row[d].kind = "none"
    /\ m.order # NoDoc => m.order \in Orders
    /\ Unused(d, m.kind, m.level)
    /\ m.kind = "CMD" => LevelUnused(d, m.level)
    /\ m.fresh /\ m.order # NoDoc => LevelUnused(m.order, m.level)
    /\ row' = [e \in Doc |->
                 IF e = d THEN NewRow(m)
                 ELSE IF m.fresh /\ e = m.order THEN [row[e] EXCEPT !.level = m.level]
                 ELSE row[e]]
    /\ next' = CounterAfter(c)
    /\ carried' = IF m.fresh THEN carried \cup {m.level} ELSE carried
    /\ Release(c)
    /\ call' = [call EXCEPT ![c] = Idle]
    /\ UNCHANGED typed

\* A duplicate number, a row that is gone, a mismatch, a timeout: all undone.
Abort(c) ==
    /\ call[c].pc # "idle"
    /\ Release(c)
    /\ call' = [call EXCEPT ![c] = Idle]
    /\ UNCHANGED <<row, next, typed, carried>>

-----------------------------------------------------------------------------
(* Edits *)

\* PATCH of a sales or purchase order with a number: the row and its lines.
\* The documents that belong to the order keep their numbers.
Renumber(d, l) ==
    /\ row[d].kind \in {"CMD", "ACH"}
    /\ Unused(d, row[d].kind, l)
    /\ row[d].kind = "CMD" => LevelUnused(d, l)
    /\ row' = [row EXCEPT ![d].prefix = row[d].kind, ![d].number = l,
                          ![d].level = l, ![d].lines = l]
    /\ Typing(l)
    /\ UNCHANGED <<next, holder, call, carried>>

\* The level a PATCH will write: the typed one, the one of the invoice when
\* its type is given, or none.
LevelToWrite(d, retyped, asked) ==
    IF asked # NoLevel THEN asked
    ELSE IF retyped THEN row[d].level ELSE NoLevel

\* PATCH of a document that may belong to an order: its first reads.
ReadForEdit(c, d, kind, o, asked, retyped) ==
    /\ call[c].pc = "idle"
    /\ row[d].kind \in MayBelong
    /\ kind = row[d].kind \/ (retyped /\ {kind, row[d].kind} \subseteq InvoiceType)
    /\ retyped => kind \in InvoiceType
    /\ o = row[d].order \/ o \in Orders
    /\ row[d].kind = "LIV" => OrderLevel(o) # NoLevel
    /\ Matches(o, asked)
    /\ call' = [call EXCEPT ![c] =
          [pc |-> "edit", kind |-> kind, doc |-> d, order |-> o, asked |-> NoLevel,
           level |-> LevelToWrite(d, retyped, asked), fresh |-> FALSE]]
    /\ Typing(asked)
    /\ UNCHANGED <<row, next, holder, carried>>

\* Mutant: the lines of an invoice are forgotten.
EditedAlone(r, m) ==
    IF m.level = NoLevel THEN [r EXCEPT !.kind = m.kind, !.order = m.order]
    ELSE [kind |-> m.kind, prefix |-> m.kind, number |-> m.level, level |-> m.level,
          lines |-> r.lines, order |-> m.order]

\* Mutant: an edited number keeps its former level.
EditedNumberOnly(r, m) ==
    IF m.level = NoLevel THEN [r EXCEPT !.kind = m.kind, !.order = m.order]
    ELSE [kind |-> m.kind, prefix |-> m.kind, number |-> m.level, level |-> r.level,
          lines |-> IF m.kind \in InvoiceType THEN m.level ELSE r.lines,
          order |-> m.order]

\* The steps of a production order keep the level they were created with.
Edited(r, m) ==
    IF m.level = NoLevel THEN [r EXCEPT !.kind = m.kind, !.order = m.order]
    ELSE [kind |-> m.kind, prefix |-> m.kind, number |-> m.level, level |-> m.level,
          lines |-> IF m.kind \in InvoiceType THEN m.level ELSE r.lines,
          order |-> m.order]

WriteEdit(c) ==
    LET m == call[c] IN
    /\ m.pc = "edit"
    /\ row[m.doc].kind \in MayBelong
    /\ m.order # NoDoc => m.order \in Orders
    /\ m.level # NoLevel => Unused(m.doc, m.kind, m.level)
    /\ row' = [row EXCEPT ![m.doc] = Edited(@, m)]
    /\ call' = [call EXCEPT ![c] = Idle]
    /\ UNCHANGED <<next, holder, typed, carried>>

\* DELETE, of a document without lines.  Deliveries hold their order; other
\* documents of a removed order lose it.
Remove(d) ==
    /\ row[d].kind \in Prefix \ {"OF"}
    /\ \A e \in Doc : row[e].order = d => row[e].kind # "LIV"
    /\ row' = [e \in Doc |->
                 IF e = d THEN Blank("gone")
                 ELSE IF row[e].order = d THEN [row[e] EXCEPT !.order = NoDoc]
                 ELSE row[e]]
    /\ UNCHANGED <<next, holder, call, typed, carried>>

Next ==
    \/ \E c \in Call :
          \/ /\ call[c].pc = "idle"
             /\ \E kind \in Kind, o \in Orders \cup {NoDoc},
                   asked \in ByHand \cup {NoLevel} : BeginCreate(c, kind, o, asked)
          \/ Allocate(c)
          \/ \E d \in Doc : Insert(c, d)
          \/ /\ call[c].pc = "idle"
             /\ \E d \in {e \in Doc : row[e].kind \in MayBelong}, kind \in Kind,
                   asked \in ByHand \cup {NoLevel}, retyped \in BOOLEAN :
                   \E o \in Orders \cup {row[d].order} :
                      ReadForEdit(c, d, kind, o, asked, retyped)
          \/ WriteEdit(c)
          \/ Abort(c)
    \/ \E d \in Doc : Remove(d) \/ \E l \in ByHand : Renumber(d, l)

Spec == Init /\ [][Next]_vars

-----------------------------------------------------------------------------
(* Properties *)

\* Rows, the counter and the memories of calls have their types.
TypeOK ==
    /\ row \in [Doc -> Row]
    /\ next \in 1 .. MaxLevel + 1
    /\ holder \in Call \cup {NoCall}
    /\ call \in [Call -> Memory]
    /\ typed \subseteq Level
    /\ carried \subseteq Level

\* The counter never runs ahead of the documents: every level it has passed was
\* given to a document that was committed (an aborted creation gives it back).
LevelsWithoutGaps == carried = 1 .. next - 1

\* A level fresh from the counter is shown by no document, unless somebody has
\* typed that level before the counter reached it: only a number entered by hand
\* can make an automatic creation fail on a duplicate.
AutomaticLevelIsFree ==
    \A c \in Call, d \in Doc :
        call[c].fresh /\ call[c].level \in {row[d].level, row[d].number}
            => call[c].level \in typed

\* The lines of a numbered order or invoice carry the level of the number it
\* shows (the level of an old order may be overwritten by a document created for it).
LinesFollowNumber ==
    \A d \in Doc :
        row[d].kind \in {"CMD", "ACH"} \cup InvoiceType /\ row[d].number # NoLevel
            => row[d].lines = row[d].number

\* No two documents show the same number, whatever calls overlap: the numbers
\* implement the abstract register.
Unnumbered == <<"none", NoLevel>>

Register == INSTANCE NumberRegister WITH
    Doc <- Doc,
    Number <- Prefix \X Level,
    Unnumbered <- Unnumbered,
    shown <- [d \in Doc |-> <<row[d].prefix, row[d].number>>]

ImplementsRegister == Register!Spec
===============================================================================
