---------------------------- MODULE TechnicalSheets ----------------------------
(***************************************************************************)
(* The technical sheet of a product (ProductsService.upsertTechnicalSheet):*)
(* a row with a version, and its elements, which every save replaces.  The *)
(* existing sheet is read before the transaction; the transaction writes   *)
(* the row, deletes the elements and creates the new ones, and two saves   *)
(* overlap as they do at READ COMMITTED: the write of the row holds it     *)
(* until the end of the transaction, a deletion sees what is committed.    *)
(***************************************************************************)
EXTENDS FiniteSets, Naturals

CONSTANTS
    Product, Task,
    None

ASSUME SheetsAssumption == None \notin Task

VARIABLES
    sheet,      \* rows: presence, version, the save that wrote it, and the saves
                \* its elements come from
    sheetTask,  \* saves under way
    lock        \* the save that holds the row of a product, or None

sheetVars == <<sheet, sheetTask, lock>>

SheetRow == [present : BOOLEAN, version : Nat, saved : Task \cup {None},
             elements : SUBSET Task]
NoSheet == [present |-> FALSE, version |-> 0, saved |-> None, elements |-> {}]
NewSave == [at |-> "new", product |-> None, version |-> 0, deleted |-> {}]
Ended == [NewSave EXCEPT !.at = "ended"]

SheetsInit ==
    /\ sheet = [p \in Product |-> NoSheet]
    /\ sheetTask = [c \in Task |-> NewSave]
    /\ lock = [p \in Product |-> None]

At(c, at) == sheetTask[c].at = at
ProductOf(c) == sheetTask[c].product

\* The next version is that of the sheet just read; 1 when there is none.
ReadSheet(c, p) ==
    /\ At(c, "new")
    /\ sheetTask' = [sheetTask EXCEPT ![c] =
          [NewSave EXCEPT !.at = "read", !.product = p,
             !.version = IF sheet[p].present THEN sheet[p].version + 1 ELSE 1]]
    /\ UNCHANGED <<sheet, lock>>

\* Mutant: the row is left to the end of the transaction.
SaveSheetLast(c, exists) ==
    /\ At(c, "read")
    /\ sheetTask' = [sheetTask EXCEPT ![c].at = "saved"]
    /\ UNCHANGED <<sheet, lock>>

\* The row is updated, or created when the read found none: either waits for the
\* transaction that holds it.  A create that finds
\* a sheet, or no product, fails.
SaveSheet(c, exists) ==
    /\ At(c, "read")
    /\ lock[ProductOf(c)] = None
    /\ IF sheetTask[c].version = 1 /\ (sheet[ProductOf(c)].present \/ ~exists)
       THEN sheetTask' = [sheetTask EXCEPT ![c] = Ended] /\ UNCHANGED lock
       ELSE /\ sheetTask' = [sheetTask EXCEPT ![c].at = "saved"]
            /\ lock' = [lock EXCEPT ![ProductOf(c)] = c]
    /\ UNCHANGED sheet

DeleteElements(c) ==
    /\ At(c, "saved")
    /\ sheetTask' = [sheetTask EXCEPT ![c].at = "deleted",
                                      ![c].deleted = sheet[ProductOf(c)].elements]
    /\ UNCHANGED <<sheet, lock>>

Unlock(c) == lock' = [p \in Product |-> IF lock[p] = c THEN None ELSE lock[p]]

\* The new elements are created, and the transaction commits.
CreateElements(c) ==
    /\ At(c, "deleted")
    /\ sheet' = [sheet EXCEPT ![ProductOf(c)] =
          [present |-> TRUE, version |-> sheetTask[c].version, saved |-> c,
           elements |-> (@.elements \ sheetTask[c].deleted) \cup {c}]]
    /\ sheetTask' = [sheetTask EXCEPT ![c] = Ended]
    /\ Unlock(c)

AbortSave(c) ==
    /\ ~At(c, "new") /\ ~At(c, "ended")
    /\ sheetTask' = [sheetTask EXCEPT ![c] = Ended]
    /\ Unlock(c)
    /\ UNCHANGED sheet

\* The process stops: the transactions under way are rolled back.
StopSaves ==
    /\ sheetTask' = [c \in Task |->
          IF sheetTask[c].at \in {"read", "saved", "deleted"}
          THEN Ended ELSE sheetTask[c]]
    /\ lock' = [p \in Product |-> None]
    /\ UNCHANGED sheet

LaterSave(c) == DeleteElements(c) \/ CreateElements(c) \/ AbortSave(c)

-----------------------------------------------------------------------------
\* A sheet is the work of one save: its elements are those sent with its title
\* and instructions, never a mixture of two overlapping saves.
SheetOfOneSave == \A p \in Product : sheet[p].present => sheet[p].elements = {sheet[p].saved}
===============================================================================
