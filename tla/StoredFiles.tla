------------------------------ MODULE StoredFiles ------------------------------
(***************************************************************************)
(* The documents kept in files: signed invoices, fiscal cards of clients,  *)
(* images of products and BAT documents of orders.  Four services hold     *)
(* their own copy of one protocol: an upload puts an object in the store   *)
(* and then creates a row, a deletion removes the object and then the row, *)
(* a replacement is an upload with the next version, a download reads the  *)
(* row and then the object.  No transaction covers the two, and any step   *)
(* may be the last one of a task.                                          *)
(*                                                                         *)
(* A task is what a call asks of one file, or the save of a sheet; it runs *)
(* once.  The object and the row an upload creates are named by the task,  *)
(* as the path of an object ends with a time and a random part.            *)
(***************************************************************************)
EXTENDS TechnicalSheets

CONSTANTS
    Invoice, Client, Order      \* the other owners of files (Product has its own)

VARIABLES
    owner,      \* whether each owner is there and admits files
    doc,        \* rows, by the task that created them
    object,     \* objects, by the task that stored them
    minio,      \* whether this process uses MinIO or the disk
    task,       \* the tasks
    mishap      \* a task was cut short, or an upload lost its owner (history)

fileVars == <<owner, doc, object, minio, task, mishap>>

Owner == Invoice \cup Client \cup Product \cup Order
Place == {"minio", "disk"}
DocRow == [state : {"none", "present", "gone"}, owner : Owner \cup {None},
           place : Place, algo : {"NONE", "GZIP"}, version : Nat]
NoRow == [state |-> "none", owner |-> None, place |-> "disk", algo |-> "NONE",
          version |-> 0]
NoObject == [place |-> "nowhere", bytes |-> "none"]
NewTask == [at |-> "new", op |-> "none", owner |-> None, doc |-> None, image |-> FALSE,
            version |-> 0, answer |-> "none"]

FilesInit ==
    /\ SheetsInit
    /\ \E b \in BOOLEAN :
          owner = [o \in Owner |->
             [present |-> TRUE, admits |-> o \in Invoice \cup Product \/ b]]
    /\ doc = [c \in Task |-> NoRow]
    /\ object = [c \in Task |-> NoObject]
    /\ minio \in BOOLEAN
    /\ task = [c \in Task |-> NewTask]
    /\ mishap = FALSE

Here == IF minio THEN "minio" ELSE "disk"
DocPresent(d) == doc[d].state = "present"
TaskAt(c, at) == task[c].at = at
\* A task is of one of the two families.
Unstarted(c) == TaskAt(c, "new") /\ At(c, "new")
Goto(c, at) == task' = [task EXCEPT ![c].at = at]
\* What a task leaves to remember: what it was about.
Over(c) == [NewTask EXCEPT !.at = "done", !.op = task[c].op, !.doc = task[c].doc]
Finish(c) == task' = [task EXCEPT ![c] = Over(c)]
FilesUnchanged == UNCHANGED <<owner, doc, object, minio, mishap>>

\* Images are compressed, other files are kept as they are.
Compress(image) == IF image THEN [bytes |-> "gzip", algo |-> "GZIP"]
                   ELSE [bytes |-> "plain", algo |-> "NONE"]
\* What a reader gets from stored bytes under the algorithm of the row.
Decompress(bytes, algo) ==
    IF algo = "NONE" THEN bytes ELSE IF bytes = "gzip" THEN "plain" ELSE "error"

-----------------------------------------------------------------------------
(* Uploads *)

BeginUpload(C, o, image, version) ==
    /\ \A c \in C : Unstarted(c)
    /\ owner[o].present /\ owner[o].admits
    /\ task' = [c \in Task |-> IF c \in C
          THEN [NewTask EXCEPT !.at = "put", !.op = "upload", !.owner = o,
                               !.image = image, !.version = version]
          ELSE task[c]]
    /\ FilesUnchanged

UploadInvoiceDocument(c, o, image) == o \in Invoice /\ BeginUpload({c}, o, image, 1)
\* Fiscal cards are for B2B clients only.
UploadFiscalCard(c, o, image) == o \in Client /\ BeginUpload({c}, o, image, 1)
\* BAT documents are for orders that require a BAT.
UploadBatDocument(c, o, image) == o \in Order /\ BeginUpload({c}, o, image, 1)
\* The images of one request are stored side by side; one that fails leaves the others.
UploadImages(C, o) == C # {} /\ o \in Product /\ BeginUpload(C, o, TRUE, 1)

\* A replacement leaves the document it replaces.
Replace(c, d, image) ==
    /\ DocPresent(d)
    /\ BeginUpload({c}, doc[d].owner, image, doc[d].version + 1)

ReplaceInvoiceDocument(c, d, image) == doc[d].owner \in Invoice /\ Replace(c, d, image)
ReplaceFiscalCard(c, d, image) == doc[d].owner \in Client /\ Replace(c, d, image)
ReplaceBatDocument(c, d, image) == doc[d].owner \in Order /\ Replace(c, d, image)
ReplaceImage(c, d) == doc[d].owner \in Product /\ Replace(c, d, TRUE)

PutObject(c) ==
    /\ TaskAt(c, "put")
    /\ object' = [object EXCEPT ![c] = [place |-> Here, bytes |-> Compress(task[c].image).bytes]]
    /\ Goto(c, "row")
    /\ UNCHANGED <<owner, doc, minio, mishap>>

\* Mutant: the row says the bytes are as they were sent.
CreateRowUncompressed(c) ==
    /\ TaskAt(c, "row") /\ owner[task[c].owner].present
    /\ doc' = [doc EXCEPT ![c] = [state |-> "present", owner |-> task[c].owner,
          place |-> object[c].place, algo |-> "NONE", version |-> task[c].version]]
    /\ Finish(c)
    /\ UNCHANGED <<owner, object, minio, mishap>>

\* Mutant: the row does not wait for the object.
CreateRowFirst(c) ==
    /\ task[c].at \in {"put", "row"} /\ owner[task[c].owner].present
    /\ doc' = [doc EXCEPT ![c] = [state |-> "present", owner |-> task[c].owner,
          place |-> Here, algo |-> Compress(task[c].image).algo, version |-> task[c].version]]
    /\ IF TaskAt(c, "put") THEN UNCHANGED task ELSE Finish(c)
    /\ UNCHANGED <<owner, object, minio, mishap>>

\* The row is refused when its owner has been deleted since: the object stays.
CreateRow(c) ==
    /\ TaskAt(c, "row")
    /\ IF owner[task[c].owner].present
       THEN /\ doc' = [doc EXCEPT ![c] = [state |-> "present", owner |-> task[c].owner,
                 place |-> object[c].place, algo |-> Compress(task[c].image).algo,
                 version |-> task[c].version]]
            /\ UNCHANGED mishap
       ELSE mishap' = TRUE /\ UNCHANGED doc
    /\ Finish(c)
    /\ UNCHANGED <<owner, object, minio>>

-----------------------------------------------------------------------------
(* Deletions and downloads *)

BeginOn(c, d, op, at) ==
    /\ Unstarted(c) /\ DocPresent(d)
    /\ task' = [task EXCEPT ![c] = [NewTask EXCEPT !.at = at, !.op = op, !.doc = d]]
    /\ FilesUnchanged

Delete(c, d) == BeginOn(c, d, "delete", "unlink")
DeleteInvoiceDocument(c, d) == doc[d].owner \in Invoice /\ Delete(c, d)
DeleteFiscalCard(c, d) == doc[d].owner \in Client /\ Delete(c, d)
DeleteBatDocument(c, d) == doc[d].owner \in Order /\ Delete(c, d)
DeleteImage(c, d) == doc[d].owner \in Product /\ Delete(c, d)

\* An object of the disk is removed whatever this process uses, one of MinIO only by
\* a process that uses it.  An object that is not there is no error.
Reachable(d) == doc[d].place = "disk" \/ minio

\* Mutant: the file of the disk is forgotten.
RemoveFromMinio(c) ==
    /\ TaskAt(c, "unlink")
    /\ object' = IF minio /\ doc[task[c].doc].place = "minio"
                 THEN [object EXCEPT ![task[c].doc] = NoObject] ELSE object
    /\ Goto(c, "drop")
    /\ mishap' = (mishap \/ ~Reachable(task[c].doc))
    /\ UNCHANGED <<owner, doc, minio>>

RemoveStoredObject(c) ==
    /\ TaskAt(c, "unlink")
    /\ object' = IF Reachable(task[c].doc)
                 THEN [object EXCEPT ![task[c].doc] = NoObject] ELSE object
    /\ Goto(c, "drop")
    /\ mishap' = (mishap \/ ~Reachable(task[c].doc))
    /\ UNCHANGED <<owner, doc, minio>>

\* A row already deleted by another task is an error, with nothing left to do.
DeleteRow(c) ==
    /\ TaskAt(c, "drop")
    /\ doc' = [doc EXCEPT ![task[c].doc].state = "gone"]
    /\ Finish(c)
    /\ UNCHANGED <<owner, object, minio, mishap>>

Download(c, d) == BeginOn(c, d, "download", "fetch")
DownloadInvoiceDocument(c, d) == doc[d].owner \in Invoice /\ Download(c, d)
DownloadFiscalCard(c, d) == doc[d].owner \in Client /\ Download(c, d)
DownloadBatDocument(c, d) == doc[d].owner \in Order /\ Download(c, d)
DownloadImage(c, d) == doc[d].owner \in Product /\ Download(c, d)

\* The object is read where the row says it is.
Fetch(c) ==
    /\ TaskAt(c, "fetch")
    /\ LET d == task[c].doc
       IN  task' = [task EXCEPT ![c] = [Over(c) EXCEPT !.answer =
              IF Reachable(d) /\ object[d].place = doc[d].place
              THEN Decompress(object[d].bytes, doc[d].algo) ELSE "missing"]]
    /\ FilesUnchanged

-----------------------------------------------------------------------------
(* Owners, and tasks cut short *)

\* An owner is deleted when no row refers to it, not even one being created.
RemoveOwner(o) ==
    /\ owner[o].present
    /\ \A d \in Task : ~(DocPresent(d) /\ doc[d].owner = o)
    /\ o \in Product => ~sheet[o].present /\ lock[o] = None
    /\ owner' = [owner EXCEPT ![o].present = FALSE]
    /\ UNCHANGED <<doc, object, minio, task, mishap>>

Running(c) == ~TaskAt(c, "new") /\ ~TaskAt(c, "done")

\* A statement or the store fails: the rest of the task is not done.
Fail(c) ==
    /\ Running(c)
    /\ Finish(c)
    /\ mishap' = TRUE
    /\ UNCHANGED <<owner, doc, object, minio>>

\* The process stops and starts again, with the store its environment names.
Restart ==
    /\ task' = [c \in Task |-> IF Running(c) THEN Over(c) ELSE task[c]]
    /\ minio' \in BOOLEAN
    /\ mishap' = TRUE
    /\ StopSaves
    /\ UNCHANGED <<owner, doc, object>>

-----------------------------------------------------------------------------
FileBegin(c) ==
    \/ \E o \in Owner, image \in BOOLEAN :
          \/ UploadInvoiceDocument(c, o, image)
          \/ UploadFiscalCard(c, o, image)
          \/ UploadBatDocument(c, o, image)
    \/ \E d \in Task :
          \/ \E image \in BOOLEAN :
                \/ ReplaceInvoiceDocument(c, d, image)
                \/ ReplaceFiscalCard(c, d, image)
                \/ ReplaceBatDocument(c, d, image)
          \/ ReplaceImage(c, d)
          \/ DeleteInvoiceDocument(c, d) \/ DeleteFiscalCard(c, d)
          \/ DeleteBatDocument(c, d) \/ DeleteImage(c, d)
          \/ DownloadInvoiceDocument(c, d) \/ DownloadFiscalCard(c, d)
          \/ DownloadBatDocument(c, d) \/ DownloadImage(c, d)

FileStep(c) ==
    \/ PutObject(c) \/ CreateRow(c)
    \/ RemoveStoredObject(c) \/ DeleteRow(c)
    \/ Fetch(c)
    \/ Fail(c)

FilesNext ==
    \/ \E c \in Task : (FileBegin(c) \/ FileStep(c)) /\ UNCHANGED sheetVars
    \/ \E C \in SUBSET Task, o \in Product : UploadImages(C, o) /\ UNCHANGED sheetVars
    \/ \E o \in Owner : RemoveOwner(o) /\ UNCHANGED sheetVars
    \/ Restart
    \/ \E c \in Task, p \in Product :
          Unstarted(c) /\ owner[p].present /\ ReadSheet(c, p) /\ UNCHANGED fileVars
    \/ \E c \in Task :
          /\ \/ At(c, "read") /\ SaveSheet(c, owner[ProductOf(c)].present)
             \/ LaterSave(c)
          /\ UNCHANGED fileVars

FilesSpec == FilesInit /\ [][FilesNext]_<<sheetVars, fileVars>>

-----------------------------------------------------------------------------
\* The state has the shape the services rely on.
FilesTypeOK ==
    /\ sheet \in [Product -> SheetRow]
    /\ doc \in [Task -> DocRow]
    /\ \A c \in Task : object[c].place \in Place \cup {"nowhere"}
    /\ \A c \in Task : task[c].at \in {"new", "put", "row", "unlink", "drop", "fetch", "done"}

\* Some task has set out to delete a document.
DeletionBegun(d) == \E c \in Task : task[c].op = "delete" /\ task[c].doc = d

\* A document that is listed can be read, whatever tasks overlap, fail or are cut
\* short by a restart, until someone has set out to delete that very document.
ListedMeansStored ==
    \A d \in Task : DocPresent(d) /\ ~DeletionBegun(d) => object[d].place = doc[d].place

\* Without a failure the store keeps nothing that no row points to once the tasks
\* are over: overlapping deletions and replacements leave no object behind.
NothingLeftOver ==
    ~mishap /\ (\A c \in Task : ~Running(c)) =>
       \A d \in Task : object[d].place # "nowhere" => DocPresent(d)

\* A download gives back the bytes that were sent, compressed or not, in either
\* store; it misses them only if they are being deleted or in the other store.
DownloadsAreOriginal ==
    [][\A c \in Task : task[c].at = "fetch" /\ task'[c].answer # "none" =>
          \/ task'[c].answer = "plain"
          \/ /\ task'[c].answer = "missing"
             /\ DeletionBegun(task[c].doc) \/ (doc[task[c].doc].place = "minio" /\ ~minio)
      ]_<<sheetVars, fileVars>>
===============================================================================
