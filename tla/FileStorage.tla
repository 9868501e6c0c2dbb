---------------------------- MODULE FileStorage ----------------------------
(***************************************************************************)
(* Storage files, and the movies created with them.  saveFiles inserts the *)
(* documents of the files in one transaction (withTransaction) and starts  *)
(* to copy the uploads to where they are kept; deleteStorageFile deletes a *)
(* document and starts to remove the file.  Nothing waits for the disk.    *)
(*                                                                         *)
(* A copy or a removal that fails rejects a promise nobody handles, which  *)
(* ends the process like a crash.  The temporary uploads are left where    *)
(* they are by the code, and out of this module.                           *)
(***************************************************************************)
EXTENDS Integers, FiniteSets

CONSTANTS
    FileCall,           \* the calls of clients
    MaxFiles,           \* maxFilesPerUpload
    MaxDeaths,          \* bound on the deaths of the services process
    NoFileRequest

ASSUME FileAssumption == MaxFiles \in Nat /\ MaxDeaths \in Nat

\* The documents of the files of a call are numbered, its movie has its name.
File == FileCall \X (1..MaxFiles)

VARIABLES
    fileRequest,        \* what each call asks
    fileStep,           \* the await each call is at, or how it ended
    inserted,           \* how many documents each transaction has inserted
    files,              \* the storage files collection, as committed
    deleted,            \* history: the documents that were deleted
    filesOf,            \* the movies collection: the storageFileIds of each movie
    copy,               \* of each file: none, queued, writing, done or cut
    removing,           \* the files about to be removed from the disk
    disk,               \* of each file: absent, partial or whole
    strays,             \* history: deleted files whose removal came too early, was forgotten
                        \* or never asked for
    deaths

collectionVars == <<files, deleted, filesOf>>
diskVars == <<copy, removing, disk, strays>>
fileVars == <<fileRequest, fileStep, inserted, collectionVars, diskVars, deaths>>

InTransaction == {"checksum", "insert", "commit", "abort"}
FileRunning == InTransaction \cup
    {"session", "movie", "find", "remove", "unlink", "open", "findMovie", "removeMovie", "reply"}

FileInit ==
    /\ fileRequest = [c \in FileCall |-> NoFileRequest]
    /\ fileStep = [c \in FileCall |-> "none"]
    /\ inserted = [c \in FileCall |-> 0]
    /\ files = {}
    /\ deleted = {}
    /\ filesOf = [c \in {} |-> {}]
    /\ copy = [f \in File |-> "none"]
    /\ removing = {}
    /\ disk = [f \in File |-> "absent"]
    /\ strays = {}
    /\ deaths = 0

\* The ids clients were told, by saveFiles or as the images of a movie.
ToldFiles == {f \in File : /\ fileStep[f[1]] = "done"
                           /\ fileRequest[f[1]].op \in {"saveFiles", "createMovie"}
                           /\ f[2] <= fileRequest[f[1]].count}

ToldMovies == {c \in FileCall : fileStep[c] = "done" /\ fileRequest[c].op = "createMovie"}

FileRequests ==
         [op : {"saveFiles", "createMovie"}, count : 0..MaxFiles]
    \cup [op : {"getStorageFile", "deleteStorageFile"}, file : ToldFiles]
    \cup [op : {"deleteMovie"}, movie : ToldMovies]

FirstFileStep == [saveFiles |-> "session", createMovie |-> "session", getStorageFile |-> "find",
                  deleteStorageFile |-> "find", deleteMovie |-> "findMovie"]

\* The gateway has stored the uploads and forwards the request.
BeginFileCall(c, r) ==
    /\ fileStep[c] = "none"
    /\ fileRequest' = [fileRequest EXCEPT ![c] = r]
    /\ fileStep' = [fileStep EXCEPT ![c] = FirstFileStep[r.op]]
    /\ UNCHANGED <<inserted, collectionVars, diskVars, deaths>>

FileGoes(c, from, to) ==
    /\ fileStep[c] = from
    /\ fileStep' = [fileStep EXCEPT ![c] = to]
    /\ UNCHANGED <<fileRequest, deaths>>

DocsOf(c) == {<<c, i>> : i \in 1..inserted[c]}

AllDocsOf(c) == {<<c, i>> : i \in 1..fileRequest[c].count}

AfterInsert(c, n) == IF n < fileRequest[c].count THEN "checksum" ELSE "commit"

----------------------------------------------------------------------------
(* saveFiles within withTransaction, and createMovie                        *)

StartSession(c) ==
    /\ FileGoes(c, "session", AfterInsert(c, 0))
    /\ UNCHANGED <<inserted, collectionVars, diskVars>>

GetChecksum(c) ==
    /\ FileGoes(c, "checksum", "insert")
    /\ UNCHANGED <<inserted, collectionVars, diskVars>>

\* Mutant: only the first of the files is copied.
CreateStorageFileCopyFirst(c) ==
    /\ FileGoes(c, "insert", AfterInsert(c, inserted[c] + 1))
    /\ inserted' = [inserted EXCEPT ![c] = @ + 1]
    /\ copy' = IF inserted[c] = 0 THEN [copy EXCEPT ![<<c, 1>>] = "queued"] ELSE copy
    /\ UNCHANGED <<collectionVars, removing, disk, strays>>

\* The document is inserted in the session; Path.copy is called and not awaited.
CreateStorageFile(c) ==
    /\ FileGoes(c, "insert", AfterInsert(c, inserted[c] + 1))
    /\ inserted' = [inserted EXCEPT ![c] = @ + 1]
    /\ copy' = [copy EXCEPT ![<<c, inserted[c] + 1>>] = "queued"]
    /\ UNCHANGED <<collectionVars, removing, disk, strays>>

\* The finally block.  A commit that rejects may have been applied.
CommitTransaction(c) ==
    /\ \/ /\ FileGoes(c, "commit", IF fileRequest[c].op = "createMovie" THEN "movie" ELSE "reply")
          /\ files' = files \cup DocsOf(c)
       \/ /\ FileGoes(c, "commit", "error")
          /\ files' \in {files, files \cup DocsOf(c)}
    /\ UNCHANGED <<inserted, deleted, filesOf, diskVars>>

\* Mutant: the catch block does not ask for the rollback.
CommitAfterError(c) ==
    /\ FileGoes(c, "abort", "error")
    /\ files' = files \cup DocsOf(c)
    /\ UNCHANGED <<inserted, deleted, filesOf, diskVars>>

\* rollback() in the catch block, abortTransaction in the finally block.
AbortTransaction(c) ==
    /\ FileGoes(c, "abort", "error")
    /\ UNCHANGED <<inserted, collectionVars, diskVars>>

InsertMovie(c) ==
    /\ FileGoes(c, "movie", "reply")
    /\ filesOf' = [m \in DOMAIN filesOf \cup {c} |-> IF m = c THEN DocsOf(c) ELSE filesOf[m]]
    /\ UNCHANGED <<inserted, files, deleted, diskVars>>

----------------------------------------------------------------------------
(* getStorageFile, deleteStorageFile and deleteMovie                        *)

FindFile(c) ==
    /\ FileGoes(c, "find",
           IF fileRequest[c].file \notin files THEN "notFound"
           ELSE IF fileRequest[c].op = "getStorageFile" THEN "open" ELSE "remove")
    /\ UNCHANGED <<inserted, collectionVars, diskVars>>

\* downloadFile, in the gateway: createReadStream of what is at the stored path by now.
OpenFile(c) ==
    /\ FileGoes(c, "open", IF disk[fileRequest[c].file] = "whole" THEN "done" ELSE "broken")
    /\ UNCHANGED <<inserted, collectionVars, diskVars>>

\* deleteOne() succeeds even if the document is gone.
DeleteStorageFile(c) ==
    /\ FileGoes(c, "remove", "unlink")
    /\ files' = files \ {fileRequest[c].file}
    /\ deleted' = deleted \cup {fileRequest[c].file}
    /\ UNCHANGED <<inserted, filesOf, diskVars>>

\* Mutant: the file is left on the disk.
DeleteDocumentOnly(c) ==
    /\ FileGoes(c, "unlink", "reply")
    /\ UNCHANGED <<inserted, collectionVars, diskVars>>

\* The reply of deleteOne() is there.  Path.delete is called and not awaited.
DeletePath(c) ==
    /\ FileGoes(c, "unlink", "reply")
    /\ removing' = removing \cup {fileRequest[c].file}
    /\ UNCHANGED <<inserted, collectionVars, copy, disk, strays>>

FindMovie(c) ==
    /\ FileGoes(c, "findMovie",
           IF fileRequest[c].movie \in DOMAIN filesOf THEN "removeMovie" ELSE "notFound")
    /\ UNCHANGED <<inserted, collectionVars, diskVars>>

\* The files of the movie stay.
DeleteMovie(c) ==
    /\ FileGoes(c, "removeMovie", "reply")
    /\ filesOf' = [m \in DOMAIN filesOf \ {fileRequest[c].movie} |-> filesOf[m]]
    /\ UNCHANGED <<inserted, files, deleted, diskVars>>

FileReply(c) ==
    /\ FileGoes(c, "reply", "done")
    /\ UNCHANGED <<inserted, collectionVars, diskVars>>

\* The deletions that are applied and whose call has not come to Path.delete yet.
Unlinking == {fileRequest[c].file : c \in {d \in FileCall : fileStep[d] = "unlink"}}

\* An await rejects.  Inside the transaction it is caught and rolled back.  What was asked of
\* the database may have been done, and its reply lost: an applied deletion that rejects
\* never comes to Path.delete.
FileCallFails(c) ==
    /\ fileStep[c] \in FileRunning \ {"commit", "abort"}
    /\ FileGoes(c, fileStep[c], IF fileStep[c] \in InTransaction THEN "abort" ELSE "error")
    /\ strays' = IF fileStep[c] = "unlink" THEN strays \cup {fileRequest[c].file} ELSE strays
    /\ UNCHANGED <<inserted, collectionVars, copy, removing, disk>>

----------------------------------------------------------------------------
(* The disk                                                                 *)

SetDisk(f, value) == disk' = [disk EXCEPT ![f] = value]

\* copyFile creates the file ...
StartCopy(f) ==
    /\ copy[f] = "queued"
    /\ copy' = [copy EXCEPT ![f] = "writing"]
    /\ SetDisk(f, "partial")
    /\ UNCHANGED <<removing, strays>>

\* ... and has written it.  A file removed in the meantime stays removed.
FinishCopy(f) ==
    /\ copy[f] = "writing"
    /\ copy' = [copy EXCEPT ![f] = "done"]
    /\ SetDisk(f, IF disk[f] = "partial" THEN "whole" ELSE disk[f])
    /\ UNCHANGED <<removing, strays>>

\* rm with `force': there may be nothing to remove yet.
RemoveFile(f) ==
    /\ f \in removing
    /\ removing' = removing \ {f}
    /\ SetDisk(f, "absent")
    /\ strays' = IF copy[f] = "queued" THEN strays \cup {f} ELSE strays
    /\ UNCHANGED copy

DiskStep(f) ==
    /\ StartCopy(f) \/ FinishCopy(f) \/ RemoveFile(f)
    /\ UNCHANGED <<fileRequest, fileStep, inserted, collectionVars, deaths>>

\* The services process dies: every call fails, transactions with it, except that a commit
\* under way may be applied; what the disk was to do is forgotten, and what it was about to be
\* told is never said.  Calls that are with the gateway by then go on.
Die ==
    /\ deaths < MaxDeaths
    /\ deaths' = deaths + 1
    /\ fileStep' = [c \in FileCall |->
          IF fileStep[c] \in FileRunning \ {"open"} THEN "error" ELSE fileStep[c]]
    /\ \E cs \in SUBSET {c \in FileCall : fileStep[c] = "commit"} :
          files' = files \cup UNION {DocsOf(c) : c \in cs}
    /\ copy' = [f \in File |-> IF copy[f] \in {"queued", "writing"} THEN "cut" ELSE copy[f]]
    /\ strays' = strays \cup removing \cup Unlinking
    /\ removing' = {}
    /\ UNCHANGED <<fileRequest, inserted, deleted, filesOf, disk>>

FileStep(c) ==
    \/ StartSession(c)
    \/ GetChecksum(c)
    \/ CreateStorageFile(c)
    \/ CommitTransaction(c)
    \/ AbortTransaction(c)
    \/ InsertMovie(c)
    \/ FindFile(c)
    \/ OpenFile(c)
    \/ DeleteStorageFile(c)
    \/ DeletePath(c)
    \/ FindMovie(c)
    \/ DeleteMovie(c)
    \/ FileReply(c)

FileNext ==
    \/ \E c \in FileCall : \/ \E r \in FileRequests : BeginFileCall(c, r)
                           \/ FileStep(c)
                           \/ FileCallFails(c)
    \/ \E f \in File : DiskStep(f)
    \/ Die

\* The event loop and the thread pool of the process go on.
FileFairness ==
    /\ \A c \in FileCall : WF_fileVars(FileStep(c))
    /\ \A f \in File : WF_fileVars(DiskStep(f))

FileSpec == FileInit /\ [][FileNext]_fileVars /\ FileFairness

----------------------------------------------------------------------------

Saving(c) == fileStep[c] # "none" /\ fileRequest[c].op \in {"saveFiles", "createMovie"}

\* The documents of a call are committed all or none, whatever fails and whatever of them is
\* deleted later; an answered call has committed all of its documents, and so has one whose
\* movie exists.
FilesAllOrNothing ==
    \A c \in FileCall : Saving(c) =>
        LET committed == AllDocsOf(c) \cap (files \cup deleted)
        IN  /\ committed \in {{}, AllDocsOf(c)}
            /\ fileStep[c] = "done" \/ c \in DOMAIN filesOf => committed = AllDocsOf(c)
            /\ c \in DOMAIN filesOf => filesOf[c] = AllDocsOf(c)

\* What is on the disk without a document is there for a reason one can name: the call that
\* copied it has not answered; or its document was deleted and the removal is still to be
\* asked for, or due, or overtook the copy, or was forgotten in a death, or was never asked for
\* because a death or a lost reply came between.  And a document lacks its whole file only
\* while it is copied, or after a death in the middle of that.
DiskFollowsDocuments ==
    \A f \in File :
        /\ disk[f] # "absent" =>
              \/ f \in files \/ fileStep[f[1]] # "done"
              \/ f \in deleted \cap (Unlinking \cup removing \cup strays)
        /\ f \in files => disk[f] = "whole" \/ copy[f] \in {"queued", "writing", "cut"}

\* Calls end, and a document gets its whole file unless it is deleted, or a death
\* interrupts the copy.
StoredFilesArrive ==
    /\ \A c \in FileCall : fileStep[c] \in FileRunning ~> fileStep[c] \notin FileRunning
    /\ \A f \in File :
          f \in files ~> (disk[f] = "whole" \/ f \notin files \/ copy[f] = "cut")
=============================================================================
