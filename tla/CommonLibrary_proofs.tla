------------------------ MODULE CommonLibrary_proofs ------------------------
(***************************************************************************)
(* Proofs about FileStorage, TypeormTransactions, Paging and FileTransfer, *)
(* one after the other.                                                    *)
(*                                                                         *)
(* FileStorage, for any calls, any number of files per call and any number *)
(* of deaths: until its commit nothing of a call is in the collection, and *)
(* from then on everything is, there or deleted (Committed); a document    *)
(* was numbered and its copy queued before it was committed (Counted,      *)
(* DiskInv); only a file that clients were told of, so that its call is    *)
(* over, is ever deleted (Refers); and of a deleted document the file is   *)
(* still to be removed, by a call that has come half-way or by the thread  *)
(* pool, or it stays for ever (Disposed).                                  *)
(*                                                                         *)
(* TypeormTransactions, for any set of executions and any pool: where an   *)
(* execution is tells what it holds (Fresh, Open, Settling); what a        *)
(* connection holds belongs to the execution that has it, or to one that   *)
(* was not able to roll it back (Pending); and only a connection that was  *)
(* free is taken (Pool).                                                   *)
(*                                                                         *)
(* Paging, for any documents, orders, conditions and page sizes: the Rank  *)
(* of a document among those that match says on which page it comes.  Only *)
(* what goes before it, deleted or updated, makes it come earlier, on a    *)
(* page already shown (Missing); only what comes before it, inserted or    *)
(* updated, makes it come later, on a page still to be shown (Repeating).  *)
(* The count that follows a page differs from what the page was found in   *)
(* by what came and went between them (FoundIn).                           *)
(*                                                                         *)
(* FileTransfer, for any file and any chunks: the ends of the lines are    *)
(* the one list of them in order (EndsAre), so what a text is split into   *)
(* followed by another is what its last line is split into with that one   *)
(* (SplitJoined); hence the reader always holds the lines of some text     *)
(* that has the line feeds of the bytes it has read (ReadSoFar).           *)
(***************************************************************************)
EXTENDS FileStorage, TypeormTransactions, Paging, FileTransfer, FiniteSetTheorems, TLAPS

Kept == files \cup deleted

Nothing(c) == \A f \in Kept : f[1] # c

Whole(c) == \A f \in File : f[1] = c /\ f[2] <= fileRequest[c].count => f \in Kept

KnownRequests ==
         [op : {"saveFiles", "createMovie"}, count : 0..MaxFiles]
    \cup [op : {"getStorageFile", "deleteStorageFile"}, file : File]
    \cup [op : {"deleteMovie"}, movie : FileCall]

FileTypeOK ==
    /\ DOMAIN fileRequest = FileCall
    /\ \A c \in FileCall : fileStep[c] # "none" => fileRequest[c] \in KnownRequests
    /\ fileStep \in [FileCall -> FileRunning \cup {"none", "done", "error", "notFound", "broken"}]
    /\ inserted \in [FileCall -> Nat]
    /\ files \subseteq File
    /\ deleted \subseteq File
    /\ copy \in [File -> {"none", "queued", "writing", "done", "cut"}]
    /\ disk \in [File -> {"absent", "partial", "whole"}]

\* Which steps are those of which requests.
Placed(c) ==
    /\ fileStep[c] \in InTransaction \cup {"session", "movie"} => Saving(c)
    /\ fileStep[c] \in {"find", "remove", "unlink", "open"} =>
          fileRequest[c].op \in {"getStorageFile", "deleteStorageFile"}
    /\ fileStep[c] = "unlink" => fileRequest[c].file \in deleted
    /\ fileStep[c] \in {"findMovie", "removeMovie"} => fileRequest[c].op = "deleteMovie"

\* How many documents a call has inserted by then.
Counted(c) ==
    /\ ~Saving(c) \/ fileStep[c] = "session" => inserted[c] = 0
    /\ Saving(c) => inserted[c] <= fileRequest[c].count
    /\ fileStep[c] \in {"checksum", "insert"} => inserted[c] < fileRequest[c].count
    /\ Saving(c) /\ fileStep[c] \in {"commit", "movie", "reply", "done"} =>
          inserted[c] = fileRequest[c].count

Committed(c) ==
    /\ ~Saving(c) \/ fileStep[c] \in InTransaction \cup {"session"} => Nothing(c)
    /\ Saving(c) => Nothing(c) \/ Whole(c)
    /\ Saving(c) /\ fileStep[c] \in {"movie", "reply", "done"} => Whole(c)
    /\ c \in DOMAIN filesOf => Saving(c) /\ Whole(c) /\ filesOf[c] = AllDocsOf(c)

\* A file that is asked for is one of a call that has answered.
Refers(c) ==
    fileStep[c] # "none" /\ fileRequest[c].op \in {"getStorageFile", "deleteStorageFile"} =>
        LET f == fileRequest[c].file
        IN  /\ Saving(f[1])
            /\ fileStep[f[1]] = "done"
            /\ f[2] <= fileRequest[f[1]].count

CallInv(c) == Placed(c) /\ Counted(c) /\ Committed(c) /\ Refers(c)

\* A copy is queued with the insertion; what is not deleted is on the disk as far as it was
\* copied.
DiskInv(f) ==
    /\ copy[f] # "none" <=> f[2] <= inserted[f[1]]
    /\ copy[f] \in {"none", "queued"} => disk[f] = "absent"
    /\ f \notin deleted /\ copy[f] = "writing" => disk[f] = "partial"
    /\ f \notin deleted /\ copy[f] = "done" => disk[f] = "whole"
    /\ f \in removing => f \in deleted
    /\ f \in deleted => f \notin files
    /\ f \in Kept => f[2] <= inserted[f[1]]

FileInv ==
    /\ FileTypeOK
    /\ \A c \in FileCall : CallInv(c)
    /\ \A f \in File : DiskInv(f)

\* What is deleted is removed, or is going to be, or is a stray.
Disposed ==
    \A f \in deleted \ (Unlinking \cup removing \cup strays) :
        disk[f] = "absent" /\ copy[f] # "queued"

----------------------------------------------------------------------------

LEMMA FileIsPair ==
    \A f \in File : f[1] \in FileCall /\ f[2] \in 1..MaxFiles /\ f = <<f[1], f[2]>>
BY DEF File

LEMMA DocIsFile ==
    ASSUME NEW c \in FileCall, NEW i \in 1..MaxFiles
    PROVE  <<c, i>> \in File /\ <<c, i>>[1] = c /\ <<c, i>>[2] = i
BY DEF File

\* The documents a call has inserted, and all it is going to.
LEMMA DocsOfCall ==
    ASSUME NEW c \in FileCall, inserted[c] \in 0..MaxFiles
    PROVE  DocsOf(c) = {f \in File : f[1] = c /\ f[2] <= inserted[c]}
BY FileIsPair, DocIsFile, FileAssumption DEF DocsOf

LEMMA AllDocsOfCall ==
    ASSUME NEW c \in FileCall, fileRequest[c].count \in 0..MaxFiles
    PROVE  AllDocsOf(c) = {f \in File : f[1] = c /\ f[2] <= fileRequest[c].count}
BY FileIsPair, DocIsFile, FileAssumption DEF AllDocsOf

LEMMA SavingRequest ==
    ASSUME FileTypeOK, NEW c \in FileCall, Saving(c)
    PROVE  fileRequest[c].count \in 0..MaxFiles
BY DEF FileTypeOK, KnownRequests, Saving

LEMMA InitFiles == FileInit => FileInv
<1> SUFFICES ASSUME FileInit PROVE FileInv
  OBVIOUS
<1>1. FileTypeOK
  BY DEF FileInit, FileTypeOK
<1>2. \A c \in FileCall : CallInv(c)
  BY DEF FileInit, CallInv, Placed, Counted, Committed, Refers, Saving, Nothing, Kept,
         InTransaction
<1>3. \A f \in File : DiskInv(f)
  BY FileIsPair DEF FileInit, DiskInv, Kept
<1>4. QED
  BY <1>1, <1>2, <1>3 DEF FileInv

----------------------------------------------------------------------------
(* What a step does not touch stays as it is known to be.                   *)

\* A call whose documents and movie are left alone, while answered calls stay answered.
LEMMA CallKeeps ==
    ASSUME FileInv, NEW c \in FileCall,
           fileStep'[c] = fileStep[c],
           fileRequest'[c] = fileRequest[c],
           inserted'[c] = inserted[c],
           c \in DOMAIN filesOf' => c \in DOMAIN filesOf /\ filesOf'[c] = filesOf[c],
           files' \subseteq File /\ deleted' \subseteq File /\ deleted \subseteq deleted',
           \A f \in File : f[1] = c => (f \in Kept' <=> f \in Kept),
           \A d \in FileCall : fileStep[d] = "done" =>
               fileStep'[d] = "done" /\ fileRequest'[d] = fileRequest[d]
    PROVE  CallInv(c)'
<1>1. CallInv(c) /\ FileTypeOK
  BY DEF FileInv
<1>2. (Saving(c)' <=> Saving(c)) /\ AllDocsOf(c)' = AllDocsOf(c)
  BY DEF Saving, AllDocsOf
<1>3. (Nothing(c)' <=> Nothing(c)) /\ (Whole(c)' <=> Whole(c))
  BY <1>1 DEF Nothing, Whole, Kept, FileTypeOK
<1>4. Placed(c)' /\ Counted(c)'
  BY <1>1, <1>2 DEF CallInv, Placed, Counted
<1>5. Committed(c)'
  BY <1>1, <1>2, <1>3 DEF CallInv, Committed
<1>6. Refers(c)'
  <2>1. ASSUME fileStep[c] # "none", fileRequest[c].op \in {"getStorageFile", "deleteStorageFile"}
        PROVE  fileRequest[c].file \in File
    BY <1>1, <2>1 DEF FileTypeOK, KnownRequests
  <2>2. QED
    BY <1>1, <2>1, FileIsPair DEF CallInv, Refers, Saving
<1>7. QED
  BY <1>4, <1>5, <1>6 DEF CallInv

LEMMA DiskKeeps ==
    ASSUME FileInv, UNCHANGED <<inserted, files, deleted, copy, disk>>,
           removing' \subseteq removing \cup deleted
    PROVE  \A f \in File : DiskInv(f)'
BY DEF FileInv, DiskInv, Kept

\* A call goes on, and the collections and the disk are left alone.
LEMMA CallMoves ==
    ASSUME FileInv, NEW c \in FileCall, NEW to,
           fileStep' = [fileStep EXCEPT ![c] = to],
           to \in FileRunning \cup {"done", "error", "notFound", "broken"},
           fileStep[c] \notin {"none", "done"},
           UNCHANGED <<fileRequest, inserted, files, deleted, filesOf, copy, disk>>,
           removing' \subseteq removing \cup deleted,
           Placed(c)', Counted(c)', Committed(c)'
    PROVE  FileInv'
<1>1. FileTypeOK /\ CallInv(c)
  BY DEF FileInv
<1>2. FileTypeOK'
  BY <1>1 DEF FileTypeOK
<1>3. \A d \in FileCall : fileStep[d] = "done" => fileStep'[d] = "done"
  BY <1>1 DEF FileTypeOK
<1>4. ASSUME NEW d \in FileCall, d # c PROVE CallInv(d)'
  <2>1. fileStep'[d] = fileStep[d] /\ Kept' = Kept
    BY <1>1, <1>4 DEF FileTypeOK, Kept
  <2>2. files' \subseteq File /\ deleted' \subseteq File /\ deleted \subseteq deleted'
    BY <1>2 DEF FileTypeOK
  <2>3. QED
    BY <1>3, <2>1, <2>2, CallKeeps
<1>5. Refers(c)'
  <2>1. ASSUME fileRequest[c].op \in {"getStorageFile", "deleteStorageFile"}
        PROVE  fileRequest[c].file \in File
    BY <1>1, <2>1 DEF FileTypeOK, KnownRequests
  <2>2. QED
    BY <1>1, <1>3, <2>1, FileIsPair DEF CallInv, Refers, Saving
<1>6. CallInv(c)'
  BY <1>5 DEF CallInv
<1>7. QED
  BY <1>2, <1>4, <1>6, DiskKeeps DEF FileInv

----------------------------------------------------------------------------
(* The steps of the calls.                                                  *)

\* A call arrives.  Of a new one nothing is known anywhere.
LEMMA SaveFilesStep ==
    ASSUME FileInv, NEW c \in FileCall, NEW r \in FileRequests, BeginFileCall(c, r)
    PROVE  FileInv'
<1> USE DEF BeginFileCall, collectionVars, diskVars
<1>1. FileTypeOK /\ CallInv(c) /\ fileStep[c] = "none" /\ ~Saving(c)
  BY DEF FileInv, Saving
<1>2. fileStep'[c] = FirstFileStep[r.op] /\ fileRequest'[c] = r
  BY <1>1 DEF FileTypeOK
<1>3. Nothing(c)' /\ inserted'[c] = 0 /\ c \notin DOMAIN filesOf'
  BY <1>1 DEF CallInv, Counted, Committed, Nothing, Kept
<1>4. \A f \in ToldFiles : /\ f \in File /\ Saving(f[1]) /\ fileStep[f[1]] = "done"
                           /\ f[2] <= fileRequest[f[1]].count /\ f[1] # c
  BY <1>1 DEF ToldFiles, Saving
<1>5. r \in KnownRequests
  BY <1>4 DEF FileRequests, KnownRequests, ToldMovies
<1>6. /\ fileStep'[c] \in {"session", "find", "findMovie"}
      /\ fileStep'[c] = "find" => r.op \in {"getStorageFile", "deleteStorageFile"}
      /\ fileStep'[c] = "findMovie" => r.op = "deleteMovie"
  BY <1>2, <1>5 DEF FirstFileStep, KnownRequests
<1>7. FileTypeOK'
  BY <1>1, <1>2, <1>5, <1>6 DEF FileTypeOK, FileRunning
<1>8. (r.op \in {"saveFiles", "createMovie"} <=> fileStep'[c] = "session")
      /\ (Saving(c)' <=> fileStep'[c] = "session")
  BY <1>2, <1>5, <1>6 DEF Saving, FirstFileStep, KnownRequests
<1>9. Placed(c)'
  BY <1>2, <1>6, <1>8 DEF Placed, InTransaction
<1>10. Counted(c)'
  <2>1. Saving(c)' => r.count \in 0..MaxFiles
    BY <1>5, <1>8 DEF KnownRequests
  <2>2. QED
    BY <1>2, <1>3, <1>6, <1>8, <2>1, FileAssumption DEF Counted
<1>11. Committed(c)'
  BY <1>3, <1>6, <1>8 DEF Committed, InTransaction
<1>12. Refers(c)'
  <2>1. ASSUME r.op \in {"getStorageFile", "deleteStorageFile"} PROVE r.file \in ToldFiles
    BY <2>1 DEF FileRequests
  <2>2. QED
    BY <1>1, <1>2, <1>4, <2>1, FileIsPair DEF Refers, Saving, FileTypeOK
<1>13. ASSUME NEW d \in FileCall, d # c PROVE CallInv(d)'
  <2>1. \A e \in FileCall : fileStep[e] = "done" =>
            fileStep'[e] = "done" /\ fileRequest'[e] = fileRequest[e]
    BY <1>1 DEF FileTypeOK
  <2>2. /\ fileStep'[d] = fileStep[d] /\ fileRequest'[d] = fileRequest[d]
        /\ files' \subseteq File /\ deleted' \subseteq File /\ Kept' = Kept
    BY <1>1, <1>13 DEF FileTypeOK, Kept
  <2>3. QED
    BY <2>1, <2>2, CallKeeps
<1>14. CallInv(c)'
  BY <1>9, <1>10, <1>11, <1>12 DEF CallInv
<1>15. QED
  BY <1>7, <1>13, <1>14, DiskKeeps DEF FileInv

\* The steps that read, roll back or answer.
LEMMA QuietStep ==
    ASSUME FileInv, NEW c \in FileCall,
           \/ StartSession(c) \/ GetChecksum(c) \/ AbortTransaction(c) \/ FindFile(c)
           \/ OpenFile(c) \/ FindMovie(c) \/ FileReply(c) \/ FileCallFails(c) \/ DeletePath(c)
    PROVE  FileInv'
<1> USE DEF FileGoes, collectionVars, diskVars
<1>1. FileTypeOK /\ CallInv(c)
  BY DEF FileInv
<1>2. /\ UNCHANGED <<fileRequest, inserted, files, deleted, filesOf, copy, disk>>
      /\ removing' \subseteq removing \cup deleted
  BY <1>1 DEF StartSession, GetChecksum, AbortTransaction, FindFile, OpenFile, FindMovie, FileReply,
              FileCallFails, DeletePath, CallInv, Placed
<1>3. Kept' = Kept /\ (Nothing(c)' <=> Nothing(c)) /\ (Whole(c)' <=> Whole(c))
      /\ AllDocsOf(c)' = AllDocsOf(c)
  BY <1>2 DEF Kept, Nothing, Whole, AllDocsOf
<1>4. PICK to : /\ fileStep' = [fileStep EXCEPT ![c] = to]
                /\ \/ fileStep[c] = "session" /\ to = AfterInsert(c, 0)
                   \/ fileStep[c] = "checksum" /\ to = "insert"
                   \/ fileStep[c] = "abort" /\ to = "error"
                   \/ fileStep[c] = "find" /\ to \in {"notFound", "open", "remove"}
                   \/ fileStep[c] = "open" /\ to \in {"done", "broken"}
                   \/ fileStep[c] = "findMovie" /\ to \in {"removeMovie", "notFound"}
                   \/ fileStep[c] = "unlink" /\ to = "reply"
                   \/ fileStep[c] = "reply" /\ to = "done"
                   \/ fileStep[c] \in InTransaction /\ to = "abort"
                   \/ fileStep[c] \in FileRunning /\ to = "error"
  BY DEF StartSession, GetChecksum, AbortTransaction, FindFile, OpenFile, FindMovie, FileReply,
         FileCallFails, DeletePath
<1>5. fileStep'[c] = to /\ fileStep[c] \notin {"none", "done"} /\ (Saving(c)' <=> Saving(c))
  BY <1>1, <1>2, <1>4 DEF FileTypeOK, Saving, InTransaction, FileRunning, AfterInsert
<1>6. /\ to \in FileRunning \cup {"done", "error", "notFound", "broken"}
      /\ fileStep[c] \in {"find", "unlink", "open", "findMovie"} => ~Saving(c)
  BY <1>1, <1>4 DEF FileRunning, InTransaction, AfterInsert, CallInv, Placed, Saving
<1>7. Placed(c)'
  BY <1>1, <1>2, <1>4, <1>5 DEF CallInv, Placed, InTransaction, FileRunning, AfterInsert
<1>8. Counted(c)'
  <2>1. Saving(c) => fileRequest[c].count \in Nat
    BY <1>1, SavingRequest, FileAssumption
  <2>2. QED
    BY <1>1, <1>2, <1>4, <1>5, <1>6, <2>1
       DEF CallInv, Placed, Counted, InTransaction, FileRunning, AfterInsert
<1>9. Committed(c)'
  BY <1>1, <1>2, <1>3, <1>4, <1>5, <1>6
     DEF CallInv, Placed, Committed, InTransaction, FileRunning, AfterInsert
<1>10. QED
  BY <1>2, <1>4, <1>5, <1>6, <1>7, <1>8, <1>9, CallMoves

\* A document is numbered and its copy queued.
LEMMA InsertDocStep ==
    ASSUME FileInv, NEW c \in FileCall, CreateStorageFile(c)
    PROVE  FileInv'
<1> USE DEF FileGoes, CreateStorageFile, collectionVars
<1>1. FileTypeOK /\ CallInv(c) /\ fileStep[c] = "insert" /\ Saving(c)
      /\ fileRequest[c].count \in 0..MaxFiles /\ inserted[c] < fileRequest[c].count
      /\ inserted[c] \in Nat
  BY SavingRequest DEF FileInv, CallInv, Placed, Counted, FileTypeOK, InTransaction
<1>2. /\ inserted' = [inserted EXCEPT ![c] = inserted[c] + 1]
      /\ fileStep'[c] = AfterInsert(c, inserted[c] + 1)
      /\ fileRequest' = fileRequest /\ files' = files /\ deleted' = deleted
  BY <1>1 DEF FileTypeOK
<1> DEFINE g == <<c, inserted[c] + 1>>
<1>3. g \in File /\ g[1] = c /\ g[2] = inserted[c] + 1
  BY <1>1, DocIsFile, FileAssumption
<1>4. fileStep'[c] \in {"checksum", "commit"} /\ (Saving(c)' <=> Saving(c))
  BY <1>1, <1>2 DEF AfterInsert, Saving
<1>5. FileTypeOK'
  BY <1>1, <1>2, <1>3, <1>4 DEF FileTypeOK, FileRunning, InTransaction
<1>6. Placed(c)' /\ Counted(c)'
  BY <1>1, <1>2, <1>4, FileAssumption DEF Placed, Counted, AfterInsert, InTransaction, FileTypeOK
<1>7. Committed(c)' /\ Refers(c)'
  <2>1. (Nothing(c)' <=> Nothing(c)) /\ (Whole(c)' <=> Whole(c)) /\ AllDocsOf(c)' = AllDocsOf(c)
    BY <1>2 DEF Nothing, Whole, Kept, AllDocsOf
  <2>2. Committed(c)'
    BY <1>1, <1>4, <2>1 DEF CallInv, Committed, InTransaction
  <2>3. Refers(c)'
    BY <1>1, <1>2 DEF Refers, Saving
  <2>4. QED
    BY <2>2, <2>3
<1>8. ASSUME NEW d \in FileCall, d # c PROVE CallInv(d)'
  <2>1. \A e \in FileCall : fileStep[e] = "done" =>
            fileStep'[e] = "done" /\ fileRequest'[e] = fileRequest[e]
    BY <1>1 DEF FileTypeOK
  <2>2. /\ fileStep'[d] = fileStep[d] /\ inserted'[d] = inserted[d]
        /\ files' \subseteq File /\ deleted' \subseteq File /\ Kept' = Kept
    BY <1>1, <1>8 DEF FileTypeOK, Kept
  <2>3. QED
    BY <1>2, <2>1, <2>2, CallKeeps
<1>9. ASSUME NEW f \in File PROVE DiskInv(f)'
  <2>1. DiskInv(f) /\ DiskInv(g) /\ inserted' \in [FileCall -> Nat] /\ f[1] \in FileCall
        /\ f[2] \in Nat
    BY <1>3, <1>5, FileIsPair, FileAssumption DEF FileInv, FileTypeOK
  <2>2. g \notin deleted
    BY <1>1, <1>3 DEF CallInv, Committed, Nothing, Kept, InTransaction
  <2>3. CASE f = g
    <3>1. copy'[f] = "queued" /\ f[2] <= inserted'[f[1]]
      BY <1>1, <1>2, <1>3, <2>3 DEF FileTypeOK
    <3>2. disk[f] = "absent"
      BY <1>1, <1>3, <2>1, <2>3 DEF DiskInv, FileTypeOK
    <3>3. QED
      BY <2>1, <2>2, <2>3, <3>1, <3>2 DEF DiskInv
  <2>4. CASE f # g
    <3>1. copy'[f] = copy[f]
      BY <1>1, <2>4 DEF FileTypeOK
    <3>2. (f[2] <= inserted'[f[1]] <=> f[2] <= inserted[f[1]]) /\ Kept' = Kept
      <4>1. f[1] = c => f[2] # inserted[c] + 1
        BY <2>4, FileIsPair
      <4>2. QED
        BY <1>1, <1>2, <2>1, <4>1 DEF FileTypeOK, Kept
    <3>3. QED
      BY <2>1, <3>1, <3>2 DEF DiskInv
  <2>5. QED
    BY <2>3, <2>4
<1>10. CallInv(c)'
  BY <1>6, <1>7 DEF CallInv
<1>11. QED
  BY <1>5, <1>8, <1>9, <1>10 DEF FileInv

----------------------------------------------------------------------------
(* The commit, which a death may cut off from its call.                     *)

\* At its commit a call has inserted all of its documents.
LEMMA DocsAreAll ==
    ASSUME FileInv, NEW c \in FileCall, fileStep[c] = "commit"
    PROVE  /\ Saving(c) /\ Nothing(c)
           /\ DocsOf(c) = {f \in File : f[1] = c /\ f[2] <= fileRequest[c].count}
<1>1. FileTypeOK /\ CallInv(c) /\ Saving(c)
  BY DEF FileInv, CallInv, Placed, InTransaction
<1>2. inserted[c] = fileRequest[c].count /\ inserted[c] \in 0..MaxFiles
  BY <1>1, SavingRequest DEF CallInv, Counted
<1>3. QED
  BY <1>1, <1>2, DocsOfCall DEF CallInv, Committed, InTransaction

\* A call that ends with an error, its documents committed or not.
LEMMA CallEnds ==
    ASSUME FileInv, NEW c \in FileCall,
           fileStep[c] \in FileRunning,
           fileStep'[c] = "error",
           UNCHANGED <<fileRequest, inserted, filesOf>>,
           Kept \subseteq Kept',
           \/ \A f \in Kept' : f[1] = c => f \in Kept
           \/ fileStep[c] = "commit" /\ DocsOf(c) \subseteq Kept',
           \A d \in FileCall : fileStep[d] = "done" => fileStep'[d] = "done"
    PROVE  CallInv(c)'
<1>1. CallInv(c) /\ FileTypeOK /\ fileStep[c] # "none"
  BY DEF FileInv, FileRunning, InTransaction
<1>2. (Saving(c)' <=> Saving(c)) /\ AllDocsOf(c)' = AllDocsOf(c)
  BY <1>1 DEF Saving, AllDocsOf
<1>3. Whole(c) => Whole(c)'
  BY DEF Whole
<1>4. (Nothing(c) /\ Nothing(c)') \/ (Nothing(c) /\ Whole(c)' /\ Saving(c)) \/ (Saving(c) /\ Whole(c))
  <2>1. CASE \A f \in Kept' : f[1] = c => f \in Kept
    BY <1>1, <2>1 DEF CallInv, Committed, Nothing
  <2>2. CASE fileStep[c] = "commit" /\ DocsOf(c) \subseteq Kept'
    BY <2>2, DocsAreAll DEF Whole
  <2>3. QED
    BY <2>1, <2>2
<1>5. Placed(c)' /\ Counted(c)'
  BY <1>1, <1>2 DEF CallInv, Placed, Counted, InTransaction
<1>6. Committed(c)'
  BY <1>1, <1>2, <1>3, <1>4 DEF CallInv, Committed, InTransaction
<1>7. Refers(c)'
  <2>1. ASSUME fileRequest[c].op \in {"getStorageFile", "deleteStorageFile"}
        PROVE  fileRequest[c].file \in File
    BY <1>1, <2>1 DEF FileTypeOK, KnownRequests
  <2>2. QED
    BY <1>1, <2>1, FileIsPair DEF CallInv, Refers, Saving
<1>8. QED
  BY <1>5, <1>6, <1>7 DEF CallInv

LEMMA CommitFilesStep ==
    ASSUME FileInv, NEW c \in FileCall, CommitTransaction(c)
    PROVE  FileInv'
<1> USE DEF CommitTransaction, FileGoes, diskVars
<1>1. FileTypeOK /\ CallInv(c) /\ fileStep[c] = "commit"
  BY DEF FileInv
<1>2. /\ UNCHANGED <<fileRequest, inserted, deleted, filesOf, copy, removing, disk, strays>>
      /\ fileStep' = [fileStep EXCEPT ![c] = fileStep'[c]]
      /\ \/ fileStep'[c] = "movie" \/ fileStep'[c] = "reply" \/ fileStep'[c] = "error"
      /\ \/ files' = files \cup DocsOf(c)
         \/ files' = files /\ fileStep'[c] = "error"
  BY <1>1 DEF FileTypeOK
<1>3. /\ Saving(c) /\ Nothing(c)
      /\ DocsOf(c) = {f \in File : f[1] = c /\ f[2] <= fileRequest[c].count}
  BY <1>1, DocsAreAll
<1>4. FileTypeOK'
  BY <1>1, <1>2, <1>3 DEF FileTypeOK, FileRunning
<1>5. \A d \in FileCall : fileStep[d] = "done" => fileStep'[d] = "done"
  BY <1>1, <1>2 DEF FileTypeOK
<1>6. Kept \subseteq Kept' /\ \A f \in Kept' : f[1] = c \/ f \in Kept
  BY <1>2, <1>3 DEF Kept
<1>7. ASSUME NEW d \in FileCall, d # c PROVE CallInv(d)'
  <2>1. \A f \in File : f[1] = d => (f \in Kept' <=> f \in Kept)
    BY <1>6, <1>7
  <2>2. fileStep'[d] = fileStep[d] /\ files' \subseteq File /\ deleted' \subseteq File
        /\ deleted \subseteq deleted'
    BY <1>1, <1>2, <1>4, <1>7 DEF FileTypeOK
  <2>3. QED
    BY <1>2, <1>5, <2>1, <2>2, CallKeeps
<1>8. CallInv(c)'
  <2>1. CASE fileStep'[c] = "error"
    <3>1. (\A f \in Kept' : f[1] = c => f \in Kept) \/ DocsOf(c) \subseteq Kept'
      BY <1>2 DEF Kept
    <3>2. fileStep[c] \in FileRunning
      BY <1>1 DEF FileRunning, InTransaction
    <3>3. QED
      BY <1>1, <1>2, <1>5, <1>6, <2>1, <3>1, <3>2, CallEnds
  <2>2. CASE fileStep'[c] \in {"movie", "reply"}
    <3>1. (Saving(c)' <=> Saving(c)) /\ AllDocsOf(c)' = AllDocsOf(c)
      BY <1>1, <1>2, <2>2 DEF Saving, AllDocsOf
    <3>2. Whole(c)'
      BY <1>2, <1>3, <2>2 DEF Whole, Kept
    <3>3. Placed(c)' /\ Counted(c)'
      BY <1>1, <1>2, <1>3, <2>2, <3>1 DEF CallInv, Placed, Counted, InTransaction
    <3>4. Committed(c)'
      BY <1>1, <1>2, <1>3, <2>2, <3>1, <3>2 DEF CallInv, Committed, InTransaction
    <3>5. Refers(c)'
      BY <1>2, <1>3 DEF Refers, Saving
    <3>6. QED
      BY <3>3, <3>4, <3>5 DEF CallInv
  <2>3. QED
    BY <1>2, <2>1, <2>2
<1>9. ASSUME NEW f \in File PROVE DiskInv(f)'
  <2>1. f \in deleted => f \notin DocsOf(c)
    BY <1>3 DEF Nothing, Kept
  <2>2. DiskInv(f)
    BY DEF FileInv
  <2>3. f \in DocsOf(c) => f[2] <= inserted[f[1]]
    BY <1>1, <1>3 DEF CallInv, Counted
  <2>4. QED
    BY <1>2, <2>1, <2>2, <2>3 DEF DiskInv, Kept
<1>10. QED
  BY <1>4, <1>7, <1>8, <1>9 DEF FileInv

LEMMA DieStep == ASSUME FileInv, Die PROVE FileInv'
<1> USE DEF Die
<1>1. FileTypeOK /\ UNCHANGED <<fileRequest, inserted, deleted, filesOf, disk>>
  BY DEF FileInv
<1>2. PICK cs \in SUBSET {c \in FileCall : fileStep[c] = "commit"} :
          files' = files \cup UNION {DocsOf(c) : c \in cs}
  OBVIOUS
<1>3. \A c \in cs : DocsOf(c) = {f \in File : f[1] = c /\ f[2] <= fileRequest[c].count}
  BY DocsAreAll
<1>4. \A c \in cs : Nothing(c)
  BY DocsAreAll
<1>5. Kept \subseteq Kept' /\ \A f \in Kept' : f[1] \in cs \/ f \in Kept
  BY <1>1, <1>2, <1>3 DEF Kept
<1>6. FileTypeOK'
  <2>1. files' \subseteq File
    BY <1>1, <1>2, <1>3 DEF FileTypeOK
  <2>2. QED
    BY <1>1, <2>1 DEF FileTypeOK, FileRunning, InTransaction
<1>7. \A d \in FileCall : fileStep[d] = "done" => fileStep'[d] = "done"
  BY <1>1 DEF FileRunning, InTransaction
<1>8. ASSUME NEW c \in FileCall PROVE CallInv(c)'
  <2>1. CASE fileStep[c] \in FileRunning \ {"open"}
    <3>1. fileStep'[c] = "error"
      BY <2>1
    <3>2. c \in cs => DocsOf(c) \subseteq Kept'
      BY <1>2 DEF Kept
    <3>3. c \notin cs => \A f \in Kept' : f[1] = c => f \in Kept
      BY <1>5
    <3>4. c \in cs => fileStep[c] = "commit"
      OBVIOUS
    <3>5. QED
      BY <1>1, <1>5, <1>7, <2>1, <3>1, <3>2, <3>3, <3>4, CallEnds
  <2>2. CASE fileStep[c] \notin FileRunning \ {"open"}
    <3>1. fileStep'[c] = fileStep[c] /\ c \notin cs
      BY <2>2 DEF FileRunning, InTransaction
    <3>2. \A f \in File : f[1] = c => (f \in Kept' <=> f \in Kept)
      BY <1>5, <3>1
    <3>3. files' \subseteq File /\ deleted' \subseteq File
      BY <1>6 DEF FileTypeOK
    <3>4. QED
      BY <1>1, <1>7, <3>1, <3>2, <3>3, CallKeeps
  <2>3. QED
    BY <2>1, <2>2
<1>9. ASSUME NEW f \in File PROVE DiskInv(f)'
  <2>1. f \in deleted => f \notin files'
    BY <1>2, <1>3, <1>4 DEF Nothing, Kept, FileInv, DiskInv
  <2>2. DiskInv(f) /\ copy[f] \in {"none", "queued", "writing", "done", "cut"}
    BY <1>1 DEF FileInv, FileTypeOK
  <2>3. copy'[f] = IF copy[f] \in {"queued", "writing"} THEN "cut" ELSE copy[f]
    OBVIOUS
  <2>4. f[1] \in cs /\ f \in DocsOf(f[1]) => f[2] <= inserted[f[1]]
    BY <1>3, DocsAreAll DEF FileInv, CallInv, Counted
  <2>5. f \in Kept' => f \in Kept \/ (f[1] \in cs /\ f \in DocsOf(f[1]))
    BY <1>1, <1>2, <1>3 DEF Kept
  <2>6. QED
    BY <1>1, <2>1, <2>2, <2>3, <2>4, <2>5 DEF DiskInv
<1>10. QED
  BY <1>6, <1>8, <1>9 DEF FileInv

----------------------------------------------------------------------------
(* Movies, deletions and the disk.                                          *)

LEMMA InsertMovieStep ==
    ASSUME FileInv, NEW c \in FileCall, InsertMovie(c)
    PROVE  FileInv'
<1> USE DEF InsertMovie, FileGoes, diskVars
<1>1. FileTypeOK /\ CallInv(c) /\ fileStep[c] = "movie" /\ Saving(c) /\ Whole(c)
  BY DEF FileInv, CallInv, Placed, Committed, InTransaction
<1>2. fileStep'[c] = "reply" /\ (Saving(c)' <=> Saving(c)) /\ Kept' = Kept
      /\ (Whole(c)' <=> Whole(c)) /\ (Nothing(c)' <=> Nothing(c)) /\ AllDocsOf(c)' = AllDocsOf(c)
  BY <1>1 DEF FileTypeOK, Saving, Kept, Whole, Nothing, AllDocsOf
<1>3. DocsOf(c) = AllDocsOf(c)
  BY <1>1 DEF CallInv, Counted, DocsOf, AllDocsOf
<1>4. FileTypeOK'
  BY <1>1 DEF FileTypeOK, FileRunning
<1>5. Placed(c)' /\ Counted(c)' /\ Refers(c)'
  BY <1>1, <1>2 DEF CallInv, Placed, Counted, Refers, Saving, InTransaction
<1>6. filesOf'[c] = DocsOf(c)
  OBVIOUS
<1>7. Committed(c)'
  BY <1>1, <1>2, <1>3, <1>6 DEF CallInv, Committed, InTransaction
<1>8. ASSUME NEW d \in FileCall, d # c PROVE CallInv(d)'
  <2>1. \A e \in FileCall : fileStep[e] = "done" => fileStep'[e] = "done"
    BY <1>1 DEF FileTypeOK
  <2>2. /\ fileStep'[d] = fileStep[d] /\ files' \subseteq File /\ deleted' \subseteq File
        /\ deleted \subseteq deleted'
        /\ d \in DOMAIN filesOf' => d \in DOMAIN filesOf /\ filesOf'[d] = filesOf[d]
    BY <1>1, <1>8 DEF FileTypeOK
  <2>3. QED
    BY <1>2, <2>1, <2>2, CallKeeps
<1>9. CallInv(c)'
  BY <1>5, <1>7 DEF CallInv
<1>10. QED
  BY <1>4, <1>8, <1>9, DiskKeeps DEF FileInv

LEMMA DeleteMovieStep ==
    ASSUME FileInv, NEW c \in FileCall, DeleteMovie(c)
    PROVE  FileInv'
<1> USE DEF DeleteMovie, FileGoes, diskVars
<1>1. FileTypeOK /\ CallInv(c) /\ fileStep[c] = "removeMovie" /\ ~Saving(c)
  BY DEF FileInv, CallInv, Placed, Saving
<1>2. fileStep'[c] = "reply" /\ ~Saving(c)' /\ Kept' = Kept /\ (Nothing(c)' <=> Nothing(c))
  BY <1>1 DEF FileTypeOK, Saving, Kept, Nothing
<1>3. \A d \in DOMAIN filesOf' : d \in DOMAIN filesOf /\ filesOf'[d] = filesOf[d]
  OBVIOUS
<1>4. FileTypeOK'
  BY <1>1 DEF FileTypeOK, FileRunning
<1>5. ASSUME NEW d \in FileCall, d # c PROVE CallInv(d)'
  <2>1. \A e \in FileCall : fileStep[e] = "done" => fileStep'[e] = "done"
    BY <1>1 DEF FileTypeOK
  <2>2. fileStep'[d] = fileStep[d] /\ files' \subseteq File /\ deleted' \subseteq File
        /\ deleted \subseteq deleted'
    BY <1>1, <1>5 DEF FileTypeOK
  <2>3. QED
    BY <1>2, <1>3, <2>1, <2>2, CallKeeps
<1>6. Placed(c)' /\ Counted(c)' /\ Committed(c)'
  BY <1>1, <1>2, <1>3 DEF CallInv, Placed, Counted, Committed, InTransaction
<1>7. Refers(c)'
  <2>1. fileRequest[c].op \notin {"getStorageFile", "deleteStorageFile"} \/ Refers(c)
    BY <1>1 DEF CallInv
  <2>2. fileRequest[c].op \in {"getStorageFile", "deleteStorageFile"} => fileRequest[c].file \in File
    BY <1>1 DEF FileTypeOK, KnownRequests
  <2>3. QED
    BY <1>1, <2>1, <2>2, FileIsPair DEF Refers, Saving, FileTypeOK
<1>8. CallInv(c)'
  BY <1>6, <1>7 DEF CallInv
<1>9. QED
  BY <1>4, <1>5, <1>8, DiskKeeps DEF FileInv

\* A deletion moves a document from `files' to `deleted', if it is still there.
LEMMA DeleteFileStep ==
    ASSUME FileInv, NEW c \in FileCall, DeleteStorageFile(c)
    PROVE  FileInv'
<1> USE DEF DeleteStorageFile, FileGoes, diskVars
<1> DEFINE g == fileRequest[c].file
<1>1. FileTypeOK /\ CallInv(c) /\ fileStep[c] = "remove" /\ ~Saving(c)
  BY DEF FileInv, CallInv, Placed, Saving
<1>2. g \in Kept /\ g \in File
  <2>1. /\ fileRequest[c] \in KnownRequests /\ Refers(c)
        /\ fileRequest[c].op \in {"getStorageFile", "deleteStorageFile"}
    BY <1>1 DEF FileTypeOK, CallInv, Placed
  <2>2. g \in File /\ g[1] \in FileCall /\ g = <<g[1], g[2]>>
    BY <2>1, FileIsPair DEF KnownRequests
  <2>3. Whole(g[1]) /\ g[2] <= fileRequest[g[1]].count
    BY <1>1, <2>1, <2>2 DEF Refers, FileInv, CallInv, Committed
  <2>4. QED
    BY <2>2, <2>3 DEF Whole
<1>3. Kept' = Kept /\ files' \subseteq File /\ deleted' \subseteq File
  BY <1>1, <1>2 DEF Kept, FileTypeOK
<1>4. fileStep'[c] = "unlink" /\ ~Saving(c)' /\ (Nothing(c)' <=> Nothing(c))
  BY <1>1, <1>3 DEF FileTypeOK, Saving, Nothing
<1>5. FileTypeOK'
  BY <1>1, <1>3 DEF FileTypeOK, FileRunning
<1>6. \A e \in FileCall : fileStep[e] = "done" => fileStep'[e] = "done"
  BY <1>1 DEF FileTypeOK
<1>7. ASSUME NEW d \in FileCall, d # c PROVE CallInv(d)'
  <2>1. fileStep'[d] = fileStep[d]
    BY <1>1, <1>7 DEF FileTypeOK
  <2>2. QED
    BY <1>3, <1>6, <2>1, CallKeeps
<1>8. Placed(c)' /\ Counted(c)' /\ Committed(c)'
  BY <1>1, <1>4 DEF CallInv, Placed, Counted, Committed, InTransaction
<1>9. Refers(c)'
  BY <1>1, <1>2, <1>6, FileIsPair DEF CallInv, Refers, Saving
<1>10. ASSUME NEW f \in File PROVE DiskInv(f)'
  <2>1. DiskInv(f)
    BY DEF FileInv
  <2>2. CASE f # g
    BY <1>3, <2>1, <2>2 DEF DiskInv
  <2>3. CASE f = g
    BY <1>3, <2>1, <2>3 DEF DiskInv
  <2>4. QED
    BY <2>2, <2>3
<1>11. CallInv(c)'
  BY <1>8, <1>9 DEF CallInv
<1>12. QED
  BY <1>5, <1>7, <1>10, <1>11 DEF FileInv

LEMMA DiskStepKeeps ==
    ASSUME FileInv, NEW g \in File, DiskStep(g)
    PROVE  FileInv'
<1> USE DEF DiskStep, StartCopy, FinishCopy, RemoveFile, SetDisk, collectionVars
<1>1. FileTypeOK /\ DiskInv(g)
  BY DEF FileInv
<1>2. /\ \A f \in File \ {g} : copy'[f] = copy[f] /\ disk'[f] = disk[f]
      /\ removing' \subseteq removing /\ removing \subseteq removing' \cup {g}
      /\ strays \subseteq strays'
  BY <1>1 DEF FileTypeOK
<1>3. FileTypeOK'
  BY <1>1 DEF FileTypeOK
<1>4. \A c \in FileCall : CallInv(c)'
  BY <1>3, CallKeeps DEF FileTypeOK, Kept
<1>5. DiskInv(g)'
  <2>1. CASE StartCopy(g)
    BY <1>1, <2>1 DEF DiskInv, FileTypeOK, Kept
  <2>2. CASE FinishCopy(g)
    BY <1>1, <2>2 DEF DiskInv, FileTypeOK, Kept
  <2>3. CASE RemoveFile(g)
    BY <1>1, <2>3 DEF DiskInv, FileTypeOK, Kept
  <2>4. QED
    BY <2>1, <2>2, <2>3
<1>6. ASSUME NEW f \in File \ {g} PROVE DiskInv(f)'
  BY <1>2, <1>6 DEF FileInv, DiskInv, Kept
<1>7. QED
  BY <1>3, <1>4, <1>5, <1>6 DEF FileInv

LEMMA NextFiles == FileInv /\ [FileNext]_fileVars => FileInv'
<1>1. ASSUME FileInv, UNCHANGED fileVars PROVE FileInv'
  <2>1. UNCHANGED <<fileRequest, fileStep, inserted, files, deleted, filesOf, copy, removing, disk,
                    strays>>
    BY <1>1 DEF fileVars, collectionVars, diskVars
  <2>2. FileTypeOK'
    BY <1>1, <2>1 DEF FileInv, FileTypeOK
  <2>3. \A c \in FileCall : CallInv(c)'
    BY <1>1, <2>1, <2>2, CallKeeps DEF FileTypeOK, Kept
  <2>4. QED
    BY <1>1, <2>1, <2>2, <2>3, DiskKeeps DEF FileInv
<1>2. ASSUME FileInv, FileNext PROVE FileInv'
  <2>1. ASSUME NEW c \in FileCall, FileStep(c) PROVE FileInv'
    BY <1>2, <2>1, QuietStep, InsertDocStep, CommitFilesStep, InsertMovieStep, DeleteFileStep,
       DeleteMovieStep DEF FileStep
  <2>2. QED
    BY <1>2, <2>1, SaveFilesStep, QuietStep, DiskStepKeeps, DieStep DEF FileNext
<1>3. QED
  BY <1>1, <1>2

\* What is known of each call and each file holds throughout, whatever fails.
THEOREM FileInvariant == FileSpec => []FileInv
BY InitFiles, NextFiles, PTL DEF FileSpec

----------------------------------------------------------------------------

\* saveFiles and createMovie leave the documents of all their files or of none, and an answer
\* or a movie means all: for any number of calls, files and deaths, and an error anywhere.
THEOREM FilesAreAllOrNothing == FileSpec => []FilesAllOrNothing
<1>1. ASSUME FileInv PROVE FilesAllOrNothing
  <2>1. SUFFICES ASSUME NEW c \in FileCall, Saving(c)
                 PROVE  LET kept == AllDocsOf(c) \cap (files \cup deleted)
                        IN  /\ kept \in {{}, AllDocsOf(c)}
                            /\ fileStep[c] = "done" \/ c \in DOMAIN filesOf => kept = AllDocsOf(c)
                            /\ c \in DOMAIN filesOf => filesOf[c] = AllDocsOf(c)
    BY DEF FilesAllOrNothing
  <2>2. Committed(c) /\ AllDocsOf(c) = {f \in File : f[1] = c /\ f[2] <= fileRequest[c].count}
    BY <1>1, <2>1, SavingRequest, AllDocsOfCall DEF FileInv, CallInv
  <2>3. Whole(c) => AllDocsOf(c) \cap (files \cup deleted) = AllDocsOf(c)
    BY <2>2 DEF Whole, Kept
  <2>4. Nothing(c) => AllDocsOf(c) \cap (files \cup deleted) = {}
    BY <2>2 DEF Nothing, Kept
  <2>5. QED
    BY <2>1, <2>2, <2>3, <2>4 DEF Committed
<1>2. QED
  BY <1>1, FileInvariant, PTL

\* The deletions that are applied and not disposed of yet: of one call at a time.
LEMMA UnlinkingOfOthers ==
    ASSUME NEW c \in FileCall,
           \A d \in FileCall \ {c} : fileStep'[d] = fileStep[d] /\ fileRequest'[d] = fileRequest[d]
    PROVE  /\ Unlinking \subseteq Unlinking' \cup {fileRequest[c].file}
           /\ fileStep[c] # "unlink" => Unlinking \subseteq Unlinking'
BY DEF Unlinking

\* A step that deletes nothing, disposes of no less than before, and writes no deleted file
\* but one whose copy was queued.
LEMMA DisposedStays ==
    ASSUME Disposed, deleted' = deleted,
           Unlinking \cup removing \cup strays \subseteq (Unlinking \cup removing \cup strays)',
           \A f \in deleted : copy[f] # "queued" /\ disk[f] = "absent" =>
                                 copy'[f] # "queued" /\ disk'[f] = "absent"
    PROVE  Disposed'
BY DEF Disposed

\* The steps of calls that leave the disk alone, deletions among them.
LEMMA CallDisposes ==
    ASSUME FileInv, Disposed, NEW c \in FileCall, FileStep(c) \/ FileCallFails(c)
    PROVE  Disposed'
<1> USE DEF FileGoes, collectionVars, diskVars
<1>1. FileTypeOK /\ CallInv(c)
  BY DEF FileInv
<1>2. \A d \in FileCall \ {c} : fileStep'[d] = fileStep[d] /\ fileRequest'[d] = fileRequest[d]
  BY <1>1 DEF FileStep, StartSession, GetChecksum, CreateStorageFile, CommitTransaction,
     AbortTransaction, InsertMovie, FindFile, OpenFile, DeleteStorageFile, DeletePath, FindMovie,
     DeleteMovie, FileReply, FileCallFails, FileTypeOK
<1>3. CASE CreateStorageFile(c)
  <2>1. fileStep[c] = "insert" /\ UNCHANGED <<deleted, removing, disk, strays>>
        /\ \A f \in File : copy'[f] = copy[f] \/ f[1] = c
    BY <1>1, <1>3 DEF CreateStorageFile, FileTypeOK
  <2>2. \A f \in deleted : f \in File /\ f[1] # c
    BY <1>1, <2>1 DEF CallInv, Placed, Committed, Nothing, Kept, InTransaction, FileTypeOK
  <2>3. Unlinking \subseteq Unlinking'
    BY <1>2, <2>1, UnlinkingOfOthers
  <2>4. QED
    BY <2>1, <2>2, <2>3, DisposedStays
<1>4. CASE DeleteStorageFile(c)
  <2>1. /\ fileStep[c] = "remove" /\ fileStep'[c] = "unlink"
        /\ UNCHANGED <<fileRequest, removing, disk, strays, copy>>
        /\ deleted' = deleted \cup {fileRequest[c].file}
    BY <1>1, <1>4 DEF DeleteStorageFile, FileTypeOK
  <2>2. Unlinking \subseteq Unlinking' /\ fileRequest[c].file \in Unlinking'
    <3>1. Unlinking \subseteq Unlinking'
      BY <1>2, <2>1, UnlinkingOfOthers
    <3>2. fileRequest'[c].file \in Unlinking'
      BY <2>1 DEF Unlinking
    <3>3. QED
      BY <2>1, <3>1, <3>2
  <2>3. QED
    BY <2>1, <2>2 DEF Disposed
<1>5. CASE FileCallFails(c) \/ DeletePath(c)
  <2>1. UNCHANGED <<deleted, disk, copy>>
    BY <1>5 DEF FileCallFails, DeletePath
  <2>2. /\ removing \subseteq removing' /\ strays \subseteq strays'
        /\ fileStep[c] = "unlink" => fileRequest[c].file \in removing' \cup strays'
    BY <1>5 DEF FileCallFails, DeletePath
  <2>3. Unlinking \subseteq Unlinking' \cup removing' \cup strays'
    BY <1>2, <2>2, UnlinkingOfOthers
  <2>4. QED
    BY <2>1, <2>2, <2>3, DisposedStays
<1>6. CASE /\ fileStep[c] # "unlink"
           /\ UNCHANGED <<deleted, copy, removing, disk, strays>>
  <2>1. Unlinking \subseteq Unlinking'
    BY <1>2, <1>6, UnlinkingOfOthers
  <2>2. QED
    BY <1>6, <2>1, DisposedStays
<1>7. \/ CreateStorageFile(c) \/ DeleteStorageFile(c) \/ FileCallFails(c) \/ DeletePath(c)
      \/ fileStep[c] # "unlink" /\ UNCHANGED <<deleted, copy, removing, disk, strays>>
  BY DEF FileStep, StartSession, GetChecksum, CommitTransaction, AbortTransaction, InsertMovie,
     FindFile, OpenFile, FindMovie, DeleteMovie, FileReply
<1>8. QED
  BY <1>3, <1>4, <1>5, <1>6, <1>7

LEMMA NextDisposed == FileInv /\ Disposed /\ [FileNext]_fileVars => Disposed'
<1> SUFFICES ASSUME FileInv, Disposed, [FileNext]_fileVars PROVE Disposed'
  OBVIOUS
<1>1. FileTypeOK /\ deleted \subseteq File
  BY DEF FileInv, FileTypeOK
<1>2. ASSUME NEW c \in FileCall, NEW r \in FileRequests, BeginFileCall(c, r) PROVE Disposed'
  <2>1. /\ \A d \in FileCall \ {c} : fileStep'[d] = fileStep[d] /\ fileRequest'[d] = fileRequest[d]
        /\ fileStep[c] # "unlink" /\ UNCHANGED <<deleted, copy, removing, disk, strays>>
    BY <1>1, <1>2 DEF BeginFileCall, FileTypeOK, collectionVars, diskVars
  <2>2. Unlinking \subseteq Unlinking'
    BY <2>1, UnlinkingOfOthers
  <2>3. QED
    BY <2>1, <2>2, DisposedStays
<1>3. ASSUME NEW g \in File, DiskStep(g) PROVE Disposed'
  <2> USE DEF DiskStep, SetDisk
  <2>1. UNCHANGED <<fileRequest, fileStep, deleted>> /\ Unlinking' = Unlinking
    BY <1>3 DEF collectionVars, Unlinking
  <2>2. CASE StartCopy(g)
    BY <1>1, <2>1, <2>2, DisposedStays DEF StartCopy, FileTypeOK
  <2>3. CASE FinishCopy(g)
    BY <1>1, <2>1, <2>3, DisposedStays DEF FinishCopy, FileTypeOK
  <2>4. CASE RemoveFile(g)
    <3>1. /\ removing' = removing \ {g} /\ disk' = [disk EXCEPT ![g] = "absent"] /\ copy' = copy
          /\ strays' = IF copy[g] = "queued" THEN strays \cup {g} ELSE strays
      BY <2>4 DEF RemoveFile
    <3>2. QED
      BY <1>1, <2>1, <3>1 DEF Disposed, FileTypeOK
  <2>5. QED
    BY <1>3, <2>2, <2>3, <2>4
<1>4. CASE Die
  <2>1. /\ UNCHANGED <<deleted, disk>> /\ strays' = strays \cup removing \cup Unlinking
        /\ \A f \in File : copy'[f] # "queued"
    BY <1>4 DEF Die
  <2>2. QED
    BY <1>1, <2>1, DisposedStays
<1>5. CASE UNCHANGED fileVars
  BY <1>5 DEF fileVars, collectionVars, diskVars, Disposed, Unlinking
<1>6. QED
  BY <1>2, <1>3, <1>4, <1>5, CallDisposes DEF FileNext

THEOREM DisposedInvariant == FileSpec => []Disposed
<1>1. FileInit => Disposed
  BY DEF FileInit, Disposed
<1>2. QED
  BY <1>1, FileInvariant, NextDisposed, PTL DEF FileSpec

\* The disk and the collection differ only for the named reasons: copies and removals under
\* way, a removal that overtook its copy, a death or a lost reply before it was asked for.
THEOREM DiskIsExplained == FileSpec => []DiskFollowsDocuments
<1>1. ASSUME FileInv, Disposed PROVE DiskFollowsDocuments
  <2>1. SUFFICES ASSUME NEW f \in File
                 PROVE  /\ disk[f] # "absent" =>
                              \/ f \in files \/ fileStep[f[1]] # "done"
                              \/ f \in deleted \cap (Unlinking \cup removing \cup strays)
                        /\ f \in files =>
                              disk[f] = "whole" \/ copy[f] \in {"queued", "writing", "cut"}
    BY DEF DiskFollowsDocuments
  <2>2. DiskInv(f) /\ f[1] \in FileCall /\ f[2] \in 1..MaxFiles /\ CallInv(f[1]) /\ FileTypeOK
    BY <1>1, FileIsPair DEF FileInv
  <2>3. ASSUME disk[f] # "absent", fileStep[f[1]] = "done" PROVE f \in Kept
    <3>1. f[2] <= inserted[f[1]]
      BY <2>2, <2>3 DEF DiskInv, FileTypeOK
    <3>2. Saving(f[1]) /\ inserted[f[1]] = fileRequest[f[1]].count
      BY <2>2, <2>3, <3>1, FileAssumption DEF CallInv, Counted
    <3>3. QED
      BY <2>2, <2>3, <3>1, <3>2 DEF CallInv, Committed, Whole
  <2>4. f \in files => copy[f] # "none"
    BY <2>2 DEF DiskInv, Kept
  <2>5. QED
    BY <1>1, <2>2, <2>3, <2>4 DEF DiskInv, FileTypeOK, Kept, Disposed
<1>2. QED
  BY <1>1, FileInvariant, DisposedInvariant, PTL

----------------------------------------------------------------------------

\* Before the transaction has begun there is nothing to settle.
Fresh(x) ==
    /\ txStep[x] \in {"none", "connect", "start"} =>
          /\ x \notin active \cup rollbackRequested /\ changes[x] = 0
          /\ \A k \in Connection : x \notin holds[k]
    /\ txStep[x] \in {"none", "connect"} => connection[x] = NoConnection

\* Until it is committed nothing is in the database, and its connection holds the changes.
Open(x) ==
    /\ txStep[x] \in InTry \cup {"none"} => committed[x] = 0 /\ outcome[x] = "result"
    /\ txStep[x] = "commit" => x \notin rollbackRequested
    /\ txStep[x] = "rollback" => x \in rollbackRequested
    /\ txStep[x] \in {"task", "change", "commit", "rollback"} =>
          x \in active /\ (Connected(x) => x \in holds[connection[x]])

\* What a connection holds is the business of the execution that has it: until the catch
\* block was not able to roll it back, and it is given away.
Pending(x) ==
    \A k \in Connection : x \in holds[k] =>
        /\ x \in active
        /\ connection[x] = k \/ txStep[x] = "failed"
        /\ txStep[x] # "done"
        /\ txStep[x] \in {"release", "failed"} => x \in rollbackRejected /\ outcome[x] = "error"

\* Once it is settled, a result tells whether the changes are there; nothing of a task that
\* has asked for a rollback is, unless it was given away.
Settling(x) ==
    /\ committed[x] \in {0, changes[x]}
    /\ txStep[x] \in {"release", "done"} /\ outcome[x] = "result" =>
          committed[x] = IF x \in rollbackRequested THEN 0 ELSE changes[x]
    /\ x \in rollbackRequested /\ committed[x] # 0 =>
          txStep[x] = "failed" /\ x \in rollbackRejected
    /\ txStep[x] = "recover" => outcome[x] = "error"
    /\ txStep[x] = "done" => outcome[x] = "result"
    /\ txStep[x] \in {"done", "failed"} /\ Connected(x) => x \in releaseRejected

Settled(x) == Fresh(x) /\ Open(x) /\ Pending(x) /\ Settling(x)

Pool == \A x, y \in Execution : Connected(x) /\ connection[x] = connection[y] => x = y

TxInv ==
    /\ TxTypeOK
    /\ \A x \in Execution : Settled(x)
    /\ Pool

----------------------------------------------------------------------------

LEMMA InitTx == TxInit => TxInv
<1> SUFFICES ASSUME TxInit PROVE TxInv
  OBVIOUS
<1>1. TxTypeOK /\ Pool
  BY DEF TxInit, TxTypeOK, TxRunning, Pool, Connected
<1>2. \A x \in Execution : Settled(x)
  BY DEF TxInit, Settled, Fresh, Open, Pending, Settling, Connected, InTry
<1>3. QED
  BY <1>1, <1>2 DEF TxInv

\* A step of one execution changes of the others at most what its own connection holds of
\* them.
Alone(x) ==
    /\ \A y \in Execution \ {x} :
          /\ txStep'[y] = txStep[y]
          /\ outcome'[y] = outcome[y]
          /\ changes'[y] = changes[y]
          /\ connection'[y] = connection[y]
          /\ y \in active' <=> y \in active
          /\ y \in rollbackRequested' <=> y \in rollbackRequested
          /\ y \in rollbackRejected' <=> y \in rollbackRejected
          /\ y \in releaseRejected' <=> y \in releaseRejected
          /\ \/ committed'[y] = committed[y]
             \/ Connected(x) /\ y \in holds[connection[x]] /\ committed'[y] = changes[y]
    /\ \A k \in Connection : holds'[k] \subseteq holds[k] \cup {x}
    /\ \A k \in Connection \ {connection[x]} : holds'[k] = holds[k]

LEMMA OthersStay ==
    ASSUME TxInv, NEW x \in Execution, Alone(x), NEW y \in Execution \ {x}
    PROVE  Settled(y)'
<1>1. /\ txStep'[y] = txStep[y] /\ outcome'[y] = outcome[y] /\ changes'[y] = changes[y]
      /\ connection'[y] = connection[y]
      /\ y \in active' <=> y \in active
      /\ y \in rollbackRequested' <=> y \in rollbackRequested
      /\ y \in rollbackRejected' <=> y \in rollbackRejected
      /\ y \in releaseRejected' <=> y \in releaseRejected
  BY DEF Alone
<1>2. \A k \in Connection : y \in holds'[k] => y \in holds[k]
  BY DEF Alone
<1>3. Fresh(y) /\ Open(y) /\ Pending(y) /\ Settling(y) /\ Settled(y)
  BY DEF TxInv, Settled
<1>4. Connected(y) => connection[y] \in Connection /\ holds'[connection[y]] = holds[connection[y]]
  BY DEF Alone, TxInv, Pool, TxTypeOK, Connected
<1>5. committed'[y] = committed[y]
      \/ (committed'[y] = changes[y] /\ txStep[y] = "failed" /\ y \in rollbackRejected)
  <2>1. ASSUME Connected(x), y \in holds[connection[x]]
        PROVE  txStep[y] = "failed" /\ y \in rollbackRejected
    <3>1. connection[x] \in Connection /\ connection[y] # connection[x]
      BY <2>1 DEF TxInv, Pool, TxTypeOK, Connected
    <3>2. QED
      BY <1>3, <2>1, <3>1 DEF Pending
  <2>2. QED
    BY <2>1 DEF Alone
<1>6. Fresh(y)' /\ Open(y)'
  BY <1>1, <1>2, <1>3, <1>4, <1>5 DEF Fresh, Open, Connected, InTry
<1>7. Pending(y)'
  BY <1>1, <1>2, <1>3 DEF Pending
<1>8. Settling(y)'
  BY <1>1, <1>3, <1>5 DEF Settling, Connected
<1>9. QED
  BY <1>6, <1>7, <1>8 DEF Settled

LEMMA OneMoves ==
    ASSUME TxInv, NEW x \in Execution, TxTypeOK', Pool', Alone(x), Settled(x)'
    PROVE  TxInv'
BY OthersStay DEF TxInv

\* Steps that leave the pool alone.
LEMMA SamePool == ASSUME Pool, UNCHANGED connection PROVE Pool'
BY DEF Pool, Connected

\* What is known of x alone.
LEMMA KnownOf ==
    ASSUME TxInv, NEW x \in Execution
    PROVE  /\ TxTypeOK /\ Pool /\ Fresh(x) /\ Open(x) /\ Pending(x) /\ Settling(x)
           /\ Connected(x) => connection[x] \in Connection
BY DEF TxInv, Settled, TxTypeOK, Connected

LEMMA ExecuteStep ==
    ASSUME TxInv, NEW x \in Execution, Execute(x) PROVE TxInv'
<1> USE DEF Execute, TxGoes, poolVars, historyVars
<1>1. /\ TxTypeOK /\ Pool /\ Fresh(x) /\ Open(x) /\ Pending(x) /\ Settling(x)
      /\ Connected(x) => connection[x] \in Connection
  BY KnownOf
<1>2. TxTypeOK' /\ Pool'
  BY <1>1, SamePool DEF TxTypeOK, TxRunning, InTry, Connected
<1>3. Alone(x)
  BY <1>1 DEF Alone, TxTypeOK, Connected
<1>4. Fresh(x)' /\ Open(x)'
  BY <1>1 DEF TxTypeOK, Fresh, Open, Pending, Connected, InTry
<1>5. Pending(x)'
  BY <1>1 DEF TxTypeOK, Fresh, Open, Pending, Connected, InTry
<1>6. Settling(x)'
  BY <1>1 DEF TxTypeOK, Fresh, Open, Pending, Settling, Connected, InTry
<1>7. QED
  BY <1>2, <1>3, <1>4, <1>5, <1>6, OneMoves DEF Settled

LEMMA StartStep ==
    ASSUME TxInv, NEW x \in Execution, StartTransaction(x) PROVE TxInv'
<1> USE DEF StartTransaction, TxGoes, poolVars, historyVars, Begins
<1>1. /\ TxTypeOK /\ Pool /\ Fresh(x) /\ Open(x) /\ Pending(x) /\ Settling(x)
      /\ Connected(x) => connection[x] \in Connection
  BY KnownOf
<1>2. TxTypeOK' /\ Pool'
  BY <1>1, SamePool DEF TxTypeOK, TxRunning, InTry, Connected
<1>3. Alone(x)
  BY <1>1 DEF Alone, TxTypeOK, Connected
<1>4. Fresh(x)' /\ Open(x)'
  BY <1>1 DEF TxTypeOK, Fresh, Open, Pending, Connected, InTry
<1>5. Pending(x)'
  BY <1>1 DEF TxTypeOK, Fresh, Open, Pending, Connected, InTry
<1>6. Settling(x)'
  BY <1>1 DEF TxTypeOK, Fresh, Open, Pending, Settling, Connected, InTry
<1>7. QED
  BY <1>2, <1>3, <1>4, <1>5, <1>6, OneMoves DEF Settled

LEMMA RequestRollbackStep ==
    ASSUME TxInv, NEW x \in Execution, RequestRollback(x) PROVE TxInv'
<1> USE DEF RequestRollback, TxGoes, poolVars, historyVars
<1>1. /\ TxTypeOK /\ Pool /\ Fresh(x) /\ Open(x) /\ Pending(x) /\ Settling(x)
      /\ Connected(x) => connection[x] \in Connection
  BY KnownOf
<1>2. TxTypeOK' /\ Pool'
  BY <1>1, SamePool DEF TxTypeOK, TxRunning, InTry, Connected
<1>3. Alone(x)
  BY <1>1 DEF Alone, TxTypeOK, Connected
<1>4. Fresh(x)' /\ Open(x)'
  BY <1>1 DEF TxTypeOK, Fresh, Open, Pending, Connected, InTry
<1>5. Pending(x)'
  BY <1>1 DEF TxTypeOK, Fresh, Open, Pending, Connected, InTry
<1>6. Settling(x)'
  BY <1>1 DEF TxTypeOK, Fresh, Open, Pending, Settling, Connected, InTry
<1>7. QED
  BY <1>2, <1>3, <1>4, <1>5, <1>6, OneMoves DEF Settled

LEMMA ModifyStep ==
    ASSUME TxInv, NEW x \in Execution, Modify(x) PROVE TxInv'
<1> USE DEF Modify, TxGoes, poolVars, historyVars, Catch
<1>1. /\ TxTypeOK /\ Pool /\ Fresh(x) /\ Open(x) /\ Pending(x) /\ Settling(x)
      /\ Connected(x) => connection[x] \in Connection
  BY KnownOf
<1>2. TxTypeOK' /\ Pool'
  BY <1>1, SamePool DEF TxTypeOK, TxRunning, InTry, Connected
<1>3. Alone(x)
  BY <1>1 DEF Alone, TxTypeOK, Connected
<1>4. Fresh(x)' /\ Open(x)'
  BY <1>1 DEF TxTypeOK, Fresh, Open, Pending, Connected, InTry
<1>5. Pending(x)'
  BY <1>1 DEF TxTypeOK, Fresh, Open, Pending, Connected, InTry
<1>6. Settling(x)'
  BY <1>1 DEF TxTypeOK, Fresh, Open, Pending, Settling, Connected, InTry
<1>7. QED
  BY <1>2, <1>3, <1>4, <1>5, <1>6, OneMoves DEF Settled

LEMMA RowChangedStep ==
    ASSUME TxInv, NEW x \in Execution, RowChanged(x) PROVE TxInv'
<1> USE DEF RowChanged, TxGoes, poolVars, historyVars
<1>1. /\ TxTypeOK /\ Pool /\ Fresh(x) /\ Open(x) /\ Pending(x) /\ Settling(x)
      /\ Connected(x) => connection[x] \in Connection
  BY KnownOf
<1>2. TxTypeOK' /\ Pool'
  BY <1>1, SamePool DEF TxTypeOK, TxRunning, InTry, Connected
<1>3. Alone(x)
  BY <1>1 DEF Alone, TxTypeOK, Connected
<1>4. Fresh(x)' /\ Open(x)'
  BY <1>1 DEF TxTypeOK, Fresh, Open, Pending, Connected, InTry
<1>5. Pending(x)'
  BY <1>1 DEF TxTypeOK, Fresh, Open, Pending, Connected, InTry
<1>6. Settling(x)'
  BY <1>1 DEF TxTypeOK, Fresh, Open, Pending, Settling, Connected, InTry
<1>7. QED
  BY <1>2, <1>3, <1>4, <1>5, <1>6, OneMoves DEF Settled

LEMMA TaskReturnsStep ==
    ASSUME TxInv, NEW x \in Execution, TaskReturns(x) PROVE TxInv'
<1> USE DEF TaskReturns, TxGoes, poolVars, historyVars
<1>1. /\ TxTypeOK /\ Pool /\ Fresh(x) /\ Open(x) /\ Pending(x) /\ Settling(x)
      /\ Connected(x) => connection[x] \in Connection
  BY KnownOf
<1>2. TxTypeOK' /\ Pool'
  BY <1>1, SamePool DEF TxTypeOK, TxRunning, InTry, Connected
<1>3. Alone(x)
  BY <1>1 DEF Alone, TxTypeOK, Connected
<1>4. Fresh(x)' /\ Open(x)'
  BY <1>1 DEF TxTypeOK, Fresh, Open, Pending, Connected, InTry
<1>5. Pending(x)'
  BY <1>1 DEF TxTypeOK, Fresh, Open, Pending, Connected, InTry
<1>6. Settling(x)'
  BY <1>1 DEF TxTypeOK, Fresh, Open, Pending, Settling, Connected, InTry
<1>7. QED
  BY <1>2, <1>3, <1>4, <1>5, <1>6, OneMoves DEF Settled

LEMMA CommitStep ==
    ASSUME TxInv, NEW x \in Execution, Commit(x) PROVE TxInv'
<1> USE DEF Commit, TxGoes, poolVars, historyVars, CommitsWork
<1>1. /\ TxTypeOK /\ Pool /\ Fresh(x) /\ Open(x) /\ Pending(x) /\ Settling(x)
      /\ Connected(x) => connection[x] \in Connection
  BY KnownOf
<1>2. TxTypeOK' /\ Pool'
  BY <1>1, SamePool DEF TxTypeOK, TxRunning, InTry, Connected
<1>3. Alone(x)
  BY <1>1 DEF Alone, TxTypeOK, Connected
<1>4. Fresh(x)' /\ Open(x)'
  BY <1>1 DEF TxTypeOK, Fresh, Open, Pending, Connected, InTry
<1>5. Pending(x)'
  BY <1>1 DEF TxTypeOK, Fresh, Open, Pending, Connected, InTry
<1>6. Settling(x)'
  BY <1>1 DEF TxTypeOK, Fresh, Open, Pending, Settling, Connected, InTry
<1>7. QED
  BY <1>2, <1>3, <1>4, <1>5, <1>6, OneMoves DEF Settled

LEMMA RollbackStep ==
    ASSUME TxInv, NEW x \in Execution, Rollback(x) PROVE TxInv'
<1> USE DEF Rollback, TxGoes, poolVars, historyVars, RollsBack
<1>1. /\ TxTypeOK /\ Pool /\ Fresh(x) /\ Open(x) /\ Pending(x) /\ Settling(x)
      /\ Connected(x) => connection[x] \in Connection
  BY KnownOf
<1>2. TxTypeOK' /\ Pool'
  BY <1>1, SamePool DEF TxTypeOK, TxRunning, InTry, Connected
<1>3. Alone(x)
  BY <1>1 DEF Alone, TxTypeOK, Connected
<1>4. Fresh(x)' /\ Open(x)'
  BY <1>1 DEF TxTypeOK, Fresh, Open, Pending, Connected, InTry
<1>5. Pending(x)'
  BY <1>1 DEF TxTypeOK, Fresh, Open, Pending, Connected, InTry
<1>6. Settling(x)'
  BY <1>1 DEF TxTypeOK, Fresh, Open, Pending, Settling, Connected, InTry
<1>7. QED
  BY <1>2, <1>3, <1>4, <1>5, <1>6, OneMoves DEF Settled

LEMMA RecoverFailsStep ==
    ASSUME TxInv, NEW x \in Execution, RecoverFails(x) PROVE TxInv'
<1> USE DEF RecoverFails, TxGoes, poolVars, historyVars, RollsBack
<1>1. /\ TxTypeOK /\ Pool /\ Fresh(x) /\ Open(x) /\ Pending(x) /\ Settling(x)
      /\ Connected(x) => connection[x] \in Connection
  BY KnownOf
<1>2. TxTypeOK' /\ Pool'
  BY <1>1, SamePool DEF TxTypeOK, TxRunning, InTry, Connected
<1>3. Alone(x)
  BY <1>1 DEF Alone, TxTypeOK, Connected
<1>4. Fresh(x)' /\ Open(x)'
  BY <1>1 DEF TxTypeOK, Fresh, Open, Pending, Connected, InTry
<1>5. Pending(x)'
  <2>1. outcome'[x] = "error" /\ x \in rollbackRejected' /\ txStep'[x] = "release"
    BY <1>1 DEF TxTypeOK, Settling
  <2>2. \A k \in Connection : x \in holds'[k] => x \in holds[k]
    BY <1>1 DEF TxTypeOK, Connected
  <2>3. txStep[x] = "recover" /\ active' = active /\ connection' = connection
    OBVIOUS
  <2>4. QED
    BY <1>1, <2>1, <2>2, <2>3 DEF Pending
<1>6. Settling(x)'
  BY <1>1 DEF TxTypeOK, Fresh, Open, Pending, Settling, Connected, InTry
<1>7. QED
  BY <1>2, <1>3, <1>4, <1>5, <1>6, OneMoves DEF Settled

LEMMA ConnectStep ==
    ASSUME TxInv, NEW x \in Execution, Connect(x) PROVE TxInv'
<1> USE DEF Connect, TxGoes, historyVars
<1>1. /\ TxTypeOK /\ Pool /\ Fresh(x) /\ Open(x) /\ Pending(x) /\ Settling(x)
  BY KnownOf
<1>2. TxTypeOK' /\ Pool'
  BY <1>1, PoolAssumption DEF TxTypeOK, TxRunning, InTry, Connected, Pool
<1>3. Alone(x)
  BY <1>1 DEF Alone, TxTypeOK
<1>4. Settled(x)'
  BY <1>1 DEF TxTypeOK, Settled, Fresh, Open, Pending, Settling, Connected, InTry
<1>5. QED
  BY <1>2, <1>3, <1>4, OneMoves

LEMMA ReleaseStep ==
    ASSUME TxInv, NEW x \in Execution, Release(x) \/ ReleaseFails(x) PROVE TxInv'
<1> USE DEF Release, ReleaseFails, TxGoes, historyVars
<1>1. /\ TxTypeOK /\ Pool /\ Fresh(x) /\ Open(x) /\ Pending(x) /\ Settling(x)
  BY KnownOf
<1>2. connection' = connection \/ connection' = [connection EXCEPT ![x] = NoConnection]
  OBVIOUS
<1>3. TxTypeOK'
  BY <1>1 DEF TxTypeOK, TxRunning, InTry
<1>4. Pool'
  BY <1>1, <1>2 DEF TxTypeOK, Connected, Pool
<1>5. Alone(x)
  BY <1>1 DEF Alone, TxTypeOK
<1>6. Fresh(x)' /\ Open(x)' /\ Settling(x)'
  BY <1>1 DEF TxTypeOK, Fresh, Open, Pending, Settling, Connected, InTry
<1>7. Pending(x)'
  BY <1>1 DEF TxTypeOK, Pending
<1>8. QED
  BY <1>3, <1>4, <1>5, <1>6, <1>7, OneMoves DEF Settled

LEMMA TxFailsStep ==
    ASSUME TxInv, NEW x \in Execution, TxFails(x) PROVE TxInv'
<1> USE DEF TxFails, TxGoes, poolVars, historyVars, Catch, Begins, RollsBack, CommitsWork
<1>1. /\ TxTypeOK /\ Pool /\ Fresh(x) /\ Open(x) /\ Pending(x) /\ Settling(x)
      /\ Connected(x) => connection[x] \in Connection
  BY KnownOf
<1>2. TxTypeOK' /\ Pool'
  BY <1>1, SamePool DEF TxTypeOK, TxRunning, InTry, Connected
<1>3. Alone(x)
  BY <1>1 DEF Alone, TxTypeOK, Connected
<1>4. Fresh(x)' /\ Open(x)'
  BY <1>1 DEF TxTypeOK, Fresh, Open, Pending, Connected, InTry
<1>5. Pending(x)'
  BY <1>1 DEF TxTypeOK, Fresh, Open, Pending, Connected, InTry
<1>6. Settling(x)'
  BY <1>1 DEF TxTypeOK, Fresh, Open, Pending, Settling, Connected, InTry
<1>7. QED
  BY <1>2, <1>3, <1>4, <1>5, <1>6, OneMoves DEF Settled

\* A connection that breaks: what it holds is gone.
LEMMA BreaksStep ==
    ASSUME TxInv, NEW b \in Connection, ConnectionBreaks(b) PROVE TxInv'
<1> USE DEF ConnectionBreaks, historyVars
<1>1. TxTypeOK /\ Pool
  BY DEF TxInv
<1>2. TxTypeOK' /\ Pool'
  BY <1>1, PoolAssumption DEF TxTypeOK, Pool, Connected
<1>3. ASSUME NEW x \in Execution PROVE Settled(x)'
  <2>1. Fresh(x) /\ Open(x) /\ Pending(x) /\ Settling(x)
    BY KnownOf
  <2>2. connection'[x] = IF connection[x] = b THEN NoConnection ELSE connection[x]
    OBVIOUS
  <2>3. \A k \in Connection : holds'[k] = IF k = b THEN {} ELSE holds[k]
    BY <1>1 DEF TxTypeOK
  <2>4. Fresh(x)' /\ Settling(x)'
    BY <2>1, <2>2, <2>3 DEF Fresh, Settling, Connected
  <2>5. Open(x)'
    BY <1>1, <2>1, <2>2, <2>3 DEF Open, Connected, TxTypeOK
  <2>6. Pending(x)'
    BY <2>1, <2>2, <2>3 DEF Pending
  <2>7. QED
    BY <2>4, <2>5, <2>6 DEF Settled
<1>4. QED
  BY <1>2, <1>3 DEF TxInv

LEMMA NextTx == TxInv /\ [TxNext]_txVars => TxInv'
<1>1. ASSUME TxInv, UNCHANGED txVars PROVE TxInv'
  <2>1. UNCHANGED <<txStep, outcome, connection, active, holds, rollbackRequested, changes,
                    committed, rollbackRejected, releaseRejected>>
    BY <1>1 DEF txVars, poolVars, historyVars
  <2>2. ASSUME NEW x \in Execution PROVE Settled(x)'
    BY <1>1, <2>1 DEF TxInv, Settled, Fresh, Open, Pending, Settling, Connected
  <2>3. QED
    BY <1>1, <2>1, <2>2 DEF TxInv, TxTypeOK, Pool, Connected
<1>2. ASSUME TxInv, NEW x \in Execution, TxStep(x) PROVE TxInv'
  BY <1>2, ConnectStep, StartStep, RowChangedStep, TaskReturnsStep, CommitStep, RollbackStep,
     ReleaseStep DEF TxStep
<1>3. QED
  BY <1>1, <1>2, ExecuteStep, RequestRollbackStep, ModifyStep, TxFailsStep, RecoverFailsStep,
     ReleaseStep, BreaksStep DEF TxNext

\* Where an execution is tells what is settled, whatever rejects or breaks.
THEOREM TxInvariant == TxSpec => []TxInv
BY InitTx, NextTx, PTL DEF TxSpec

----------------------------------------------------------------------------

\* TypeormTransactionService.execute commits the changes of a task all or none, all with a
\* result and none after rollback(), and gives the connection back with no transaction open
\* on every path, but for what a rejected release() or a rejected ROLLBACK of the catch block
\* leaves: for any number of executions, any pool, an error at any await, release included,
\* and connections that break.
THEOREM TransactionsSettled == TxSpec => []TransactionsSettle
<1>1. ASSUME TxInv PROVE TransactionsAtomic
  BY <1>1 DEF TxInv, Settled, Settling, TransactionsAtomic
<1>2. ASSUME TxInv PROVE ConnectionsReturn
  <2>1. \A k \in Connection : \A x \in holds[k] : x \in Execution
    BY <1>2 DEF TxInv, TxTypeOK
  <2>2. QED
    BY <1>2, <2>1 DEF TxInv, Settled, Settling, Pending, Pool, ConnectionsReturn
<1>3. TxInv => TransactionsSettle
  BY <1>1, <1>2 DEF TransactionsSettle
<1>4. QED
  BY <1>3, TxInvariant, PTL

----------------------------------------------------------------------------

(* The entries that come before d in the order of the walk, and where that puts d.     *)
Earlier(d) == {e \in Matching : Key(e) < Key(d)}

Rank(d) == Cardinality(Earlier(d)) + 1

\* How often d is on the page found last.
OnPage(d) == Cardinality({i \in DOMAIN items : items[i] = d})

\* The walk has begun, and was not refused.
Walking == {"find", "count", "answered", "done"}

\* The types, that what is counted is finite, and that a document is there once.
PagingTypes ==
    /\ collection \subseteq Entry /\ IsFiniteSet(collection)
    /\ \A e, g \in collection : e[1] = g[1] => e = g
    /\ \A e \in collection : e[1] \in ever
    /\ ever \subseteq Document
    /\ throughout \subseteq collection
    /\ came \subseteq Entry
    /\ pageStep \in {"none", "refused"} \cup Walking
    /\ pageStep \in Walking => walk.order \in Order /\ walk.take \in Nat \ {0}
    /\ skip \in Nat /\ total \in Nat
    /\ items \in Seq(Entry)
    /\ shown \in [Entry -> Nat]

\* What was there all the time, and what came since: of another document, which is a later
\* one if it was inserted, and was taken away in another form if it was updated.
History ==
    /\ pageStep = "none" => skip = 0 /\ came = {} /\ went = {} /\ throughout = {}
                            /\ shown = [e \in Entry |-> 0]
    /\ pageStep # "none" => collection \subseteq throughout \cup came
    /\ \A e \in came, d \in throughout :
          /\ e[1] # d[1]
          /\ CreatedAt[d[1]] <= CreatedAt[e[1]] \/ \E g \in went : g[1] = e[1]

\* As long as nothing before d was deleted or updated, d is on a page that was shown, or after it.
Missing(d) ==
    (\A e \in went : ~Before(e, d)) /\ shown[d] = 0 =>
        /\ pageStep = "find" => skip < Rank(d)
        /\ pageStep \in {"count", "answered"} => OnPage(d) > 0 \/ skip + walk.take < Rank(d)
        /\ pageStep = "answered" => OnPage(d) > 0 \/ skip + walk.take < total
        /\ pageStep # "done"

\* As long as nothing was inserted before d or updated to come there, d comes no later than on the page that showed it.
Repeating(d) ==
    (\A e \in came : ~Before(e, d)) =>
        /\ shown[d] <= 1
        /\ shown[d] = 1 => Rank(d) <= skip
        /\ pageStep \in {"count", "answered"} =>
              /\ OnPage(d) <= 1
              /\ OnPage(d) = 1 => shown[d] = 0 /\ Rank(d) <= skip + walk.take

(* The invariant. *)
PagingInv ==
    /\ PagingTypes
    /\ History
    /\ pageStep \in Walking =>
          \A d \in throughout \cap walk.filter : ~Tied(d) => Missing(d) /\ Repeating(d)

----------------------------------------------------------------------------

LEMMA PagingInterval ==
    ASSUME NEW n \in Nat
    PROVE  IsFiniteSet(1..n) /\ Cardinality(1..n) = n
<1>1. 1 \in Int /\ n \in Int
  OBVIOUS
<1>2. IsFiniteSet(1..n) /\ Cardinality(1..n) = IF 1 > n THEN 0 ELSE n - 1 + 1
  BY <1>1, FS_Interval
<1>3. QED
  BY <1>2

LEMMA FewerThanBoth ==
    ASSUME NEW A, NEW B, NEW C, IsFiniteSet(B), IsFiniteSet(C), A \subseteq B \cup C
    PROVE  Cardinality(A) <= Cardinality(B) + Cardinality(C)
<1>1. IsFiniteSet(B \cup C) /\ IsFiniteSet(B \cap C)
  BY FS_Union, FS_Intersection
<1>2. /\ Cardinality(B \cup C) = Cardinality(B) + Cardinality(C) - Cardinality(B \cap C)
      /\ IsFiniteSet(A) /\ Cardinality(A) <= Cardinality(B \cup C)
  BY <1>1, FS_Union, FS_Subset
<1>3. /\ Cardinality(A) \in Nat /\ Cardinality(B) \in Nat /\ Cardinality(C) \in Nat
      /\ Cardinality(B \cap C) \in Nat
  BY <1>1, <1>2, FS_CardinalityType
<1>4. QED
  BY <1>2, <1>3

LEMMA RankOf ==
    ASSUME PagingTypes, NEW d
    PROVE  /\ IsFiniteSet(Matching) /\ IsFiniteSet(Earlier(d))
           /\ Cardinality(Matching) \in Nat /\ Rank(d) \in Nat \ {0}
           /\ d \in Matching /\ ~(Key(d) < Key(d)) => Rank(d) <= Cardinality(Matching)
<1> DEFINE E == Earlier(d)
           M == Matching
<1>1. M \in SUBSET collection /\ E \in SUBSET M
  BY DEF Matching, Earlier
<1>3. Rank(d) = Cardinality(E) + 1
  BY DEF Rank
<1>4. ~(Key(d) < Key(d)) => d \notin E
  BY DEF Earlier
<1> HIDE DEF E, M
<1>5. IsFiniteSet(M)
  BY <1>1, FS_Subset DEF PagingTypes
<1>6. IsFiniteSet(E) /\ Cardinality(E) \in Nat /\ Cardinality(M) \in Nat
  BY <1>1, <1>5, FS_Subset, FS_CardinalityType
<1>7. ASSUME d \in M, d \notin E PROVE Cardinality(E) + 1 <= Cardinality(M)
  <2>1. E \cup {d} \in SUBSET M
    BY <1>1, <1>7
  <2>2. Cardinality(E \cup {d}) <= Cardinality(M)
    BY <1>5, <2>1, FS_Subset
  <2>3. Cardinality(E \cup {d}) = Cardinality(E) + 1
    BY <1>6, <1>7, FS_AddElement
  <2>4. QED
    BY <2>2, <2>3
<1>8. QED
  BY <1>3, <1>4, <1>5, <1>6, <1>7 DEF E, M

(* Where the database puts a document whose key is its own.                  *)
LEMMA SortedAt ==
    ASSUME PagingTypes, pageStep \in Walking, NEW seq \in Sorted, NEW d \in Matching,
           \A e \in Matching : Key(e) = Key(d) => e = d
    PROVE  /\ Len(seq) = Cardinality(Matching)
           /\ DOMAIN seq = 1..Len(seq)
           /\ Rank(d) \in 1..Len(seq)
           /\ \A i \in 1..Len(seq) : seq[i] = d <=> i = Rank(d)
<1> DEFINE M == Matching
           n == Cardinality(M)
<1>1. IsFiniteSet(M) /\ n \in Nat
  BY RankOf
<1>2. /\ seq \in [1..n -> M] /\ \A i, j \in 1..n : i # j => seq[i] # seq[j]
      /\ \A i, j \in 1..Len(seq) : i < j => Key(seq[i]) <= Key(seq[j])
  BY DEF Sorted, SetToSeqs
<1>3. \A e \in M : Key(e) \in Int
  BY PagingAssumption DEF PagingTypes, Matching, Key, Entry
<1> HIDE DEF M, n
<1>4. Len(seq) = n
  BY <1>1, <1>2
<1>5. seq \in Bijection(1..n, M)
  <2>1. seq \in Injection(1..n, M)
    BY <1>2 DEF Injection, IsInjective
  <2>2. Cardinality(1..n) = Cardinality(M)
    BY <1>1, PagingInterval DEF n
  <2>3. seq \in Surjection(1..n, M)
    BY <1>1, <2>1, <2>2, FS_Injection
  <2>4. QED
    BY <2>1, <2>3 DEF Bijection
<1>6. \A x \in M : \E i \in 1..n : seq[i] = x
  BY <1>5 DEF Bijection, Surjection
<1>7. PICK p \in 1..n : seq[p] = d
  BY <1>6 DEF M
<1> DEFINE E == Earlier(d)
           k == p - 1
<1>8. k \in Nat
  BY <1>1, <1>7
<1>9. E = {seq[i] : i \in 1..k}
  <2>1. ASSUME NEW i \in 1..k PROVE seq[i] \in E
    <3>1. i \in 1..n /\ i < p /\ i # p
      BY <1>1, <1>7, <2>1
    <3>2. seq[i] \in M /\ seq[i] # d /\ Key(seq[i]) <= Key(d)
      BY <1>2, <1>4, <1>7, <3>1
    <3>3. Key(seq[i]) # Key(d)
      BY <3>2 DEF M
    <3>4. QED
      BY <1>3, <1>7, <1>2, <3>2, <3>3 DEF Earlier, M
  <2>2. ASSUME NEW e \in E PROVE \E i \in 1..k : e = seq[i]
    <3>1. e \in M /\ Key(e) < Key(d)
      BY <2>2 DEF Earlier, M
    <3>2. PICK i \in 1..n : seq[i] = e
      BY <1>6, <3>1
    <3>3. ~(p < i) /\ i # p
      <4>1. p < i => Key(d) <= Key(e)
        BY <1>2, <1>4, <1>7, <3>2
      <4>2. d \in M
        BY DEF M
      <4>3. QED
        BY <1>3, <1>7, <3>1, <3>2, <4>1, <4>2
    <3>4. i \in 1..k
      BY <1>1, <1>7, <3>2, <3>3
    <3>5. QED
      BY <3>2, <3>4
  <2> HIDE DEF E, k
  <2>3. QED
    BY <2>1, <2>2
<1>10. Cardinality(E) = k
  <2> DEFINE f == [i \in 1..k |-> seq[i]]
  <2>1. f \in [1..k -> E] /\ (\A i, j \in 1..k : f[i] = f[j] => i = j)
        /\ \A e \in E : \E i \in 1..k : f[i] = e
    <3>1. 1..k \subseteq 1..n
      BY <1>1, <1>7
    <3> HIDE DEF E, k
    <3>2. QED
      BY <1>2, <1>9, <3>1
  <2> HIDE DEF f, E, k
  <2>2. f \in Bijection(1..k, E)
    BY <2>1 DEF Bijection, Injection, Surjection, IsInjective
  <2>3. ExistsBijection(1..k, E) /\ IsFiniteSet(1..k) /\ Cardinality(1..k) = k
    BY <1>8, <2>2, PagingInterval DEF ExistsBijection
  <2>4. QED
    BY <2>3, FS_Bijection
<1>11. Rank(d) = p
  BY <1>1, <1>7, <1>10 DEF Rank
<1>12. QED
  BY <1>1, <1>2, <1>4, <1>7, <1>11 DEF M, n

(* Whether a document whose key is its own is on the page.                   *)
LEMMA PageHolds ==
    ASSUME PagingTypes, pageStep = "find", NEW seq \in Sorted, items' = Page(seq),
           NEW d \in Matching, \A e \in Matching : Key(e) = Key(d) => e = d
    PROVE  OnPage(d)' = IF skip < Rank(d) /\ Rank(d) <= skip + walk.take THEN 1 ELSE 0
<1> DEFINE n == Len(seq)
           top == Smaller(skip + walk.take, n)
           p == Rank(d)
<1>1. /\ n \in Nat /\ DOMAIN seq = 1..n /\ p \in 1..n /\ \A i \in 1..n : seq[i] = d <=> i = p
      /\ seq \in Seq(Matching)
  <2>1. /\ n = Cardinality(Matching) /\ DOMAIN seq = 1..n /\ p \in 1..n
        /\ \A i \in 1..n : seq[i] = d <=> i = p
    BY SortedAt DEF Walking
  <2>2. n \in Nat
    BY <2>1, RankOf
  <2>3. seq \in [1..Cardinality(Matching) -> Matching]
    BY DEF Sorted, SetToSeqs
  <2>4. QED
    BY <2>1, <2>2, <2>3
<1>2. skip \in Nat /\ walk.take \in Nat /\ top \in Nat /\ top <= n /\ top <= skip + walk.take
      /\ (top = n \/ top = skip + walk.take)
  BY <1>1 DEF PagingTypes, Walking, Smaller
<1> DEFINE m == IF top > skip THEN top - skip ELSE 0
<1>3. /\ DOMAIN items' = 1..m /\ m \in Nat
      /\ \A i \in 1..m : items'[i] = seq[skip + i]
  <2>1. items' = SubSeq(seq, skip + 1, top)
    BY DEF Page
  <2> HIDE DEF top, n
  <2>2. items' = [i \in 1..m |-> seq[i + (skip + 1) - 1]]
    BY <1>1, <1>2, <2>1
  <2>3. QED
    BY <1>2, <2>2
<1> DEFINE I == {i \in DOMAIN items' : items'[i] = d}
<1>4. \A i \in 1..m : items'[i] = d <=> skip + i = p
  <2>1. \A i \in 1..m : skip + i \in 1..n
    BY <1>1, <1>2
  <2> HIDE DEF n, top, p, m
  <2>2. QED
    BY <1>1, <1>3, <2>1
<1>5. CASE skip < p /\ p <= skip + walk.take
  <2>1. p - skip \in 1..m
    BY <1>1, <1>2, <1>5
  <2>2. I = {p - skip}
    <3> HIDE DEF n, top, m
    <3>1. \A i \in 1..m : skip + i = p <=> i = p - skip
      BY <1>1, <1>2, <1>3
    <3>2. QED
      BY <1>3, <1>4, <2>1, <3>1
  <2>3. Cardinality({p - skip}) = 1
    BY FS_Singleton
  <2>4. OnPage(d)' = 1
    BY <2>2, <2>3 DEF OnPage
  <2>5. QED
    BY <1>5, <2>4
<1>6. CASE ~(skip < p /\ p <= skip + walk.take)
  <2>1. \A i \in 1..m : skip + i # p
    BY <1>1, <1>2, <1>6
  <2>2. I = {}
    <3> HIDE DEF n, top, m
    <3>1. QED
      BY <1>3, <1>4, <2>1
  <2>3. OnPage(d)' = 0
    BY <2>2, FS_EmptySet DEF OnPage
  <2>4. QED
    BY <1>6, <2>3
<1>7. QED
  BY <1>5, <1>6

LEMMA InitPaging == PagingInit => PagingInv
<1> SUFFICES ASSUME PagingInit PROVE PagingInv
  OBVIOUS
<1>1. PagingTypes
  BY PagingAssumption DEF PagingInit, PagingTypes, Walking, Entry, Documents
<1>2. History
  BY DEF PagingInit, History
<1>3. QED
  BY <1>1, <1>2 DEF PagingInit, PagingInv, Walking

(* What comes or goes stays noted, so that a key that is its own has always been.    *)
LEMMA AloneInMatching ==
    ASSUME PagingTypes, History, pageStep # "none", NEW d \in throughout \cap walk.filter, ~Tied(d)
    PROVE  /\ d \in Matching /\ d \in Entry
           /\ \A e \in Matching : Key(e) = Key(d) => e = d
BY DEF PagingTypes, History, Tied, Matching

(* A key is a number, and a rank a number from 1.                                      *)
LEMMA KeysAreNumbers ==
    ASSUME PagingTypes, pageStep \in Walking, NEW d \in Entry
    PROVE  Key(d) \in Int
BY PagingAssumption DEF PagingTypes, Key, Entry

LEMMA RankPositive ==
    ASSUME PagingTypes, NEW d
    PROVE  Rank(d) \in Nat \ {0}
BY RankOf

LEMMA BeginWalkStep ==
    ASSUME PagingInv, NEW o \in Order, NEW f \in Filter, NEW t \in Takes, BeginWalk(o, f, t)
    PROVE  PagingInv'
<1>1. /\ pageStep = "none" /\ pageStep' \in {"refused", "find"} /\ walk'.order = o
      /\ walk'.take = PaginationPipe(t) /\ throughout' = collection
      /\ UNCHANGED <<collection, ever, skip, items, total, shown, came, went>>
  BY DEF BeginWalk
<1>2. PaginationPipe(t) \in Nat \ {0}
  BY PagingAssumption DEF PaginationPipe
<1>3. PagingTypes'
  BY <1>1, <1>2 DEF PagingInv, PagingTypes, Walking
<1>4. History' /\ skip = 0 /\ came = {} /\ went = {} /\ shown = [e \in Entry |-> 0]
  BY <1>1 DEF PagingInv, History
<1>5. ASSUME NEW d \in collection PROVE Missing(d)' /\ Repeating(d)'
  <2>1. Rank(d)' \in Nat \ {0}
    <3> DEFINE E == Earlier(d)'
               C == collection'
    <3>1. E \in SUBSET C /\ IsFiniteSet(C) /\ Rank(d)' = Cardinality(E) + 1
      BY <1>3 DEF Earlier, Matching, Rank, PagingTypes
    <3> HIDE DEF E, C
    <3>2. Cardinality(E) \in Nat
      BY <3>1, FS_Subset, FS_CardinalityType
    <3>3. QED
      BY <3>1, <3>2
  <2>2. shown'[d] = 0 /\ skip' = 0
    BY <1>1, <1>4, <1>5 DEF PagingInv, PagingTypes
  <2>3. pageStep' \notin {"count", "answered", "done"}
    BY <1>1
  <2>4. QED
    BY <2>1, <2>2, <2>3 DEF Missing, Repeating
<1>6. QED
  BY <1>1, <1>3, <1>4, <1>5 DEF PagingInv

(* What a page tells of how many documents there are.                                 *)
LEMMA PageIs ==
    ASSUME PagingTypes, pageStep = "find", NEW seq \in Sorted
    PROVE  /\ Page(seq) \in Seq(Entry)
           /\ Len(Page(seq)) < walk.take => Cardinality(Matching) <= skip + Len(Page(seq))
           /\ Len(Page(seq)) > 0 => skip + Len(Page(seq)) <= Cardinality(Matching)
<1> DEFINE n == Cardinality(Matching)
           top == Smaller(skip + walk.take, n)
<1>1. n \in Nat /\ seq \in [1..n -> Matching]
  BY RankOf DEF Sorted, SetToSeqs
<1>2. Matching \subseteq Entry
  BY DEF Matching, PagingTypes
<1>3. seq \in Seq(Entry) /\ Len(seq) = n
  <2> HIDE DEF n
  <2>1. QED
    BY <1>1, <1>2
<1>4. skip \in Nat /\ walk.take \in Nat \ {0}
  BY DEF PagingTypes, Walking
<1>5. /\ top \in Nat /\ top <= n /\ top <= skip + walk.take
      /\ top = n \/ top = skip + walk.take
  BY <1>1, <1>4 DEF Smaller
<1>6. Page(seq) = SubSeq(seq, skip + 1, top)
  BY <1>3 DEF Page
<1> HIDE DEF n, top
<1>7. Page(seq) \in Seq(Entry) /\ Len(Page(seq)) = IF top > skip THEN top - skip ELSE 0
  BY <1>3, <1>4, <1>5, <1>6
<1>8. QED
  BY <1>1, <1>4, <1>5, <1>7 DEF n

LEMMA FindStep ==
    ASSUME PagingInv, FindPage
    PROVE  PagingInv'
<1>1. PICK seq \in Sorted : items' = Page(seq)
  BY DEF FindPage
<1>2. /\ pageStep = "find" /\ pageStep' = "count"
      /\ UNCHANGED <<collection, ever, walk, skip, total, shown, throughout, came, went>>
  BY DEF FindPage, pagingHistory
<1>3. PagingTypes /\ History /\ walk.take \in Nat /\ skip \in Nat
  BY <1>2 DEF PagingInv, PagingTypes, Walking
<1>4. items' \in Seq(Entry)
  BY <1>1, <1>2, <1>3, PageIs
<1>5. PagingTypes' /\ History'
  BY <1>2, <1>3, <1>4 DEF PagingTypes, History, Walking
<1>6. ASSUME NEW d \in throughout \cap walk.filter, ~Tied(d)
      PROVE  Missing(d)' /\ Repeating(d)'
  <2>1. Missing(d) /\ Repeating(d)
    BY <1>2, <1>6 DEF PagingInv, Walking
  <2>2. /\ d \in Matching /\ d \in Entry
        /\ \A e \in Matching : Key(e) = Key(d) => e = d
    BY <1>2, <1>3, <1>6, AloneInMatching
  <2>3. OnPage(d)' = IF skip < Rank(d) /\ Rank(d) <= skip + walk.take THEN 1 ELSE 0
    BY <1>1, <1>2, <1>3, <2>2, PageHolds
  <2>4. Rank(d) \in Nat /\ shown[d] \in Nat
    BY <1>3, <2>2, RankPositive DEF PagingTypes
  <2>5. Rank(d)' = Rank(d)
    BY <1>2 DEF Rank, Earlier, Matching, Key
  <2>6. \A e : Before(e, d)' <=> Before(e, d)
    BY <1>2 DEF Before, Key
  <2>7. Missing(d)'
    BY <1>2, <1>3, <2>1, <2>3, <2>4, <2>5, <2>6 DEF Missing
  <2>8. Repeating(d)'
    BY <1>2, <1>3, <2>1, <2>3, <2>4, <2>5, <2>6 DEF Repeating
  <2>9. QED
    BY <2>7, <2>8
<1>7. \A d : Tied(d)' <=> Tied(d)
  BY <1>2 DEF Tied, Key
<1>8. QED
  BY <1>2, <1>5, <1>6, <1>7 DEF PagingInv

LEMMA CountStep ==
    ASSUME PagingInv, CountDocuments
    PROVE  PagingInv'
<1>1. /\ pageStep = "count" /\ pageStep' = "answered" /\ total' = Cardinality(Matching)
      /\ UNCHANGED <<collection, ever, walk, skip, items, shown, throughout, came, went>>
  BY DEF CountDocuments, pagingHistory
<1>2. PagingTypes /\ History /\ walk.take \in Nat /\ skip \in Nat
  BY <1>1 DEF PagingInv, PagingTypes, Walking
<1>3. total' \in Nat
  BY <1>1, <1>2, RankOf
<1>4. PagingTypes' /\ History'
  BY <1>1, <1>2, <1>3 DEF PagingTypes, History, Walking
<1>5. ASSUME NEW d \in throughout \cap walk.filter, ~Tied(d)
      PROVE  Missing(d)' /\ Repeating(d)'
  <2>1. Missing(d) /\ Repeating(d)
    BY <1>1, <1>5 DEF PagingInv, Walking
  <2>2. d \in Matching /\ d \in Entry
    BY <1>1, <1>2, <1>5, AloneInMatching
  <2>3. Rank(d) \in Nat /\ Rank(d) <= total'
    <3>1. Key(d) \in Int
      BY <1>1, <1>2, <2>2, KeysAreNumbers DEF Walking
    <3>2. QED
      BY <1>1, <1>2, <2>2, <3>1, RankOf
  <2>4. Rank(d)' = Rank(d) /\ OnPage(d)' = OnPage(d)
    BY <1>1 DEF Rank, Earlier, Matching, Key, OnPage
  <2>5. \A e : Before(e, d)' <=> Before(e, d)
    BY <1>1 DEF Before, Key
  <2>6. Missing(d)'
    BY <1>1, <1>2, <1>3, <2>1, <2>3, <2>4, <2>5 DEF Missing
  <2>7. Repeating(d)'
    BY <1>1, <1>2, <2>1, <2>3, <2>4, <2>5 DEF Repeating
  <2>8. QED
    BY <2>6, <2>7
<1>6. \A d : Tied(d)' <=> Tied(d)
  BY <1>1 DEF Tied, Key
<1>7. QED
  BY <1>1, <1>4, <1>5, <1>6 DEF PagingInv

LEMMA NextPageStep ==
    ASSUME PagingInv, NextPage
    PROVE  PagingInv'
<1>1. /\ pageStep = "answered"
      /\ shown' = [e \in Entry |-> shown[e] + OnPage(e)]
      /\ pageStep' = IF skip + walk.take < total THEN "find" ELSE "done"
      /\ skip' = skip + walk.take
      /\ UNCHANGED <<collection, ever, walk, items, total, throughout, came, went>>
  BY DEF NextPage, OnPage
<1>2. /\ PagingTypes /\ History /\ walk.take \in Nat /\ skip \in Nat /\ total \in Nat
      /\ items \in Seq(Entry)
  BY <1>1 DEF PagingInv, PagingTypes, Walking
<1>3. \A d : OnPage(d) \in Nat
  <2> TAKE d
  <2> DEFINE I == {i \in DOMAIN items : items[i] = d}
             D == 1..Len(items)
  <2>1. I \in SUBSET D /\ Len(items) \in Nat
    BY <1>2
  <2> HIDE DEF I, D
  <2>2. Cardinality(I) \in Nat
    BY <2>1, PagingInterval, FS_Subset, FS_CardinalityType DEF D
  <2>3. QED
    BY <2>2 DEF OnPage, I
<1>4. shown' \in [Entry -> Nat]
  BY <1>1, <1>2, <1>3 DEF PagingTypes
<1>5. PagingTypes' /\ History'
  BY <1>1, <1>2, <1>4 DEF PagingTypes, History, Walking
<1>6. ASSUME NEW d \in throughout \cap walk.filter, ~Tied(d)
      PROVE  Missing(d)' /\ Repeating(d)'
  <2>1. Missing(d) /\ Repeating(d)
    BY <1>1, <1>6 DEF PagingInv, Walking
  <2>2. d \in Entry
    BY <1>1, <1>2, <1>6, AloneInMatching
  <2>3. Rank(d) \in Nat /\ shown[d] \in Nat /\ shown'[d] = shown[d] + OnPage(d) /\ OnPage(d) \in Nat
    BY <1>1, <1>2, <1>3, <2>2, RankPositive DEF PagingTypes
  <2>4. Rank(d)' = Rank(d)
    BY <1>1 DEF Rank, Earlier, Matching, Key
  <2>5. \A e : Before(e, d)' <=> Before(e, d)
    BY <1>1 DEF Before, Key
  <2>6. Missing(d)'
    BY <1>1, <1>2, <2>1, <2>3, <2>4, <2>5 DEF Missing
  <2>7. Repeating(d)'
    BY <1>1, <1>2, <2>1, <2>3, <2>4, <2>5 DEF Repeating
  <2>8. QED
    BY <2>6, <2>7
<1>7. \A d : Tied(d)' <=> Tied(d)
  BY <1>1 DEF Tied, Key
<1>8. QED
  BY <1>1, <1>5, <1>6, <1>7 DEF PagingInv, Walking

(* What comes and what goes, by an insertion, an update or a deletion.              *)
LEMMA AlterStep ==
    ASSUME PagingInv, NEW gone \in SUBSET collection, NEW new \in SUBSET Entry, Alter(gone, new),
           IsFiniteSet(new), ever \subseteq ever', ever' \subseteq Document,
           \A e \in new : e[1] \in ever',
           \A e, g \in new : e = g,
           \A e \in new, d \in collection \ gone :
              /\ e[1] # d[1]
              /\ CreatedAt[d[1]] <= CreatedAt[e[1]] \/ \E g \in gone : g[1] = e[1]
    PROVE  PagingInv'
<1>1. /\ collection' = (collection \ gone) \cup new
      /\ throughout' = throughout \ gone
      /\ came' = IF pageStep = "none" THEN came ELSE came \cup new
      /\ went' = IF pageStep = "none" THEN went ELSE went \cup gone
      /\ UNCHANGED <<walk, pageStep, skip, items, total, shown>>
  BY DEF Alter, walkVars
<1>2. PagingTypes /\ History
  BY DEF PagingInv
<1>3. PagingTypes'
  <2>1. IsFiniteSet(collection \ gone)
    BY <1>2, FS_Subset DEF PagingTypes
  <2>2. IsFiniteSet(collection')
    BY <1>1, <2>1, FS_Union
  <2>3. /\ collection' \subseteq Entry /\ throughout' \subseteq collection'
        /\ \A e, g \in collection' : e[1] = g[1] => e = g
        /\ \A e \in collection' : e[1] \in ever'
        /\ came' \subseteq Entry
    BY <1>1, <1>2 DEF PagingTypes
  <2>4. QED
    BY <1>1, <1>2, <2>2, <2>3 DEF PagingTypes, Walking
<1>4. History'
  <2>1. CASE pageStep = "none"
    BY <1>1, <1>2, <2>1 DEF History
  <2>2. CASE pageStep # "none"
    <3>1. collection' \subseteq throughout' \cup came'
      BY <1>1, <1>2, <2>2 DEF History
    <3>2. ASSUME NEW e \in came', NEW d \in throughout'
          PROVE  /\ e[1] # d[1]
                 /\ CreatedAt[d[1]] <= CreatedAt[e[1]] \/ \E g \in went' : g[1] = e[1]
      <4>1. d \in throughout /\ d \in collection \ gone
        BY <1>1, <1>2 DEF PagingTypes
      <4>2. e \in came \/ e \in new
        BY <1>1, <2>2
      <4>3. went \subseteq went' /\ gone \subseteq went'
        BY <1>1, <2>2
      <4>4. QED
        BY <1>2, <4>1, <4>2, <4>3 DEF History
    <3>3. QED
      BY <1>1, <2>2, <3>1, <3>2 DEF History
  <2>3. QED
    BY <2>1, <2>2
<1>5. ASSUME pageStep \in Walking, NEW d \in throughout' \cap walk.filter, ~Tied(d)'
      PROVE  Missing(d)' /\ Repeating(d)'
  <2>1. \A e : (Before(e, d)' <=> Before(e, d)) /\ Key(e)' = Key(e)
    BY <1>1 DEF Before, Key
  <2>2. /\ d \in throughout /\ d \notin gone
        /\ came' = came \cup new /\ went' = went \cup gone
    BY <1>1, <1>5 DEF Walking
  <2>3. ~Tied(d)
    <3>1. throughout \cup came \cup went \subseteq throughout' \cup came' \cup went'
      BY <1>1, <2>2
    <3>2. QED
      BY <1>1, <1>5, <2>1, <3>1 DEF Tied
  <2>4. Missing(d) /\ Repeating(d)
    BY <1>5, <2>2, <2>3 DEF PagingInv
  <2>5. d \in Entry /\ shown[d] \in Nat /\ skip \in Nat /\ walk.take \in Nat /\ total \in Nat
    BY <1>2, <1>5, <2>2 DEF PagingTypes
  <2>6. ASSUME \A e \in went' : ~Before(e, d) PROVE Earlier(d) \subseteq Earlier(d)'
    <3>1. \A e \in Earlier(d) : e \notin gone
      <4>1. \A e \in Earlier(d) : e \in Entry /\ e \in walk.filter /\ Key(e) < Key(d)
        BY <1>2 DEF Earlier, Matching, PagingTypes
      <4>2. \A e \in Earlier(d) : Before(e, d)
        BY <1>2, <1>5, <2>5, <4>1, KeysAreNumbers DEF Before
      <4>3. QED
        BY <2>2, <2>6, <4>2
    <3>2. QED
      BY <1>1, <2>1, <3>1 DEF Earlier, Matching
  <2>7. ASSUME \A e \in came' : ~Before(e, d) PROVE Earlier(d)' \subseteq Earlier(d)
    <3>1. \A e \in Earlier(d)' : e \in Entry /\ e \in walk.filter /\ Key(e) < Key(d)
      BY <1>1, <1>3, <2>1 DEF Earlier, Matching, PagingTypes
    <3>2. \A e \in Earlier(d)' : Before(e, d)
      BY <1>2, <1>5, <2>5, <3>1, KeysAreNumbers DEF Before
    <3>3. \A e \in Earlier(d)' : e \notin new
      BY <2>2, <2>7, <3>2
    <3>4. QED
      BY <1>1, <2>1, <3>3 DEF Earlier, Matching
  <2>8. /\ IsFiniteSet(Earlier(d)) /\ IsFiniteSet(Earlier(d)')
        /\ Rank(d) \in Nat \ {0} /\ Rank(d)' \in Nat \ {0}
    <3>1. Earlier(d)' \subseteq collection' /\ IsFiniteSet(collection')
      BY <1>3 DEF Earlier, Matching, PagingTypes
    <3>2. IsFiniteSet(Earlier(d)') /\ Cardinality(Earlier(d)') \in Nat
      BY <3>1, FS_Subset, FS_CardinalityType
    <3>3. QED
      BY <1>2, <3>2, RankOf DEF Rank
  <2>9. /\ Earlier(d) \subseteq Earlier(d)' => Rank(d) <= Rank(d)'
        /\ Earlier(d)' \subseteq Earlier(d) => Rank(d)' <= Rank(d)
    <3> DEFINE E == Earlier(d)
               F == Earlier(d)'
    <3>1. Rank(d) = Cardinality(E) + 1 /\ Rank(d)' = Cardinality(F) + 1
      BY DEF Rank
    <3>2. IsFiniteSet(E) /\ IsFiniteSet(F)
      BY <2>8
    <3> HIDE DEF E, F
    <3>3. /\ Cardinality(E) \in Nat /\ Cardinality(F) \in Nat
          /\ E \subseteq F => Cardinality(E) <= Cardinality(F)
          /\ F \subseteq E => Cardinality(F) <= Cardinality(E)
      BY <3>2, FS_Subset, FS_CardinalityType
    <3>4. /\ E \subseteq F => Rank(d) <= Rank(d)'
          /\ F \subseteq E => Rank(d)' <= Rank(d)
      BY <3>1, <3>3
    <3>5. QED
      BY <3>4 DEF E, F
  <2>10. OnPage(d)' = OnPage(d)
    BY <1>1 DEF OnPage
  <2>11. Missing(d)'
    BY <1>1, <2>1, <2>2, <2>4, <2>5, <2>6, <2>8, <2>9, <2>10 DEF Missing
  <2>12. Repeating(d)'
    BY <1>1, <2>1, <2>2, <2>4, <2>5, <2>7, <2>8, <2>9, <2>10 DEF Repeating
  <2>13. QED
    BY <2>11, <2>12
<1>6. QED
  BY <1>1, <1>3, <1>4, <1>5 DEF PagingInv

LEMMA InsertEntryStep ==
    ASSUME PagingInv, NEW e \in Entry, Insert(e)
    PROVE  PagingInv'
<1>1. /\ e[1] \in Document /\ e[1] \notin ever /\ ever' = ever \cup {e[1]}
      /\ \A d \in ever : CreatedAt[d] <= CreatedAt[e[1]]
      /\ Alter({}, {e})
  BY DEF Insert, Entry
<1>2. /\ \A d \in collection : d[1] \in ever
      /\ ever \subseteq Document
  BY DEF PagingInv, PagingTypes
<1>3. IsFiniteSet({e})
  BY FS_Singleton
<1>4. QED
  BY <1>1, <1>2, <1>3, AlterStep

LEMMA UpdateStep ==
    ASSUME PagingInv, NEW e \in collection, NEW f \in Fields, Update(e, f)
    PROVE  PagingInv'
<1> DEFINE n == <<e[1], f>>
<1>1. Alter({e}, {n}) /\ ever' = ever
  BY DEF Update
<1>2. /\ e \in Entry /\ e[1] \in ever /\ ever \subseteq Document
      /\ \A d \in collection \ {e} : e[1] # d[1]
  BY DEF PagingInv, PagingTypes
<1>3. n \in Entry /\ n[1] = e[1]
  BY <1>2 DEF Entry
<1>4. IsFiniteSet({n})
  BY FS_Singleton
<1> HIDE DEF n
<1>5. QED
  BY <1>1, <1>2, <1>3, <1>4, AlterStep

LEMMA DeleteEntryStep ==
    ASSUME PagingInv, NEW e \in collection, Delete(e)
    PROVE  PagingInv'
<1>1. Alter({e}, {}) /\ ever' = ever
  BY DEF Delete
<1>2. ever \subseteq Document
  BY DEF PagingInv, PagingTypes
<1>3. QED
  BY <1>1, <1>2, FS_EmptySet, AlterStep

LEMMA PagingInvariant == PagingSpec => []PagingInv
<1>1. PagingInv /\ [PagingNext]_pagingVars => PagingInv'
  <2> SUFFICES ASSUME PagingInv, [PagingNext]_pagingVars PROVE PagingInv'
    OBVIOUS
  <2>1. CASE PagingNext
    BY <2>1, BeginWalkStep, FindStep, CountStep, NextPageStep, InsertEntryStep,
       UpdateStep, DeleteEntryStep DEF PagingNext
  <2>2. CASE UNCHANGED pagingVars
    <3>1. /\ PagingTypes' /\ History'
          /\ \A d : (Tied(d)' <=> Tied(d)) /\ (Missing(d)' <=> Missing(d))
                    /\ (Repeating(d)' <=> Repeating(d))
      BY <2>2 DEF PagingInv, pagingVars, walkVars, pagingHistory, PagingTypes, History, Tied, Missing, Repeating,
                  Before, Key, Rank, Earlier, Matching, OnPage
    <3>2. QED
      BY <2>2, <3>1 DEF PagingInv, pagingVars, walkVars, pagingHistory
  <2>3. QED
    BY <2>1, <2>2
<1>2. QED
  BY <1>1, InitPaging, PTL DEF PagingSpec

(* Who asks for page after page of a search of a repository, by findWithPagination,    *)
(* has seen each document once that was there all the time, as it is, and whose sort   *)
(* key is its own: unless one before it was deleted or updated meanwhile, which may    *)
(* make the walk miss documents, or one was inserted before it or updated to come      *)
(* there, which may make it repeat some; in the default order, by createdAt, only an   *)
(* update can.                                                                         *)
THEOREM WalksCover == PagingSpec => []PagesCover
<1>1. ASSUME PagingInv, pageStep = "done", NEW d \in throughout \cap walk.filter, ~Tied(d)
      PROVE  /\ shown[d] = 0 => \E e \in went : Before(e, d)
             /\ shown[d] > 1 =>
                   \E e \in came : /\ Before(e, d)
                                  /\ walk.order = "createdAt" => e[1] \in Documents(went)
  <2>1. Missing(d) /\ Repeating(d) /\ PagingTypes /\ History
    BY <1>1 DEF PagingInv, Walking
  <2>2. d \in Entry /\ shown[d] \in Nat
    BY <1>1, <2>1 DEF PagingTypes
  <2>3. shown[d] > 1 => \E e \in came : Before(e, d)
    BY <2>1, <2>2 DEF Repeating
  <2>4. ASSUME NEW e \in came, Before(e, d), walk.order = "createdAt"
        PROVE  e[1] \in Documents(went)
    <3>1. e \in Entry /\ e # d
      BY <1>1, <2>1, <2>4 DEF PagingTypes, History
    <3>2. Key(e) \in Int /\ Key(d) \in Int
      BY <1>1, <2>1, <2>2, <3>1, KeysAreNumbers DEF Walking
    <3>3. Key(e) # Key(d) /\ Key(e) <= Key(d)
      BY <1>1, <2>4, <3>1 DEF Tied, Before
    <3>4. ~(CreatedAt[d[1]] <= CreatedAt[e[1]])
      BY <2>4, <3>2, <3>3 DEF Key
    <3>5. \E g \in went : g[1] = e[1]
      BY <1>1, <2>1, <2>4, <3>4 DEF History
    <3>6. QED
      BY <3>5 DEF Documents
  <2>5. QED
    BY <1>1, <2>1, <2>3, <2>4 DEF Missing
<1>2. PagingInv => PagesCover
  BY <1>1 DEF PagesCover
<1>3. QED
  BY <1>2, PagingInvariant, PTL

----------------------------------------------------------------------------

\* The page found last is one of the documents of M, which is what matches but for what has
\* come and gone since.
FoundIn(M) ==
    /\ IsFiniteSet(M)
    /\ Matching \subseteq M \cup between.came
    /\ M \subseteq Matching \cup between.went
    /\ Len(items) < walk.take => Cardinality(M) <= skip + Len(items)
    /\ Len(items) > 0 => skip + Len(items) <= Cardinality(M)

(* The invariant. *)
TotalInv ==
    /\ IsFiniteSet(between.came) /\ IsFiniteSet(between.went)
    /\ pageStep = "count" => \E M \in SUBSET walk.filter : FoundIn(M)
    /\ TotalFitsPage

LEMMA AlterTotal ==
    ASSUME TotalInv, NEW gone, NEW new, IsFiniteSet(gone), IsFiniteSet(new), Alter(gone, new)
    PROVE  TotalInv'
<1>1. /\ collection' = (collection \ gone) \cup new
      /\ between' = IF pageStep = "count"
                    THEN [came |-> between.came \cup new, went |-> between.went \cup gone]
                    ELSE between
      /\ UNCHANGED <<walk, pageStep, skip, items, total>>
  BY DEF Alter, walkVars
<1>2. CASE pageStep = "count"
  <2>1. between'.came = between.came \cup new /\ between'.went = between.went \cup gone
    BY <1>1, <1>2
  <2>2. IsFiniteSet(between'.came) /\ IsFiniteSet(between'.went)
    BY <2>1, FS_Union DEF TotalInv
  <2>3. PICK M \in SUBSET walk.filter : FoundIn(M)
    BY <1>2 DEF TotalInv
  <2>4. FoundIn(M)'
    BY <1>1, <2>1, <2>3 DEF FoundIn, Matching
  <2>5. QED
    BY <1>1, <1>2, <2>2, <2>3, <2>4 DEF TotalInv, TotalFitsPage
<1>3. CASE pageStep # "count"
  BY <1>1, <1>3 DEF TotalInv, TotalFitsPage
<1>4. QED
  BY <1>2, <1>3

(* The count, against the page that was found before it.                              *)
LEMMA CountFits ==
    ASSUME PagingTypes, TotalInv, CountDocuments
    PROVE  TotalFitsPage'
<1>1. /\ pageStep = "count" /\ total' = Cardinality(Matching)
      /\ UNCHANGED <<walk, skip, items, between>>
  BY DEF CountDocuments, pagingHistory
<1>2. PICK M \in SUBSET walk.filter : FoundIn(M)
  BY <1>1 DEF TotalInv
<1> DEFINE N == Matching
           C == between.came \cap walk.filter
           W == between.went \cap walk.filter
<1>3. N \subseteq M \cup C /\ M \subseteq N \cup W
  BY <1>2 DEF FoundIn, Matching
<1>4. IsFiniteSet(N) /\ IsFiniteSet(M) /\ IsFiniteSet(C) /\ IsFiniteSet(W)
  BY <1>2, RankOf, FS_Subset DEF TotalInv, FoundIn
<1>5. total' = Cardinality(N)
  BY <1>1
<1>6. /\ Len(items) < walk.take => Cardinality(M) <= skip + Len(items)
      /\ Len(items) > 0 => skip + Len(items) <= Cardinality(M)
      /\ skip \in Nat /\ Len(items) \in Nat
  BY <1>2 DEF FoundIn, PagingTypes
<1> HIDE DEF N, C, W
<1>7. /\ Cardinality(N) \in Nat /\ Cardinality(M) \in Nat
      /\ Cardinality(C) \in Nat /\ Cardinality(W) \in Nat
  BY <1>4, FS_CardinalityType
<1>8. Cardinality(N) <= Cardinality(M) + Cardinality(C)
  BY <1>3, <1>4, FewerThanBoth
<1>9. Cardinality(M) <= Cardinality(N) + Cardinality(W)
  BY <1>3, <1>4, FewerThanBoth
<1>10. /\ Len(items) < walk.take => total' <= skip + Len(items) + Cardinality(C)
       /\ Len(items) > 0 => skip + Len(items) <= total' + Cardinality(W)
  BY <1>5, <1>6, <1>7, <1>8, <1>9
<1>11. QED
  BY <1>1, <1>10 DEF TotalFitsPage, C, W

LEMMA TotalStep ==
    ASSUME PagingInv, TotalInv, PagingNext
    PROVE  TotalInv'
<1>1. PagingTypes
  BY DEF PagingInv
<1>2. ASSUME NEW o \in Order, NEW f \in Filter, NEW t \in Takes, BeginWalk(o, f, t)
      PROVE  TotalInv'
  BY <1>2 DEF TotalInv, BeginWalk, TotalFitsPage
<1>3. CASE FindPage
  <2>1. PICK seq \in Sorted : items' = Page(seq)
    BY <1>3 DEF FindPage
  <2>2. /\ pageStep = "find" /\ pageStep' = "count"
        /\ UNCHANGED <<collection, walk, skip, between>>
    BY <1>3 DEF FindPage, pagingHistory
  <2>3. IsFiniteSet(Matching) /\ Matching' = Matching /\ Matching \subseteq walk.filter
    BY <1>1, <2>2, RankOf DEF Matching
  <2>4. /\ Len(items') < walk.take => Cardinality(Matching) <= skip + Len(items')
        /\ Len(items') > 0 => skip + Len(items') <= Cardinality(Matching)
    BY <1>1, <2>1, <2>2, PageIs
  <2>5. FoundIn(Matching)'
    BY <2>2, <2>3, <2>4 DEF FoundIn
  <2>6. QED
    BY <2>2, <2>3, <2>5 DEF TotalInv, TotalFitsPage
<1>4. CASE CountDocuments
  BY <1>1, <1>4, CountFits DEF TotalInv, CountDocuments, pagingHistory
<1>5. CASE NextPage
  BY <1>5, FS_EmptySet DEF TotalInv, NextPage, TotalFitsPage, NothingYet
<1>6. ASSUME NEW e, \/ Insert(e) \/ Delete(e) \/ \E f : Update(e, f)
      PROVE  TotalInv'
  <2>1. CASE Insert(e)
    BY <2>1, FS_EmptySet, FS_Singleton, AlterTotal DEF Insert
  <2>2. CASE Delete(e)
    BY <2>2, FS_EmptySet, FS_Singleton, AlterTotal DEF Delete
  <2>3. ASSUME NEW f, Update(e, f) PROVE TotalInv'
    <3> DEFINE n == <<e[1], f>>
    <3>1. IsFiniteSet({e}) /\ IsFiniteSet({n}) /\ Alter({e}, {n})
      BY <2>3, FS_Singleton DEF Update
    <3> HIDE DEF n
    <3>2. QED
      BY <3>1, AlterTotal
  <2>4. QED
    BY <1>6, <2>1, <2>2, <2>3
<1>7. QED
  BY <1>2, <1>3, <1>4, <1>5, <1>6 DEF PagingNext

(* The total that findWithPagination counts after it has found a page contradicts the  *)
(* page by no more than what was inserted, updated and deleted between the two: of the *)
(* documents on or before the page it leaves out no more than went, and after a page   *)
(* that is not full it promises no more than came.                                     *)
THEOREM TotalsFit == PagingSpec => []TotalFitsPage
<1>1. PagingInit => TotalInv
  BY FS_EmptySet DEF PagingInit, TotalInv, TotalFitsPage, NothingYet
<1>2. PagingInv /\ TotalInv /\ [PagingNext]_pagingVars => TotalInv'
  <2> SUFFICES ASSUME PagingInv, TotalInv, [PagingNext]_pagingVars PROVE TotalInv'
    OBVIOUS
  <2>1. CASE UNCHANGED pagingVars
    <3>1. /\ collection' = collection /\ walk' = walk /\ pageStep' = pageStep /\ skip' = skip
          /\ items' = items /\ total' = total /\ between' = between
      BY <2>1 DEF pagingVars, walkVars, pagingHistory
    <3>2. QED
      BY <3>1 DEF TotalInv, TotalFitsPage, FoundIn, Matching
  <2>2. QED
    BY <2>1, TotalStep
<1>3. TotalInv => TotalFitsPage
  BY DEF TotalInv
<1>4. QED
  BY <1>1, <1>2, <1>3, PagingInvariant, PTL DEF PagingSpec

----------------------------------------------------------------------------

(* The bytes and what they decode to.                                       *)
Cell == {"x", "lf", "head", "tail", "bad"}

(* Where the lines of a text end.                                           *)
Feeds(text) == {i \in DOMAIN text : text[i] = "lf"}

LineEnds(text) == Feeds(text) \cup {Len(text) + 1}

\* e lists the numbers of S, in order.
Lists(e, m, S) ==
    /\ m \in Nat
    /\ e \in [1..m -> S]
    /\ \A i, j \in 1..m : i < j => e[i] < e[j]
    /\ \A p \in S : \E i \in 1..m : e[i] = p

(* The place of a number in the list is how many there are up to it.        *)
LEMMA PlaceInList ==
    ASSUME NEW S \in SUBSET Nat, NEW e, NEW m, Lists(e, m, S), NEW k \in 1..m
    PROVE  Cardinality({q \in S : q <= e[k]}) = k
<1> DEFINE U == {q \in S : q <= e[k]}
           f == [i \in 1..k |-> e[i]]
<1>1. m \in Nat /\ k \in Nat /\ 1..k \subseteq 1..m /\ e \in [1..m -> S]
  BY DEF Lists
<1>2. \A i \in 1..m : e[i] <= e[k] <=> i <= k
  <2> TAKE i \in 1..m
  <2>1. e[i] \in Nat /\ e[k] \in Nat
    BY <1>1
  <2>2. i < k => e[i] < e[k]
    BY DEF Lists
  <2>3. k < i => e[k] < e[i]
    BY DEF Lists
  <2>4. QED
    BY <1>1, <2>1, <2>2, <2>3
<1>3. \A i, j \in 1..m : e[i] = e[j] => i = j
  <2> TAKE i, j \in 1..m
  <2>1. e[i] \in Nat /\ e[j] \in Nat
    BY <1>1
  <2>2. i < j => e[i] < e[j]
    BY DEF Lists
  <2>3. j < i => e[j] < e[i]
    BY DEF Lists
  <2>4. QED
    BY <1>1, <2>1, <2>2, <2>3
<1>4. f \in [1..k -> U]
  <2>1. \A i \in 1..k : e[i] \in U
    BY <1>1, <1>2
  <2>2. QED
    BY <2>1
<1>5. \A q \in U : \E i \in 1..k : f[i] = q
  <2> TAKE q \in U
  <2>1. PICK i \in 1..m : e[i] = q
    BY DEF Lists
  <2>2. i \in 1..k
    BY <1>1, <1>2, <2>1
  <2>3. QED
    BY <2>1, <2>2
<1>6. \A i, j \in 1..k : f[i] = f[j] => i = j
  BY <1>1, <1>3
<1> HIDE DEF f, U
<1>7. f \in Bijection(1..k, U)
  BY <1>4, <1>5, <1>6 DEF Bijection, Injection, Surjection, IsInjective
<1>8. ExistsBijection(1..k, U) /\ IsFiniteSet(1..k) /\ Cardinality(1..k) = k
  BY <1>1, <1>7, PagingInterval DEF ExistsBijection
<1>9. QED
  BY <1>8, FS_Bijection DEF U

(* There is one list only.                                                  *)
LEMMA OneList ==
    ASSUME NEW S \in SUBSET Nat, NEW e, NEW m, NEW f, NEW n, Lists(e, m, S), Lists(f, n, S)
    PROVE  m = n /\ e = f
<1>1. \A g, h, k, l : Lists(g, k, S) /\ Lists(h, l, S) => \A i \in 1..k : i \in 1..l /\ g[i] = h[i]
  <2> SUFFICES ASSUME NEW g, NEW h, NEW k, NEW l, Lists(g, k, S), Lists(h, l, S), NEW i \in 1..k
               PROVE  i \in 1..l /\ g[i] = h[i]
    OBVIOUS
  <2>1. PICK j \in 1..l : h[j] = g[i]
    BY DEF Lists
  <2>2. Cardinality({q \in S : q <= g[i]}) = i
    BY PlaceInList
  <2>3. Cardinality({q \in S : q <= h[j]}) = j
    BY PlaceInList
  <2>4. QED
    BY <2>1, <2>2, <2>3
<1>2. (\A i \in 1..m : i \in 1..n /\ e[i] = f[i]) /\ \A i \in 1..n : i \in 1..m
  BY <1>1
<1>3. m \in Nat /\ n \in Nat
  BY DEF Lists
<1>4. m = n
  <2>1. m > 0 => m \in 1..n
    BY <1>2, <1>3
  <2>2. n > 0 => n \in 1..m
    BY <1>2, <1>3
  <2>3. QED
    BY <1>3, <2>1, <2>2
<1>5. e \in [1..m -> S] /\ f \in [1..m -> S]
  BY <1>4 DEF Lists
<1>6. \A i \in 1..m : e[i] = f[i]
  BY <1>2
<1>7. e = [i \in 1..m |-> e[i]] /\ f = [i \in 1..m |-> f[i]]
  BY <1>5
<1>8. QED
  BY <1>4, <1>6, <1>7

(* There is one.                                                            *)
LEMMA SomeList ==
    ASSUME NEW S \in SUBSET Nat, IsFiniteSet(S)
    PROVE  \E e : Lists(e, Cardinality(S), S)
<1> DEFINE m == Cardinality(S)
           U(p) == {q \in S : q <= p}
           r == [p \in S |-> Cardinality(U(p))]
<1>1. m \in Nat
  BY FS_CardinalityType
<1>2. \A p \in S : IsFiniteSet(U(p)) /\ r[p] \in 1..m
  <2> TAKE p \in S
  <2> DEFINE V == U(p)
  <2>1. V \in SUBSET S /\ p \in V
    OBVIOUS
  <2>2. r[p] = Cardinality(V)
    OBVIOUS
  <2> HIDE DEF V, r
  <2>3. IsFiniteSet(V) /\ Cardinality(V) <= m /\ Cardinality(V) \in Nat
    BY <2>1, FS_Subset, FS_CardinalityType
  <2>4. Cardinality(V) # 0
    BY <2>1, <2>3, FS_EmptySet
  <2>5. QED
    BY <1>1, <2>2, <2>3, <2>4 DEF V
<1>3. \A p, q \in S : p < q => r[p] < r[q]
  <2> SUFFICES ASSUME NEW p \in S, NEW q \in S, p < q PROVE r[p] < r[q]
    OBVIOUS
  <2> DEFINE V == U(p)
             W == U(q)
  <2>1. \A x \in S : x <= p => x <= q
    <3>1. p \in Nat /\ q \in Nat /\ \A x \in S : x \in Nat
      OBVIOUS
    <3>2. QED
      BY <3>1
  <2>2. V \in SUBSET W /\ q \in W /\ q \notin V
    <3>1. p \in Nat /\ q \in Nat
      OBVIOUS
    <3>2. q <= q /\ ~(q <= p)
      BY <3>1
    <3>3. QED
      BY <2>1, <3>2
  <2>3. r[p] = Cardinality(V) /\ r[q] = Cardinality(W) /\ IsFiniteSet(W)
    BY <1>2
  <2> HIDE DEF V, W, r
  <2>4. V \cup {q} \in SUBSET W
    BY <2>2
  <2>5. IsFiniteSet(V) /\ Cardinality(V \cup {q}) <= Cardinality(W)
    BY <2>2, <2>3, <2>4, FS_Subset
  <2>6. Cardinality(V \cup {q}) = Cardinality(V) + 1
    BY <2>2, <2>5, FS_AddElement
  <2>7. Cardinality(V) \in Nat /\ Cardinality(W) \in Nat
    BY <2>3, <2>5, FS_CardinalityType
  <2>8. QED
    BY <2>3, <2>5, <2>6, <2>7
<1>10. \A p \in S : r[p] \in 1..m
  BY <1>2
<1> HIDE DEF r, m
<1>4. r \in Surjection(S, 1..m)
  <2>1. r \in [S -> 1..m]
    BY <1>10 DEF r
  <2>2. \A p, q \in S : r[p] = r[q] => p = q
    <3> TAKE p, q \in S
    <3>1. p < q \/ q < p \/ p = q
      OBVIOUS
    <3>2. r[p] \in Nat /\ r[q] \in Nat
      BY <1>1, <1>10
    <3>3. QED
      BY <1>3, <3>1, <3>2
  <2>3. r \in Injection(S, 1..m)
    BY <2>1, <2>2 DEF Injection, IsInjective
  <2>4. IsFiniteSet(1..m) /\ Cardinality(1..m) = Cardinality(S)
    BY <1>1, PagingInterval DEF m
  <2>5. QED
    BY <2>3, <2>4, FS_Injection
<1> DEFINE e == [k \in 1..m |-> CHOOSE p \in S : r[p] = k]
<1>5. \A k \in 1..m : e[k] \in S /\ r[e[k]] = k
  BY <1>4 DEF Surjection
<1>6. e \in [1..m -> S]
  BY <1>5
<1> HIDE DEF e
<1>7. \A i, j \in 1..m : i < j => e[i] < e[j]
  <2> SUFFICES ASSUME NEW i \in 1..m, NEW j \in 1..m, i < j PROVE e[i] < e[j]
    OBVIOUS
  <2>1. e[i] \in Nat /\ e[j] \in Nat /\ r[e[i]] = i /\ r[e[j]] = j
    BY <1>5
  <2>2. e[j] < e[i] => r[e[j]] < r[e[i]]
    BY <1>3, <1>5
  <2>3. e[i] # e[j]
    BY <2>1
  <2>4. QED
    BY <1>1, <2>1, <2>2, <2>3
<1>8. \A p \in S : \E i \in 1..m : e[i] = p
  <2> TAKE p \in S
  <2>1. r[p] \in 1..m /\ e[r[p]] \in S /\ r[e[r[p]]] = r[p]
    BY <1>10, <1>5
  <2>2. e[r[p]] = p
    <3> DEFINE q == e[r[p]]
    <3>1. q \in S /\ r[q] = r[p] /\ r[p] \in Nat
      BY <1>1, <2>1
    <3> HIDE DEF q
    <3>2. q < p \/ p < q \/ p = q
      BY <3>1
    <3>3. q = p
      BY <1>3, <3>1, <3>2
    <3>4. QED
      BY <3>3 DEF q
  <2>3. QED
    BY <2>1, <2>2
<1>9. QED
  BY <1>1, <1>6, <1>7, <1>8 DEF Lists, m

(* So the ends of the lines are what CHOOSE finds.                          *)
LEMMA EndsAre ==
    ASSUME NEW text \in Seq(Cell)
    PROVE  /\ Lists(Ends(text), Len(Ends(text)), LineEnds(text))
           /\ Len(Ends(text)) > 0
           /\ Ends(text)[Len(Ends(text))] = Len(text) + 1
           /\ LineEnds(text) \in SUBSET (1..(Len(text) + 1))
<1> DEFINE S == LineEnds(text)
           m == Cardinality(S)
           e == Ends(text)
           n == Len(text)
<1>1. n \in Nat /\ DOMAIN text = 1..n
  OBVIOUS
<1>2. S \in SUBSET (1..(n + 1)) /\ n + 1 \in S
  BY <1>1 DEF LineEnds, Feeds
<1>3. S \in SUBSET Nat
  BY <1>1, <1>2
<1>4. e = CHOOSE f \in SetToSeqs(S) : \A i, j \in DOMAIN f : i < j => f[i] < f[j]
  BY DEF Ends, LineEnds, Feeds
<1> HIDE DEF S, n, e
<1>5. IsFiniteSet(S)
  <2>1. IsFiniteSet(1..(n + 1))
    BY <1>1, PagingInterval
  <2> DEFINE T == 1..(n + 1)
  <2> HIDE DEF T
  <2>2. IsFiniteSet(T) /\ S \in SUBSET T
    BY <1>2, <2>1 DEF T
  <2>3. QED
    BY <2>2, FS_Subset
<1>6. m \in Nat
  BY <1>5, FS_CardinalityType
<1> HIDE DEF m
<1>7. PICK g : Lists(g, m, S)
  BY <1>3, <1>5, SomeList DEF m
<1>8. \A f : Lists(f, m, S) => f \in SetToSeqs(S)
  <2> SUFFICES ASSUME NEW f, Lists(f, m, S) PROVE f \in SetToSeqs(S)
    OBVIOUS
  <2>1. f \in [1..m -> S]
    BY DEF Lists
  <2>2. \A i, j \in 1..m : i # j => f[i] # f[j]
    <3> SUFFICES ASSUME NEW i \in 1..m, NEW j \in 1..m, i # j PROVE f[i] # f[j]
      OBVIOUS
    <3>1. (i < j => f[i] < f[j]) /\ (j < i => f[j] < f[i])
      BY DEF Lists
    <3>2. f[i] \in Nat /\ f[j] \in Nat
      BY <1>3, <2>1
    <3>3. QED
      BY <1>6, <3>1, <3>2
  <2>3. QED
    BY <2>1, <2>2 DEF SetToSeqs, m
<1>9. g \in SetToSeqs(S) /\ \A i, j \in DOMAIN g : i < j => g[i] < g[j]
  BY <1>7, <1>8 DEF Lists
<1>10. e \in SetToSeqs(S) /\ \A i, j \in DOMAIN e : i < j => e[i] < e[j]
  BY <1>4, <1>9
<1>11. e \in [1..m -> S] /\ \A i, j \in 1..m : i # j => e[i] # e[j]
  BY <1>10 DEF SetToSeqs, m
<1>12. Len(e) = m
  BY <1>6, <1>11
<1>13. e \in Surjection(1..m, S)
  <2>1. e \in Injection(1..m, S)
    BY <1>11 DEF Injection, IsInjective
  <2>2. IsFiniteSet(1..m) /\ Cardinality(1..m) = Cardinality(S)
    BY <1>6, PagingInterval DEF m
  <2>3. QED
    BY <1>5, <2>1, <2>2, FS_Injection
<1>14. Lists(e, m, S)
  BY <1>6, <1>10, <1>11, <1>13 DEF Lists, Surjection
<1>15. PICK k \in 1..m : e[k] = n + 1
  BY <1>2, <1>14 DEF Lists
<1>16. m > 0 /\ e[m] = n + 1
  <2>1. m > 0 /\ m \in 1..m
    BY <1>6, <1>15
  <2>2. k < m => e[k] < e[m]
    BY <1>14, <2>1 DEF Lists
  <2>3. e[m] \in Nat /\ e[m] <= n + 1
    <3>1. e[m] \in S
      BY <1>11, <2>1
    <3>2. e[m] \in 1..(n + 1)
      BY <1>2, <3>1
    <3>3. QED
      BY <1>1, <3>2
  <2>4. QED
    BY <1>1, <1>6, <1>15, <2>1, <2>2, <2>3
<1>17. QED
  BY <1>2, <1>12, <1>14, <1>16 DEF S, e, n

(* The lines, as their ends say.                                            *)
LEMMA SplitAt ==
    ASSUME NEW text \in Seq(Cell)
    PROVE  LET e == Ends(text)
           IN  /\ Split(text) \in Seq(Seq(Cell))
               /\ Len(Split(text)) = Len(e) /\ Len(e) \in Nat \ {0}
               /\ \A k \in 1..Len(e) :
                     Split(text)[k] = SubSeq(text, (IF k = 1 THEN 0 ELSE e[k - 1]) + 1, e[k] - 1)
<1> DEFINE e == Ends(text)
           m == Len(e)
           n == Len(text)
           lo(k) == (IF k = 1 THEN 0 ELSE e[k - 1]) + 1
           L == Split(text)
<1>1. Lists(e, m, LineEnds(text)) /\ m > 0 /\ LineEnds(text) \in SUBSET (1..(n + 1))
  BY EndsAre
<1>2. m \in Nat /\ n \in Nat /\ e \in [1..m -> 1..(n + 1)]
  BY <1>1 DEF Lists
<1>3. L = [k \in DOMAIN e |-> SubSeq(text, lo(k), e[k] - 1)]
  BY DEF Split
<1> HIDE DEF e, m, n, L
<1>4. \A k \in 1..m : SubSeq(text, lo(k), e[k] - 1) \in Seq(Cell)
  <2> TAKE k \in 1..m
  <2> DEFINE a == lo(k)
             b == e[k] - 1
  <2>1. a \in Nat \ {0}
    <3>1. k # 1 => k - 1 \in 1..m
      BY <1>2
    <3>2. k # 1 => e[k - 1] \in Nat
      BY <1>2, <3>1
    <3>3. QED
      BY <3>2
  <2>2. b \in Nat /\ b <= n
    <3>1. e[k] \in 1..(n + 1)
      BY <1>2
    <3>2. QED
      BY <1>2, <3>1
  <2> HIDE DEF a, b
  <2>3. SubSeq(text, a, b) \in Seq(Cell)
    BY <2>1, <2>2 DEF n
  <2>4. QED
    BY <2>3 DEF a, b
<1>5. L = [k \in 1..m |-> SubSeq(text, lo(k), e[k] - 1)]
  BY <1>2, <1>3
<1>6. L \in [1..m -> Seq(Cell)]
  BY <1>4, <1>5
<1>7. L \in Seq(Seq(Cell)) /\ Len(L) = m
  BY <1>2, <1>6
<1>8. m \in Nat \ {0}
  BY <1>1, <1>2
<1>9. \A k \in 1..m : L[k] = SubSeq(text, (IF k = 1 THEN 0 ELSE e[k - 1]) + 1, e[k] - 1)
  BY <1>5
<1>10. QED
  BY <1>7, <1>8, <1>9 DEF e, m, L

(* The last line begins after all ends but the last.                        *)
LastBegin(text) == LET e == Ends(text) IN IF Len(e) = 1 THEN 0 ELSE e[Len(e) - 1]

LEMMA LastLine ==
    ASSUME NEW s \in Seq(Cell)
    PROVE  /\ LastBegin(s) \in 0..Len(s)
           /\ Last(Split(s)) = SubSeq(s, LastBegin(s) + 1, Len(s))
           /\ Last(Split(s)) \in Seq(Cell)
           /\ Len(Last(Split(s))) = Len(s) - LastBegin(s)
           /\ \A i \in 1..Len(Last(Split(s))) : Last(Split(s))[i] = s[LastBegin(s) + i]
<1> DEFINE e == Ends(s)
           m == Len(e)
           n == Len(s)
           o == LastBegin(s)
           u == Last(Split(s))
<1>1. /\ Lists(e, m, LineEnds(s)) /\ m > 0 /\ LineEnds(s) \in SUBSET (1..(n + 1))
      /\ e[m] = n + 1
  BY EndsAre
<1>2. m \in Nat /\ n \in Nat /\ e \in [1..m -> 1..(n + 1)]
  BY <1>1 DEF Lists
<1>3. o = IF m = 1 THEN 0 ELSE e[m - 1]
  BY DEF LastBegin
<1>4. u = SubSeq(s, o + 1, n)
  <2>1. Len(Split(s)) = m /\ Split(s)[m] = SubSeq(s, (IF m = 1 THEN 0 ELSE e[m - 1]) + 1, e[m] - 1)
    <3>1. /\ Len(Split(s)) = m
          /\ \A k \in 1..m : Split(s)[k] = SubSeq(s, (IF k = 1 THEN 0 ELSE e[k - 1]) + 1, e[k] - 1)
      BY SplitAt
    <3>2. m \in 1..m
      BY <1>1, <1>2
    <3> HIDE DEF e, m, n, o, u
    <3>3. QED
      BY <3>1, <3>2
  <2>2. u = Split(s)[m]
    BY <2>1 DEF Last
  <2>3. e[m] - 1 = n
    BY <1>1, <1>2
  <2> HIDE DEF e, m, n, o, u
  <2>4. QED
    BY <1>3, <2>1, <2>2, <2>3
<1> HIDE DEF e, m, n, o, u
<1>5. o \in 0..n
  <2>1. m # 1 => m - 1 \in 1..m /\ m - 1 < m /\ m \in 1..m
    BY <1>1, <1>2
  <2>2. m # 1 => e[m - 1] < e[m]
    BY <1>1, <2>1 DEF Lists
  <2>3. m # 1 => e[m - 1] \in 1..(n + 1)
    BY <1>2, <2>1
  <2>4. QED
    BY <1>1, <1>2, <1>3, <2>2, <2>3
<1>6. /\ u \in Seq(Cell) /\ Len(u) = n - o
      /\ \A i \in 1..Len(u) : u[i] = s[o + i]
  <2>1. o \in Nat /\ n = Len(s)
    BY <1>2, <1>5 DEF n
  <2>2. u \in Seq(Cell)
    BY <1>4, <2>1
  <2>3. u = [i \in 1..(n - o) |-> s[i + (o + 1) - 1]]
    BY <1>2, <1>4, <1>5, <2>1
  <2>4. QED
    BY <1>2, <1>5, <2>2, <2>3
<1>7. QED
  BY <1>4, <1>5, <1>6 DEF n, o, u

(* Two sequences in a row.                                                  *)
LEMMA Joined ==
    ASSUME NEW S, NEW a \in Seq(S), NEW b \in Seq(S)
    PROVE  /\ a \o b \in Seq(S)
           /\ Len(a) \in Nat /\ Len(b) \in Nat
           /\ Len(a \o b) = Len(a) + Len(b)
           /\ \A i \in 1..Len(a) : (a \o b)[i] = a[i]
           /\ \A i \in 1..Len(b) : (a \o b)[Len(a) + i] = b[i]
<1>1. /\ a \o b \in Seq(S) /\ Len(a \o b) = Len(a) + Len(b)
      /\ Len(a) \in Nat /\ Len(b) \in Nat
  OBVIOUS
<1>2. \A i \in 1..Len(a) : (a \o b)[i] = a[i]
  OBVIOUS
<1>3. \A i \in 1..Len(b) : (a \o b)[Len(a) + i] = b[i]
  OBVIOUS
<1>4. QED
  BY <1>1, <1>2, <1>3

(* A text followed by another ends with its last line followed by that one.  *)
LEMMA LastLineJoined ==
    ASSUME NEW s \in Seq(Cell), NEW t \in Seq(Cell)
    PROVE  LET o == LastBegin(s)
               v == Last(Split(s)) \o t
               w == s \o t
           IN  /\ v \in Seq(Cell) /\ w \in Seq(Cell)
               /\ Len(v) \in Nat /\ Len(s) \in Nat /\ o \in Nat
               /\ Len(w) = Len(s) + Len(t) /\ Len(w) = o + Len(v) /\ Len(s) <= Len(w)
               /\ \A i \in 1..Len(v) : v[i] = w[o + i]
               /\ \A i \in 1..Len(s) : w[i] = s[i]
<1> DEFINE o == LastBegin(s)
           u == Last(Split(s))
           v == u \o t
           w == s \o t
<1>1. /\ o \in 0..Len(s) /\ u \in Seq(Cell) /\ Len(u) = Len(s) - o
      /\ \A i \in 1..Len(u) : u[i] = s[o + i]
  BY LastLine
<1> HIDE DEF o, u
<1>2. /\ v \in Seq(Cell) /\ Len(u) \in Nat /\ Len(t) \in Nat /\ Len(v) = Len(u) + Len(t)
      /\ \A i \in 1..Len(u) : v[i] = u[i]
      /\ \A i \in 1..Len(t) : v[Len(u) + i] = t[i]
  <2>1. u \in Seq(Cell)
    BY <1>1
  <2>2. QED
    BY <2>1, Joined
<1>3. /\ w \in Seq(Cell) /\ Len(s) \in Nat /\ Len(w) = Len(s) + Len(t)
      /\ \A i \in 1..Len(s) : w[i] = s[i]
      /\ \A i \in 1..Len(t) : w[Len(s) + i] = t[i]
  BY Joined
<1> HIDE DEF v, w
<1>4. \A i \in 1..Len(v) : v[i] = w[o + i]
  <2> TAKE i \in 1..Len(v)
  <2>1. CASE i \in 1..Len(u)
    <3>1. o + i \in 1..Len(s)
      BY <1>1, <1>2, <1>3, <2>1
    <3>2. QED
      BY <1>1, <1>2, <1>3, <2>1, <3>1
  <2>2. CASE i \notin 1..Len(u)
    <3> DEFINE h == i - Len(u)
    <3>1. h \in 1..Len(t) /\ i = Len(u) + h /\ o + i = Len(s) + h
      BY <1>1, <1>2, <1>3, <2>2
    <3> HIDE DEF h
    <3>2. QED
      BY <1>2, <1>3, <3>1
  <2>3. QED
    BY <2>1, <2>2
<1>5. Len(v) \in Nat /\ o \in Nat /\ Len(w) = o + Len(v) /\ Len(s) <= Len(w)
  BY <1>1, <1>2, <1>3
<1>6. QED
  BY <1>2, <1>3, <1>4, <1>5 DEF o, u, v, w

(* Where the lines of two texts in a row end: those of the first but its last line, *)
(* then those of its last line with the second text.                                *)
LEMMA EndsOfJoined ==
    ASSUME NEW s \in Seq(Cell), NEW t \in Seq(Cell)
    PROVE  LET e == Ends(s)
               m == Len(e)
               o == LastBegin(s)
               d == Ends(Last(Split(s)) \o t)
           IN  /\ Len(Ends(s \o t)) = m - 1 + Len(d)
               /\ \A k \in 1..(m - 1) : Ends(s \o t)[k] = e[k]
               /\ \A k \in 1..Len(d) : Ends(s \o t)[m - 1 + k] = o + d[k]
<1> DEFINE e == Ends(s)
           m == Len(e)
           o == LastBegin(s)
           u == Last(Split(s))
           v == u \o t
           w == s \o t
           d == Ends(v)
           n == Len(d)
           f == [k \in 1..(m - 1 + n) |-> IF k < m THEN e[k] ELSE o + d[k - (m - 1)]]
<1>1. /\ o \in 0..Len(s) /\ u \in Seq(Cell) /\ Len(u) = Len(s) - o
      /\ \A i \in 1..Len(u) : u[i] = s[o + i]
  BY LastLine
<1> HIDE DEF o, u
<1>2. /\ v \in Seq(Cell) /\ w \in Seq(Cell)
      /\ Len(v) \in Nat /\ Len(w) \in Nat /\ Len(s) \in Nat /\ o \in Nat
      /\ Len(w) = o + Len(v) /\ Len(s) <= Len(w)
  BY LastLineJoined DEF o, u
<1>3. \A i \in 1..Len(v) : v[i] = w[o + i]
  BY LastLineJoined DEF o, u
<1>4. \A i \in 1..Len(s) : w[i] = s[i]
  BY LastLineJoined DEF o, u
<1> HIDE DEF v, w
<1>5. /\ Lists(e, m, LineEnds(s)) /\ m > 0 /\ e[m] = Len(s) + 1
      /\ LineEnds(s) \in SUBSET (1..(Len(s) + 1))
  BY EndsAre
<1>6. /\ Lists(d, n, LineEnds(v)) /\ n > 0 /\ d[n] = Len(v) + 1
      /\ LineEnds(v) \in SUBSET (1..(Len(v) + 1))
  BY <1>2, EndsAre
<1>7. o = IF m = 1 THEN 0 ELSE e[m - 1]
  BY DEF LastBegin, o
<1>8. Lists(Ends(w), Len(Ends(w)), LineEnds(w)) /\ LineEnds(w) \in SUBSET (1..(Len(w) + 1))
  BY <1>2, EndsAre
<1> HIDE DEF e, d, m, n
<1>9. /\ m \in Nat /\ n \in Nat
      /\ e \in [1..m -> 1..(Len(s) + 1)] /\ d \in [1..n -> 1..(Len(v) + 1)]
      /\ \A i, j \in 1..m : i < j => e[i] < e[j]
      /\ \A i, j \in 1..n : i < j => d[i] < d[j]
      /\ \A k \in 1..m : e[k] \in LineEnds(s)
      /\ \A k \in 1..n : d[k] \in LineEnds(v)
  BY <1>5, <1>6 DEF Lists
<1>10. /\ \A k \in 1..(m - 1) : f[k] = e[k]
       /\ \A k \in 1..n : f[m - 1 + k] = o + d[k]
  <2>1. \A k \in 1..(m - 1) : k \in 1..(m - 1 + n) /\ k < m
    BY <1>9
  <2>2. \A k \in 1..n : m - 1 + k \in 1..(m - 1 + n) /\ ~(m - 1 + k < m) /\ m - 1 + k - (m - 1) = k
    BY <1>5, <1>9
  <2> HIDE DEF f
  <2>3. \A k \in 1..(m - 1 + n) : f[k] = IF k < m THEN e[k] ELSE o + d[k - (m - 1)]
    BY DEF f
  <2>4. \A k \in 1..(m - 1) : f[k] = e[k]
    BY <2>1, <2>3
  <2>5. \A k \in 1..n : f[m - 1 + k] = o + d[k]
    <3> TAKE k \in 1..n
    <3> DEFINE l == m - 1 + k
    <3>1. l \in 1..(m - 1 + n) /\ ~(l < m) /\ l - (m - 1) = k
      BY <1>5, <1>9
    <3> HIDE DEF l
    <3>2. f[l] = o + d[k]
      BY <2>3, <3>1
    <3>3. QED
      BY <3>2 DEF l
  <2>6. QED
    BY <2>4, <2>5
<1>11. \A k \in 1..(m - 1 + n) :
          \/ k \in 1..(m - 1)
          \/ k - (m - 1) \in 1..n /\ k = m - 1 + (k - (m - 1))
  BY <1>5, <1>9
<1>12. DOMAIN f = 1..(m - 1 + n) /\ f = [k \in 1..(m - 1 + n) |-> f[k]]
  OBVIOUS
<1> HIDE DEF f
<1>13. \A k \in 1..(m - 1) : f[k] \in LineEnds(w) /\ f[k] <= o /\ f[k] \in Nat
  <2> TAKE k \in 1..(m - 1)
  <2>1. k \in 1..m /\ m \in 1..m /\ k < m /\ m - 1 \in 1..m /\ m # 1
    BY <1>9
  <2>2. e[k] \in 1..(Len(s) + 1) /\ e[m - 1] \in 1..(Len(s) + 1) /\ e[k] < e[m]
    BY <1>9, <2>1
  <2>3. e[k] \in 1..Len(s)
    BY <1>2, <1>5, <2>2
  <2>4. s[e[k]] = "lf"
    <3>1. e[k] \in LineEnds(s) /\ e[k] # Len(s) + 1
      BY <1>2, <1>9, <2>1, <2>3
    <3>2. QED
      BY <3>1 DEF LineEnds, Feeds
  <2>5. e[k] \in 1..Len(w) /\ w[e[k]] = "lf"
    <3>1. e[k] \in 1..Len(w)
      BY <1>2, <2>3
    <3>2. QED
      BY <1>4, <2>3, <2>4, <3>1
  <2>6. e[k] <= e[m - 1]
    <3>1. k < m - 1 => e[k] < e[m - 1]
      BY <1>9, <2>1
    <3>2. k = m - 1 \/ k < m - 1
      BY <1>9
    <3>3. QED
      BY <2>2, <3>1, <3>2
  <2>7. e[k] \in LineEnds(w)
    BY <1>2, <2>5 DEF LineEnds, Feeds
  <2>8. QED
    BY <1>7, <1>10, <2>1, <2>2, <2>6, <2>7
<1>14. \A k \in 1..n : f[m - 1 + k] \in LineEnds(w) /\ f[m - 1 + k] > o /\ f[m - 1 + k] \in Nat
  <2> TAKE k \in 1..n
  <2>1. d[k] \in 1..(Len(v) + 1)
    BY <1>9
  <2>2. f[m - 1 + k] = o + d[k]
    BY <1>10
  <2>3. o + d[k] > o /\ o + d[k] \in Nat
    BY <1>2, <2>1
  <2>4. CASE d[k] = Len(v) + 1
    <3>1. o + d[k] = Len(w) + 1
      BY <1>2, <2>4
    <3>2. o + d[k] \in LineEnds(w)
      BY <3>1 DEF LineEnds
    <3>3. QED
      BY <2>2, <2>3, <3>2
  <2>5. CASE d[k] # Len(v) + 1
    <3>1. d[k] \in 1..Len(v) /\ v[d[k]] = "lf"
      BY <1>9, <2>5 DEF LineEnds, Feeds
    <3>2. o + d[k] \in 1..Len(w) /\ w[o + d[k]] = "lf"
      BY <1>2, <1>3, <3>1
    <3>3. o + d[k] \in LineEnds(w)
      BY <1>2, <3>2 DEF LineEnds, Feeds
    <3>4. QED
      BY <2>2, <2>3, <3>3
  <2>6. QED
    BY <2>4, <2>5
<1>15. \A i, j \in 1..(m - 1 + n) : i < j => f[i] < f[j]
  <2> SUFFICES ASSUME NEW i \in 1..(m - 1 + n), NEW j \in 1..(m - 1 + n), i < j
               PROVE  f[i] < f[j]
    OBVIOUS
  <2>1. CASE j \in 1..(m - 1)
    <3>1. i \in 1..(m - 1) /\ i \in 1..m /\ j \in 1..m
      BY <1>9, <2>1
    <3>2. e[i] < e[j]
      BY <1>9, <3>1
    <3>3. QED
      BY <1>10, <2>1, <3>1, <3>2
  <2>2. CASE i \in 1..(m - 1) /\ j \notin 1..(m - 1)
    <3> DEFINE l == j - (m - 1)
    <3>1. l \in 1..n /\ j = m - 1 + l
      BY <1>11, <2>2
    <3> HIDE DEF l
    <3>2. f[j] > o /\ f[j] \in Nat /\ f[i] <= o /\ f[i] \in Nat
      BY <1>13, <1>14, <2>2, <3>1
    <3>3. QED
      BY <1>2, <3>2
  <2>3. CASE i \notin 1..(m - 1)
    <3> DEFINE l == j - (m - 1)
               h == i - (m - 1)
    <3>1. h \in 1..n /\ i = m - 1 + h
      BY <1>11, <2>3
    <3>2. j \notin 1..(m - 1)
      BY <1>9, <2>3
    <3>3. l \in 1..n /\ j = m - 1 + l
      BY <1>11, <3>2
    <3>4. h < l
      BY <1>9
    <3> HIDE DEF l, h
    <3>5. d[h] < d[l] /\ d[h] \in Nat /\ d[l] \in Nat
      BY <1>9, <3>1, <3>3, <3>4
    <3>6. f[i] = o + d[h] /\ f[j] = o + d[l]
      BY <1>10, <3>1, <3>3
    <3>7. QED
      BY <1>2, <3>5, <3>6
  <2>4. QED
    BY <2>1, <2>2, <2>3
<1>16. \A p \in LineEnds(w) : \E k \in 1..(m - 1 + n) : f[k] = p
  <2> TAKE p \in LineEnds(w)
  <2>1. p \in 1..(Len(w) + 1) /\ (p # Len(w) + 1 => p \in 1..Len(w) /\ w[p] = "lf")
    <3>1. p \in 1..(Len(w) + 1)
      BY <1>8
    <3>2. p # Len(w) + 1 => p \in Feeds(w)
      BY DEF LineEnds
    <3>3. p \in Feeds(w) => p \in 1..Len(w) /\ w[p] = "lf"
      BY <1>2 DEF Feeds
    <3>4. QED
      BY <3>1, <3>2, <3>3
  <2>2. CASE p = Len(w) + 1
    <3>1. n \in 1..n /\ m - 1 + n \in 1..(m - 1 + n)
      BY <1>5, <1>6, <1>9
    <3>2. f[m - 1 + n] = o + (Len(v) + 1)
      BY <1>6, <1>10, <3>1
    <3>3. o + (Len(v) + 1) = p
      BY <1>2, <2>2
    <3>4. QED
      BY <3>1, <3>2, <3>3
  <2>3. CASE p # Len(w) + 1 /\ p <= o
    <3>1. p \in 1..Len(s) /\ s[p] = "lf"
      BY <1>1, <1>2, <1>4, <2>1, <2>3
    <3>2. p \in LineEnds(s) /\ m # 1
      BY <1>2, <1>7, <2>3, <3>1 DEF LineEnds, Feeds
    <3>3. PICK k \in 1..m : e[k] = p
      BY <1>5, <3>2 DEF Lists
    <3>4. k \in 1..(m - 1)
      <4>1. m - 1 \in 1..m /\ m - 1 < m /\ m \in 1..m
        BY <1>5, <1>9, <3>2
      <4>2. e[m - 1] < e[m] /\ e[m - 1] = o
        BY <1>7, <1>9, <3>2, <4>1
      <4>3. k # m
        BY <1>1, <1>2, <1>5, <2>3, <3>1, <3>3, <4>2
      <4>4. QED
        BY <1>9, <4>3
    <3>5. k \in 1..(m - 1 + n)
      BY <1>9, <3>4
    <3>6. QED
      BY <1>10, <3>3, <3>4, <3>5
  <2>4. CASE p # Len(w) + 1 /\ ~(p <= o)
    <3> DEFINE q == p - o
    <3>1. q \in 1..Len(v) /\ p = o + q
      BY <1>2, <2>1, <2>4
    <3> HIDE DEF q
    <3>2. v[q] = "lf"
      BY <1>3, <2>1, <2>4, <3>1
    <3>3. q \in LineEnds(v)
      BY <1>2, <3>1, <3>2 DEF LineEnds, Feeds
    <3>4. PICK k \in 1..n : d[k] = q
      BY <1>6, <3>3 DEF Lists
    <3>5. m - 1 + k \in 1..(m - 1 + n) /\ f[m - 1 + k] = p
      BY <1>5, <1>9, <1>10, <3>1, <3>4
    <3>6. QED
      BY <3>5
  <2>5. QED
    BY <2>2, <2>3, <2>4
<1>17. Lists(f, m - 1 + n, LineEnds(w))
  <2>1. m - 1 + n \in Nat
    BY <1>5, <1>9
  <2>2. \A k \in 1..(m - 1 + n) : f[k] \in LineEnds(w)
    BY <1>11, <1>13, <1>14
  <2>3. f \in [1..(m - 1 + n) -> LineEnds(w)]
    BY <1>12, <2>2
  <2>4. QED
    BY <1>15, <1>16, <2>1, <2>3 DEF Lists
<1>18. Len(Ends(w)) = m - 1 + n /\ Ends(w) = f
  <2>1. LineEnds(w) \in SUBSET Nat
    BY <1>2, <1>8
  <2>2. QED
    BY <1>8, <1>17, <2>1, OneList
<1>19. QED
  BY <1>10, <1>18 DEF e, m, o, u, v, w, d, n

(* The cells of v are those of w after the first o.                         *)
Within(v, w, o) ==
    /\ o + Len(v) <= Len(w)
    /\ \A i \in 1..Len(v) : v[i] = w[o + i]

LEMMA SameCells ==
    ASSUME NEW v \in Seq(Cell), NEW w \in Seq(Cell), NEW o \in Nat, Within(v, w, o)
    PROVE  \A a \in Nat \ {0}, b \in Nat :
              b <= Len(v) => SubSeq(w, o + a, o + b) = SubSeq(v, a, b)
<1> SUFFICES ASSUME NEW a \in Nat \ {0}, NEW b \in Nat, b <= Len(v)
             PROVE  SubSeq(w, o + a, o + b) = SubSeq(v, a, b)
  OBVIOUS
<1> DEFINE k == IF a <= b THEN b - a + 1 ELSE 0
<1> o + Len(v) <= Len(w)
  BY DEF Within
<1>1. Len(v) \in Nat /\ Len(w) \in Nat /\ k \in Nat
  OBVIOUS
<1>2. SubSeq(v, a, b) = [i \in 1..k |-> v[i + a - 1]]
  BY <1>1
<1>3. SubSeq(w, o + a, o + b) = [i \in 1..k |-> w[i + (o + a) - 1]]
  BY <1>1
<1>4. \A i \in 1..k : v[i + a - 1] = w[i + (o + a) - 1]
  <2> TAKE i \in 1..k
  <2> DEFINE j == i + a - 1
  <2>1. j \in 1..Len(v) /\ i + (o + a) - 1 = o + j
    BY <1>1
  <2> HIDE DEF j
  <2>2. v[j] = w[o + j]
    BY <2>1 DEF Within
  <2>3. QED
    BY <2>1, <2>2 DEF j
<1> HIDE DEF k
<1>5. QED
  BY <1>2, <1>3, <1>4

(* The lines of two texts in a row.                                         *)
LEMMA SplitJoined ==
    ASSUME NEW s \in Seq(Cell), NEW t \in Seq(Cell)
    PROVE  Split(s \o t) = Front(Split(s)) \o Split(Last(Split(s)) \o t)
<1> DEFINE e == Ends(s)
           m == Len(e)
           o == LastBegin(s)
           u == Last(Split(s))
           v == u \o t
           w == s \o t
           d == Ends(v)
           n == Len(d)
           f == Ends(w)
           A == Split(s)
           B == Split(v)
           C == Split(w)
<1>1. /\ o \in 0..Len(s) /\ u \in Seq(Cell) /\ Len(u) = Len(s) - o
      /\ \A i \in 1..Len(u) : u[i] = s[o + i]
  BY LastLine
<1>2. /\ Len(f) = m - 1 + n
      /\ \A k \in 1..(m - 1) : f[k] = e[k]
      /\ \A k \in 1..n : f[m - 1 + k] = o + d[k]
  BY EndsOfJoined
<1>3. /\ Lists(e, m, LineEnds(s)) /\ m > 0 /\ e[m] = Len(s) + 1
      /\ LineEnds(s) \in SUBSET (1..(Len(s) + 1))
  BY EndsAre
<1>4. o = IF m = 1 THEN 0 ELSE e[m - 1]
  BY DEF LastBegin
<1>5. /\ A \in Seq(Seq(Cell)) /\ Len(A) = m
      /\ \A k \in 1..m : A[k] = SubSeq(s, (IF k = 1 THEN 0 ELSE e[k - 1]) + 1, e[k] - 1)
  BY SplitAt
<1> HIDE DEF o, u
<1>6. /\ v \in Seq(Cell)
      /\ \A i \in 1..Len(v) : v[i] = w[o + i]
      /\ w \in Seq(Cell) /\ Len(w) = Len(s) + Len(t)
  BY LastLineJoined DEF o, u
<1>7. Len(s) \in Nat /\ Len(t) \in Nat /\ o \in Nat /\ \A i \in 1..Len(s) : s[i] = w[0 + i]
  <2>1. Len(s) \in Nat /\ Len(t) \in Nat /\ o \in Nat
    BY <1>1
  <2>2. \A i \in 1..Len(s) : w[i] = s[i]
    BY LastLineJoined
  <2> HIDE DEF w
  <2>3. QED
    BY <2>1, <2>2
<1> HIDE DEF v, w
<1>8. Lists(d, n, LineEnds(v)) /\ n > 0 /\ LineEnds(v) \in SUBSET (1..(Len(v) + 1))
  BY <1>6, EndsAre
<1>9. /\ B \in Seq(Seq(Cell)) /\ Len(B) = n
      /\ \A k \in 1..n : B[k] = SubSeq(v, (IF k = 1 THEN 0 ELSE d[k - 1]) + 1, d[k] - 1)
  BY <1>6, SplitAt
<1>10. /\ C \in Seq(Seq(Cell)) /\ Len(C) = Len(f)
       /\ \A k \in 1..Len(f) : C[k] = SubSeq(w, (IF k = 1 THEN 0 ELSE f[k - 1]) + 1, f[k] - 1)
  BY <1>6, SplitAt
<1> HIDE DEF e, m, d, n, f, A, B, C
<1>11. /\ m \in Nat /\ n \in Nat
       /\ \A k \in 1..m : e[k] \in 1..(Len(s) + 1)
       /\ \A k \in 1..n : d[k] \in 1..(Len(v) + 1)
  BY <1>3, <1>8 DEF Lists
<1>12. o + Len(v) = Len(w) /\ Len(v) \in Nat
  BY LastLineJoined DEF o, u, v, w
<1>13. \A k \in 1..(m - 1) : C[k] = A[k]
  <2> TAKE k \in 1..(m - 1)
  <2> DEFINE a == (IF k = 1 THEN 0 ELSE e[k - 1]) + 1
             b == e[k] - 1
  <2>1. k \in 1..m /\ k \in 1..Len(f) /\ (k # 1 => k - 1 \in 1..(m - 1) /\ k - 1 \in 1..m)
    BY <1>2, <1>11
  <2>2. a \in Nat \ {0} /\ b \in Nat /\ b <= Len(s)
    <3>1. a \in Nat \ {0}
      <4>1. k # 1 => e[k - 1] \in Nat
        BY <1>11, <2>1
      <4>2. QED
        BY <4>1
    <3>2. e[k] \in 1..(Len(s) + 1)
      BY <1>11, <2>1
    <3> HIDE DEF a
    <3>3. QED
      BY <1>7, <3>1, <3>2
  <2>3. A[k] = SubSeq(s, a, b)
    BY <1>5, <2>1
  <2>4. C[k] = SubSeq(w, a, b)
    <3>1. f[k] = e[k] /\ (k # 1 => f[k - 1] = e[k - 1])
      BY <1>2, <2>1
    <3>2. C[k] = SubSeq(w, (IF k = 1 THEN 0 ELSE f[k - 1]) + 1, f[k] - 1)
      BY <1>10, <2>1
    <3>3. QED
      BY <3>1, <3>2
  <2> HIDE DEF a, b
  <2>5. SubSeq(w, 0 + a, 0 + b) = SubSeq(s, a, b)
    <3>1. 0 \in Nat /\ 0 + Len(s) <= Len(w) /\ w \in Seq(Cell)
      BY <1>6, <1>7
    <3>2. Within(s, w, 0)
      BY <1>7, <3>1 DEF Within
    <3>3. \A i \in Nat \ {0}, j \in Nat :
             j <= Len(s) => SubSeq(w, 0 + i, 0 + j) = SubSeq(s, i, j)
      BY <3>1, <3>2, SameCells
    <3>4. QED
      BY <2>2, <3>3
  <2>6. 0 + a = a /\ 0 + b = b
    BY <2>2
  <2>7. QED
    BY <2>3, <2>4, <2>5, <2>6
<1>14. \A k \in 1..n : C[m - 1 + k] = B[k]
  <2> TAKE k \in 1..n
  <2> DEFINE l == m - 1 + k
             a == (IF k = 1 THEN 0 ELSE d[k - 1]) + 1
             b == d[k] - 1
  <2>1. l \in 1..Len(f) /\ (k # 1 => k - 1 \in 1..n /\ l - 1 = m - 1 + (k - 1) /\ l # 1)
        /\ (k = 1 => l = m)
    BY <1>2, <1>3, <1>11
  <2>2. a \in Nat \ {0} /\ b \in Nat /\ b <= Len(v)
    <3>1. a \in Nat \ {0}
      <4>1. k # 1 => d[k - 1] \in Nat
        BY <1>11, <2>1
      <4>2. QED
        BY <4>1
    <3>2. d[k] \in 1..(Len(v) + 1)
      BY <1>11
    <3> HIDE DEF a
    <3>3. QED
      BY <1>12, <3>1, <3>2
  <2>3. B[k] = SubSeq(v, a, b)
    BY <1>9
  <2>4. f[l] = o + d[k] /\ d[k] \in Nat
    BY <1>2, <1>11
  <2>5. f[l] - 1 = o + b
    BY <1>7, <2>4
  <2>6. (IF l = 1 THEN 0 ELSE f[l - 1]) + 1 = o + a
    <3>1. CASE k = 1
      <4>1. l = m /\ a = 1
        BY <2>1, <3>1
      <4>2. m # 1 => m - 1 \in 1..(m - 1) /\ f[m - 1] = e[m - 1]
        BY <1>2, <1>3, <1>11
      <4>3. QED
        BY <1>4, <1>7, <4>1, <4>2
    <3>2. CASE k # 1
      <4>1. f[l - 1] = o + d[k - 1] /\ d[k - 1] \in Nat
        BY <1>2, <1>11, <2>1, <3>2
      <4>2. QED
        BY <1>7, <2>1, <3>2, <4>1
    <3>3. QED
      BY <3>1, <3>2
  <2> HIDE DEF l
  <2>7. C[l] = SubSeq(w, (IF l = 1 THEN 0 ELSE f[l - 1]) + 1, f[l] - 1)
    BY <1>10, <2>1
  <2> HIDE DEF a, b
  <2>8. C[l] = SubSeq(w, o + a, o + b)
    BY <2>5, <2>6, <2>7
  <2>9. SubSeq(w, o + a, o + b) = SubSeq(v, a, b)
    <3>1. Len(v) \in Nat /\ Len(w) \in Nat
      BY <1>6
    <3>2. Within(v, w, o)
      BY <1>6, <1>7, <1>12, <3>1 DEF Within
    <3>3. \A i \in Nat \ {0}, j \in Nat :
             j <= Len(v) => SubSeq(w, o + i, o + j) = SubSeq(v, i, j)
      BY <1>6, <1>7, <3>2, SameCells
    <3>4. QED
      BY <2>2, <3>3
  <2>10. QED
    BY <2>3, <2>8, <2>9 DEF l
<1>15. Front(A) = SubSeq(A, 1, m - 1) /\ Front(A) \in Seq(Seq(Cell)) /\ Len(Front(A)) = m - 1
       /\ \A k \in 1..(m - 1) : Front(A)[k] = A[k]
  BY <1>3, <1>5, <1>11 DEF Front
<1>16. C = Front(A) \o B
  <2> DEFINE F == Front(A)
  <2> HIDE DEF F
  <2>1. F \in Seq(Seq(Cell)) /\ Len(F) = m - 1 /\ \A k \in 1..(m - 1) : F[k] = A[k]
    BY <1>15 DEF F
  <2>2. /\ F \o B \in Seq(Seq(Cell)) /\ Len(F \o B) = m - 1 + n
        /\ \A k \in 1..(m - 1) : (F \o B)[k] = F[k]
        /\ \A k \in 1..n : (F \o B)[m - 1 + k] = B[k]
    <3>1. F \in Seq(Seq(Cell)) /\ B \in Seq(Seq(Cell))
      BY <1>9, <2>1
    <3>2. /\ F \o B \in Seq(Seq(Cell))
          /\ Len(F \o B) = Len(F) + Len(B)
          /\ \A k \in 1..Len(F) : (F \o B)[k] = F[k]
          /\ \A k \in 1..Len(B) : (F \o B)[Len(F) + k] = B[k]
      BY <3>1, Joined
    <3>3. QED
      BY <1>9, <2>1, <3>2
  <2>4. \A k \in 1..(m - 1 + n) : C[k] = (F \o B)[k]
    <3> TAKE k \in 1..(m - 1 + n)
    <3>1. CASE k <= m - 1
      <4>1. k \in 1..(m - 1)
        BY <1>11, <3>1
      <4>2. QED
        BY <1>13, <2>1, <2>2, <4>1
    <3>2. CASE ~(k <= m - 1)
      <4> DEFINE l == k - (m - 1)
      <4>1. l \in 1..n /\ m - 1 + l = k
        BY <1>11, <3>2
      <4> HIDE DEF l
      <4>2. QED
        BY <1>14, <2>2, <4>1
    <3>3. QED
      BY <3>1, <3>2
  <2>5. C \in Seq(Seq(Cell)) /\ Len(C) = m - 1 + n
    BY <1>2, <1>10
  <2> DEFINE D == F \o B
  <2> HIDE DEF D
  <2>6. D \in Seq(Seq(Cell)) /\ Len(D) = Len(C) /\ \A k \in 1..Len(C) : C[k] = D[k]
    BY <2>2, <2>4, <2>5 DEF D
  <2>7. C = D
    <3>1. C = [k \in 1..Len(C) |-> C[k]] /\ D = [k \in 1..Len(C) |-> D[k]]
      BY <2>5, <2>6
    <3>2. QED
      BY <2>6, <3>1
  <2>8. QED
    BY <2>7 DEF D, F
<1>17. QED
  BY <1>16 DEF A, B, C, u, v, w

(* A half of a character is kept when it is next to the other half.         *)
InCharacter(bs, i) ==
    \/ bs[i] = "head" /\ i < Len(bs) /\ bs[i + 1] = "tail"
    \/ bs[i] = "tail" /\ i > 1 /\ bs[i - 1] = "head"

LEMMA DecodeAt ==
    ASSUME NEW bs \in Seq(Cell)
    PROVE  /\ Decode(bs) \in Seq(Cell)
           /\ Len(Decode(bs)) = Len(bs) /\ Len(bs) \in Nat
           /\ \A i \in 1..Len(bs) :
                 Decode(bs)[i] = IF bs[i] \in {"head", "tail"} /\ ~InCharacter(bs, i) THEN "bad" ELSE bs[i]
           /\ \A i \in 1..Len(bs) : Decode(bs)[i] = "lf" <=> bs[i] = "lf"
<1> DEFINE n == Len(bs)
           R(i) == IF bs[i] \in {"head", "tail"} /\ ~InCharacter(bs, i) THEN "bad" ELSE bs[i]
<1>1. n \in Nat /\ DOMAIN bs = 1..n /\ \A i \in 1..n : bs[i] \in Cell
  OBVIOUS
<1>2. Decode(bs) = [i \in DOMAIN bs |-> R(i)]
  BY DEF Decode, InCharacter
<1>3. Decode(bs) = [i \in 1..n |-> R(i)]
  BY <1>1, <1>2
<1>4. \A i \in 1..n : R(i) \in Cell /\ (R(i) = "lf" <=> bs[i] = "lf")
  BY <1>1 DEF Cell
<1> HIDE DEF R, n
<1>5. Decode(bs) \in Seq(Cell) /\ Len(Decode(bs)) = n
  <2>1. Decode(bs) \in [1..n -> Cell]
    BY <1>3, <1>4
  <2>2. QED
    BY <1>1, <2>1
<1>6. \A i \in 1..n : Decode(bs)[i] = R(i)
  BY <1>3
<1>7. \A i \in 1..n : Decode(bs)[i] = "lf" <=> bs[i] = "lf"
  BY <1>4, <1>6
<1>8. QED
  BY <1>1, <1>5, <1>6, <1>7 DEF n, R

InsideAt(bs, p) == p < Len(bs) /\ bs[p] = "head" /\ bs[p + 1] = "tail"

(* A chunk that neither begins nor ends inside a character is decoded as it *)
(* is with the whole.                                                       *)
DecodedAlone(bs, p, n, t) ==
    /\ t \in Seq(Cell) /\ Len(t) = n
    /\ \A i \in 1..n : t[i] = "lf" <=> bs[p + i] = "lf"
    /\ (p > 0 => ~InsideAt(bs, p)) /\ ~InsideAt(bs, p + n) =>
          \A i \in 1..n : t[i] = Decode(bs)[p + i]

LEMMA DecodeChunk ==
    ASSUME NEW bs \in Seq(Cell), NEW p \in Nat, NEW n \in Nat \ {0}, p + n <= Len(bs)
    PROVE  DecodedAlone(bs, p, n, Decode(SubSeq(bs, p + 1, p + n)))
<1> DEFINE c == SubSeq(bs, p + 1, p + n)
<1>1. Len(bs) \in Nat
  OBVIOUS
<1>2. c \in Seq(Cell) /\ Len(c) = n /\ \A i \in 1..n : c[i] = bs[p + i]
  <2>1. c = [i \in 1..n |-> bs[i + (p + 1) - 1]]
    BY <1>1
  <2>2. \A i \in 1..n : i + (p + 1) - 1 = p + i /\ p + i \in 1..Len(bs)
    BY <1>1
  <2> HIDE DEF c
  <2>3. c = [i \in 1..n |-> bs[p + i]]
    BY <2>1, <2>2
  <2>4. \A i \in 1..n : bs[p + i] \in Cell
    BY <2>2
  <2>5. c \in [1..n -> Cell]
    BY <2>3, <2>4
  <2>6. QED
    BY <2>3, <2>5
<1> HIDE DEF c
<1>3. /\ Decode(c) \in Seq(Cell) /\ Len(Decode(c)) = n
      /\ \A i \in 1..n :
            Decode(c)[i] = IF c[i] \in {"head", "tail"} /\ ~InCharacter(c, i) THEN "bad" ELSE c[i]
      /\ \A i \in 1..n : Decode(c)[i] = "lf" <=> c[i] = "lf"
  BY <1>2, DecodeAt
<1>4. \A i \in 1..Len(bs) :
         Decode(bs)[i] = IF bs[i] \in {"head", "tail"} /\ ~InCharacter(bs, i) THEN "bad" ELSE bs[i]
  BY DecodeAt
<1>5. ASSUME p > 0 => ~InsideAt(bs, p), ~InsideAt(bs, p + n), NEW i \in 1..n
      PROVE  Decode(c)[i] = Decode(bs)[p + i]
  <2> DEFINE q == p + i
  <2>1. /\ q \in 1..Len(bs) /\ c[i] = bs[q] /\ i \in Nat /\ p + 1 <= Len(bs)
        /\ (i < n => i + 1 \in 1..n /\ p + (i + 1) = q + 1 /\ q < Len(bs))
        /\ (i > 1 => i - 1 \in 1..n /\ p + (i - 1) = q - 1 /\ q > 1)
        /\ (~(i < n) => q = p + n)
        /\ (~(i > 1) => q - 1 = p /\ q = p + 1 /\ (q > 1 <=> p > 0))
    BY <1>1, <1>2
  <2>2. i < n => c[i + 1] = bs[q + 1]
    BY <1>2, <2>1
  <2>3. i > 1 => c[i - 1] = bs[q - 1]
    BY <1>2, <2>1
  <2> HIDE DEF q
  <2>4. InCharacter(c, i) <=> InCharacter(bs, q)
    <3>1. (c[i] = "head" /\ i < n /\ c[i + 1] = "tail") <=> (bs[q] = "head" /\ q < Len(bs) /\ bs[q + 1] = "tail")
      <4>1. CASE i < n
        BY <2>1, <2>2, <4>1
      <4>2. CASE ~(i < n)
        <5>1. q = p + n
          BY <2>1, <4>2
        <5>2. ~(bs[q] = "head" /\ q < Len(bs) /\ bs[q + 1] = "tail")
          BY <1>5, <5>1 DEF InsideAt
        <5>3. QED
          BY <4>2, <5>2
      <4>3. QED
        BY <4>1, <4>2
    <3>2. (c[i] = "tail" /\ i > 1 /\ c[i - 1] = "head") <=> (bs[q] = "tail" /\ q > 1 /\ bs[q - 1] = "head")
      <4>1. CASE i > 1
        BY <2>1, <2>3, <4>1
      <4>2. CASE ~(i > 1)
        <5>1. q - 1 = p /\ q = p + 1 /\ (q > 1 <=> p > 0) /\ p < Len(bs)
          BY <1>1, <2>1, <4>2
        <5>2. ~(bs[q] = "tail" /\ q > 1 /\ bs[q - 1] = "head")
          <6>1. SUFFICES ASSUME bs[q] = "tail", q > 1, bs[q - 1] = "head" PROVE FALSE
            OBVIOUS
          <6>2. p > 0 /\ bs[p] = "head" /\ bs[p + 1] = "tail"
            BY <5>1, <6>1
          <6>3. QED
            BY <1>5, <5>1, <6>2 DEF InsideAt
        <5>3. QED
          BY <4>2, <5>2
      <4>3. QED
        BY <4>1, <4>2
    <3>3. QED
      BY <1>2, <3>1, <3>2 DEF InCharacter
  <2>5. Decode(bs)[q] = IF bs[q] \in {"head", "tail"} /\ ~InCharacter(bs, q) THEN "bad" ELSE bs[q]
    BY <1>4, <2>1
  <2>6. Decode(c)[i] = IF c[i] \in {"head", "tail"} /\ ~InCharacter(c, i) THEN "bad" ELSE c[i]
    BY <1>3
  <2>7. Decode(c)[i] = Decode(bs)[q]
    BY <2>1, <2>4, <2>5, <2>6
  <2>8. QED
    BY <2>7 DEF q
<1>6. \A i \in 1..n : Decode(c)[i] = "lf" <=> bs[p + i] = "lf"
  BY <1>2, <1>3
<1>7. QED
  BY <1>3, <1>5, <1>6 DEF DecodedAlone, c

(* What the reader has got from the first p bytes: a text with the line feeds of the   *)
(* bytes, whose lines are those it has yielded and the one it holds back; the text of  *)
(* the bytes themselves, as long as no chunk has ended inside a character.             *)
ReadSoFar(seen, bs, p, ls, rest, garbled) ==
    /\ seen \in Seq(Cell)
    /\ Len(seen) = p
    /\ \A i \in 1..p : seen[i] = "lf" <=> bs[i] = "lf"
    /\ Split(seen) = Append(ls, rest)
    /\ ~garbled =>
          /\ p > 0 => ~InsideAt(bs, p)
          /\ \A i \in 1..p : seen[i] = Decode(bs)[i]

LEMMA LastOfAppended ==
    ASSUME NEW S, NEW ls \in Seq(S), NEW x \in S
    PROVE  /\ Append(ls, x) \in Seq(S) /\ Len(Append(ls, x)) = Len(ls) + 1
           /\ Front(Append(ls, x)) = ls /\ Last(Append(ls, x)) = x
<1> DEFINE A == Append(ls, x)
           n == Len(ls)
<1>1. /\ n \in Nat /\ A \in Seq(S) /\ Len(A) = n + 1 /\ A[n + 1] = x
      /\ \A i \in 1..n : A[i] = ls[i]
  OBVIOUS
<1>2. ls = [i \in 1..n |-> ls[i]]
  OBVIOUS
<1> HIDE DEF A, n
<1>3. Last(A) = x
  BY <1>1 DEF Last
<1>4. Front(A) = SubSeq(A, 1, n)
  BY <1>1 DEF Front
<1>5. SubSeq(A, 1, n) = [i \in 1..n |-> A[i]]
  BY <1>1
<1>6. Front(A) = ls
  BY <1>1, <1>2, <1>4, <1>5
<1>7. QED
  BY <1>1, <1>3, <1>6 DEF A, n

LEMMA AppendLast ==
    ASSUME NEW S, NEW ls \in Seq(S), NEW J \in Seq(S), Len(J) > 0
    PROVE  /\ Front(J) \in Seq(S) /\ Last(J) \in S
           /\ ls \o Front(J) \in Seq(S)
           /\ ls \o J = Append(ls \o Front(J), Last(J))
<1> DEFINE n == Len(ls)
           k == Len(J)
           F == Front(J)
           B == ls \o F
           L == ls \o J
           R == Append(B, Last(J))
<1>1. n \in Nat /\ k \in Nat \ {0}
  OBVIOUS
<1>2. Last(J) = J[k] /\ J[k] \in S
  BY <1>1 DEF Last
<1>3. F = SubSeq(J, 1, k - 1)
  BY DEF Front
<1>4. F \in Seq(S) /\ Len(F) = k - 1 /\ \A i \in 1..(k - 1) : F[i] = J[i]
  <2>1. SubSeq(J, 1, k - 1) = [i \in 1..(k - 1) |-> J[i]]
    BY <1>1
  <2>2. \A i \in 1..(k - 1) : J[i] \in S
    BY <1>1
  <2> HIDE DEF F, k
  <2>3. F = [i \in 1..(k - 1) |-> J[i]]
    BY <1>3, <2>1
  <2>4. F \in [1..(k - 1) -> S] /\ k - 1 \in Nat
    BY <1>1, <2>2, <2>3
  <2>5. QED
    BY <2>3, <2>4
<1> HIDE DEF F
<1>5. /\ B \in Seq(S) /\ Len(B) = n + (k - 1)
      /\ \A i \in 1..n : B[i] = ls[i]
      /\ \A i \in 1..(k - 1) : B[n + i] = J[i]
  <2>1. /\ B \in Seq(S) /\ Len(B) = Len(ls) + Len(F)
        /\ \A i \in 1..Len(ls) : B[i] = ls[i]
        /\ \A i \in 1..Len(F) : B[Len(ls) + i] = F[i]
    BY <1>4, Joined
  <2> HIDE DEF B
  <2>2. QED
    BY <1>4, <2>1
<1>6. /\ L \in Seq(S) /\ Len(L) = n + k
      /\ \A i \in 1..n : L[i] = ls[i]
      /\ \A i \in 1..k : L[n + i] = J[i]
  BY Joined
<1> HIDE DEF B, L
<1>7. /\ R \in Seq(S) /\ Len(R) = Len(B) + 1 /\ R[Len(B) + 1] = Last(J)
      /\ \A i \in 1..Len(B) : R[i] = B[i]
  BY <1>2, <1>5
<1> HIDE DEF R, n, k
<1>8. Len(R) = n + k /\ Len(B) = n + k - 1
  BY <1>1, <1>5, <1>7
<1>9. \A i \in 1..(n + k) : L[i] = R[i]
  <2> TAKE i \in 1..(n + k)
  <2>1. CASE i \in 1..n
    <3>1. i \in 1..Len(B)
      BY <1>1, <1>8, <2>1
    <3>2. QED
      BY <1>5, <1>6, <1>7, <2>1, <3>1
  <2>2. CASE i = n + k
    <3>1. k \in 1..k /\ i = Len(B) + 1
      BY <1>1, <1>8, <2>2
    <3>2. QED
      BY <1>2, <1>6, <1>7, <2>2, <3>1
  <2>3. CASE i \notin 1..n /\ i # n + k
    <3> DEFINE h == i - n
    <3>1. h \in 1..(k - 1) /\ h \in 1..k /\ i = n + h /\ i \in 1..Len(B)
      BY <1>1, <1>8, <2>3
    <3> HIDE DEF h
    <3>2. QED
      BY <1>5, <1>6, <1>7, <3>1
  <2>4. QED
    BY <2>1, <2>2, <2>3
<1>10. L = R
  <2>1. L = [i \in 1..(n + k) |-> L[i]] /\ R = [i \in 1..(n + k) |-> R[i]]
    BY <1>6, <1>7, <1>8
  <2>2. QED
    BY <1>9, <2>1
<1>11. QED
  BY <1>2, <1>4, <1>5, <1>10 DEF F, B, L, R

(* One more chunk.                                                          *)
LEMMA OneMoreChunk ==
    ASSUME NEW bs \in Seq(Cell), NEW p \in Nat, NEW n \in Nat \ {0}, p + n <= Len(bs),
           NEW ls \in Seq(Seq(Cell)), NEW rest \in Seq(Cell), NEW garbled \in BOOLEAN,
           NEW seen, ReadSoFar(seen, bs, p, ls, rest, garbled)
    PROVE  LET t == Decode(SubSeq(bs, p + 1, p + n))
               J == Split(rest \o t)
           IN  /\ Front(J) \in Seq(Seq(Cell)) /\ Last(J) \in Seq(Cell)
               /\ ls \o Front(J) \in Seq(Seq(Cell))
               /\ ReadSoFar(seen \o t, bs, p + n, ls \o Front(J), Last(J),
                            garbled \/ InsideAt(bs, p + n))
<1> DEFINE t == Decode(SubSeq(bs, p + 1, p + n))
           J == Split(rest \o t)
           q == p + n
<1>1. /\ t \in Seq(Cell) /\ Len(t) = n
      /\ \A i \in 1..n : t[i] = "lf" <=> bs[p + i] = "lf"
      /\ (p > 0 => ~InsideAt(bs, p)) /\ ~InsideAt(bs, p + n) =>
            \A i \in 1..n : t[i] = Decode(bs)[p + i]
  <2>1. DecodedAlone(bs, p, n, t)
    BY DecodeChunk
  <2> HIDE DEF t
  <2>2. QED
    BY <2>1 DEF DecodedAlone
<1> HIDE DEF t
<1>2. /\ seen \in Seq(Cell) /\ Len(seen) = p
      /\ \A i \in 1..p : seen[i] = "lf" <=> bs[i] = "lf"
      /\ Split(seen) = Append(ls, rest)
      /\ ~garbled =>
            /\ p > 0 => ~InsideAt(bs, p)
            /\ \A i \in 1..p : seen[i] = Decode(bs)[i]
  BY DEF ReadSoFar
<1>3. /\ seen \o t \in Seq(Cell) /\ Len(seen \o t) = q
      /\ \A i \in 1..p : (seen \o t)[i] = seen[i]
      /\ \A i \in 1..n : (seen \o t)[p + i] = t[i]
  <2>1. /\ seen \o t \in Seq(Cell) /\ Len(seen \o t) = Len(seen) + Len(t)
        /\ \A i \in 1..Len(seen) : (seen \o t)[i] = seen[i]
        /\ \A i \in 1..Len(t) : (seen \o t)[Len(seen) + i] = t[i]
    <3>1. seen \in Seq(Cell) /\ t \in Seq(Cell)
      BY <1>1, <1>2
    <3>2. QED
      BY <3>1, Joined
  <2>2. QED
    BY <1>1, <1>2, <2>1
<1>4. rest \o t \in Seq(Cell)
  BY <1>1
<1>5. J \in Seq(Seq(Cell)) /\ Len(J) > 0
  <2>1. /\ J \in Seq(Seq(Cell))
        /\ Len(J) = Len(Ends(rest \o t)) /\ Len(Ends(rest \o t)) \in Nat \ {0}
    BY <1>4, SplitAt
  <2>2. QED
    BY <2>1
<1>6. Split(seen \o t) = ls \o J
  <2>1. Front(Append(ls, rest)) = ls /\ Last(Append(ls, rest)) = rest
    BY LastOfAppended
  <2>2. Split(seen \o t) = Front(Split(seen)) \o Split(Last(Split(seen)) \o t)
    BY <1>1, <1>2, SplitJoined
  <2>3. QED
    BY <1>2, <2>1, <2>2
<1> HIDE DEF J
<1>7. /\ Front(J) \in Seq(Seq(Cell)) /\ Last(J) \in Seq(Cell)
      /\ ls \o Front(J) \in Seq(Seq(Cell))
      /\ ls \o J = Append(ls \o Front(J), Last(J))
  BY <1>5, AppendLast
<1>8. \A i \in 1..q : \/ i \in 1..p
                      \/ i - p \in 1..n /\ i = p + (i - p)
  OBVIOUS
<1> DEFINE w == seen \o t
<1> HIDE DEF w, q
<1>9. \A i \in 1..q : w[i] = "lf" <=> bs[i] = "lf"
  <2> TAKE i \in 1..q
  <2>1. CASE i \in 1..p
    BY <1>2, <1>3, <2>1 DEF w
  <2>2. CASE i - p \in 1..n /\ i = p + (i - p)
    <3>1. PICK h \in 1..n : i = p + h
      BY <2>2
    <3>2. w[p + h] = t[h] /\ (t[h] = "lf" <=> bs[p + h] = "lf")
      BY <1>1, <1>3 DEF w
    <3>3. QED
      BY <3>1, <3>2
  <2>3. QED
    BY <1>8, <2>1, <2>2
<1>10. ASSUME ~(garbled \/ InsideAt(bs, q))
       PROVE  (q > 0 => ~InsideAt(bs, q)) /\ \A i \in 1..q : w[i] = Decode(bs)[i]
  <2>1. ~garbled /\ ~InsideAt(bs, q) /\ ~InsideAt(bs, p + n)
    BY <1>10 DEF q
  <2>2. \A i \in 1..n : t[i] = Decode(bs)[p + i]
    BY <1>1, <1>2, <2>1
  <2>3. \A i \in 1..q : w[i] = Decode(bs)[i]
    <3> TAKE i \in 1..q
    <3>1. CASE i \in 1..p
      BY <1>2, <1>3, <2>1, <3>1 DEF w
    <3>2. CASE i - p \in 1..n /\ i = p + (i - p)
      <4>1. PICK h \in 1..n : i = p + h
        BY <3>2
      <4>2. w[p + h] = t[h] /\ t[h] = Decode(bs)[p + h]
        BY <1>3, <2>2 DEF w
      <4>3. QED
        BY <4>1, <4>2
    <3>3. QED
      BY <1>8, <3>1, <3>2
  <2>4. QED
    BY <2>1, <2>3
<1>11. ReadSoFar(w, bs, q, ls \o Front(J), Last(J), garbled \/ InsideAt(bs, q))
  <2>1. w \in Seq(Cell) /\ Len(w) = q /\ Split(w) = Append(ls \o Front(J), Last(J))
    BY <1>3, <1>6, <1>7 DEF w
  <2>2. QED
    BY <1>9, <1>10, <2>1 DEF ReadSoFar
<1>12. QED
  BY <1>7, <1>11 DEF w, q, J, t

ContentOf(bs) ==
    LET ls == Split(Decode(bs))
    IN  IF Last(ls) = <<>> THEN Front(ls) ELSE ls

(* All has been read.                                                       *)
LEMMA AllRead ==
    ASSUME NEW bs \in Seq(Cell), NEW ls \in Seq(Seq(Cell)), NEW rest \in Seq(Cell),
           NEW garbled \in BOOLEAN,
           NEW seen, ReadSoFar(seen, bs, Len(bs), ls, rest, garbled)
    PROVE  LET all == IF rest = <<>> THEN ls ELSE Append(ls, rest)
           IN  Len(all) = Len(ContentOf(bs)) /\ (~garbled => all = ContentOf(bs))
<1> DEFINE D == Decode(bs)
           n == Len(bs)
           A == Split(seen)
           C == Split(D)
           all == IF rest = <<>> THEN ls ELSE Append(ls, rest)
<1>1. /\ D \in Seq(Cell) /\ Len(D) = n /\ n \in Nat
      /\ \A i \in 1..n : D[i] = "lf" <=> bs[i] = "lf"
  BY DecodeAt
<1>2. /\ seen \in Seq(Cell) /\ Len(seen) = n
      /\ \A i \in 1..n : seen[i] = "lf" <=> bs[i] = "lf"
      /\ A = Append(ls, rest)
      /\ ~garbled => \A i \in 1..n : seen[i] = D[i]
  BY DEF ReadSoFar
<1> HIDE DEF D, n
<1>3. Ends(seen) = Ends(D)
  <2>1. DOMAIN seen = 1..n /\ DOMAIN D = 1..n
    BY <1>1, <1>2
  <2>2. {i \in DOMAIN seen : seen[i] = "lf"} \cup {Len(seen) + 1}
            = {i \in DOMAIN D : D[i] = "lf"} \cup {Len(D) + 1}
    BY <1>1, <1>2, <2>1
  <2>3. QED
    BY <2>2 DEF Ends
<1>4. /\ A \in Seq(Seq(Cell)) /\ Len(A) = Len(Ends(seen)) /\ Len(Ends(seen)) \in Nat \ {0}
  BY <1>2, SplitAt
<1>5. C \in Seq(Seq(Cell)) /\ Len(C) = Len(Ends(D))
  BY <1>1, SplitAt
<1>6. Len(Last(A)) = n - LastBegin(seen) /\ Last(A) \in Seq(Cell)
  BY <1>2, LastLine
<1>7. Len(Last(C)) = n - LastBegin(D) /\ Last(C) \in Seq(Cell)
  BY <1>1, LastLine
<1>8. LastBegin(seen) = LastBegin(D)
  BY <1>3 DEF LastBegin
<1>9. /\ A \in Seq(Seq(Cell)) /\ Front(A) = ls /\ Last(A) = rest /\ Len(A) = Len(ls) + 1
  BY <1>2, LastOfAppended
<1>10. ~garbled => seen = D
  <2>1. seen = [i \in 1..n |-> seen[i]] /\ D = [i \in 1..n |-> D[i]]
    BY <1>1, <1>2
  <2>2. QED
    BY <1>2, <2>1
<1> HIDE DEF C, A
<1>11. Last(C) = <<>> <=> rest = <<>>
  <2>1. Len(Last(C)) = Len(rest)
    BY <1>6, <1>7, <1>8, <1>9
  <2>2. \A x \in Seq(Cell) : x = <<>> <=> Len(x) = 0
    OBVIOUS
  <2>3. QED
    BY <1>7, <2>1, <2>2
<1>12. ContentOf(bs) = IF rest = <<>> THEN Front(C) ELSE C
  BY <1>11 DEF ContentOf, C, D
<1>13. Len(C) = Len(ls) + 1 /\ Len(ls) \in Nat
  BY <1>3, <1>4, <1>5, <1>9
<1>14. Len(Front(C)) = Len(ls)
  <2>1. Front(C) = SubSeq(C, 1, Len(C) - 1)
    BY DEF Front
  <2>2. QED
    BY <1>5, <1>13, <2>1
<1>15. ~garbled => A = C
  BY <1>10 DEF A, C
<1>16. Len(all) = Len(ContentOf(bs))
  BY <1>2, <1>9, <1>12, <1>13, <1>14
<1>17. ~garbled => all = ContentOf(bs)
  BY <1>2, <1>9, <1>12, <1>15
<1>18. QED
  BY <1>16, <1>17

(* Nothing has been read.                                                   *)
LEMMA NothingRead ==
    ASSUME NEW bs \in Seq(Cell)
    PROVE  ReadSoFar(<<>>, bs, 0, <<>>, <<>>, FALSE)
<1> DEFINE s == <<>>
           e == Ends(s)
           m == Len(e)
           A == Split(s)
<1>1. s \in Seq(Cell) /\ Len(s) = 0
  OBVIOUS
<1>2. /\ Lists(e, m, LineEnds(s)) /\ m > 0 /\ e[m] = Len(s) + 1
      /\ LineEnds(s) \in SUBSET (1..(Len(s) + 1))
  BY <1>1, EndsAre
<1>3. /\ A \in Seq(Seq(Cell)) /\ Len(A) = m /\ m \in Nat \ {0}
      /\ \A k \in 1..m : A[k] = SubSeq(s, (IF k = 1 THEN 0 ELSE e[k - 1]) + 1, e[k] - 1)
  BY <1>1, SplitAt
<1> HIDE DEF e, m, A
<1>4. m = 1
  <2>1. \A k \in 1..m : e[k] \in 1..1
    BY <1>1, <1>2 DEF Lists
  <2>2. \A k \in 1..m : e[k] = 1
    BY <2>1
  <2>3. 1 < m => 1 \in 1..m /\ m \in 1..m /\ e[1] < e[m]
    BY <1>2, <1>3 DEF Lists
  <2>4. QED
    BY <1>3, <2>2, <2>3
<1>5. A = <<<<>>>>
  <2>1. A[1] = SubSeq(s, 1, 0)
    BY <1>1, <1>2, <1>3, <1>4
  <2>2. SubSeq(s, 1, 0) = <<>>
    OBVIOUS
  <2>3. Len(A) = 1 /\ A[1] = <<>>
    BY <1>3, <1>4, <2>1, <2>2
  <2>4. QED
    BY <1>3, <2>3
<1>6. Append(<<>>, <<>>) = <<<<>>>>
  OBVIOUS
<1>7. QED
  BY <1>1, <1>5, <1>6 DEF ReadSoFar, A

ReadInv ==
    \E seen : ReadSoFar(seen, bytes, position, lines, leftover, cut)

(* The reader holds the lines of what it has read; the writer leaves its state alone.  *)
LinesInv ==
    /\ transfer \in {"writing", "reading", "readingAll", "closed"}
    /\ bytes \in Seq(Cell)
    /\ position \in Nat
    /\ lines \in Seq(Seq(Cell)) /\ leftover \in Seq(Cell) /\ cut \in BOOLEAN
    /\ transfer \in {"writing", "readingAll"} => lines = <<>> /\ leftover = <<>> /\ ~cut
    /\ transfer = "readingAll" => position = 0
    /\ transfer = "reading" => position <= Len(bytes) /\ ReadInv
    /\ LinesMatchContent

LEMMA LinesInitially == TransferInit => LinesInv
<1>1. <<>> \in Seq(Cell) /\ <<>> \in Seq(Seq(Cell)) /\ 0 \in Nat
  OBVIOUS
<1> SUFFICES ASSUME TransferInit PROVE LinesInv
  OBVIOUS
<1>2. transfer = "writing" /\ bytes = <<>> /\ position = 0 /\ lines = <<>> /\ leftover = <<>> /\ cut = FALSE
  BY DEF TransferInit
<1>3. QED
  BY <1>1, <1>2 DEF LinesInv, LinesMatchContent

(* The bytes stay bytes, whatever the writer does.                          *)
LEMMA WriterKeepsBytes ==
    ASSUME bytes \in Seq(Cell)
    PROVE  /\ \A at \in Nat, data \in Seq(Cell) : Patched(at, data) \in Seq(Cell)
           /\ \A length \in Nat :
                 [i \in 1..length |-> IF i <= Len(bytes) THEN bytes[i] ELSE "x"] \in Seq(Cell)
<1>1. Len(bytes) \in Nat /\ \A i \in 1..Len(bytes) : bytes[i] \in Cell
  OBVIOUS
<1>2. ASSUME NEW at \in Nat, NEW data \in Seq(Cell)
      PROVE  Patched(at, data) \in Seq(Cell)
  <2> DEFINE n == IF at + Len(data) > Len(bytes) THEN at + Len(data) ELSE Len(bytes)
             R(i) == IF i > at /\ i <= at + Len(data) THEN data[i - at]
                     ELSE IF i <= Len(bytes) THEN bytes[i] ELSE "x"
  <2>1. n \in Nat /\ Len(data) \in Nat
    BY <1>1
  <2>2. \A i \in 1..n : R(i) \in Cell
    <3> TAKE i \in 1..n
    <3>1. i \in Nat \ {0}
      OBVIOUS
    <3>2. CASE i > at /\ i <= at + Len(data)
      <4>1. i - at \in 1..Len(data)
        BY <2>1, <3>1, <3>2
      <4>2. data[i - at] \in Cell
        BY <4>1
      <4>3. QED
        BY <3>2, <4>2
    <3>3. CASE ~(i > at /\ i <= at + Len(data)) /\ i <= Len(bytes)
      <4>1. i \in 1..Len(bytes)
        BY <1>1, <3>1, <3>3
      <4>2. QED
        BY <1>1, <3>3, <4>1
    <3>4. CASE ~(i > at /\ i <= at + Len(data)) /\ ~(i <= Len(bytes))
      BY <3>4 DEF Cell
    <3>5. QED
      BY <3>2, <3>3, <3>4
  <2>3. Patched(at, data) = [i \in 1..n |-> R(i)]
    BY DEF Patched
  <2> HIDE DEF n, R
  <2>4. Patched(at, data) \in [1..n -> Cell]
    BY <2>2, <2>3
  <2>5. QED
    BY <2>1, <2>4
<1>3. ASSUME NEW length \in Nat
      PROVE  [i \in 1..length |-> IF i <= Len(bytes) THEN bytes[i] ELSE "x"] \in Seq(Cell)
  <2> DEFINE R(i) == IF i <= Len(bytes) THEN bytes[i] ELSE "x"
  <2>1. \A i \in 1..length : R(i) \in Cell
    BY <1>1 DEF Cell
  <2> HIDE DEF R
  <2>2. [i \in 1..length |-> R(i)] \in [1..length -> Cell]
    BY <2>1
  <2>3. [i \in 1..length |-> R(i)] \in Seq(Cell)
    BY <2>2
  <2>4. QED
    BY <2>3 DEF R
<1>4. QED
  BY <1>2, <1>3

LEMMA DataIsText == \A d \in Data : d \in Seq(Cell) /\ Len(d) \in Nat
<1>1. \A a, b \in Cell : <<a>> \in Seq(Cell) /\ <<a, b>> \in Seq(Cell)
  OBVIOUS
<1>2. "x" \in Cell /\ "lf" \in Cell /\ "head" \in Cell /\ "tail" \in Cell
  BY DEF Cell
<1>3. \A d \in Data : d \in Seq(Cell)
  BY <1>1, <1>2 DEF Data
<1>4. \A d \in Seq(Cell) : Len(d) \in Nat
  OBVIOUS
<1>5. QED
  BY <1>3, <1>4

LEMMA LinesStep ==
    ASSUME TransferAssumption, LinesInv, [TransferNext]_transferVars
    PROVE  LinesInv'
<1>1. /\ transfer \in {"writing", "reading", "readingAll", "closed"}
      /\ bytes \in Seq(Cell) /\ Len(bytes) \in Nat
      /\ position \in Nat
      /\ lines \in Seq(Seq(Cell)) /\ leftover \in Seq(Cell) /\ cut \in BOOLEAN
  BY DEF LinesInv
<1>2. ChunkSize \in Nat \ {0} /\ MaxSize \in Nat
  BY DEF TransferAssumption
<1>3. ASSUME transfer = "writing", transfer' = "writing", bytes' \in Seq(Cell), position' \in Nat,
             UNCHANGED fileStateVars
      PROVE  LinesInv'
  BY <1>1, <1>3 DEF LinesInv, LinesMatchContent, fileStateVars
<1>4. ASSUME NEW d \in Data, WriteData(d)
      PROVE  LinesInv'
  <2>1. d \in Seq(Cell) /\ Len(d) \in Nat
    BY DataIsText
  <2>2. transfer = "writing" /\ transfer' = "writing" /\ UNCHANGED fileStateVars
    BY <1>4 DEF WriteData, MayWrite
  <2>3. bytes' = Patched(position, d) /\ position' = position + Len(d)
    BY <1>4 DEF WriteData
  <2>4. bytes' \in Seq(Cell) /\ position' \in Nat
    BY <1>1, <2>1, <2>3, WriterKeepsBytes
  <2>5. QED
    BY <1>3, <2>2, <2>4
<1>5. ASSUME NEW d \in Data, NEW at \in 0..MaxSize, WriteAt(at, d)
      PROVE  LinesInv'
  <2>1. d \in Seq(Cell) /\ at \in Nat
    BY <1>2, DataIsText
  <2>2. transfer = "writing" /\ transfer' = "writing" /\ UNCHANGED fileStateVars
    BY <1>5 DEF WriteAt, MayWrite
  <2>3. bytes' = Patched(at, d) /\ position' = position
    BY <1>5 DEF WriteAt
  <2>4. bytes' \in Seq(Cell) /\ position' \in Nat
    BY <1>1, <2>1, <2>3, WriterKeepsBytes
  <2>5. QED
    BY <1>3, <2>2, <2>4
<1>6. ASSUME NEW n \in 0..MaxSize, Truncate(n)
      PROVE  LinesInv'
  <2>1. n \in Nat
    BY <1>2
  <2>2. transfer = "writing" /\ transfer' = "writing" /\ UNCHANGED fileStateVars
    BY <1>6 DEF Truncate, MayWrite
  <2>3. bytes' = [i \in 1..n |-> IF i <= Len(bytes) THEN bytes[i] ELSE "x"] /\ position' = position
    BY <1>6 DEF Truncate
  <2>4. bytes' \in Seq(Cell) /\ position' \in Nat
    BY <1>1, <2>1, <2>3, WriterKeepsBytes
  <2>5. QED
    BY <1>3, <2>2, <2>4
<1>7. ASSUME NEW n \in 0..MaxSize, SetPosition(n)
      PROVE  LinesInv'
  <2>1. transfer = "writing" /\ transfer' = "writing" /\ UNCHANGED fileStateVars
    BY <1>7 DEF SetPosition, MayWrite
  <2>2. bytes' \in Seq(Cell) /\ position' \in Nat
    BY <1>1, <1>2, <1>7 DEF SetPosition
  <2>3. QED
    BY <1>3, <2>1, <2>2
<1>8. CASE OpenReader
  <2>1. /\ transfer = "writing" /\ transfer' \in {"reading", "readingAll"}
        /\ position' = 0 /\ bytes' = bytes /\ lines' = lines /\ leftover' = leftover /\ cut' = cut
    BY <1>8 DEF OpenReader, fileStateVars
  <2>2. lines = <<>> /\ leftover = <<>> /\ ~cut
    BY <2>1 DEF LinesInv
  <2>3. lines' = <<>> /\ leftover' = <<>> /\ cut' = FALSE /\ position' = 0 /\ bytes' = bytes
    BY <1>1, <2>1, <2>2
  <2>4. ReadInv'
    <3>1. ReadSoFar(<<>>, bytes, 0, <<>>, <<>>, FALSE)
      BY <1>1, NothingRead
    <3>2. ReadSoFar(<<>>, bytes', position', lines', leftover', cut')
      BY <2>3, <3>1
    <3>3. QED
      BY <3>2 DEF ReadInv
  <2>5. position' <= Len(bytes') /\ position' \in Nat /\ bytes' \in Seq(Cell)
    BY <1>1, <2>1
  <2>6. LinesMatchContent'
    BY <2>1 DEF LinesMatchContent
  <2>7. QED
    BY <1>1, <2>1, <2>3, <2>4, <2>5, <2>6 DEF LinesInv
<1>9. ASSUME transfer = "reading", NEW n \in 1..ChunkSize, ReadChunk(n)
      PROVE  LinesInv'
  <2> DEFINE t == Decode(SubSeq(bytes, position + 1, position + n))
             J == Split(leftover \o t)
  <2>1. /\ position + n <= Len(bytes) /\ position' = position + n
        /\ lines' = lines \o Front(J) /\ leftover' = Last(J)
        /\ cut' = (cut \/ InsideAt(bytes, position + n))
        /\ bytes' = bytes /\ transfer' = transfer
    BY <1>9 DEF ReadChunk, LinesSoFar, Chunk, InsideCharacter, InsideAt
  <2>2. PICK seen : ReadSoFar(seen, bytes, position, lines, leftover, cut)
    BY <1>9 DEF LinesInv, ReadInv
  <2>3. n \in Nat \ {0}
    BY <1>2
  <2>4. /\ Front(J) \in Seq(Seq(Cell)) /\ Last(J) \in Seq(Cell)
        /\ lines \o Front(J) \in Seq(Seq(Cell))
        /\ ReadSoFar(seen \o t, bytes, position + n, lines \o Front(J), Last(J),
                     cut \/ InsideAt(bytes, position + n))
    BY <1>1, <2>1, <2>2, <2>3, OneMoreChunk
  <2> HIDE DEF t, J
  <2>5. ReadSoFar(seen \o t, bytes', position', lines', leftover', cut')
    BY <2>1, <2>4
  <2>6. ReadInv'
    BY <2>5 DEF ReadInv
  <2>7. /\ transfer' = "reading" /\ bytes' \in Seq(Cell) /\ position' \in Nat
        /\ lines' \in Seq(Seq(Cell)) /\ leftover' \in Seq(Cell) /\ cut' \in BOOLEAN
        /\ position' <= Len(bytes')
    <3>1. cut' \in BOOLEAN
      BY <1>1, <2>1 DEF InsideAt
    <3>2. QED
      BY <1>1, <1>9, <2>1, <2>3, <2>4, <3>1
  <2>8. LinesMatchContent'
    BY <2>7 DEF LinesMatchContent
  <2>9. QED
    BY <2>6, <2>7, <2>8 DEF LinesInv
<1>10. ASSUME transfer = "reading", ReadEnd
       PROVE  LinesInv'
  <2>1. /\ position = Len(bytes) /\ transfer' = "closed"
        /\ lines' = (IF leftover = <<>> THEN lines ELSE Append(lines, leftover))
        /\ bytes' = bytes /\ position' = position /\ leftover' = leftover /\ cut' = cut
    BY <1>10 DEF ReadEnd
  <2>2. PICK seen : ReadSoFar(seen, bytes, position, lines, leftover, cut)
    BY <1>10 DEF LinesInv, ReadInv
  <2>3. /\ Len(lines') = Len(ContentOf(bytes))
        /\ ~cut => lines' = ContentOf(bytes)
    BY <1>1, <2>1, <2>2, AllRead
  <2>4. ContentLines' = ContentOf(bytes)
    BY <2>1 DEF ContentLines, ContentOf
  <2>5. LinesMatchContent'
    BY <2>1, <2>3, <2>4 DEF LinesMatchContent
  <2>6. lines' \in Seq(Seq(Cell))
    BY <1>1, <2>1
  <2>7. QED
    BY <1>1, <2>1, <2>5, <2>6 DEF LinesInv
<1>11. CASE ReadAll
  <2>1. /\ transfer = "readingAll" /\ transfer' = "closed"
        /\ readAll' = SubSeq(bytes, position + 1, position + Len(bytes))
        /\ position' = Len(bytes) /\ bytes' = bytes
        /\ lines' = lines /\ leftover' = leftover /\ cut' = cut
    BY <1>11 DEF ReadAll, Chunk
  <2>2. position = 0
    BY <2>1 DEF LinesInv
  <2>3. readAll' = SubSeq(bytes, 1, Len(bytes))
    BY <1>1, <2>1, <2>2
  <2>4. SubSeq(bytes, 1, Len(bytes)) = bytes
    <3>1. SubSeq(bytes, 1, Len(bytes)) = [i \in 1..Len(bytes) |-> bytes[i]]
      BY <1>1
    <3>2. bytes = [i \in 1..Len(bytes) |-> bytes[i]]
      BY <1>1
    <3>3. QED
      BY <3>1, <3>2
  <2>5. LinesMatchContent'
    BY <2>1, <2>3, <2>4 DEF LinesMatchContent
  <2>6. QED
    BY <1>1, <2>1, <2>5 DEF LinesInv
<1>12. CASE UNCHANGED transferVars
  <2>1. /\ transfer' = transfer /\ bytes' = bytes /\ position' = position /\ lines' = lines
        /\ leftover' = leftover /\ cut' = cut /\ readAll' = readAll
    BY <1>12 DEF transferVars
  <2>2. ReadInv => ReadInv'
    BY <2>1 DEF ReadInv
  <2>3. LinesMatchContent => LinesMatchContent'
    <3>1. ContentLines' = ContentLines
      BY <2>1 DEF ContentLines
    <3>2. QED
      BY <2>1, <3>1 DEF LinesMatchContent
  <2>4. QED
    BY <2>1, <2>2, <2>3 DEF LinesInv
<1>13. QED
  BY <1>4, <1>5, <1>6, <1>7, <1>8, <1>9, <1>10, <1>11, <1>12 DEF TransferNext, ReadLines

(* Whatever was written and however the file is cut into chunks, readLines yields as   *)
(* many lines as its text has, and the lines of its text if no chunk ends inside a     *)
(* character; readAll returns the file.                                                *)
THEOREM LinesSurviveChunks == TransferSpec => []LinesMatchContent
<1>1. TransferInit => LinesInv
  BY LinesInitially
<1>2. LinesInv /\ [TransferNext]_transferVars => LinesInv'
  BY LinesStep, TransferAssumption
<1>3. LinesInv => LinesMatchContent
  BY DEF LinesInv
<1>4. QED
  BY <1>1, <1>2, <1>3, PTL DEF TransferSpec
=============================================================================
