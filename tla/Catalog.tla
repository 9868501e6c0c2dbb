------------------------------ MODULE Catalog ------------------------------
(***************************************************************************)
(* Theaters and movies: concurrent calls that create, read, update and     *)
(* delete their documents through mongoose.  An update reads the document, *)
(* assigns the fields of its DTO and saves what has changed; the base      *)
(* schema turns optimisticConcurrency on, so that the save matches the     *)
(* document only in the version that was read.                             *)
(*                                                                         *)
(* Movies are created together with their files: see FileStorage.          *)
(***************************************************************************)
EXTENDS Integers, Sequences

CONSTANTS
    Edit,               \* the calls
    Value,              \* of the fields
    TheaterDoc,         \* the ids new theaters may get
    MovieDoc,           \* the movies there are at the start ...
    FirstMovie,         \* ... and their fields
    CreateDto,          \* what a theater is created with
    UpdateDtos,         \* the updates clients send: functions of some fields
    Falsy,              \* a value of a field that JavaScript takes for false
    NoDoc, NoEdit

TheaterFields == {"name", "latlong", "seatmap"}

MovieFields == {"title", "genre", "releaseDate", "plot", "durationMinutes", "director", "rating"}

Doc == TheaterDoc \cup MovieDoc

FieldsOf(d) == IF d \in TheaterDoc THEN TheaterFields ELSE MovieFields

ASSUME CatalogDocAssumption ==
    /\ TheaterDoc \cap MovieDoc = {}
    /\ CreateDto \in [TheaterFields -> Value]
    /\ FirstMovie \in [MovieFields -> Value]
    /\ UpdateDtos \subseteq UNION {[F -> Value] : F \in SUBSET (TheaterFields \cup MovieFields)}

VARIABLES
    document,           \* the theaters and movies collections
    docVersion,         \* __v
    edit,               \* what each call asks
    editStep,           \* the await each call is at, or how it ended
    fetched,            \* the document a call has read, and its version
    saves               \* history: what was saved of each document, in order

docVars == <<document, docVersion, saves>>
editVars == <<docVars, edit, editStep, fetched>>

EditRunning == {"insert", "find", "save", "remove", "reply"}

Requested ==
         {[op |-> "create", doc |-> d, dto |-> CreateDto] : d \in {t \in TheaterDoc : saves[t] = <<>>}}
    \cup {[op |-> "update", doc |-> d, dto |-> u] : d \in Doc, u \in UpdateDtos}
    \cup {[op |-> o, doc |-> d] : o \in {"get", "delete"}, d \in Doc}

CatalogInit ==
    /\ document = [d \in Doc |-> IF d \in MovieDoc THEN FirstMovie ELSE NoDoc]
    /\ docVersion = [d \in Doc |-> 0]
    /\ edit = [c \in Edit |-> NoEdit]
    /\ editStep = [c \in Edit |-> "none"]
    /\ fetched = [c \in Edit |-> [doc |-> NoDoc, version |-> 0]]
    /\ saves = [d \in Doc |-> IF d \in MovieDoc THEN <<[dto |-> FirstMovie, doc |-> FirstMovie]>>
                              ELSE <<>>]

----------------------------------------------------------------------------

\* The gateway forwards the request; validation has dropped fields a DTO does not have.
BeginEdit(c, r) ==
    /\ editStep[c] = "none"
    /\ r.op = "update" => DOMAIN r.dto \subseteq FieldsOf(r.doc)
    /\ edit' = [edit EXCEPT ![c] = r]
    /\ editStep' = [editStep EXCEPT ![c] = IF r.op = "create" THEN "insert" ELSE "find"]
    /\ UNCHANGED <<docVars, fetched>>

EditGoes(c, from, to) ==
    /\ editStep[c] = from
    /\ editStep' = [editStep EXCEPT ![c] = to]
    /\ UNCHANGED edit

Write(d, dto, value, version) ==
    /\ document' = [document EXCEPT ![d] = value]
    /\ docVersion' = [docVersion EXCEPT ![d] = version]
    /\ saves' = [saves EXCEPT ![d] = Append(@, [dto |-> dto, doc |-> value])]

\* createTheater: the id of the new document is fresh.
CreateTheater(c) ==
    /\ EditGoes(c, "insert", "reply")
    /\ saves[edit[c].doc] = <<>>
    /\ Write(edit[c].doc, edit[c].dto, edit[c].dto, 0)
    /\ UNCHANGED fetched

AfterFind == [update |-> "save", delete |-> "remove", get |-> "reply"]

\* getTheater and getMovie, alone or as the first half of an update or a deletion.
GetDocument(c) ==
    /\ EditGoes(c, "find",
           IF document[edit[c].doc] = NoDoc THEN "notFound" ELSE AfterFind[edit[c].op])
    /\ fetched' = [fetched EXCEPT ![c] = [doc |-> document[edit[c].doc],
                                          version |-> docVersion[edit[c].doc]]]
    /\ UNCHANGED docVars

\* `if (updateDto.name) theater.name = updateDto.name', for every field.
Assign(doc, dto) ==
    [f \in DOMAIN doc |-> IF f \in DOMAIN dto /\ dto[f] # Falsy THEN dto[f] ELSE doc[f]]

Edited(c) == Assign(fetched[c].doc, edit[c].dto)

\* Mutant: as without optimisticConcurrency, the version is not compared.
MatchesAnyVersion(c) == document[edit[c].doc] # NoDoc

\* What the command of save() matches: a document without changes is only looked for, one
\* with changes must be in the version that was read.
Matches(c) ==
    /\ document[edit[c].doc] # NoDoc
    /\ Edited(c) # fetched[c].doc => docVersion[edit[c].doc] = fetched[c].version

SaveDocument(c) ==
    \/ /\ EditGoes(c, "save", "reply")
       /\ Matches(c)
       /\ IF Edited(c) = fetched[c].doc
          THEN UNCHANGED docVars
          ELSE Write(edit[c].doc, edit[c].dto, Edited(c), fetched[c].version + 1)
       /\ UNCHANGED fetched
    \/ /\ EditGoes(c, "save", "error")
       /\ ~Matches(c)
       /\ UNCHANGED <<docVars, fetched>>

\* deleteOne() succeeds whether the document is still there or not.
RemoveDocument(c) ==
    /\ EditGoes(c, "remove", "reply")
    /\ document' = [document EXCEPT ![edit[c].doc] = NoDoc]
    /\ UNCHANGED <<docVersion, saves, fetched>>

Answer(c) ==
    /\ EditGoes(c, "reply", "done")
    /\ UNCHANGED <<docVars, fetched>>

\* An await rejects, or the reply is lost: what was written stays.
EditFails(c) ==
    /\ editStep[c] \in EditRunning
    /\ EditGoes(c, editStep[c], "error")
    /\ UNCHANGED <<docVars, fetched>>

EditStep(c) ==
    \/ CreateTheater(c)
    \/ GetDocument(c)
    \/ SaveDocument(c)
    \/ RemoveDocument(c)
    \/ Answer(c)

CatalogNext ==
    \E c \in Edit : (\E r \in Requested : BeginEdit(c, r)) \/ EditStep(c) \/ EditFails(c)

CatalogSpec == CatalogInit /\ [][CatalogNext]_editVars

----------------------------------------------------------------------------

\* Every saved document is the one saved before it with the DTO of the call assigned: calls
\* that overlap leave, and are answered with, what they would one after the other.  The
\* document in the database is the last of them, unless it was deleted: no save brings a
\* deleted document back.
SavesAreSerial ==
    \A d \in Doc :
        /\ \A i \in 2..Len(saves[d]) : saves[d][i].doc = Assign(saves[d][i - 1].doc, saves[d][i].dto)
        /\ document[d] # NoDoc => document[d] = saves[d][Len(saves[d])].doc
        /\ (\E c \in Edit : edit[c] = [op |-> "delete", doc |-> d] /\ editStep[c] = "done")
              => document[d] = NoDoc
=============================================================================
