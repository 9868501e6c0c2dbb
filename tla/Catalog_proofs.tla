--------------------------- MODULE Catalog_proofs ---------------------------
(***************************************************************************)
(* Proofs about Catalog, for any calls, documents and updates.  The        *)
(* argument: a call about to save holds a version no newer than that of    *)
(* the database, and if the versions are the same and the document is      *)
(* there, it holds that document (HoldsVersion); so the save that matches  *)
(* starts from what was saved last.                                        *)
(***************************************************************************)
EXTENDS Catalog, TLAPS

Docs == [TheaterFields -> Value] \cup [MovieFields -> Value]

Dtos == UpdateDtos \cup {CreateDto, FirstMovie}

CatalogTypeOK ==
    /\ document \in [Doc -> Docs \cup {NoDoc}]
    /\ docVersion \in [Doc -> Nat]
    /\ saves \in [Doc -> Seq([dto : Dtos, doc : Docs])]
    /\ DOMAIN edit = Edit
    /\ editStep \in [Edit -> EditRunning \cup {"none", "notFound", "done", "error"}]
    /\ fetched \in [Edit -> [doc : Docs \cup {NoDoc}, version : Nat]]

\* Which steps are those of which requests.
Asked(c) ==
    /\ editStep[c] # "none" => edit[c].doc \in Doc
    /\ editStep[c] = "insert" => edit[c].op = "create" /\ edit[c].dto \in Dtos /\ edit[c].dto \in Docs
    /\ editStep[c] = "find" =>
          \/ edit[c].op \in {"get", "delete"}
          \/ edit[c].op = "update" /\ edit[c].dto \in Dtos
    /\ editStep[c] = "save" => edit[c].op = "update" /\ edit[c].dto \in Dtos
    /\ editStep[c] = "remove" => edit[c].op = "delete"

HoldsVersion(c) ==
    editStep[c] = "save" =>
        LET d == edit[c].doc
        IN  /\ fetched[c].doc \in Docs
            /\ saves[d] # <<>>
            /\ fetched[c].version <= docVersion[d]
            /\ fetched[c].version = docVersion[d] /\ document[d] # NoDoc =>
                  fetched[c].doc = document[d]

\* A document that was found to be deleted had been there.
Deleted(c) ==
    /\ editStep[c] = "remove" => saves[edit[c].doc] # <<>>
    /\ editStep[c] \in {"reply", "done"} /\ edit[c].op = "delete" =>
          saves[edit[c].doc] # <<>> /\ document[edit[c].doc] = NoDoc

Serial(d) ==
    /\ \A i \in 2..Len(saves[d]) : saves[d][i].doc = Assign(saves[d][i - 1].doc, saves[d][i].dto)
    /\ document[d] # NoDoc =>
          saves[d] # <<>> /\ document[d] = saves[d][Len(saves[d])].doc

CatalogInv ==
    /\ CatalogTypeOK
    /\ \A c \in Edit : Asked(c) /\ HoldsVersion(c) /\ Deleted(c)
    /\ \A d \in Doc : Serial(d)

----------------------------------------------------------------------------

LEMMA AssignDoc ==
    ASSUME NEW doc \in Docs, NEW dto \in Dtos
    PROVE  Assign(doc, dto) \in Docs
<1>1. \A f \in DOMAIN dto : dto[f] \in Value
  <2>1. CASE dto \in UpdateDtos
    <3>1. PICK F \in SUBSET (TheaterFields \cup MovieFields) : dto \in [F -> Value]
      BY <2>1, CatalogDocAssumption
    <3>2. QED
      BY <3>1
  <2>2. CASE dto \in {CreateDto, FirstMovie}
    BY <2>2, CatalogDocAssumption
  <2>3. QED
    BY <2>1, <2>2 DEF Dtos
<1>2. CASE doc \in [TheaterFields -> Value]
  BY <1>1, <1>2 DEF Assign, Docs
<1>3. CASE doc \in [MovieFields -> Value]
  BY <1>1, <1>3 DEF Assign, Docs
<1>4. QED
  BY <1>2, <1>3 DEF Docs

LEMMA InitCatalog == CatalogInit => CatalogInv
<1> SUFFICES ASSUME CatalogInit PROVE CatalogInv
  OBVIOUS
<1>1. FirstMovie \in Docs /\ FirstMovie \in Dtos
  BY CatalogDocAssumption DEF Docs, Dtos
<1>2. CatalogTypeOK
  <2> DEFINE Entry == [dto : Dtos, doc : Docs]
             first == [dto |-> FirstMovie, doc |-> FirstMovie]
  <2>1. first \in Entry
    BY <1>1
  <2>2. saves \in [Doc -> Seq(Entry)]
    <3>1. saves = [d \in Doc |-> IF d \in MovieDoc THEN <<first>> ELSE <<>>]
      BY DEF CatalogInit
    <3> HIDE DEF first, Entry
    <3>2. QED
      BY <2>1, <3>1
  <2>3. QED
    BY <1>1, <2>2 DEF CatalogInit, CatalogTypeOK
<1>3. \A c \in Edit : Asked(c) /\ HoldsVersion(c) /\ Deleted(c)
  BY DEF CatalogInit, Asked, HoldsVersion, Deleted
<1>4. ASSUME NEW d \in Doc PROVE Serial(d)
  <2>1. CASE d \in MovieDoc
    BY <1>1, <2>1 DEF CatalogInit, Serial
  <2>2. CASE d \notin MovieDoc
    BY <1>1, <2>2 DEF CatalogInit, Serial
  <2>3. QED
    BY <2>1, <2>2
<1>5. QED
  BY <1>2, <1>3, <1>4 DEF CatalogInv

\* Steps of a call that leave the documents alone.
LEMMA EditMoves ==
    ASSUME CatalogInv, NEW c \in Edit,
           UNCHANGED docVars,
           CatalogTypeOK', Asked(c)', HoldsVersion(c)', Deleted(c)',
           \A b \in Edit \ {c} : /\ editStep'[b] = editStep[b]
                                 /\ edit'[b] = edit[b]
                                 /\ fetched'[b] = fetched[b]
    PROVE  CatalogInv'
BY DEF CatalogInv, Asked, HoldsVersion, Deleted, Serial, docVars

LEMMA BeginStep ==
    ASSUME CatalogInv, NEW c \in Edit, NEW r \in Requested, BeginEdit(c, r)
    PROVE  CatalogInv'
<1> USE DEF BeginEdit
<1>1. CatalogTypeOK /\ editStep[c] = "none"
  BY DEF CatalogInv
<1>2. /\ r.doc \in Doc
      /\ \/ r.op = "create" /\ r.dto = CreateDto
         \/ r.op = "update" /\ r.dto \in UpdateDtos
         \/ r.op \in {"get", "delete"}
  BY DEF Requested, Doc
<1>3. CreateDto \in Docs /\ CreateDto \in Dtos /\ UpdateDtos \subseteq Dtos
  BY CatalogDocAssumption DEF Docs, Dtos
<1>4. edit'[c] = r /\ editStep'[c] = IF r.op = "create" THEN "insert" ELSE "find"
  BY <1>1 DEF CatalogTypeOK
<1>5. CatalogTypeOK'
  BY <1>1 DEF CatalogTypeOK, EditRunning, docVars
<1>6. editStep'[c] \in {"insert", "find"} /\ (editStep'[c] = "insert" <=> r.op = "create")
  BY <1>4
<1>7. Asked(c)'
  BY <1>2, <1>3, <1>4, <1>6 DEF Asked
<1>8. HoldsVersion(c)' /\ Deleted(c)'
  BY <1>6 DEF HoldsVersion, Deleted
<1>9. QED
  BY <1>1, <1>5, <1>7, <1>8, EditMoves DEF CatalogTypeOK

LEMMA GetStep ==
    ASSUME CatalogInv, NEW c \in Edit, GetDocument(c)
    PROVE  CatalogInv'
<1> USE DEF GetDocument, EditGoes
<1> DEFINE d == edit[c].doc
<1>1. CatalogTypeOK /\ Asked(c) /\ editStep[c] = "find" /\ d \in Doc /\ Serial(d)
  BY DEF CatalogInv, Asked
<1>2. /\ fetched'[c] = [doc |-> document[d], version |-> docVersion[d]]
      /\ editStep'[c] = IF document[d] = NoDoc THEN "notFound" ELSE AfterFind[edit[c].op]
      /\ edit' = edit /\ document' = document /\ docVersion' = docVersion /\ saves' = saves
  BY <1>1 DEF CatalogTypeOK, docVars
<1>3. /\ edit[c].op = "update" => AfterFind[edit[c].op] = "save" /\ edit[c].dto \in Dtos
      /\ edit[c].op = "delete" => AfterFind[edit[c].op] = "remove"
      /\ edit[c].op = "get" => AfterFind[edit[c].op] = "reply"
      /\ edit[c].op \in {"update", "delete", "get"}
  BY <1>1 DEF AfterFind, Asked
<1>4. CatalogTypeOK'
  BY <1>1, <1>2, <1>3 DEF CatalogTypeOK, EditRunning
<1>5. Asked(c)' /\ HoldsVersion(c)' /\ Deleted(c)'
  BY <1>1, <1>2, <1>3 DEF Asked, HoldsVersion, Deleted, Serial, CatalogTypeOK
<1>6. QED
  BY <1>1, <1>4, <1>5, EditMoves DEF CatalogTypeOK

LEMMA AnswerStep ==
    ASSUME CatalogInv, NEW c \in Edit, Answer(c) \/ EditFails(c)
    PROVE  CatalogInv'
<1> USE DEF Answer, EditFails, EditGoes
<1>1. CatalogTypeOK /\ Asked(c) /\ Deleted(c) /\ editStep[c] \in EditRunning
  BY DEF CatalogInv, EditRunning
<1>2. /\ edit' = edit /\ fetched' = fetched /\ UNCHANGED docVars
      /\ \/ editStep'[c] = "error"
         \/ editStep'[c] = "done" /\ editStep[c] = "reply"
  BY <1>1 DEF CatalogTypeOK
<1>3. CatalogTypeOK'
  BY <1>1 DEF CatalogTypeOK, EditRunning, docVars
<1>4. Asked(c)' /\ HoldsVersion(c)' /\ Deleted(c)'
  BY <1>1, <1>2 DEF Asked, HoldsVersion, Deleted, EditRunning, docVars
<1>5. QED
  BY <1>1, <1>2, <1>3, <1>4, EditMoves DEF CatalogTypeOK

----------------------------------------------------------------------------
(* The steps that write.                                                    *)

\* The first save of a document, or one that starts from the last: nobody else can then
\* match the version it has read.
LEMMA WriteStep ==
    ASSUME CatalogInv, NEW c \in Edit, NEW d \in Doc,
           NEW dto \in Dtos, NEW value \in Docs, NEW version \in Nat,
           Write(d, dto, value, version),
           EditGoes(c, editStep[c], "reply"), fetched' = fetched,
           edit[c].doc = d, edit[c].op # "delete", editStep[c] # "none",
           \/ saves[d] = <<>>
           \/ /\ document[d] # NoDoc
              /\ version > docVersion[d]
              /\ value = Assign(saves[d][Len(saves[d])].doc, dto)
    PROVE  CatalogInv'
<1> USE DEF Write, EditGoes
<1> DEFINE entry == [dto |-> dto, doc |-> value]
           Entry == [dto : Dtos, doc : Docs]
<1>1. CatalogTypeOK /\ saves[d] \in Seq(Entry) /\ entry \in Entry /\ Serial(d)
  BY DEF CatalogInv, CatalogTypeOK
<1>2. /\ document' = [document EXCEPT ![d] = value]
      /\ docVersion' = [docVersion EXCEPT ![d] = version]
      /\ saves'[d] = Append(saves[d], entry)
      /\ \A e \in Doc \ {d} : /\ document'[e] = document[e] /\ docVersion'[e] = docVersion[e]
                              /\ saves'[e] = saves[e]
      /\ edit' = edit /\ editStep'[c] = "reply"
  BY <1>1 DEF CatalogTypeOK
<1>3. /\ saves'[d] \in Seq(Entry) /\ Len(saves'[d]) = Len(saves[d]) + 1 /\ Len(saves[d]) \in Nat
      /\ saves'[d][Len(saves[d]) + 1] = entry
      /\ \A i \in 1..Len(saves[d]) : saves'[d][i] = saves[d][i]
      /\ saves'[d] # <<>>
  <2> HIDE DEF entry, Entry
  <2>1. QED
    BY <1>1, <1>2
<1>4. CatalogTypeOK'
  <2>1. saves' \in [Doc -> Seq(Entry)]
    <3>1. saves \in [Doc -> Seq(Entry)] /\ saves' = [saves EXCEPT ![d] = saves'[d]]
      BY <1>1, <1>2 DEF CatalogTypeOK
    <3> HIDE DEF Entry
    <3>2. QED
      BY <1>3, <3>1
  <2>2. /\ document' \in [Doc -> Docs \cup {NoDoc}] /\ docVersion' \in [Doc -> Nat]
        /\ editStep' \in [Edit -> EditRunning \cup {"none", "notFound", "done", "error"}]
    BY <1>1 DEF CatalogTypeOK, EditRunning
  <2>3. QED
    BY <1>1, <2>1, <2>2 DEF CatalogTypeOK
<1>5. Asked(c)' /\ HoldsVersion(c)' /\ Deleted(c)'
  BY <1>2 DEF Asked, HoldsVersion, Deleted
<1>6. ASSUME NEW b \in Edit, b # c PROVE Asked(b)' /\ HoldsVersion(b)' /\ Deleted(b)'
  <2>1. /\ editStep'[b] = editStep[b] /\ fetched'[b] = fetched[b] /\ fetched[b].version \in Nat
        /\ docVersion[d] \in Nat /\ docVersion'[d] = version /\ document'[d] = value
        /\ Asked(b) /\ HoldsVersion(b) /\ Deleted(b)
    BY <1>1, <1>6 DEF CatalogInv, CatalogTypeOK
  <2>2. Asked(b)'
    BY <1>2, <2>1 DEF Asked
  <2>3. CASE editStep[b] = "none"
    BY <1>2, <2>1, <2>3 DEF Asked, HoldsVersion, Deleted
  <2>4. CASE editStep[b] # "none" /\ edit[b].doc = d
    <3>1. HoldsVersion(b)'
      BY <1>2, <1>3, <2>1, <2>4 DEF HoldsVersion
    <3>2. Deleted(b)'
      BY <1>2, <1>3, <2>1, <2>4 DEF Deleted
    <3>3. QED
      BY <2>2, <3>1, <3>2
  <2>5. CASE editStep[b] # "none" /\ edit[b].doc # d
    <3>1. edit[b].doc \in Doc \ {d}
      BY <2>1, <2>5 DEF Asked
    <3>2. QED
      BY <1>2, <2>1, <2>2, <3>1 DEF HoldsVersion, Deleted
  <2>6. QED
    BY <2>3, <2>4, <2>5
<1>7. Serial(d)'
  <2>1. document'[d] = value
    BY <1>1 DEF CatalogTypeOK
  <2>2. ASSUME NEW i \in 2..Len(saves'[d])
        PROVE  saves'[d][i].doc = Assign(saves'[d][i - 1].doc, saves'[d][i].dto)
    <3>1. CASE i <= Len(saves[d])
      <4>1. i \in 2..Len(saves[d]) /\ i \in 1..Len(saves[d]) /\ i - 1 \in 1..Len(saves[d])
        BY <1>3, <3>1
      <4>2. saves[d][i].doc = Assign(saves[d][i - 1].doc, saves[d][i].dto)
        BY <1>1, <4>1 DEF Serial
      <4>3. QED
        BY <1>3, <4>1, <4>2
    <3>2. CASE i = Len(saves[d]) + 1
      <4>1. i - 1 = Len(saves[d]) /\ i - 1 \in 1..Len(saves[d]) /\ saves[d] # <<>>
        BY <1>1, <1>3, <3>2
      <4>2. saves'[d][i] = entry /\ saves'[d][i - 1] = saves[d][Len(saves[d])]
        BY <1>3, <3>2, <4>1
      <4>3. QED
        BY <4>1, <4>2
    <3>3. QED
      BY <1>3, <3>1, <3>2
  <2>3. saves'[d][Len(saves'[d])].doc = value
    BY <1>3
  <2>4. \A i \in 2..Len(saves'[d]) :
            saves'[d][i].doc = Assign(saves'[d][i - 1].doc, saves'[d][i].dto)
    BY <2>2
  <2>5. QED
    BY <1>3, <2>1, <2>3, <2>4 DEF Serial, Assign
<1>8. ASSUME NEW e \in Doc, e # d PROVE Serial(e)'
  <2>1. Serial(e) /\ document'[e] = document[e] /\ saves'[e] = saves[e]
    BY <1>2, <1>8 DEF CatalogInv
  <2>2. QED
    <3> HIDE DEF entry, Entry
    <3>1. QED
      BY <2>1 DEF Serial
<1>9. QED
  BY <1>4, <1>5, <1>6, <1>7, <1>8 DEF CatalogInv

LEMMA CreateStep ==
    ASSUME CatalogInv, NEW c \in Edit, CreateTheater(c)
    PROVE  CatalogInv'
<1>1. editStep[c] = "insert" /\ Asked(c)
  BY DEF CatalogInv, CreateTheater, EditGoes
<1>2. /\ edit[c].doc \in Doc /\ edit[c].dto \in Dtos /\ edit[c].dto \in Docs
      /\ edit[c].op # "delete" /\ editStep[c] # "none"
  BY <1>1 DEF Asked
<1>3. /\ Write(edit[c].doc, edit[c].dto, edit[c].dto, 0) /\ saves[edit[c].doc] = <<>>
      /\ EditGoes(c, editStep[c], "reply") /\ fetched' = fetched
  BY <1>1 DEF CreateTheater
<1>4. QED
  BY <1>2, <1>3, WriteStep

LEMMA SaveStep ==
    ASSUME CatalogInv, NEW c \in Edit, SaveDocument(c)
    PROVE  CatalogInv'
<1> DEFINE d == edit[c].doc
<1>1. /\ CatalogTypeOK /\ Asked(c) /\ HoldsVersion(c) /\ editStep[c] = "save" /\ fetched' = fetched
      /\ edit[c].op = "update" /\ edit[c].dto \in Dtos /\ d \in Doc /\ Serial(d)
  BY DEF CatalogInv, SaveDocument, EditGoes, Asked
<1>2. CASE EditGoes(c, "save", "reply") /\ Matches(c) /\ Edited(c) # fetched[c].doc
           /\ Write(d, edit[c].dto, Edited(c), fetched[c].version + 1)
  <2>1. /\ document[d] # NoDoc /\ docVersion[d] = fetched[c].version
        /\ fetched[c].doc = document[d] /\ fetched[c].doc \in Docs
    BY <1>1, <1>2 DEF Matches, HoldsVersion
  <2>2. Edited(c) \in Docs /\ Edited(c) = Assign(saves[d][Len(saves[d])].doc, edit[c].dto)
    BY <1>1, <2>1, AssignDoc DEF Edited, Serial
  <2>3. docVersion[d] \in Nat
    BY <1>1 DEF CatalogTypeOK
  <2>4. fetched[c].version + 1 \in Nat /\ fetched[c].version + 1 > docVersion[d]
    BY <2>1, <2>3
  <2>5. edit[c].op # "delete" /\ editStep[c] # "none" /\ EditGoes(c, editStep[c], "reply")
    BY <1>1, <1>2
  <2>6. QED
    BY <1>1, <1>2, <2>1, <2>2, <2>4, <2>5, WriteStep
<1>3. CASE UNCHANGED docVars /\ \E to \in {"reply", "error"} : EditGoes(c, "save", to)
  <2>1. PICK to \in {"reply", "error"} : EditGoes(c, "save", to)
    BY <1>3
  <2>2. /\ edit' = edit /\ editStep' = [editStep EXCEPT ![c] = to] /\ editStep'[c] = to
    BY <1>1, <2>1 DEF EditGoes, CatalogTypeOK
  <2>3. CatalogTypeOK'
    BY <1>1, <1>3, <2>2 DEF CatalogTypeOK, EditRunning, docVars
  <2>4. Asked(c)' /\ HoldsVersion(c)' /\ Deleted(c)'
    BY <1>1, <2>2 DEF Asked, HoldsVersion, Deleted
  <2>5. QED
    BY <1>1, <1>3, <2>2, <2>3, <2>4, EditMoves DEF CatalogTypeOK
<1>4. QED
  BY <1>2, <1>3 DEF SaveDocument

LEMMA RemoveStep ==
    ASSUME CatalogInv, NEW c \in Edit, RemoveDocument(c)
    PROVE  CatalogInv'
<1> USE DEF RemoveDocument, EditGoes
<1> DEFINE d == edit[c].doc
<1>1. /\ CatalogTypeOK /\ Asked(c) /\ Deleted(c) /\ editStep[c] = "remove" /\ d \in Doc
  BY DEF CatalogInv, Asked
<1>2. /\ edit' = edit /\ editStep'[c] = "reply" /\ document'[d] = NoDoc /\ saves' = saves
      /\ \A e \in Doc \ {d} : document'[e] = document[e]
      /\ \A b \in Edit \ {c} : editStep'[b] = editStep[b]
  BY <1>1 DEF CatalogTypeOK
<1>3. CatalogTypeOK'
  BY <1>1 DEF CatalogTypeOK, EditRunning
<1>4. Asked(c)' /\ HoldsVersion(c)' /\ Deleted(c)'
  BY <1>1, <1>2 DEF Asked, HoldsVersion, Deleted
<1>5. ASSUME NEW b \in Edit, b # c PROVE Asked(b)' /\ HoldsVersion(b)' /\ Deleted(b)'
  <2>1. Asked(b) /\ HoldsVersion(b) /\ Deleted(b) /\ editStep'[b] = editStep[b]
    BY <1>2, <1>5 DEF CatalogInv
  <2>2. editStep[b] # "none" => edit[b].doc \in Doc
    BY <2>1 DEF Asked
  <2>3. Asked(b)'
    BY <1>2, <2>1 DEF Asked
  <2>4. HoldsVersion(b)'
    BY <1>2, <2>1, <2>2 DEF HoldsVersion
  <2>5. Deleted(b)'
    BY <1>2, <2>1, <2>2 DEF Deleted
  <2>6. QED
    BY <2>3, <2>4, <2>5
<1>6. ASSUME NEW e \in Doc PROVE Serial(e)'
  <2>1. Serial(e)
    BY DEF CatalogInv
  <2>2. QED
    BY <1>2, <2>1 DEF Serial, Assign
<1>7. QED
  BY <1>3, <1>4, <1>5, <1>6 DEF CatalogInv

LEMMA NextCatalog == CatalogInv /\ [CatalogNext]_editVars => CatalogInv'
<1>1. ASSUME CatalogInv, UNCHANGED editVars PROVE CatalogInv'
  <2>1. UNCHANGED <<document, docVersion, saves, edit, editStep, fetched>>
    BY <1>1 DEF editVars, docVars
  <2>2. CatalogTypeOK'
    BY <1>1, <2>1 DEF CatalogInv, CatalogTypeOK
  <2>3. \A c \in Edit : Asked(c)' /\ HoldsVersion(c)' /\ Deleted(c)'
    BY <1>1, <2>1 DEF CatalogInv, Asked, HoldsVersion, Deleted
  <2>4. \A d \in Doc : Serial(d)'
    BY <1>1, <2>1 DEF CatalogInv, Serial, Assign
  <2>5. QED
    BY <2>2, <2>3, <2>4 DEF CatalogInv
<1>2. ASSUME CatalogInv, CatalogNext PROVE CatalogInv'
  BY <1>2, BeginStep, GetStep, AnswerStep, CreateStep, SaveStep, RemoveStep
     DEF CatalogNext, EditStep
<1>3. QED
  BY <1>1, <1>2

\* Versions protect what was read, in every reachable state.
THEOREM CatalogInvariant == CatalogSpec => []CatalogInv
BY InitCatalog, NextCatalog, PTL DEF CatalogSpec

----------------------------------------------------------------------------

\* Updates of theaters and movies are serial, and what was deleted stays deleted: for any
\* calls that overlap in any way, any fields and values.
THEOREM SavesSerial == CatalogSpec => []SavesAreSerial
<1>1. ASSUME CatalogInv PROVE SavesAreSerial
  <2>1. ASSUME NEW d \in Doc
        PROVE  /\ \A i \in 2..Len(saves[d]) :
                      saves[d][i].doc = Assign(saves[d][i - 1].doc, saves[d][i].dto)
               /\ document[d] # NoDoc => document[d] = saves[d][Len(saves[d])].doc
    BY <1>1, <2>1 DEF CatalogInv, Serial
  <2>2. ASSUME NEW d \in Doc, NEW c \in Edit, edit[c] = [op |-> "delete", doc |-> d],
               editStep[c] = "done"
        PROVE  document[d] = NoDoc
    BY <1>1, <2>2 DEF CatalogInv, Deleted
  <2>3. QED
    BY <2>1, <2>2 DEF SavesAreSerial
<1>2. QED
  BY <1>1, CatalogInvariant, PTL
=============================================================================
