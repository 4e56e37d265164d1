--------------------------- MODULE Services_proofs ---------------------------
(***************************************************************************)
(* Proofs about the services around the workflows, each for any number of its      *)
(* callers and for every bound: Library, Workflows, Startup, Metadata, and the parts   *)
(* of the dashboard, PlanPanel, ChatPanel and ChatRelay.                               *)
(***************************************************************************)
EXTENDS Library, Workflows, Startup, Metadata, PlanPanel, ChatPanel, ChatRelay, TLAPS, SequenceTheorems

-----------------------------------------------------------------------------
(***************************************************************************)
(* Library, for any number of uploads, deletions and artifacts.                  *)
(*                                                                          *)
(* A key belongs to an upload that has been answered, and to one document at      *)
(* most: so a blob that is about to be deleted is one that no document leads to,    *)
(* and none will, because every later key is that of an upload still under way.     *)
(***************************************************************************)

UploadRecord == [file : Files, at : {"new", "indexing", "answered", "refused"},
                 blob : {"none", "unconfigured", "failed", "stored"}]

\* A deletion has blobs to delete, or files.
ErasesOK ==
  /\ DOMAIN erase = Erasers
  /\ \A e \in Erasers : /\ DOMAIN erase[e] = {"at", "todo"}
                        /\ erase[e].at \in {"new", "blob", "files", "done"}
                        /\ erase[e].at = "files" => erase[e].todo \subseteq Artifacts \X {"content", "meta"}

RecordsOK ==
  /\ index \in [Uploads -> [name : {f.name : f \in Files} \cup {"none"}, key : {0} \cup Uploads]]
  /\ upload \in [Uploads -> UploadRecord]
  /\ blobs \subseteq Uploads /\ excused \subseteq Uploads
  /\ stored \subseteq Artifacts \X {"content", "meta"}
  /\ backend \in Backends /\ mishaps \in 0..MaxMishaps

\* A document is that of an upload that was answered, and so is its key.
KeysAnswered ==
  \A d \in Documents :
    /\ upload[d].at = "answered"
    /\ index[d].key # 0 => /\ upload[index[d].key].at = "answered"
                           /\ upload[index[d].key].blob \in {"failed", "stored"}

OneKeyEach ==
  \A d, e \in Documents : index[d].key = index[e].key /\ index[d].key # 0 => d = e

\* No document leads to a blob that is about to be deleted.
DoomedBlobs ==
  \A e \in Erasers : erase[e].at = "blob" => \A k \in erase[e].todo :
    /\ k \in Uploads /\ upload[k].at = "answered"
    /\ \A d \in Documents : index[d].key # k

BlobsUnderWay ==
  \A u \in Uploads : upload[u].at = "indexing" =>
    upload[u].blob # "none" /\ (upload[u].blob = "stored" => u \in blobs)

LibraryIInv == /\ LibraryInv /\ RecordsOK /\ ErasesOK
        /\ KeysAnswered /\ OneKeyEach /\ DoomedBlobs /\ BlobsUnderWay

-----------------------------------------------------------------------------

LEMMA StepRecords ==
  ASSUME RecordsOK, ErasesOK, LibraryNext \/ UNCHANGED libVars
  PROVE  RecordsOK'
<1> USE LibraryAssumption DEF RecordsOK, UploadRecord, Documents, Absent
<1>1. ASSUME NEW u \in Uploads, StoreBlob(u) PROVE RecordsOK'
  <2>1. PICK result \in {"unconfigured", "failed", "stored"} :
          /\ Mishap(result # "stored")
          /\ upload' = [upload EXCEPT ![u].at = "indexing", ![u].blob = result]
          /\ blobs' = IF result = "stored" THEN blobs \cup {u} ELSE blobs
    BY <1>1 DEF StoreBlob
  <2>2. upload' \in [Uploads -> UploadRecord]
    <3> DEFINE r == [upload[u] EXCEPT !.at = "indexing", !.blob = result]
    <3>1. upload' = [upload EXCEPT ![u] = r]
      BY <2>1
    <3>2. r \in UploadRecord
      OBVIOUS
    <3> QED
      BY <3>1, <3>2
  <2>3. mishaps' \in 0..MaxMishaps
    BY <2>1 DEF Mishap
  <2> QED
    BY <1>1, <2>1, <2>2, <2>3 DEF StoreBlob
<1>2. ASSUME NEW u \in Uploads, StoreOnly(u) PROVE RecordsOK'
  BY <1>2 DEF StoreOnly, Answer
<1>3. ASSUME NEW u \in Uploads, FindExisting(u) PROVE RecordsOK'
  BY <1>3 DEF FindExisting, Looks, Answer, Adopts, Existing
<1>4. ASSUME NEW u \in Uploads, KeepBinary(u) PROVE RecordsOK'
  BY <1>4 DEF KeepBinary, Proceeds, Looks, Mishap, Answer
<1>5. ASSUME NEW u \in Uploads, IndexDocument(u) PROVE RecordsOK'
  BY <1>5 DEF IndexDocument, Proceeds, Looks, Mishap, Answer, Existing, KeyOf
<1>6. ASSUME NEW u \in Uploads, RefuseUpload(u) PROVE RecordsOK'
  BY <1>6 DEF RefuseUpload, Mishap, Answer
<1>7. ASSUME NEW e \in Erasers, NEW d \in Uploads, NEW both \in BOOLEAN,
             DeleteDocument(e, d, both) PROVE RecordsOK'
  BY <1>7 DEF DeleteDocument
<1>8. ASSUME NEW e \in Erasers, DeleteBlob(e) PROVE RecordsOK'
  <2>1. PICK works \in BOOLEAN :
          Mishap(~works) /\ blobs' = IF works THEN blobs \ erase[e].todo ELSE blobs
    BY <1>8 DEF DeleteBlob
  <2>2. mishaps' \in 0..MaxMishaps
    BY <2>1 DEF Mishap
  <2> QED
    BY <1>8, <2>1, <2>2 DEF DeleteBlob
<1>9. ASSUME NEW e \in Erasers, ListSession(e) PROVE RecordsOK'
  BY <1>9 DEF ListSession
<1>10. ASSUME NEW e \in Erasers, DeleteArtifact(e) PROVE RecordsOK'
  BY <1>10 DEF DeleteArtifact, Removed
<1>11. ASSUME NEW e \in Erasers, SessionDeleted(e) PROVE RecordsOK'
  BY <1>11 DEF SessionDeleted
<1>12. ASSUME NEW a \in Artifacts, StoreArtifact(a) PROVE RecordsOK'
  BY <1>12 DEF StoreArtifact, Written, LocalFiles, S3Object, AzureBlob
<1>13. CASE UNCHANGED libVars
  BY <1>13 DEF libVars
<1> HIDE DEF RecordsOK, UploadRecord, Documents, Absent
<1> QED
  BY <1>1, <1>2, <1>3, <1>4, <1>5, <1>6, <1>7, <1>8, <1>9, <1>10, <1>11, <1>12, <1>13
  DEF LibraryNext

LEMMA StepErases ==
  ASSUME RecordsOK, ErasesOK, LibraryNext \/ UNCHANGED libVars
  PROVE  ErasesOK'
<1> USE LibraryAssumption DEF RecordsOK, ErasesOK
<1>1. ASSUME NEW u \in Uploads, StoreBlob(u) PROVE ErasesOK'
  BY <1>1 DEF StoreBlob, Mishap
<1>2. ASSUME NEW u \in Uploads, StoreOnly(u) PROVE ErasesOK'
  BY <1>2 DEF StoreOnly, Answer
<1>3. ASSUME NEW u \in Uploads, FindExisting(u) PROVE ErasesOK'
  BY <1>3 DEF FindExisting, Looks, Answer, Adopts, Existing
<1>4. ASSUME NEW u \in Uploads, KeepBinary(u) PROVE ErasesOK'
  BY <1>4 DEF KeepBinary, Proceeds, Looks, Mishap, Answer
<1>5. ASSUME NEW u \in Uploads, IndexDocument(u) PROVE ErasesOK'
  BY <1>5 DEF IndexDocument, Proceeds, Looks, Mishap, Answer, Existing, KeyOf
<1>6. ASSUME NEW u \in Uploads, RefuseUpload(u) PROVE ErasesOK'
  BY <1>6 DEF RefuseUpload, Mishap, Answer
<1>7. ASSUME NEW e \in Erasers, NEW d \in Uploads, NEW both \in BOOLEAN,
             DeleteDocument(e, d, both) PROVE ErasesOK'
  BY <1>7 DEF DeleteDocument
<1>8. ASSUME NEW e \in Erasers, DeleteBlob(e) PROVE ErasesOK'
  BY <1>8 DEF DeleteBlob, Mishap
<1>9. ASSUME NEW e \in Erasers, ListSession(e) PROVE ErasesOK'
  BY <1>9 DEF ListSession
<1>10. ASSUME NEW e \in Erasers, DeleteArtifact(e) PROVE ErasesOK'
  <2>1. PICK p \in erase[e].todo : erase' = [erase EXCEPT ![e].todo = @ \ {p}]
    BY <1>10 DEF DeleteArtifact
  <2>2. /\ erase'[e].at = erase[e].at /\ erase'[e].todo = erase[e].todo \ {p}
        /\ \A g \in Erasers \ {e} : erase'[g] = erase[g]
    BY <2>1
  <2>3. DOMAIN erase' = Erasers /\ \A g \in Erasers : DOMAIN erase'[g] = {"at", "todo"}
    BY <2>1
  <2> QED
    BY <2>2, <2>3
<1>11. ASSUME NEW e \in Erasers, SessionDeleted(e) PROVE ErasesOK'
  BY <1>11 DEF SessionDeleted
<1>12. ASSUME NEW a \in Artifacts, StoreArtifact(a) PROVE ErasesOK'
  BY <1>12 DEF StoreArtifact, Written, LocalFiles, S3Object, AzureBlob
<1>13. CASE UNCHANGED libVars
  BY <1>13 DEF libVars
<1> HIDE DEF RecordsOK, ErasesOK
<1> QED
  BY <1>1, <1>2, <1>3, <1>4, <1>5, <1>6, <1>7, <1>8, <1>9, <1>10, <1>11, <1>12, <1>13
  DEF LibraryNext

LEMMA StepKeys ==
  ASSUME RecordsOK, KeysAnswered, OneKeyEach, BlobsUnderWay, LibraryNext \/ UNCHANGED libVars
  PROVE  (KeysAnswered /\ OneKeyEach)'
<1> USE LibraryAssumption DEF RecordsOK, UploadRecord, Documents, Absent, KeysAnswered,
         OneKeyEach, BlobsUnderWay
<1>0. ASSUME NEW u \in Uploads, UNCHANGED index, upload[u].at = "indexing",
             upload'[u].at = "answered", \A v \in Uploads \ {u} : upload'[v] = upload[v]
      PROVE  (KeysAnswered /\ OneKeyEach)'
  <2>1. Documents' = Documents /\ \A d \in Documents : index'[d] = index[d]
    BY <1>0
  <2>2. ASSUME NEW d \in Documents
        PROVE  /\ upload'[d].at = "answered"
               /\ index[d].key # 0 => /\ upload'[index[d].key].at = "answered"
                                      /\ upload'[index[d].key].blob \in {"failed", "stored"}
    <3>1. d \in Uploads \ {u} /\ (index[d].key # 0 => index[d].key \in Uploads \ {u})
      BY <1>0
    <3>2. /\ upload[d].at = "answered"
          /\ index[d].key # 0 => /\ upload[index[d].key].at = "answered"
                                 /\ upload[index[d].key].blob \in {"failed", "stored"}
      OBVIOUS
    <3> HIDE DEF RecordsOK, UploadRecord, Documents, Absent, KeysAnswered, OneKeyEach, BlobsUnderWay
    <3> QED
      BY <1>0, <3>1, <3>2
  <2> QED
    BY <2>1, <2>2
<1>1. ASSUME NEW u \in Uploads, StoreBlob(u) PROVE (KeysAnswered /\ OneKeyEach)'
  BY <1>1 DEF StoreBlob, Mishap
<1>2. ASSUME NEW u \in Uploads, StoreOnly(u) PROVE (KeysAnswered /\ OneKeyEach)'
  BY <1>2 DEF StoreOnly, Answer
<1>3. ASSUME NEW u \in Uploads, FindExisting(u) PROVE (KeysAnswered /\ OneKeyEach)'
  <2>1. PICK x \in Existing(u) :
          /\ index[x].key # 0 \/ Adopts(u, x)
          /\ index' = IF Adopts(u, x) THEN [index EXCEPT ![x].key = u] ELSE index
    BY <1>3 DEF FindExisting
  <2>2. x \in Uploads /\ index[x] # Absent /\ Documents \subseteq Uploads /\ upload[u].at = "indexing"
    BY <1>3, <2>1 DEF FindExisting, Looks, Existing
  <2>3. /\ upload'[u].at = "answered" /\ upload'[u].blob = upload[u].blob
        /\ \A v \in Uploads \ {u} : upload'[v] = upload[v]
    BY <1>3 DEF FindExisting, Answer
  <2>4. CASE ~Adopts(u, x)
    <3>1. index' = index
      BY <2>1, <2>4
    <3> QED
      BY <1>0, <2>2, <2>3, <3>1
  <2>5. CASE Adopts(u, x)
    <3>1. /\ index[x].key = 0 /\ upload[u].blob # "unconfigured"
          /\ index' = [index EXCEPT ![x].key = u]
      BY <2>1, <2>5 DEF Adopts
    <3>2. upload[u].blob \in {"failed", "stored"}
      BY <2>2, <3>1
    <3> QED
      BY <2>2, <2>3, <3>1, <3>2
  <2> QED
    BY <2>4, <2>5
<1>4. ASSUME NEW u \in Uploads, KeepBinary(u) PROVE (KeysAnswered /\ OneKeyEach)'
  <2>1. UNCHANGED index /\ upload[u].at = "indexing" /\ upload' = [upload EXCEPT ![u].at = "answered"]
    BY <1>4 DEF KeepBinary, Proceeds, Answer
  <2> QED
    BY <1>0, <2>1
<1>5. ASSUME NEW u \in Uploads, IndexDocument(u) PROVE (KeysAnswered /\ OneKeyEach)'
  <2>1. /\ upload[u].at = "indexing" /\ upload' = [upload EXCEPT ![u].at = "answered"]
        /\ index' = [index EXCEPT ![u] = [name |-> upload[u].file.name, key |-> KeyOf(u)]]
    BY <1>5 DEF IndexDocument, Proceeds, Answer
  <2>2. KeyOf(u) \in {0, u} /\ (KeyOf(u) # 0 => upload[u].blob = "stored")
    BY DEF KeyOf
  <2>3. /\ upload'[u].at = "answered" /\ upload'[u].blob = upload[u].blob /\ index'[u].key = KeyOf(u)
        /\ \A d \in Uploads \ {u} : upload'[d] = upload[d] /\ index'[d] = index[d]
    BY <2>1
  <2>4. Documents' \subseteq Documents \cup {u}
    BY <2>3
  <2>5. \A d \in Documents : d \in Uploads \ {u} /\ (index[d].key # 0 => index[d].key \in Uploads \ {u})
    BY <2>1
  <2>6. \A d \in Documents' : d = u \/ (d \in Documents /\ index'[d] = index[d] /\ upload'[d] = upload[d])
    BY <2>3, <2>4, <2>5
  <2>9. \A d \in Documents : /\ upload[d].at = "answered"
                             /\ index[d].key # 0 => /\ upload[index[d].key].at = "answered"
                                                    /\ upload[index[d].key].blob \in {"failed", "stored"}
    OBVIOUS
  <2> HIDE DEF RecordsOK, UploadRecord, Documents, Absent, BlobsUnderWay
  <2>7. ASSUME NEW d \in Documents'
        PROVE  /\ upload'[d].at = "answered"
               /\ index'[d].key # 0 => /\ upload'[index'[d].key].at = "answered"
                                       /\ upload'[index'[d].key].blob \in {"failed", "stored"}
    <3>1. CASE d = u
      BY <2>2, <2>3, <3>1
    <3>2. CASE d \in Documents /\ index'[d] = index[d] /\ upload'[d] = upload[d]
      <4> DEFINE k == index[d].key
      <4>1. d \in Uploads \ {u} /\ (k # 0 => k \in Uploads \ {u})
        BY <2>5, <3>2
      <4>2. k # 0 => upload'[k] = upload[k]
        BY <2>3, <4>1
      <4> QED
        BY <2>9, <3>2, <4>2
    <3> QED
      BY <2>6, <3>1, <3>2
  <2>8. OneKeyEach'
    BY <2>2, <2>3, <2>5, <2>6
  <2> QED
    BY <2>7, <2>8
<1>6. ASSUME NEW u \in Uploads, RefuseUpload(u) PROVE (KeysAnswered /\ OneKeyEach)'
  BY <1>6 DEF RefuseUpload, Mishap, Answer
<1>7. ASSUME NEW e \in Erasers, NEW d \in Uploads, NEW both \in BOOLEAN,
             DeleteDocument(e, d, both) PROVE (KeysAnswered /\ OneKeyEach)'
  <2>1. upload' = upload /\ index' = [index EXCEPT ![d] = Absent]
    BY <1>7 DEF DeleteDocument
  <2>2. Documents' \subseteq Documents /\ \A x \in Documents' : index'[x] = index[x]
    BY <2>1
  <2> HIDE DEF RecordsOK, UploadRecord, Documents, Absent, BlobsUnderWay
  <2>3. KeysAnswered'
    BY <2>1, <2>2
  <2>4. OneKeyEach'
    BY <2>2
  <2> QED
    BY <2>3, <2>4
<1>8. ASSUME NEW e \in Erasers, DeleteBlob(e) PROVE (KeysAnswered /\ OneKeyEach)'
  BY <1>8 DEF DeleteBlob, Mishap
<1>9. ASSUME NEW e \in Erasers, ListSession(e) PROVE (KeysAnswered /\ OneKeyEach)'
  BY <1>9 DEF ListSession
<1>10. ASSUME NEW e \in Erasers, DeleteArtifact(e) PROVE (KeysAnswered /\ OneKeyEach)'
  BY <1>10 DEF DeleteArtifact, Removed
<1>11. ASSUME NEW e \in Erasers, SessionDeleted(e) PROVE (KeysAnswered /\ OneKeyEach)'
  BY <1>11 DEF SessionDeleted
<1>12. ASSUME NEW a \in Artifacts, StoreArtifact(a) PROVE (KeysAnswered /\ OneKeyEach)'
  <2> HIDE DEF RecordsOK, UploadRecord, Documents, Absent, KeysAnswered, OneKeyEach, BlobsUnderWay
  <2>1. upload' = upload /\ index' = index
    BY <1>12 DEF StoreArtifact
  <2>2. KeysAnswered'
    BY <2>1 DEF KeysAnswered, Documents
  <2>3. OneKeyEach'
    BY <2>1 DEF OneKeyEach, Documents
  <2> QED
    BY <2>2, <2>3
<1>13. CASE UNCHANGED libVars
  BY <1>13 DEF libVars
<1> HIDE DEF RecordsOK, UploadRecord, Documents, Absent, KeysAnswered, OneKeyEach, BlobsUnderWay
<1> QED
  BY <1>1, <1>2, <1>3, <1>4, <1>5, <1>6, <1>7, <1>8, <1>9, <1>10, <1>11, <1>12, <1>13
  DEF LibraryNext

LEMMA StepDoomed ==
  ASSUME RecordsOK, ErasesOK, KeysAnswered, OneKeyEach, DoomedBlobs,
         LibraryNext \/ UNCHANGED libVars
  PROVE  DoomedBlobs'
<1> USE LibraryAssumption DEF RecordsOK, UploadRecord, ErasesOK, Documents, Absent, KeysAnswered,
         OneKeyEach, DoomedBlobs
<1>1. ASSUME NEW u \in Uploads, StoreBlob(u) PROVE DoomedBlobs'
  BY <1>1 DEF StoreBlob, Mishap
<1>2. ASSUME NEW u \in Uploads, StoreOnly(u) PROVE DoomedBlobs'
  BY <1>2 DEF StoreOnly, Answer
<1>3. ASSUME NEW u \in Uploads, FindExisting(u) PROVE DoomedBlobs'
  BY <1>3 DEF FindExisting, Looks, Answer, Adopts, Existing
<1>4. ASSUME NEW u \in Uploads, KeepBinary(u) PROVE DoomedBlobs'
  BY <1>4 DEF KeepBinary, Proceeds, Looks, Mishap, Answer
<1>5. ASSUME NEW u \in Uploads, IndexDocument(u) PROVE DoomedBlobs'
  BY <1>5 DEF IndexDocument, Proceeds, Looks, Mishap, Answer, Existing, KeyOf
<1>6. ASSUME NEW u \in Uploads, RefuseUpload(u) PROVE DoomedBlobs'
  BY <1>6 DEF RefuseUpload, Mishap, Answer
<1>7. ASSUME NEW e \in Erasers, NEW d \in Uploads, NEW both \in BOOLEAN,
             DeleteDocument(e, d, both) PROVE DoomedBlobs'
  BY <1>7 DEF DeleteDocument
<1>8. ASSUME NEW e \in Erasers, DeleteBlob(e) PROVE DoomedBlobs'
  BY <1>8 DEF DeleteBlob, Mishap
<1>9. ASSUME NEW e \in Erasers, ListSession(e) PROVE DoomedBlobs'
  BY <1>9 DEF ListSession
<1>10. ASSUME NEW e \in Erasers, DeleteArtifact(e) PROVE DoomedBlobs'
  BY <1>10 DEF DeleteArtifact, Removed
<1>11. ASSUME NEW e \in Erasers, SessionDeleted(e) PROVE DoomedBlobs'
  BY <1>11 DEF SessionDeleted
<1>12. ASSUME NEW a \in Artifacts, StoreArtifact(a) PROVE DoomedBlobs'
  BY <1>12 DEF StoreArtifact, Written, LocalFiles, S3Object, AzureBlob
<1>13. CASE UNCHANGED libVars
  BY <1>13 DEF libVars
<1> HIDE DEF RecordsOK, UploadRecord, ErasesOK, Documents, Absent, KeysAnswered, OneKeyEach,
         DoomedBlobs
<1> QED
  BY <1>1, <1>2, <1>3, <1>4, <1>5, <1>6, <1>7, <1>8, <1>9, <1>10, <1>11, <1>12, <1>13
  DEF LibraryNext

LEMMA StepUnderWay ==
  ASSUME RecordsOK, ErasesOK, DoomedBlobs, BlobsUnderWay, LibraryNext \/ UNCHANGED libVars
  PROVE  BlobsUnderWay'
<1> USE LibraryAssumption DEF RecordsOK, UploadRecord, ErasesOK, DoomedBlobs, BlobsUnderWay
<1>1. ASSUME NEW u \in Uploads, StoreBlob(u) PROVE BlobsUnderWay'
  BY <1>1 DEF StoreBlob, Mishap
<1>2. ASSUME NEW u \in Uploads, StoreOnly(u) PROVE BlobsUnderWay'
  BY <1>2 DEF StoreOnly, Answer
<1>3. ASSUME NEW u \in Uploads, FindExisting(u) PROVE BlobsUnderWay'
  BY <1>3 DEF FindExisting, Looks, Answer, Adopts, Existing
<1>4. ASSUME NEW u \in Uploads, KeepBinary(u) PROVE BlobsUnderWay'
  BY <1>4 DEF KeepBinary, Proceeds, Looks, Mishap, Answer
<1>5. ASSUME NEW u \in Uploads, IndexDocument(u) PROVE BlobsUnderWay'
  BY <1>5 DEF IndexDocument, Proceeds, Looks, Mishap, Answer, Existing, KeyOf
<1>6. ASSUME NEW u \in Uploads, RefuseUpload(u) PROVE BlobsUnderWay'
  BY <1>6 DEF RefuseUpload, Mishap, Answer
<1>7. ASSUME NEW e \in Erasers, NEW d \in Uploads, NEW both \in BOOLEAN,
             DeleteDocument(e, d, both) PROVE BlobsUnderWay'
  BY <1>7 DEF DeleteDocument
<1>8. ASSUME NEW e \in Erasers, DeleteBlob(e) PROVE BlobsUnderWay'
  BY <1>8 DEF DeleteBlob, Mishap
<1>9. ASSUME NEW e \in Erasers, ListSession(e) PROVE BlobsUnderWay'
  BY <1>9 DEF ListSession
<1>10. ASSUME NEW e \in Erasers, DeleteArtifact(e) PROVE BlobsUnderWay'
  BY <1>10 DEF DeleteArtifact, Removed
<1>11. ASSUME NEW e \in Erasers, SessionDeleted(e) PROVE BlobsUnderWay'
  BY <1>11 DEF SessionDeleted
<1>12. ASSUME NEW a \in Artifacts, StoreArtifact(a) PROVE BlobsUnderWay'
  BY <1>12 DEF StoreArtifact, Written, LocalFiles, S3Object, AzureBlob
<1>13. CASE UNCHANGED libVars
  BY <1>13 DEF libVars
<1> HIDE DEF RecordsOK, UploadRecord, ErasesOK, DoomedBlobs, BlobsUnderWay
<1> QED
  BY <1>1, <1>2, <1>3, <1>4, <1>5, <1>6, <1>7, <1>8, <1>9, <1>10, <1>11, <1>12, <1>13
  DEF LibraryNext

LEMMA StepLead ==
  ASSUME RecordsOK, KeysAnswered, DoomedBlobs, BlobsUnderWay, KeysLead,
         LibraryNext \/ UNCHANGED libVars
  PROVE  KeysLead'
<1> USE LibraryAssumption DEF RecordsOK, UploadRecord, Documents, Absent, KeysAnswered,
         DoomedBlobs, BlobsUnderWay, KeysLead
<1>1. ASSUME NEW u \in Uploads, StoreBlob(u) PROVE KeysLead'
  BY <1>1 DEF StoreBlob, Mishap
<1>2. ASSUME NEW u \in Uploads, StoreOnly(u) PROVE KeysLead'
  BY <1>2 DEF StoreOnly, Answer
<1>3. ASSUME NEW u \in Uploads, FindExisting(u) PROVE KeysLead'
  <2>1. PICK x \in Existing(u) :
          /\ index[x].key # 0 \/ Adopts(u, x)
          /\ index' = IF Adopts(u, x) THEN [index EXCEPT ![x].key = u] ELSE index
    BY <1>3 DEF FindExisting
  <2>2. x \in Uploads /\ index[x] # Absent /\ Documents \subseteq Uploads /\ upload[u].at = "indexing"
    BY <1>3, <2>1 DEF FindExisting, Looks, Existing
  <2>3. /\ upload'[u].at = "answered" /\ upload'[u].blob = upload[u].blob
        /\ \A v \in Uploads \ {u} : upload'[v] = upload[v]
    BY <1>3 DEF FindExisting, Answer
  <2>4. blobs' = blobs
    BY <1>3 DEF FindExisting
  <2>5. CASE ~Adopts(u, x)
    BY <2>1, <2>2, <2>3, <2>4, <2>5
  <2>6. CASE Adopts(u, x)
    <3>1. /\ index[x].key = 0 /\ upload[u].blob # "unconfigured"
          /\ index' = [index EXCEPT ![x].key = u]
      BY <2>1, <2>6 DEF Adopts
    <3>2. upload[u].blob = "failed" \/ u \in blobs
      BY <2>2, <3>1
    <3> QED
      BY <2>2, <2>3, <2>4, <3>1, <3>2
  <2> QED
    BY <2>5, <2>6
<1>4. ASSUME NEW u \in Uploads, KeepBinary(u) PROVE KeysLead'
  BY <1>4 DEF KeepBinary, Proceeds, Looks, Mishap, Answer
<1>5. ASSUME NEW u \in Uploads, IndexDocument(u) PROVE KeysLead'
  BY <1>5 DEF IndexDocument, Proceeds, Looks, Mishap, Answer, Existing, KeyOf
<1>6. ASSUME NEW u \in Uploads, RefuseUpload(u) PROVE KeysLead'
  BY <1>6 DEF RefuseUpload, Mishap, Answer
<1>7. ASSUME NEW e \in Erasers, NEW d \in Uploads, NEW both \in BOOLEAN,
             DeleteDocument(e, d, both) PROVE KeysLead'
  BY <1>7 DEF DeleteDocument
<1>8. ASSUME NEW e \in Erasers, DeleteBlob(e) PROVE KeysLead'
  BY <1>8 DEF DeleteBlob, Mishap
<1>9. ASSUME NEW e \in Erasers, ListSession(e) PROVE KeysLead'
  BY <1>9 DEF ListSession
<1>10. ASSUME NEW e \in Erasers, DeleteArtifact(e) PROVE KeysLead'
  BY <1>10 DEF DeleteArtifact, Removed
<1>11. ASSUME NEW e \in Erasers, SessionDeleted(e) PROVE KeysLead'
  BY <1>11 DEF SessionDeleted
<1>12. ASSUME NEW a \in Artifacts, StoreArtifact(a) PROVE KeysLead'
  BY <1>12 DEF StoreArtifact, Written, LocalFiles, S3Object, AzureBlob
<1>13. CASE UNCHANGED libVars
  BY <1>13 DEF libVars
<1> HIDE DEF RecordsOK, UploadRecord, Documents, Absent, KeysAnswered, DoomedBlobs,
         BlobsUnderWay, KeysLead
<1> QED
  BY <1>1, <1>2, <1>3, <1>4, <1>5, <1>6, <1>7, <1>8, <1>9, <1>10, <1>11, <1>12, <1>13
  DEF LibraryNext

LEMMA StepNames ==
  ASSUME RecordsOK, OneDocumentPerName, LibraryNext \/ UNCHANGED libVars
  PROVE  OneDocumentPerName'
<1> USE LibraryAssumption DEF RecordsOK, UploadRecord, Documents, Absent, OneDocumentPerName
<1>1. ASSUME NEW u \in Uploads, StoreBlob(u) PROVE OneDocumentPerName'
  BY <1>1 DEF StoreBlob, Mishap
<1>2. ASSUME NEW u \in Uploads, StoreOnly(u) PROVE OneDocumentPerName'
  BY <1>2 DEF StoreOnly, Answer
<1>3. ASSUME NEW u \in Uploads, FindExisting(u) PROVE OneDocumentPerName'
  BY <1>3 DEF FindExisting, Looks, Answer, Adopts, Existing
<1>4. ASSUME NEW u \in Uploads, KeepBinary(u) PROVE OneDocumentPerName'
  BY <1>4 DEF KeepBinary, Proceeds, Looks, Mishap, Answer
<1>5. ASSUME NEW u \in Uploads, IndexDocument(u) PROVE OneDocumentPerName'
  <2>1. /\ index' = [index EXCEPT ![u] = [name |-> upload[u].file.name, key |-> KeyOf(u)]]
        /\ excused \subseteq excused' /\ upload' = [upload EXCEPT ![u].at = "answered"]
        /\ u \in excused' \/ Existing(u) = {}
    BY <1>5 DEF IndexDocument, Proceeds, Answer
  <2>2. \A d \in Uploads \ {u} : index'[d] = index[d]
    BY <2>1
  <2>3. index'[u].name = upload[u].file.name
    BY <2>1
  <2>4. ASSUME NEW d \in Documents', d # u, index'[d].name = index'[u].name
        PROVE  u \in excused'
    BY <2>1, <2>2, <2>3, <2>4 DEF Existing
  <2>5. ASSUME NEW d \in Documents', NEW f \in Documents', d # f, d # u, f # u,
               index'[d].name = index'[f].name
        PROVE  {d, f} \cap excused' # {}
    <3>1. d \in Documents /\ f \in Documents /\ index[d].name = index[f].name
      BY <2>2, <2>5
    <3>2. {d, f} \cap excused # {}
      BY <2>5, <3>1
    <3> QED
      BY <2>1, <3>2
  <2> QED
    BY <2>4, <2>5
<1>6. ASSUME NEW u \in Uploads, RefuseUpload(u) PROVE OneDocumentPerName'
  BY <1>6 DEF RefuseUpload, Mishap, Answer
<1>7. ASSUME NEW e \in Erasers, NEW d \in Uploads, NEW both \in BOOLEAN, DeleteDocument(e, d, both)
      PROVE  OneDocumentPerName'
  <2>1. index' = [index EXCEPT ![d] = Absent] /\ excused' = excused
    BY <1>7 DEF DeleteDocument
  <2>2. Documents' = Documents \ {d} /\ \A x \in Documents' : index'[x] = index[x]
    BY <2>1
  <2> QED
    BY <2>1, <2>2
<1>8. ASSUME NEW e \in Erasers, DeleteBlob(e) PROVE OneDocumentPerName'
  BY <1>8 DEF DeleteBlob, Mishap
<1>9. ASSUME NEW e \in Erasers, ListSession(e) PROVE OneDocumentPerName'
  BY <1>9 DEF ListSession
<1>10. ASSUME NEW e \in Erasers, DeleteArtifact(e) PROVE OneDocumentPerName'
  BY <1>10 DEF DeleteArtifact, Removed
<1>11. ASSUME NEW e \in Erasers, SessionDeleted(e) PROVE OneDocumentPerName'
  BY <1>11 DEF SessionDeleted
<1>12. ASSUME NEW a \in Artifacts, StoreArtifact(a) PROVE OneDocumentPerName'
  BY <1>12 DEF StoreArtifact, Written, LocalFiles, S3Object, AzureBlob
<1>13. CASE UNCHANGED libVars
  BY <1>13 DEF libVars
<1> HIDE DEF RecordsOK, UploadRecord, Documents, Absent, OneDocumentPerName
<1> QED
  BY <1>1, <1>2, <1>3, <1>4, <1>5, <1>6, <1>7, <1>8, <1>9, <1>10, <1>11, <1>12, <1>13
  DEF LibraryNext

LEMMA StepMetadata ==
  ASSUME RecordsOK, MetadataFollows, LibraryNext \/ UNCHANGED libVars
  PROVE  MetadataFollows'
<1> USE LibraryAssumption DEF RecordsOK, MetadataFollows
<1>1. ASSUME NEW u \in Uploads, StoreBlob(u) PROVE MetadataFollows'
  BY <1>1 DEF StoreBlob, Mishap
<1>2. ASSUME NEW u \in Uploads, StoreOnly(u) PROVE MetadataFollows'
  BY <1>2 DEF StoreOnly, Answer
<1>3. ASSUME NEW u \in Uploads, FindExisting(u) PROVE MetadataFollows'
  BY <1>3 DEF FindExisting, Looks, Answer, Adopts, Existing
<1>4. ASSUME NEW u \in Uploads, KeepBinary(u) PROVE MetadataFollows'
  BY <1>4 DEF KeepBinary, Proceeds, Looks, Mishap, Answer
<1>5. ASSUME NEW u \in Uploads, IndexDocument(u) PROVE MetadataFollows'
  BY <1>5 DEF IndexDocument, Proceeds, Looks, Mishap, Answer, Existing, KeyOf
<1>6. ASSUME NEW u \in Uploads, RefuseUpload(u) PROVE MetadataFollows'
  BY <1>6 DEF RefuseUpload, Mishap, Answer
<1>7. ASSUME NEW e \in Erasers, NEW d \in Uploads, NEW both \in BOOLEAN,
             DeleteDocument(e, d, both) PROVE MetadataFollows'
  BY <1>7 DEF DeleteDocument
<1>8. ASSUME NEW e \in Erasers, DeleteBlob(e) PROVE MetadataFollows'
  BY <1>8 DEF DeleteBlob, Mishap
<1>9. ASSUME NEW e \in Erasers, ListSession(e) PROVE MetadataFollows'
  BY <1>9 DEF ListSession
<1>10. ASSUME NEW e \in Erasers, DeleteArtifact(e) PROVE MetadataFollows'
  BY <1>10 DEF DeleteArtifact, Removed
<1>11. ASSUME NEW e \in Erasers, SessionDeleted(e) PROVE MetadataFollows'
  BY <1>11 DEF SessionDeleted
<1>12. ASSUME NEW a \in Artifacts, StoreArtifact(a) PROVE MetadataFollows'
  BY <1>12 DEF StoreArtifact, Written, LocalFiles, S3Object, AzureBlob
<1>13. CASE UNCHANGED libVars
  BY <1>13 DEF libVars
<1> HIDE DEF RecordsOK, MetadataFollows
<1> QED
  BY <1>1, <1>2, <1>3, <1>4, <1>5, <1>6, <1>7, <1>8, <1>9, <1>10, <1>11, <1>12, <1>13
  DEF LibraryNext

-----------------------------------------------------------------------------
LEMMA LibraryIInvInit == LibraryInit => LibraryIInv
<1> SUFFICES ASSUME LibraryInit PROVE LibraryIInv
  OBVIOUS
<1>1. Documents = {}
  BY DEF LibraryInit, Documents
<1>2. \A u \in Uploads : upload[u].at = "new" /\ upload[u].blob = "none" /\ upload[u].file \in Files
  BY DEF LibraryInit
<1>3. RecordsOK
  <2>1. upload \in [Uploads -> UploadRecord]
    BY DEF LibraryInit, UploadRecord
  <2>2. index \in [Uploads -> [name : {f.name : f \in Files} \cup {"none"}, key : {0} \cup Uploads]]
    BY DEF LibraryInit, Absent
  <2>3. 0 \in 0..MaxMishaps
    BY LibraryAssumption
  <2> QED
    BY <2>1, <2>2, <2>3 DEF LibraryInit, RecordsOK
<1>4. \A e \in Erasers : erase[e].at = "new"
  BY DEF LibraryInit
<1>5. ErasesOK
  BY <1>4 DEF LibraryInit, ErasesOK
<1>6. KeysAnswered /\ OneKeyEach /\ DoomedBlobs /\ BlobsUnderWay
  BY <1>1, <1>2, <1>4 DEF KeysAnswered, OneKeyEach, DoomedBlobs, BlobsUnderWay
<1>7. KeysLead /\ OneDocumentPerName /\ MetadataFollows
  BY <1>1 DEF LibraryInit, KeysLead, OneDocumentPerName, MetadataFollows
<1>8. LibraryTypeOK
  BY <1>3, <1>5 DEF RecordsOK, UploadRecord, ErasesOK, LibraryTypeOK
<1> QED
  BY <1>3, <1>5, <1>6, <1>7, <1>8 DEF LibraryIInv, LibraryInv

LEMMA LibraryIInvStep == LibraryIInv /\ [LibraryNext]_libVars => LibraryIInv'
<1> SUFFICES ASSUME LibraryIInv, LibraryNext \/ UNCHANGED libVars PROVE LibraryIInv'
  OBVIOUS
<1>1. /\ RecordsOK /\ ErasesOK /\ KeysAnswered /\ OneKeyEach /\ DoomedBlobs /\ BlobsUnderWay
      /\ KeysLead /\ OneDocumentPerName /\ MetadataFollows
  BY DEF LibraryIInv, LibraryInv
<1>2. RecordsOK' /\ ErasesOK'
  BY <1>1, StepRecords, StepErases
<1>3. KeysAnswered' /\ OneKeyEach' /\ DoomedBlobs' /\ BlobsUnderWay'
  BY <1>1, StepKeys, StepDoomed, StepUnderWay
<1>4. KeysLead' /\ OneDocumentPerName' /\ MetadataFollows'
  BY <1>1, StepLead, StepNames, StepMetadata
<1>5. LibraryTypeOK'
  BY <1>2 DEF RecordsOK, UploadRecord, ErasesOK, LibraryTypeOK
<1> QED
  BY <1>2, <1>3, <1>4, <1>5 DEF LibraryIInv, LibraryInv

\* However uploads, deletions and the index interleave: a storage key leads to its blob
\* unless the blob could not be stored, a name has one document unless the look-up was
\* forced or failed, and no metadata file of an artifact outlives the artifact.
THEOREM LibrarySound == LibrarySpec => []LibraryInv
<1>1. LibraryIInv => LibraryInv
  BY DEF LibraryIInv
<1> QED
  BY LibraryIInvInit, LibraryIInvStep, <1>1, PTL DEF LibrarySpec

-----------------------------------------------------------------------------
(***************************************************************************)
(* Workflows, for every number of workflows and clients.                         *)
(*                                                                          *)
(* Only ingests come near the checkout.  A partial checkout belongs to an       *)
(* ingest that is cloning, so one that starts meanwhile overlaps with it; and    *)
(* without an overlap nothing takes the checkout away.                          *)
(***************************************************************************)

Busy == {"cloning", "partial", "updating", "indexing"}

\* The ingests that a thread works for, and no agent, are at one of these stages.
OnlyIngestsAreBusy == \A f \in Flows : flow[f].at \in Busy => flow[f].kind = "ingest"

\* Two that are busy at once know of each other.
OverlapIsKnown ==
  \A f, g \in Flows : f # g /\ flow[f].at \in Busy /\ flow[g].at \in Busy => f \in overlapped

\* Whose partial checkout it is is still cloning.
PartialIsCloned == \A f \in Flows : checkout = f => flow[f].at = "partial"

\* What an ingest that is alone updates or indexes is there.
AloneIsWhole ==
  \A f \in Flows : flow[f].at \in {"updating", "indexing"} /\ f \notin overlapped => checkout = WholeCheckout

\* A workflow is only forgotten with a terminal status, which it has when it has ended or
\* was cancelled.
RecordTells ==
  \A f \in Flows : /\ Active(f) /\ record[f] \in {"none", "cancelled"} => f \in cancels
                   /\ Active(f) => record[f] # "complete"

FlowIInv == /\ WorkflowsTypeOK /\ OnlyIngestsAreBusy /\ OverlapIsKnown /\ PartialIsCloned
        /\ AloneIsWhole /\ RecordTells

-----------------------------------------------------------------------------
LEMMA Constants == /\ \A f \in Flows : f \in Nat /\ f # NoCheckout /\ f # WholeCheckout
                   /\ MaxReports \in Nat /\ MaxCommands \in Nat
  BY WorkflowsAssumption DEF WholeCheckout, NoCheckout

\* The handler of a workflow.
Handler == [kind : {"ingest", "agent"}, client : Clients \cup {Nobody}, at : Stages,
            reports : 0..2 * MaxReports, retried : BOOLEAN]

LEMMA FlowType == WorkflowsTypeOK => flow \in [Flows -> Handler]
  BY DEF WorkflowsTypeOK, Handler

LEMMA FlowIInvInit == WorkflowsInit => FlowIInv
<1> SUFFICES ASSUME WorkflowsInit PROVE FlowIInv
  OBVIOUS
<1>1. [kind : {"ingest", "agent"}, client : {Nobody}, at : {"none"}, reports : {0}, retried : {FALSE}] \subseteq Handler
  <2>1. 0 \in 0..2 * MaxReports
    BY Constants
  <2> QED
    BY <2>1 DEF Handler, Stages
<1>2. flow \in [Flows -> Handler] /\ \A f \in Flows : flow[f].at = "none"
  BY <1>1 DEF WorkflowsInit
<1>3. WorkflowsTypeOK
  BY <1>2, Constants DEF WorkflowsInit, WorkflowsTypeOK, Terminal, Handler
<1>4. OnlyIngestsAreBusy /\ OverlapIsKnown /\ AloneIsWhole /\ RecordTells
  BY <1>2 DEF OnlyIngestsAreBusy, OverlapIsKnown, AloneIsWhole, RecordTells, Busy, Active
<1>5. PartialIsCloned
  BY Constants DEF WorkflowsInit, PartialIsCloned
<1> QED
  BY <1>3, <1>4, <1>5 DEF FlowIInv

-----------------------------------------------------------------------------
LEMMA StepType == WorkflowsTypeOK /\ [WorkflowsNext]_flowVars => WorkflowsTypeOK'
<1> SUFFICES ASSUME WorkflowsTypeOK, [WorkflowsNext]_flowVars PROVE WorkflowsTypeOK'
  OBVIOUS
<1> USE Constants
<1>0. flow \in [Flows -> Handler]
  BY FlowType
<1>a. ASSUME NEW f \in Flows, NEW r \in Handler, flow' = [flow EXCEPT ![f] = r] PROVE flow' \in [Flows -> Handler]
  BY <1>0, <1>a
<1>b. ASSUME NEW f \in Flows, NEW s \in Stages, flow' = [flow EXCEPT ![f].at = s] PROVE flow' \in [Flows -> Handler]
  <2>1. [flow[f] EXCEPT !.at = s] \in Handler
    BY <1>0 DEF Handler
  <2> QED
    BY <1>b, <2>1, <1>0
<1>c. ASSUME NEW f \in Flows, Finish(f) PROVE flow' \in [Flows -> Handler] /\ queue' \in [Flows -> Seq({Report, EndMark})]
  <2>1. flow' \in [Flows -> Handler]
    BY <1>b, <1>c DEF Finish, Stages
  <2>2. queue' \in [Flows -> Seq({Report, EndMark})]
    BY <1>c DEF WorkflowsTypeOK, Finish
  <2> QED
    BY <2>1, <2>2
<1>1. ASSUME NEW c \in Clients, Connect(c) \/ Disconnect(c) PROVE WorkflowsTypeOK'
  BY <1>1 DEF WorkflowsTypeOK, Connect, Disconnect, Command, Cleaned
<1>2. ASSUME NEW c \in Clients, NEW f \in Flows, Start(f, c) PROVE WorkflowsTypeOK'
  <2>1. [flow[f] EXCEPT !.at = "new", !.client = c] \in Handler
    BY <1>0 DEF Handler, Stages
  <2>2. flow' \in [Flows -> Handler]
    BY <1>0, <1>2, <2>1 DEF Start
  <2> QED
    BY <1>2, <2>2 DEF WorkflowsTypeOK, Handler, Start, Command
<1>3. ASSUME NEW c \in Clients, NEW f \in Flows,
             Cancel(f, c) \/ Reconnect(f, c) \/ \E s \in {"paused", "running"} : PauseOrResume(f, c, s)
      PROVE  WorkflowsTypeOK'
  <2>1. /\ commands' \in 0..MaxCommands /\ UNCHANGED <<online, flow, queue, checkout, overlapped>>
        /\ cancels' \subseteq Flows
    BY <1>3 DEF WorkflowsTypeOK, Cancel, Reconnect, PauseOrResume, Command
  <2>2. record' \in [Flows -> {"none", "running", "paused"} \cup Terminal]
    BY <1>3 DEF WorkflowsTypeOK, Cancel, Reconnect, PauseOrResume, Terminal
  <2>3. owner' \in [Flows -> Clients \cup {Nobody}]
    BY <1>3 DEF WorkflowsTypeOK, Cancel, Reconnect, PauseOrResume
  <2> QED
    BY <2>1, <2>2, <2>3 DEF WorkflowsTypeOK
<1>4. ASSUME NEW f \in Flows, Begin(f) PROVE WorkflowsTypeOK'
  <2>1. flow' \in [Flows -> Handler]
    BY <1>b, <1>4 DEF Begin, Goto, Stages
  <2>2. overlapped' \subseteq Flows
    BY <1>4 DEF WorkflowsTypeOK, Begin, Others
  <2> QED
    BY <1>4, <2>1, <2>2 DEF WorkflowsTypeOK, Begin, Handler
<1>5. ASSUME NEW f \in Flows, CloneStarts(f) \/ CloneDone(f) \/ UpdateDone(f) \/ AgentStarts(f)
      PROVE  WorkflowsTypeOK'
  <2>1. flow' \in [Flows -> Handler]
    BY <1>b, <1>5 DEF CloneStarts, CloneDone, UpdateDone, AgentStarts, Succeeds, Goto, Stages
  <2>2. UNCHANGED queue /\ checkout' \in {checkout, f, WholeCheckout} /\ Quiet
    BY <1>5 DEF CloneStarts, CloneDone, UpdateDone, AgentStarts, Succeeds
  <2> QED
    BY <2>1, <2>2 DEF WorkflowsTypeOK, Quiet, Handler
<1>6. ASSUME NEW f \in Flows, BeginFails(f) \/ UpdateFails(f) \/ IndexEnds(f) PROVE WorkflowsTypeOK'
  BY <1>c, <1>6 DEF WorkflowsTypeOK, BeginFails, UpdateFails, IndexEnds, Quiet, Handler
<1>7. ASSUME NEW f \in Flows, CloneFails(f) PROVE WorkflowsTypeOK'
  <2>1. CASE Finish(f)
    BY <1>c, <1>7, <2>1 DEF WorkflowsTypeOK, CloneFails, Quiet, Handler
  <2>2. CASE flow' = [flow EXCEPT ![f].at = "cloning", ![f].retried = TRUE] /\ UNCHANGED queue
    <3>1. [flow[f] EXCEPT !.at = "cloning", !.retried = TRUE] \in Handler
      BY <1>0 DEF Handler, Stages
    <3>2. flow' \in [Flows -> Handler]
      BY <1>0, <2>2, <3>1
    <3> QED
      BY <1>7, <2>2, <3>2 DEF WorkflowsTypeOK, CloneFails, Quiet, Handler
  <2> QED
    BY <1>7, <2>1, <2>2 DEF CloneFails
<1>8. ASSUME NEW f \in Flows, Reports(f) PROVE WorkflowsTypeOK'
  <2>1. flow[f].reports \in 0..2 * MaxReports
    BY <1>0 DEF Handler
  <2>2. flow[f].reports + 1 \in 0..2 * MaxReports
    BY <1>8, <2>1 DEF Reports
  <2>3. [flow[f] EXCEPT !.reports = flow[f].reports + 1] \in Handler
    BY <1>0, <2>2 DEF Handler
  <2>4. flow' \in [Flows -> Handler]
    BY <1>0, <1>8, <2>3 DEF Reports
  <2>5. queue' \in [Flows -> Seq({Report, EndMark})]
    BY <1>8 DEF WorkflowsTypeOK, Reports, Bridge
  <2> QED
    BY <1>8, <2>4, <2>5 DEF WorkflowsTypeOK, Reports, Quiet, Handler
<1>9. ASSUME NEW f \in Flows, ConsumeReport(f) PROVE WorkflowsTypeOK'
  BY <1>9 DEF WorkflowsTypeOK, ConsumeReport, Quiet
<1>10. ASSUME NEW f \in Flows, CloseIngest(f) \/ AgentEnds(f) PROVE WorkflowsTypeOK'
  <2>1. flow' \in [Flows -> Handler]
    BY <1>b, <1>10 DEF CloseIngest, AgentEnds, Complete, Stages
  <2>2. queue' \in [Flows -> Seq({Report, EndMark})]
    <3>1. <<>> \in Seq({Report, EndMark}) /\ queue \in [Flows -> Seq({Report, EndMark})]
      BY DEF WorkflowsTypeOK
    <3> QED
      BY <1>10, <3>1 DEF CloseIngest, AgentEnds
  <2>3. record' \in [Flows -> {"none", "running", "paused"} \cup Terminal]
    BY <1>10 DEF WorkflowsTypeOK, CloseIngest, AgentEnds, Complete, Terminal
  <2> QED
    BY <1>10, <2>1, <2>2, <2>3 DEF WorkflowsTypeOK, CloseIngest, AgentEnds, Handler
<1>11. CASE UNCHANGED flowVars
  BY <1>11 DEF WorkflowsTypeOK, flowVars
<1> QED
  BY <1>1, <1>2, <1>3, <1>4, <1>5, <1>6, <1>7, <1>8, <1>9, <1>10, <1>11 DEF WorkflowsNext, Runs

-----------------------------------------------------------------------------
(* What a step does to the stages: at most one workflow moves.               *)

\* A workflow moves from one stage to another; the overlap is untouched.
Moves(f, from, to) ==
  /\ flow[f].at \in from /\ flow'[f].at \in to
  /\ flow'[f].kind = flow[f].kind
  /\ \A g \in Flows \ {f} : flow'[g] = flow[g]
  /\ overlapped' = overlapped

LEMMA StepFlow ==
  ASSUME WorkflowsTypeOK, [WorkflowsNext]_flowVars
  PROVE  \/ UNCHANGED <<flow, overlapped, checkout>>
         \/ \E f \in Flows : Begin(f) \/ CloneStarts(f) \/ CloneDone(f) \/ CloneFails(f) \/ UpdateDone(f)
         \/ \E f \in Flows : /\ UNCHANGED checkout
                             /\ \/ Moves(f, {"none", "new", "updating", "indexing", "streaming", "closing"},
                                         {"new", "streaming", "closing", "ended"})
                                \/ /\ Moves(f, {"partial", "indexing"}, {"partial", "indexing"})
                                   /\ flow'[f].at = flow[f].at
<1>1. ASSUME NEW c \in Clients, Connect(c) \/ Disconnect(c) PROVE UNCHANGED <<flow, overlapped, checkout>>
  BY <1>1 DEF Connect, Disconnect
<1>2. ASSUME NEW c \in Clients, NEW f \in Flows,
             \/ Cancel(f, c) \/ Reconnect(f, c)
             \/ \E s \in {"paused", "running"} : PauseOrResume(f, c, s)
      PROVE  UNCHANGED <<flow, overlapped, checkout>>
  BY <1>2 DEF Cancel, Reconnect, PauseOrResume
<1>3. ASSUME NEW c \in Clients, NEW f \in Flows, Start(f, c)
      PROVE  UNCHANGED checkout /\ Moves(f, {"none"}, {"new"})
  BY <1>3 DEF Start, Moves, WorkflowsTypeOK
<1>4. ASSUME NEW f \in Flows, BeginFails(f) \/ UpdateFails(f) \/ IndexEnds(f) \/ CloseIngest(f) \/ AgentStarts(f) \/ AgentEnds(f)
      PROVE  /\ UNCHANGED checkout
             /\ Moves(f, {"new", "updating", "indexing", "streaming", "closing"}, {"streaming", "closing", "ended"})
  BY <1>4 DEF BeginFails, UpdateFails, IndexEnds, CloseIngest, AgentStarts, AgentEnds, Finish, Complete, Goto, Quiet,
              Moves, WorkflowsTypeOK
<1>5. ASSUME NEW f \in Flows, Reports(f)
      PROVE  /\ UNCHANGED checkout /\ flow'[f].at = flow[f].at
             /\ Moves(f, {"partial", "indexing"}, {"partial", "indexing"})
  BY <1>5 DEF Reports, Quiet, Moves, WorkflowsTypeOK
<1>6. ASSUME NEW f \in Flows, ConsumeReport(f) PROVE UNCHANGED <<flow, overlapped, checkout>>
  BY <1>6 DEF ConsumeReport, Quiet
<1>7. CASE UNCHANGED flowVars
  BY <1>7 DEF flowVars
<1>8. ASSUME NEW f \in Flows, Moves(f, {"none"}, {"new"}) \/ Moves(f, {"new", "updating", "indexing", "streaming", "closing"}, {"streaming", "closing", "ended"})
      PROVE  Moves(f, {"none", "new", "updating", "indexing", "streaming", "closing"}, {"new", "streaming", "closing", "ended"})
  BY <1>8 DEF Moves
<1> QED
  BY <1>1, <1>2, <1>3, <1>4, <1>5, <1>6, <1>7, <1>8 DEF WorkflowsNext, Runs

LEMMA StepOverlap ==
  ASSUME FlowIInv, [WorkflowsNext]_flowVars
  PROVE  OnlyIngestsAreBusy' /\ OverlapIsKnown'
<1> USE DEF OnlyIngestsAreBusy, OverlapIsKnown, Busy
<1>1. CASE UNCHANGED <<flow, overlapped, checkout>>
  BY <1>1 DEF FlowIInv
<1>2. ASSUME NEW f \in Flows, Begin(f) PROVE OnlyIngestsAreBusy' /\ OverlapIsKnown'
  <2>1. /\ flow'[f].at \in {"cloning", "updating"} /\ flow[f].kind = "ingest" /\ flow'[f].kind = "ingest"
        /\ \A g \in Flows \ {f} : flow'[g] = flow[g]
    BY <1>2 DEF Begin, Goto, FlowIInv, WorkflowsTypeOK
  <2>2. overlapped \subseteq overlapped'
    BY <1>2 DEF Begin
  <2>3. ASSUME NEW g \in Flows \ {f}, flow[g].at \in Busy PROVE f \in overlapped' /\ g \in overlapped'
    <3>1. g \in Others(f)
      BY <2>3 DEF Others, FlowIInv
    <3> QED
      BY <1>2, <3>1 DEF Begin
  <2> QED
    BY <2>1, <2>2, <2>3 DEF FlowIInv
<1>3. ASSUME NEW f \in Flows, CloneStarts(f) \/ CloneDone(f) \/ UpdateDone(f)
      PROVE  OnlyIngestsAreBusy' /\ OverlapIsKnown'
  <2>1. Moves(f, Busy, Busy)
    BY <1>3 DEF CloneStarts, CloneDone, UpdateDone, Succeeds, Goto, Quiet, Moves, FlowIInv, WorkflowsTypeOK
  <2> QED
    BY <2>1 DEF Moves, FlowIInv
<1>4. ASSUME NEW f \in Flows, CloneFails(f) PROVE OnlyIngestsAreBusy' /\ OverlapIsKnown'
  <2>1. Moves(f, Busy, {"cloning", "closing"})
    BY <1>4 DEF CloneFails, Finish, Quiet, Moves, FlowIInv, WorkflowsTypeOK
  <2> QED
    BY <2>1 DEF Moves, FlowIInv
<1>5. ASSUME NEW f \in Flows,
             Moves(f, {"none", "new", "updating", "indexing", "streaming", "closing"}, {"new", "streaming", "closing", "ended"})
      PROVE  OnlyIngestsAreBusy' /\ OverlapIsKnown'
  BY <1>5 DEF Moves, FlowIInv
<1>6. ASSUME NEW f \in Flows, Moves(f, {"partial", "indexing"}, {"partial", "indexing"}), flow'[f].at = flow[f].at
      PROVE  OnlyIngestsAreBusy' /\ OverlapIsKnown'
  BY <1>6 DEF Moves, FlowIInv
<1> QED
  BY <1>1, <1>2, <1>3, <1>4, <1>5, <1>6, StepFlow DEF FlowIInv

LEMMA StepCheckout ==
  ASSUME FlowIInv, [WorkflowsNext]_flowVars
  PROVE  PartialIsCloned' /\ AloneIsWhole'
<1> USE DEF PartialIsCloned, AloneIsWhole
<1>1. CASE UNCHANGED <<flow, overlapped, checkout>>
  BY <1>1 DEF FlowIInv
<1>2. ASSUME NEW f \in Flows, Begin(f) PROVE PartialIsCloned' /\ AloneIsWhole'
  <2>1. /\ flow[f].at = "new" /\ UNCHANGED checkout /\ overlapped \subseteq overlapped'
        /\ \A g \in Flows \ {f} : flow'[g] = flow[g]
    BY <1>2 DEF Begin, Goto, FlowIInv, WorkflowsTypeOK
  <2>2. PartialIsCloned'
    BY <2>1 DEF FlowIInv
  <2>3. ASSUME flow'[f].at = "updating", f \notin overlapped' PROVE checkout = WholeCheckout
    <3>1. Others(f) = {}
      BY <1>2, <2>3 DEF Begin
    <3>2. checkout \notin Flows
      <4> SUFFICES ASSUME checkout \in Flows PROVE FALSE
        OBVIOUS
      <4>1. checkout \in Flows \ {f} /\ flow[checkout].at = "partial" /\ flow[checkout].kind = "ingest"
        BY <2>1 DEF FlowIInv, OnlyIngestsAreBusy, Busy
      <4> QED
        BY <3>1, <4>1 DEF Others
    <3>3. checkout # NoCheckout
      BY <1>2, <2>3 DEF Begin, Goto, FlowIInv, WorkflowsTypeOK
    <3> QED
      BY <3>2, <3>3 DEF FlowIInv, WorkflowsTypeOK
  <2>4. flow'[f].at \in {"cloning", "updating"}
    BY <1>2 DEF Begin, Goto, FlowIInv, WorkflowsTypeOK
  <2> QED
    BY <2>1, <2>2, <2>3, <2>4 DEF FlowIInv
<1>3. ASSUME NEW f \in Flows, CloneStarts(f) \/ CloneDone(f) \/ CloneFails(f), NEW g \in Flows \ {f},
             flow[g].at \in {"updating", "indexing"}
      PROVE  g \in overlapped
  <2>1. flow[f].at \in Busy /\ flow[g].at \in Busy
    BY <1>3 DEF CloneStarts, CloneDone, CloneFails, Busy
  <2> QED
    BY <2>1 DEF FlowIInv, OverlapIsKnown
<1>4. ASSUME NEW f \in Flows, CloneStarts(f) PROVE PartialIsCloned' /\ AloneIsWhole'
  <2>1. Moves(f, {"cloning"}, {"partial"}) /\ checkout' = f
    BY <1>4 DEF CloneStarts, Goto, Quiet, Moves, FlowIInv, WorkflowsTypeOK
  <2> QED
    BY <1>3, <1>4, <2>1 DEF Moves
<1>5. ASSUME NEW f \in Flows, CloneDone(f) PROVE PartialIsCloned' /\ AloneIsWhole'
  BY <1>5, Constants DEF CloneDone
<1>6. ASSUME NEW f \in Flows, CloneFails(f) PROVE PartialIsCloned' /\ AloneIsWhole'
  <2>1. Moves(f, {"partial"}, {"cloning", "closing"})
    BY <1>6 DEF CloneFails, Finish, Quiet, Moves, FlowIInv, WorkflowsTypeOK
  <2>2. checkout' = NoCheckout
    BY <1>6 DEF CloneFails
  <2> QED
    BY <1>3, <1>6, <2>1, <2>2, Constants DEF Moves
<1>7. ASSUME NEW f \in Flows, UpdateDone(f) PROVE PartialIsCloned' /\ AloneIsWhole'
  <2>1. Moves(f, {"updating"}, {"indexing"}) /\ UNCHANGED checkout
    BY <1>7 DEF UpdateDone, Succeeds, Goto, Quiet, Moves, FlowIInv, WorkflowsTypeOK
  <2> QED
    BY <2>1 DEF Moves, FlowIInv
<1>8. ASSUME NEW f \in Flows, UNCHANGED checkout,
             Moves(f, {"none", "new", "updating", "indexing", "streaming", "closing"}, {"new", "streaming", "closing", "ended"})
      PROVE  PartialIsCloned' /\ AloneIsWhole'
  BY <1>8 DEF Moves, FlowIInv
<1>9. ASSUME NEW f \in Flows, UNCHANGED checkout, flow'[f].at = flow[f].at,
             Moves(f, {"partial", "indexing"}, {"partial", "indexing"})
      PROVE  PartialIsCloned' /\ AloneIsWhole'
  BY <1>9 DEF Moves, FlowIInv
<1> QED
  BY <1>1, <1>2, <1>4, <1>5, <1>6, <1>7, <1>8, <1>9, StepFlow DEF FlowIInv

LEMMA StepRecord ==
  ASSUME FlowIInv, [WorkflowsNext]_flowVars
  PROVE  RecordTells'
<1> USE DEF RecordTells, Active
<1>1. ASSUME NEW c \in Clients, Connect(c) PROVE RecordTells'
  BY <1>1 DEF Connect, FlowIInv
<1>2. ASSUME NEW c \in Clients, Disconnect(c) PROVE RecordTells'
  BY <1>2 DEF Disconnect, Cleaned, Terminal, FlowIInv, WorkflowsTypeOK
<1>3. ASSUME NEW c \in Clients, NEW f \in Flows, Start(f, c) PROVE RecordTells'
  BY <1>3 DEF Start, FlowIInv, WorkflowsTypeOK
<1>4. ASSUME NEW c \in Clients, NEW f \in Flows, Cancel(f, c) PROVE RecordTells'
  BY <1>4 DEF Cancel, FlowIInv, WorkflowsTypeOK
<1>5. ASSUME NEW c \in Clients, NEW f \in Flows, Reconnect(f, c) PROVE RecordTells'
  BY <1>5 DEF Reconnect, FlowIInv
<1>6. ASSUME NEW c \in Clients, NEW f \in Flows, NEW s \in {"paused", "running"}, PauseOrResume(f, c, s)
      PROVE  RecordTells'
  BY <1>6 DEF PauseOrResume, FlowIInv, WorkflowsTypeOK
<1>7. ASSUME NEW f \in Flows,
             \/ Begin(f) \/ BeginFails(f) \/ CloneStarts(f) \/ CloneDone(f) \/ CloneFails(f) \/ UpdateDone(f)
             \/ UpdateFails(f) \/ IndexEnds(f) \/ ConsumeReport(f) \/ AgentStarts(f) \/ Reports(f)
      PROVE  RecordTells'
  <2>1. /\ UNCHANGED <<record, cancels>>
        /\ \A g \in Flows : flow'[g].at \notin {"none", "ended"} => flow[g].at \notin {"none", "ended"}
    BY <1>7 DEF Begin, BeginFails, CloneStarts, CloneDone, CloneFails, UpdateDone, UpdateFails, IndexEnds, ConsumeReport,
                AgentStarts, Reports, Goto, Succeeds, Finish, Quiet, FlowIInv, WorkflowsTypeOK
  <2> QED
    BY <2>1 DEF FlowIInv
<1>8. ASSUME NEW f \in Flows, CloseIngest(f) PROVE RecordTells'
  BY <1>8 DEF CloseIngest, Complete, FlowIInv, WorkflowsTypeOK
<1>10. ASSUME NEW f \in Flows, AgentEnds(f) PROVE RecordTells'
  BY <1>10 DEF AgentEnds, Complete, FlowIInv, WorkflowsTypeOK
<1>9. CASE UNCHANGED flowVars
  BY <1>9 DEF flowVars, FlowIInv
<1> HIDE DEF RecordTells, Active
<1> QED
  BY <1>1, <1>2, <1>3, <1>4, <1>5, <1>6, <1>7, <1>8, <1>9, <1>10 DEF WorkflowsNext, Runs

-----------------------------------------------------------------------------
\* What is indexed is a whole checkout as long as no other ingest runs, and a workflow that
\* runs is remembered unless it was cancelled, for every number of workflows and clients
\* (clone_repo, update_repo, ConnectionManager.disconnect).
THEOREM WorkflowsSound == WorkflowsSpec => []WorkflowsInv
<1>1. FlowIInv /\ [WorkflowsNext]_flowVars => FlowIInv'
  BY StepType, StepOverlap, StepCheckout, StepRecord DEF FlowIInv
<1>2. FlowIInv => WorkflowsInv
  BY DEF FlowIInv, WorkflowsInv, AloneIsWhole, IndexesWhole, RecordTells, RunningIsRemembered
<1> QED
  BY FlowIInvInit, <1>1, <1>2, PTL DEF WorkflowsSpec

-----------------------------------------------------------------------------
(***************************************************************************)
(* Startup, for every set of requests.                                         *)
(*                                                                          *)
(* Whoever builds has filled the layers below, and no layer is ever emptied: that   *)
(* is enough for whoever is given the facade.  As long as no two attempts have       *)
(* overlapped there is at most one builder and none once the facade is whole, and    *)
(* the layers below a builder are of its own attempt.                              *)
(***************************************************************************)

Seeker == [at : {"new", "set", "given", "refused"} \cup Building, failed : 0..2,
           attempt : Nat, found : SUBSET Nat]

\* The layers that are there when a seeker is at a stage.
Below(stage) ==
  CASE stage = "stores"   -> {"graph"}
    [] stage = "adapters" -> {"graph", "stores"}
    [] stage = "services" -> {"graph", "stores", "adapters"}
    [] stage = "tools"    -> {"graph", "stores", "adapters", "services"}
    [] stage \in {"flag", "set", "given"} -> Layers
    [] OTHER           -> {}

\* What a seeker is past is there, and with the stores the sessions.
FilledBelow ==
  \A s \in Seekers : /\ \A l \in Below(seeker[s].at) : layer[l] # {}
                     /\ "stores" \in Below(seeker[s].at) => maker

\* The facade is given when it is whole, and whole when it is served.
WholeIsServed == /\ whole => maker /\ Served
                 /\ given => whole
                 /\ \A s \in Seekers : seeker[s].at \in {"set", "given"} => whole

\* A seeker that has not given up may fail once more.
FailuresLeft == \A s \in Seekers : seeker[s].at # "refused" => seeker[s].failed < 2

\* Without an overlap one seeker builds, and none builds what is whole.
OneBuilder ==
  ~mixed => /\ \A s, t \in Seekers : seeker[s].at \in Building /\ seeker[t].at \in Building => s = t
            /\ \A s \in Seekers : seeker[s].at \in Building => ~whole

\* Without an overlap a builder rests on what it has built itself.
OwnBelow ==
  ~mixed => \A s \in Seekers : seeker[s].at \in Building =>
              /\ seeker[s].attempt \in 1..attempts
              /\ \A l \in Below(seeker[s].at) : layer[l] = {seeker[s].attempt}

\* Without an overlap a whole facade is of one attempt, and what was found is still there.
WholeIsOne ==
  whole /\ ~mixed => /\ \E n \in 1..attempts : \A l \in Layers : layer[l] = {n}
                     /\ \A s \in Seekers : seeker[s].at = "given" => seeker[s].found = RestsOn

StartupIInv == /\ StartupTypeOK /\ FilledBelow /\ WholeIsServed /\ FailuresLeft /\ OneBuilder /\ OwnBelow /\ WholeIsOne
        /\ NoOldError

-----------------------------------------------------------------------------
LEMMA SeekerType == StartupTypeOK => seeker \in [Seekers -> Seeker]
  BY DEF StartupTypeOK, Seeker

LEMMA RestsOnType == StartupTypeOK => RestsOn \in SUBSET Nat
  BY DEF StartupTypeOK, RestsOn

LEMMA RestsOnOne ==
  ASSUME NEW n, \A l \in Layers : layer[l] = {n}
  PROVE  RestsOn = {n}
  BY DEF RestsOn, Layers

LEMMA StartupIInvInit == StartupInit => StartupIInv
<1> SUFFICES ASSUME StartupInit PROVE StartupIInv
  OBVIOUS
<1>1. \A s \in Seekers : seeker[s] = [at |-> "new", failed |-> 0, attempt |-> 0, found |-> {}]
  BY DEF StartupInit
<1>2. [at |-> "new", failed |-> 0, attempt |-> 0, found |-> {}] \in Seeker
  BY DEF Seeker
<1>3. StartupTypeOK
  <2>1. seeker \in [Seekers -> Seeker]
    BY <1>2 DEF StartupInit
  <2> QED
    BY <2>1 DEF StartupInit, StartupTypeOK, Seeker
<1>4. FilledBelow /\ WholeIsServed /\ FailuresLeft /\ OneBuilder /\ OwnBelow /\ WholeIsOne /\ NoOldError
  BY <1>1 DEF StartupInit, FilledBelow, WholeIsServed, FailuresLeft, OneBuilder, OwnBelow, WholeIsOne, NoOldError,
              Available, Below, Building, Layers
<1> QED
  BY <1>3, <1>4 DEF StartupIInv

-----------------------------------------------------------------------------
(* The attempts to build.                                                     *)

\* A layer is filled: from the layers below, and without an overlap for the attempt alone.
LEMMA StepBuild ==
  ASSUME StartupIInv, NEW s \in Seekers, NEW l \in Layers, NEW next \in Building, NEW on \in (SUBSET Nat) \ {{}},
         Build(s, l, on, next), Below(next) = Below(l) \cup {l},
         ~mixed => on = {seeker[s].attempt},
         maker' \in {maker, TRUE}, l = "stores" => maker'
  PROVE  StartupIInv'
<1>1. /\ seeker[s].at = l /\ layer' = [layer EXCEPT ![l] = on] /\ seeker' = [seeker EXCEPT ![s].at = next]
      /\ UNCHANGED <<whole, app, given, error, attempts, mixed>>
  BY DEF Build, Advance, Resting
<1>2. seeker \in [Seekers -> Seeker] /\ layer \in [Layers -> SUBSET Nat] /\ maker \in BOOLEAN
  BY SeekerType DEF StartupIInv, StartupTypeOK
<1>3. /\ seeker'[s].at = next /\ seeker'[s].attempt = seeker[s].attempt /\ seeker'[s].failed = seeker[s].failed
      /\ seeker'[s] \in Seeker /\ \A t \in Seekers \ {s} : seeker'[t] = seeker[t]
  BY <1>1, <1>2 DEF Seeker
<1>4. l \in Building /\ seeker[s].at \in Building
  BY <1>1 DEF Building
<1>5. StartupTypeOK'
  <2>1. seeker' \in [Seekers -> Seeker]
    BY <1>1, <1>2, <1>3
  <2>2. layer' \in [Layers -> SUBSET Nat]
    BY <1>1, <1>2
  <2>3. maker' \in BOOLEAN
    BY <1>2
  <2> QED
    BY <1>1, <2>1, <2>2, <2>3 DEF StartupIInv, StartupTypeOK, Seeker
<1>6. \A k \in Layers : layer'[k] = (IF k = l THEN on ELSE layer[k])
  BY <1>1, <1>2
<1>7. /\ \A k \in Layers : layer[k] # {} => layer'[k] # {}
      /\ layer'[l] # {} /\ (maker => maker')
  <2>1. maker => maker'
    BY <1>2
  <2>2. on # {}
    OBVIOUS
  <2> QED
    BY <1>6, <2>1, <2>2
<1>a. Below(l) \subseteq Layers /\ Below(next) \subseteq Layers
  BY DEF Below, Layers
<1>8. FilledBelow'
  <2> SUFFICES ASSUME NEW t \in Seekers
               PROVE  /\ \A k \in Below(seeker'[t].at) : layer'[k] # {}
                      /\ "stores" \in Below(seeker'[t].at) => maker'
    BY DEF FilledBelow
  <2>1. CASE t = s
    BY <1>1, <1>3, <1>7, <1>a, <2>1 DEF StartupIInv, FilledBelow
  <2>2. CASE t # s
    <3>1. Below(seeker[t].at) \subseteq Layers
      BY DEF Below, Layers
    <3> QED
      BY <1>3, <1>7, <2>2, <3>1 DEF StartupIInv, FilledBelow
  <2> QED
    BY <2>1, <2>2
<1>9. WholeIsServed'
  <2>1. whole => maker' /\ Served'
    BY <1>7 DEF StartupIInv, WholeIsServed, Served
  <2> QED
    BY <1>1, <1>3, <2>1 DEF StartupIInv, WholeIsServed, Building, Layers
<1>10. FailuresLeft'
  BY <1>3, <1>4 DEF StartupIInv, FailuresLeft, Building, Layers
<1>11. OneBuilder'
  BY <1>1, <1>3, <1>4 DEF StartupIInv, OneBuilder
<1>12. OwnBelow'
  <2> SUFFICES ASSUME ~mixed, NEW t \in Seekers, seeker'[t].at \in Building
               PROVE  /\ seeker'[t].attempt \in 1..attempts
                      /\ \A k \in Below(seeker'[t].at) : layer'[k] = {seeker'[t].attempt}
    BY <1>1 DEF OwnBelow
  <2>1. t = s
    BY <1>3, <1>4 DEF StartupIInv, OneBuilder
  <2> QED
    BY <1>1, <1>3, <1>4, <1>6, <1>a, <2>1 DEF StartupIInv, OwnBelow
<1>13. WholeIsOne' /\ NoOldError'
  BY <1>1, <1>4 DEF StartupIInv, OneBuilder, WholeIsOne, NoOldError, Available
<1> QED
  BY <1>5, <1>8, <1>9, <1>10, <1>11, <1>12, <1>13 DEF StartupIInv

LEMMA StepLayer ==
  ASSUME StartupIInv, NEW s \in Seekers,
         BuildGraph(s) \/ BuildStores(s) \/ BuildAdapters(s) \/ BuildServices(s) \/ BuildTools(s)
  PROVE  StartupIInv'
<1>1. seeker[s] \in Seeker /\ layer \in [Layers -> SUBSET Nat]
  BY SeekerType DEF StartupIInv, StartupTypeOK
<1>2. seeker[s].attempt \in Nat
  BY <1>1 DEF Seeker
<1>3. /\ \A l \in Below(seeker[s].at) : layer[l] # {}
      /\ ~mixed /\ seeker[s].at \in Building => \A l \in Below(seeker[s].at) : layer[l] = {seeker[s].attempt}
  BY DEF StartupIInv, FilledBelow, OwnBelow
<1>4. CASE BuildGraph(s)
  <2>1. Build(s, "graph", {seeker[s].attempt}, "stores") /\ maker' = maker
    BY <1>4 DEF BuildGraph
  <2>2. Below("stores") = Below("graph") \cup {"graph"}
    BY DEF Below
  <2>3. "graph" \in Layers /\ "stores" \in Building /\ {seeker[s].attempt} \in (SUBSET Nat) \ {{}}
    BY <1>2 DEF Layers, Building
  <2> QED
    BY <2>1, <2>2, <2>3, StepBuild
<1>5. CASE BuildStores(s)
  <2>1. Build(s, "stores", {seeker[s].attempt}, "adapters") /\ maker' = TRUE
    BY <1>5 DEF BuildStores, MakeFactory
  <2>2. Below("adapters") = Below("stores") \cup {"stores"}
    BY DEF Below
  <2>3. "stores" \in Layers /\ "adapters" \in Building /\ {seeker[s].attempt} \in (SUBSET Nat) \ {{}}
    BY <1>2 DEF Layers, Building
  <2> QED
    BY <2>1, <2>2, <2>3, StepBuild
<1>6. CASE BuildAdapters(s)
  <2> DEFINE on == layer["graph"] \cup layer["stores"]
  <2>1. Build(s, "adapters", on, "services") /\ maker' = maker /\ seeker[s].at = "adapters"
    BY <1>6 DEF BuildAdapters, Build
  <2>2. Below("services") = Below("adapters") \cup {"adapters"} /\ Below("adapters") = {"graph", "stores"}
    BY DEF Below
  <2>3. "adapters" \in Layers /\ "adapters" \in Building /\ "services" \in Building /\ "graph" \in Layers /\ "stores" \in Layers
    BY DEF Layers, Building
  <2>4. on \in (SUBSET Nat) \ {{}} /\ (~mixed => on = {seeker[s].attempt})
    BY <1>1, <1>3, <2>1, <2>2, <2>3
  <2> HIDE DEF on
  <2> QED
    BY <2>1, <2>2, <2>3, <2>4, StepBuild
<1>7. CASE BuildServices(s)
  <2> DEFINE on == layer["graph"] \cup layer["stores"] \cup layer["adapters"]
  <2>1. Build(s, "services", on, "tools") /\ maker' = maker /\ seeker[s].at = "services"
    BY <1>7 DEF BuildServices, Build
  <2>2. Below("tools") = Below("services") \cup {"services"} /\ Below("services") = {"graph", "stores", "adapters"}
    BY DEF Below
  <2>3. /\ "services" \in Layers /\ "services" \in Building /\ "tools" \in Building
        /\ "graph" \in Layers /\ "stores" \in Layers /\ "adapters" \in Layers
    BY DEF Layers, Building
  <2>4. on \in (SUBSET Nat) \ {{}} /\ (~mixed => on = {seeker[s].attempt})
    BY <1>1, <1>3, <2>1, <2>2, <2>3
  <2> HIDE DEF on
  <2> QED
    BY <2>1, <2>2, <2>3, <2>4, StepBuild
<1>8. CASE BuildTools(s)
  <2> DEFINE on == layer["services"] \cup layer["adapters"]
  <2>1. Build(s, "tools", on, "flag") /\ maker' = maker /\ seeker[s].at = "tools"
    BY <1>8 DEF BuildTools, Build
  <2>2. Below("flag") = Below("tools") \cup {"tools"} /\ Below("tools") = {"graph", "stores", "adapters", "services"}
    BY DEF Below, Layers
  <2>3. "tools" \in Layers /\ "tools" \in Building /\ "flag" \in Building /\ "services" \in Layers /\ "adapters" \in Layers
    BY DEF Layers, Building
  <2>4. on \in (SUBSET Nat) \ {{}} /\ (~mixed => on = {seeker[s].attempt})
    BY <1>1, <1>3, <2>1, <2>2, <2>3
  <2> HIDE DEF on
  <2> QED
    BY <2>1, <2>2, <2>3, <2>4, StepBuild
<1> QED
  BY <1>4, <1>5, <1>6, <1>7, <1>8

-----------------------------------------------------------------------------
(* The other steps of a seeker, and the application.                              *)

\* Where a seeker goes that does not build, and who stays.
LEMMA StepAsk == ASSUME StartupIInv, NEW s \in Seekers, Ask(s) PROVE StartupIInv'
<1>1. seeker \in [Seekers -> Seeker] /\ seeker[s].at = "new" /\ UNCHANGED <<app, maker, layer, whole, given, error>>
  BY SeekerType DEF Ask, StartupIInv
<1>2. RestsOn \in SUBSET Nat /\ RestsOn' = RestsOn
  BY <1>1, RestsOnType DEF StartupIInv, RestsOn
<1>3. Below("given") = Layers /\ Below("set") = Layers /\ Below("graph") = {} /\ "graph" \in Building
      /\ "given" \notin Building /\ "set" \notin Building
  BY DEF Below, Building, Layers
<1>4. CASE given /\ seeker' = [seeker EXCEPT ![s].at = "given", ![s].found = RestsOn] /\ UNCHANGED <<attempts, mixed>>
  <2>1. /\ seeker'[s] = [seeker[s] EXCEPT !.at = "given", !.found = RestsOn]
        /\ \A t \in Seekers \ {s} : seeker'[t] = seeker[t]
    BY <1>1, <1>4
  <2>2. seeker'[s] \in Seeker
    BY <1>1, <1>2, <2>1 DEF Seeker
  <2>3. seeker' \in [Seekers -> Seeker]
    BY <1>1, <1>4, <2>2
  <2>4. seeker'[s].at = "given" /\ seeker'[s].found = RestsOn /\ seeker'[s].failed = seeker[s].failed
    BY <1>1, <2>1 DEF Seeker
  <2>5. StartupTypeOK'
    BY <1>1, <1>4, <2>3 DEF StartupIInv, StartupTypeOK, Seeker
  <2>6. whole /\ maker /\ Served
    BY <1>4 DEF StartupIInv, WholeIsServed
  <2>7. FilledBelow'
    <3>1. (\A l \in Layers : layer'[l] # {}) /\ maker'
      BY <1>1, <2>6 DEF Served
    <3>2. Below(seeker'[s].at) = Layers
      BY <1>3, <2>4
    <3>3. FilledBelow
      BY DEF StartupIInv
    <3> QED
      BY <1>1, <2>1, <3>1, <3>2, <3>3 DEF FilledBelow
  <2>8. WholeIsServed' /\ FailuresLeft'
    BY <1>1, <1>4, <2>1, <2>4, <2>6 DEF StartupIInv, WholeIsServed, FailuresLeft, Served
  <2>9. OneBuilder' /\ OwnBelow'
    BY <1>1, <1>3, <1>4, <2>1, <2>4 DEF StartupIInv, OneBuilder, OwnBelow
  <2>10. WholeIsOne' /\ NoOldError'
    BY <1>1, <1>2, <1>4, <2>1, <2>4 DEF StartupIInv, WholeIsOne, NoOldError, Available
  <2> QED
    BY <2>5, <2>7, <2>8, <2>9, <2>10 DEF StartupIInv
<1>5. CASE ~given /\ whole /\ seeker' = [seeker EXCEPT ![s].at = "set"] /\ UNCHANGED <<attempts, mixed>>
  <2>1. /\ seeker'[s] = [seeker[s] EXCEPT !.at = "set"] /\ \A t \in Seekers \ {s} : seeker'[t] = seeker[t]
    BY <1>1, <1>5
  <2>2. seeker'[s] \in Seeker
    BY <1>1, <2>1 DEF Seeker
  <2>3. seeker' \in [Seekers -> Seeker]
    BY <1>1, <1>5, <2>2
  <2>4. seeker'[s].at = "set" /\ seeker'[s].failed = seeker[s].failed
    BY <1>1, <2>1 DEF Seeker
  <2>5. StartupTypeOK'
    BY <1>1, <1>5, <2>3 DEF StartupIInv, StartupTypeOK, Seeker
  <2>6. whole /\ maker /\ Served
    BY <1>5 DEF StartupIInv, WholeIsServed
  <2>7. FilledBelow'
    <3>1. (\A l \in Layers : layer'[l] # {}) /\ maker'
      BY <1>1, <2>6 DEF Served
    <3>2. Below(seeker'[s].at) = Layers
      BY <1>3, <2>4
    <3>3. FilledBelow
      BY DEF StartupIInv
    <3> QED
      BY <1>1, <2>1, <3>1, <3>2, <3>3 DEF FilledBelow
  <2>8. WholeIsServed' /\ FailuresLeft'
    BY <1>1, <1>5, <2>1, <2>4, <2>6 DEF StartupIInv, WholeIsServed, FailuresLeft, Served
  <2>9. OneBuilder' /\ OwnBelow'
    BY <1>1, <1>3, <1>5, <2>1, <2>4 DEF StartupIInv, OneBuilder, OwnBelow
  <2>10. WholeIsOne' /\ NoOldError'
    BY <1>1, <1>2, <1>5, <2>1, <2>4 DEF StartupIInv, WholeIsOne, NoOldError, Available
  <2> QED
    BY <2>5, <2>7, <2>8, <2>9, <2>10 DEF StartupIInv
<1>6. CASE /\ ~given /\ ~whole /\ attempts' = attempts + 1
           /\ seeker' = [seeker EXCEPT ![s].at = "graph", ![s].attempt = attempts + 1]
           /\ mixed' = (mixed \/ \E o \in Seekers \ {s} : seeker[o].at \in Building)
  <2>1. /\ seeker'[s] = [seeker[s] EXCEPT !.at = "graph", !.attempt = attempts + 1]
        /\ \A t \in Seekers \ {s} : seeker'[t] = seeker[t]
    BY <1>1, <1>6
  <2>0. attempts \in Nat /\ mixed \in BOOLEAN /\ attempts' = attempts + 1 /\ attempts' \in Nat /\ attempts' \in 1..attempts'
    BY <1>6 DEF StartupIInv, StartupTypeOK
  <2>2. seeker'[s] \in Seeker
    <3>1. seeker[s] \in Seeker /\ attempts + 1 \in Nat
      BY <1>1, <2>0
    <3> QED
      BY <1>3, <2>1, <3>1 DEF Seeker
  <2>3. seeker' \in [Seekers -> Seeker]
    BY <1>1, <1>6, <2>0, <2>2
  <2>4. seeker'[s].at = "graph" /\ seeker'[s].failed = seeker[s].failed /\ seeker'[s].attempt = attempts'
    BY <1>1, <2>0, <2>1 DEF Seeker
  <2>5. StartupTypeOK'
    <3>1. mixed' \in BOOLEAN
      BY <1>6
    <3> QED
      BY <1>1, <2>0, <2>3, <3>1 DEF StartupIInv, StartupTypeOK, Seeker
  <2>7. FilledBelow'
    BY <1>1, <1>3, <2>1, <2>4 DEF StartupIInv, FilledBelow
  <2>8. WholeIsServed' /\ FailuresLeft'
    BY <1>1, <1>6, <2>1, <2>4 DEF StartupIInv, WholeIsServed, FailuresLeft, Served
  <2>9. ASSUME ~mixed' PROVE ~mixed /\ \A t \in Seekers \ {s} : seeker'[t].at \notin Building
    BY <1>6, <2>1, <2>9
  <2>10. OneBuilder'
    BY <1>1, <1>6, <2>9 DEF StartupIInv, OneBuilder
  <2>11. OwnBelow'
    BY <1>3, <2>0, <2>4, <2>9 DEF OwnBelow
  <2>12. WholeIsOne' /\ NoOldError'
    BY <1>1, <1>6 DEF WholeIsOne, NoOldError, Available
  <2> QED
    BY <2>5, <2>7, <2>8, <2>10, <2>11, <2>12 DEF StartupIInv
<1> QED
  BY <1>4, <1>5, <1>6 DEF Ask, Advance

LEMMA StepMark == ASSUME StartupIInv, NEW s \in Seekers, MarkWhole(s) PROVE StartupIInv'
<1>1. /\ seeker[s].at = "flag" /\ whole' = TRUE /\ seeker' = [seeker EXCEPT ![s].at = "set"]
      /\ UNCHANGED <<app, maker, layer, given, error, attempts, mixed>>
  BY DEF MarkWhole, Advance, Resting
<1>2. seeker \in [Seekers -> Seeker]
  BY SeekerType DEF StartupIInv
<1>3. /\ seeker'[s].at = "set" /\ seeker'[s].failed = seeker[s].failed /\ seeker'[s] \in Seeker
      /\ \A t \in Seekers \ {s} : seeker'[t] = seeker[t]
  BY <1>1, <1>2 DEF Seeker
<1>4. Below("flag") = Layers /\ Below("set") = Layers /\ "flag" \in Building /\ "set" \notin Building /\ "stores" \in Layers
  BY DEF Below, Building, Layers
<1>5. maker /\ Served
  BY <1>1, <1>4 DEF StartupIInv, FilledBelow, Served
<1>6. StartupTypeOK'
  <2>1. seeker' \in [Seekers -> Seeker]
    BY <1>1, <1>2, <1>3
  <2> QED
    BY <1>1, <2>1 DEF StartupIInv, StartupTypeOK, Seeker
<1>7. FilledBelow' /\ WholeIsServed' /\ FailuresLeft'
  BY <1>1, <1>3, <1>4, <1>5 DEF StartupIInv, FilledBelow, WholeIsServed, FailuresLeft, Served
<1>8. ASSUME ~mixed
      PROVE  /\ \A t \in Seekers : seeker'[t].at \notin Building \cup {"given"}
             /\ ~given
             /\ \E n \in 1..attempts : \A l \in Layers : layer[l] = {n}
  <2>1. ~whole
    BY <1>1, <1>4, <1>8 DEF StartupIInv, OneBuilder
  <2>2. ~given /\ \A t \in Seekers : seeker[t].at # "given"
    BY <2>1 DEF StartupIInv, WholeIsServed
  <2>3. \A t \in Seekers \ {s} : seeker[t].at \notin Building
    BY <1>1, <1>4, <1>8 DEF StartupIInv, OneBuilder
  <2>4. \E n \in 1..attempts : \A l \in Layers : layer[l] = {n}
    BY <1>1, <1>4, <1>8 DEF StartupIInv, OwnBelow
  <2> QED
    BY <1>3, <1>4, <2>2, <2>3, <2>4
<1>9. OneBuilder' /\ OwnBelow' /\ WholeIsOne' /\ NoOldError'
  BY <1>1, <1>8 DEF OneBuilder, OwnBelow, WholeIsOne, NoOldError, Available
<1> QED
  BY <1>6, <1>7, <1>9 DEF StartupIInv

LEMMA StepGive == ASSUME StartupIInv, NEW s \in Seekers, Give(s) PROVE StartupIInv'
<1>1. /\ seeker[s].at = "set" /\ given' = TRUE /\ error' = FALSE
      /\ seeker' = [seeker EXCEPT ![s].at = "given", ![s].found = RestsOn]
      /\ UNCHANGED <<app, maker, layer, whole, attempts, mixed>>
  BY DEF Give
<1>2. seeker \in [Seekers -> Seeker] /\ RestsOn \in SUBSET Nat /\ RestsOn' = RestsOn
  BY <1>1, SeekerType, RestsOnType DEF StartupIInv, RestsOn
<1>3. /\ seeker'[s].at = "given" /\ seeker'[s].failed = seeker[s].failed /\ seeker'[s].found = RestsOn
      /\ seeker'[s] \in Seeker /\ \A t \in Seekers \ {s} : seeker'[t] = seeker[t]
  BY <1>1, <1>2 DEF Seeker
<1>4. Below("given") = Layers /\ "given" \notin Building
  BY DEF Below, Building, Layers
<1>5. whole /\ maker /\ Served
  BY <1>1 DEF StartupIInv, WholeIsServed
<1>6. StartupTypeOK'
  <2>1. seeker' \in [Seekers -> Seeker]
    BY <1>1, <1>2, <1>3
  <2> QED
    BY <1>1, <2>1 DEF StartupIInv, StartupTypeOK, Seeker
<1>7. FilledBelow' /\ WholeIsServed' /\ FailuresLeft'
  BY <1>1, <1>3, <1>4, <1>5 DEF StartupIInv, FilledBelow, WholeIsServed, FailuresLeft, Served
<1>8. OneBuilder' /\ OwnBelow' /\ WholeIsOne' /\ NoOldError'
  BY <1>1, <1>2, <1>3, <1>4 DEF StartupIInv, OneBuilder, OwnBelow, WholeIsOne, NoOldError, Available
<1> QED
  BY <1>6, <1>7, <1>8 DEF StartupIInv

LEMMA StepFails == ASSUME StartupIInv, NEW s \in Seekers, BuildFails(s) PROVE StartupIInv'
<1> DEFINE next == IF seeker[s].failed + 1 < Tries(s) THEN "new" ELSE "refused"
<1>1. /\ seeker[s].at \in Layers /\ error' = TRUE
      /\ seeker' = [seeker EXCEPT ![s].failed = seeker[s].failed + 1, ![s].at = next]
      /\ UNCHANGED <<app, layer, whole, given, attempts, mixed>>
      /\ maker' \in {maker, maker \/ seeker[s].at = "stores"}
  BY DEF BuildFails
<1>2. seeker \in [Seekers -> Seeker] /\ maker \in BOOLEAN
  BY SeekerType DEF StartupIInv, StartupTypeOK
<1>3. seeker[s].failed \in 0..1 /\ seeker[s].at \in Building
  BY <1>1, <1>2 DEF StartupIInv, FailuresLeft, Seeker, Layers, Building
<1>4. /\ seeker'[s].at \in {"new", "refused"} /\ seeker'[s].failed = seeker[s].failed + 1
      /\ seeker'[s].at # "refused" => seeker'[s].failed < 2
      /\ \A t \in Seekers \ {s} : seeker'[t] = seeker[t]
  BY <1>1, <1>2, <1>3 DEF Seeker, Tries
<1>5. seeker' \in [Seekers -> Seeker]
  <2>0. next \in {"new", "refused"} /\ seeker[s].failed + 1 \in 0..2
    BY <1>3
  <2> HIDE DEF next
  <2>1. [seeker[s] EXCEPT !.failed = seeker[s].failed + 1, !.at = next] \in Seeker
    BY <1>2, <2>0 DEF Seeker
  <2> QED
    BY <1>1, <1>2, <2>1
<1>6. maker' \in BOOLEAN /\ (maker => maker')
  BY <1>1, <1>2
<1>7. StartupTypeOK'
  BY <1>1, <1>5, <1>6 DEF StartupIInv, StartupTypeOK, Seeker
<1>8. Below("new") = {} /\ Below("refused") = {} /\ "new" \notin Building /\ "refused" \notin Building
  BY DEF Below, Building, Layers
<1>9. FilledBelow' /\ WholeIsServed' /\ FailuresLeft'
  BY <1>1, <1>4, <1>6, <1>8 DEF StartupIInv, FilledBelow, WholeIsServed, FailuresLeft, Served
<1>10. OneBuilder'
  BY <1>1, <1>4, <1>8 DEF StartupIInv, OneBuilder
<1>13. OwnBelow'
  BY <1>1, <1>4, <1>8 DEF StartupIInv, OwnBelow
<1>11. WholeIsOne'
  BY <1>1, <1>3 DEF StartupIInv, OneBuilder, WholeIsOne
<1>12. NoOldError'
  BY <1>1, <1>3 DEF StartupIInv, OneBuilder, NoOldError, Available
<1> QED
  BY <1>7, <1>9, <1>10, <1>11, <1>12, <1>13 DEF StartupIInv

LEMMA StepApp ==
  ASSUME StartupIInv, InitDatabase \/ Serve \/ Stop \/ CloseDatabase \/ CloseFacade \/ UNCHANGED startVars
  PROVE  StartupIInv'
<1>1. /\ UNCHANGED <<layer, whole, given, error, seeker, attempts, mixed>>
      /\ app' \in {app, "running", "stopping", "closing", "stopped"} /\ maker' \in {maker, TRUE}
  BY DEF InitDatabase, MakeFactory, Serve, Stop, CloseDatabase, CloseFacade, startVars
<1>2. maker \in BOOLEAN
  BY DEF StartupIInv, StartupTypeOK
<1>3. maker' \in BOOLEAN /\ (maker => maker')
  <2>1. CASE maker' = maker
    BY <1>2, <2>1
  <2>2. CASE maker' = TRUE
    BY <2>2
  <2> QED
    BY <1>1, <2>1, <2>2
<1>4. StartupTypeOK'
  BY <1>1, <1>3 DEF StartupIInv, StartupTypeOK
<1>5. FilledBelow' /\ WholeIsServed' /\ FailuresLeft'
  BY <1>1, <1>3 DEF StartupIInv, FilledBelow, WholeIsServed, FailuresLeft, Served
<1>6. OneBuilder' /\ OwnBelow' /\ WholeIsOne' /\ NoOldError'
  BY <1>1 DEF StartupIInv, OneBuilder, OwnBelow, WholeIsOne, NoOldError, Available, RestsOn
<1> QED
  BY <1>4, <1>5, <1>6 DEF StartupIInv

-----------------------------------------------------------------------------
\* Whoever is given the facade finds every layer, whatever was built at the same time and
\* failed; and without an overlap all rests on one set of stores and no error is left of an
\* earlier attempt, for every set of requests (GraphKBFacade.initialize, get_graph_kb_facade).
THEOREM StartupSound == StartupSpec => []StartupInv
<1>1. StartupIInv /\ [StartupNext]_startVars => StartupIInv'
  <2> SUFFICES ASSUME StartupIInv, [StartupNext]_startVars PROVE StartupIInv'
    OBVIOUS
  <2> QED
    BY StepLayer, StepAsk, StepMark, StepGive, StepFails, StepApp DEF StartupNext
<1>2. StartupIInv => StartupInv
  <2> SUFFICES ASSUME StartupIInv PROVE StartupInv
    OBVIOUS
  <2>1. GivenIsWhole
    BY DEF StartupIInv, WholeIsServed, GivenIsWhole
  <2>2. OneSetOfStores
    BY RestsOnOne DEF StartupIInv, WholeIsOne, OneSetOfStores
  <2> QED
    BY <2>1, <2>2 DEF StartupIInv, StartupInv
<1> QED
  BY StartupIInvInit, <1>1, <1>2, PTL DEF StartupSpec

-----------------------------------------------------------------------------
(***************************************************************************)
(* Metadata, for any menu of calls and any number of them.                        *)
(*                                                                          *)
(* A transaction writes what it makes of what it has read.  As long as it has no    *)
(* rival that is open with it, and every rival would be noted in raced, what it       *)
(* has read still holds when it writes.                                          *)
(***************************************************************************)

\* A transaction is a record, and what it has read is what its call reads.
Shaped ==
  call = [t \in 1..MaxCalls |-> [by |-> call[t].by, op |-> call[t].op,
                                 seen |-> call[t].seen, at |-> call[t].at]]

Ops == Calls \cup [kind : {"set"}, key : Keys] \cup [kind : {"none"}]

Settings == [Keys -> 0..MaxCalls]
Tables   == [repo : {"none", "pending", "indexing", "paused", "ready", "error"},
             files : [Paths -> Marks], pending : SUBSET Pieces, failed : [Pieces -> 0..MaxCalls],
             progress : -1..MaxCalls, live : BOOLEAN]

ReadsOK ==
  \A t \in 1..MaxCalls :
    /\ Op(t) \in Ops
    /\ Op(t).kind = "save pending" => Read(t) \in SUBSET Pieces
    /\ Op(t).kind = "fail" => Read(t) \in Nat /\ Read(t) < t
    /\ Op(t).kind = "show" => Read(t) \in BOOLEAN
    /\ Op(t).kind = "set"  => Read(t) \in Settings

\* The transactions are begun in order, so a count that one of them raises is below
\* those that are not begun.
InOrder ==
  \A t \in 1..MaxCalls : call[t].at = "unused" =>
    /\ Op(t).kind = "none"
    /\ \A c \in Pieces : rows.failed[c] < t
    /\ \A u \in 1..MaxCalls : t < u => call[u].at = "unused"

\* Two open transactions of which one may undo what the other has checked have raced.
RivalsRaced ==
  \A t, u \in 1..MaxCalls : t # u /\ Open(t) /\ Open(u) =>
    /\ Op(t).kind = "status" /\ Op(u).kind \in {"status", "delete"}
         => {"status", "delete"} \cap raced # {}
    /\ Op(t).kind = "save pending" /\ Op(u).kind = "save pending" => "save pending" \in raced
    /\ Op(t).kind = "set" /\ Op(u).kind = "set" => "set" \in raced

\* What has been read still holds, unless a rival has raced.
StatusFresh ==
  {"status", "delete"} \cap raced = {} =>
    \A t \in 1..MaxCalls : Open(t) /\ Op(t).kind = "status" => Op(t).to \in NextStatus(rows.repo)

PendingFresh ==
  "save pending" \notin raced =>
    \A t \in 1..MaxCalls : Open(t) /\ Op(t).kind = "save pending" => rows.pending \subseteq Read(t)

SettingsFresh ==
  ~misread /\ "set" \notin raced =>
    \A t \in 1..MaxCalls : Open(t) /\ Op(t).kind = "set" =>
      \A k \in Keys : k # Op(t).key => Read(t)[k] = settings[k]

MetadataTypes == MetadataTypeOK /\ Shaped /\ ReadsOK /\ InOrder
MetadataIInv  == MetadataTypes /\ RivalsRaced /\ StatusFresh /\ PendingFresh /\ SettingsFresh
                   /\ PendingIsOneSave

LEMMA OpFields ==
  ASSUME NEW o \in Ops
  PROVE  /\ o.kind = "mark" => o.path \in Paths /\ o.as \in Marks
         /\ o.kind = "save pending" => o.pieces \in SUBSET Pieces
         /\ o.kind = "fail" => o.piece \in Pieces
         /\ o.kind = "set"  => o.key \in Keys
         /\ o.kind = "status" => o.to \in {"pending", "indexing", "paused", "ready", "error"}
<1>1. \/ o \in StatusCalls \/ o \in RowCalls \/ o \in FileCalls \/ o \in PendingCalls
      \/ o \in FailedCalls \/ o \in ProgressCalls \/ o \in SettingCalls
      \/ o \in [kind : {"set"}, key : Keys] \/ o \in [kind : {"none"}]
  BY DEF Ops, Calls
<1>2. CASE o \in StatusCalls
  BY <1>2 DEF StatusCalls
<1>3. CASE o \in RowCalls \/ o \in ProgressCalls \/ o \in [kind : {"none"}]
  BY <1>3 DEF RowCalls, ProgressCalls
<1>4. CASE o \in FileCalls
  BY <1>4 DEF FileCalls, Marks
<1>5. CASE o \in PendingCalls
  BY <1>5 DEF PendingCalls
<1>6. CASE o \in FailedCalls
  BY <1>6 DEF FailedCalls
<1>7. CASE o \in SettingCalls \/ o \in [kind : {"set"}, key : Keys]
  BY <1>7 DEF SettingCalls
<1>. QED  BY <1>1, <1>2, <1>3, <1>4, <1>5, <1>6, <1>7

\* A transaction begins, or raises at once.
Begins(t, o, r, stage) ==
  /\ call[t].at = "unused" /\ \A u \in 1..MaxCalls : u < t => call[u].at # "unused"
  /\ \E th : call' = [call EXCEPT ![t] = [by |-> th, op |-> o, seen |-> r, at |-> stage]]
  /\ raced' = raced \cup Overlaps(o) /\ UNCHANGED <<menu, rows, settings>>

\* It comes to another stage.
MovesTo(t, stage) ==
  Open(t) /\ call' = [call EXCEPT ![t].at = stage] /\ UNCHANGED <<menu, raced>>

\* Only where a transaction is changes, after it has begun.
LEMMA MovesOn ==
  ASSUME Shaped, NEW t \in 1..MaxCalls, NEW stage, call' = [call EXCEPT ![t].at = stage]
  PROVE  /\ Shaped'
         /\ \A u \in 1..MaxCalls : Op(u)' = Op(u) /\ Read(u)' = Read(u)
         /\ call'[t].at = stage
         /\ \A u \in 1..MaxCalls \ {t} : call'[u] = call[u]
<1>. DEFINE Rec(u) == [by |-> call[u].by, op |-> call[u].op, seen |-> call[u].seen, at |-> call[u].at]
<1>1. call = [u \in 1..MaxCalls |-> Rec(u)]
  BY DEF Shaped
<1>2. call' = [u \in 1..MaxCalls |-> IF u = t THEN [Rec(t) EXCEPT !.at = stage] ELSE Rec(u)]
  BY <1>1
<1>3. [Rec(t) EXCEPT !.at = stage] =
        [by |-> call[t].by, op |-> call[t].op, seen |-> call[t].seen, at |-> stage]
  OBVIOUS
<1>4. \A u \in 1..MaxCalls : /\ call'[u].by = call[u].by /\ call'[u].op = call[u].op
                             /\ call'[u].seen = call[u].seen
                             /\ call'[u].at = IF u = t THEN stage ELSE call[u].at
  BY <1>2, <1>3
<1>5. \A u \in 1..MaxCalls : call'[u] = [by |-> call'[u].by, op |-> call'[u].op,
                                         seen |-> call'[u].seen, at |-> call'[u].at]
  BY <1>2, <1>3
<1>6. Shaped'
  BY <1>2, <1>5 DEF Shaped
<1>7. \A u \in 1..MaxCalls \ {t} : call'[u] = call[u]
  BY <1>1, <1>2
<1>. QED  BY <1>4, <1>6, <1>7 DEF Op, Read

LEMMA Begun ==
  ASSUME Shaped, NEW t \in 1..MaxCalls, NEW o, NEW r, NEW stage, Begins(t, o, r, stage)
  PROVE  /\ Shaped' /\ Op(t)' = o /\ Read(t)' = r /\ call'[t].at = stage
         /\ \A u \in 1..MaxCalls \ {t} : call'[u] = call[u] /\ Op(u)' = Op(u) /\ Read(u)' = Read(u)
<1>. DEFINE Rec(u) == [by |-> call[u].by, op |-> call[u].op, seen |-> call[u].seen, at |-> call[u].at]
            New(th) == [by |-> th, op |-> o, seen |-> r, at |-> stage]
<1>1. call = [u \in 1..MaxCalls |-> Rec(u)]
  BY DEF Shaped
<1>0. PICK th : call' = [call EXCEPT ![t] = New(th)]
  BY DEF Begins
<1>2. call' = [u \in 1..MaxCalls |-> IF u = t THEN New(th) ELSE Rec(u)]
  BY <1>0, <1>1
<1>3. \A u \in 1..MaxCalls : call'[u] = [by |-> call'[u].by, op |-> call'[u].op,
                                         seen |-> call'[u].seen, at |-> call'[u].at]
  BY <1>2
<1>4. Shaped'
  BY <1>2, <1>3 DEF Shaped
<1>5. \A u \in 1..MaxCalls \ {t} : call'[u] = call[u]
  BY <1>1, <1>2
<1>. QED  BY <1>2, <1>4, <1>5 DEF Op, Read

LEMMA FreshTables ==
  /\ Fresh \in Tables /\ [Fresh EXCEPT !.repo = "indexing"] \in Tables
  /\ Fresh.repo = "none" /\ Fresh.pending = {} /\ Fresh.files \in [Paths -> Marks]
  /\ Fresh.failed \in [Pieces -> 0..MaxCalls] /\ \A c \in Pieces : Fresh.failed[c] = 0
<1>1. 0 \in 0..MaxCalls /\ -1 \in -1..MaxCalls
  BY MetadataAssumption DEF MetadataAssumption
<1>2. /\ [p \in Paths |-> "none"] \in [Paths -> Marks]
      /\ [c \in Pieces |-> 0] \in [Pieces -> 0..MaxCalls]
  BY <1>1 DEF Marks
<1>. QED  BY <1>1, <1>2 DEF Fresh, Tables

LEMMA MetadataInitInv == MetadataInit => MetadataIInv
<1>. SUFFICES ASSUME MetadataInit PROVE MetadataIInv
  OBVIOUS
<1>1. MaxCalls \in Nat /\ MaxTroubles \in Nat
  BY MetadataAssumption DEF MetadataAssumption
<1>2. /\ call = [t \in 1..MaxCalls |-> Unused] /\ raced = {} /\ misread = FALSE /\ menu \in Menus
      /\ rows \in {Fresh, [Fresh EXCEPT !.repo = "indexing"]}
      /\ settings = [k \in Keys |-> 0] /\ troubles = 0
  BY DEF MetadataInit
<1>3. rows \in Tables
  BY <1>2, FreshTables
<1>4. rows.pending = {} /\ \A c \in Pieces : rows.failed[c] = 0
  BY <1>2, FreshTables DEF Tables
<1>5. \A t \in 1..MaxCalls : call[t].at = "unused" /\ Op(t).kind = "none" /\ Op(t) \in Ops
  BY <1>2 DEF Unused, Op, Ops
<1>6. DOMAIN call = 1..MaxCalls
  BY <1>2
<1>7. settings \in [Keys -> 0..MaxCalls] /\ troubles \in 0..MaxTroubles
  BY <1>1, <1>2
<1>8. MetadataTypeOK
  BY <1>2, <1>3, <1>5, <1>6, <1>7 DEF MetadataTypeOK, Tables
<1>9. Shaped
  BY <1>2 DEF Shaped, Unused
<1>10. ReadsOK
  BY <1>5 DEF ReadsOK
<1>11. InOrder
  BY <1>1, <1>4, <1>5 DEF InOrder
<1>12. RivalsRaced /\ StatusFresh /\ PendingFresh /\ SettingsFresh /\ PendingIsOneSave
  BY <1>4, <1>5 DEF RivalsRaced, StatusFresh, PendingFresh, SettingsFresh, PendingIsOneSave, Open
<1>. QED  BY <1>8, <1>9, <1>10, <1>11, <1>12 DEF MetadataIInv, MetadataTypes

\* A transaction that has begun comes to another stage.
LEMMA MoveTypes ==
  ASSUME MetadataTypes, NEW t \in 1..MaxCalls, call[t].at # "unused",
         NEW stage \in {"left", "done", "raised"}, call' = [call EXCEPT ![t].at = stage],
         UNCHANGED menu, rows' \in Tables, settings' \in Settings,
         misread' \in BOOLEAN, troubles' \in 0..MaxTroubles,
         \A c \in Pieces, u \in 1..MaxCalls : call[u].at = "unused" => rows'.failed[c] < u
  PROVE  MetadataTypes'
<1>1. /\ Shaped'
      /\ \A u \in 1..MaxCalls : Op(u)' = Op(u) /\ Read(u)' = Read(u)
      /\ call'[t].at = stage
      /\ \A u \in 1..MaxCalls \ {t} : call'[u] = call[u]
  BY MovesOn DEF MetadataTypes
<1>2. ReadsOK'
  BY <1>1 DEF MetadataTypes, ReadsOK
<1>3. InOrder'
  BY <1>1 DEF MetadataTypes, InOrder
<1>4. DOMAIN call' = 1..MaxCalls /\ DOMAIN call = 1..MaxCalls
  BY <1>1 DEF MetadataTypes, Shaped
<1>5. MetadataTypeOK'
  BY <1>1, <1>4 DEF MetadataTypes, MetadataTypeOK, Tables, Settings
<1>. QED  BY <1>1, <1>2, <1>3, <1>5 DEF MetadataTypes

LEMMA Between ==
  ASSUME NEW a \in 1..MaxCalls, NEW b \in 1..MaxCalls
  PROVE  (a # b /\ ~(a < b) => b < a) /\ ~(a < a)
<1>1. MaxCalls \in Nat
  BY MetadataAssumption DEF MetadataAssumption
<1>. QED  BY <1>1

LEMMA BeginTypes ==
  ASSUME MetadataTypes, NEW t \in 1..MaxCalls, NEW o \in Ops, NEW r,
         NEW stage \in {"open", "raised"}, Begins(t, o, r, stage),
         o.kind = "save pending" => r \in SUBSET Pieces,
         o.kind = "fail" => r \in Nat /\ r < t,
         o.kind = "show" => r \in BOOLEAN,
         o.kind = "set"  => r \in Settings,
         misread' \in BOOLEAN, troubles' \in 0..MaxTroubles
  PROVE  MetadataTypes'
<1>0. /\ UNCHANGED <<menu, rows, settings>>
      /\ \A u \in 1..MaxCalls : u < t => call[u].at # "unused"
  BY DEF Begins
<1>1. /\ Shaped' /\ Op(t)' = o /\ Read(t)' = r /\ call'[t].at = stage
      /\ \A u \in 1..MaxCalls \ {t} : call'[u] = call[u] /\ Op(u)' = Op(u) /\ Read(u)' = Read(u)
  BY Begun DEF MetadataTypes
<1>2. ReadsOK'
  BY <1>0, <1>1 DEF MetadataTypes, ReadsOK
<1>4. ASSUME NEW v \in 1..MaxCalls, call'[v].at = "unused"
      PROVE  /\ Op(v)'.kind = "none"
             /\ \A c \in Pieces : rows'.failed[c] < v
             /\ \A u \in 1..MaxCalls : v < u => call'[u].at = "unused"
  <2>1. v # t
    BY <1>1, <1>4
  <2>2. call'[v] = call[v] /\ Op(v)' = Op(v)
    BY <1>1, <2>1
  <2>3. call[v].at = "unused"
    BY <1>4, <2>2
  <2>4. ~(v < t)
    BY <1>0, <2>3
  <2>5. t < v
    BY <2>1, <2>4, Between
  <2>6. \A u \in 1..MaxCalls : v < u => u # t
    <3>1. ~(v < t)
      BY <2>4
    <3>. QED  BY <3>1
  <2>7. /\ Op(v).kind = "none" /\ \A c \in Pieces : rows.failed[c] < v
        /\ \A u \in 1..MaxCalls : v < u => call[u].at = "unused"
    BY <2>3 DEF MetadataTypes, InOrder
  <2>8. \A u \in 1..MaxCalls : v < u => call'[u].at = "unused"
    BY <1>1, <2>6, <2>7
  <2>. QED  BY <1>0, <2>2, <2>7, <2>8
<1>7. InOrder'
  BY <1>4 DEF InOrder
<1>5. DOMAIN call' = 1..MaxCalls /\ DOMAIN call = 1..MaxCalls
  BY <1>1 DEF MetadataTypes, Shaped
<1>6. MetadataTypeOK'
  BY <1>0, <1>1, <1>5 DEF MetadataTypes, MetadataTypeOK, Tables, Settings
<1>. QED  BY <1>1, <1>2, <1>6, <1>7 DEF MetadataTypes

LEMMA SeenTypes ==
  ASSUME MetadataTypes, NEW t \in 1..MaxCalls, call[t].at = "unused", NEW o \in Ops
  PROVE  /\ o.kind = "save pending" => Seen(o) = rows.pending /\ Seen(o) \in SUBSET Pieces
         /\ o.kind = "fail" => Seen(o) \in Nat /\ Seen(o) < t
         /\ o.kind = "show" => Seen(o) \in BOOLEAN
<1>1. rows \in Tables
  BY DEF MetadataTypes, MetadataTypeOK, Tables
<1>2. CASE o.kind = "save pending"
  BY <1>1, <1>2 DEF Seen, Tables
<1>3. CASE o.kind = "fail"
  <2>1. o.piece \in Pieces /\ Seen(o) = rows.failed[o.piece]
    BY <1>3, OpFields DEF Seen
  <2>2. MaxCalls \in Nat
    BY MetadataAssumption DEF MetadataAssumption
  <2>3. rows.failed[o.piece] \in 0..MaxCalls
    BY <1>1, <2>1 DEF Tables
  <2>. QED  BY <1>3, <2>1, <2>2, <2>3 DEF MetadataTypes, InOrder
<1>4. CASE o.kind = "show"
  BY <1>1, <1>4 DEF Seen, Tables
<1>. QED  BY <1>2, <1>3, <1>4

\* What a transaction that writes leaves in the tables.
LEMMA CommitTables ==
  ASSUME MetadataTypes, NEW t \in 1..MaxCalls,
         \/ Create(t) \/ UpdateStatus(t) \/ Delete(t) \/ Mark(t) \/ ClearFiles(t)
         \/ SavePending(t) \/ ClearPending(t) \/ SaveFailed(t) \/ ClearFailed(t)
         \/ InitProgress(t) \/ UpdateProgress(t) \/ ClearProgress(t) \/ SaveLive(t) \/ DeleteLive(t)
  PROVE  /\ rows' \in Tables
         /\ \A c \in Pieces, u \in 1..MaxCalls : call[u].at = "unused" => rows'.failed[c] < u
<1>0. /\ rows \in Tables /\ Op(t) \in Ops /\ MaxCalls \in Nat
      /\ 0 \in -1..MaxCalls /\ -1 \in -1..MaxCalls /\ t \in -1..MaxCalls
  <2>1. MaxCalls \in Nat
    BY MetadataAssumption DEF MetadataAssumption
  <2>2. 0 \in -1..MaxCalls /\ -1 \in -1..MaxCalls /\ t \in -1..MaxCalls
    BY <2>1
  <2>. QED  BY <2>1, <2>2 DEF MetadataTypes, MetadataTypeOK, ReadsOK, Tables
<1>1. \A c \in Pieces, u \in 1..MaxCalls : call[u].at = "unused" => rows.failed[c] < u
  BY DEF MetadataTypes, InOrder
<1>2. \A c \in Pieces, u \in 1..MaxCalls : call[u].at = "unused" => Fresh.failed[c] < u
  BY <1>0, FreshTables
<1>3. ASSUME rows' \in Tables, rows'.failed = rows.failed \/ rows'.failed = Fresh.failed
      PROVE  \A c \in Pieces, u \in 1..MaxCalls : call[u].at = "unused" => rows'.failed[c] < u
  BY <1>1, <1>2, <1>3
<1>4. CASE \/ Create(t) \/ UpdateStatus(t) \/ ClearPending(t) \/ SavePending(t)
  <2>1. CASE Create(t)
    BY <2>1, <1>0, <1>3 DEF Create, Commit, Tables
  <2>2. CASE UpdateStatus(t)
    <3>1. Op(t).to \in {"pending", "indexing", "paused", "ready", "error"}
      BY <2>2, <1>0, OpFields DEF UpdateStatus, Does, Op
    <3>. QED  BY <2>2, <3>1, <1>0, <1>3 DEF UpdateStatus, Commit, Tables
  <2>3. CASE ClearPending(t)
    BY <2>3, <1>0, <1>3 DEF ClearPending, Commit, Tables
  <2>4. CASE SavePending(t)
    <3>1. Op(t).pieces \in SUBSET Pieces
      BY <2>4, <1>0, OpFields DEF SavePending, Does, Op
    <3>. QED  BY <2>4, <3>1, <1>0, <1>3 DEF SavePending, Commit, Tables
  <2>. QED  BY <1>4, <2>1, <2>2, <2>3, <2>4
<1>5. CASE Delete(t)
  BY <1>5, <1>3, FreshTables DEF Delete, Commit
<1>6. CASE Mark(t)
  <2>1. Op(t).path \in Paths /\ Op(t).as \in Marks
    BY <1>6, <1>0, OpFields DEF Mark, Does, Op
  <2>. QED  BY <1>6, <2>1, <1>0, <1>3 DEF Mark, Commit, Tables
<1>7. CASE ClearFiles(t)
  BY <1>7, <1>0, <1>3, FreshTables DEF ClearFiles, Commit, Tables
<1>8. CASE SaveFailed(t)
  <2>1. Op(t).piece \in Pieces /\ Read(t) \in Nat /\ Read(t) < t /\ call[t].at # "unused"
    BY <1>8, <1>0, OpFields DEF SaveFailed, Does, Open, Op, MetadataTypes, ReadsOK
  <2>2. PICK n \in {rows.failed[Op(t).piece], Read(t) + 1} :
          rows' = [rows EXCEPT !.failed[Op(t).piece] = n]
    BY <1>8 DEF SaveFailed, Commit
  <2>3. rows.failed[Op(t).piece] \in 0..MaxCalls /\ Read(t) + 1 \in 0..MaxCalls
    BY <1>0, <2>1 DEF Tables
  <2>4. rows' \in Tables /\ rows'.failed = [rows.failed EXCEPT ![Op(t).piece] = n]
    BY <1>0, <2>2, <2>3 DEF Tables
  <2>5. \A u \in 1..MaxCalls : call[u].at = "unused" => t < u
    <3>1. ASSUME NEW u \in 1..MaxCalls, call[u].at = "unused" PROVE t < u
      <4>1. u # t /\ ~(u < t)
        BY <2>1, <3>1 DEF MetadataTypes, InOrder
      <4>. QED  BY <4>1, Between
    <3>. QED  BY <3>1
  <2>6. \A u \in 1..MaxCalls : call[u].at = "unused" => n < u
    BY <1>0, <1>1, <2>1, <2>2, <2>5
  <2>7. \A c \in Pieces : rows'.failed[c] = IF c = Op(t).piece THEN n ELSE rows.failed[c]
    BY <1>0, <2>4 DEF Tables
  <2>. QED  BY <1>1, <2>4, <2>6, <2>7
<1>9. CASE ClearFailed(t)
  BY <1>9, <1>0, <1>3, FreshTables DEF ClearFailed, Commit, Tables
<1>10. CASE InitProgress(t) \/ UpdateProgress(t) \/ ClearProgress(t)
  <2>1. PICK n \in -1..MaxCalls : rows' = [rows EXCEPT !.progress = n]
    BY <1>0, <1>10 DEF InitProgress, UpdateProgress, ClearProgress, Commit
  <2>. QED  BY <2>1, <1>0, <1>3 DEF Tables
<1>11. CASE SaveLive(t) \/ DeleteLive(t)
  <2>1. PICK b \in BOOLEAN : rows' = [rows EXCEPT !.live = b]
    BY <1>0, <1>11 DEF SaveLive, DeleteLive, Commit
  <2>. QED  BY <2>1, <1>0, <1>3 DEF Tables
<1>. QED  BY <1>4, <1>5, <1>6, <1>7, <1>8, <1>9, <1>10, <1>11

LEMMA OverlapRaces ==
  ASSUME Shaped, NEW o, NEW u \in 1..MaxCalls, Open(u), Rivals(o, Op(u))
  PROVE  o.kind \in Overlaps(o)
  BY DEF Overlaps, Op, Shaped

\* A call begins with what holds at its beginning.
LEMMA BeginKeeps ==
  ASSUME MetadataIInv, NEW t \in 1..MaxCalls, NEW o \in Ops, NEW r, NEW stage \in {"open", "raised"},
         Begins(t, o, r, stage), MetadataTypes',
         o.kind = "status" /\ stage = "open" => o.to \in NextStatus(rows.repo),
         o.kind = "save pending" => rows.pending \subseteq r,
         o.kind = "set" /\ ~misread' => \A k \in Keys : k # o.key => r[k] = settings[k],
         ~misread' => ~misread
  PROVE  MetadataIInv'
<1>1. /\ Op(t)' = o /\ Read(t)' = r /\ call'[t].at = stage
      /\ \A u \in 1..MaxCalls \ {t} : call'[u] = call[u] /\ Op(u)' = Op(u) /\ Read(u)' = Read(u)
  BY Begun DEF MetadataIInv, MetadataTypes
<1>2. /\ \A u \in 1..MaxCalls \ {t} : Open(u)' <=> Open(u)
      /\ ~Open(t) /\ raced \subseteq raced' /\ UNCHANGED <<rows, settings>>
  BY <1>1 DEF Open, Begins
<1>3. \A u \in 1..MaxCalls : Open(u) /\ Rivals(o, Op(u)) => o.kind \in raced'
  BY OverlapRaces DEF Begins, MetadataIInv, MetadataTypes
<1>4. RivalsRaced'
  <2>1. ASSUME NEW u \in 1..MaxCalls, NEW v \in 1..MaxCalls, u # v, Open(u)', Open(v)'
        PROVE  /\ Op(u)'.kind = "status" /\ Op(v)'.kind \in {"status", "delete"}
                    => {"status", "delete"} \cap raced' # {}
               /\ Op(u)'.kind = "save pending" /\ Op(v)'.kind = "save pending"
                    => "save pending" \in raced'
               /\ Op(u)'.kind = "set" /\ Op(v)'.kind = "set" => "set" \in raced'
    <3>1. CASE u # t /\ v # t
      <4>1. Open(u) /\ Open(v) /\ Op(u)' = Op(u) /\ Op(v)' = Op(v)
        BY <1>1, <1>2, <2>1, <3>1
      <4>. QED  BY <1>2, <2>1, <4>1 DEF MetadataIInv, RivalsRaced
    <3>2. CASE u = t
      <4>1. Open(v) /\ Op(u)' = o /\ Op(v)' = Op(v)
        BY <1>1, <1>2, <2>1, <3>2
      <4>. QED  BY <1>3, <4>1 DEF Rivals
    <3>3. CASE v = t
      <4>1. Open(u) /\ Op(v)' = o /\ Op(u)' = Op(u)
        BY <1>1, <1>2, <2>1, <3>3
      <4>. QED  BY <1>3, <4>1 DEF Rivals
    <3>. QED  BY <3>1, <3>2, <3>3
  <2>. QED  BY <2>1 DEF RivalsRaced
<1>5. StatusFresh'
  <2>1. ASSUME {"status", "delete"} \cap raced' = {}, NEW u \in 1..MaxCalls, Open(u)',
               Op(u)'.kind = "status"
        PROVE  Op(u)'.to \in NextStatus(rows.repo)
    <3>1. CASE u = t
      BY <1>1, <2>1, <3>1 DEF Open
    <3>2. CASE u # t
      BY <1>1, <1>2, <2>1, <3>2 DEF StatusFresh, MetadataIInv
    <3>. QED  BY <3>1, <3>2
  <2>2. NextStatus(rows.repo)' = NextStatus(rows.repo)
    BY <1>2
  <2>. QED  BY <2>1, <2>2 DEF StatusFresh
<1>6. PendingFresh'
  BY <1>1, <1>2 DEF PendingFresh, MetadataIInv
<1>7. SettingsFresh'
  <2>1. ASSUME ~misread', "set" \notin raced', NEW u \in 1..MaxCalls, Open(u)',
               Op(u)'.kind = "set", NEW k \in Keys, k # Op(u)'.key
        PROVE  Read(u)'[k] = settings[k]
    <3>1. CASE u = t
      BY <1>1, <2>1, <3>1
    <3>2. CASE u # t
      <4>1. ~misread /\ "set" \notin raced
        BY <1>2, <2>1
      <4>2. Open(u) /\ Op(u)' = Op(u) /\ Read(u)' = Read(u)
        BY <1>1, <1>2, <2>1, <3>2
      <4>. QED  BY <2>1, <4>1, <4>2 DEF SettingsFresh, MetadataIInv
    <3>. QED  BY <3>1, <3>2
  <2>. QED  BY <2>1, <1>2 DEF SettingsFresh
<1>8. PendingIsOneSave'
  <2>1. DOMAIN call = 1..MaxCalls /\ DOMAIN call' = 1..MaxCalls
    BY DEF MetadataIInv, MetadataTypes, Shaped
  <2>2. call[t].at = "unused"
    BY DEF Begins
  <2>3. CASE rows.pending = {} \/ "save pending" \in raced
    BY <1>2, <2>3 DEF PendingIsOneSave
  <2>4. CASE rows.pending # {} /\ "save pending" \notin raced
    <3>1. PICK u \in 1..MaxCalls : /\ call[u].at = "done" /\ Op(u).kind = "save pending"
                                  /\ rows.pending = Op(u).pieces
      BY <2>1, <2>4 DEF PendingIsOneSave, MetadataIInv
    <3>2. u # t
      BY <2>2, <3>1
    <3>3. call'[u].at = "done" /\ Op(u)' = Op(u) /\ rows'.pending = rows.pending
      BY <1>1, <1>2, <3>1, <3>2
    <3>. QED  BY <2>1, <3>1, <3>3 DEF PendingIsOneSave
  <2>. QED  BY <2>3, <2>4
<1>. QED  BY <1>4, <1>5, <1>6, <1>7, <1>8 DEF MetadataIInv

\* A transaction that comes to another stage keeps what is left of the others.
LEMMA MoveKeeps ==
  ASSUME MetadataIInv, NEW t \in 1..MaxCalls, NEW stage \in {"left", "done", "raised"},
         MovesTo(t, stage)
  PROVE  /\ \A u \in 1..MaxCalls : Op(u)' = Op(u) /\ Read(u)' = Read(u) /\ (Open(u)' => Open(u))
         /\ stage # "left" => ~Open(t)'
         /\ RivalsRaced'
         /\ UNCHANGED rows => StatusFresh'
         /\ rows'.pending \subseteq rows.pending => PendingFresh'
         /\ UNCHANGED settings /\ (~misread' => ~misread) => SettingsFresh'
         /\ rows'.pending = {} \/ rows'.pending = rows.pending => PendingIsOneSave'
<1>1. /\ Shaped'
      /\ \A u \in 1..MaxCalls : Op(u)' = Op(u) /\ Read(u)' = Read(u)
      /\ call'[t].at = stage
      /\ \A u \in 1..MaxCalls \ {t} : call'[u] = call[u]
  BY MovesOn DEF MetadataIInv, MetadataTypes, MovesTo
<1>2. /\ \A u \in 1..MaxCalls : Open(u)' => Open(u)
      /\ stage # "left" => ~Open(t)'
  BY <1>1 DEF MovesTo, Open
<1>3. UNCHANGED raced
  BY DEF MovesTo
<1>4. RivalsRaced'
  BY <1>1, <1>2, <1>3 DEF RivalsRaced, MetadataIInv
<1>5. ASSUME UNCHANGED rows PROVE StatusFresh'
  BY <1>1, <1>2, <1>3, <1>5 DEF StatusFresh, MetadataIInv
<1>6. ASSUME rows'.pending \subseteq rows.pending PROVE PendingFresh'
  BY <1>1, <1>2, <1>3, <1>6 DEF PendingFresh, MetadataIInv
<1>7. ASSUME UNCHANGED settings, ~misread' => ~misread PROVE SettingsFresh'
  BY <1>1, <1>2, <1>3, <1>7 DEF SettingsFresh, MetadataIInv
<1>8. ASSUME rows'.pending = {} \/ rows'.pending = rows.pending PROVE PendingIsOneSave'
  <2>1. DOMAIN call = 1..MaxCalls /\ DOMAIN call' = 1..MaxCalls
    BY <1>1 DEF MetadataIInv, MetadataTypes, Shaped
  <2>2. CASE rows'.pending = {} \/ rows.pending = {} \/ "save pending" \in raced
    BY <1>3, <1>8, <2>2 DEF PendingIsOneSave
  <2>3. CASE rows'.pending = rows.pending /\ rows.pending # {} /\ "save pending" \notin raced
    <3>1. PICK u \in 1..MaxCalls : /\ call[u].at = "done" /\ Op(u).kind = "save pending"
                                  /\ rows.pending = Op(u).pieces
      BY <2>1, <2>3 DEF PendingIsOneSave, MetadataIInv
    <3>2. u # t
      BY <3>1 DEF MovesTo, Open
    <3>3. call'[u].at = "done" /\ Op(u)' = Op(u)
      BY <1>1, <3>1, <3>2
    <3>. QED  BY <2>1, <2>3, <3>1, <3>3 DEF PendingIsOneSave
  <2>. QED  BY <1>8, <2>2, <2>3
<1>. QED  BY <1>1, <1>2, <1>4, <1>5, <1>6, <1>7, <1>8

\* What a step keeps, and what it may do to the tables.
Kept == MetadataIInv' /\ StatusStepsValid /\ SettingsKept

LEMMA QuietStep ==
  ASSUME UNCHANGED <<rows, settings>>
  PROVE  StatusStepsValid /\ SettingsKept
  BY DEF StatusStepsValid, SettingsKept

LEMMA BeginCallKeeps ==
  ASSUME MetadataIInv, NEW th \in Threads, NEW t \in 1..MaxCalls, NEW o \in menu,
         BeginCall(th, t, o)
  PROVE  Kept
<1>. DEFINE stage == IF Refused(o) THEN "raised" ELSE "open"
<1>1. MetadataTypes /\ DOMAIN call = 1..MaxCalls
  BY DEF MetadataIInv, MetadataTypes, Shaped
<1>2. o \in Ops
  BY <1>1, MetadataAssumption DEF MetadataAssumption, MetadataTypes, MetadataTypeOK, Ops
<1>3. /\ call[t].at = "unused" /\ o.kind \notin {"set", "server"}
      /\ call' = [call EXCEPT ![t] = [by |-> th, op |-> o, seen |-> Seen(o), at |-> stage]]
      /\ UNCHANGED <<menu, rows, settings, misread, troubles>>
  BY DEF BeginCall
<1>4. stage \in {"open", "raised"}
  OBVIOUS
<1>5. Begins(t, o, Seen(o), stage)
  BY <1>1 DEF BeginCall, Begins
<1>6. /\ o.kind = "save pending" => Seen(o) = rows.pending /\ Seen(o) \in SUBSET Pieces
      /\ o.kind = "fail" => Seen(o) \in Nat /\ Seen(o) < t
      /\ o.kind = "show" => Seen(o) \in BOOLEAN
  BY <1>1, <1>2, <1>3, SeenTypes
<1>7. o.kind = "status" /\ stage = "open" => o.to \in NextStatus(rows.repo)
  BY DEF Refused
<1>8. misread' \in BOOLEAN /\ troubles' \in 0..MaxTroubles /\ misread' = misread
  BY <1>1, <1>3 DEF MetadataTypes, MetadataTypeOK
<1>. HIDE DEF stage
<1>9. MetadataTypes'
  BY <1>1, <1>2, <1>3, <1>4, <1>5, <1>6, <1>8, BeginTypes
<1>10. /\ o.kind = "save pending" => rows.pending \subseteq Seen(o)
       /\ o.kind = "set" /\ ~misread' => \A k \in Keys : k # o.key => Seen(o)[k] = settings[k]
       /\ ~misread' => ~misread
  <2>1. o.kind # "set"
    BY <1>3
  <2>2. o.kind = "save pending" => rows.pending \subseteq Seen(o)
    BY <1>6
  <2>3. ~misread' => ~misread
    BY <1>8
  <2>. QED  BY <2>1, <2>2, <2>3
<1>11. MetadataIInv'
  BY <1>2, <1>4, <1>5, <1>7, <1>9, <1>10, BeginKeeps
<1>. QED  BY <1>3, <1>11, QuietStep DEF Kept

LEMMA SaveBegins ==
  ASSUME MetadataIInv, NEW th \in Threads, NEW t \in 1..MaxCalls, NEW k \in Keys,
         NEW base \in {settings, LoadFailed}, NEW v \in {0, t},
         LoadThenSave(th, t, k, base, Merged(base, k, v))
  PROVE  Kept
<1>. DEFINE o == [kind |-> "set", key |-> k]
            r == Merged(base, k, v)
<1>1. MetadataTypes /\ DOMAIN call = 1..MaxCalls
  BY DEF MetadataIInv, MetadataTypes, Shaped
<1>2. o \in Ops /\ o.kind = "set" /\ o.key = k
  BY DEF Ops
<1>3. MaxCalls \in Nat /\ MaxTroubles \in Nat
  BY MetadataAssumption DEF MetadataAssumption
<1>4. settings \in Settings /\ LoadFailed \in Settings /\ troubles \in 0..MaxTroubles
      /\ misread \in BOOLEAN
  BY <1>1, <1>3 DEF MetadataTypes, MetadataTypeOK, Settings, LoadFailed
<1>5. base \in Settings /\ v \in 0..MaxCalls
  BY <1>3, <1>4
<1>6. r \in Settings /\ \A l \in Keys : l # k => r[l] = base[l]
  BY <1>5 DEF Merged, Settings
<1>7. Overlaps([kind |-> "set"]) = Overlaps(o)
  BY DEF Overlaps, Rivals
<1>8. /\ call[t].at = "unused" /\ \A u \in 1..MaxCalls : u < t => call[u].at # "unused"
      /\ call' = [call EXCEPT ![t] = [by |-> th, op |-> o, seen |-> r, at |-> "open"]]
      /\ raced' = raced \cup Overlaps([kind |-> "set"])
      /\ UNCHANGED <<menu, rows, settings>>
      /\ misread' = (misread \/ base # settings)
      /\ troubles' \in {troubles, troubles + 1} /\ troubles' <= MaxTroubles
  BY <1>1 DEF LoadThenSave
<1>. HIDE DEF o, r
<1>9. Begins(t, o, r, "open")
  BY <1>7, <1>8 DEF Begins
<1>10. troubles' \in 0..MaxTroubles
  BY <1>3, <1>4, <1>8
<1>11. misread' \in BOOLEAN /\ (~misread' => ~misread /\ base = settings)
  BY <1>8
<1>12. MetadataTypes'
  BY <1>1, <1>2, <1>6, <1>9, <1>10, <1>11, BeginTypes
<1>13. MetadataIInv'
  BY <1>2, <1>6, <1>9, <1>11, <1>12, BeginKeeps
<1>. QED  BY <1>8, <1>13, QuietStep DEF Kept

\* A transaction is done with the tables.
LEMMA CommitKeeps ==
  ASSUME MetadataIInv, NEW t \in 1..MaxCalls,
         \/ Create(t) \/ UpdateStatus(t) \/ Delete(t) \/ Mark(t) \/ ClearFiles(t)
         \/ SavePending(t) \/ ClearPending(t) \/ SaveFailed(t) \/ ClearFailed(t)
         \/ InitProgress(t) \/ UpdateProgress(t) \/ ClearProgress(t) \/ SaveLive(t) \/ DeleteLive(t)
  PROVE  Kept
<1>1. MetadataTypes /\ DOMAIN call = 1..MaxCalls /\ rows \in Tables
  BY DEF MetadataIInv, MetadataTypes, MetadataTypeOK, Shaped, Tables
<1>2. /\ Open(t) /\ call' = [call EXCEPT ![t].at = "done"]
      /\ UNCHANGED <<menu, settings, raced, misread, troubles>>
  BY DEF Create, UpdateStatus, Delete, Mark, ClearFiles, SavePending, ClearPending, SaveFailed,
         ClearFailed, InitProgress, UpdateProgress, ClearProgress, SaveLive, DeleteLive, Does, Commit
<1>3. call[t].at # "unused" /\ MovesTo(t, "done")
  BY <1>2 DEF Open, MovesTo
<1>4. /\ rows' \in Tables
      /\ \A c \in Pieces, u \in 1..MaxCalls : call[u].at = "unused" => rows'.failed[c] < u
  BY <1>1, CommitTables
<1>5. settings' \in Settings /\ misread' \in BOOLEAN /\ troubles' \in 0..MaxTroubles
  BY <1>1, <1>2 DEF MetadataTypes, MetadataTypeOK, Settings
<1>6. MetadataTypes'
  BY <1>1, <1>2, <1>3, <1>4, <1>5, MoveTypes
<1>7. /\ \A u \in 1..MaxCalls : Op(u)' = Op(u) /\ Read(u)' = Read(u) /\ (Open(u)' => Open(u))
      /\ ~Open(t)' /\ RivalsRaced' /\ SettingsFresh'
      /\ rows'.pending \subseteq rows.pending => PendingFresh'
      /\ rows'.pending = {} \/ rows'.pending = rows.pending => PendingIsOneSave'
  BY <1>2, <1>3, MoveKeeps
<1>8. SettingsKept
  BY <1>2 DEF SettingsKept
\* Other calls do not touch the status, or set it where none is open that checked it.
<1>9. ASSUME rows'.repo = rows.repo PROVE StatusFresh' /\ StatusStepsValid
  BY <1>2, <1>7, <1>9 DEF StatusFresh, StatusStepsValid, MetadataIInv
<1>10. ASSUME rows'.pending = {} \/ rows'.pending = rows.pending,
              rows'.repo = rows.repo
       PROVE  Kept
  BY <1>6, <1>7, <1>8, <1>9, <1>10 DEF Kept, MetadataIInv
<1>11. CASE Create(t)
  <2>1. rows.repo = "none" /\ rows'.repo = "pending" /\ rows'.pending = rows.pending
    BY <1>1, <1>11 DEF Create, Does, Clashes, Commit, Op, Tables
  <2>2. NextStatus(rows.repo) = {}
    BY <2>1 DEF NextStatus
  <2>3. StatusFresh' /\ StatusStepsValid
    BY <1>2, <1>7, <2>1, <2>2 DEF StatusFresh, StatusStepsValid, MetadataIInv
  <2>. QED  BY <1>6, <1>7, <1>8, <2>1, <2>3 DEF Kept, MetadataIInv
<1>12. CASE UpdateStatus(t)
  <2>1. /\ Op(t).kind = "status" /\ rows'.pending = rows.pending
        /\ rows'.repo \in {rows.repo, Op(t).to}
    BY <1>1, <1>12 DEF UpdateStatus, Does, Commit, Op, Tables
  <2>2. {"status", "delete"} \cap raced = {} => Op(t).to \in NextStatus(rows.repo)
    BY <1>2, <2>1 DEF StatusFresh, MetadataIInv
  <2>3. \A u \in 1..MaxCalls \ {t} : Open(u) /\ Op(u).kind = "status"
                                       => {"status", "delete"} \cap raced # {}
    BY <1>2, <2>1 DEF RivalsRaced, MetadataIInv
  <2>4. StatusFresh'
    BY <1>2, <1>7, <2>3 DEF StatusFresh
  <2>5. StatusStepsValid
    BY <2>1, <2>2 DEF StatusStepsValid
  <2>. QED  BY <1>6, <1>7, <1>8, <2>1, <2>4, <2>5 DEF Kept, MetadataIInv
<1>13. CASE Delete(t)
  <2>1. Op(t).kind = "delete" /\ rows' = Fresh
    BY <1>13 DEF Delete, Does, Commit, Op
  <2>2. rows'.repo = "none" /\ rows'.pending = {}
    BY <2>1, FreshTables
  <2>3. \A u \in 1..MaxCalls \ {t} : Open(u) /\ Op(u).kind = "status"
                                       => {"status", "delete"} \cap raced # {}
    BY <1>2, <2>1 DEF RivalsRaced, MetadataIInv
  <2>4. StatusFresh'
    BY <1>2, <1>7, <2>3 DEF StatusFresh
  <2>5. StatusStepsValid
    BY <2>2 DEF StatusStepsValid
  <2>. QED  BY <1>6, <1>7, <1>8, <2>2, <2>4, <2>5 DEF Kept, MetadataIInv
<1>14. CASE SavePending(t)
  <2>1. /\ Op(t).kind = "save pending" /\ rows'.repo = rows.repo
        /\ rows'.pending = (rows.pending \ Read(t)) \cup Op(t).pieces
    BY <1>1, <1>14 DEF SavePending, Does, Commit, Op, Tables
  <2>2. "save pending" \notin raced => rows'.pending = Op(t).pieces
    BY <1>2, <2>1 DEF PendingFresh, MetadataIInv
  <2>3. \A u \in 1..MaxCalls \ {t} : Open(u) /\ Op(u).kind = "save pending"
                                       => "save pending" \in raced
    BY <1>2, <2>1 DEF RivalsRaced, MetadataIInv
  <2>4. PendingFresh'
    BY <1>2, <1>7, <2>3 DEF PendingFresh
  <2>5. call'[t].at = "done" /\ DOMAIN call' = 1..MaxCalls
    BY <1>1, <1>2, MovesOn DEF MetadataTypes
  <2>6. PendingIsOneSave'
    BY <1>2, <1>7, <2>1, <2>2, <2>5 DEF PendingIsOneSave
  <2>. QED  BY <1>6, <1>7, <1>8, <1>9, <2>1, <2>4, <2>6 DEF Kept, MetadataIInv
<1>15. CASE \/ Mark(t) \/ ClearFiles(t) \/ ClearPending(t) \/ SaveFailed(t) \/ ClearFailed(t)
            \/ InitProgress(t) \/ UpdateProgress(t) \/ ClearProgress(t) \/ SaveLive(t) \/ DeleteLive(t)
  <2>1. rows'.repo = rows.repo /\ (rows'.pending = {} \/ rows'.pending = rows.pending)
    <3>1. CASE Mark(t) \/ SaveFailed(t)
      BY <1>1, <3>1 DEF Mark, SaveFailed, Commit, Tables
    <3>2. CASE ClearFiles(t) \/ ClearPending(t) \/ ClearFailed(t)
      BY <1>1, <3>2 DEF ClearFiles, ClearPending, ClearFailed, Commit, Tables
    <3>3. CASE InitProgress(t) \/ UpdateProgress(t) \/ ClearProgress(t)
      BY <1>1, <3>3 DEF InitProgress, UpdateProgress, ClearProgress, Commit, Tables
    <3>4. CASE SaveLive(t) \/ DeleteLive(t)
      BY <1>1, <3>4 DEF SaveLive, DeleteLive, Commit, Tables
    <3>. QED  BY <1>15, <3>1, <3>2, <3>3, <3>4
  <2>. QED  BY <2>1, <1>10
<1>. QED  BY <1>11, <1>12, <1>13, <1>14, <1>15

\* A transaction saves the settings, raises, or is given up on.
LEMMA OtherKeeps ==
  ASSUME MetadataIInv, NEW t \in 1..MaxCalls,
         SaveSettings(t) \/ Violates(t) \/ Fails(t) \/ TimesOut(t)
  PROVE  Kept
<1>1. MetadataTypes /\ DOMAIN call = 1..MaxCalls /\ rows \in Tables /\ settings \in Settings
      /\ misread \in BOOLEAN /\ troubles \in 0..MaxTroubles /\ MaxTroubles \in Nat
  BY MetadataAssumption
  DEF MetadataAssumption, MetadataIInv, MetadataTypes, MetadataTypeOK, Shaped, Tables, Settings
<1>2. \A c \in Pieces, u \in 1..MaxCalls : call[u].at = "unused" => rows.failed[c] < u
  BY <1>1 DEF MetadataTypes, InOrder
<1>3. CASE SaveSettings(t)
  <2>1. /\ Open(t) /\ Op(t).kind = "set" /\ settings' = Read(t)
        /\ call' = [call EXCEPT ![t].at = "done"]
        /\ UNCHANGED <<menu, rows, raced, misread, troubles>>
    BY <1>3 DEF SaveSettings, Does, Op
  <2>2. call[t].at # "unused" /\ MovesTo(t, "done")
    BY <2>1 DEF Open, MovesTo
  <2>3. settings' \in Settings
    BY <1>1, <2>1 DEF MetadataTypes, ReadsOK
  <2>4. MetadataTypes'
    BY <1>1, <1>2, <2>1, <2>2, <2>3, MoveTypes
  <2>5. /\ \A u \in 1..MaxCalls : Op(u)' = Op(u) /\ Read(u)' = Read(u) /\ (Open(u)' => Open(u))
        /\ ~Open(t)' /\ RivalsRaced' /\ StatusFresh' /\ PendingFresh' /\ PendingIsOneSave'
    BY <2>1, <2>2, MoveKeeps
  <2>6. \A u \in 1..MaxCalls \ {t} : Open(u) /\ Op(u).kind = "set" => "set" \in raced
    BY <2>1 DEF RivalsRaced, MetadataIInv
  <2>7. SettingsFresh'
    BY <2>1, <2>5, <2>6 DEF SettingsFresh
  <2>8. SettingsKept
    BY <2>1 DEF SettingsFresh, SettingsKept, MetadataIInv
  <2>9. StatusStepsValid
    BY <2>1 DEF StatusStepsValid
  <2>. QED  BY <2>4, <2>5, <2>7, <2>8, <2>9 DEF Kept, MetadataIInv
<1>4. CASE Violates(t) \/ Fails(t) \/ TimesOut(t)
  <2>1. PICK stage \in {"left", "raised"} : call' = [call EXCEPT ![t].at = stage]
    BY <1>4 DEF Violates, Fails, TimesOut
  <2>2. /\ Open(t) /\ UNCHANGED <<menu, rows, settings, raced>>
        /\ misread' \in {misread, (misread \/ Op(t).kind = "set")}
        /\ troubles' \in {troubles, troubles + 1} /\ (troubles' # troubles => troubles < MaxTroubles)
    BY <1>4 DEF Violates, Fails, TimesOut, Open
  <2>3. call[t].at # "unused" /\ MovesTo(t, stage)
    BY <2>1, <2>2 DEF Open, MovesTo
  <2>4. troubles' \in 0..MaxTroubles
    BY <1>1, <2>2
  <2>5. misread' \in BOOLEAN /\ (~misread' => ~misread)
    BY <1>1, <2>2
  <2>6. MetadataTypes'
    BY <1>1, <1>2, <2>1, <2>2, <2>3, <2>4, <2>5, MoveTypes
  <2>7. RivalsRaced' /\ StatusFresh' /\ PendingFresh' /\ SettingsFresh' /\ PendingIsOneSave'
    BY <2>2, <2>3, <2>5, MoveKeeps
  <2>. QED  BY <2>2, <2>6, <2>7, QuietStep DEF Kept, MetadataIInv
<1>. QED  BY <1>3, <1>4

LEMMA MetadataStep == MetadataIInv /\ [MetadataNext]_metaVars => Kept
<1>. SUFFICES ASSUME MetadataIInv, [MetadataNext]_metaVars PROVE Kept
  OBVIOUS
<1>1. DOMAIN call = 1..MaxCalls
  BY DEF MetadataIInv, MetadataTypes, Shaped
<1>2. ASSUME NEW th \in Threads, NEW t \in 1..MaxCalls, NEW k \in Keys,
             UpdateSettings(th, t, k) \/ UpdateServers(th, t, k)
      PROVE  Kept
  BY <1>2, SaveBegins DEF UpdateSettings, UpdateServers
<1>3. CASE UNCHANGED metaVars
  <2>1. UNCHANGED <<menu, rows, settings, call, raced, misread, troubles>>
    BY <1>3 DEF metaVars
  <2>2. MetadataTypes'
    BY <2>1 DEF MetadataIInv, MetadataTypes, MetadataTypeOK, Shaped, ReadsOK, InOrder, Op, Read
  <2>3. RivalsRaced' /\ StatusFresh'
    BY <2>1 DEF MetadataIInv, RivalsRaced, StatusFresh, Open, Op
  <2>4. PendingFresh' /\ SettingsFresh'
    BY <2>1 DEF MetadataIInv, PendingFresh, SettingsFresh, Open, Op, Read
  <2>5. PendingIsOneSave'
    BY <2>1 DEF MetadataIInv, PendingIsOneSave, Op
  <2>. QED  BY <2>1, <2>2, <2>3, <2>4, <2>5, QuietStep DEF Kept, MetadataIInv
<1>. QED  BY <1>1, <1>2, <1>3, BeginCallKeeps, CommitKeeps, OtherKeeps DEF MetadataNext

\* What the tables hold after calls that overlap, fail or are given up on: the status
\* takes allowed steps, the pending chunks are those of one save, and a setting is not
\* lost to the save of another, unless two transactions have raced (database/repositories.py).
THEOREM MetadataSound == MetadataSpec => MetadataKept
<1>1. MetadataIInv /\ [MetadataNext]_metaVars
        => [(MetadataTypeOK /\ PendingIsOneSave)' /\ StatusStepsValid /\ SettingsKept]_metaVars
  BY MetadataStep DEF Kept, MetadataIInv, MetadataTypes
<1>2. MetadataIInv /\ [MetadataNext]_metaVars => MetadataIInv'
  BY MetadataStep DEF Kept
<1>. QED  BY <1>1, <1>2, MetadataInitInv, PTL DEF MetadataSpec, MetadataKept

-----------------------------------------------------------------------------
(***************************************************************************)
(* The panel of a plan (PlanPanel).                                          *)
(*                                                                          *)
(* The checkpoint never has the results of a phase that is not over, so a snapshot     *)
(* that has them shows tasks that will not change again.                                *)
(***************************************************************************)

PanelStatus == {"pending", "in_progress", "complete", "error"}
TaskShown   == {"none", "pending", "in_progress", "critiquing", "complete", "failed"}
PanelRecord == [shown : BOOLEAN, phases : [Phases -> PanelStatus], tasks : [PlanTasks -> TaskShown]]
LiveStates  == {"pending", "started", "revising", "approved"} \cup Settled

\* The workflow's side alone: what the checkpoint of the parent has, what is settled once
\* the phase of the tasks is over, and when the plan is announced.
ServerIInv ==
  /\ phase \in 1..Finished /\ step \in {"entering", "working", "asking", "closing", "failed"}
  /\ live \in [PlanTasks -> LiveStates]
  /\ saved \in [done : 0..LastPhase, results : BOOLEAN]
  /\ dagSent \in BOOLEAN /\ announced \in BOOLEAN
  /\ saved.done = phase - 1
  /\ saved.results => phase > TaskPhase
  /\ phase > TaskPhase => \A t \in PlanTasks : live[t] \in Settled
  /\ phase = TaskPhase /\ step = "closing" => \A t \in PlanTasks : live[t] \in Settled
  /\ ~dagSent => \A t \in PlanTasks : live[t] = "pending"
  /\ phase = Finished => step = "entering"
  /\ announced => phase = Finished

\* A snapshot on its way is of a checkpoint the workflow had.
RequestIInv ==
  /\ request \in [state : {"none", "asked", "read"}, done : 0..LastPhase, results : BOOLEAN, failed : BOOLEAN]
  /\ request.done <= saved.done
  /\ request.results => saved.results /\ request.done >= TaskPhase

FlagsIInv ==
  /\ here \in BOOLEAN /\ known \in BOOLEAN /\ inSync \in BOOLEAN
  /\ unbroken \in BOOLEAN /\ stale \in BOOLEAN
  /\ breaks \in 0..MaxBreaks
  /\ panel \in PanelRecord

TasksIInv == inSync => panel.shown /\ \A t \in PlanTasks : panel.tasks[t] = Shown(live[t])

\* A panel that missed nothing is not there in the first phase only, before its first
\* prompt; once it is there no phase but the current one is in progress.
PhasesIInv ==
  unbroken =>
    /\ ~panel.shown =>
         /\ phase = 1 /\ step \in {"entering", "working"}
         /\ \A q \in Phases : panel.phases[q] = "pending"
    /\ panel.shown /\ ~announced =>
         \A q \in Phases :
           /\ q < phase => panel.phases[q] = "complete"
           /\ q > phase => panel.phases[q] \notin {"complete", "in_progress"}
           /\ q = phase => (panel.phases[q] = "complete" <=> step = "closing")

PanelIInv == ServerIInv /\ RequestIInv /\ FlagsIInv /\ TasksIInv /\ PhasesIInv /\ FinishedIsShown

-----------------------------------------------------------------------------

PanelTasksMove == \E t \in PlanTasks : StartTask(t) \/ CompleteTask(t) \/ \E passed \in BOOLEAN : CritiqueTask(t, passed)

LEMMA PanelSteps ==
  ASSUME [PanelNext]_panelVars
  PROVE  \/ EnterPhase \/ Prompt \/ AnswerPrompt \/ SendDag \/ CompletePhase \/ SavePhase \/ FailPhase
         \/ RetryPhase \/ AnnounceComplete \/ (LoseConnection \/ Reopen \/ ReadSnapshot \/ SendSnapshot)
         \/ PanelTasksMove \/ UNCHANGED panelVars
BY Zenon DEF PanelNext, PanelTasksMove

\* The workflow's side of a step: what each action does to the variables of the server.
LEMMA ServerStep ==
  ASSUME ServerIInv, [PanelNext]_panelVars PROVE ServerIInv'
<1> USE PanelAssumption DEF Phases, Finished
<1>1. CASE EnterPhase BY <1>1 DEF EnterPhase, ServerIInv
<1>2. CASE Prompt BY <1>2 DEF Prompt, ServerIInv
<1>3. CASE AnswerPrompt BY <1>3 DEF AnswerPrompt, ServerIInv
<1>4. CASE SendDag BY <1>4 DEF SendDag, ServerIInv, InTasks
<1>5. CASE CompletePhase
  <2>1. phase # Finished /\ step = "working" /\ step' = "closing" /\ UNCHANGED <<phase, live, dagSent, saved, announced>>
    BY <1>5 DEF CompletePhase
  <2>2. phase = TaskPhase => \A t \in PlanTasks : live[t] \in Settled
    BY <1>5 DEF CompletePhase
  <2> QED BY <2>1, <2>2 DEF ServerIInv
<1>6. CASE SavePhase
  <2>1. step = "closing" /\ step' = "entering" /\ phase' = phase + 1
    BY <1>6 DEF SavePhase
  <2>2. saved' = [done |-> phase, results |-> phase >= TaskPhase]
    BY <1>6 DEF SavePhase
  <2>3. UNCHANGED <<live, dagSent, announced>>
    BY <1>6 DEF SavePhase
  <2>4. phase \in 1..LastPhase /\ phase # Finished /\ ~announced
    BY <2>1 DEF ServerIInv
  <2>5. phase' \in 1..Finished /\ phase = phase' - 1 /\ (phase >= TaskPhase => phase' > TaskPhase)
    BY <2>1, <2>4
  <2>6. phase' > TaskPhase => phase > TaskPhase \/ phase = TaskPhase
    BY <2>1, <2>4
  <2>a. phase \in 0..LastPhase /\ (phase >= TaskPhase) \in BOOLEAN
    BY <2>4
  <2>b. saved' \in [done : 0..LastPhase, results : BOOLEAN] /\ saved'.done = phase
    BY <2>2, <2>a
  <2>7. saved'.results => phase >= TaskPhase
    BY <2>2
  <2>8. phase' > TaskPhase => \A t \in PlanTasks : live'[t] \in Settled
    BY <2>1, <2>3, <2>6 DEF ServerIInv
  <2>9. phase' = TaskPhase /\ step' = "closing" => \A t \in PlanTasks : live'[t] \in Settled
    BY <2>1
  <2>10. live' \in [PlanTasks -> LiveStates] /\ dagSent' \in BOOLEAN /\ announced' \in BOOLEAN
    BY <2>3 DEF ServerIInv
  <2>11. ~dagSent' => \A t \in PlanTasks : live'[t] = "pending"
    BY <2>3 DEF ServerIInv
  <2> QED BY <2>1, <2>3, <2>4, <2>5, <2>b, <2>7, <2>8, <2>9, <2>10, <2>11 DEF ServerIInv
<1>7. CASE FailPhase BY <1>7 DEF FailPhase, ServerIInv
<1>8. CASE RetryPhase BY <1>8 DEF RetryPhase, ServerIInv
<1>9. CASE AnnounceComplete BY <1>9 DEF AnnounceComplete, ServerIInv
<1>10. CASE LoseConnection \/ Reopen \/ ReadSnapshot \/ SendSnapshot
  <2>1. UNCHANGED Server
    BY <1>10 DEF LoseConnection, Reopen, ReadSnapshot, SendSnapshot
  <2> QED BY <2>1 DEF Server, ServerIInv
<1>11. CASE PanelTasksMove
  <2>1. InTasks /\ UNCHANGED <<phase, step, saved, announced, dagSent>>
    BY <1>11 DEF PanelTasksMove, StartTask, CompleteTask, CritiqueTask
  <2>2. dagSent
    BY <1>11 DEF PanelTasksMove, StartTask, CompleteTask, CritiqueTask, ServerIInv
  <2>3. live' \in [PlanTasks -> LiveStates]
    BY <1>11 DEF PanelTasksMove, StartTask, CompleteTask, CritiqueTask, ServerIInv, LiveStates, Settled
  <2> QED BY <2>1, <2>2, <2>3 DEF ServerIInv, InTasks
<1>12. CASE UNCHANGED panelVars BY <1>12 DEF panelVars, ServerIInv
<1> QED
  BY PanelSteps, <1>1, <1>2, <1>3, <1>4, <1>5, <1>6, <1>7, <1>8, <1>9, <1>10, <1>11, <1>12, Zenon

-----------------------------------------------------------------------------
(* What each event does to the record of the panel. *)

LEMMA PhaseEvents ==
  ASSUME panel \in PanelRecord, NEW p \in Phases
  PROVE  /\ OnPrompt(p) \in PanelRecord /\ OnEnter(p) \in PanelRecord
         /\ OnPhaseComplete(p) \in PanelRecord /\ OnError(p) \in PanelRecord
         /\ OnPrompt(p).tasks = panel.tasks /\ OnEnter(p).tasks = panel.tasks
         /\ OnPhaseComplete(p).tasks = panel.tasks /\ OnError(p).tasks = panel.tasks
         /\ OnPrompt(p).shown /\ OnError(p).shown
         /\ OnEnter(p).shown = panel.shown /\ OnPhaseComplete(p).shown = panel.shown
<1>1. OnPrompt(p) \in PanelRecord /\ OnPrompt(p).tasks = panel.tasks /\ OnPrompt(p).shown
  BY DEF OnPrompt, PanelRecord, PanelStatus
<1>2. OnEnter(p) \in PanelRecord /\ OnEnter(p).tasks = panel.tasks /\ OnEnter(p).shown = panel.shown
  BY DEF OnEnter, IfShown, SetPhase, PanelRecord, PanelStatus
<1>3. OnPhaseComplete(p) \in PanelRecord /\ OnPhaseComplete(p).tasks = panel.tasks /\ OnPhaseComplete(p).shown = panel.shown
  BY DEF OnPhaseComplete, IfShown, SetPhase, PanelRecord, PanelStatus
<1>4. OnError(p) \in PanelRecord /\ OnError(p).tasks = panel.tasks /\ OnError(p).shown
  BY DEF OnError, PanelRecord, PanelStatus
<1> QED BY <1>1, <1>2, <1>3, <1>4

LEMMA TaskEvents ==
  ASSUME panel \in PanelRecord, NEW t \in PlanTasks, NEW b \in BOOLEAN
  PROVE  OnTaskStart(t) \in PanelRecord /\ OnCritique(t, b) \in PanelRecord /\ OnTaskComplete(t, b) \in PanelRecord
<1>1. OnTaskStart(t) \in PanelRecord
  BY DEF OnTaskStart, IfShown, SetTask, PanelRecord, TaskShown
<1>2. OnCritique(t, b) \in PanelRecord
  BY DEF OnCritique, IfShown, SetTask, PanelRecord, TaskShown
<1>3. OnTaskComplete(t, b) \in PanelRecord
  BY DEF OnTaskComplete, IfShown, SetTask, PanelRecord, TaskShown
<1> QED BY <1>1, <1>2, <1>3

LEMMA PlanEvents ==
  ASSUME panel \in PanelRecord
  PROVE  /\ OnDag \in PanelRecord /\ OnDag.shown = panel.shown
         /\ panel.shown => \A t \in PlanTasks : OnDag.tasks[t] = "pending"
         /\ OnPlanComplete \in PanelRecord /\ OnPlanComplete.shown /\ OnPlanComplete.tasks = panel.tasks
         /\ \A q \in Phases : OnPlanComplete.phases[q] = "complete"
<1>1. OnDag \in PanelRecord /\ OnDag.shown = panel.shown
  BY DEF OnDag, IfShown, PanelRecord, TaskShown
<1>2. panel.shown => \A t \in PlanTasks : OnDag.tasks[t] = "pending"
  BY DEF OnDag, IfShown, PanelRecord
<1>3. OnPlanComplete \in PanelRecord /\ OnPlanComplete.shown /\ OnPlanComplete.tasks = panel.tasks
  BY DEF OnPlanComplete, PanelRecord, PanelStatus
<1>4. \A q \in Phases : OnPlanComplete.phases[q] = "complete"
  BY DEF OnPlanComplete, PanelRecord
<1> QED BY <1>1, <1>2, <1>3, <1>4

\* A snapshot, with the prompt that may follow it.
LEMMA SnapshotEvents ==
  ASSUME panel \in PanelRecord, NEW snap, snap.done \in 0..LastPhase
  PROVE  /\ Recovered(snap) \in PanelRecord /\ Recovered(snap).shown
         /\ Recovered(snap).tasks \in {panel.tasks, TasksSnapshot(snap)}
         /\ snap.done = LastPhase => Recovered(snap) = OnPlanComplete
<1> USE PanelAssumption
<1> DEFINE Typed(next) == next \in PanelRecord /\ next.shown
<1>1. TasksSnapshot(snap) \in [PlanTasks -> TaskShown]
  BY DEF TasksSnapshot, PanelRecord, TaskShown
<1>2. Typed(OnState(snap)) /\ OnState(snap).tasks = TasksSnapshot(snap)
  <2>1. [p \in Phases |-> IF p <= snap.done THEN "complete"
                          ELSE IF p = CurrentPhase(snap) THEN "in_progress" ELSE "pending"] \in [Phases -> PanelStatus]
    BY DEF PanelStatus
  <2> QED BY <1>1, <2>1 DEF OnState, PanelRecord
<1>3. Typed(OnPlanComplete) /\ OnPlanComplete.tasks = panel.tasks
  BY PlanEvents
<1>4. snap.done # LastPhase => snap.done + 1 \in Phases
  BY DEF Phases
<1>5. snap.done # LastPhase => Typed(OnError(snap.done + 1)) /\ OnError(snap.done + 1).tasks = panel.tasks
  BY <1>4, PhaseEvents
<1>6. Typed(OnSnapshot(snap)) /\ OnSnapshot(snap).tasks \in {panel.tasks, TasksSnapshot(snap)}
  BY <1>2, <1>3, <1>5 DEF OnSnapshot
<1>7. ASSUME NEW next \in PanelRecord PROVE WithPrompt(next) \in PanelRecord /\ WithPrompt(next).shown = next.shown /\ WithPrompt(next).tasks = next.tasks
  BY DEF WithPrompt, PanelRecord, PanelStatus
<1>8. Recovered(snap) \in {OnSnapshot(snap), WithPrompt(OnSnapshot(snap))}
  BY DEF Recovered
<1>9. snap.done = LastPhase => Recovered(snap) = OnPlanComplete
  BY DEF Recovered, OnSnapshot
<1> HIDE DEF Typed
<1>10. Typed(OnSnapshot(snap)) => OnSnapshot(snap) \in PanelRecord /\ OnSnapshot(snap).shown
  BY DEF Typed
<1> QED BY <1>6, <1>7, <1>8, <1>9, <1>10

-----------------------------------------------------------------------------
(* The sending of an event, and the rest of the state. *)

LEMMA Emission ==
  ASSUME FlagsIInv, NEW next \in PanelRecord, Emit(next)
  PROVE  /\ panel' \in PanelRecord /\ unbroken' \in BOOLEAN /\ UNCHANGED <<here, request, stale>>
         /\ here => panel' = next
         /\ ~here => panel' = panel
         /\ unbroken' => unbroken /\ here /\ panel' = next /\ (step = "entering" \/ next.shown)
<1>1. panel' = IF here THEN next ELSE panel
  BY DEF Emit
<1>2. unbroken' = (unbroken /\ here /\ (step = "entering" \/ next.shown))
  BY DEF Emit
<1>3. UNCHANGED here /\ UNCHANGED request /\ UNCHANGED stale
  BY DEF Emit
<1>4. unbroken' \in BOOLEAN /\ (unbroken' => unbroken /\ here /\ (step = "entering" \/ next.shown))
  BY <1>2, Zenon
<1>5. panel' \in PanelRecord /\ (here => panel' = next) /\ (~here => panel' = panel)
  BY <1>1 DEF FlagsIInv
<1> QED BY <1>3, <1>4, <1>5

LEMMA Tracking ==
  ASSUME Track PROVE inSync' \in BOOLEAN /\ (inSync' => inSync /\ here)
BY Zenon DEF Track

LEMMA Breaking ==
  ASSUME breaks \in 0..MaxBreaks, Break PROVE breaks' \in 0..MaxBreaks
BY PanelAssumption DEF Break

\* Every event is sent of the phase the workflow is in, or of a task of the plan.
LEMMA FlagsStep ==
  ASSUME ServerIInv, RequestIInv, FlagsIInv, [PanelNext]_panelVars PROVE FlagsIInv'
<1>p. panel \in PanelRecord /\ breaks \in 0..MaxBreaks
  BY DEF FlagsIInv
<1>q. phase # Finished => phase \in Phases
  BY PanelAssumption DEF ServerIInv, Phases, Finished
<1>e. ASSUME NEW next \in PanelRecord, Emit(next), inSync' \in BOOLEAN, known' \in BOOLEAN, breaks' \in 0..MaxBreaks
      PROVE  FlagsIInv'
  <2>1. panel' \in PanelRecord /\ unbroken' \in BOOLEAN /\ here' = here /\ stale' = stale
    BY <1>e, Emission
  <2> QED BY <1>e, <2>1 DEF FlagsIInv
<1>k. UNCHANGED known => known' \in BOOLEAN
  BY DEF FlagsIInv
<1>b. UNCHANGED breaks => breaks' \in 0..MaxBreaks
  BY DEF FlagsIInv
<1>1. CASE EnterPhase
  <2>1. OnEnter(phase) \in PanelRecord
    BY <1>1, <1>p, <1>q, PhaseEvents DEF EnterPhase
  <2>2. Emit(OnEnter(phase)) /\ Track /\ UNCHANGED known /\ UNCHANGED breaks
    BY <1>1 DEF EnterPhase
  <2> QED BY <1>e, <1>k, <1>b, <2>1, <2>2, Tracking
<1>2. CASE Prompt
  <2>1. OnPrompt(phase) \in PanelRecord
    BY <1>2, <1>p, <1>q, PhaseEvents DEF Prompt
  <2>2. Emit(OnPrompt(phase)) /\ Track /\ Break /\ known' = (known \/ here)
    BY <1>2 DEF Prompt
  <2>3. known' \in BOOLEAN
    BY <2>2, Zenon
  <2> QED BY <1>e, <1>p, <2>1, <2>2, <2>3, Tracking, Breaking
<1>3. CASE SendDag
  <2>1. OnDag \in PanelRecord
    BY <1>p, PlanEvents
  <2>2. Emit(OnDag) /\ inSync' = (here /\ panel.shown) /\ UNCHANGED known /\ UNCHANGED breaks
    BY <1>3 DEF SendDag
  <2>3. inSync' \in BOOLEAN
    BY <2>2, Zenon
  <2> QED BY <1>e, <1>k, <1>b, <2>1, <2>2, <2>3
<1>4. CASE CompletePhase
  <2>1. OnPhaseComplete(phase) \in PanelRecord
    BY <1>4, <1>p, <1>q, PhaseEvents DEF CompletePhase
  <2>2. Emit(OnPhaseComplete(phase)) /\ Track /\ UNCHANGED known /\ UNCHANGED breaks
    BY <1>4 DEF CompletePhase
  <2> QED BY <1>e, <1>k, <1>b, <2>1, <2>2, Tracking
<1>5. CASE FailPhase
  <2>1. OnError(phase) \in PanelRecord
    BY <1>5, <1>p, <1>q, PhaseEvents DEF FailPhase
  <2>2. Emit(OnError(phase)) /\ Track /\ Break /\ UNCHANGED known
    BY <1>5 DEF FailPhase
  <2> QED BY <1>e, <1>k, <1>p, <2>1, <2>2, Tracking, Breaking
<1>6. CASE AnnounceComplete
  <2>1. OnPlanComplete \in PanelRecord
    BY <1>p, PlanEvents
  <2>2. Emit(OnPlanComplete) /\ Track /\ UNCHANGED known /\ UNCHANGED breaks
    BY <1>6 DEF AnnounceComplete
  <2> QED BY <1>e, <1>k, <1>b, <2>1, <2>2, Tracking
<1>7. CASE PanelTasksMove
  <2>1. PICK t \in PlanTasks : StartTask(t) \/ CompleteTask(t) \/ \E passed \in BOOLEAN : CritiqueTask(t, passed)
    BY <1>7 DEF PanelTasksMove
  <2>2. Track /\ UNCHANGED known
    BY <2>1 DEF StartTask, CompleteTask, CritiqueTask
  <2>3. CASE StartTask(t)
    <3>1. Emit(OnTaskStart(t)) /\ UNCHANGED breaks
      BY <2>3 DEF StartTask
    <3> QED BY <1>e, <1>k, <1>b, <1>p, <2>2, <3>1, Tracking, TaskEvents
  <2>4. CASE CompleteTask(t)
    <3>1. Emit(OnTaskComplete(t, live[t] = "approved")) /\ UNCHANGED breaks
      BY <2>4 DEF CompleteTask
    <3>2. (live[t] = "approved") \in BOOLEAN
      OBVIOUS
    <3>3. OnTaskComplete(t, live[t] = "approved") \in PanelRecord
      BY <1>p, <3>2, TaskEvents
    <3> QED BY <1>e, <1>k, <1>b, <2>2, <3>1, <3>3, Tracking
  <2>5. ASSUME NEW passed \in BOOLEAN, CritiqueTask(t, passed) PROVE FlagsIInv'
    <3>1. Emit(OnCritique(t, passed)) /\ (UNCHANGED breaks \/ Break)
      BY <2>5 DEF CritiqueTask
    <3>2. breaks' \in 0..MaxBreaks
      BY <1>p, <1>b, <3>1, Breaking
    <3> QED BY <1>e, <1>k, <1>p, <2>2, <3>1, <3>2, Tracking, TaskEvents
  <2> QED BY <2>1, <2>3, <2>4, <2>5
<1>8. CASE AnswerPrompt \/ SavePhase \/ RetryPhase \/ UNCHANGED panelVars
  <2>1. UNCHANGED <<here, known, panel, inSync, unbroken, stale, breaks>>
    BY <1>8 DEF AnswerPrompt, SavePhase, RetryPhase, panelVars
  <2> QED BY <2>1 DEF FlagsIInv
<1>9. CASE LoseConnection
  <2>1. Break /\ here' = FALSE /\ UNCHANGED <<known, panel, inSync, unbroken, stale>>
    BY <1>9 DEF LoseConnection
  <2> QED BY <1>p, <2>1, Breaking DEF FlagsIInv
<1>10. CASE Reopen
  <2>1. here' = TRUE /\ UNCHANGED <<known, panel, inSync, unbroken, stale, breaks>>
    BY <1>10 DEF Reopen
  <2> QED BY <2>1 DEF FlagsIInv
<1>11. CASE ReadSnapshot
  BY <1>11 DEF ReadSnapshot, FlagsIInv
<1>12. CASE SendSnapshot
  <2>1. Recovered(request) \in PanelRecord
    BY <1>p, SnapshotEvents DEF RequestIInv
  <2>2. panel' = (IF here THEN Recovered(request) ELSE panel) /\ UNCHANGED <<here, known, breaks>> /\ unbroken' = FALSE
    BY <1>12 DEF SendSnapshot
  <2>3. inSync' = (here /\ request.results /\ (inSync \/ panel'.tasks = TasksSnapshot(request)))
    BY <1>12 DEF SendSnapshot
  <2>4. stale' = (here /\ request.done < saved.done)
    BY <1>12 DEF SendSnapshot
  <2>5. inSync' \in BOOLEAN
    BY <2>3, Zenon
  <2>6. stale' \in BOOLEAN
    BY <2>4, Zenon
  <2> QED BY <2>1, <2>2, <2>5, <2>6 DEF FlagsIInv
<1> QED
  BY PanelSteps, <1>1, <1>2, <1>3, <1>4, <1>5, <1>6, <1>7, <1>8, <1>9, <1>10, <1>11, <1>12, Zenon

LEMMA RequestStep ==
  ASSUME ServerIInv, RequestIInv, FlagsIInv, [PanelNext]_panelVars PROVE RequestIInv'
<1> USE PanelAssumption
<1>1. CASE UNCHANGED request /\ UNCHANGED saved
  BY <1>1 DEF RequestIInv
<1>2. CASE SavePhase
  <2>1. UNCHANGED request /\ step = "closing" /\ saved' = [done |-> phase, results |-> phase >= TaskPhase]
    BY <1>2 DEF SavePhase
  <2>2. phase \in Nat /\ saved.done = phase - 1 /\ (saved.results => phase > TaskPhase)
    BY DEF ServerIInv, Finished
  <2>3. request.done \in 0..LastPhase /\ request.done <= phase - 1
    BY <2>2 DEF RequestIInv
  <2>4. request.done <= saved'.done
    <3>1. saved'.done = phase
      BY <2>1
    <3> QED BY <2>2, <2>3, <3>1
  <2>5. request.results => saved'.results
    <3>1. request.results => phase >= TaskPhase
      BY <2>2 DEF RequestIInv
    <3> QED BY <2>1, <3>1
  <2> QED BY <2>1, <2>4, <2>5 DEF RequestIInv
<1>3. CASE Reopen \/ SendSnapshot
  <2>1. UNCHANGED saved /\ request' \in {Request("asked", 0, FALSE, FALSE), NoRequest}
    BY <1>3 DEF Reopen, SendSnapshot, Server
  <2>2. saved.done \in 0..LastPhase
    BY DEF ServerIInv
  <2>3. ASSUME NEW s \in {"asked", "none"}, request' = Request(s, 0, FALSE, FALSE) PROVE RequestIInv'
    <3>1. request' \in [state : {"none", "asked", "read"}, done : 0..LastPhase, results : BOOLEAN, failed : BOOLEAN]
      BY <2>3 DEF Request
    <3>2. request'.done = 0 /\ request'.results = FALSE
      BY <2>3 DEF Request
    <3> QED BY <2>1, <2>2, <3>1, <3>2 DEF RequestIInv
  <2> QED BY <2>1, <2>3 DEF NoRequest
<1>4. CASE ReadSnapshot
  <2>1. UNCHANGED saved /\ request' = Request("read", saved.done, saved.results, step = "failed")
    BY <1>4 DEF ReadSnapshot, Server
  <2>2. saved.done \in 0..LastPhase /\ saved.results \in BOOLEAN /\ (step = "failed") \in BOOLEAN
    BY DEF ServerIInv
  <2>3. request' \in [state : {"none", "asked", "read"}, done : 0..LastPhase, results : BOOLEAN, failed : BOOLEAN]
    BY <2>1, <2>2 DEF Request
  <2>4. request'.done = saved.done /\ request'.results = saved.results
    BY <2>1 DEF Request
  <2>5. saved.results => saved.done >= TaskPhase
    BY DEF ServerIInv, Finished
  <2> QED BY <2>1, <2>2, <2>3, <2>4, <2>5 DEF RequestIInv
<1>5. CASE EnterPhase \/ Prompt \/ SendDag \/ CompletePhase \/ FailPhase \/ AnnounceComplete \/ PanelTasksMove
  <2>1. UNCHANGED saved
    BY <1>5 DEF EnterPhase, Prompt, SendDag, CompletePhase, FailPhase, AnnounceComplete, PanelTasksMove,
                StartTask, CompleteTask, CritiqueTask
  <2>2. UNCHANGED request
    BY <1>5 DEF EnterPhase, Prompt, SendDag, CompletePhase, FailPhase, AnnounceComplete, PanelTasksMove,
                StartTask, CompleteTask, CritiqueTask, Emit
  <2> QED BY <1>1, <2>1, <2>2
<1>6. CASE AnswerPrompt \/ RetryPhase \/ LoseConnection \/ UNCHANGED panelVars
  BY <1>1, <1>6 DEF AnswerPrompt, RetryPhase, LoseConnection, Server, panelVars
<1> QED
  BY PanelSteps, <1>2, <1>3, <1>4, <1>5, <1>6, Zenon

-----------------------------------------------------------------------------
(* The three properties. *)

\* A step that tracks the tasks: in sync before and after it, or not after it.
LEMMA TrackedStep ==
  ASSUME FlagsIInv, TasksIInv, NEW next \in PanelRecord, Emit(next), Track,
         panel.shown => next.shown,
         panel.shown /\ (\A t \in PlanTasks : panel.tasks[t] = Shown(live[t]))
           => \A t \in PlanTasks : next.tasks[t] = Shown(live'[t])
  PROVE  TasksIInv'
<1>1. inSync' => inSync /\ here
  BY Tracking
<1>2. here => panel' = next
  BY Emission
<1>3. SUFFICES ASSUME inSync' PROVE panel'.shown /\ \A t \in PlanTasks : panel'.tasks[t] = Shown(live'[t])
  BY Zenon DEF TasksIInv, Shown
<1>4. panel.shown /\ \A t \in PlanTasks : panel.tasks[t] = Shown(live[t])
  BY <1>1, <1>3 DEF TasksIInv
<1>5. panel' = next
  BY <1>1, <1>2, <1>3
<1> QED BY <1>4, <1>5

LEMMA TaskStep ==
  ASSUME FlagsIInv, panel.shown, NEW t \in PlanTasks, NEW status \in TaskShown, NEW state,
         live \in [PlanTasks -> LiveStates], live' = [live EXCEPT ![t] = state], Shown(state) = status,
         \A u \in PlanTasks : panel.tasks[u] = Shown(live[u])
  PROVE  SetTask(t, status).shown /\ \A u \in PlanTasks : SetTask(t, status).tasks[u] = Shown(live'[u])
<1> DEFINE next == SetTask(t, status)
<1>1. next.shown /\ next.tasks = [panel.tasks EXCEPT ![t] = status]
  BY DEF FlagsIInv, PanelRecord, SetTask
<1>2. panel.tasks \in [PlanTasks -> TaskShown]
  BY DEF FlagsIInv, PanelRecord
<1> HIDE DEF next
<1>3. ASSUME NEW u \in PlanTasks PROVE next.tasks[u] = Shown(live'[u])
  <2>1. CASE u = t
    BY <1>1, <1>2, <2>1
  <2>2. CASE u # t
    <3>1. next.tasks[u] = panel.tasks[u] /\ live'[u] = live[u]
      BY <1>1, <1>2, <2>2
    <3> QED BY <3>1
  <2> QED BY <2>1, <2>2
<1>4. next.shown /\ \A u \in PlanTasks : next.tasks[u] = Shown(live'[u])
  BY <1>1, <1>3
<1> QED BY <1>4 DEF next

LEMMA TasksStep ==
  ASSUME ServerIInv, RequestIInv, FlagsIInv, TasksIInv, [PanelNext]_panelVars PROVE TasksIInv'
<1>p. panel \in PanelRecord /\ live \in [PlanTasks -> LiveStates]
  BY DEF FlagsIInv, ServerIInv
<1>q. phase # Finished => phase \in Phases
  BY PanelAssumption DEF ServerIInv, Phases, Finished
<1>e. ASSUME NEW next \in PanelRecord, Emit(next), Track, UNCHANGED live, next.tasks = panel.tasks, panel.shown => next.shown
      PROVE  TasksIInv'
  BY <1>e, TrackedStep
<1>1. CASE EnterPhase
  <2>1. phase \in Phases /\ Emit(OnEnter(phase)) /\ Track /\ UNCHANGED live
    BY <1>1, <1>q DEF EnterPhase
  <2> QED BY <1>e, <1>p, <2>1, PhaseEvents
<1>2. CASE Prompt
  <2>1. phase \in Phases /\ Emit(OnPrompt(phase)) /\ Track /\ UNCHANGED live
    BY <1>2, <1>q DEF Prompt
  <2> QED BY <1>e, <1>p, <2>1, PhaseEvents
<1>3. CASE SendDag
  <2>1. Emit(OnDag) /\ ~dagSent /\ UNCHANGED live
    BY <1>3 DEF SendDag
  <2>2. inSync' = (here /\ panel.shown)
    BY <1>3 DEF SendDag
  <2>3. here => panel' = OnDag
    BY <1>p, <2>1, PlanEvents, Emission
  <2>4. \A t \in PlanTasks : live'[t] = "pending"
    BY <2>1 DEF ServerIInv
  <2>5. inSync' => panel'.shown /\ \A t \in PlanTasks : panel'.tasks[t] = "pending"
    BY <1>p, <2>2, <2>3, PlanEvents
  <2> QED BY <2>4, <2>5 DEF TasksIInv, Shown
<1>4. CASE CompletePhase
  <2>1. phase \in Phases /\ Emit(OnPhaseComplete(phase)) /\ Track /\ UNCHANGED live
    BY <1>4, <1>q DEF CompletePhase
  <2> QED BY <1>e, <1>p, <2>1, PhaseEvents
<1>5. CASE FailPhase
  <2>1. phase \in Phases /\ Emit(OnError(phase)) /\ Track /\ UNCHANGED live
    BY <1>5, <1>q DEF FailPhase
  <2> QED BY <1>e, <1>p, <2>1, PhaseEvents
<1>6. CASE AnnounceComplete
  <2>1. Emit(OnPlanComplete) /\ Track /\ UNCHANGED live
    BY <1>6 DEF AnnounceComplete
  <2> QED BY <1>e, <1>p, <2>1, PlanEvents
<1>7. CASE PanelTasksMove
  <2>1. PICK t \in PlanTasks : StartTask(t) \/ CompleteTask(t) \/ \E passed \in BOOLEAN : CritiqueTask(t, passed)
    BY <1>7 DEF PanelTasksMove
  <2>2. Track
    BY <2>1 DEF StartTask, CompleteTask, CritiqueTask
  <2>m. ASSUME NEW next \in PanelRecord, Emit(next), NEW state, NEW status \in TaskShown,
               next = IfShown(SetTask(t, status)), live' = [live EXCEPT ![t] = state], Shown(state) = status
        PROVE  TasksIInv'
    <3>1. panel.shown => next = SetTask(t, status)
      BY <2>m DEF IfShown
    <3>2. ASSUME panel.shown, \A u \in PlanTasks : panel.tasks[u] = Shown(live[u])
          PROVE  next.shown /\ \A u \in PlanTasks : next.tasks[u] = Shown(live'[u])
      <4>1. next = SetTask(t, status)
        BY <3>1, <3>2
      <4>2. live' = [live EXCEPT ![t] = state] /\ Shown(state) = status
        BY <2>m
      <4>3. t \in PlanTasks /\ status \in TaskShown
        BY <2>m
      <4>4. SetTask(t, status).shown /\ \A u \in PlanTasks : SetTask(t, status).tasks[u] = Shown(live'[u])
        BY <1>p, <3>2, <4>2, <4>3, TaskStep
      <4> QED BY <4>1, <4>4
    <3>3. panel.shown => next.shown
      <4>1. panel.shown => SetTask(t, status).shown
        BY <1>p DEF SetTask, PanelRecord
      <4> QED BY <3>1, <4>1
    <3> QED BY <2>m, <2>2, <3>2, <3>3, TrackedStep
  <2>3. CASE StartTask(t)
    <3>1. Emit(OnTaskStart(t)) /\ live' = [live EXCEPT ![t] = "started"]
      BY <2>3 DEF StartTask
    <3>2. Shown("started") = "in_progress" /\ "in_progress" \in TaskShown
      BY DEF Shown, TaskShown
    <3>3. OnTaskStart(t) = IfShown(SetTask(t, "in_progress")) /\ OnTaskStart(t) \in PanelRecord
      BY <1>p, TaskEvents DEF OnTaskStart
    <3> QED BY <2>m, <3>1, <3>2, <3>3
  <2>4. CASE CompleteTask(t)
    <3> DEFINE state  == IF live[t] = "approved" THEN "done" ELSE "failed"
               status == IF live[t] = "approved" THEN "complete" ELSE "failed"
    <3>1. Emit(OnTaskComplete(t, live[t] = "approved")) /\ live' = [live EXCEPT ![t] = state]
      BY <2>4 DEF CompleteTask
    <3>2. Shown(state) = status /\ status \in TaskShown
      BY DEF Shown, TaskShown
    <3>3. (live[t] = "approved") \in BOOLEAN
      OBVIOUS
    <3>4. OnTaskComplete(t, live[t] = "approved") = IfShown(SetTask(t, status))
      BY DEF OnTaskComplete
    <3>5. OnTaskComplete(t, live[t] = "approved") \in PanelRecord
      BY <1>p, <3>3, TaskEvents
    <3> HIDE DEF state, status
    <3> QED BY <2>m, <3>1, <3>2, <3>4, <3>5
  <2>5. ASSUME NEW passed \in BOOLEAN, CritiqueTask(t, passed) PROVE TasksIInv'
    <3> DEFINE state  == IF passed THEN "approved" ELSE "revising"
               status == IF passed THEN "complete" ELSE "critiquing"
    <3>1. Emit(OnCritique(t, passed)) /\ live' = [live EXCEPT ![t] = state]
      BY <2>5 DEF CritiqueTask
    <3>2. Shown(state) = status /\ status \in TaskShown
      BY DEF Shown, TaskShown
    <3>4. OnCritique(t, passed) = IfShown(SetTask(t, status)) /\ OnCritique(t, passed) \in PanelRecord
      BY <1>p, TaskEvents DEF OnCritique
    <3> HIDE DEF state, status
    <3> QED BY <2>m, <3>1, <3>2, <3>4
  <2> QED BY <2>1, <2>3, <2>4, <2>5
<1>8. CASE AnswerPrompt \/ SavePhase \/ RetryPhase \/ LoseConnection \/ Reopen \/ ReadSnapshot \/ UNCHANGED panelVars
  <2>1. UNCHANGED inSync /\ UNCHANGED panel /\ UNCHANGED live
    BY <1>8 DEF AnswerPrompt, SavePhase, RetryPhase, LoseConnection, Reopen, ReadSnapshot, Server, panelVars
  <2> QED BY <2>1, Zenon DEF TasksIInv, Shown
<1>9. CASE SendSnapshot
  <2>1. UNCHANGED live /\ panel' = (IF here THEN Recovered(request) ELSE panel)
    BY <1>9 DEF SendSnapshot, Server
  <2>2. inSync' = (here /\ request.results /\ (inSync \/ panel'.tasks = TasksSnapshot(request)))
    BY <1>9 DEF SendSnapshot
  <2>3. SUFFICES ASSUME inSync' PROVE panel'.shown /\ \A t \in PlanTasks : panel'.tasks[t] = Shown(live[t])
    BY <2>1, Zenon DEF TasksIInv, Shown
  <2>4. here /\ request.results /\ panel' = Recovered(request)
    BY <2>1, <2>2, <2>3
  <2>5. panel'.shown /\ panel'.tasks \in {panel.tasks, TasksSnapshot(request)}
    BY <1>p, <2>4, SnapshotEvents DEF RequestIInv
  <2>6. \A t \in PlanTasks : live[t] \in Settled
    BY <2>4 DEF RequestIInv, ServerIInv
  <2>7. TasksSnapshot(request) = [t \in PlanTasks |-> IF live[t] = "done" THEN "complete" ELSE "failed"]
    <3>1. ~(request.done + 1 < TaskPhase) /\ request.results
      BY <2>4, PanelAssumption DEF RequestIInv
    <3> QED BY <3>1 DEF TasksSnapshot
  <2>8. \A t \in PlanTasks : TasksSnapshot(request)[t] = Shown(live[t])
    BY <2>6, <2>7 DEF Shown, Settled
  <2>9. panel'.tasks = TasksSnapshot(request) \/ (inSync /\ panel'.tasks = panel.tasks)
    BY <2>2, <2>3, <2>5
  <2> QED BY <2>5, <2>8, <2>9 DEF TasksIInv
<1> QED
  BY PanelSteps, <1>1, <1>2, <1>3, <1>4, <1>5, <1>6, <1>7, <1>8, <1>9, Zenon

\* The phases after an event about phase p, or about the whole plan.
LEMMA PhasesAfter ==
  ASSUME panel \in PanelRecord, NEW p \in Phases, NEW q \in Phases
  PROVE  /\ panel.shown => OnEnter(p).phases[q] = IF q = p THEN "in_progress" ELSE panel.phases[q]
         /\ panel.shown => OnPhaseComplete(p).phases[q] = IF q = p THEN "complete" ELSE panel.phases[q]
         /\ OnError(p).phases[q] = IF q = p THEN "error" ELSE panel.phases[q]
         /\ OnPrompt(p).phases[q] = IF q = p THEN "in_progress"
                                    ELSE IF panel.phases[q] = "in_progress" /\ panel.shown THEN "complete"
                                    ELSE panel.phases[q]
         /\ ~panel.shown => OnEnter(p) = panel
<1>1. panel.shown => OnEnter(p).phases[q] = IF q = p THEN "in_progress" ELSE panel.phases[q]
  BY DEF OnEnter, IfShown, SetPhase, PanelRecord
<1>2. panel.shown => OnPhaseComplete(p).phases[q] = IF q = p THEN "complete" ELSE panel.phases[q]
  BY DEF OnPhaseComplete, IfShown, SetPhase, PanelRecord
<1>3. OnError(p).phases[q] = IF q = p THEN "error" ELSE panel.phases[q]
  BY DEF OnError, PanelRecord
<1>4. OnPrompt(p).phases[q] = IF q = p THEN "in_progress"
                              ELSE IF panel.phases[q] = "in_progress" /\ panel.shown THEN "complete"
                              ELSE panel.phases[q]
  BY DEF OnPrompt, PanelRecord
<1>5. ~panel.shown => OnEnter(p) = panel
  BY DEF OnEnter, IfShown
<1> QED BY <1>1, <1>2, <1>3, <1>4, <1>5

\* An event about a task leaves the phases alone.
LEMMA PhasesApart ==
  ASSUME panel \in PanelRecord, NEW t \in PlanTasks, NEW b \in BOOLEAN,
         NEW next \in {OnTaskStart(t), OnCritique(t, b), OnTaskComplete(t, b), OnDag}
  PROVE  next.phases = panel.phases /\ next.shown = panel.shown
<1>1. OnTaskStart(t).phases = panel.phases /\ OnTaskStart(t).shown = panel.shown
  BY DEF OnTaskStart, IfShown, SetTask, PanelRecord
<1>2. OnCritique(t, b).phases = panel.phases /\ OnCritique(t, b).shown = panel.shown
  BY DEF OnCritique, IfShown, SetTask, PanelRecord
<1>3. OnTaskComplete(t, b).phases = panel.phases /\ OnTaskComplete(t, b).shown = panel.shown
  BY DEF OnTaskComplete, IfShown, SetTask, PanelRecord
<1>4. OnDag.phases = panel.phases /\ OnDag.shown = panel.shown
  BY DEF OnDag, IfShown, PanelRecord
<1> QED BY <1>1, <1>2, <1>3, <1>4

\* A panel that missed nothing has the phases before the current one complete.
LEMMA PhasesBefore ==
  ASSUME PhasesIInv, unbroken, ~announced, phase \in Phases
  PROVE  \A q \in Phases : /\ q < phase => panel.phases[q] = "complete"
                           /\ q > phase => panel.phases[q] \notin {"complete", "in_progress"}
<1>1. CASE panel.shown
  BY <1>1 DEF PhasesIInv
<1>2. CASE ~panel.shown
  <2>1. phase = 1 /\ \A q \in Phases : panel.phases[q] = "pending"
    BY <1>2 DEF PhasesIInv
  <2>2. \A q \in Phases : ~(q < 1)
    BY PanelAssumption DEF Phases
  <2> QED BY <2>1, <2>2
<1> QED BY <1>1, <1>2

LEMMA PhasesStep ==
  ASSUME ServerIInv, RequestIInv, FlagsIInv, PhasesIInv, [PanelNext]_panelVars PROVE PhasesIInv'
<1>p. panel \in PanelRecord
  BY DEF FlagsIInv
<1>q. phase # Finished => phase \in Phases /\ phase \in Nat /\ ~announced
  BY PanelAssumption DEF ServerIInv, Phases, Finished
<1>n. \A q \in Phases : q \in Nat /\ q >= 1
  BY PanelAssumption DEF Phases
<1>e. ASSUME NEW next \in PanelRecord, Emit(next), UNCHANGED phase, UNCHANGED announced, step' = step,
             next.phases = panel.phases, next.shown = panel.shown
      PROVE  PhasesIInv'
  <2>1. unbroken' => unbroken /\ panel' = next
    BY <1>e, Emission
  <2> QED BY <1>e, <2>1 DEF PhasesIInv
<1>1. CASE EnterPhase
  <2>1. /\ phase \in Phases /\ phase \in Nat /\ ~announced /\ Emit(OnEnter(phase))
        /\ step' = "working" /\ UNCHANGED phase
    BY <1>1, <1>q DEF EnterPhase
  <2>2. unbroken' => unbroken /\ panel' = OnEnter(phase)
    BY <1>p, <2>1, PhaseEvents, Emission
  <2>3. SUFFICES ASSUME unbroken' PROVE PhasesIInv'
    BY DEF PhasesIInv
  <2>4. CASE panel.shown
    <3>1. \A q \in Phases : panel'.phases[q] = IF q = phase THEN "in_progress" ELSE panel.phases[q]
      <4>1. panel' = OnEnter(phase) /\ phase \in Phases
        BY <2>1, <2>2, <2>3
      <4> QED BY <1>p, <2>4, <4>1, PhasesAfter
    <3>2. panel'.shown
      BY <1>p, <2>1, <2>2, <2>3, <2>4, PhaseEvents
    <3> QED BY <1>n, <2>1, <2>2, <2>3, <2>4, <3>1, <3>2 DEF PhasesIInv
  <2>5. CASE ~panel.shown
    <3>1. panel' = panel
      BY <1>p, <2>1, <2>2, <2>3, <2>5, PhasesAfter
    <3> QED BY <2>1, <2>2, <2>3, <2>5, <3>1 DEF PhasesIInv
  <2> QED BY <2>4, <2>5
<1>2. CASE Prompt
  <2>1. /\ phase \in Phases /\ phase \in Nat /\ ~announced /\ Emit(OnPrompt(phase))
        /\ step' = "asking" /\ step = "working" /\ UNCHANGED phase
    BY <1>2, <1>q DEF Prompt
  <2>2. unbroken' => unbroken /\ panel' = OnPrompt(phase)
    BY <1>p, <2>1, PhaseEvents, Emission
  <2>3. SUFFICES ASSUME unbroken' PROVE PhasesIInv'
    BY DEF PhasesIInv
  <2>4. panel'.shown
    BY <1>p, <2>1, <2>2, <2>3, PhaseEvents
  <2>5. \A q \in Phases : panel'.phases[q] = IF q = phase THEN "in_progress"
                                             ELSE IF panel.phases[q] = "in_progress" /\ panel.shown THEN "complete"
                                             ELSE panel.phases[q]
    BY <1>p, <2>1, <2>2, <2>3, PhasesAfter
  <2>6. \A q \in Phases : q # phase => panel'.phases[q] = panel.phases[q]
    BY <1>n, <2>1, <2>2, <2>3, <2>5 DEF PhasesIInv
  <2>7. \A q \in Phases : /\ q < phase => panel.phases[q] = "complete"
                          /\ q > phase => panel.phases[q] \notin {"complete", "in_progress"}
    BY <1>q, <2>1, <2>2, <2>3, PhasesBefore
  <2>8. panel'.phases[phase] = "in_progress"
    BY <2>1, <2>5
  <2> QED BY <1>n, <2>1, <2>4, <2>6, <2>7, <2>8 DEF PhasesIInv
<1>3. CASE SendDag
  <2>1. Emit(OnDag) /\ UNCHANGED phase /\ UNCHANGED announced /\ UNCHANGED step
    BY <1>3 DEF SendDag
  <2>2. OnDag.phases = panel.phases /\ OnDag.shown = panel.shown
    BY <1>p DEF OnDag, IfShown, PanelRecord
  <2> QED BY <1>e, <1>p, <2>1, <2>2, PlanEvents
<1>4. CASE CompletePhase
  <2>1. /\ phase \in Phases /\ phase \in Nat /\ ~announced /\ Emit(OnPhaseComplete(phase))
        /\ step' = "closing" /\ step = "working" /\ UNCHANGED phase
    BY <1>4, <1>q DEF CompletePhase
  <2>2. unbroken' => unbroken /\ panel' = OnPhaseComplete(phase) /\ panel.shown /\ panel'.shown
    BY <1>p, <2>1, PhaseEvents, Emission
  <2>3. SUFFICES ASSUME unbroken' PROVE PhasesIInv'
    BY DEF PhasesIInv
  <2>4. \A q \in Phases : panel'.phases[q] = IF q = phase THEN "complete" ELSE panel.phases[q]
    BY <1>p, <2>1, <2>2, <2>3, PhasesAfter
  <2>5. \A q \in Phases : /\ q < phase => panel.phases[q] = "complete"
                          /\ q > phase => panel.phases[q] \notin {"complete", "in_progress"}
    BY <1>q, <2>1, <2>2, <2>3, PhasesBefore
  <2>6. \A q \in Phases : /\ q < phase => panel'.phases[q] = "complete"
                          /\ q > phase => panel'.phases[q] \notin {"complete", "in_progress"}
                          /\ q = phase => panel'.phases[q] = "complete"
    BY <1>n, <2>1, <2>4, <2>5
  <2> QED BY <2>1, <2>2, <2>3, <2>6 DEF PhasesIInv
<1>5. CASE FailPhase
  <2>1. /\ phase \in Phases /\ phase \in Nat /\ ~announced /\ Emit(OnError(phase))
        /\ step' = "failed" /\ step = "working" /\ UNCHANGED phase
    BY <1>5, <1>q DEF FailPhase
  <2>2. unbroken' => unbroken /\ panel' = OnError(phase) /\ panel'.shown
    BY <1>p, <2>1, PhaseEvents, Emission
  <2>3. SUFFICES ASSUME unbroken' PROVE PhasesIInv'
    BY DEF PhasesIInv
  <2>4. \A q \in Phases : panel'.phases[q] = IF q = phase THEN "error" ELSE panel.phases[q]
    BY <1>p, <2>1, <2>2, <2>3, PhasesAfter
  <2>7. \A q \in Phases : /\ q < phase => panel.phases[q] = "complete"
                          /\ q > phase => panel.phases[q] \notin {"complete", "in_progress"}
    BY <1>q, <2>1, <2>2, <2>3, PhasesBefore
  <2>8. \A q \in Phases : /\ q < phase => panel'.phases[q] = "complete"
                          /\ q > phase => panel'.phases[q] \notin {"complete", "in_progress"}
                          /\ q = phase => panel'.phases[q] = "error"
    BY <1>n, <2>1, <2>4, <2>7
  <2> QED BY <2>1, <2>2, <2>3, <2>8 DEF PhasesIInv
<1>6. CASE AnnounceComplete
  <2>1. Emit(OnPlanComplete) /\ announced'
    BY <1>6 DEF AnnounceComplete
  <2>2. unbroken' => panel'.shown
    BY <1>p, <2>1, PlanEvents, Emission
  <2> QED BY <2>1, <2>2 DEF PhasesIInv
<1>7. CASE PanelTasksMove
  <2>1. PICK t \in PlanTasks : StartTask(t) \/ CompleteTask(t) \/ \E passed \in BOOLEAN : CritiqueTask(t, passed)
    BY <1>7 DEF PanelTasksMove
  <2>2. UNCHANGED phase /\ UNCHANGED announced /\ UNCHANGED step
    BY <2>1 DEF StartTask, CompleteTask, CritiqueTask
  <2>m. ASSUME NEW b \in BOOLEAN, NEW next \in {OnTaskStart(t), OnCritique(t, b), OnTaskComplete(t, b)}, Emit(next)
        PROVE  PhasesIInv'
    <3>1. next \in PanelRecord
      BY <1>p, <2>m, TaskEvents
    <3>2. next.phases = panel.phases /\ next.shown = panel.shown
      BY <1>p, <2>m, PhasesApart
    <3> QED BY <1>e, <2>m, <2>2, <3>1, <3>2
  <2>3. CASE StartTask(t)
    BY <2>3, <2>m DEF StartTask
  <2>4. CASE CompleteTask(t)
    <3>1. Emit(OnTaskComplete(t, live[t] = "approved")) /\ (live[t] = "approved") \in BOOLEAN
      BY <2>4 DEF CompleteTask
    <3> QED BY <2>m, <3>1
  <2>5. ASSUME NEW passed \in BOOLEAN, CritiqueTask(t, passed) PROVE PhasesIInv'
    BY <2>5, <2>m DEF CritiqueTask
  <2> QED BY <2>1, <2>3, <2>4, <2>5
<1>8. CASE SavePhase
  <2>1. /\ step = "closing" /\ step' = "entering" /\ phase' = phase + 1
        /\ UNCHANGED unbroken /\ UNCHANGED panel /\ UNCHANGED announced
    BY <1>8 DEF SavePhase
  <2>2. phase \in Phases /\ phase \in Nat /\ ~announced
    BY <1>q, <2>1 DEF ServerIInv
  <2>3. SUFFICES ASSUME unbroken PROVE PhasesIInv'
    BY <2>1 DEF PhasesIInv
  <2>4. panel.shown
    BY <2>1, <2>3 DEF PhasesIInv
  <2>5. \A q \in Phases : /\ q < phase => panel.phases[q] = "complete"
                          /\ q > phase => panel.phases[q] \notin {"complete", "in_progress"}
                          /\ q = phase => panel.phases[q] = "complete"
    BY <2>1, <2>2, <2>3, <2>4 DEF PhasesIInv
  <2>6. \A q \in Phases : /\ q < phase + 1 => panel.phases[q] = "complete"
                          /\ q > phase + 1 => panel.phases[q] \notin {"complete", "in_progress"}
                          /\ q = phase + 1 => panel.phases[q] # "complete"
    BY <1>n, <2>2, <2>5
  <2> QED BY <2>1, <2>4, <2>6 DEF PhasesIInv
<1>9. CASE AnswerPrompt \/ RetryPhase
  <2>1. /\ step \in {"asking", "failed"} /\ step' # "closing"
        /\ UNCHANGED <<phase, announced, unbroken, panel>>
    BY <1>9 DEF AnswerPrompt, RetryPhase
  <2> QED BY <2>1 DEF PhasesIInv
<1>10. CASE LoseConnection \/ Reopen \/ ReadSnapshot \/ UNCHANGED panelVars
  <2>1. UNCHANGED <<phase, step, announced, unbroken, panel>>
    BY <1>10 DEF LoseConnection, Reopen, ReadSnapshot, Server, panelVars
  <2> QED BY <2>1 DEF PhasesIInv
<1>11. CASE SendSnapshot
  BY <1>11 DEF SendSnapshot, PhasesIInv
<1> QED
  BY PanelSteps, <1>1, <1>2, <1>3, <1>4, <1>5, <1>6, <1>7, <1>8, <1>9, <1>10, <1>11, Zenon

\* An announced plan moves no more, but for its connection and its snapshots.
LEMMA FinishedStep ==
  ASSUME ServerIInv, RequestIInv, FlagsIInv, FinishedIsShown, [PanelNext]_panelVars PROVE FinishedIsShown'
<1>p. panel \in PanelRecord
  BY DEF FlagsIInv
<1>1. CASE UNCHANGED <<announced, here, known, request, stale, panel>>
  BY <1>1 DEF FinishedIsShown, NoRequest
<1>2. CASE EnterPhase \/ Prompt \/ SendDag \/ CompletePhase \/ FailPhase \/ PanelTasksMove
  <2>1. phase # Finished /\ UNCHANGED announced
    BY <1>2, PanelAssumption
    DEF EnterPhase, Prompt, SendDag, CompletePhase, FailPhase, PanelTasksMove, StartTask, CompleteTask, CritiqueTask,
        InTasks, Finished
  <2> QED BY <2>1 DEF ServerIInv, FinishedIsShown
<1>3. CASE AnnounceComplete
  <2>1. Emit(OnPlanComplete)
    BY <1>3 DEF AnnounceComplete
  <2>2. UNCHANGED here /\ (here => panel' = OnPlanComplete)
    BY <1>p, <2>1, PlanEvents, Emission
  <2>3. \A q \in Phases : OnPlanComplete.phases[q] = "complete"
    BY <1>p, PlanEvents
  <2> QED BY <2>2, <2>3 DEF FinishedIsShown
<1>4. CASE LoseConnection
  BY <1>4 DEF LoseConnection, FinishedIsShown
<1>5. CASE Reopen
  <2>1. request' = IF known THEN Request("asked", 0, FALSE, FALSE) ELSE NoRequest
    BY <1>5 DEF Reopen
  <2>2. UNCHANGED known
    BY <1>5 DEF Reopen
  <2>3. Request("asked", 0, FALSE, FALSE) # NoRequest
    BY DEF Request, NoRequest
  <2> QED BY <2>1, <2>2, <2>3 DEF FinishedIsShown, NoRequest, Request
<1>6. CASE ReadSnapshot
  <2>1. request'.state = "read"
    BY <1>6 DEF ReadSnapshot, Request
  <2>2. NoRequest.state = "none"
    BY DEF NoRequest, Request
  <2>3. request' # NoRequest
    BY <2>1, <2>2
  <2> QED BY <2>3 DEF FinishedIsShown, NoRequest, Request
<1>7. CASE SendSnapshot
  <2>1. /\ panel' = (IF here THEN Recovered(request) ELSE panel)
        /\ stale' = (here /\ request.done < saved.done)
        /\ UNCHANGED announced /\ UNCHANGED here /\ UNCHANGED saved
    BY <1>7 DEF SendSnapshot, Server
  <2>2. SUFFICES ASSUME announced, here, ~stale' PROVE \A p \in Phases : panel'.phases[p] = "complete"
    BY <2>1 DEF FinishedIsShown
  <2>3. saved.done = LastPhase
    BY <2>2, PanelAssumption DEF ServerIInv, Finished
  <2>4. ~(request.done < saved.done)
    BY <2>1, <2>2
  <2>5. request.done = LastPhase /\ request.done \in 0..LastPhase
    BY <2>3, <2>4, PanelAssumption DEF RequestIInv
  <2>6. panel' = OnPlanComplete
    BY <1>p, <2>1, <2>2, <2>5, SnapshotEvents
  <2> QED BY <1>p, <2>6, PlanEvents
<1>8. CASE AnswerPrompt \/ SavePhase \/ RetryPhase \/ UNCHANGED panelVars
  BY <1>1, <1>8 DEF AnswerPrompt, SavePhase, RetryPhase, panelVars
<1> QED
  BY PanelSteps, <1>2, <1>3, <1>4, <1>5, <1>6, <1>7, <1>8, Zenon

-----------------------------------------------------------------------------

LEMMA PanelStart == PanelInit => PanelIInv
<1> SUFFICES ASSUME PanelInit PROVE PanelIInv
  OBVIOUS
<1> USE PanelAssumption
<1>1. ServerIInv
  <2>1. LastPhase \in Nat /\ TaskPhase \in Nat /\ 1 <= TaskPhase /\ 1 <= LastPhase /\ 1 \in 1..Finished /\ 1 # Finished
    BY DEF Finished
  <2>2. live \in [PlanTasks -> LiveStates] /\ (\A t \in PlanTasks : live[t] = "pending") /\ phase = 1 /\ step = "entering"
    BY DEF PanelInit, LiveStates
  <2>3. saved \in [done : 0..LastPhase, results : BOOLEAN] /\ saved.done = 0 /\ saved.results = FALSE
    BY DEF PanelInit
  <2>4. dagSent = FALSE /\ announced = FALSE
    BY DEF PanelInit
  <2>5. ~(phase > TaskPhase) /\ ~(phase = TaskPhase /\ step = "closing") /\ phase \in 1..Finished /\ phase # Finished
    BY <2>1, <2>2
  <2>6. saved.done = phase - 1
    BY <2>2, <2>3
  <2> QED BY <2>2, <2>3, <2>4, <2>5, <2>6 DEF ServerIInv
<1>2. RequestIInv
  BY DEF PanelInit, RequestIInv, NoRequest, Request
<1>3. FlagsIInv
  <2>1. panel \in PanelRecord
    BY DEF PanelInit, PanelRecord, PanelStatus, TaskShown, NoTasks
  <2>2. breaks \in 0..MaxBreaks
    BY DEF PanelInit
  <2>3. here = TRUE /\ known = FALSE /\ inSync = FALSE /\ unbroken = TRUE /\ stale = FALSE
    BY DEF PanelInit
  <2> QED BY <2>1, <2>2, <2>3, Zenon DEF FlagsIInv
<1>4. TasksIInv /\ FinishedIsShown
  BY DEF PanelInit, TasksIInv, FinishedIsShown
<1>5. PhasesIInv
  BY DEF PanelInit, PhasesIInv
<1> QED BY <1>1, <1>2, <1>3, <1>4, <1>5 DEF PanelIInv

LEMMA PanelKept == PanelIInv /\ [PanelNext]_panelVars => PanelIInv'
BY ServerStep, RequestStep, FlagsStep, TasksStep, PhasesStep, FinishedStep DEF PanelIInv

LEMMA PanelImplied == PanelIInv => PanelInv
<1> SUFFICES ASSUME PanelIInv PROVE PanelInv
  OBVIOUS
<1>1. PanelTypeOK
  <2>1. ServerIInv /\ RequestIInv /\ FlagsIInv
    BY DEF PanelIInv
  <2> QED BY <2>1 DEF ServerIInv, RequestIInv, FlagsIInv, PanelTypeOK, LiveStates, PanelRecord, PanelStatus, TaskShown
<1>2. PanelAgrees
  BY DEF PanelIInv, TasksIInv, PanelAgrees, Shown
<1>3. PhasesShowProgress
  <2>1. phase \in 1..Finished /\ LastPhase \in Nat
    BY PanelAssumption DEF PanelIInv, ServerIInv
  <2>2. \A q \in Phases : q \in Nat
    BY <2>1 DEF Phases
  <2> QED BY <2>1, <2>2 DEF PanelIInv, PhasesIInv, PhasesShowProgress, Finished
<1> QED BY <1>1, <1>2, <1>3 DEF PanelIInv, PanelInv

\* For any phases, tasks and number of lost connections: a panel agrees with the workflow
\* about every task as long as it missed no event since it had them, and about the phases
\* if it missed none at all; and a plan that has been announced ends up shown as complete
\* (the handlers of plan.* in WebSocketContext.tsx, handle_reconnect).
THEOREM PanelSound == PanelSpec => []PanelInv
BY PanelStart, PanelKept, PanelImplied, PTL DEF PanelSpec

-----------------------------------------------------------------------------
(***************************************************************************)
(* The chats of the dashboard (ChatPanel).                                   *)
(***************************************************************************)

\* What is watched is in the active chat; a chat that never had a message is empty, and one
\* that was deleted left nothing.
WatchedIsHeld ==
  /\ watched \subseteq holds[active]
  /\ \A c \in ChatIds : c \in fresh \/ c \notin chats => holds[c] = {}

\* A question that was not asked has no text, and none has more than came.
TextSoFar ==
  \A a \in Answers :
    /\ stream[a].phase = "unused" => stream[a].sent = 0 /\ text[a] = <<>>
    /\ stream[a].phase = "open" => Len(text[a]) <= stream[a].sent

NoteOfIngest == ~ingestActive => current = {}

ChatIInv == ChatInv /\ WatchedIsHeld /\ TextSoFar /\ NoteOfIngest

LEMMA ChatStart == ChatInit => ChatIInv
<1> SUFFICES ASSUME ChatInit PROVE ChatIInv
  OBVIOUS
<1> USE ChatAssumption DEF ChatInit
<1>1. ChatTypeOK
  <2>1. /\ stream \in [Answers -> StreamRecord]
        /\ text \in [Answers -> Seq(0..MaxPieces)] /\ \A a \in Answers : Len(text[a]) <= MaxPieces
    BY DEF StreamRecord
  <2>2. /\ chats \subseteq ChatIds /\ active \in chats /\ fresh \subseteq chats /\ planned \subseteq chats
        /\ holds \in [ChatIds -> SUBSET (Answers \cup Notes)] /\ note \in [Notes -> {"unused", "running", "settled"}]
    OBVIOUS
  <2>3. /\ controller \subseteq Answers /\ bound \subseteq Answers /\ isStreaming \in BOOLEAN /\ isLoading \in BOOLEAN
        /\ ingestActive \in BOOLEAN /\ current \subseteq Notes /\ watched \subseteq Answers \cup Notes
    OBVIOUS
  <2>4. turns \in 0..MaxTurns
    <3>1. turns = 0 /\ MaxTurns \in Nat
      OBVIOUS
    <3> QED
      BY <3>1
  <2> HIDE DEF ChatInit
  <2> QED
    BY <2>1, <2>2, <2>3, <2>4 DEF ChatTypeOK
<1>2. WholeIfWatched /\ BusyMeansWork
  BY DEF WholeIfWatched, BusyMeansWork
<1>3. WatchedIsHeld /\ TextSoFar /\ NoteOfIngest
  BY DEF WatchedIsHeld, TextSoFar, NoteOfIngest
<1> QED
  BY <1>1, <1>2, <1>3 DEF ChatIInv, ChatInv

\* What goes from chat to chat leaves the answers and the notes as they are.
LEMMA StepElsewhere ==
  ASSUME ChatIInv, UNCHANGED <<stream, text, controller, bound, ingestActive, note, current>>,
         watched' \subseteq watched, turns' \in 0..MaxTurns,
         chats' \subseteq ChatIds, active' \in chats', fresh' \subseteq chats', planned' \subseteq chats',
         holds' \in [ChatIds -> SUBSET (Answers \cup Notes)],
         \/ isStreaming' = FALSE /\ isLoading' = FALSE
         \/ UNCHANGED <<isStreaming, isLoading>>
  PROVE  ChatTypeOK' /\ WholeIfWatched' /\ BusyMeansWork' /\ TextSoFar' /\ NoteOfIngest'
<1>0. ChatTypeOK'
  BY DEF ChatIInv, ChatInv, ChatTypeOK
<1>1. WholeIfWatched'
  BY DEF ChatIInv, ChatInv, WholeIfWatched
<1>2. BusyMeansWork'
  BY DEF ChatIInv, ChatInv, BusyMeansWork
<1>3. TextSoFar' /\ NoteOfIngest'
  BY DEF ChatIInv, TextSoFar, NoteOfIngest
<1> QED
  BY <1>0, <1>1, <1>2, <1>3

LEMMA TurnsLeft == ASSUME ChatTypeOK, turns < MaxTurns, turns' = turns + 1 PROVE turns' \in 0..MaxTurns
<1>1. turns \in 0..MaxTurns
  BY DEF ChatTypeOK
<1> QED
  BY <1>1, ChatAssumption

LEMMA StepCreateChat == ASSUME ChatIInv, CreateNewChat PROVE ChatIInv'
<1>1. PICK c \in (IF fresh # {} THEN fresh ELSE ChatIds \ chats) :
        /\ chats' = chats \cup {c} /\ fresh' = fresh \cup {c} /\ active' = c
        /\ holds' = [holds EXCEPT ![c] = {}]
        /\ watched' = watched \cap (IF c = active THEN holds[c] ELSE {})
  BY DEF CreateNewChat, Watch
<1>2. /\ isStreaming' = FALSE /\ isLoading' = FALSE /\ turns < MaxTurns /\ turns' = turns + 1
      /\ UNCHANGED <<planned, stream, text, controller, bound, ingestActive, note, current>>
  BY DEF CreateNewChat, Turn, Streams, Ingest
<1>3. ChatTypeOK
  BY DEF ChatIInv, ChatInv
<1>4. c \in ChatIds /\ (c \in fresh \/ c \notin chats)
  BY <1>1, <1>3 DEF ChatTypeOK
<1>5. holds[c] = {}
  BY <1>4 DEF ChatIInv, WatchedIsHeld
<1>6. watched' = {}
  BY <1>1, <1>5
<1>7. /\ chats' \subseteq ChatIds /\ active' \in chats' /\ fresh' \subseteq chats' /\ planned' \subseteq chats'
      /\ holds' \in [ChatIds -> SUBSET (Answers \cup Notes)]
  BY <1>1, <1>2, <1>3, <1>4 DEF ChatTypeOK
<1>9. turns' \in 0..MaxTurns
  BY <1>2, <1>3, TurnsLeft
<1>8. WatchedIsHeld'
  BY <1>1, <1>3, <1>4, <1>6 DEF ChatIInv, WatchedIsHeld, ChatTypeOK
<1> QED
  BY <1>2, <1>6, <1>7, <1>8, <1>9, StepElsewhere DEF ChatIInv, ChatInv

LEMMA StepSwitch ==
  ASSUME ChatIInv, NEW c \in ChatIds, SwitchChat(c) \/ PlanEvent(c) PROVE ChatIInv'
<1>1. /\ turns < MaxTurns /\ turns' = turns + 1 /\ active' = c /\ c # active /\ c \in chats
      /\ watched' = watched \cap (IF c = active THEN holds[c] ELSE {})
      /\ UNCHANGED <<chats, fresh, planned, holds, stream, text, controller, bound, ingestActive, note, current>>
      /\ \/ isStreaming' = FALSE /\ isLoading' = FALSE
         \/ UNCHANGED <<isStreaming, isLoading>>
  BY DEF SwitchChat, PlanEvent, Turn, Watch, Streams, Ingest, Flags, ChatIInv, ChatInv, ChatTypeOK
<1>2. watched' = {}
  BY <1>1
<1>3. /\ chats' \subseteq ChatIds /\ active' \in chats' /\ fresh' \subseteq chats' /\ planned' \subseteq chats'
      /\ holds' \in [ChatIds -> SUBSET (Answers \cup Notes)]
  BY <1>1 DEF ChatIInv, ChatInv, ChatTypeOK
<1>5. turns' \in 0..MaxTurns
  BY <1>1, TurnsLeft DEF ChatIInv, ChatInv
<1>4. WatchedIsHeld'
  BY <1>1, <1>2 DEF ChatIInv, WatchedIsHeld
<1> QED
  BY <1>1, <1>2, <1>3, <1>4, <1>5, StepElsewhere DEF ChatIInv, ChatInv

LEMMA StepDeleteChat == ASSUME ChatIInv, NEW c \in ChatIds, DeleteChat(c) PROVE ChatIInv'
<1>1. /\ turns < MaxTurns /\ turns' = turns + 1 /\ c \in chats /\ planned' = planned \ {c}
      /\ holds' = [holds EXCEPT ![c] = {}] /\ watched' = (IF c = active THEN {} ELSE watched)
      /\ UNCHANGED <<stream, text, controller, bound, isStreaming, isLoading, ingestActive, note, current>>
  BY DEF DeleteChat, Turn, Streams, Ingest, Flags
<1>2. ChatTypeOK /\ WatchedIsHeld
  BY DEF ChatIInv, ChatInv
<1>3. \/ c # active /\ active' = active /\ chats' = chats \ {c} /\ fresh' = fresh \ {c}
      \/ c = active /\ chats = {c} /\ \E d \in ChatIds : active' = d /\ chats' = {d} /\ fresh' = {d}
      \/ c = active /\ chats' = chats \ {c} /\ fresh' = fresh \ {c} /\ active' \in chats'
  BY <1>2 DEF DeleteChat, ChatTypeOK
<1>4. chats' \subseteq ChatIds /\ active' \in chats' /\ fresh' \subseteq chats' /\ planned' \subseteq chats'
  BY <1>1, <1>2, <1>3 DEF ChatTypeOK
<1>5. holds' \in [ChatIds -> SUBSET (Answers \cup Notes)] /\ turns' \in 0..MaxTurns
  BY <1>1, <1>2, TurnsLeft DEF ChatTypeOK
<1>6. \A d \in ChatIds : d \in fresh' \/ d \notin chats' => holds'[d] = {}
  BY <1>1, <1>2, <1>3 DEF WatchedIsHeld, ChatTypeOK
<1>7. watched' \subseteq holds'[active']
  BY <1>1, <1>2, <1>3 DEF WatchedIsHeld, ChatTypeOK
<1>8. watched' \subseteq watched
  BY <1>1
<1> QED
  BY <1>1, <1>4, <1>5, <1>6, <1>7, <1>8, StepElsewhere DEF ChatIInv, ChatInv, WatchedIsHeld

LEMMA StepClear == ASSUME ChatIInv, ClearChat PROVE ChatIInv'
<1>1. /\ turns < MaxTurns /\ turns' = turns + 1 /\ holds' = [holds EXCEPT ![active] = {}]
      /\ planned' = planned \ {active} /\ fresh' = fresh \ {active} /\ watched' = {}
      /\ UNCHANGED <<chats, active, stream, text, controller, bound, ingestActive, note, current>>
      /\ \/ isStreaming' = FALSE /\ isLoading' = FALSE
         \/ UNCHANGED <<isStreaming, isLoading>>
  BY DEF ClearChat, Turn, Streams, Ingest, Flags
<1>2. /\ chats' \subseteq ChatIds /\ active' \in chats' /\ fresh' \subseteq chats' /\ planned' \subseteq chats'
      /\ holds' \in [ChatIds -> SUBSET (Answers \cup Notes)]
  BY <1>1 DEF ChatIInv, ChatInv, ChatTypeOK
<1>4. turns' \in 0..MaxTurns
  BY <1>1, TurnsLeft DEF ChatIInv, ChatInv
<1>3. WatchedIsHeld'
  BY <1>1 DEF ChatIInv, ChatInv, WatchedIsHeld, ChatTypeOK
<1> QED
  BY <1>1, <1>2, <1>3, <1>4, StepElsewhere DEF ChatIInv, ChatInv

LEMMA StepPlanFlow == ASSUME ChatIInv, StartPlanFlow PROVE ChatIInv'
<1>1. /\ planned' = planned \cup {active} /\ fresh' = fresh \ {active}
      /\ UNCHANGED <<chats, active, holds, stream, text, controller, bound, isStreaming, isLoading,
                     ingestActive, note, current, watched, turns>>
  BY DEF StartPlanFlow, Streams, Flags, Ingest
<1>2. turns' \in 0..MaxTurns /\ chats' \subseteq ChatIds /\ active' \in chats' /\ fresh' \subseteq chats' /\ planned' \subseteq chats'
      /\ holds' \in [ChatIds -> SUBSET (Answers \cup Notes)]
  BY <1>1 DEF ChatIInv, ChatInv, ChatTypeOK
<1>3. WatchedIsHeld'
  BY <1>1 DEF ChatIInv, WatchedIsHeld
<1> QED
  BY <1>1, <1>2, <1>3, StepElsewhere DEF ChatIInv, ChatInv

-----------------------------------------------------------------------------

LEMMA StepAskChat == ASSUME ChatIInv, NEW a \in Answers, StreamMessage(a) PROVE ChatIInv'
<1>1. /\ stream[a].phase = "unused" /\ stream' = [stream EXCEPT ![a].phase = "open"]
      /\ holds' = [holds EXCEPT ![active] = @ \cup {a}] /\ fresh' = fresh \ {active}
      /\ controller' = {a} /\ bound' = bound \cup {a} /\ watched' = watched \cup {a}
      /\ isStreaming' = TRUE /\ isLoading' = TRUE
      /\ UNCHANGED <<chats, active, planned, text, ingestActive, note, current, turns>>
  BY DEF StreamMessage, Ingest
<1>2. ChatTypeOK /\ WatchedIsHeld /\ TextSoFar /\ WholeIfWatched /\ NoteOfIngest
  BY DEF ChatIInv, ChatInv
<1>3. stream \in [Answers -> StreamRecord] /\ stream[a].sent = 0 /\ text[a] = <<>>
  BY <1>1, <1>2 DEF ChatTypeOK, TextSoFar
<1>4. /\ stream'[a].phase = "open" /\ stream'[a].sent = 0 /\ stream'[a] \in StreamRecord
      /\ \A b \in Answers \ {a} : stream'[b] = stream[b]
      /\ stream' \in [Answers -> StreamRecord]
  BY <1>1, <1>3, ChatAssumption DEF StreamRecord
<1>5. holds \in [ChatIds -> SUBSET (Answers \cup Notes)] /\ active \in ChatIds
  BY <1>2 DEF ChatTypeOK
<1>6. ChatTypeOK'
  <2>1. holds' \in [ChatIds -> SUBSET (Answers \cup Notes)]
    BY <1>1, <1>5
  <2> QED
    BY <1>1, <1>2, <1>4, <2>1 DEF ChatTypeOK
<1>7. WholeIfWatched'
  <2>1. ASSUME NEW b \in Answers \cap watched', stream'[b].phase \in {"open", "done"}
        PROVE  text'[b] = IF stream'[b].phase = "done" /\ stream'[b].sent = 0 THEN Whole
                          ELSE [i \in 1..stream'[b].sent |-> i]
    <3>1. CASE b = a
      <4>1. [i \in 1..0 |-> i] = <<>>
        OBVIOUS
      <4> QED
        BY <1>1, <1>3, <1>4, <3>1, <4>1
    <3>2. CASE b # a
      BY <1>1, <1>2, <1>4, <2>1, <3>2 DEF WholeIfWatched
    <3> QED
      BY <3>1, <3>2
  <2>2. \A n \in Notes \cap watched' : note'[n] = "running" => n \in current'
    BY <1>1, <1>2, ChatAssumption DEF WholeIfWatched
  <2> QED
    BY <2>1, <2>2 DEF WholeIfWatched, Whole
<1>8. BusyMeansWork'
  BY <1>1, <1>4 DEF BusyMeansWork
<1>9. WatchedIsHeld'
  BY <1>1, <1>2, <1>5 DEF WatchedIsHeld, ChatTypeOK
<1>10. TextSoFar' /\ NoteOfIngest'
  BY <1>1, <1>2, <1>3, <1>4 DEF TextSoFar, NoteOfIngest
<1> QED
  BY <1>6, <1>7, <1>8, <1>9, <1>10 DEF ChatIInv, ChatInv

\* One more piece, at the end of those that came.
LEMMA OneMore ==
  ASSUME NEW n \in Nat
  PROVE  /\ Append([i \in 1..n |-> i], n + 1) = [i \in 1..(n + 1) |-> i]
         /\ [i \in 1..n |-> i] \in Seq(Nat) /\ Len([i \in 1..n |-> i]) = n
<1> DEFINE s == [i \in 1..n |-> i]
<1>1. s \in Seq(Nat) /\ Len(s) = n
  OBVIOUS
<1> QED
  BY <1>1

LEMMA NoPieces ==
  ASSUME NEW n \in Nat
  PROVE  Len([i \in 1..n |-> i]) = n /\ (n = 0 <=> [i \in 1..n |-> i] = <<>>)
<1> DEFINE s == [i \in 1..n |-> i]
<1>1. s \in Seq(Nat) /\ Len(s) = n
  OBVIOUS
<1> HIDE DEF s
<1>2. n = 0 <=> s = <<>>
  BY <1>1
<1> QED
  BY <1>1, <1>2 DEF s

LEMMA StepChunk == ASSUME ChatIInv, NEW a \in Answers, OnChunk(a) PROVE ChatIInv'
<1>1. /\ stream[a].phase = "open" /\ stream[a].sent < MaxPieces
      /\ stream' = [stream EXCEPT ![a].sent = @ + 1]
      /\ text' = [text EXCEPT ![a] = IF Visible(a) THEN Append(@, stream[a].sent + 1) ELSE @]
      /\ UNCHANGED <<chats, active, fresh, planned, holds, controller, bound, isStreaming, isLoading,
                     ingestActive, note, current, watched, turns>>
  BY DEF OnChunk, Places, Flags, Ingest
<1>2. ChatTypeOK /\ WatchedIsHeld /\ TextSoFar /\ WholeIfWatched /\ NoteOfIngest /\ BusyMeansWork
  BY DEF ChatIInv, ChatInv
<1> DEFINE n == stream[a].sent
<1>3. /\ stream \in [Answers -> StreamRecord] /\ n \in Nat /\ n + 1 \in 0..MaxPieces
      /\ text \in [Answers -> Seq(0..MaxPieces)] /\ Len(text[a]) <= n /\ Len(text[a]) \in Nat
  BY <1>1, <1>2, ChatAssumption DEF ChatTypeOK, TextSoFar, StreamRecord
<1>4. /\ stream'[a].phase = "open" /\ stream'[a].sent = n + 1 /\ stream'[a] \in StreamRecord
      /\ \A b \in Answers \ {a} : stream'[b] = stream[b]
      /\ stream' \in [Answers -> StreamRecord]
  BY <1>1, <1>3 DEF StreamRecord
<1>5. /\ text' \in [Answers -> Seq(0..MaxPieces)]
      /\ \A b \in Answers \ {a} : text'[b] = text[b]
      /\ text'[a] = IF Visible(a) THEN Append(text[a], n + 1) ELSE text[a]
  <2>1. CASE Visible(a)
    <3>1. text' = [text EXCEPT ![a] = Append(text[a], n + 1)]
      BY <1>1, <2>1
    <3>2. Append(text[a], n + 1) \in Seq(0..MaxPieces)
      BY <1>3
    <3> QED
      BY <1>3, <2>1, <3>1, <3>2
  <2>2. CASE ~Visible(a)
    BY <1>1, <1>3, <2>2
  <2> QED
    BY <2>1, <2>2
<1>6. Len(text'[a]) <= n + 1 /\ Len(text'[a]) \in Nat
  <2>1. CASE Visible(a)
    BY <1>3, <1>5, <2>1
  <2>2. CASE ~Visible(a)
    BY <1>3, <1>5, <2>2
  <2> QED
    BY <2>1, <2>2
<1> HIDE DEF n
<1>7. ChatTypeOK'
  <2>1. \A b \in Answers : Len(text'[b]) <= MaxPieces
    <3>1. Len(text'[a]) <= MaxPieces
      <4>1. n \in Nat /\ n + 1 \in 0..MaxPieces /\ MaxPieces \in Nat
        BY <1>3, ChatAssumption
      <4> QED
        BY <1>6, <4>1
    <3> QED
      BY <1>2, <1>5, <3>1 DEF ChatTypeOK
  <2> QED
    BY <1>1, <1>2, <1>4, <1>5, <2>1 DEF ChatTypeOK
<1>8. WholeIfWatched'
  <2>1. ASSUME NEW b \in Answers \cap watched', stream'[b].phase \in {"open", "done"}
        PROVE  text'[b] = IF stream'[b].phase = "done" /\ stream'[b].sent = 0 THEN Whole
                          ELSE [i \in 1..stream'[b].sent |-> i]
    <3>1. CASE b = a
      <4>1. Visible(a)
        BY <1>1, <1>2, <3>1 DEF WatchedIsHeld, Visible
      <4>2. text[a] = [i \in 1..n |-> i]
        BY <1>1, <1>2, <3>1 DEF WholeIfWatched, n
      <4> QED
        BY <1>3, <1>4, <1>5, <3>1, <4>1, <4>2, OneMore
    <3>2. CASE b # a
      BY <1>1, <1>2, <1>4, <1>5, <2>1, <3>2 DEF WholeIfWatched
    <3> QED
      BY <3>1, <3>2
  <2>2. \A m \in Notes \cap watched' : note'[m] = "running" => m \in current'
    BY <1>1, <1>2 DEF WholeIfWatched
  <2> QED
    BY <2>1, <2>2 DEF WholeIfWatched, Whole
<1>9. BusyMeansWork'
  BY <1>1, <1>2, <1>4 DEF BusyMeansWork
<1>10. WatchedIsHeld' /\ NoteOfIngest'
  BY <1>1, <1>2 DEF WatchedIsHeld, NoteOfIngest
<1>11. TextSoFar'
  BY <1>2, <1>4, <1>5, <1>6 DEF TextSoFar
<1> QED
  BY <1>7, <1>8, <1>9, <1>10, <1>11 DEF ChatIInv, ChatInv

LEMMA StepStreamEnds ==
  ASSUME ChatIInv, NEW a \in Answers, OnDone(a) \/ OnStreamError(a) PROVE ChatIInv'
<1>1. PICK end \in {"done", "failed"} :
        /\ StreamEnds(a, end)
        /\ \/ end = "done" /\ text' = [text EXCEPT ![a] = IF Visible(a) /\ @ = <<>> THEN Whole ELSE @]
           \/ end = "failed" /\ text' = text
  BY DEF OnDone, OnStreamError
<1>2. /\ stream[a].phase = "open" /\ stream' = [stream EXCEPT ![a].phase = end]
      /\ UNCHANGED <<chats, active, fresh, planned, holds, controller, bound, ingestActive, note, current, watched, turns>>
      /\ \/ a \in bound /\ isStreaming' = FALSE /\ isLoading' = FALSE
         \/ a \notin bound /\ UNCHANGED <<isStreaming, isLoading>>
  BY <1>1 DEF StreamEnds, Places, Flags, Ingest
<1>3. ChatTypeOK /\ WatchedIsHeld /\ TextSoFar /\ WholeIfWatched /\ NoteOfIngest /\ BusyMeansWork
  BY DEF ChatIInv, ChatInv
<1>4. /\ stream \in [Answers -> StreamRecord] /\ stream[a].sent \in Nat /\ Len(text[a]) <= stream[a].sent
      /\ text \in [Answers -> Seq(0..MaxPieces)] /\ Len(text[a]) <= MaxPieces /\ Len(text[a]) \in Nat
  BY <1>2, <1>3 DEF ChatTypeOK, TextSoFar, StreamRecord
<1>5. /\ stream'[a].phase = end /\ stream'[a].sent = stream[a].sent /\ stream'[a] \in StreamRecord
      /\ \A b \in Answers \ {a} : stream'[b] = stream[b]
      /\ stream' \in [Answers -> StreamRecord]
  BY <1>2, <1>4 DEF StreamRecord
<1>6. Whole \in Seq(0..MaxPieces) /\ Len(Whole) = 1 /\ Len(Whole) <= MaxPieces
  BY ChatAssumption DEF Whole
<1>7. /\ \A b \in Answers \ {a} : text'[b] = text[b]
      /\ text'[a] = IF end = "done" /\ Visible(a) /\ text[a] = <<>> THEN Whole ELSE text[a]
      /\ text' \in [Answers -> Seq(0..MaxPieces)]
  BY <1>1, <1>4, <1>6
<1>8. ChatTypeOK'
  <2>1. \A b \in Answers : Len(text'[b]) <= MaxPieces
    BY <1>3, <1>4, <1>6, <1>7 DEF ChatTypeOK
  <2>2. isStreaming' \in BOOLEAN /\ isLoading' \in BOOLEAN
    BY <1>2, <1>3 DEF ChatTypeOK
  <2> QED
    BY <1>2, <1>3, <1>5, <1>7, <2>1, <2>2 DEF ChatTypeOK
<1>9. WholeIfWatched'
  <2>1. ASSUME NEW b \in Answers \cap watched', stream'[b].phase \in {"open", "done"}
        PROVE  text'[b] = IF stream'[b].phase = "done" /\ stream'[b].sent = 0 THEN Whole
                          ELSE [i \in 1..stream'[b].sent |-> i]
    <3>1. CASE b = a
      <4> DEFINE s == [i \in 1..stream[a].sent |-> i]
      <4>1. Visible(a) /\ end = "done"
        BY <1>1, <1>2, <1>3, <1>5, <2>1, <3>1 DEF WatchedIsHeld, Visible
      <4>2. text[a] = s
        BY <1>2, <1>3, <3>1 DEF WholeIfWatched
      <4>3. Len(s) = stream[a].sent /\ (stream[a].sent = 0 <=> s = <<>>)
        BY <1>4, NoPieces
      <4> HIDE DEF s
      <4>4. text'[a] = IF stream[a].sent = 0 THEN Whole ELSE s
        BY <1>7, <4>1, <4>2, <4>3
      <4> QED
        BY <1>5, <3>1, <4>1, <4>4 DEF s
    <3>2. CASE b # a
      BY <1>2, <1>3, <1>5, <1>7, <2>1, <3>2 DEF WholeIfWatched
    <3> QED
      BY <3>1, <3>2
  <2>2. \A m \in Notes \cap watched' : note'[m] = "running" => m \in current'
    BY <1>2, <1>3 DEF WholeIfWatched
  <2> QED
    BY <2>1, <2>2 DEF WholeIfWatched, Whole
<1>10. BusyMeansWork'
  <2>1. CASE a \in bound
    BY <1>2, <2>1 DEF BusyMeansWork
  <2>2. CASE a \notin bound
    <3>1. {b \in bound' : stream'[b].phase = "open"} = {b \in bound : stream[b].phase = "open"}
      BY <1>2, <1>3, <1>5, <2>2 DEF ChatTypeOK
    <3> QED
      BY <1>2, <1>3, <2>2, <3>1 DEF BusyMeansWork
  <2> QED
    BY <2>1, <2>2
<1>11. WatchedIsHeld' /\ NoteOfIngest'
  BY <1>2, <1>3 DEF WatchedIsHeld, NoteOfIngest
<1>12. TextSoFar'
  BY <1>1, <1>3, <1>5, <1>7 DEF TextSoFar
<1> QED
  BY <1>8, <1>9, <1>10, <1>11, <1>12 DEF ChatIInv, ChatInv

\* The page is opened again: nothing is busy, and the stream that was aborted is not watched for
\* its end.
LEMMA StepRemount == ASSUME ChatIInv, Remount PROVE ChatIInv'
<1>1. /\ turns < MaxTurns /\ turns' = turns + 1
      /\ stream' = [a \in Answers |-> IF a \in controller /\ stream[a].phase = "open"
                                      THEN [stream[a] EXCEPT !.phase = "aborted"] ELSE stream[a]]
      /\ controller' = {} /\ bound' = {} /\ isStreaming' = FALSE /\ isLoading' = FALSE
      /\ ingestActive' = FALSE /\ current' = {} /\ watched' = watched \cap Answers
      /\ UNCHANGED <<chats, active, fresh, planned, holds, text, note>>
  BY DEF Remount, Turn, Places
<1>2. ChatTypeOK /\ WatchedIsHeld /\ TextSoFar /\ WholeIfWatched
  BY DEF ChatIInv, ChatInv
<1>3. stream \in [Answers -> StreamRecord]
  BY <1>2 DEF ChatTypeOK
<1>4. ASSUME NEW a \in Answers
      PROVE  /\ stream'[a] \in StreamRecord /\ stream'[a].sent = stream[a].sent
             /\ stream'[a].phase # "aborted" => stream'[a] = stream[a]
  BY <1>1, <1>3 DEF StreamRecord
<1>5. stream' \in [Answers -> StreamRecord]
  BY <1>1, <1>4
<1>6. turns' \in 0..MaxTurns
  BY <1>1, <1>2, TurnsLeft
<1>7. ChatTypeOK'
  BY <1>1, <1>2, <1>5, <1>6 DEF ChatTypeOK
<1>8. WholeIfWatched'
  BY <1>1, <1>2, <1>4, ChatAssumption DEF WholeIfWatched, Whole
<1>9. BusyMeansWork' /\ NoteOfIngest' /\ WatchedIsHeld'
  BY <1>1, <1>2 DEF BusyMeansWork, NoteOfIngest, WatchedIsHeld
<1>10. TextSoFar'
  BY <1>1, <1>2, <1>4 DEF TextSoFar
<1> QED
  BY <1>7, <1>8, <1>9, <1>10 DEF ChatIInv, ChatInv

LEMMA StepIngest == ASSUME ChatIInv, StartIngest PROVE ChatIInv'
<1>1. /\ isLoading' = TRUE /\ ingestActive' = TRUE
      /\ UNCHANGED <<chats, active, planned, stream, text, controller, bound, isStreaming, turns>>
  BY DEF StartIngest, Streams
<1>2. ChatTypeOK /\ WatchedIsHeld /\ TextSoFar /\ WholeIfWatched /\ NoteOfIngest /\ BusyMeansWork
  BY DEF ChatIInv, ChatInv
<1>3. TextSoFar' /\ BusyMeansWork' /\ NoteOfIngest'
  BY <1>1, <1>2 DEF TextSoFar, BusyMeansWork, NoteOfIngest
<1>4. CASE ingestActive
  <2>1. UNCHANGED <<note, current, holds, watched, fresh>>
    BY <1>4 DEF StartIngest
  <2>2. ChatTypeOK'
    BY <1>1, <1>2, <2>1 DEF ChatTypeOK
  <2>3. WholeIfWatched' /\ WatchedIsHeld'
    BY <1>1, <1>2, <2>1 DEF WholeIfWatched, WatchedIsHeld
  <2> QED
    BY <1>3, <2>2, <2>3 DEF ChatIInv, ChatInv
<1>5. CASE ~ingestActive
  <2>1. PICK n \in Notes :
          /\ note[n] = "unused" /\ note' = [note EXCEPT ![n] = "running"]
          /\ current' = {n} /\ holds' = [holds EXCEPT ![active] = @ \cup {n}]
          /\ watched' = watched \cup {n} /\ fresh' = fresh \ {active}
    BY <1>5 DEF StartIngest
  <2>2. /\ holds \in [ChatIds -> SUBSET (Answers \cup Notes)] /\ active \in ChatIds
        /\ note \in [Notes -> {"unused", "running", "settled"}]
    BY <1>2 DEF ChatTypeOK
  <2>3. holds' \in [ChatIds -> SUBSET (Answers \cup Notes)] /\ note' \in [Notes -> {"unused", "running", "settled"}]
    BY <2>1, <2>2
  <2>4. ChatTypeOK'
    BY <1>1, <1>2, <2>1, <2>3 DEF ChatTypeOK
  <2>5. WatchedIsHeld'
    BY <1>1, <1>2, <2>1, <2>2 DEF WatchedIsHeld, ChatTypeOK
  <2>6. current = {}
    BY <1>2, <1>5 DEF NoteOfIngest
  <2>7. \A m \in Notes \cap watched' : note'[m] = "running" => m \in current'
    BY <1>2, <2>1, <2>2, <2>6 DEF WholeIfWatched
  <2>8. Answers \cap watched' \subseteq Answers \cap watched
    BY <2>1, ChatAssumption
  <2>9. WholeIfWatched'
    BY <1>1, <1>2, <2>7, <2>8 DEF WholeIfWatched, Whole
  <2> QED
    BY <1>3, <2>4, <2>5, <2>9 DEF ChatIInv, ChatInv
<1> QED
  BY <1>4, <1>5

LEMMA StepIngestEnds == ASSUME ChatIInv, IngestEnds PROVE ChatIInv'
<1>1. /\ note' = [n \in Notes |-> IF n \in current /\ Visible(n) THEN "settled" ELSE note[n]]
      /\ ingestActive' = FALSE /\ current' = {} /\ isLoading' = FALSE
      /\ UNCHANGED <<chats, active, fresh, planned, holds, stream, text, controller, bound, isStreaming, watched, turns>>
  BY DEF IngestEnds, Places, Streams
<1>2. ChatTypeOK /\ WatchedIsHeld /\ TextSoFar /\ WholeIfWatched /\ BusyMeansWork
  BY DEF ChatIInv, ChatInv
<1>3. note' \in [Notes -> {"unused", "running", "settled"}]
  BY <1>1, <1>2 DEF ChatTypeOK
<1>4. ChatTypeOK'
  BY <1>1, <1>2, <1>3 DEF ChatTypeOK
<1>5. \A m \in Notes \cap watched' : note'[m] # "running"
  BY <1>1, <1>2 DEF WholeIfWatched, WatchedIsHeld, Visible
<1>6. WholeIfWatched'
  BY <1>1, <1>2, <1>5 DEF WholeIfWatched, Whole
<1>7. TextSoFar' /\ BusyMeansWork' /\ NoteOfIngest' /\ WatchedIsHeld'
  BY <1>1, <1>2 DEF TextSoFar, BusyMeansWork, NoteOfIngest, WatchedIsHeld
<1> QED
  BY <1>4, <1>6, <1>7 DEF ChatIInv, ChatInv

\* For any number of chats, questions, ingests and pieces: an answer whose chat stayed active
\* is shown whole and in order, an ingest that is over is shown as over, and the page is busy
\* only while an answer or an ingest can still end that (ChatContext.tsx).
THEOREM ChatSound == ChatSpec => []ChatInv
<1>1. ChatInit => ChatIInv
  BY ChatStart
<1>2. ChatIInv /\ [ChatNext]_chatVars => ChatIInv'
  <2>1. SUFFICES ASSUME ChatIInv, [ChatNext]_chatVars PROVE ChatIInv'
    OBVIOUS
  <2>2. CASE UNCHANGED chatVars
    <3>1. ChatTypeOK'
      BY <2>1, <2>2 DEF chatVars, ChatIInv, ChatInv, ChatTypeOK
    <3>2. WholeIfWatched' /\ BusyMeansWork'
      BY <2>1, <2>2 DEF chatVars, ChatIInv, ChatInv, WholeIfWatched, BusyMeansWork
    <3>3. WatchedIsHeld' /\ TextSoFar' /\ NoteOfIngest'
      BY <2>1, <2>2 DEF chatVars, ChatIInv, WatchedIsHeld, TextSoFar, NoteOfIngest
    <3> QED
      BY <3>1, <3>2, <3>3 DEF ChatIInv, ChatInv
  <2> QED
    BY <2>1, <2>2, StepCreateChat, StepSwitch, StepDeleteChat, StepClear, StepPlanFlow, StepAskChat, StepChunk,
       StepStreamEnds, StepRemount, StepIngest, StepIngestEnds DEF ChatNext
<1>3. ChatIInv => ChatInv
  BY DEF ChatIInv
<1> QED
  BY <1>1, <1>2, <1>3, PTL DEF ChatSpec

-----------------------------------------------------------------------------
(***************************************************************************)
(* The relay of a chat (ChatRelay).                                          *)
(***************************************************************************)

\* Before a workflow is relayed no frame has come, and its request has one event.
NotYetRelayed ==
  at \notin {"relaying", "over"} =>
    /\ socket = "none" /\ frames = <<>> /\ backlog = <<>> /\ handed = Nothing
    /\ \A i \in DOMAIN out : out[i].of = 0
    /\ at = "start" => ~gone
    /\ at = "connecting" => Len(out) = 1

NotYetDone == at # "over" => \A i \in DOMAIN out : out[i].type # "done"

\* The queue holds nothing while the generator waits, or once the end is on its way.
Queued ==
  at = "relaying" =>
    /\ handed = Nothing => backlog = <<>>
    /\ handed = TheEnd => backlog = <<>> /\ socket # "open"

\* How many frames are on their way to the generator, apart from the queue.
OnTheWay == IF handed \in {Nothing, TheEnd} THEN 0 ELSE 1

\* The frames that were told, the one on its way and those in the queue are all there are, in
\* this order.
Counted ==
  at = "relaying" /\ ~gone =>
    /\ Len(out) >= 1 /\ (Len(out) - 1) + OnTheWay + Len(backlog) = Len(frames)
    /\ OnTheWay = 1 => handed = Len(out)
    /\ \A i \in DOMAIN backlog : backlog[i] = Len(out) + i

RelayIInv == RelayInv /\ NotYetRelayed /\ NotYetDone /\ Queued /\ Counted

LEMMA EventTypes ==
  ASSUME RelayTypeOK, NEW n \in DOMAIN frames
  PROVE  AsEvent(n) \in Events /\ AsEvent(n).type # "done" /\ AsEvent(n).of = n
<1>0. frames \in Seq(FrameTypes) /\ Len(frames) <= MaxFrames
  BY DEF RelayTypeOK
<1>1. frames[n] \in FrameTypes /\ n \in 0..MaxFrames
  BY <1>0, RelayAssumption
<1> QED
  BY <1>1 DEF AsEvent, Event, Events, FrameTypes

LEMMA OneEvent ==
  ASSUME NEW x \in Events, x.of = 0, NEW o, o = <<x>>
  PROVE  o \in Seq(Events) /\ \A i \in DOMAIN o : o[i].of = 0
  OBVIOUS

LEMMA TwoEvents ==
  ASSUME NEW x \in Events, NEW y \in Events, x.of = 0, y.of = 0, x.type # "done", y.type = "done",
         NEW o, o = <<x, y>>
  PROVE  /\ o \in Seq(Events)
         /\ \A i \in DOMAIN o : o[i].of = 0 /\ ((o[i].type = "done") <=> i = Len(o))
  OBVIOUS

LEMMA OpeningTypes ==
  ASSUME NEW a \in [kind : Kinds, repo : BOOLEAN, args : BOOLEAN]
  PROVE  /\ Opening(a) \in Seq(Events)
         /\ \A i \in DOMAIN Opening(a) : Opening(a)[i].of = 0
         /\ /\ a.kind # "empty"
            /\ a.kind \in Static \/ UsageShown(a)
            => \A i \in DOMAIN Opening(a) : (Opening(a)[i].type = "done") <=> i = Len(Opening(a))
         /\ ~(a.kind \in {"empty"} \cup Static \/ UsageShown(a)) => Opening(a) = <<Said("progress")>>
<1> DEFINE e == Said("error") d == Said("done") c == Said("content") p == Said("progress")
<1>1. e \in Events /\ d \in Events /\ c \in Events /\ p \in Events
  BY RelayAssumption DEF Said, Event, Events, FrameTypes
<1>2. e.type = "error" /\ d.type = "done" /\ c.type = "content" /\ p.type = "progress"
      /\ e.of = 0 /\ d.of = 0 /\ c.of = 0 /\ p.of = 0
  BY DEF Said, Event
<1>3. \/ /\ a.kind = "empty"
         /\ Opening(a) = <<e>>
      \/ /\ a.kind # "empty" /\ (a.kind \in Static \/ UsageShown(a))
         /\ \/ Opening(a) = <<c, d>>
            \/ Opening(a) = <<e, d>>
      \/ /\ ~(a.kind \in {"empty"} \cup Static \/ UsageShown(a))
         /\ Opening(a) = <<p>>
  BY DEF Opening, Static, UsageShown, Kinds, Lookups, Relayed
<1>6. p = Said("progress")
  OBVIOUS
<1> HIDE DEF e, d, c, p
<1>4. ASSUME NEW x \in {e, p}, Opening(a) = <<x>>
      PROVE  Opening(a) \in Seq(Events) /\ \A i \in DOMAIN Opening(a) : Opening(a)[i].of = 0
  BY <1>1, <1>2, <1>4, OneEvent
<1>5. ASSUME NEW x \in {e, c}, Opening(a) = <<x, d>>
      PROVE  /\ Opening(a) \in Seq(Events)
             /\ \A i \in DOMAIN Opening(a) : Opening(a)[i].of = 0 /\ ((Opening(a)[i].type = "done") <=> i = Len(Opening(a)))
  BY <1>1, <1>2, <1>5, TwoEvents
<1> QED
  BY <1>3, <1>4, <1>5, <1>6

LEMMA Writing ==
  ASSUME RelayTypeOK, NEW es \in Seq(Events), Write(es)
  PROVE  /\ out' \in Seq(Events)
         /\ gone => out' = out
         /\ ~gone => /\ Len(out') = Len(out) + Len(es)
                     /\ \A k \in DOMAIN out' : \/ k \in DOMAIN out /\ out'[k] = out[k]
                                             \/ \E i \in DOMAIN es : k = Len(out) + i /\ out'[k] = es[i]
<1>1. out \in Seq(Events)
  BY DEF RelayTypeOK
<1>2. CASE gone
  BY <1>1, <1>2 DEF Write
<1>3. CASE ~gone
  <2>1. out' = out \o es
    BY <1>3 DEF Write
  <2>2. /\ out' \in Seq(Events) /\ Len(out') = Len(out) + Len(es)
        /\ \A k \in 1..(Len(out) + Len(es)) : out'[k] = IF k <= Len(out) THEN out[k] ELSE es[k - Len(out)]
    BY <1>1, <2>1, ConcatProperties
  <2>3. ASSUME NEW k \in DOMAIN out'
        PROVE  \/ k \in DOMAIN out /\ out'[k] = out[k]
               \/ \E i \in DOMAIN es : k = Len(out) + i /\ out'[k] = es[i]
    <3>1. k \in 1..(Len(out) + Len(es)) /\ Len(out) \in Nat /\ Len(es) \in Nat
      BY <1>1, <2>2
    <3>2. CASE k <= Len(out)
      BY <1>1, <2>2, <3>1, <3>2
    <3>3. CASE ~(k <= Len(out))
      <4>1. k - Len(out) \in DOMAIN es /\ k = Len(out) + (k - Len(out))
        BY <3>1, <3>3
      <4> QED
        BY <2>2, <3>1, <3>3, <4>1
    <3> QED
      BY <3>2, <3>3
  <2> QED
    BY <1>3, <2>2, <2>3
<1> QED
  BY <1>2, <1>3

\* What is written when a request ends.
Closing(es) ==
  /\ es \in Seq(Events) /\ es # <<>>
  /\ \A i \in DOMAIN es : es[i].of = 0 /\ ((es[i].type = "done") <=> i = Len(es))

LEMMA ClosingEvents ==
  ASSUME NEW kind
  PROVE  Closing(<<Said("error"), Said("done")>>) /\ Closing(Found(kind) \o <<Said("done")>>)
<1> DEFINE e == Said("error") d == Said("done") c == Said("content") s == Said("sources")
<1>1. e \in Events /\ d \in Events /\ c \in Events /\ s \in Events
  BY RelayAssumption DEF Said, Event, Events, FrameTypes
<1>2. /\ e.type = "error" /\ d.type = "done" /\ c.type = "content" /\ s.type = "sources"
      /\ e.of = 0 /\ d.of = 0 /\ c.of = 0 /\ s.of = 0
  BY DEF Said, Event
<1>3. \/ Found(kind) = <<s, c>>
      \/ Found(kind) = <<c>>
  BY DEF Found
<1>4. d = Said("done") /\ e = Said("error")
  OBVIOUS
<1> HIDE DEF e, d, c, s
<1>5. Closing(<<e, d>>)
  <2>1. <<e, d>> # <<>>
    OBVIOUS
  <2> QED
    BY <1>1, <1>2, <2>1, TwoEvents DEF Closing
<1>6. /\ Found(kind) \in Seq(Events) /\ Len(Found(kind)) >= 1
      /\ \A i \in DOMAIN Found(kind) : Found(kind)[i].of = 0 /\ Found(kind)[i].type # "done"
  <2>1. CASE Found(kind) = <<s, c>>
    <3>1. <<s, c>> \in Seq(Events) /\ Len(<<s, c>>) = 2 /\ <<s, c>>[1] = s /\ <<s, c>>[2] = c
      BY <1>1
    <3> QED
      BY <1>2, <2>1, <3>1
  <2>2. CASE Found(kind) = <<c>>
    <3>1. <<c>> \in Seq(Events) /\ Len(<<c>>) = 1 /\ <<c>>[1] = c
      BY <1>1
    <3> QED
      BY <1>2, <2>2, <3>1
  <2> QED
    BY <1>3, <2>1, <2>2
<1>7. Closing(Found(kind) \o <<d>>)
  <2> DEFINE f == Found(kind) g == f \o <<d>>
  <2>1. <<d>> \in Seq(Events) /\ Len(<<d>>) = 1 /\ <<d>>[1] = d
    BY <1>1
  <2>2. f \in Seq(Events) /\ Len(f) \in Nat /\ Len(f) >= 1
    BY <1>6
  <2>3. \A i \in DOMAIN f : f[i].of = 0 /\ f[i].type # "done"
    BY <1>6
  <2> HIDE DEF f
  <2>4. /\ g \in Seq(Events) /\ Len(g) = Len(f) + 1
        /\ \A i \in 1..(Len(f) + 1) : g[i] = IF i <= Len(f) THEN f[i] ELSE <<d>>[i - Len(f)]
    BY <2>1, <2>2, ConcatProperties
  <2> HIDE DEF g
  <2>5. ASSUME NEW i \in DOMAIN g PROVE g[i].of = 0 /\ ((g[i].type = "done") <=> i = Len(g))
    <3>1. i \in 1..(Len(f) + 1)
      BY <2>2, <2>4
    <3>2. CASE i <= Len(f)
      BY <2>2, <2>3, <2>4, <3>1, <3>2
    <3>3. CASE i = Len(f) + 1
      BY <1>2, <2>1, <2>2, <2>4, <3>3
    <3> QED
      BY <2>2, <3>1, <3>2, <3>3
  <2>6. g # <<>>
    BY <2>2, <2>4
  <2>7. Closing(g)
    BY <2>4, <2>5, <2>6 DEF Closing
  <2> QED
    BY <2>7 DEF g, f
<1> QED
  BY <1>4, <1>5, <1>7

-----------------------------------------------------------------------------

LEMMA RelayStart == RelayInit => RelayIInv
<1> SUFFICES ASSUME RelayInit PROVE RelayIInv
  OBVIOUS
<1> USE RelayAssumption DEF RelayInit
<1>1. RelayTypeOK
  <2>1. handed \in Nothing..TheEnd
    BY DEF Nothing, TheEnd
  <2>2. ask \in [kind : Kinds, repo : BOOLEAN, args : BOOLEAN]
    BY DEF Kinds
  <2>3. frames \in Seq(FrameTypes) /\ Len(frames) <= MaxFrames
    OBVIOUS
  <2>4. backlog \in Seq(DOMAIN frames)
    OBVIOUS
  <2>5. out \in Seq(Events)
    OBVIOUS
  <2> QED
    BY <2>1, <2>2, <2>3, <2>4, <2>5 DEF RelayTypeOK
<1> QED
  BY <1>1 DEF RelayIInv, RelayInv, RelayIsPrefix, DoneIsLast, SocketIsShut, NotYetRelayed, NotYetDone,
              Queued, Counted, Nothing

LEMMA StepRequest == ASSUME RelayIInv, RequestChat PROVE RelayIInv'
<1>1. PICK a \in [kind : Kinds, repo : BOOLEAN, args : BOOLEAN] :
        /\ ask' = a /\ out' = Opening(a)
        /\ at' = IF a.kind \in {"empty"} \cup Static \/ UsageShown(a) THEN "over"
                 ELSE IF a.kind \in Lookups THEN "fetching" ELSE "connecting"
  BY DEF RequestChat
<1>2. at = "start" /\ UNCHANGED <<socket, frames, backlog, handed, isDone, gone>>
  BY DEF RequestChat, Socket
<1>3. /\ out' \in Seq(Events) /\ \A i \in DOMAIN out' : out'[i].of = 0
      /\ at' \in {"over", "fetching", "connecting"}
  BY <1>1, OpeningTypes
<1>4. socket = "none" /\ frames = <<>> /\ backlog = <<>> /\ handed = Nothing
  BY <1>2 DEF RelayIInv, NotYetRelayed
<1>5. RelayTypeOK'
  BY <1>1, <1>2, <1>3 DEF RelayIInv, RelayInv, RelayTypeOK, Events
<1>6. RelayIsPrefix' /\ SocketIsShut' /\ Queued' /\ Counted'
  BY <1>2, <1>3, <1>4 DEF RelayIsPrefix, SocketIsShut, Queued, Counted
<1>7. CASE at' = "over"
  <2>1. DoneIsLast'
    BY <1>1, <1>7, OpeningTypes DEF DoneIsLast
  <2> QED
    BY <1>5, <1>6, <1>7, <2>1 DEF RelayIInv, RelayInv, NotYetRelayed, NotYetDone
<1>8. CASE at' \in {"fetching", "connecting"}
  <2>1. out' = <<Said("progress")>>
    BY <1>1, <1>8, OpeningTypes
  <2>2. Len(out') = 1 /\ DOMAIN out' = {1} /\ out'[1].type = "progress"
    BY <2>1 DEF Said, Event
  <2>3. NotYetRelayed' /\ NotYetDone'
    BY <1>2, <1>3, <1>4, <1>8, <2>2 DEF NotYetRelayed, NotYetDone
  <2> QED
    BY <1>5, <1>6, <1>8, <2>3 DEF RelayIInv, RelayInv, DoneIsLast
<1> QED
  BY <1>3, <1>7, <1>8

\* A request that ends before anything was relayed.
LEMMA EndsEarly ==
  ASSUME RelayIInv, at \notin {"relaying", "over"}, NEW es, Closing(es), Write(es), at' = "over",
         UNCHANGED <<ask, socket, frames, backlog, handed, isDone, gone>>
  PROVE  RelayIInv'
<1>1. RelayTypeOK /\ es \in Seq(Events)
  BY DEF RelayIInv, RelayInv, Closing
<1>2. /\ out' \in Seq(Events)
      /\ gone => out' = out
      /\ ~gone => /\ Len(out') = Len(out) + Len(es)
                  /\ \A k \in DOMAIN out' : \/ k \in DOMAIN out /\ out'[k] = out[k]
                                          \/ \E i \in DOMAIN es : k = Len(out) + i /\ out'[k] = es[i]
  BY <1>1, Writing
<1>3. RelayTypeOK'
  BY <1>1, <1>2 DEF RelayTypeOK
<1>4. /\ socket = "none"
      /\ \A i \in DOMAIN out : out[i].of = 0 /\ out[i].type # "done"
  BY DEF RelayIInv, NotYetRelayed, NotYetDone
<1>5. es # <<>> /\ \A i \in DOMAIN es : es[i].of = 0 /\ ((es[i].type = "done") <=> i = Len(es))
  BY DEF Closing
<1>6. RelayIsPrefix'
  BY <1>2, <1>4, <1>5 DEF RelayIsPrefix
<1>7. DoneIsLast'
  <2>1. SUFFICES ASSUME ~gone, NEW k \in DOMAIN out' PROVE (out'[k].type = "done") <=> k = Len(out')
    BY DEF DoneIsLast
  <2>2. Len(out) \in Nat /\ Len(es) \in Nat /\ Len(es) > 0 /\ DOMAIN out = 1..Len(out) /\ DOMAIN es = 1..Len(es)
    BY <1>1, <1>5 DEF RelayTypeOK
  <2>3. Len(out') = Len(out) + Len(es)
    BY <1>2, <2>1
  <2>4. CASE k \in DOMAIN out /\ out'[k] = out[k]
    BY <1>4, <2>2, <2>3, <2>4
  <2>5. ASSUME NEW i \in DOMAIN es, k = Len(out) + i, out'[k] = es[i]
        PROVE  (out'[k].type = "done") <=> k = Len(out')
    BY <1>5, <2>2, <2>3, <2>5
  <2> QED
    BY <1>2, <2>1, <2>4, <2>5
<1> QED
  BY <1>3, <1>4, <1>6, <1>7 DEF RelayIInv, RelayInv, SocketIsShut, NotYetRelayed, NotYetDone, Queued, Counted

LEMMA StepFetched == ASSUME RelayIInv, Fetched PROVE RelayIInv'
<1>1. at = "fetching" /\ at' = "over" /\ UNCHANGED <<ask, socket, frames, backlog, handed, isDone, gone>>
  BY DEF Fetched, Socket
<1>2. \/ Write(Found(ask.kind) \o <<Said("done")>>)
      \/ Write(<<Said("error"), Said("done")>>)
  BY DEF Fetched
<1> QED
  BY <1>1, <1>2, ClosingEvents, EndsEarly

LEMMA StepConnect == ASSUME RelayIInv, ConnectSocket PROVE RelayIInv'
<1>1. at = "connecting" /\ at' = "relaying" /\ socket' = "open"
      /\ UNCHANGED <<ask, out, frames, backlog, handed, isDone, gone>>
  BY DEF ConnectSocket
<1>2. frames = <<>> /\ backlog = <<>> /\ handed = Nothing /\ Len(out) = 1
  BY <1>1 DEF RelayIInv, NotYetRelayed
<1>3. RelayTypeOK'
  BY <1>1 DEF RelayIInv, RelayInv, RelayTypeOK
<1>4. RelayIsPrefix'
  BY <1>1 DEF RelayIInv, RelayInv, RelayIsPrefix, AsEvent, Passed
<1>5. Queued' /\ Counted'
  BY <1>1, <1>2, RelayAssumption DEF Queued, Counted, OnTheWay, Nothing, TheEnd
<1>6. NotYetRelayed' /\ NotYetDone'
  BY <1>1 DEF RelayIInv, NotYetRelayed, NotYetDone
<1> QED
  BY <1>1, <1>3, <1>4, <1>5, <1>6 DEF RelayIInv, RelayInv, DoneIsLast, SocketIsShut

LEMMA StepConnectThrows == ASSUME RelayIInv, ConnectThrows PROVE RelayIInv'
<1>1. at = "connecting" /\ UNCHANGED <<ask, socket, frames, backlog, handed, isDone, gone>>
  BY DEF ConnectThrows, Socket
<1>2. CASE ask.kind # "question"
  <2>1. at' = "over" /\ Write(<<Said("error"), Said("done")>>)
    BY <1>2 DEF ConnectThrows
  <2> QED
    BY <1>1, <2>1, ClosingEvents, EndsEarly
<1>3. CASE ask.kind = "question"
  <2> DEFINE p == <<Said("progress")>>
  <2>1. at' = (IF gone THEN "over" ELSE "fetching") /\ Write(p)
    BY <1>3 DEF ConnectThrows
  <2>2. p \in Seq(Events) /\ DOMAIN p = {1} /\ p[1].of = 0 /\ p[1].type = "progress"
    BY RelayAssumption DEF Said, Event, Events, FrameTypes
  <2>3. RelayTypeOK
    BY DEF RelayIInv, RelayInv
  <2> HIDE DEF p
  <2>4. /\ out' \in Seq(Events)
        /\ gone => out' = out
        /\ ~gone => \A k \in DOMAIN out' : \/ k \in DOMAIN out /\ out'[k] = out[k]
                                          \/ \E i \in DOMAIN p : k = Len(out) + i /\ out'[k] = p[i]
    BY <2>1, <2>2, <2>3, Writing
  <2>5. /\ socket = "none" /\ frames = <<>> /\ backlog = <<>> /\ handed = Nothing
        /\ \A i \in DOMAIN out : out[i].of = 0 /\ out[i].type # "done"
    BY <1>1 DEF RelayIInv, NotYetRelayed, NotYetDone
  <2>6. \A i \in DOMAIN out' : out'[i].of = 0 /\ out'[i].type # "done"
    BY <2>2, <2>4, <2>5
  <2>7. RelayTypeOK'
    BY <1>1, <2>1, <2>3, <2>4 DEF RelayTypeOK
  <2> QED
    BY <1>1, <2>1, <2>5, <2>6, <2>7 DEF RelayIInv, RelayInv, RelayIsPrefix, DoneIsLast, SocketIsShut, NotYetRelayed,
       NotYetDone, Queued, Counted
<1> QED
  BY <1>2, <1>3

\* A frame goes to the generator if it waits, else behind the others.
LEMMA StepFrame == ASSUME RelayIInv, NEW type \in FrameTypes, Frame(type) PROVE RelayIInv'
<1> DEFINE n == Len(frames) + 1
<1>1. /\ at = "relaying" /\ socket = "open" /\ Len(frames) < MaxFrames /\ frames' = Append(frames, type)
      /\ HandleMessage(n) /\ isDone' = (isDone \/ type \in Ending) /\ UNCHANGED <<at, ask, out, socket, gone>>
  BY DEF Frame
<1>2. RelayTypeOK /\ Queued /\ Counted /\ RelayIsPrefix /\ NotYetDone
  BY DEF RelayIInv, RelayInv
<1>3. /\ frames \in Seq(FrameTypes) /\ Len(frames) \in Nat /\ backlog \in Seq(DOMAIN frames)
      /\ isDone \in BOOLEAN /\ handed \in 0..(MaxFrames + 1)
      /\ out \in Seq(Events) /\ Len(out) \in Nat
  BY <1>2 DEF RelayTypeOK, Nothing, TheEnd
<1>4. /\ frames' \in Seq(FrameTypes) /\ Len(frames') = n /\ DOMAIN frames' = 1..n
      /\ \A i \in DOMAIN frames : frames'[i] = frames[i]
  BY <1>1, <1>3
<1>5. n \in 1..MaxFrames /\ DOMAIN frames \subseteq DOMAIN frames'
  BY <1>1, <1>3, <1>4, RelayAssumption
<1> HIDE DEF n
<1>6. RelayIsPrefix'
  <2>1. \A i \in DOMAIN frames : AsEvent(i)' = AsEvent(i)
    BY <1>1, <1>4 DEF AsEvent, Passed, Event
  <2> QED
    BY <1>1, <1>2, <1>5, <2>1 DEF RelayIsPrefix
<1>7. handed # TheEnd
  BY <1>1, <1>2 DEF Queued
<1>8. isDone' \in BOOLEAN
  BY <1>1
<1>9. CASE handed = Nothing
  <2>1. handed' = n /\ backlog' = backlog /\ backlog = <<>>
    BY <1>1, <1>2, <1>9 DEF HandleMessage, Queued
  <2>2. handed' \in Nothing..TheEnd /\ handed' # Nothing /\ handed' # TheEnd /\ backlog' \in Seq(DOMAIN frames')
    BY <1>5, <2>1, RelayAssumption DEF Nothing, TheEnd
  <2>3. RelayTypeOK'
    BY <1>1, <1>2, <1>4, <1>5, <1>8, <2>2 DEF RelayTypeOK
  <2>4. OnTheWay = 0 /\ OnTheWay' = 1
    BY <1>9, <2>2 DEF OnTheWay
  <2>5. Counted'
    BY <1>1, <1>2, <1>3, <1>4, <2>1, <2>4 DEF Counted, n
  <2>6. Queued'
    BY <2>2 DEF Queued
  <2> QED
    BY <1>1, <1>2, <1>6, <2>3, <2>5, <2>6 DEF RelayIInv, RelayInv, DoneIsLast, SocketIsShut, NotYetRelayed, NotYetDone
<1>10. CASE handed # Nothing
  <2>1. backlog' = Append(backlog, n) /\ handed' = handed
    BY <1>1, <1>10 DEF HandleMessage
  <2>2. backlog \in Seq(DOMAIN frames') /\ n \in DOMAIN frames'
    BY <1>3, <1>4, <1>5
  <2>3. /\ backlog' \in Seq(DOMAIN frames') /\ Len(backlog') = Len(backlog) + 1 /\ Len(backlog) \in Nat
        /\ \A i \in DOMAIN backlog' : backlog'[i] = IF i \in DOMAIN backlog THEN backlog[i] ELSE n
        /\ \A i \in DOMAIN backlog' : i \in DOMAIN backlog \/ i = Len(backlog) + 1
    BY <2>1, <2>2
  <2>4. RelayTypeOK'
    BY <1>1, <1>2, <1>4, <1>5, <1>8, <2>1, <2>3 DEF RelayTypeOK
  <2>5. OnTheWay = 1 /\ OnTheWay' = 1
    BY <1>7, <1>10, <2>1 DEF OnTheWay
  <2>6. Counted'
    <3>1. SUFFICES ASSUME ~gone
          PROVE  /\ Len(out) >= 1 /\ (Len(out) - 1) + 1 + Len(backlog') = Len(frames')
                 /\ handed' = Len(out) /\ \A i \in DOMAIN backlog' : backlog'[i] = Len(out) + i
      BY <1>1, <2>5 DEF Counted
    <3>2. /\ Len(out) >= 1 /\ (Len(out) - 1) + 1 + Len(backlog) = Len(frames) /\ handed = Len(out)
          /\ \A i \in DOMAIN backlog : backlog[i] = Len(out) + i
      BY <1>1, <1>2, <2>5, <3>1 DEF Counted
    <3>3. n = Len(out) + (Len(backlog) + 1)
      <4>1. Len(out) \in Nat /\ Len(backlog) \in Nat /\ Len(frames) \in Nat
        BY <1>3, <2>3
      <4>2. (Len(out) - 1) + 1 + Len(backlog) = Len(frames)
        BY <3>2
      <4> QED
        BY <4>1, <4>2 DEF n
    <3>4. \A i \in DOMAIN backlog' : backlog'[i] = Len(out) + i
      BY <2>3, <3>2, <3>3
    <3>5. (Len(out) - 1) + 1 + Len(backlog') = Len(frames')
      <4>1. Len(out) \in Nat /\ Len(backlog) \in Nat /\ Len(backlog') = Len(backlog) + 1 /\ Len(frames') = n
        BY <1>3, <1>4, <2>3
      <4> QED
        BY <3>3, <4>1
    <3> QED
      BY <2>1, <3>2, <3>4, <3>5
  <2>7. Queued'
    BY <1>7, <1>10, <2>1 DEF Queued
  <2> QED
    BY <1>1, <1>2, <1>6, <2>4, <2>6, <2>7 DEF RelayIInv, RelayInv, DoneIsLast, SocketIsShut, NotYetRelayed, NotYetDone
<1> QED
  BY <1>9, <1>10

LEMMA StepSocketEnds == ASSUME RelayIInv, NEW how \in {"failed", "shut"}, SocketEnds(how) PROVE RelayIInv'
<1>1. /\ at = "relaying" /\ socket = "open" /\ socket' = how /\ isDone' = TRUE
      /\ handed' = (IF handed = Nothing THEN TheEnd ELSE handed)
      /\ UNCHANGED <<at, ask, out, frames, backlog, gone>>
  BY DEF SocketEnds, HandleComplete
<1>2. RelayTypeOK /\ Queued /\ Counted /\ RelayIsPrefix /\ NotYetDone
  BY DEF RelayIInv, RelayInv
<1>3. Nothing # TheEnd /\ TheEnd \in Nothing..TheEnd
  BY RelayAssumption DEF Nothing, TheEnd
<1>4. RelayTypeOK'
  BY <1>1, <1>2, <1>3 DEF RelayTypeOK
<1>5. OnTheWay' = OnTheWay
  BY <1>1 DEF OnTheWay
<1>6. Counted'
  <2>1. OnTheWay = 1 => handed' = handed
    BY <1>1 DEF OnTheWay
  <2> QED
    BY <1>1, <1>2, <1>5, <2>1 DEF Counted
<1>7. Queued'
  BY <1>1, <1>2, <1>3 DEF Queued
<1>8. RelayIsPrefix'
  BY <1>1, <1>2 DEF RelayIsPrefix, AsEvent, Passed
<1> QED
  BY <1>1, <1>2, <1>4, <1>6, <1>7, <1>8 DEF RelayIInv, RelayInv, DoneIsLast, SocketIsShut, NotYetRelayed, NotYetDone

LEMMA StepPageLeaves == ASSUME RelayIInv, PageLeaves PROVE RelayIInv'
<1>1. at \notin {"start", "over"} /\ gone' = TRUE /\ UNCHANGED <<at, ask, out, socket, frames, backlog, handed, isDone>>
  BY DEF PageLeaves, Socket
<1>2. RelayTypeOK' /\ RelayIsPrefix'
  BY <1>1 DEF RelayIInv, RelayInv, RelayTypeOK, RelayIsPrefix, AsEvent, Passed
<1> QED
  BY <1>1, <1>2 DEF RelayIInv, RelayInv, DoneIsLast, SocketIsShut, NotYetRelayed, NotYetDone, Queued, Counted

\* What the generator takes are the next frames, in their order.
LEMMA TakenAreNext ==
  ASSUME RelayIInv, at = "relaying", handed # Nothing, ~gone
  PROVE  /\ Taken \in Seq(DOMAIN frames)
         /\ \A i \in DOMAIN Taken : Taken[i] = (Len(out) - 1) + i
         /\ ~isDone => (Len(out) - 1) + Len(Taken) = Len(frames)
         /\ Len(out) \in Nat /\ Len(out) >= 1
<1>1. RelayTypeOK /\ Queued /\ Counted
  BY DEF RelayIInv, RelayInv
<1>2. /\ Len(frames) \in Nat /\ DOMAIN frames = 1..Len(frames) /\ Len(frames) <= MaxFrames
      /\ backlog \in Seq(DOMAIN frames) /\ Len(backlog) \in Nat /\ Len(out) \in Nat
      /\ handed \in 0..(MaxFrames + 1)
  BY <1>1 DEF RelayTypeOK, Nothing, TheEnd
<1>3. /\ Len(out) >= 1 /\ (Len(out) - 1) + OnTheWay + Len(backlog) = Len(frames)
      /\ OnTheWay = 1 => handed = Len(out)
      /\ \A i \in DOMAIN backlog : backlog[i] = Len(out) + i
  BY <1>1 DEF Counted
<1>4. CASE handed = TheEnd
  <2>1. Taken = <<>> /\ OnTheWay = 0 /\ backlog = <<>>
    BY <1>1, <1>4 DEF Taken, OnTheWay, Queued
  <2>2. (Len(out) - 1) + 0 + Len(backlog) = Len(frames) /\ Len(backlog) = 0
    BY <1>3, <2>1
  <2> QED
    BY <1>2, <1>3, <2>1, <2>2
<1>5. CASE handed # TheEnd
  <2>1. OnTheWay = 1 /\ handed = Len(out)
    BY <1>3, <1>5 DEF OnTheWay
  <2>2. (Len(out) - 1) + 1 + Len(backlog) = Len(frames)
    BY <1>3, <2>1
  <2>3. handed \in DOMAIN frames
    BY <1>2, <1>3, <2>1, <2>2
  <2>4. <<handed>> \in Seq(DOMAIN frames) /\ Len(<<handed>>) = 1 /\ <<handed>>[1] = Len(out)
    BY <2>1, <2>3
  <2> DEFINE rest == IF isDone THEN <<>> ELSE backlog
  <2>5. /\ rest \in Seq(DOMAIN frames) /\ Len(rest) \in Nat /\ \A i \in 1..Len(rest) : rest[i] = Len(out) + i
        /\ ~isDone => Len(rest) = Len(backlog)
    <3>1. CASE isDone
      BY <3>1
    <3>2. CASE ~isDone
      BY <1>2, <1>3, <3>2
    <3> QED
      BY <3>1, <3>2
  <2>6. Taken = <<handed>> \o rest
    BY <1>5 DEF Taken
  <2> HIDE DEF rest
  <2>7. /\ Taken \in Seq(DOMAIN frames) /\ Len(Taken) = 1 + Len(rest)
        /\ \A i \in 1..(1 + Len(rest)) : Taken[i] = IF i <= 1 THEN <<handed>>[i] ELSE rest[i - 1]
    BY <2>4, <2>5, <2>6, ConcatProperties
  <2>8. ASSUME NEW i \in DOMAIN Taken PROVE Taken[i] = (Len(out) - 1) + i
    <3>1. i \in 1..(1 + Len(rest))
      BY <2>5, <2>7
    <3>2. CASE i = 1
      BY <1>2, <2>4, <2>5, <2>7, <3>2
    <3>3. CASE i > 1
      <4>1. i - 1 \in 1..Len(rest) /\ ~(i <= 1)
        BY <2>5, <3>1, <3>3
      <4>2. Taken[i] = Len(out) + (i - 1)
        BY <2>5, <2>7, <3>1, <4>1
      <4> QED
        BY <1>2, <3>1, <4>2
    <3> QED
      BY <2>5, <3>1, <3>2, <3>3
  <2>9. ~isDone => (Len(out) - 1) + Len(Taken) = Len(frames)
    <3>1. Len(Taken) = 1 + Len(rest) /\ (~isDone => Len(rest) = Len(backlog))
      BY <2>5, <2>7
    <3>2. Len(out) \in Nat /\ Len(backlog) \in Nat
      BY <1>2
    <3> QED
      BY <2>2, <3>1, <3>2
  <2> QED
    BY <1>2, <1>3, <2>7, <2>8, <2>9
<1> QED
  BY <1>4, <1>5

LEMMA StepResume == ASSUME RelayIInv, Resume PROVE RelayIInv'
<1> DEFINE es == AsEvents(Taken) last == IF isDone THEN <<Said("done")>> ELSE <<>>
           over == isDone \/ (gone /\ \E i \in DOMAIN Taken : Passed(Taken[i]))
<1>1. /\ at = "relaying" /\ handed # Nothing /\ handed' = Nothing /\ backlog' = <<>> /\ UNCHANGED <<ask, frames, gone>>
      /\ Write(es \o last)
      /\ at' = (IF over THEN "over" ELSE at) /\ socket' = (IF over THEN "closed" ELSE socket)
      /\ isDone' = (isDone \/ over)
  BY DEF Resume
<1> HIDE DEF es, last
<1>2. RelayTypeOK /\ Queued /\ Counted /\ RelayIsPrefix /\ NotYetDone
  BY DEF RelayIInv, RelayInv
<1>3. \A i \in DOMAIN frames : AsEvent(i)' = AsEvent(i)
  BY <1>1 DEF AsEvent, Passed, Event
<1>4. handed' \in Nothing..TheEnd /\ backlog' \in Seq(DOMAIN frames') /\ over \in BOOLEAN /\ OnTheWay' = 0
  BY <1>1, RelayAssumption DEF Nothing, TheEnd, OnTheWay
<1>5. Queued'
  BY <1>1, RelayAssumption DEF Queued, Nothing, TheEnd
<1>6. (at' = "relaying" /\ ~over) \/ (at' = "over" /\ over /\ socket' = "closed")
  BY <1>1
<1>7. SocketIsShut' /\ NotYetRelayed'
  BY <1>1, <1>6 DEF SocketIsShut, NotYetRelayed
<1>8. CASE gone
  <2>1. out' = out
    BY <1>1, <1>8 DEF Write
  <2>2. RelayIsPrefix'
    BY <1>1, <1>2, <1>3, <2>1 DEF RelayIsPrefix
  <2>3. RelayTypeOK'
    BY <1>1, <1>2, <1>4, <2>1 DEF RelayTypeOK
  <2>4. NotYetDone' /\ DoneIsLast' /\ Counted'
    BY <1>1, <1>2, <1>8, <2>1 DEF NotYetDone, DoneIsLast, Counted
  <2> QED
    BY <1>5, <1>7, <2>2, <2>3, <2>4 DEF RelayIInv, RelayInv
<1>9. CASE ~gone
  <2> DEFINE n == Len(out) - 1
  <2>1. /\ Taken \in Seq(DOMAIN frames) /\ \A i \in DOMAIN Taken : Taken[i] = n + i
        /\ ~isDone => n + Len(Taken) = Len(frames)
        /\ Len(out) \in Nat /\ Len(out) >= 1
    BY <1>1, <1>9, TakenAreNext
  <2>2. \A i \in DOMAIN Taken : Taken[i] \in DOMAIN frames /\ AsEvent(Taken[i]) \in Events
                               /\ AsEvent(Taken[i]).type # "done" /\ AsEvent(Taken[i]).of = Taken[i]
    BY <1>2, <2>1, EventTypes
  <2>3. /\ es \in Seq(Events) /\ Len(es) = Len(Taken) /\ DOMAIN es = DOMAIN Taken
        /\ \A i \in DOMAIN es : es[i] = AsEvent(Taken[i])
    BY <2>1, <2>2 DEF es, AsEvents
  <2>4. /\ last \in Seq(Events) /\ Len(last) = (IF isDone THEN 1 ELSE 0)
        /\ \A i \in DOMAIN last : last[i].of = 0 /\ last[i].type = "done"
    <3> DEFINE d == Said("done")
    <3>1. d \in Events /\ d.of = 0 /\ d.type = "done"
      BY RelayAssumption DEF Said, Event, Events, FrameTypes
    <3> HIDE DEF d
    <3>2. <<d>> \in Seq(Events) /\ Len(<<d>>) = 1 /\ DOMAIN <<d>> = {1} /\ <<d>>[1] = d
      BY <3>1
    <3>3. CASE isDone
      <4>1. last = <<d>>
        BY <3>3 DEF last, d
      <4> QED
        BY <3>1, <3>2, <3>3, <4>1
    <3>4. CASE ~isDone
      BY <3>4 DEF last
    <3> QED
      BY <3>3, <3>4
  <2> DEFINE w == es \o last
  <2>5. /\ w \in Seq(Events) /\ Len(w) = Len(es) + Len(last)
        /\ \A i \in 1..(Len(es) + Len(last)) : w[i] = IF i <= Len(es) THEN es[i] ELSE last[i - Len(es)]
    <3>1. es \in Seq(Events) /\ last \in Seq(Events)
      BY <2>3, <2>4
    <3> QED
      BY <3>1, ConcatProperties
  <2>6. Write(w)
    BY <1>1
  <2> HIDE DEF w
  <2>7. /\ out' \in Seq(Events) /\ Len(out') = Len(out) + Len(w)
        /\ \A k \in DOMAIN out' : \/ k \in DOMAIN out /\ out'[k] = out[k]
                                \/ \E i \in DOMAIN w : k = Len(out) + i /\ out'[k] = w[i]
    BY <1>2, <1>9, <2>5, <2>6, Writing
  <2>8. Len(es) \in Nat /\ Len(last) \in 0..1 /\ Len(w) \in Nat /\ DOMAIN w = 1..Len(w)
    BY <2>3, <2>4, <2>5
  <2>9. ASSUME NEW i \in DOMAIN w
        PROVE  \/ i <= Len(es) /\ n + i \in DOMAIN frames /\ w[i] = AsEvent(n + i) /\ w[i].type # "done"
               \/ i = Len(w) /\ isDone /\ w[i].of = 0 /\ w[i].type = "done"
    <3>1. i \in 1..(Len(es) + Len(last))
      BY <2>5, <2>8
    <3>2. CASE i <= Len(es)
      <4>1. i \in DOMAIN es /\ w[i] = es[i]
        BY <2>3, <2>5, <2>8, <3>1, <3>2
      <4> QED
        BY <2>1, <2>2, <2>3, <3>2, <4>1
    <3>3. CASE ~(i <= Len(es))
      <4>1. Len(last) = 1 /\ i = Len(es) + 1 /\ i - Len(es) = 1 /\ i = Len(w)
        BY <2>5, <2>8, <3>1, <3>3
      <4>2. isDone /\ w[i] = last[1] /\ 1 \in DOMAIN last
        BY <2>4, <2>5, <3>1, <3>3, <4>1
      <4> QED
        BY <2>4, <4>1, <4>2
    <3> QED
      BY <3>2, <3>3
  <2>10. RelayTypeOK'
    BY <1>1, <1>2, <1>4, <2>7 DEF RelayTypeOK
  <2>11. RelayIsPrefix'
    <3>1. SUFFICES ASSUME NEW k \in DOMAIN out', out'[k].of > 0
                   PROVE  k - 1 \in DOMAIN frames /\ out'[k] = AsEvent(k - 1)
      BY <1>1, <1>3 DEF RelayIsPrefix
    <3>2. CASE k \in DOMAIN out /\ out'[k] = out[k]
      BY <1>2, <3>1, <3>2 DEF RelayIsPrefix
    <3>3. ASSUME NEW i \in DOMAIN w, k = Len(out) + i, out'[k] = w[i]
          PROVE  k - 1 \in DOMAIN frames /\ out'[k] = AsEvent(k - 1)
      <4>1. k - 1 = n + i
        BY <2>1, <2>8, <3>3
      <4> QED
        BY <2>9, <3>1, <3>3, <4>1
    <3> QED
      BY <2>7, <3>2, <3>3
  <2>12. \A k \in DOMAIN out : out[k].type # "done"
    BY <1>1, <1>2 DEF NotYetDone
  <2>13. CASE isDone
    <3>1. over /\ at' = "over"
      BY <1>1, <2>13
    <3>2. Len(w) = Len(es) + 1
      BY <2>4, <2>5, <2>13
    <3>3. DoneIsLast'
      <4>1. SUFFICES ASSUME NEW k \in DOMAIN out' PROVE (out'[k].type = "done") <=> k = Len(out')
        BY DEF DoneIsLast
      <4>2. CASE k \in DOMAIN out /\ out'[k] = out[k]
        <5>1. k <= Len(out) /\ Len(out) < Len(out')
          BY <2>1, <2>7, <2>8, <3>2, <4>2
        <5> QED
          BY <2>1, <2>7, <2>8, <2>12, <4>2, <5>1
      <4>3. ASSUME NEW i \in DOMAIN w, k = Len(out) + i, out'[k] = w[i]
            PROVE  (out'[k].type = "done") <=> k = Len(out')
        <5>1. (w[i].type = "done") <=> i = Len(w)
          BY <2>8, <2>9, <3>2
        <5>2. i \in Nat /\ Len(w) \in Nat /\ Len(out) \in Nat /\ Len(out') = Len(out) + Len(w)
          BY <2>1, <2>7, <2>8
        <5>3. i = Len(w) <=> k = Len(out')
          BY <4>3, <5>2
        <5> QED
          BY <4>3, <5>1, <5>3
      <4> QED
        BY <2>7, <4>2, <4>3
    <3> QED
      BY <1>5, <1>7, <2>10, <2>11, <3>1, <3>3 DEF RelayIInv, RelayInv, NotYetDone, Counted
  <2>14. CASE ~isDone
    <3>1. ~over /\ at' = "relaying"
      BY <1>1, <1>9, <2>14
    <3>2. \A k \in DOMAIN out' : out'[k].type # "done"
      BY <2>7, <2>9, <2>12, <2>14
    <3>3. Len(w) = Len(Taken) /\ Len(out') = Len(out) + Len(Taken) /\ Len(Taken) \in Nat
      BY <2>3, <2>4, <2>5, <2>7, <2>8, <2>14
    <3>4. Len(out') >= 1 /\ (Len(out') - 1) + 0 + 0 = Len(frames)
      BY <2>1, <2>14, <3>3
    <3>5. Counted'
      BY <1>1, <1>4, <3>4 DEF Counted
    <3> QED
      BY <1>5, <1>7, <2>10, <2>11, <3>1, <3>2, <3>5 DEF RelayIInv, RelayInv, NotYetDone, DoneIsLast
  <2> QED
    BY <2>13, <2>14
<1> QED
  BY <1>8, <1>9

\* For any number of frames, however they come: a page is told a prefix of what the backend
\* sent, a request that is over has said so once and last, and its socket is not left open
\* (generateChatStream in route.ts).
THEOREM RelaySound == RelaySpec => []RelayInv
<1>1. RelayInit => RelayIInv
  BY RelayStart
<1>2. RelayIInv /\ [RelayNext]_relayVars => RelayIInv'
  <2>1. SUFFICES ASSUME RelayIInv, [RelayNext]_relayVars PROVE RelayIInv'
    OBVIOUS
  <2>2. CASE UNCHANGED relayVars
    <3>1. RelayTypeOK'
      BY <2>1, <2>2 DEF relayVars, RelayIInv, RelayInv, RelayTypeOK
    <3>2. RelayIsPrefix'
      BY <2>1, <2>2 DEF relayVars, RelayIInv, RelayInv, RelayIsPrefix, AsEvent, Passed
    <3>3. DoneIsLast' /\ SocketIsShut' /\ NotYetRelayed' /\ NotYetDone'
      BY <2>1, <2>2 DEF relayVars, RelayIInv, RelayInv, DoneIsLast, SocketIsShut, NotYetRelayed, NotYetDone
    <3>4. Queued' /\ Counted'
      BY <2>1, <2>2 DEF relayVars, RelayIInv, Queued, Counted, OnTheWay
    <3> QED
      BY <3>1, <3>2, <3>3, <3>4 DEF RelayIInv, RelayInv
  <2> QED
    BY <2>1, <2>2, StepRequest, StepFetched, StepConnect, StepConnectThrows, StepFrame, StepSocketEnds,
       StepResume, StepPageLeaves DEF RelayNext
<1>3. RelayIInv => RelayInv
  BY DEF RelayIInv
<1> QED
  BY <1>1, <1>2, <1>3, PTL DEF RelaySpec

=============================================================================
