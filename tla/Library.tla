------------------------------ MODULE Library -------------------------------
(***************************************************************************)
(* The document library: uploads, deletions and downloads over the search index *)
(* and the blob store (routers/documents.py), and the artifacts of a session in *)
(* a blob store of one of three kinds (storage/blob_storage.py).               *)
(*                                                                          *)
(* Requests interleave where they wait for the blob store; what they do with    *)
(* the index they do at once.  A document and its blob have the number of the   *)
(* upload that made them.                                                     *)
(***************************************************************************)
EXTENDS Integers, FiniteSets

CONSTANTS
  Uploads,     \* the uploads, numbered
  Erasers,     \* requests that delete, of a document or of a session
  Files,       \* what is uploaded: its name, whether it is text, how it is asked for
  Artifacts,   \* the artifacts of a session
  Backends,    \* kinds of blob store, out of {"local", "s3", "azure"}
  MaxMishaps   \* bound of the model on failing calls

ASSUME LibraryAssumption ==
  /\ Uploads \subseteq Nat \ {0} /\ MaxMishaps \in Nat /\ Backends \subseteq {"local", "s3", "azure"}
  /\ \A f \in Files : {f.text, f.force, f.search} \subseteq BOOLEAN

VARIABLES
  index,    \* the documents of the index: name and storage key, 0 if there is none
  blobs,    \* the uploads whose blob is in the store
  upload,   \* each upload: its file, where it is, and how its blob fared
  erase,    \* each deletion: where it is, and what it is to delete yet
  backend,  \* the kind of the store
  stored,   \* the session's artifacts: contents, and for local files their metadata
  excused,  \* uploads that were forced or could not look for their name
  mishaps   \* failing calls so far

libVars == <<index, blobs, upload, erase, backend, stored, excused, mishaps>>

Absent    == [name |-> "none", key |-> 0]
Documents == {d \in Uploads : index[d] # Absent}

LibraryTypeOK ==
  /\ index \in [Uploads -> [name : {f.name : f \in Files} \cup {"none"}, key : {0} \cup Uploads]]
  /\ blobs \subseteq Uploads /\ excused \subseteq Uploads
  /\ \A u \in Uploads : /\ upload[u].file \in Files
                        /\ upload[u].at \in {"new", "indexing", "answered", "refused"}
                        /\ upload[u].blob \in {"none", "unconfigured", "failed", "stored"}
  /\ \A e \in Erasers : erase[e].at \in {"new", "blob", "files", "done"}
  /\ backend \in Backends /\ stored \subseteq Artifacts \X {"content", "meta"}
  /\ mishaps \in 0..MaxMishaps

LibraryInit ==
  /\ index = [u \in Uploads |-> Absent] /\ blobs = {} /\ stored = {} /\ excused = {} /\ mishaps = 0
  /\ upload \in [Uploads -> [file : Files, at : {"new"}, blob : {"none"}]]
  /\ erase = [e \in Erasers |-> [at |-> "new", todo |-> {}]]
  /\ backend \in Backends

Mishap(happens) == /\ happens => mishaps < MaxMishaps
                   /\ mishaps' = IF happens THEN mishaps + 1 ELSE mishaps

-----------------------------------------------------------------------------
(***************************************************************************)
(* Uploads.                                                                  *)
(***************************************************************************)

\* The blob is stored first, whatever follows; a failure is logged.
StoreBlob(u) ==
  /\ upload[u].at = "new"
  /\ \E result \in {"unconfigured", "failed", "stored"} :
       /\ Mishap(result # "stored")
       /\ upload' = [upload EXCEPT ![u].at = "indexing", ![u].blob = result]
       /\ blobs' = IF result = "stored" THEN blobs \cup {u} ELSE blobs
  /\ UNCHANGED <<index, erase, backend, stored, excused>>

Answer(u, how) == upload' = [upload EXCEPT ![u].at = how]

\* The storage key in the metadata of the upload's own document.
KeyOf(u) == IF upload[u].blob = "stored" THEN u ELSE 0

\* Mutant: only documents with a blob are looked through.
ExistingStored(u) == {d \in Documents : index[d].name = upload[u].file.name /\ index[d].key # 0}

Existing(u) == {d \in Documents : index[d].name = upload[u].file.name}

Looks(u) == upload[u].at = "indexing" /\ upload[u].file.search /\ ~upload[u].file.force

StoreOnly(u) ==
  /\ upload[u].at = "indexing" /\ ~upload[u].file.search /\ Answer(u, "answered")
  /\ UNCHANGED <<index, blobs, erase, backend, stored, excused, mishaps>>

\* The key is written to a document that has none.  A store that could not be
\* configured has left no key to write, and that fails the look-up.
Adopts(u, d) == index[d].key = 0 /\ upload[u].blob # "unconfigured"

FindExisting(u) ==
  /\ Looks(u)
  /\ \E d \in Existing(u) :
       /\ index[d].key # 0 \/ Adopts(u, d)
       /\ index' = IF Adopts(u, d) THEN [index EXCEPT ![d].key = u] ELSE index
  /\ Answer(u, "answered")
  /\ UNCHANGED <<blobs, erase, backend, stored, excused, mishaps>>

\* The name is not there, or the look-up was not asked for or fails.
Proceeds(u) ==
  /\ upload[u].at = "indexing" /\ upload[u].file.search
  /\ \/ Looks(u) /\ Existing(u) = {} /\ UNCHANGED <<excused, mishaps>>
     \/ /\ Looks(u) /\ \E d \in Existing(u) : index[d].key = 0 /\ ~Adopts(u, d)
        /\ excused' = excused \cup {u} /\ UNCHANGED mishaps
     \/ Looks(u) /\ Mishap(TRUE) /\ excused' = excused \cup {u}
     \/ ~Looks(u) /\ excused' = excused \cup {u} /\ UNCHANGED mishaps

\* Bytes that are not text stay out of the index.
KeepBinary(u) ==
  /\ Proceeds(u) /\ ~upload[u].file.text /\ Answer(u, "answered")
  /\ UNCHANGED <<index, blobs, erase, backend, stored>>

IndexDocument(u) ==
  /\ Proceeds(u) /\ upload[u].file.text /\ Answer(u, "answered")
  /\ index' = [index EXCEPT ![u] = [name |-> upload[u].file.name, key |-> KeyOf(u)]]
  /\ UNCHANGED <<blobs, erase, backend, stored>>

\* The index or the embedding is not there or fails: the request is, and its blob stays.
RefuseUpload(u) ==
  /\ upload[u].at = "indexing" /\ upload[u].file.search /\ Mishap(TRUE) /\ Answer(u, "refused")
  /\ UNCHANGED <<index, blobs, erase, backend, stored, excused>>

-----------------------------------------------------------------------------
(***************************************************************************)
(* Deletions.                                                                *)
(***************************************************************************)

\* The document leaves the index at once, its blob later if that was asked for.
DeleteDocument(e, d, both) ==
  /\ erase[e].at = "new" /\ d \in Documents
  /\ index' = [index EXCEPT ![d] = Absent]
  /\ erase' = [erase EXCEPT ![e] = IF both /\ index[d].key # 0
                                   THEN [at |-> "blob", todo |-> {index[d].key}]
                                   ELSE [at |-> "done", todo |-> {}]]
  /\ UNCHANGED <<blobs, upload, backend, stored, excused, mishaps>>

DeleteBlob(e) ==
  /\ erase[e].at = "blob"
  /\ erase' = [erase EXCEPT ![e] = [at |-> "done", todo |-> {}]]
  /\ \E works \in BOOLEAN : /\ Mishap(~works)
                            /\ blobs' = IF works THEN blobs \ erase[e].todo ELSE blobs
  /\ UNCHANGED <<index, upload, backend, stored, excused>>

-----------------------------------------------------------------------------
(***************************************************************************)
(* The artifacts of a session.                                               *)
(***************************************************************************)

LocalFiles(a)  == {<<a, "content">>, <<a, "meta">>}
S3Object(a)    == {<<a, "content">>}
AzureBlob(a)   == {<<a, "content">>}
Written(a)     == IF backend = "local" THEN LocalFiles(a)
                  ELSE IF backend = "s3" THEN S3Object(a) ELSE AzureBlob(a)

StoreArtifact(a) ==
  /\ stored' = stored \cup Written(a)
  /\ UNCHANGED <<index, blobs, upload, erase, backend, excused, mishaps>>

\* The session's paths are listed, the metadata files among them, and deleted one
\* by one: a file goes with its metadata.
ListSession(e) ==
  /\ erase[e].at = "new"
  /\ erase' = [erase EXCEPT ![e] = [at |-> "files", todo |-> stored]]
  /\ UNCHANGED <<index, blobs, upload, backend, stored, excused, mishaps>>

Removed(p) == IF p[2] = "content" /\ p \in stored THEN {p, <<p[1], "meta">>} ELSE {p}

\* The paths come sorted: a file before its metadata.
DeleteArtifact(e) ==
  /\ erase[e].at = "files"
  /\ \E p \in erase[e].todo :
       /\ p[2] = "meta" => <<p[1], "content">> \notin erase[e].todo
       /\ erase' = [erase EXCEPT ![e].todo = @ \ {p}]
       /\ stored' = stored \ Removed(p)
  /\ UNCHANGED <<index, blobs, upload, backend, excused, mishaps>>

SessionDeleted(e) ==
  /\ erase[e].at = "files" /\ erase[e].todo = {}
  /\ erase' = [erase EXCEPT ![e].at = "done"]
  /\ UNCHANGED <<index, blobs, upload, backend, stored, excused, mishaps>>

LibraryNext ==
  \/ \E u \in Uploads : \/ StoreBlob(u) \/ StoreOnly(u) \/ FindExisting(u) \/ KeepBinary(u)
                        \/ IndexDocument(u) \/ RefuseUpload(u)
  \/ \E e \in Erasers : \/ \E d \in Uploads, both \in BOOLEAN : DeleteDocument(e, d, both)
                        \/ DeleteBlob(e) \/ ListSession(e) \/ DeleteArtifact(e) \/ SessionDeleted(e)
  \/ \E a \in Artifacts : StoreArtifact(a)

LibrarySpec == LibraryInit /\ [][LibraryNext]_libVars

-----------------------------------------------------------------------------
(***************************************************************************)
(* Properties.                                                               *)
(***************************************************************************)

\* A document that has a storage key has its blob, unless the blob's upload could not
\* store it, although requests interleave between the store and the index and a key
\* may have been adopted (upload_document, delete_document).
KeysLead ==
  \A d \in Documents : index[d].key # 0 => index[d].key \in blobs \/ upload[index[d].key].blob = "failed"

\* Two documents have the same name only if one of them was forced or could not look
\* for its name, although the look-up comes after the wait for the store (upload_document).
OneDocumentPerName ==
  \A d, e \in Documents : d # e /\ index[d].name = index[e].name => {d, e} \cap excused # {}

\* While a session is deleted and its artifacts are written again, a metadata file never
\* outlives what it is about (delete_session_artifacts, LocalFilesystemBackend.delete).
MetadataFollows == \A a \in Artifacts : <<a, "meta">> \in stored => <<a, "content">> \in stored

\* The index of the documents, the blob store and the artifacts, after requests that interleave.
LibraryInv == LibraryTypeOK /\ KeysLead /\ OneDocumentPerName /\ MetadataFollows

=============================================================================
