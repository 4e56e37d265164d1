------------------------------- MODULE Indexer -------------------------------
(***************************************************************************)
(* Indexing one repository: IndexerService.index_repo                         *)
(* (graph_kb/services/_legacy_indexer_service.py) over the tables of           *)
(* database/repositories.py, the vector store and the graph.                   *)
(*                                                                          *)
(* Pass 1 reads the files in worker threads, pass 2 links them, and then the    *)
(* chunks are embedded one by one, with checkpoints.  A run may be paused,      *)
(* may raise, and the process may crash; what is on disk then is what the       *)
(* next run, with resume or without, has to go by.  An action is what lies      *)
(* between two writes to a store.                                              *)
(***************************************************************************)
EXTENDS Integers, SequencesExt

CONSTANTS
  Files,                \* the eligible files of the repository, as discovered
  ChunkCount,           \* the number of chunks of each file
  AllChunks,            \* all their chunks, in the order in which they are regenerated
  References,           \* pairs <<f, g>>: f uses a symbol that g defines
  MaxWorkers,           \* max_indexing_workers
  CHECKPOINT_INTERVAL,  \* chunks between two checkpoints, 10 in the code
  FALLBACK_INTERVAL,    \* the same in the main process, 100 in the code
  MAX_OOM_RETRIES,      \* 3 in the code
  MAX_MEMORY_WARNINGS,  \* 3 in the code
  Interruptions,        \* what may befall a run, out of Kinds
  MaxStarts,            \* bound of the model on the calls of index_repo
  MaxInterrupts         \* bound of the model on the interruptions

Kinds == {"pause", "lost mark", "memory", "exception", "crash"}

ASSUME IndexerAssumption ==
  /\ IsFiniteSet(Files) /\ ChunkCount \in [Files -> Nat]
  /\ References \subseteq Files \X Files
  /\ {MaxWorkers, CHECKPOINT_INTERVAL, FALLBACK_INTERVAL, MAX_OOM_RETRIES,
      MAX_MEMORY_WARNINGS} \subseteq Nat \ {0}
  /\ Interruptions \subseteq Kinds /\ MaxStarts \in Nat /\ MaxInterrupts \in Nat

VARIABLES
  \* What is on disk.
  status,          \* repositories.status
  fileIndex,       \* file_index: the checkpoint of each file
  pending,         \* pending_chunks, in the order of their ids
  row,             \* embedding_progress: status and current_chunk_idx
  failed,          \* failed_embedding_chunks
  vectors,         \* the chunks in the vector store
  edges,           \* the references that are edges of the graph
  \* What the process knows.
  pc,              \* where index_repo is
  resume,          \* the argument of the last call
  file,            \* where each file of this run is
  work,            \* all_chunks, then the list that is embedded
  at,              \* chunks of work that are behind
  skips,           \* existing chunks are looked up and skipped
  strikes,         \* oom_count, or memory_warnings in the main process
  unsaved,         \* all_failed_chunks
  regenerated,     \* the chunks come from _regenerate_chunks_from_indexed_files
  pauseRequested,  \* _pause_requested
  \* What bounds the runs and what excuses them.
  starts, interrupts, excused

disk   == <<status, fileIndex, pending, row, failed, vectors, edges>>
memory == <<file, work, at, skips, strikes, unsaved, regenerated>>
outside == <<resume, pauseRequested, starts, interrupts, excused>>
vars   == <<disk, pc, memory, outside>>

ChunksOf(f) == [i \in 1..ChunkCount[f] |-> <<f, i>>]
Chunks      == UNION {ToSet(ChunksOf(f)) : f \in Files}

ASSUME ChunksAssumption ==
  AllChunks \in Seq(Chunks) /\ IsInjective(AllChunks) /\ ToSet(AllChunks) = Chunks

Running  == {"discovering", "pass1", "stopping", "resolving", "saving", "starting", "embedding",
             "checkpoint", "fallback", "embedded", "finalizing", "readying", "cleaning"}
Statuses == {"pending", "indexing", "paused", "ready", "error"}

TypeOK ==
  /\ status \in Statuses
  /\ fileIndex \in [Files -> {"none", "completed", "failed"}]
  /\ pending \in Seq(Chunks) /\ IsInjective(pending)
  /\ row \in [status : {"none", "in_progress", "paused", "error", "completed"}, idx : Nat]
  /\ failed \subseteq Chunks /\ vectors \subseteq Chunks /\ unsaved \subseteq Chunks
  /\ edges \subseteq References
  /\ pc \in Running \cup {"idle"}
  /\ file \in [Files -> {"idle", "queued", "running", "refused", "indexed", "failed", "collected"}]
  /\ work \in Seq(Chunks) /\ IsInjective(work)
  /\ at \in Nat /\ strikes \in Nat
  /\ {resume, skips, regenerated, pauseRequested, excused} \subseteq BOOLEAN
  /\ starts \in 0..MaxStarts /\ interrupts \in 0..MaxInterrupts

-----------------------------------------------------------------------------
(***************************************************************************)
(* Statuses, the start of a run and its ends.                                 *)
(***************************************************************************)

\* The transitions update_status lets pass; it raises at any other.
ValidNext(s) ==
  CASE s = "pending"  -> {"indexing"}
    [] s = "indexing" -> {"ready", "error", "paused", "indexing"}
    [] s = "paused"   -> {"indexing", "error"}
    [] s = "ready"    -> {"indexing"}
    [] s = "error"    -> {"pending", "indexing"}

NoRow     == [status |-> "none", idx |-> 0]
Completed == {f \in Files : fileIndex[f] = "completed"}

Init ==
  /\ status = "pending" /\ fileIndex = [f \in Files |-> "none"]
  /\ pending = <<>> /\ row = NoRow /\ failed = {} /\ vectors = {} /\ edges = {}
  /\ pc = "idle" /\ resume = FALSE
  /\ file = [f \in Files |-> "idle"] /\ work = <<>> /\ at = 0 /\ skips = FALSE
  /\ strikes = 0 /\ unsaved = {} /\ regenerated = FALSE
  /\ pauseRequested = FALSE /\ starts = 0 /\ interrupts = 0 /\ excused = FALSE

\* The call is over: what it kept in memory is gone.
Return ==
  /\ pc' = "idle"
  /\ file' = [f \in Files |-> "idle"] /\ work' = <<>> /\ at' = 0 /\ skips' = FALSE
  /\ strikes' = 0 /\ unsaved' = {} /\ regenerated' = FALSE

\* A client ingests.  With resume and pending chunks the passes are skipped.
Start(again) ==
  /\ pc = "idle" /\ starts < MaxStarts /\ "indexing" \in ValidNext(status)
  /\ starts' = starts + 1 /\ resume' = again /\ status' = "indexing"
  /\ IF again /\ pending # <<>>
     THEN pc' = "starting" /\ work' = pending /\ UNCHANGED pending
     ELSE /\ pc' = "discovering" /\ UNCHANGED work
          /\ pending' = IF again THEN pending ELSE <<>>
  /\ UNCHANGED <<fileIndex, row, failed, vectors, edges, file, at, skips, strikes, unsaved,
                 regenerated, pauseRequested, interrupts, excused>>

Interrupt(kind) ==
  /\ kind \in Interruptions /\ interrupts < MaxInterrupts
  /\ interrupts' = interrupts + 1

Queue(fs) == file' = [f \in Files |-> IF f \in fs THEN "queued" ELSE "idle"]

\* Without resume everything is read again.
DiscoverAll ==
  /\ pc = "discovering" /\ ~resume
  /\ fileIndex' = [f \in Files |-> "none"]
  /\ Queue(Files) /\ pc' = "pass1"
  /\ UNCHANGED <<status, pending, row, failed, vectors, edges, work, at, skips, strikes,
                 unsaved, regenerated, outside>>

\* With resume only the files that are not marked completed are.
DiscoverRemaining ==
  /\ pc = "discovering" /\ resume /\ Completed # Files
  /\ Queue(Files \ Completed) /\ pc' = "pass1"
  /\ UNCHANGED <<disk, work, at, skips, strikes, unsaved, regenerated, outside>>

\* Ninety percent of the chunks of the completed files are in the vector store.
MostEmbedded ==
  /\ vectors # {}
  /\ LET total == Len(AllChunks)
     IN  total > 0 /\ 10 * Cardinality(vectors) >= 9 * total

\* Every file is completed and no chunk is pending: done, or embed once more.
AlreadyIndexed ==
  /\ pc = "discovering" /\ resume /\ Completed = Files
  /\ row.status = "completed" \/ MostEmbedded
  /\ status' = "ready" /\ Return
  /\ UNCHANGED <<fileIndex, pending, row, failed, vectors, edges, outside>>

\* The files are read again and their chunks are the list.  (The code leaves out a
\* file that is gone by then; here the files stay as they are.)
RegenerateChunks == work' = AllChunks /\ regenerated' = TRUE

Regenerate ==
  /\ pc = "discovering" /\ resume /\ Completed = Files
  /\ row.status # "completed" /\ ~MostEmbedded
  /\ IF AllChunks = <<>>
     THEN Return
     ELSE /\ RegenerateChunks /\ pc' = "starting"
          /\ UNCHANGED <<file, at, skips, strikes, unsaved>>
  /\ UNCHANGED <<disk, outside>>

-----------------------------------------------------------------------------
(***************************************************************************)
(* Pass 1: the workers and the main thread that collects their results.        *)
(***************************************************************************)

\* process_file looks at the pause flag once, when it begins.
BeginFile(f) ==
  /\ pc = "pass1" /\ file[f] = "queued"
  /\ Cardinality({g \in Files : file[g] = "running"}) < MaxWorkers
  /\ file' = [file EXCEPT ![f] = IF pauseRequested THEN "refused" ELSE "running"]
  /\ UNCHANGED <<disk, pc, work, at, skips, strikes, unsaved, regenerated, outside>>

\* The file is read and marked completed; its chunks are in the result only.
IndexFile(f) ==
  /\ file[f] = "running"
  /\ fileIndex' = [fileIndex EXCEPT ![f] = "completed"]
  /\ file' = [file EXCEPT ![f] = "indexed"]
  /\ UNCHANGED <<status, pending, row, failed, vectors, edges, pc, work, at, skips, strikes,
                 unsaved, regenerated, outside>>

FailFile(f) ==
  /\ file[f] = "running"
  /\ fileIndex' = [fileIndex EXCEPT ![f] = "failed"]
  /\ file' = [file EXCEPT ![f] = "failed"]
  /\ UNCHANGED <<status, pending, row, failed, vectors, edges, pc, work, at, skips, strikes,
                 unsaved, regenerated, outside>>

\* Neither mark can be written: the future raises and the main thread goes on.
LoseFile(f) ==
  /\ file[f] = "running" /\ Interrupt("lost mark")
  /\ file' = [file EXCEPT ![f] = "failed"] /\ excused' = TRUE
  /\ UNCHANGED <<disk, pc, work, at, skips, strikes, unsaved, regenerated, resume,
                 pauseRequested, starts>>

Finished(f) == file[f] \in {"refused", "indexed", "failed"}

\* as_completed yields a future: its result joins the chunks of this run.
CollectFile(f) ==
  /\ pc = "pass1" /\ Finished(f) /\ ~pauseRequested
  /\ file' = [file EXCEPT ![f] = IF file[f] = "indexed" THEN "collected" ELSE "idle"]
  /\ work' = IF file[f] = "indexed" THEN work \o ChunksOf(f) ELSE work
  /\ UNCHANGED <<disk, pc, at, skips, strikes, unsaved, regenerated, outside>>

\* Mutant: the executor is not told to drop the queue, and the flag is lowered first.
NoticePauseKeepsGoing ==
  /\ pc = "pass1" /\ pauseRequested
  /\ \E f \in Files : Finished(f)
  /\ pauseRequested' = FALSE
  /\ file' = [f \in Files |-> IF Finished(f) /\ file[f] # "indexed" THEN "idle" ELSE file[f]]
  /\ UNCHANGED <<disk, pc, work, at, skips, strikes, unsaved, regenerated, resume, starts,
                 interrupts, excused>>

\* It yields one while a pause is requested: the queue is cancelled, the flag is
\* lowered, and the executor waits for the workers that run.
NoticePause ==
  /\ pc = "pass1" /\ pauseRequested
  /\ \E f \in Files : Finished(f)
  /\ pauseRequested' = FALSE /\ pc' = "stopping"
  /\ file' = [f \in Files |-> IF file[f] = "running" THEN "running" ELSE "idle"]
  /\ UNCHANGED <<disk, work, at, skips, strikes, unsaved, regenerated, resume, starts,
                 interrupts, excused>>

PauseIndexing ==
  /\ pc = "stopping"
  /\ \A f \in Files : file[f] # "running"
  /\ status' = "paused" /\ Return
  /\ UNCHANGED <<fileIndex, pending, row, failed, vectors, edges, outside>>

EndPass1 ==
  /\ pc = "pass1"
  /\ \A f \in Files : file[f] \in {"idle", "collected"}
  /\ pc' = "resolving"
  /\ UNCHANGED <<disk, memory, outside>>

(***************************************************************************)
(* Pass 2 knows the symbols of this run's files only.  Then the chunks are      *)
(* saved, for the first time.                                                  *)
(***************************************************************************)
Resolve ==
  /\ pc = "resolving"
  /\ LET results == {f \in Files : file[f] = "collected"}
     IN  edges' = edges \cup (References \cap (results \X results))
  /\ pc' = "saving"
  /\ UNCHANGED <<status, fileIndex, pending, row, failed, vectors, memory, outside>>

SaveChunks ==
  /\ pc = "saving"
  /\ pending' = work /\ pc' = "starting"
  /\ UNCHANGED <<status, fileIndex, row, failed, vectors, edges, memory, outside>>

-----------------------------------------------------------------------------
(***************************************************************************)
(* Embedding in the subprocess: _store_chunks_with_subprocess_embeddings.      *)
(***************************************************************************)

\* The chunk to begin with: that of a run that was interrupted, or the first.
StartIndex == IF row.status \in {"in_progress", "paused"} THEN row.idx ELSE 0

\* There is nothing to embed.
NothingToEmbed ==
  /\ pc = "starting" /\ work = <<>> /\ pc' = "finalizing"
  /\ UNCHANGED <<disk, memory, outside>>

\* init_embedding_progress inserts a row, and the key of a completed one exists.
RefuseInit ==
  /\ pc = "starting" /\ work # <<>> /\ row.status = "completed"
  /\ status' = "error" /\ Return
  /\ UNCHANGED <<fileIndex, pending, row, failed, vectors, edges, outside>>

StartEmbedder ==
  /\ pc = "starting" /\ work # <<>> /\ row.status # "completed"
  /\ pc' = "embedding" /\ at' = StartIndex /\ skips' = (StartIndex = 0)
  /\ row' = IF row.status \in {"none", "paused"}
            THEN [status |-> "in_progress", idx |-> StartIndex] ELSE row
  /\ UNCHANGED <<status, fileIndex, pending, failed, vectors, edges, file, work, strikes,
                 unsaved, regenerated, outside>>

\* The subprocess does not start: everything is embedded in the main process.
FallBack ==
  /\ pc = "starting" /\ work # <<>> /\ row.status # "completed"
  /\ pc' = "fallback" /\ row' = [status |-> "error", idx |-> 0]
  /\ UNCHANGED <<status, fileIndex, pending, failed, vectors, edges, memory, outside>>

Chunk == work[at + 1]
\* Mutant: the index is written before the chunk it counts is saved with the rest.
RestOffByOne(n) == SubSeq(work, n + 2, Len(work))

Rest(n) == SubSeq(work, n + 1, Len(work))
AtCheckpoint(interval) == (at + 1) % interval = 0 /\ at + 1 < Len(work)

\* The chunk is behind; every CHECKPOINT_INTERVAL chunks the index is written.
NextChunk ==
  /\ at' = at + 1
  /\ pc' = IF AtCheckpoint(CHECKPOINT_INTERVAL) THEN "checkpoint" ELSE "embedding"
  /\ UNCHANGED <<status, fileIndex, pending, failed, edges, file, work, skips, regenerated>>

RowAfter(oom) == IF oom \/ (at + 1) % CHECKPOINT_INTERVAL = 0
                 THEN [status |-> "in_progress", idx |-> at + 1] ELSE row

Embedding == pc = "embedding" /\ at < Len(work)
Existing  == skips /\ Chunk \in vectors

SkipChunk ==
  /\ Embedding /\ Existing /\ NextChunk /\ row' = RowAfter(FALSE)
  /\ UNCHANGED <<vectors, strikes, unsaved, outside>>

\* Embedded and stored; a store that fails leaves the chunk with the failed.
StoreChunk ==
  /\ Embedding /\ ~Existing /\ NextChunk /\ row' = RowAfter(FALSE)
  /\ strikes' = 0
  /\ \/ vectors' = vectors \cup {Chunk} /\ UNCHANGED unsaved
     \/ unsaved' = unsaved \cup {Chunk} /\ UNCHANGED vectors
  /\ UNCHANGED outside

FailChunk ==
  /\ Embedding /\ ~Existing /\ NextChunk /\ row' = RowAfter(FALSE)
  /\ unsaved' = unsaved \cup {Chunk}
  /\ UNCHANGED <<vectors, strikes, outside>>

\* Mutant: after a restart of the subprocess the list is taken from its start.
OutOfMemoryRestarts ==
  /\ Embedding /\ ~Existing /\ strikes + 1 < MAX_OOM_RETRIES
  /\ at' = 0 /\ strikes' = strikes + 1
  /\ UNCHANGED <<disk, pc, file, work, skips, unsaved, regenerated, outside>>

\* The subprocess is killed: it is restarted and goes on with the next chunk.
OutOfMemory ==
  /\ Embedding /\ ~Existing /\ strikes + 1 < MAX_OOM_RETRIES
  /\ NextChunk /\ row' = RowAfter(TRUE)
  /\ unsaved' = unsaved \cup {Chunk} /\ strikes' = strikes + 1
  /\ UNCHANGED <<vectors, outside>>

\* It was killed too often, or does not start again: the index and the rest are
\* saved and the run is paused.  A save that fails is logged, here and below.
StopEmbedding ==
  /\ Embedding /\ ~Existing /\ Interrupt("memory")
  /\ row' = [status |-> "paused", idx |-> at + 1]
  /\ pending' \in {pending, IF at + 1 < Len(work) THEN Rest(at + 1) ELSE pending}
  /\ status' = "paused" /\ Return
  /\ UNCHANGED <<fileIndex, failed, vectors, edges, resume, pauseRequested, starts, excused>>

SaveRest ==
  /\ pc = "checkpoint"
  /\ pending' \in {pending, Rest(at)} /\ pc' = "embedding"
  /\ UNCHANGED <<status, fileIndex, row, failed, vectors, edges, memory, outside>>

EndEmbedding ==
  /\ pc = "embedding" /\ at >= Len(work)
  /\ row' = [status |-> "completed", idx |-> Len(work)] /\ pc' = "embedded"
  /\ UNCHANGED <<status, fileIndex, pending, failed, vectors, edges, memory, outside>>

-----------------------------------------------------------------------------
(***************************************************************************)
(* Embedding in the main process: _store_chunks_with_inprocess_embeddings.     *)
(***************************************************************************)

\* Memory is low at the first look, or it is not; the chunk is embedded, or fails.
FallbackChunk ==
  /\ pc = "fallback" /\ at < Len(work)
  /\ strikes' \in {0, IF strikes < MAX_MEMORY_WARNINGS THEN strikes + 1 ELSE strikes}
  /\ \/ vectors' = vectors \cup {Chunk} /\ UNCHANGED unsaved
     \/ unsaved' = unsaved \cup {Chunk} /\ UNCHANGED vectors
  /\ at' = at + 1
  /\ pending' \in {pending, IF AtCheckpoint(FALLBACK_INTERVAL) THEN Rest(at + 1) ELSE pending}
  /\ UNCHANGED <<status, fileIndex, row, failed, edges, pc, file, work, skips, regenerated,
                 outside>>

\* Memory stays low: the rest is saved, and the caller is told that all is done.
LowMemory ==
  /\ pc = "fallback" /\ at < Len(work)
  /\ strikes + 1 >= MAX_MEMORY_WARNINGS /\ Interrupt("memory")
  /\ pending' \in {pending, Rest(at)} /\ pc' = "finalizing"
  /\ UNCHANGED <<status, fileIndex, row, failed, vectors, edges, memory, resume,
                 pauseRequested, starts, excused>>

EndFallback ==
  /\ pc = "fallback" /\ at >= Len(work) /\ pc' = "embedded"
  /\ UNCHANGED <<disk, memory, outside>>

-----------------------------------------------------------------------------
(***************************************************************************)
(* The end of a run, one write after the other.                                *)
(***************************************************************************)
RecordFailures ==
  /\ pc = "embedded"
  /\ failed' = failed \cup unsaved /\ pc' = "finalizing"
  /\ UNCHANGED <<status, fileIndex, pending, row, vectors, edges, memory, outside>>

LoseFailures ==
  /\ pc = "embedded" /\ Interrupt("exception")
  /\ pc' = "finalizing"
  /\ UNCHANGED <<disk, memory, resume, pauseRequested, starts, excused>>

\* Only the subprocess clears the pending chunks of a run that regenerated them.
ClearPending ==
  /\ pc = "finalizing"
  /\ pending' = IF regenerated /\ row.status = "error" THEN pending ELSE <<>>
  /\ pc' = "readying"
  /\ UNCHANGED <<status, fileIndex, row, failed, vectors, edges, memory, outside>>

MarkReady ==
  /\ pc = "readying" /\ "ready" \in ValidNext(status)
  /\ status' = "ready" /\ pc' = "cleaning"
  /\ UNCHANGED <<fileIndex, pending, row, failed, vectors, edges, memory, outside>>

\* It is ready already, which update_status refuses; to mark it an error, too.
RefuseReady ==
  /\ pc = "readying" /\ "ready" \notin ValidNext(status)
  /\ Return /\ UNCHANGED <<disk, outside>>

ClearProgress ==
  /\ pc = "cleaning"
  /\ row' = NoRow /\ Return
  /\ UNCHANGED <<status, fileIndex, pending, failed, vectors, edges, outside>>

-----------------------------------------------------------------------------
(***************************************************************************)
(* What befalls a run.                                                         *)
(***************************************************************************)
RequestPause ==
  /\ ~pauseRequested /\ Interrupt("pause")
  /\ pauseRequested' = TRUE
  /\ UNCHANGED <<disk, pc, memory, resume, starts, excused>>

ClearPause ==
  /\ pauseRequested
  /\ pauseRequested' = FALSE /\ excused' = TRUE
  /\ UNCHANGED <<disk, pc, memory, resume, starts, interrupts>>

\* A store raises in the main thread.  Pass 1 catches what its futures raise, and
\* a checkpoint what its saves raise.
Raise ==
  /\ pc \in Running \ {"pass1", "checkpoint", "embedded"} /\ ~regenerated
  /\ Interrupt("exception")
  /\ status' = IF "error" \in ValidNext(status) THEN "error" ELSE status
  /\ Return
  /\ UNCHANGED <<fileIndex, pending, row, failed, vectors, edges, resume, pauseRequested,
                 starts, excused>>

\* From the look at the graph on, the branch in which every file is completed
\* catches everything, and goes on with pass 1 over no file.
Swallow ==
  /\ \/ pc = "discovering" /\ resume /\ Completed = Files /\ row.status # "completed"
     \/ pc \in Running \ {"checkpoint", "embedded"} /\ regenerated
  /\ Interrupt("exception")
  /\ pc' = "pass1" /\ work' = <<>> /\ at' = 0 /\ skips' = FALSE /\ strikes' = 0
  /\ unsaved' = {} /\ regenerated' = FALSE
  /\ UNCHANGED <<disk, file, resume, pauseRequested, starts, excused>>

Crash ==
  /\ pc # "idle" /\ Interrupt("crash")
  /\ pauseRequested' = FALSE /\ Return
  /\ UNCHANGED <<disk, resume, starts, excused>>

-----------------------------------------------------------------------------
FileStep ==
  \/ \E f \in Files : BeginFile(f) \/ IndexFile(f) \/ FailFile(f) \/ CollectFile(f)
  \/ NoticePause \/ PauseIndexing \/ EndPass1

ChunkStep ==
  \/ NothingToEmbed \/ RefuseInit \/ StartEmbedder \/ FallBack
  \/ SkipChunk \/ StoreChunk \/ FailChunk \/ OutOfMemory \/ SaveRest \/ EndEmbedding
  \/ FallbackChunk \/ EndFallback

RunStep ==
  \/ DiscoverAll \/ DiscoverRemaining \/ AlreadyIndexed \/ Regenerate
  \/ FileStep \/ Resolve \/ SaveChunks \/ ChunkStep
  \/ RecordFailures \/ ClearPending \/ MarkReady \/ RefuseReady \/ ClearProgress

Disturbance ==
  \/ \E f \in Files : LoseFile(f)
  \/ StopEmbedding \/ LowMemory \/ LoseFailures
  \/ RequestPause \/ ClearPause \/ Raise \/ Swallow \/ Crash

\* All the calls of the model are made.
Ended == pc = "idle" /\ starts = MaxStarts /\ UNCHANGED vars

Next == (\E again \in BOOLEAN : Start(again)) \/ RunStep \/ Disturbance \/ Ended

Spec     == Init /\ [][Next]_vars
FairSpec == Spec /\ WF_vars(RunStep)

-----------------------------------------------------------------------------
(***************************************************************************)
(* Properties.                                                                *)
(***************************************************************************)

\* The chunks of the files that are marked completed, and those accounted for:
\* in the vector store, or recorded as failed.
OfCompleted == UNION {ToSet(ChunksOf(f)) : f \in Completed}
Accounted   == vectors \cup failed

\* A ready repository has every file marked, completed or failed, and pending
\* chunks are saved only when that is so: _pause_requested and cancelled futures
\* (lines 712, 776) leave no file out, unless clear_pause or a lost mark does.
ReadyMeansTried ==
  (status = "ready" \/ pending # <<>>) /\ ~excused => \A f \in Files : fileIndex[f] # "none"

\* Without any interruption a ready repository has each chunk of its completed
\* files embedded or recorded as failed, over repeated calls with resume and
\* without, and after a full run each reference between them is an edge.
UninterruptedIsComplete ==
  status = "ready" /\ interrupts = 0 =>
    /\ OfCompleted \subseteq Accounted
    /\ ~resume => References \cap (Completed \X Completed) \subseteq edges

\* What a repository that is called ready tells of its files and chunks.
ReadyIsTruthful == ReadyMeansTried /\ UninterruptedIsComplete

\* While chunks are embedded, those that are not behind can be found again after
\* a crash: they are pending, or every file is completed and nothing is pending,
\* and then the chunks are regenerated ("Checkpoint recovery", README.md:393).
RestIsPersisted ==
  pc \in {"embedding", "checkpoint", "fallback"} =>
    \/ {work[i] : i \in at + 1 .. Len(work)} \subseteq ToSet(pending)
    \/ pending = <<>> /\ Completed = Files

\* index_repo returns, whatever its stores and its subprocess do.
Terminates == pc # "idle" ~> pc = "idle"

\* A call that nothing interrupts makes the repository ready.
HealthyRunReadies == pc # "idle" /\ interrupts = 0 ~> status = "ready" \/ interrupts > 0

\* The indexer's variables are typed, and the rest of a list survives a crash.
IndexerInv == TypeOK /\ RestIsPersisted

\* Both promises about the end of a call: it returns, and uninterrupted it readies.
IndexerEnds == Terminates /\ HealthyRunReadies

\* "Checkpoint recovery if the process crashes mid-ingestion" (README.md:393):
\* a ready repository has each chunk of its completed files embedded or recorded
\* as failed, whatever interrupted the runs before.
ReadyIsEmbedded == status = "ready" => OfCompleted \subseteq Accounted

=============================================================================
