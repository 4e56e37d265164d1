--------------------------- MODULE Indexer_proofs ---------------------------
(***************************************************************************)
(* Proofs about Indexer, for every repository, every interval and any number      *)
(* of calls and interruptions.                                                  *)
(*                                                                          *)
(* What is on disk is followed through the stages of a call.  Before pass 1 a       *)
(* list of chunks exists only if every file is marked; in pass 1 a file that is      *)
(* not marked is still in the hands of a worker; from then on every file is.         *)
(* While the list is embedded, what is left of it is pending or can be regenerated.  *)
(* And as long as nothing interrupts, a chunk of a completed file is embedded,       *)
(* recorded as failed, or still ahead in the list.                                *)
(***************************************************************************)
EXTENDS Indexer, TLAPS, SequenceTheorems

\* What is still ahead in the list that is embedded.
Due == {work[i] : i \in at + 1 .. Len(work)}

Early == {"idle", "discovering", "pass1", "stopping", "resolving", "saving", "starting"}
Late  == Running \ {"discovering", "pass1", "stopping"}

Marked == \A f \in Files : fileIndex[f] # "none"

\* Where a call is tells what it holds in memory.
Places ==
  /\ pc \notin {"pass1", "stopping"} => \A f \in Files : file[f] \in {"idle", "collected"}
  /\ pc \in {"idle", "discovering"} => work = <<>> /\ \A f \in Files : file[f] = "idle"
  /\ pc \in Early => at = 0 /\ unsaved = {}
  /\ pc = "pass1" => \A i \in DOMAIN work : file[work[i][1]] = "collected"
  /\ pc = "discovering" => status = "indexing" /\ pending = <<>>
  /\ regenerated => pc \in Late

\* A file that is not marked is in the hands of pass 1.
InHand(f) == \/ file[f] \in {"queued", "running"}
             \/ file[f] = "refused" /\ pauseRequested

Tried ==
  ~excused =>
    /\ status = "ready" \/ pending # <<>> \/ pc \in Late => Marked
    /\ pc = "pass1" => \A f \in Files : fileIndex[f] # "none" \/ InHand(f)

\* What is ahead is pending, or can be regenerated.
Persisted ==
  pc \in {"starting", "embedding", "checkpoint", "fallback"} =>
    \/ Due \subseteq ToSet(pending)
    \/ pending = <<>> /\ Completed = Files

\* The chunks that are embedded, recorded as failed, to be recorded, or still ahead.
Held == Accounted \cup unsaved \cup Due

Linked == References \cap (Completed \X Completed) \subseteq edges

\* As long as nothing interrupts: the flags and the rows are those of a healthy call,
Healthy ==
  interrupts = 0 =>
    /\ ~pauseRequested /\ pc # "stopping"
    /\ pc \in Early => row.status = "none"
    /\ pc \in Running \ {"cleaning"} => status = "indexing"

\* no chunk of a completed file is lost,
Covered ==
  interrupts = 0 =>
    /\ \A f \in Completed : file[f] = "indexed" \/ ToSet(ChunksOf(f)) \subseteq Held
    /\ pc = "embedded" => Due = {}
    /\ pc \in {"finalizing", "readying", "cleaning"} => OfCompleted \subseteq Accounted

\* and a full run links all it has read.
FullRunLinks ==
  interrupts = 0 /\ ~resume =>
    /\ pc \in {"pass1", "resolving"} => \A f \in Completed : file[f] \in {"indexed", "collected"}
    /\ status = "ready" \/ pc \in Late \ {"resolving"} => Linked

IInv == TypeOK /\ Places /\ Tried /\ Persisted /\ Healthy /\ Covered /\ FullRunLinks

-----------------------------------------------------------------------------
(***************************************************************************)
(* The lists of chunks.                                                       *)
(***************************************************************************)

LEMMA ChunksOfFile ==
  ASSUME NEW f \in Files
  PROVE  /\ ChunksOf(f) \in Seq(Chunks) /\ Len(ChunksOf(f)) = ChunkCount[f]
         /\ ToSet(ChunksOf(f)) \subseteq Chunks /\ IsInjective(ChunksOf(f))
         /\ \A i \in 1..ChunkCount[f] : ChunksOf(f)[i] = <<f, i>>
<1> DEFINE n == ChunkCount[f]
<1>1. n \in Nat
  BY IndexerAssumption
<1>2. ToSet(ChunksOf(f)) \subseteq Chunks
  BY DEF Chunks
<1>3. ChunksOf(f) = [i \in 1..n |-> <<f, i>>]
  BY DEF ChunksOf
<1>4. \A i \in 1..n : ChunksOf(f)[i] = <<f, i>> /\ <<f, i>> \in Chunks
  BY <1>2, <1>3 DEF ToSet
<1>5. ChunksOf(f) \in [1..n -> Chunks]
  BY <1>3, <1>4
<1>6. ChunksOf(f) \in Seq(Chunks) /\ Len(ChunksOf(f)) = n
  BY <1>1, <1>5
<1>7. IsInjective(ChunksOf(f))
  BY <1>3 DEF IsInjective
<1> QED
  BY <1>2, <1>4, <1>6, <1>7

LEMMA ChunkOfFile ==
  ASSUME NEW c \in Chunks
  PROVE  c[1] \in Files /\ c = <<c[1], c[2]>>
<1>1. PICK f \in Files : c \in ToSet(ChunksOf(f))
  BY DEF Chunks
<1>2. PICK i \in DOMAIN ChunksOf(f) : c = ChunksOf(f)[i]
  BY <1>1 DEF ToSet
<1>3. c = <<f, i>>
  BY <1>2 DEF ChunksOf
<1> QED
  BY <1>3

LEMMA EmptyList ==
  /\ <<>> \in Seq(Chunks) /\ IsInjective(<<>>) /\ Len(<<>>) = 0 /\ DOMAIN <<>> = {}
  BY DEF IsInjective

LEMMA ListDomain ==
  ASSUME NEW s \in Seq(Chunks)
  PROVE  Len(s) \in Nat /\ DOMAIN s = 1..Len(s) /\ \A i \in 1..Len(s) : s[i] \in Chunks
  BY LenProperties, ElementOfSeq

\* What is left of a list is a list, of just what is left.
LEMMA RestOfList ==
  ASSUME NEW n \in Nat, work \in Seq(Chunks), IsInjective(work)
  PROVE  /\ Rest(n) \in Seq(Chunks) /\ IsInjective(Rest(n))
         /\ ToSet(Rest(n)) = {work[i] : i \in n + 1 .. Len(work)}
<1> DEFINE r == Rest(n)
           k == Len(work) - n
<1>1. Len(work) \in Nat /\ DOMAIN work = 1..Len(work) /\ \A i \in 1..Len(work) : work[i] \in Chunks
  BY ListDomain
<1>2. \A i \in n + 1 .. Len(work) : work[i] \in Chunks
  BY <1>1
<1>3. /\ r \in Seq(Chunks)
      /\ Len(r) = IF n + 1 <= Len(work) THEN k ELSE 0
      /\ \A i \in 1 .. k : r[i] = work[n + i]
  <2>1. n + 1 \in Int /\ Len(work) \in Int
    BY <1>1
  <2>2. /\ SubSeq(work, n + 1, Len(work)) \in Seq(Chunks)
        /\ Len(SubSeq(work, n + 1, Len(work)))
             = IF n + 1 <= Len(work) THEN Len(work) - (n + 1) + 1 ELSE 0
        /\ \A i \in 1 .. Len(work) - (n + 1) + 1 :
             SubSeq(work, n + 1, Len(work))[i] = work[(n + 1) + i - 1]
    BY <1>2, <2>1, SubSeqProperties
  <2>3. Len(work) - (n + 1) + 1 = k /\ \A i \in Int : (n + 1) + i - 1 = n + i
    BY <1>1
  <2> HIDE DEF k
  <2> QED
    BY <2>2, <2>3 DEF Rest
<1>4. DOMAIN r = 1..k
  <2>1. DOMAIN r = 1..Len(r)
    BY <1>3, ListDomain
  <2>2. CASE n + 1 <= Len(work)
    BY <1>3, <2>1, <2>2
  <2>3. CASE ~(n + 1 <= Len(work))
    <3>1. 1..k = {} /\ 1..0 = {}
      BY <1>1, <2>3
    <3> QED
      BY <1>3, <2>1, <2>3, <3>1
  <2> QED
    BY <2>2, <2>3
<1> HIDE DEF r
<1>5. IsInjective(r)
  <2> SUFFICES ASSUME NEW i \in 1..k, NEW j \in 1..k, r[i] = r[j] PROVE i = j
    BY <1>4 DEF IsInjective
  <2>1. n + i \in 1..Len(work) /\ n + j \in 1..Len(work)
    BY <1>1
  <2>2. work[n + i] = work[n + j]
    BY <1>3
  <2>3. n + i = n + j
    BY <1>1, <2>1, <2>2 DEF IsInjective
  <2> QED
    BY <2>3
<1>6. ToSet(r) = {work[i] : i \in n + 1 .. Len(work)}
  <2>1. ASSUME NEW i \in 1..k PROVE r[i] = work[n + i] /\ n + i \in n + 1 .. Len(work)
    <3>1. n + i \in n + 1 .. Len(work)
      BY <1>1
    <3> QED
      BY <1>3, <3>1
  <2>2. ASSUME NEW i \in n + 1 .. Len(work) PROVE i - n \in 1..k /\ r[i - n] = work[i]
    <3>1. i - n \in 1..k /\ n + (i - n) = i
      BY <1>1
    <3> QED
      BY <1>3, <3>1
  <2>3. ToSet(r) = {r[i] : i \in 1..k}
    BY <1>4 DEF ToSet
  <2> HIDE DEF k
  <2> QED
    BY <2>1, <2>2, <2>3
<1> QED
  BY <1>3, <1>5, <1>6 DEF r

\* The chunks of a file none of whose chunks is there yet are added once.
LEMMA AddedToList ==
  ASSUME NEW f \in Files, work \in Seq(Chunks), IsInjective(work),
         \A i \in DOMAIN work : work[i][1] # f
  PROVE  LET w == work \o ChunksOf(f)
         IN  /\ w \in Seq(Chunks) /\ IsInjective(w)
             /\ ToSet(w) = ToSet(work) \cup ToSet(ChunksOf(f))
             /\ \A i \in DOMAIN w : w[i] \in ToSet(work) \/ w[i][1] = f
<1> DEFINE w == work \o ChunksOf(f)
           n == ChunkCount[f]
           m == Len(work)
<1>1. /\ ChunksOf(f) \in Seq(Chunks) /\ Len(ChunksOf(f)) = n
      /\ \A i \in 1..n : ChunksOf(f)[i] = <<f, i>>
      /\ DOMAIN ChunksOf(f) = 1..n /\ n \in Nat
  BY ChunksOfFile, IndexerAssumption, ListDomain
<1>2. m \in Nat /\ DOMAIN work = 1..m
  BY ListDomain
<1>3. w \in Seq(Chunks) /\ Len(w) = m + n
  BY <1>1, ConcatProperties
<1>4. \A i \in 1 .. m + n : w[i] = IF i <= m THEN work[i] ELSE ChunksOf(f)[i - m]
  BY <1>1, ConcatProperties
<1>5. DOMAIN w = 1 .. m + n
  BY <1>3, ListDomain
<1> HIDE DEF w, n, m
<1>6. \A i \in 1..m : i \in 1 .. m + n /\ w[i] = work[i]
  BY <1>1, <1>2, <1>4
<1>7. \A i \in 1 .. n : m + i \in 1 .. m + n /\ w[m + i] = <<f, i>>
  <2> TAKE i \in 1..n
  <2>1. m + i \in 1 .. m + n /\ ~(m + i <= m) /\ (m + i) - m = i
    BY <1>1, <1>2
  <2> QED
    BY <1>1, <1>4, <2>1
<1>8. \A i \in 1 .. m + n : i \in 1..m \/ \E j \in 1..n : i = m + j
  <2> SUFFICES ASSUME NEW i \in 1 .. m + n, i \notin 1..m
               PROVE  i - m \in 1..n /\ i = m + (i - m)
    BY Zenon
  <2> QED
    BY <1>1, <1>2
<1>9. IsInjective(w)
  <2> SUFFICES ASSUME NEW i \in 1 .. m + n, NEW j \in 1 .. m + n, w[i] = w[j] PROVE i = j
    BY <1>5 DEF IsInjective
  <2>1. CASE i \in 1..m /\ j \in 1..m
    BY <1>2, <1>6, <2>1 DEF IsInjective
  <2>2. CASE i \notin 1..m /\ j \notin 1..m
    BY <1>7, <1>8, <2>2
  <2>3. CASE i \in 1..m /\ j \notin 1..m
    BY <1>2, <1>6, <1>7, <1>8, <2>3
  <2>4. CASE i \notin 1..m /\ j \in 1..m
    BY <1>2, <1>6, <1>7, <1>8, <2>4
  <2> QED
    BY <2>1, <2>2, <2>3, <2>4
<1>10. ToSet(w) = ToSet(work) \cup ToSet(ChunksOf(f))
  <2>1. /\ ToSet(w) = {w[i] : i \in 1 .. m + n} /\ ToSet(work) = {work[i] : i \in 1..m}
        /\ ToSet(ChunksOf(f)) = {ChunksOf(f)[i] : i \in 1..n}
    BY <1>1, <1>2, <1>5 DEF ToSet
  <2>2. \A i \in 1 .. m + n : w[i] \in ToSet(work) \cup ToSet(ChunksOf(f))
    <3> TAKE i \in 1 .. m + n
    <3>1. CASE i \in 1..m
      BY <1>6, <2>1, <3>1
    <3>2. CASE i \notin 1..m
      <4>1. PICK j \in 1..n : i = m + j
        BY <1>8, <3>2
      <4>2. w[i] = ChunksOf(f)[j]
        BY <1>1, <1>7, <4>1
      <4> QED
        BY <2>1, <4>2
    <3> QED
      BY <3>1, <3>2
  <2>3. \A i \in 1..m : work[i] \in ToSet(w)
    BY <1>6, <2>1
  <2>4. \A i \in 1..n : ChunksOf(f)[i] \in ToSet(w)
    BY <1>1, <1>7, <2>1
  <2> QED
    BY <2>1, <2>2, <2>3, <2>4
<1>11. \A i \in DOMAIN w : w[i] \in ToSet(work) \/ w[i][1] = f
  BY <1>2, <1>5, <1>6, <1>7, <1>8 DEF ToSet
<1> QED
  BY <1>3, <1>9, <1>10, <1>11 DEF w

-----------------------------------------------------------------------------
(***************************************************************************)
(* Types, and what each stage of a call holds in memory.                       *)
(***************************************************************************)

\* The type invariant in two parts: the lists, and all the rest.
ListsOK ==
  /\ pending \in Seq(Chunks) /\ IsInjective(pending)
  /\ work \in Seq(Chunks) /\ IsInjective(work)

ScalarsOK ==
  /\ status \in Statuses
  /\ fileIndex \in [Files -> {"none", "completed", "failed"}]
  /\ row \in [status : {"none", "in_progress", "paused", "error", "completed"}, idx : Nat]
  /\ failed \subseteq Chunks /\ vectors \subseteq Chunks /\ unsaved \subseteq Chunks
  /\ edges \subseteq References
  /\ pc \in Running \cup {"idle"}
  /\ file \in [Files -> {"idle", "queued", "running", "refused", "indexed", "failed", "collected"}]
  /\ at \in Nat /\ strikes \in Nat
  /\ resume \in BOOLEAN /\ skips \in BOOLEAN /\ regenerated \in BOOLEAN
  /\ pauseRequested \in BOOLEAN /\ excused \in BOOLEAN
  /\ starts \in 0..MaxStarts /\ interrupts \in 0..MaxInterrupts

LEMMA TypeParts == TypeOK <=> ListsOK /\ ScalarsOK
  BY DEF TypeOK, ListsOK, ScalarsOK

LEMMA ChunkType ==
  ASSUME ListsOK, ScalarsOK, at < Len(work)
  PROVE  Chunk \in Chunks
  BY ListDomain DEF ListsOK, ScalarsOK, Chunk

LEMMA InterruptStep ==
  ASSUME ScalarsOK, NEW kind, Interrupt(kind)
  PROVE  interrupts' \in 0..MaxInterrupts /\ interrupts' # 0
  BY IndexerAssumption DEF ScalarsOK, Interrupt

\* What a call kept in memory is typed when it is over.
MemoryOK ==
  /\ pc \in Running \cup {"idle"}
  /\ file \in [Files -> {"idle", "queued", "running", "refused", "indexed", "failed", "collected"}]
  /\ at \in Nat /\ strikes \in Nat /\ unsaved \subseteq Chunks
  /\ skips \in BOOLEAN /\ regenerated \in BOOLEAN

LEMMA ReturnTypes ==
  ASSUME Return
  PROVE  MemoryOK'
<1>1. file' \in [Files -> {"idle", "queued", "running", "refused", "indexed", "failed", "collected"}]
  BY DEF Return
<1> QED
  BY <1>1 DEF Return, MemoryOK

LEMMA StepScalars ==
  ASSUME ListsOK, ScalarsOK, Next \/ UNCHANGED vars
  PROVE  ScalarsOK'
<1> USE IndexerAssumption
<1>1. CASE \E again \in BOOLEAN : Start(again)
  BY <1>1 DEF Start, ValidNext, disk, memory, outside, ScalarsOK, Running, Statuses
<1>2. CASE DiscoverAll
  BY <1>2 DEF DiscoverAll, Queue, disk, memory, outside, ScalarsOK, Running, Statuses
<1>3. CASE DiscoverRemaining
  BY <1>3 DEF DiscoverRemaining, Queue, Completed, disk, memory, outside, ScalarsOK, Running,
      Statuses
<1>4. CASE AlreadyIndexed
  BY <1>4 DEF AlreadyIndexed, Return, Completed, disk, memory, outside, ScalarsOK, Running, Statuses
<1>5. CASE Regenerate
  <2>1. CASE Return
    BY <1>5, <2>1, ReturnTypes DEF Regenerate, disk, outside, ScalarsOK, MemoryOK
  <2>2. CASE RegenerateChunks /\ pc' = "starting" /\ UNCHANGED <<file, at, skips, strikes, unsaved>>
    BY <1>5, <2>2 DEF Regenerate, RegenerateChunks, disk, outside, ScalarsOK, Running
  <2> QED
    BY <1>5, <2>1, <2>2 DEF Regenerate
<1>6. CASE \E f \in Files : BeginFile(f)
  BY <1>6 DEF BeginFile, disk, memory, outside, ScalarsOK, Running, Statuses
<1>7. CASE \E f \in Files : IndexFile(f)
  BY <1>7 DEF IndexFile, disk, memory, outside, ScalarsOK, Running, Statuses
<1>8. CASE \E f \in Files : FailFile(f)
  BY <1>8 DEF FailFile, disk, memory, outside, ScalarsOK, Running, Statuses
<1>9. CASE \E f \in Files : CollectFile(f)
  BY <1>9 DEF CollectFile, Finished, disk, memory, outside, ScalarsOK, Running, Statuses
<1>10. CASE NoticePause
  BY <1>10 DEF NoticePause, Finished, disk, memory, outside, ScalarsOK, Running, Statuses
<1>11. CASE PauseIndexing
  BY <1>11 DEF PauseIndexing, Return, disk, memory, outside, ScalarsOK, Running, Statuses
<1>12. CASE EndPass1
  BY <1>12 DEF EndPass1, disk, memory, outside, ScalarsOK, Running, Statuses
<1>13. CASE Resolve
  BY <1>13 DEF Resolve, disk, memory, outside, ScalarsOK, Running, Statuses
<1>14. CASE SaveChunks
  BY <1>14 DEF SaveChunks, disk, memory, outside, ScalarsOK, Running, Statuses
<1>15. CASE NothingToEmbed
  BY <1>15 DEF NothingToEmbed, disk, memory, outside, ScalarsOK, Running, Statuses
<1>16. CASE RefuseInit
  BY <1>16 DEF RefuseInit, Return, disk, memory, outside, ScalarsOK, Running, Statuses
<1>17. CASE StartEmbedder
  BY <1>17 DEF StartEmbedder, StartIndex, disk, memory, outside, ScalarsOK, Running, Statuses
<1>18. CASE FallBack
  BY <1>18 DEF FallBack, disk, memory, outside, ScalarsOK, Running, Statuses
<1>19. CASE SkipChunk
  BY <1>19 DEF SkipChunk, Embedding, Existing, NextChunk, RowAfter, disk, memory, outside,
      ScalarsOK, Running, Statuses
<1>20. CASE StoreChunk
  <2>1. Chunk \in Chunks
    BY <1>20, ChunkType DEF StoreChunk, Embedding
  <2> QED
    BY <1>20, <2>1 DEF StoreChunk, Embedding, Existing, NextChunk, RowAfter, disk, memory, outside,
        ScalarsOK, Running, Statuses
<1>21. CASE FailChunk
  <2>1. Chunk \in Chunks
    BY <1>21, ChunkType DEF FailChunk, Embedding
  <2> QED
    BY <1>21, <2>1 DEF FailChunk, Embedding, Existing, NextChunk, RowAfter, disk, memory, outside,
        ScalarsOK, Running, Statuses
<1>22. CASE OutOfMemory
  <2>1. Chunk \in Chunks
    BY <1>22, ChunkType DEF OutOfMemory, Embedding
  <2> QED
    BY <1>22, <2>1 DEF OutOfMemory, Embedding, Existing, NextChunk, RowAfter, disk, memory,
        outside, ScalarsOK, Running, Statuses
<1>23. CASE SaveRest
  BY <1>23 DEF SaveRest, disk, memory, outside, ScalarsOK, Running, Statuses
<1>24. CASE EndEmbedding
  BY <1>24 DEF EndEmbedding, disk, memory, outside, ScalarsOK, Running, Statuses
<1>25. CASE FallbackChunk
  <2>1. Chunk \in Chunks
    BY <1>25, ChunkType DEF FallbackChunk
  <2> QED
    BY <1>25, <2>1 DEF FallbackChunk, disk, memory, outside, ScalarsOK, Running, Statuses
<1>26. CASE EndFallback
  BY <1>26 DEF EndFallback, disk, memory, outside, ScalarsOK, Running, Statuses
<1>27. CASE RecordFailures
  BY <1>27 DEF RecordFailures, disk, memory, outside, ScalarsOK, Running, Statuses
<1>28. CASE ClearPending
  BY <1>28 DEF ClearPending, disk, memory, outside, ScalarsOK, Running, Statuses
<1>29. CASE MarkReady
  BY <1>29 DEF MarkReady, ValidNext, disk, memory, outside, ScalarsOK, Running, Statuses
<1>30. CASE RefuseReady
  BY <1>30 DEF RefuseReady, Return, ValidNext, disk, memory, outside, ScalarsOK, Running, Statuses
<1>31. CASE ClearProgress
  BY <1>31 DEF ClearProgress, Return, NoRow, disk, memory, outside, ScalarsOK, Running, Statuses
<1>32. CASE \E f \in Files : LoseFile(f)
  BY <1>32, InterruptStep DEF LoseFile, disk, memory, outside, ScalarsOK, Running
<1>33. CASE StopEmbedding
  BY <1>33, InterruptStep, ReturnTypes
    DEF StopEmbedding, Embedding, Existing, disk, memory, outside, ScalarsOK, MemoryOK, Statuses
<1>34. CASE LowMemory
  BY <1>34 DEF LowMemory, Interrupt, disk, memory, outside, ScalarsOK, Running, Statuses
<1>35. CASE LoseFailures
  BY <1>35 DEF LoseFailures, Interrupt, disk, memory, outside, ScalarsOK, Running, Statuses
<1>36. CASE RequestPause
  BY <1>36 DEF RequestPause, Interrupt, disk, memory, outside, ScalarsOK, Running, Statuses
<1>37. CASE ClearPause
  <2>1. UNCHANGED <<status, fileIndex, row, failed, vectors, edges, pc, file, at, strikes, unsaved,
                    resume, skips, regenerated, starts, interrupts>>
    BY <1>37 DEF ClearPause, disk, memory
  <2>2. pauseRequested' \in BOOLEAN /\ excused' \in BOOLEAN
    BY <1>37 DEF ClearPause
  <2> QED
    BY <2>1, <2>2 DEF ScalarsOK
<1>38. CASE Raise
  BY <1>38, InterruptStep, ReturnTypes
    DEF Raise, ValidNext, disk, memory, outside, ScalarsOK, MemoryOK, Statuses
<1>39. CASE Swallow
  BY <1>39, InterruptStep DEF Swallow, disk, memory, outside, ScalarsOK, Running
<1>40. CASE Crash
  BY <1>40, InterruptStep, ReturnTypes
    DEF Crash, disk, memory, outside, ScalarsOK, MemoryOK, Statuses
<1>41. CASE UNCHANGED vars
  BY <1>41 DEF vars, disk, memory, outside, ScalarsOK, Running, Statuses
<1> QED
  BY <1>1, <1>2, <1>3, <1>4, <1>5, <1>6, <1>7, <1>8, <1>9, <1>10, <1>11, <1>12, <1>13, <1>14,
      <1>15, <1>16, <1>17, <1>18, <1>19, <1>20, <1>21, <1>22, <1>23, <1>24, <1>25, <1>26, <1>27,
      <1>28, <1>29, <1>30, <1>31, <1>32, <1>33, <1>34, <1>35, <1>36, <1>37, <1>38, <1>39, <1>40,
      <1>41
  DEF Next, RunStep, FileStep, ChunkStep, Disturbance, Ended

\* What a step makes of the pending chunks.
LEMMA PendingStep ==
  ASSUME ScalarsOK, Next \/ UNCHANGED vars
  PROVE  pending' \in {pending, <<>>, work} \/ \E n \in Nat : pending' = Rest(n)
<1>1. CASE \E again \in BOOLEAN : Start(again)
  BY <1>1 DEF Start
<1>2. CASE SaveChunks \/ ClearPending
  BY <1>2 DEF SaveChunks, ClearPending
<1>3. CASE StopEmbedding \/ SaveRest \/ FallbackChunk \/ LowMemory
  <2>1. at \in Nat /\ at + 1 \in Nat
    BY DEF ScalarsOK
  <2> QED
    BY <1>3, <2>1 DEF StopEmbedding, SaveRest, FallbackChunk, LowMemory
<1>4. CASE DiscoverAll \/ DiscoverRemaining \/ AlreadyIndexed \/ Regenerate \/
           (\E f \in Files : BeginFile(f)) \/
           (\E f \in Files : IndexFile(f)) \/ (\E f \in Files : FailFile(f)) \/
           (\E f \in Files : CollectFile(f)) \/ NoticePause \/ PauseIndexing \/
           EndPass1 \/ Resolve
  BY <1>4 DEF DiscoverAll, DiscoverRemaining, AlreadyIndexed, Regenerate, BeginFile, IndexFile,
      FailFile, CollectFile, NoticePause, PauseIndexing, EndPass1, Resolve, disk, memory, outside
<1>5. CASE NothingToEmbed \/ RefuseInit \/ StartEmbedder \/ FallBack \/ SkipChunk \/
           StoreChunk \/ FailChunk \/ OutOfMemory \/ EndEmbedding \/ EndFallback \/
           RecordFailures \/ MarkReady
  BY <1>5 DEF NothingToEmbed, RefuseInit, StartEmbedder, FallBack, SkipChunk, StoreChunk,
      FailChunk, OutOfMemory, EndEmbedding, EndFallback, RecordFailures, MarkReady, NextChunk,
      disk, memory, outside
<1>6. CASE RefuseReady \/ ClearProgress \/ (\E f \in Files : LoseFile(f)) \/ LoseFailures \/
           RequestPause \/
           ClearPause \/ Raise \/ Swallow \/ Crash \/ UNCHANGED vars
  BY <1>6 DEF RefuseReady, ClearProgress, LoseFile, LoseFailures, RequestPause, ClearPause, Raise,
      Swallow, Crash, vars, disk, memory, outside
<1> QED
  BY <1>1, <1>2, <1>3, <1>4, <1>5, <1>6
  DEF Next, RunStep, FileStep, ChunkStep, Disturbance, Ended

\* What a step makes of the list that is embedded.
LEMMA WorkStep ==
  ASSUME Next \/ UNCHANGED vars
  PROVE  work' \in {work, <<>>, pending, AllChunks} \/ \E f \in Files : CollectFile(f)
<1>1. CASE (\E again \in BOOLEAN : Start(again)) \/ Regenerate
  BY <1>1 DEF Start, Regenerate, RegenerateChunks, Return
<1>2. CASE DiscoverAll \/ DiscoverRemaining \/ AlreadyIndexed \/
           (\E f \in Files : BeginFile(f)) \/ (\E f \in Files : IndexFile(f)) \/
           (\E f \in Files : FailFile(f)) \/ NoticePause \/ PauseIndexing \/ EndPass1 \/ Resolve \/
           SaveChunks \/ NothingToEmbed \/ RefuseInit
  BY <1>2 DEF DiscoverAll, DiscoverRemaining, AlreadyIndexed, BeginFile, IndexFile, FailFile,
      NoticePause, PauseIndexing, EndPass1, Resolve, SaveChunks, NothingToEmbed, RefuseInit,
      Return, disk, memory, outside
<1>3. CASE StartEmbedder \/ FallBack \/ SkipChunk \/ StoreChunk \/ FailChunk \/
           OutOfMemory \/ SaveRest \/ EndEmbedding \/ FallbackChunk \/ EndFallback \/
           RecordFailures \/ ClearPending \/ MarkReady
  BY <1>3 DEF StartEmbedder, FallBack, SkipChunk, StoreChunk, FailChunk, OutOfMemory, SaveRest,
      EndEmbedding, FallbackChunk, EndFallback, RecordFailures, ClearPending, MarkReady, NextChunk,
      disk, memory, outside
<1>4. CASE RefuseReady \/ ClearProgress \/ (\E f \in Files : LoseFile(f)) \/ StopEmbedding \/
           LowMemory \/
           LoseFailures \/ RequestPause \/ ClearPause \/ Raise \/ Swallow \/
           Crash \/ UNCHANGED vars
  BY <1>4 DEF RefuseReady, ClearProgress, LoseFile, StopEmbedding, LowMemory, LoseFailures,
      RequestPause, ClearPause, Raise, Swallow, Crash, vars, Return, disk, memory, outside
<1> QED
  BY <1>1, <1>2, <1>3, <1>4
  DEF Next, RunStep, FileStep, ChunkStep, Disturbance, Ended

LEMMA StepLists ==
  ASSUME ListsOK, ScalarsOK, Places, Next \/ UNCHANGED vars
  PROVE  ListsOK'
<1>1. pending' \in Seq(Chunks) /\ IsInjective(pending')
  <2>1. CASE pending' \in {pending, <<>>, work}
    BY <2>1, EmptyList DEF ListsOK
  <2>2. CASE \E n \in Nat : pending' = Rest(n)
    BY <2>2, RestOfList DEF ListsOK
  <2> QED
    BY <2>1, <2>2, PendingStep
<1>2. work' \in Seq(Chunks) /\ IsInjective(work')
  <2>1. CASE work' \in {work, <<>>, pending, AllChunks}
    BY <2>1, EmptyList, ChunksAssumption DEF ListsOK
  <2>2. ASSUME NEW f \in Files, CollectFile(f) PROVE work' \in Seq(Chunks) /\ IsInjective(work')
    <3>1. CASE file[f] = "indexed"
      <4>1. \A i \in DOMAIN work : work[i][1] # f
        BY <2>2, <3>1 DEF CollectFile, Places
      <4>2. work \o ChunksOf(f) \in Seq(Chunks) /\ IsInjective(work \o ChunksOf(f))
        BY <4>1, AddedToList DEF ListsOK
      <4> QED
        BY <2>2, <3>1, <4>2 DEF CollectFile
    <3>2. CASE file[f] # "indexed"
      BY <2>2, <3>2 DEF CollectFile, ListsOK
    <3> QED
      BY <3>1, <3>2
  <2> QED
    BY <2>1, <2>2, WorkStep
<1> QED
  BY <1>1, <1>2 DEF ListsOK

LEMMA StepPlaces ==
  ASSUME ListsOK, ScalarsOK, Places, Next \/ UNCHANGED vars
  PROVE  Places'
<1> USE DEF Places, Early, Late, Running, ScalarsOK
<1>0. DOMAIN <<>> = {} /\ \A i \in DOMAIN work : work[i][1] \in Files
  BY EmptyList, ListDomain, ChunkOfFile DEF ListsOK
<1>1. CASE \E again \in BOOLEAN : Start(again)
  BY <1>0, <1>1 DEF Start, ValidNext, disk, memory, outside
<1>2. CASE DiscoverAll
  BY <1>0, <1>2 DEF DiscoverAll, Queue, disk, memory, outside
<1>3. CASE DiscoverRemaining
  BY <1>0, <1>3 DEF DiscoverRemaining, Queue, Completed, disk, memory, outside
<1>4. CASE AlreadyIndexed
  BY <1>0, <1>4 DEF AlreadyIndexed, Return, Completed, disk, memory, outside
<1>5. CASE Regenerate
  BY <1>0, <1>5 DEF Regenerate, RegenerateChunks, Return, Completed, disk, memory, outside
<1>6. CASE \E f \in Files : BeginFile(f)
  BY <1>0, <1>6 DEF BeginFile, disk, memory, outside
<1>7. CASE \E f \in Files : IndexFile(f)
  BY <1>0, <1>7 DEF IndexFile, disk, memory, outside
<1>8. CASE \E f \in Files : FailFile(f)
  BY <1>0, <1>8 DEF FailFile, disk, memory, outside
<1>9. ASSUME NEW f \in Files, CollectFile(f) PROVE Places'
  <2>1. /\ pc = "pass1" /\ pc' = "pass1" /\ UNCHANGED <<at, unsaved, regenerated>>
        /\ file' = [file EXCEPT ![f] = IF file[f] = "indexed" THEN "collected" ELSE "idle"]
        /\ Finished(f)
    BY <1>9 DEF CollectFile
  <2>2. file[f] # "collected"
    BY <2>1 DEF Finished
  <2>3. \A i \in DOMAIN work : file'[work[i][1]] = "collected" /\ work[i][1] # f
    BY <1>0, <2>1, <2>2
  <2>4. CASE file[f] # "indexed"
    <3>1. work' = work
      BY <1>9, <2>4 DEF CollectFile
    <3> QED
      BY <2>1, <2>3, <3>1
  <2>5. CASE file[f] = "indexed"
    <3> DEFINE w == work \o ChunksOf(f)
    <3>1. work' = w /\ file'[f] = "collected"
      BY <1>9, <2>1, <2>5 DEF CollectFile
    <3>2. \A i \in DOMAIN w : w[i] \in ToSet(work) \/ w[i][1] = f
      BY <2>3, AddedToList DEF ListsOK
    <3>3. \A c \in ToSet(work) : file'[c[1]] = "collected"
      BY <2>3 DEF ToSet
    <3> HIDE DEF w
    <3>4. \A i \in DOMAIN w : file'[w[i][1]] = "collected"
      BY <3>1, <3>2, <3>3
    <3> QED
      BY <2>1, <3>1, <3>4
  <2> QED
    BY <2>4, <2>5
<1>10. CASE NoticePause
  BY <1>0, <1>10 DEF NoticePause, Finished, disk, memory, outside
<1>11. CASE PauseIndexing
  BY <1>0, <1>11 DEF PauseIndexing, Return, disk, memory, outside
<1>12. CASE EndPass1
  BY <1>0, <1>12 DEF EndPass1, disk, memory, outside
<1>13. CASE Resolve
  BY <1>0, <1>13 DEF Resolve, disk, memory, outside
<1>14. CASE SaveChunks
  BY <1>0, <1>14 DEF SaveChunks, disk, memory, outside
<1>15. CASE NothingToEmbed
  BY <1>0, <1>15 DEF NothingToEmbed, disk, memory, outside
<1>16. CASE RefuseInit
  BY <1>0, <1>16 DEF RefuseInit, Return, disk, memory, outside
<1>17. CASE StartEmbedder
  BY <1>0, <1>17 DEF StartEmbedder, StartIndex, disk, memory, outside
<1>18. CASE FallBack
  BY <1>0, <1>18 DEF FallBack, disk, memory, outside
<1>19. CASE SkipChunk
  BY <1>0, <1>19 DEF SkipChunk, Embedding, Existing, NextChunk, RowAfter, disk, memory, outside
<1>20. CASE StoreChunk
  BY <1>0, <1>20 DEF StoreChunk, Embedding, Existing, NextChunk, RowAfter, disk, memory, outside
<1>21. CASE FailChunk
  BY <1>0, <1>21 DEF FailChunk, Embedding, Existing, NextChunk, RowAfter, disk, memory, outside
<1>22. CASE OutOfMemory
  BY <1>0, <1>22 DEF OutOfMemory, Embedding, Existing, NextChunk, RowAfter, disk, memory, outside
<1>23. CASE SaveRest
  BY <1>0, <1>23 DEF SaveRest, disk, memory, outside
<1>24. CASE EndEmbedding
  BY <1>0, <1>24 DEF EndEmbedding, disk, memory, outside
<1>25. CASE FallbackChunk
  BY <1>0, <1>25 DEF FallbackChunk, disk, memory, outside
<1>26. CASE EndFallback
  BY <1>0, <1>26 DEF EndFallback, disk, memory, outside
<1>27. CASE RecordFailures
  BY <1>0, <1>27 DEF RecordFailures, disk, memory, outside
<1>28. CASE ClearPending
  BY <1>0, <1>28 DEF ClearPending, disk, memory, outside
<1>29. CASE MarkReady
  BY <1>0, <1>29 DEF MarkReady, ValidNext, disk, memory, outside
<1>30. CASE RefuseReady
  BY <1>0, <1>30 DEF RefuseReady, Return, ValidNext, disk, memory, outside
<1>31. CASE ClearProgress
  BY <1>0, <1>31 DEF ClearProgress, Return, NoRow, disk, memory, outside
<1>32. ASSUME NEW f \in Files, LoseFile(f) PROVE Places'
  <2>1. /\ file[f] = "running" /\ file' = [file EXCEPT ![f] = "failed"]
        /\ UNCHANGED <<pc, work, at, unsaved, regenerated, status, pending>>
    BY <1>32 DEF LoseFile, disk
  <2> QED
    BY <1>0, <2>1
<1>33. CASE StopEmbedding
  BY <1>0, <1>33 DEF StopEmbedding, Embedding, Existing, Interrupt, Return, disk, memory, outside
<1>34. CASE LowMemory
  BY <1>0, <1>34 DEF LowMemory, Interrupt, disk, memory, outside
<1>35. CASE LoseFailures
  BY <1>0, <1>35 DEF LoseFailures, Interrupt, disk, memory, outside
<1>36. CASE RequestPause
  BY <1>0, <1>36 DEF RequestPause, Interrupt, disk, memory, outside
<1>37. CASE ClearPause
  BY <1>0, <1>37 DEF ClearPause, disk, memory, outside
<1>38. CASE Raise
  BY <1>0, <1>38 DEF Raise, Interrupt, Return, ValidNext, disk, memory, outside
<1>39. CASE Swallow
  BY <1>0, <1>39 DEF Swallow, Interrupt, disk, memory, outside
<1>40. CASE Crash
  BY <1>0, <1>40 DEF Crash, Interrupt, Return, disk, memory, outside
<1>41. CASE UNCHANGED vars
  BY <1>0, <1>41 DEF vars, disk, memory, outside
<1> QED
  BY <1>1, <1>2, <1>3, <1>4, <1>5, <1>6, <1>7, <1>8, <1>9, <1>10, <1>11, <1>12, <1>13, <1>14,
      <1>15, <1>16, <1>17, <1>18, <1>19, <1>20, <1>21, <1>22, <1>23, <1>24, <1>25, <1>26, <1>27,
      <1>28, <1>29, <1>30, <1>31, <1>32, <1>33, <1>34, <1>35, <1>36, <1>37, <1>38, <1>39, <1>40,
      <1>41
  DEF Next, RunStep, FileStep, ChunkStep, Disturbance, Ended

-----------------------------------------------------------------------------
(***************************************************************************)
(* The files are marked, and what is ahead is persisted.                       *)
(***************************************************************************)

LEMMA StepTried ==
  ASSUME ListsOK, ScalarsOK, Places, Tried, Next \/ UNCHANGED vars
  PROVE  Tried'
<1> USE DEF Places, Early, Late, Running, ScalarsOK, Tried, Marked, InHand
<1>1. CASE \E again \in BOOLEAN : Start(again)
  BY <1>1 DEF Start, ValidNext, disk, memory, outside
<1>2. CASE DiscoverAll
  BY <1>2 DEF DiscoverAll, Queue, disk, memory, outside
<1>3. CASE DiscoverRemaining
  BY <1>3 DEF DiscoverRemaining, Queue, Completed, disk, memory, outside
<1>4. CASE AlreadyIndexed
  BY <1>4 DEF AlreadyIndexed, Return, Completed, disk, memory, outside
<1>5. CASE Regenerate
  BY <1>5 DEF Regenerate, RegenerateChunks, Return, Completed, disk, memory, outside
<1>6. CASE \E f \in Files : BeginFile(f)
  BY <1>6 DEF BeginFile, disk, memory, outside
<1>7. CASE \E f \in Files : IndexFile(f)
  BY <1>7 DEF IndexFile, disk, memory, outside
<1>8. CASE \E f \in Files : FailFile(f)
  BY <1>8 DEF FailFile, disk, memory, outside
<1>9. CASE \E f \in Files : CollectFile(f)
  BY <1>9 DEF CollectFile, Finished, disk, memory, outside
<1>10. CASE NoticePause
  BY <1>10 DEF NoticePause, Finished, disk, memory, outside
<1>11. CASE PauseIndexing
  BY <1>11 DEF PauseIndexing, Return, disk, memory, outside
<1>12. CASE EndPass1
  BY <1>12 DEF EndPass1, disk, memory, outside
<1>13. CASE Resolve
  BY <1>13 DEF Resolve, disk, memory, outside
<1>14. CASE SaveChunks
  BY <1>14 DEF SaveChunks, disk, memory, outside
<1>15. CASE NothingToEmbed
  BY <1>15 DEF NothingToEmbed, disk, memory, outside
<1>16. CASE RefuseInit
  BY <1>16 DEF RefuseInit, Return, disk, memory, outside
<1>17. CASE StartEmbedder
  BY <1>17 DEF StartEmbedder, StartIndex, disk, memory, outside
<1>18. CASE FallBack
  BY <1>18 DEF FallBack, disk, memory, outside
<1>19. CASE SkipChunk
  BY <1>19 DEF SkipChunk, Embedding, Existing, NextChunk, RowAfter, disk, memory, outside
<1>20. CASE StoreChunk
  BY <1>20 DEF StoreChunk, Embedding, Existing, NextChunk, RowAfter, disk, memory, outside
<1>21. CASE FailChunk
  BY <1>21 DEF FailChunk, Embedding, Existing, NextChunk, RowAfter, disk, memory, outside
<1>22. CASE OutOfMemory
  BY <1>22 DEF OutOfMemory, Embedding, Existing, NextChunk, RowAfter, disk, memory, outside
<1>23. CASE SaveRest
  BY <1>23 DEF SaveRest, disk, memory, outside
<1>24. CASE EndEmbedding
  BY <1>24 DEF EndEmbedding, disk, memory, outside
<1>25. CASE FallbackChunk
  BY <1>25 DEF FallbackChunk, disk, memory, outside
<1>26. CASE EndFallback
  BY <1>26 DEF EndFallback, disk, memory, outside
<1>27. CASE RecordFailures
  BY <1>27 DEF RecordFailures, disk, memory, outside
<1>28. CASE ClearPending
  BY <1>28 DEF ClearPending, disk, memory, outside
<1>29. CASE MarkReady
  BY <1>29 DEF MarkReady, ValidNext, disk, memory, outside
<1>30. CASE RefuseReady
  BY <1>30 DEF RefuseReady, Return, ValidNext, disk, memory, outside
<1>31. CASE ClearProgress
  BY <1>31 DEF ClearProgress, Return, NoRow, disk, memory, outside
<1>32. CASE \E f \in Files : LoseFile(f)
  BY <1>32 DEF LoseFile, Interrupt, disk, memory, outside
<1>33. CASE StopEmbedding
  BY <1>33 DEF StopEmbedding, Embedding, Existing, Interrupt, Return, disk, memory, outside
<1>34. CASE LowMemory
  BY <1>34 DEF LowMemory, Interrupt, disk, memory, outside
<1>35. CASE LoseFailures
  BY <1>35 DEF LoseFailures, Interrupt, disk, memory, outside
<1>36. CASE RequestPause
  BY <1>36 DEF RequestPause, Interrupt, disk, memory, outside
<1>37. CASE ClearPause
  BY <1>37 DEF ClearPause, disk, memory, outside
<1>38. CASE Raise
  BY <1>38 DEF Raise, Interrupt, Return, ValidNext, disk, memory, outside
<1>39. CASE Swallow
  <2>1. pc' = "pass1" /\ UNCHANGED <<status, fileIndex, pending, file, pauseRequested, excused>>
    BY <1>39 DEF Swallow, disk
  <2>2. CASE pc = "discovering" /\ resume /\ Completed = Files
    BY <2>1, <2>2 DEF Completed
  <2>3. CASE pc \in Running \ {"checkpoint", "embedded"} /\ regenerated
    BY <2>1, <2>3
  <2> QED
    BY <1>39, <2>2, <2>3 DEF Swallow
<1>40. CASE Crash
  BY <1>40 DEF Crash, Interrupt, Return, disk, memory, outside
<1>41. CASE UNCHANGED vars
  BY <1>41 DEF vars, disk, memory, outside
<1> QED
  BY <1>1, <1>2, <1>3, <1>4, <1>5, <1>6, <1>7, <1>8, <1>9, <1>10, <1>11, <1>12, <1>13, <1>14,
      <1>15, <1>16, <1>17, <1>18, <1>19, <1>20, <1>21, <1>22, <1>23, <1>24, <1>25, <1>26, <1>27,
      <1>28, <1>29, <1>30, <1>31, <1>32, <1>33, <1>34, <1>35, <1>36, <1>37, <1>38, <1>39, <1>40,
      <1>41
  DEF Next, RunStep, FileStep, ChunkStep, Disturbance, Ended

\* From the start of a list all of it is ahead, and going on leaves less ahead.
LEMMA DueAtStart ==
  ASSUME ListsOK, at = 0
  PROVE  Due = ToSet(work)
<1>1. DOMAIN work = 1..Len(work) /\ at + 1 = 1
  BY ListDomain DEF ListsOK
<1> QED
  BY <1>1 DEF Due, ToSet

LEMMA DueShrinks ==
  ASSUME ListsOK, ScalarsOK, work' = work, at' \in Nat, at' >= at
  PROVE  Due' \subseteq Due
<1>1. Len(work) \in Nat
  BY ListDomain DEF ListsOK
<1>2. \A i \in at' + 1 .. Len(work) : i \in at + 1 .. Len(work)
  <2>1. at \in Nat
    BY DEF ScalarsOK
  <2> DEFINE n == at'
             m == Len(work)
  <2>2. n \in Nat /\ n >= at /\ m \in Nat
    BY <1>1
  <2> HIDE DEF n, m
  <2>3. \A i \in n + 1 .. m : i \in at + 1 .. m
    BY <2>1, <2>2
  <2> QED
    BY <2>3 DEF n, m
<1> QED
  BY <1>2 DEF Due

LEMMA StepPersisted ==
  ASSUME ListsOK, ScalarsOK, ListsOK', Places, Persisted, Next \/ UNCHANGED vars
  PROVE  Persisted'
<1> DEFINE Stage == {"starting", "embedding", "checkpoint", "fallback"}
<1>a. ASSUME pc \in Stage, work' = work, at' \in Nat, at' >= at, UNCHANGED <<pending, fileIndex>>
      PROVE  Persisted'
  BY <1>a, DueShrinks DEF Persisted, Completed
<1>b. ASSUME NEW n \in Nat, pending' \in {pending, Rest(n)}, pc \in Stage, work' = work, at' = n,
             at' >= at, UNCHANGED fileIndex
      PROVE  Persisted'
  <2>1. CASE pending' = pending
    BY <1>a, <1>b, <2>1
  <2>2. CASE pending' = Rest(n)
    <3>1. ToSet(Rest(n)) = Due'
      BY <1>b, RestOfList DEF ListsOK, Due
    <3> QED
      BY <2>2, <3>1 DEF Persisted
  <2> QED
    BY <1>b, <2>1, <2>2
<1>c. at \in Nat /\ at + 1 \in Nat /\ at + 1 >= at
  BY DEF ScalarsOK
<1>d. ASSUME NextChunk, pc \in Stage PROVE Persisted'
  BY <1>a, <1>c, <1>d DEF NextChunk
<1> USE DEF Places, Early, Late, Running
<1>1. ASSUME NEW again \in BOOLEAN, Start(again) PROVE Persisted'
  <2>1. CASE again /\ pending # <<>>
    <3>1. at' = 0 /\ pending' = pending /\ work' = pending
      BY <1>1, <2>1 DEF Start
    <3>2. Due' = ToSet(work')
      <4>1. DOMAIN work' = 1..Len(work') /\ at' + 1 = 1
        BY <3>1, ListDomain DEF ListsOK
      <4> QED
        BY <4>1 DEF Due, ToSet
    <3> QED
      BY <3>1, <3>2 DEF Persisted
  <2>2. CASE ~(again /\ pending # <<>>)
    BY <1>1, <2>2 DEF Start, Persisted
  <2> QED
    BY <2>1, <2>2
<1>2. CASE DiscoverAll
  BY <1>2 DEF DiscoverAll, Queue, disk, memory, outside, Persisted, Due
<1>3. CASE DiscoverRemaining
  BY <1>3 DEF DiscoverRemaining, Queue, Completed, disk, memory, outside, Persisted, Due
<1>4. CASE AlreadyIndexed
  BY <1>4 DEF AlreadyIndexed, Return, Completed, disk, memory, outside, Persisted, Due
<1>5. CASE Regenerate
  BY <1>5 DEF Regenerate, RegenerateChunks, Return, Completed, disk, Persisted
<1>6. CASE \E f \in Files : BeginFile(f)
  BY <1>6 DEF BeginFile, disk, memory, outside, Persisted, Due
<1>7. CASE \E f \in Files : IndexFile(f)
  BY <1>7 DEF IndexFile, disk, memory, outside, Persisted, Due
<1>8. CASE \E f \in Files : FailFile(f)
  BY <1>8 DEF FailFile, disk, memory, outside, Persisted, Due
<1>9. CASE \E f \in Files : CollectFile(f)
  BY <1>9 DEF CollectFile, Finished, disk, memory, outside, Persisted, Due
<1>10. CASE NoticePause
  BY <1>10 DEF NoticePause, Finished, disk, memory, outside, Persisted, Due
<1>11. CASE PauseIndexing
  BY <1>11 DEF PauseIndexing, Return, disk, memory, outside, Persisted, Due
<1>12. CASE EndPass1
  BY <1>12 DEF EndPass1, disk, memory, outside, Persisted, Due
<1>13. CASE Resolve
  BY <1>13 DEF Resolve, disk, memory, outside, Persisted, Due
<1>14. CASE SaveChunks
  <2>1. at' = 0 /\ pending' = work /\ work' = work
    BY <1>14 DEF SaveChunks, memory
  <2>2. Due' = ToSet(work)
    <3>1. DOMAIN work = 1..Len(work) /\ at' + 1 = 1
      BY <2>1, ListDomain DEF ListsOK
    <3> QED
      BY <2>1, <3>1 DEF Due, ToSet
  <2> QED
    BY <2>1, <2>2 DEF Persisted
<1>15. CASE NothingToEmbed
  BY <1>15 DEF NothingToEmbed, disk, memory, outside, Persisted, Due
<1>16. CASE RefuseInit
  BY <1>16 DEF RefuseInit, Return, disk, memory, outside, Persisted, Due
<1>17. CASE StartEmbedder
  <2>1. StartIndex \in Nat /\ StartIndex >= 0
    BY DEF StartIndex, ScalarsOK
  <2> QED
    BY <1>17, <1>a, <2>1 DEF StartEmbedder
<1>18. CASE FallBack
  BY <1>18, <1>a, <1>c DEF FallBack, memory
<1>19. CASE SkipChunk
  BY <1>19, <1>d DEF SkipChunk, Embedding
<1>20. CASE StoreChunk
  BY <1>20, <1>d DEF StoreChunk, Embedding
<1>21. CASE FailChunk
  BY <1>21, <1>d DEF FailChunk, Embedding
<1>22. CASE OutOfMemory
  BY <1>22, <1>d DEF OutOfMemory, Embedding
<1>23. CASE SaveRest
  BY <1>23, <1>b, <1>c DEF SaveRest, memory
<1>24. CASE EndEmbedding
  BY <1>24 DEF EndEmbedding, disk, memory, outside, Persisted, Due
<1>25. CASE FallbackChunk
  <2>1. /\ pending' \in {pending, Rest(at + 1)} /\ pc = "fallback" /\ work' = work /\ at' = at + 1
        /\ UNCHANGED fileIndex
    BY <1>25 DEF FallbackChunk
  <2> QED
    BY <1>b, <1>c, <2>1
<1>26. CASE EndFallback
  BY <1>26 DEF EndFallback, disk, memory, outside, Persisted, Due
<1>27. CASE RecordFailures
  BY <1>27 DEF RecordFailures, disk, memory, outside, Persisted, Due
<1>28. CASE ClearPending
  BY <1>28 DEF ClearPending, disk, memory, outside, Persisted, Due
<1>29. CASE MarkReady
  BY <1>29 DEF MarkReady, ValidNext, disk, memory, outside, Persisted, Due
<1>30. CASE RefuseReady
  BY <1>30 DEF RefuseReady, Return, ValidNext, disk, memory, outside, Persisted, Due
<1>31. CASE ClearProgress
  BY <1>31 DEF ClearProgress, Return, NoRow, disk, memory, outside, Persisted, Due
<1>32. CASE \E f \in Files : LoseFile(f)
  BY <1>32 DEF LoseFile, Interrupt, disk, memory, outside, Persisted, Due
<1>33. CASE StopEmbedding
  BY <1>33 DEF StopEmbedding, Embedding, Existing, Interrupt, Return, disk, memory, outside,
      Persisted, Due
<1>34. CASE LowMemory
  BY <1>34 DEF LowMemory, Interrupt, disk, memory, outside, Persisted, Due
<1>35. CASE LoseFailures
  BY <1>35 DEF LoseFailures, Interrupt, disk, memory, outside, Persisted, Due
<1>36. CASE RequestPause
  BY <1>36, <1>a, <1>c DEF RequestPause, disk, memory, Persisted
<1>37. CASE ClearPause
  BY <1>37, <1>a, <1>c DEF ClearPause, disk, memory, Persisted
<1>38. CASE Raise
  BY <1>38 DEF Raise, Interrupt, Return, ValidNext, disk, memory, outside, Persisted, Due
<1>39. CASE Swallow
  BY <1>39 DEF Swallow, Interrupt, disk, memory, outside, Persisted, Due
<1>40. CASE Crash
  BY <1>40 DEF Crash, Interrupt, Return, disk, memory, outside, Persisted, Due
<1>41. CASE UNCHANGED vars
  BY <1>41, <1>a, <1>c DEF vars, disk, memory, Persisted
<1> QED
  BY <1>1, <1>2, <1>3, <1>4, <1>5, <1>6, <1>7, <1>8, <1>9, <1>10, <1>11, <1>12, <1>13, <1>14,
      <1>15, <1>16, <1>17, <1>18, <1>19, <1>20, <1>21, <1>22, <1>23, <1>24, <1>25, <1>26, <1>27,
      <1>28, <1>29, <1>30, <1>31, <1>32, <1>33, <1>34, <1>35, <1>36, <1>37, <1>38, <1>39, <1>40,
      <1>41
  DEF Next, RunStep, FileStep, ChunkStep, Disturbance, Ended

-----------------------------------------------------------------------------
(***************************************************************************)
(* Without an interruption.                                                   *)
(***************************************************************************)

LEMMA Undisturbed ==
  ASSUME ScalarsOK, Next \/ UNCHANGED vars, interrupts' = 0
  PROVE  interrupts = 0 /\ (Disturbance => ClearPause)
<1>1. ~\E kind : Interrupt(kind)
  BY InterruptStep
<1>2. ASSUME Disturbance PROVE ClearPause
  BY <1>1, <1>2 DEF Disturbance, LoseFile, StopEmbedding, LowMemory, LoseFailures, RequestPause,
                    Raise, Swallow, Crash
<1>3. interrupts' = interrupts
  <2>1. CASE (\E again \in BOOLEAN : Start(again)) \/ DiscoverAll \/ DiscoverRemaining \/
           AlreadyIndexed \/ Regenerate \/
             (\E f \in Files : BeginFile(f)) \/ (\E f \in Files : IndexFile(f)) \/
           (\E f \in Files : FailFile(f)) \/ (\E f \in Files : CollectFile(f)) \/ NoticePause \/
             PauseIndexing
    BY <2>1 DEF Start, DiscoverAll, DiscoverRemaining, AlreadyIndexed, Regenerate, BeginFile,
        IndexFile, FailFile, CollectFile, NoticePause, PauseIndexing, outside
  <2>2. CASE EndPass1 \/ Resolve \/ SaveChunks \/ NothingToEmbed \/ RefuseInit \/
             StartEmbedder \/ FallBack \/ SkipChunk \/ StoreChunk \/ FailChunk \/
             OutOfMemory
    BY <2>2 DEF EndPass1, Resolve, SaveChunks, NothingToEmbed, RefuseInit, StartEmbedder, FallBack,
        SkipChunk, StoreChunk, FailChunk, OutOfMemory, NextChunk, outside
  <2>3. CASE SaveRest \/ EndEmbedding \/ FallbackChunk \/ EndFallback \/ RecordFailures \/
             ClearPending \/ MarkReady \/ RefuseReady \/ ClearProgress \/ ClearPause \/
             UNCHANGED vars
    BY <2>3 DEF SaveRest, EndEmbedding, FallbackChunk, EndFallback, RecordFailures, ClearPending,
        MarkReady, RefuseReady, ClearProgress, ClearPause, vars, outside
  <2> QED
    BY <1>2, <2>1, <2>2, <2>3 DEF Next, RunStep, FileStep, ChunkStep, Ended
<1> QED
  BY <1>2, <1>3

LEMMA StepHealthy ==
  ASSUME ListsOK, ScalarsOK, Places, Healthy, Next \/ UNCHANGED vars
  PROVE  Healthy'
<1> SUFFICES ASSUME interrupts' = 0 PROVE Healthy'
  BY DEF Healthy
<1>0. interrupts = 0 /\ (Disturbance => ClearPause)
  BY Undisturbed
<1> USE DEF Places, Early, Late, Running, ScalarsOK, Healthy
<1>1. CASE \E again \in BOOLEAN : Start(again)
  BY <1>0, <1>1 DEF Start, ValidNext, disk, memory, outside
<1>2. CASE DiscoverAll
  BY <1>0, <1>2 DEF DiscoverAll, Queue, disk, memory, outside
<1>3. CASE DiscoverRemaining
  BY <1>0, <1>3 DEF DiscoverRemaining, Queue, Completed, disk, memory, outside
<1>4. CASE AlreadyIndexed
  BY <1>0, <1>4 DEF AlreadyIndexed, Return, Completed, disk, memory, outside
<1>5. CASE Regenerate
  BY <1>0, <1>5 DEF Regenerate, RegenerateChunks, Return, Completed, disk, memory, outside
<1>6. CASE \E f \in Files : BeginFile(f)
  BY <1>0, <1>6 DEF BeginFile, disk, memory, outside
<1>7. CASE \E f \in Files : IndexFile(f)
  BY <1>0, <1>7 DEF IndexFile, disk, memory, outside
<1>8. CASE \E f \in Files : FailFile(f)
  BY <1>0, <1>8 DEF FailFile, disk, memory, outside
<1>9. CASE \E f \in Files : CollectFile(f)
  BY <1>0, <1>9 DEF CollectFile, Finished, disk, memory, outside
<1>10. CASE NoticePause
  BY <1>0, <1>10 DEF NoticePause, Finished, disk, memory, outside
<1>11. CASE PauseIndexing
  BY <1>0, <1>11 DEF PauseIndexing, Return, disk, memory, outside
<1>12. CASE EndPass1
  BY <1>0, <1>12 DEF EndPass1, disk, memory, outside
<1>13. CASE Resolve
  BY <1>0, <1>13 DEF Resolve, disk, memory, outside
<1>14. CASE SaveChunks
  BY <1>0, <1>14 DEF SaveChunks, disk, memory, outside
<1>15. CASE NothingToEmbed
  BY <1>0, <1>15 DEF NothingToEmbed, disk, memory, outside
<1>16. CASE RefuseInit
  BY <1>0, <1>16 DEF RefuseInit, Return, disk, memory, outside
<1>17. CASE StartEmbedder
  BY <1>0, <1>17 DEF StartEmbedder, StartIndex, disk, memory, outside
<1>18. CASE FallBack
  BY <1>0, <1>18 DEF FallBack, disk, memory, outside
<1>19. CASE SkipChunk
  BY <1>0, <1>19 DEF SkipChunk, Embedding, Existing, NextChunk, RowAfter, disk, memory, outside
<1>20. CASE StoreChunk
  BY <1>0, <1>20 DEF StoreChunk, Embedding, Existing, NextChunk, RowAfter, disk, memory, outside
<1>21. CASE FailChunk
  BY <1>0, <1>21 DEF FailChunk, Embedding, Existing, NextChunk, RowAfter, disk, memory, outside
<1>22. CASE OutOfMemory
  BY <1>0, <1>22 DEF OutOfMemory, Embedding, Existing, NextChunk, RowAfter, disk, memory, outside
<1>23. CASE SaveRest
  BY <1>0, <1>23 DEF SaveRest, disk, memory, outside
<1>24. CASE EndEmbedding
  BY <1>0, <1>24 DEF EndEmbedding, disk, memory, outside
<1>25. CASE FallbackChunk
  BY <1>0, <1>25 DEF FallbackChunk, disk, memory, outside
<1>26. CASE EndFallback
  BY <1>0, <1>26 DEF EndFallback, disk, memory, outside
<1>27. CASE RecordFailures
  BY <1>0, <1>27 DEF RecordFailures, disk, memory, outside
<1>28. CASE ClearPending
  BY <1>0, <1>28 DEF ClearPending, disk, memory, outside
<1>29. CASE MarkReady
  BY <1>0, <1>29 DEF MarkReady, ValidNext, disk, memory, outside
<1>30. CASE RefuseReady
  BY <1>0, <1>30 DEF RefuseReady, Return, ValidNext, disk, memory, outside
<1>31. CASE ClearProgress
  BY <1>0, <1>31 DEF ClearProgress, Return, NoRow, disk, memory, outside
<1>32. CASE ClearPause
  BY <1>0, <1>32 DEF ClearPause, disk, memory, outside
<1>33. CASE UNCHANGED vars
  BY <1>0, <1>33 DEF vars, disk, memory, outside
<1> QED
  BY <1>0, <1>1, <1>2, <1>3, <1>4, <1>5, <1>6, <1>7, <1>8, <1>9, <1>10, <1>11, <1>12, <1>13, <1>14,
      <1>15, <1>16, <1>17, <1>18, <1>19, <1>20, <1>21, <1>22, <1>23, <1>24, <1>25, <1>26, <1>27,
      <1>28, <1>29, <1>30, <1>31, <1>32, <1>33
  DEF Next, RunStep, FileStep, ChunkStep, Disturbance, Ended

LEMMA StepLinks ==
  ASSUME ListsOK, ScalarsOK, Places, Healthy, FullRunLinks, Next \/ UNCHANGED vars
  PROVE  FullRunLinks'
<1> SUFFICES ASSUME interrupts' = 0 PROVE FullRunLinks'
  BY DEF FullRunLinks
<1>0. interrupts = 0 /\ (Disturbance => ClearPause)
  BY Undisturbed
<1> USE DEF Places, Early, Late, Running, ScalarsOK, Healthy, FullRunLinks, Linked, Completed
<1>1. CASE \E again \in BOOLEAN : Start(again)
  BY <1>0, <1>1 DEF Start, ValidNext, disk, memory, outside
<1>2. CASE DiscoverAll
  BY <1>0, <1>2 DEF DiscoverAll, Queue, disk, memory, outside
<1>3. CASE DiscoverRemaining
  BY <1>0, <1>3 DEF DiscoverRemaining, Queue, disk, memory, outside
<1>4. CASE AlreadyIndexed
  BY <1>0, <1>4 DEF AlreadyIndexed, Return, disk, memory, outside
<1>5. CASE Regenerate
  BY <1>0, <1>5 DEF Regenerate, RegenerateChunks, Return, disk, memory, outside
<1>6. CASE \E f \in Files : BeginFile(f)
  BY <1>0, <1>6 DEF BeginFile, disk, memory, outside
<1>7. CASE \E f \in Files : IndexFile(f)
  BY <1>0, <1>7 DEF IndexFile, disk, memory, outside
<1>8. CASE \E f \in Files : FailFile(f)
  BY <1>0, <1>8 DEF FailFile, disk, memory, outside
<1>9. CASE \E f \in Files : CollectFile(f)
  BY <1>0, <1>9 DEF CollectFile, Finished, disk, memory, outside
<1>10. CASE NoticePause
  BY <1>0, <1>10 DEF NoticePause, Finished, disk, memory, outside
<1>11. CASE PauseIndexing
  BY <1>0, <1>11 DEF PauseIndexing, Return, disk, memory, outside
<1>12. CASE EndPass1
  BY <1>0, <1>12 DEF EndPass1, disk, memory, outside
<1>13. CASE Resolve
  BY <1>0, <1>13 DEF Resolve, disk, memory, outside
<1>14. CASE SaveChunks
  BY <1>0, <1>14 DEF SaveChunks, disk, memory, outside
<1>15. CASE NothingToEmbed
  BY <1>0, <1>15 DEF NothingToEmbed, disk, memory, outside
<1>16. CASE RefuseInit
  BY <1>0, <1>16 DEF RefuseInit, Return, disk, memory, outside
<1>17. CASE StartEmbedder
  BY <1>0, <1>17 DEF StartEmbedder, StartIndex, disk, memory, outside
<1>18. CASE FallBack
  BY <1>0, <1>18 DEF FallBack, disk, memory, outside
<1>19. CASE SkipChunk
  BY <1>0, <1>19 DEF SkipChunk, Embedding, Existing, NextChunk, RowAfter, disk, memory, outside
<1>20. CASE StoreChunk
  BY <1>0, <1>20 DEF StoreChunk, Embedding, Existing, NextChunk, RowAfter, disk, memory, outside
<1>21. CASE FailChunk
  BY <1>0, <1>21 DEF FailChunk, Embedding, Existing, NextChunk, RowAfter, disk, memory, outside
<1>22. CASE OutOfMemory
  BY <1>0, <1>22 DEF OutOfMemory, Embedding, Existing, NextChunk, RowAfter, disk, memory, outside
<1>23. CASE SaveRest
  BY <1>0, <1>23 DEF SaveRest, disk, memory, outside
<1>24. CASE EndEmbedding
  BY <1>0, <1>24 DEF EndEmbedding, disk, memory, outside
<1>25. CASE FallbackChunk
  BY <1>0, <1>25 DEF FallbackChunk, disk, memory, outside
<1>26. CASE EndFallback
  BY <1>0, <1>26 DEF EndFallback, disk, memory, outside
<1>27. CASE RecordFailures
  BY <1>0, <1>27 DEF RecordFailures, disk, memory, outside
<1>28. CASE ClearPending
  BY <1>0, <1>28 DEF ClearPending, disk, memory, outside
<1>29. CASE MarkReady
  BY <1>0, <1>29 DEF MarkReady, ValidNext, disk, memory, outside
<1>30. CASE RefuseReady
  BY <1>0, <1>30 DEF RefuseReady, Return, ValidNext, disk, memory, outside
<1>31. CASE ClearProgress
  BY <1>0, <1>31 DEF ClearProgress, Return, NoRow, disk, memory, outside
<1>32. CASE ClearPause
  BY <1>0, <1>32 DEF ClearPause, disk, memory, outside
<1>33. CASE UNCHANGED vars
  BY <1>0, <1>33 DEF vars, disk, memory, outside
<1> QED
  BY <1>0, <1>1, <1>2, <1>3, <1>4, <1>5, <1>6, <1>7, <1>8, <1>9, <1>10, <1>11, <1>12, <1>13, <1>14,
      <1>15, <1>16, <1>17, <1>18, <1>19, <1>20, <1>21, <1>22, <1>23, <1>24, <1>25, <1>26, <1>27,
      <1>28, <1>29, <1>30, <1>31, <1>32, <1>33
  DEF Next, RunStep, FileStep, ChunkStep, Disturbance, Ended

\* A chunk that a step of the loop takes from what is ahead is the only one.
LEMMA DueNext ==
  ASSUME ListsOK, ScalarsOK, at < Len(work), work' = work, at' = at + 1
  PROVE  Due \subseteq Due' \cup {Chunk}
<1> DEFINE m == Len(work)
<1>1. m \in Nat /\ at \in Nat
  BY ListDomain DEF ListsOK, ScalarsOK
<1> HIDE DEF m
<1>2. \A i \in at + 1 .. m : i = at + 1 \/ i \in (at + 1) + 1 .. m
  BY <1>1
<1> QED
  BY <1>2 DEF Due, Chunk, m

LEMMA NothingAhead ==
  ASSUME ListsOK, ScalarsOK, at >= Len(work)
  PROVE  Due = {}
<1> DEFINE m == Len(work)
<1>1. m \in Nat /\ at \in Nat
  BY ListDomain DEF ListsOK, ScalarsOK
<1> HIDE DEF m
<1>2. at >= m => at + 1 .. m = {}
  BY <1>1
<1> QED
  BY <1>2 DEF Due, m

\* A chunk of a completed file stays accounted for when no chunk is let go.
LEMMA HeldOn ==
  ASSUME Covered, interrupts = 0, interrupts' = 0, Held \subseteq Held', Completed' = Completed,
         \A f \in Completed : file[f] = "indexed" => file'[f] = "indexed",
         pc' \notin {"embedded", "finalizing", "readying", "cleaning"}
  PROVE  Covered'
  BY DEF Covered

\* When a call is over what counts is what is accounted for.
LEMMA Closing ==
  ASSUME Covered, Places, interrupts = 0, interrupts' = 0, Return,
         UNCHANGED <<fileIndex, vectors, failed>>,
         pc \in {"discovering", "readying", "cleaning"}
  PROVE  Covered'
<1>1. Accounted' = Accounted /\ Completed' = Completed
  BY DEF Accounted, Completed
<1>2. \A f \in Completed : ToSet(ChunksOf(f)) \subseteq Accounted
  <2>1. CASE pc = "discovering"
    <3>1. /\ work = <<>> /\ at = 0 /\ unsaved = {} /\ \A f \in Files : file[f] = "idle"
      BY <2>1 DEF Places, Early
    <3>2. Due = {}
      BY <3>1, EmptyList DEF Due
    <3> QED
      BY <3>1, <3>2 DEF Covered, Held, Completed
  <2>2. CASE pc \in {"readying", "cleaning"}
    BY <2>2 DEF Covered, OfCompleted
  <2> QED
    BY <2>1, <2>2
<1>3. pc' = "idle" /\ Accounted' \subseteq Held'
  BY DEF Return, Held
<1> QED
  BY <1>1, <1>2, <1>3 DEF Covered

LEMMA StepCovered ==
  ASSUME ListsOK, ScalarsOK, ListsOK', ScalarsOK', Places, Healthy, Covered, Next \/ UNCHANGED vars
  PROVE  Covered'
<1> SUFFICES ASSUME interrupts' = 0 PROVE Covered'
  BY DEF Covered
<1>0. interrupts = 0 /\ (Disturbance => ClearPause)
  BY Undisturbed
<1>a. ASSUME UNCHANGED <<fileIndex, vectors, failed, unsaved, work, at>>
      PROVE  /\ Completed' = Completed /\ Accounted' = Accounted /\ Due' = Due
             /\ Held' = Held /\ OfCompleted' = OfCompleted
  BY <1>a DEF Completed, Accounted, Due, Held, OfCompleted
\* The chunk at hand is embedded, or is to be recorded, or was embedded before.
<1>b. ASSUME pc \in {"embedding", "fallback"}, at < Len(work), work' = work, at' = at + 1,
             UNCHANGED <<fileIndex, file, failed>>,
             vectors \subseteq vectors', unsaved \subseteq unsaved', Chunk \in vectors' \cup unsaved',
             pc' \in {"embedding", "checkpoint", "fallback"}
      PROVE  Covered'
  <2>1. Due \subseteq Due' \cup {Chunk}
    BY <1>b, DueNext
  <2>2. Held \subseteq Held'
    BY <1>b, <2>1 DEF Held, Accounted
  <2>3. Completed' = Completed
    BY <1>b DEF Completed
  <2> QED
    BY <1>0, <1>b, <2>2, <2>3, HeldOn
<1>c. ASSUME pc = "embedding", at < Len(work), NextChunk, vectors \subseteq vectors',
             unsaved \subseteq unsaved', Chunk \in vectors' \cup unsaved'
      PROVE  Covered'
  BY <1>b, <1>c DEF NextChunk
<1>1. ASSUME NEW again \in BOOLEAN, Start(again) PROVE Covered'
  <2>1. /\ pc = "idle" /\ work = <<>> /\ pc' \in {"starting", "discovering"}
        /\ UNCHANGED <<fileIndex, file, vectors, failed, unsaved>>
    BY <1>1 DEF Start, Places
  <2>2. Due = {}
    BY <2>1, EmptyList DEF Due, Places, Early
  <2>3. Held \subseteq Held' /\ Completed' = Completed
    BY <2>1, <2>2 DEF Held, Accounted, Completed
  <2> QED
    BY <1>0, <2>1, <2>3, HeldOn
<1>2. CASE DiscoverAll
  <2>1. Completed' = {} /\ pc' = "pass1"
    BY <1>2 DEF DiscoverAll, Completed
  <2> QED
    BY <2>1 DEF Covered
<1>3. CASE DiscoverRemaining
  <2>1. /\ pc' = "pass1" /\ UNCHANGED <<fileIndex, vectors, failed, unsaved, work, at>>
        /\ \A f \in Files : file[f] = "idle"
    BY <1>3 DEF DiscoverRemaining, disk, Places
  <2> QED
    BY <1>0, <1>a, <2>1, HeldOn DEF Completed
<1>4. CASE AlreadyIndexed
  BY <1>0, <1>4, Closing DEF AlreadyIndexed
<1>5. CASE Regenerate
  <2>1. CASE Return
    BY <1>0, <1>5, <2>1, Closing DEF Regenerate, disk
  <2>2. CASE RegenerateChunks /\ pc' = "starting" /\ UNCHANGED <<file, at, skips, strikes, unsaved>>
    <3>1. work = <<>> /\ at = 0 /\ UNCHANGED <<fileIndex, vectors, failed>>
      BY <1>5 DEF Regenerate, Places, Early, disk
    <3>2. Due = {}
      BY <3>1, EmptyList DEF Due
    <3>3. Held \subseteq Held' /\ Completed' = Completed
      BY <2>2, <3>1, <3>2 DEF Held, Accounted, Completed
    <3> QED
      BY <1>0, <2>2, <3>3, HeldOn
  <2> QED
    BY <1>5, <2>1, <2>2 DEF Regenerate
<1>6. ASSUME NEW f \in Files, BeginFile(f) PROVE Covered'
  <2>1. /\ pc' = "pass1" /\ UNCHANGED <<fileIndex, vectors, failed, unsaved, work, at>>
        /\ file[f] = "queued" /\ \A g \in Files \ {f} : file'[g] = file[g]
    BY <1>6 DEF BeginFile, disk, ScalarsOK
  <2> QED
    BY <1>0, <1>a, <2>1, HeldOn DEF Completed
<1>7. ASSUME NEW f \in Files, IndexFile(f) PROVE Covered'
  <2>1. /\ pc \in {"pass1", "stopping"} /\ pc' = pc
        /\ UNCHANGED <<vectors, failed, unsaved, work, at>>
        /\ file'[f] = "indexed" /\ \A g \in Files \ {f} : file'[g] = file[g]
        /\ Completed' \subseteq Completed \cup {f}
    BY <1>7 DEF IndexFile, Places, ScalarsOK, Completed
  <2>2. Held' = Held
    BY <2>1 DEF Held, Accounted, Due
  <2> QED
    BY <1>0, <2>1, <2>2 DEF Covered, Completed
<1>8. ASSUME NEW f \in Files, FailFile(f) PROVE Covered'
  <2>1. /\ pc \in {"pass1", "stopping"} /\ pc' = pc
        /\ UNCHANGED <<vectors, failed, unsaved, work, at>>
        /\ \A g \in Files \ {f} : file'[g] = file[g]
        /\ Completed' \subseteq Completed \ {f}
    BY <1>8 DEF FailFile, Places, ScalarsOK, Completed
  <2>2. Held' = Held
    BY <2>1 DEF Held, Accounted, Due
  <2> QED
    BY <1>0, <2>1, <2>2 DEF Covered, Completed
<1>9. ASSUME NEW f \in Files, CollectFile(f) PROVE Covered'
  <2>1. /\ pc = "pass1" /\ pc' = "pass1" /\ at = 0 /\ at' = 0
        /\ UNCHANGED <<fileIndex, vectors, failed, unsaved>>
        /\ \A g \in Files \ {f} : file'[g] = file[g]
    BY <1>9 DEF CollectFile, Places, Early, ScalarsOK, disk
  <2>2. Due = ToSet(work) /\ Completed' = Completed /\ Accounted' = Accounted
    BY <2>1, DueAtStart DEF Completed, Accounted
  <2>3. Due' = ToSet(work')
    <3>1. DOMAIN work' = 1..Len(work') /\ at' + 1 = 1
      BY <2>1, ListDomain DEF ListsOK
    <3> QED
      BY <3>1 DEF Due, ToSet
  <2>4. CASE file[f] = "indexed"
    <3>1. work' = work \o ChunksOf(f)
      BY <1>9, <2>4 DEF CollectFile
    <3>2. \A i \in DOMAIN work : work[i][1] # f
      BY <2>1, <2>4 DEF Places
    <3>3. ToSet(work') = ToSet(work) \cup ToSet(ChunksOf(f))
      BY <3>1, <3>2, AddedToList DEF ListsOK
    <3>4. Held \subseteq Held' /\ ToSet(ChunksOf(f)) \subseteq Held'
      BY <2>1, <2>2, <2>3, <3>3 DEF Held
    <3> QED
      BY <1>0, <2>1, <2>2, <3>4 DEF Covered, Completed
  <2>5. CASE file[f] # "indexed"
    <3>1. work' = work
      BY <1>9, <2>5 DEF CollectFile
    <3> QED
      BY <1>0, <1>a, <2>1, <2>5, <3>1, HeldOn DEF Completed
  <2> QED
    BY <2>4, <2>5
<1>10. CASE NoticePause
  BY <1>0, <1>10 DEF NoticePause, Healthy
<1>11. CASE PauseIndexing
  BY <1>0, <1>11 DEF PauseIndexing, Healthy
<1>12. CASE EndPass1
  <2>1. /\ pc' \notin {"embedded", "finalizing", "readying", "cleaning"}
        /\ UNCHANGED <<fileIndex, file, vectors, failed, unsaved, work, at>>
    BY <1>12 DEF EndPass1, disk, memory
  <2> QED
    BY <1>0, <1>a, <2>1, HeldOn
<1>13. CASE Resolve
  <2>1. /\ pc' \notin {"embedded", "finalizing", "readying", "cleaning"}
        /\ UNCHANGED <<fileIndex, file, vectors, failed, unsaved, work, at>>
    BY <1>13 DEF Resolve, memory
  <2> QED
    BY <1>0, <1>a, <2>1, HeldOn
<1>14. CASE SaveChunks
  <2>1. /\ pc' \notin {"embedded", "finalizing", "readying", "cleaning"}
        /\ UNCHANGED <<fileIndex, file, vectors, failed, unsaved, work, at>>
    BY <1>14 DEF SaveChunks, memory
  <2> QED
    BY <1>0, <1>a, <2>1, HeldOn
<1>15. CASE NothingToEmbed
  <2>1. /\ pc = "starting" /\ pc' = "finalizing" /\ work = <<>> /\ at = 0 /\ unsaved = {}
        /\ UNCHANGED <<fileIndex, file, vectors, failed, unsaved, work, at>>
        /\ \A f \in Files : file[f] # "indexed"
    BY <1>15 DEF NothingToEmbed, disk, memory, Places, Early
  <2>2. Due = {}
    BY <2>1, EmptyList DEF Due
  <2>3. OfCompleted \subseteq Accounted
    BY <1>0, <2>1, <2>2 DEF Covered, Held, OfCompleted, Completed
  <2> QED
    BY <1>0, <1>a, <2>1, <2>3 DEF Covered
<1>16. CASE RefuseInit
  BY <1>0, <1>16 DEF RefuseInit, Healthy, Early
<1>17. CASE StartEmbedder
  <2>1. /\ pc = "starting" /\ pc' = "embedding" /\ at' = StartIndex
        /\ UNCHANGED <<fileIndex, file, vectors, failed, unsaved, work>>
    BY <1>17 DEF StartEmbedder
  <2>2. at' = at
    BY <1>0, <2>1 DEF Healthy, Places, Early, StartIndex
  <2> QED
    BY <1>0, <1>a, <2>1, <2>2, HeldOn
<1>18. CASE FallBack
  <2>1. /\ pc' \notin {"embedded", "finalizing", "readying", "cleaning"}
        /\ UNCHANGED <<fileIndex, file, vectors, failed, unsaved, work, at>>
    BY <1>18 DEF FallBack, memory
  <2> QED
    BY <1>0, <1>a, <2>1, HeldOn
<1>19. CASE SkipChunk
  <2>1. unsaved' = unsaved
    BY <1>19 DEF SkipChunk
  <2> QED
    BY <1>19, <1>c, <2>1 DEF SkipChunk, Embedding, Existing
<1>20. CASE StoreChunk
  BY <1>20, <1>c DEF StoreChunk, Embedding
<1>21. CASE FailChunk
  BY <1>21, <1>c DEF FailChunk, Embedding
<1>22. CASE OutOfMemory
  BY <1>22, <1>c DEF OutOfMemory, Embedding
<1>23. CASE SaveRest
  <2>1. /\ pc' \notin {"embedded", "finalizing", "readying", "cleaning"}
        /\ UNCHANGED <<fileIndex, file, vectors, failed, unsaved, work, at>>
    BY <1>23 DEF SaveRest, memory
  <2> QED
    BY <1>0, <1>a, <2>1, HeldOn
<1>24. CASE EndEmbedding
  <2>1. /\ pc' = "embedded" /\ at >= Len(work)
        /\ UNCHANGED <<fileIndex, file, vectors, failed, unsaved, work, at>>
    BY <1>24 DEF EndEmbedding, memory
  <2>2. Due = {}
    BY <2>1, NothingAhead
  <2> QED
    BY <1>0, <1>a, <2>1, <2>2 DEF Covered
<1>25. CASE FallbackChunk
  BY <1>25, <1>b DEF FallbackChunk
<1>26. CASE EndFallback
  <2>1. /\ pc' = "embedded" /\ at >= Len(work)
        /\ UNCHANGED <<fileIndex, file, vectors, failed, unsaved, work, at>>
    BY <1>26 DEF EndFallback, disk, memory
  <2>2. Due = {}
    BY <2>1, NothingAhead
  <2> QED
    BY <1>0, <1>a, <2>1, <2>2 DEF Covered
<1>27. CASE RecordFailures
  <2>1. /\ pc = "embedded" /\ pc' = "finalizing" /\ failed' = failed \cup unsaved
        /\ UNCHANGED <<fileIndex, file, vectors, unsaved, work, at>>
        /\ \A f \in Files : file[f] # "indexed"
    BY <1>27 DEF RecordFailures, memory, Places
  <2>2. Due = {} /\ Due' = Due /\ Completed' = Completed
    BY <1>0, <2>1 DEF Covered, Due, Completed
  <2>3. Held \subseteq Accounted' /\ Accounted' \subseteq Held'
    BY <2>1, <2>2 DEF Held, Accounted
  <2>4. \A f \in Completed : ToSet(ChunksOf(f)) \subseteq Accounted'
    BY <1>0, <2>1, <2>3 DEF Covered, Completed
  <2>5. OfCompleted' \subseteq Accounted'
    BY <2>2, <2>4 DEF OfCompleted
  <2> QED
    BY <2>1, <2>2, <2>3, <2>4, <2>5 DEF Covered
<1>28. CASE ClearPending
  <2>1. /\ pc = "finalizing" /\ pc' = "readying"
        /\ UNCHANGED <<fileIndex, file, vectors, failed, unsaved, work, at>>
    BY <1>28 DEF ClearPending, memory
  <2> QED
    BY <1>0, <1>a, <2>1 DEF Covered
<1>29. CASE MarkReady
  <2>1. /\ pc = "readying" /\ pc' = "cleaning"
        /\ UNCHANGED <<fileIndex, file, vectors, failed, unsaved, work, at>>
    BY <1>29 DEF MarkReady, memory
  <2> QED
    BY <1>0, <1>a, <2>1 DEF Covered
<1>30. CASE RefuseReady
  BY <1>0, <1>30, Closing DEF RefuseReady, disk
<1>31. CASE ClearProgress
  BY <1>0, <1>31, Closing DEF ClearProgress
<1>32. CASE ClearPause
  BY <1>0, <1>32 DEF ClearPause, Healthy
<1>33. CASE UNCHANGED vars
  <2>1. UNCHANGED <<pc, fileIndex, file, vectors, failed, unsaved, work, at>>
    BY <1>33 DEF vars, disk, memory
  <2> QED
    BY <1>0, <1>a, <2>1 DEF Covered
<1> QED
  BY <1>0, <1>1, <1>2, <1>3, <1>4, <1>5, <1>6, <1>7, <1>8, <1>9, <1>10, <1>11, <1>12, <1>13, <1>14,
      <1>15, <1>16, <1>17, <1>18, <1>19, <1>20, <1>21, <1>22, <1>23, <1>24, <1>25, <1>26, <1>27,
      <1>28, <1>29, <1>30, <1>31, <1>32, <1>33
  DEF Next, RunStep, FileStep, ChunkStep, Disturbance, Ended

-----------------------------------------------------------------------------
(***************************************************************************)
(* The theorems.                                                              *)
(***************************************************************************)

LEMMA IInvInit == Init => IInv
<1> SUFFICES ASSUME Init PROVE IInv
  OBVIOUS
<1>1. Completed = {} /\ Due = {}
  BY EmptyList DEF Init, Completed, Due
<1>2. ListsOK
  BY EmptyList DEF Init, ListsOK
<1>3. ScalarsOK
  <2>1. NoRow \in [status : {"none", "in_progress", "paused", "error", "completed"}, idx : Nat]
    BY DEF NoRow
  <2>2. /\ [f \in Files |-> "none"] \in [Files -> {"none", "completed", "failed"}]
        /\ [f \in Files |-> "idle"]
             \in [Files -> {"idle", "queued", "running", "refused", "indexed", "failed", "collected"}]
    OBVIOUS
  <2>3. 0 \in 0..MaxStarts /\ 0 \in 0..MaxInterrupts
    BY IndexerAssumption
  <2> QED
    BY <2>1, <2>2, <2>3 DEF Init, ScalarsOK, Statuses
<1>4. Places /\ Tried /\ Persisted
  BY DEF Init, Places, Tried, Persisted, Early, Late, Running
<1>5. Healthy /\ Covered /\ FullRunLinks
  BY <1>1 DEF Init, Healthy, Covered, FullRunLinks, Late, Running, NoRow
<1> QED
  BY <1>2, <1>3, <1>4, <1>5, TypeParts DEF IInv

LEMMA IInvStep == IInv /\ [Next]_vars => IInv'
<1> SUFFICES ASSUME IInv, Next \/ UNCHANGED vars PROVE IInv'
  OBVIOUS
<1>1. ListsOK /\ ScalarsOK /\ Places /\ Tried /\ Persisted /\ Healthy /\ Covered /\ FullRunLinks
  BY TypeParts DEF IInv
<1>2. ListsOK' /\ ScalarsOK' /\ TypeOK'
  <2>1. ListsOK' /\ ScalarsOK'
    BY <1>1, StepLists, StepScalars
  <2> QED
    BY <2>1 DEF TypeOK, ListsOK, ScalarsOK
<1>3. Places' /\ Tried' /\ Persisted'
  BY <1>1, <1>2, StepPlaces, StepTried, StepPersisted
<1>4. Healthy' /\ Covered' /\ FullRunLinks'
  BY <1>1, <1>2, StepHealthy, StepCovered, StepLinks
<1> QED
  BY <1>2, <1>3, <1>4 DEF IInv

LEMMA Invariance == Spec => []IInv
  BY IInvInit, IInvStep, PTL DEF Spec

\* While chunks are embedded, by the subprocess or in the main process, what is ahead
\* of the loop is among the pending chunks or can be regenerated, whatever interrupts.
THEOREM IndexerSound == Spec => []IndexerInv
<1>1. IInv => IndexerInv
  <2> SUFFICES ASSUME IInv PROVE RestIsPersisted
    BY DEF IndexerInv, IInv
  <2> QED
    BY DEF IInv, Persisted, Due, RestIsPersisted
<1> QED
  BY <1>1, Invariance, PTL

\* A ready repository leaves no file out, and after calls that nothing has interrupted it
\* has every chunk of its completed files, and after a full run every link between them.
THEOREM ReadyTruthful == Spec => []ReadyIsTruthful
<1>1. IInv => ReadyIsTruthful
  <2> SUFFICES ASSUME IInv PROVE ReadyIsTruthful
    OBVIOUS
  <2>1. ReadyMeansTried
    BY DEF IInv, Tried, Marked, ReadyMeansTried
  <2>2. ASSUME status = "ready", interrupts = 0
        PROVE  /\ OfCompleted \subseteq Accounted
               /\ ~resume => References \cap (Completed \X Completed) \subseteq edges
    <3>1. ScalarsOK
      BY TypeParts DEF IInv
    <3>2. pc \in {"idle", "cleaning"}
      BY <2>2, <3>1 DEF IInv, Healthy, ScalarsOK
    <3>3. CASE pc = "cleaning"
      BY <2>2, <3>3 DEF IInv, Covered, FullRunLinks, Linked
    <3>4. CASE pc = "idle"
      <4>1. /\ work = <<>> /\ at = 0 /\ unsaved = {} /\ \A f \in Files : file[f] = "idle"
        BY <3>4 DEF IInv, Places, Early
      <4>2. Due = {}
        BY <4>1, EmptyList DEF Due
      <4>3. OfCompleted \subseteq Accounted
        BY <2>2, <4>1, <4>2 DEF IInv, Covered, Held, OfCompleted, Completed
      <4> QED
        BY <2>2, <4>3 DEF IInv, FullRunLinks, Linked
    <3> QED
      BY <3>2, <3>3, <3>4
  <2> QED
    BY <2>1, <2>2 DEF ReadyIsTruthful, UninterruptedIsComplete
<1> QED
  BY <1>1, Invariance, PTL

=============================================================================
