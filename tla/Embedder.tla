------------------------------ MODULE Embedder ------------------------------
(***************************************************************************)
(* The embedding subprocess: SubprocessEmbedder and _embedding_worker          *)
(* (graph_kb/processing/subprocess_embedder.py), driven by the chunk loop of   *)
(* IndexerService._store_chunks_with_subprocess_embeddings.                    *)
(*                                                                          *)
(* The loop puts one chunk into the task queue and takes one result from the   *)
(* result queue, whichever it is, for as long as the timeout lasts.  The       *)
(* worker may be slow, may fail, and may be killed at any moment.  Chunks are   *)
(* the numbers 1..N, in the order of the loop; those it skips, because their   *)
(* vectors exist, have none.                                                   *)
(***************************************************************************)
EXTENDS Integers, Sequences

CONSTANTS
  N,                \* the number of chunks
  MAX_OOM_RETRIES   \* 3 in the code

ASSUME EmbedderAssumption == N \in Nat /\ MAX_OOM_RETRIES \in Nat \ {0}

VARIABLES
  \* The main process.
  pc,          \* where the loop is
  caller,      \* who called start(): the loop first, embed_single, or the loop after a kill
  at,          \* the chunk in hand
  oom_count,
  stored,      \* the chunk whose embedding is stored for each chunk, or 0
  \* The subprocess and its queues.
  process,     \* the worker
  encoding,    \* the chunk it works on, or 0
  tasks,       \* the task queue
  signal,      \* "ready" or "error", while it is the head of the result queue
  results,     \* the results behind it
  timeouts     \* timeouts of embed_single since the worker was started

mainVars   == <<pc, caller, at, oom_count, stored>>
workerVars == <<process, encoding, tasks, signal, results>>
vars       == <<mainVars, workerVars, timeouts>>

Chunk   == 1..N
Result  == [chunk : Chunk, success : BOOLEAN]
Over    == {"done", "paused", "fallback"}
Alive   == process \in {"loading", "idle", "encoding"}

TypeOK ==
  /\ pc \in {"starting", "asking", "waiting", "killed"} \cup Over
  /\ caller \in {"loop", "embed_single", "restart"}
  /\ at \in 1..(N + 1)
  /\ pc \in {"waiting", "killed"} \/ (pc = "starting" /\ caller # "loop") => at \in Chunk
  /\ oom_count \in 0..MAX_OOM_RETRIES
  /\ pc \notin {"killed", "paused"} => oom_count < MAX_OOM_RETRIES
  /\ stored \in [Chunk -> 0..N]
  /\ process \in {"none", "loading", "idle", "encoding", "killed", "exited"}
  /\ encoding \in 0..N /\ (process = "encoding" => encoding \in Chunk)
  /\ tasks \in Seq(Chunk) /\ results \in Seq(Result)
  /\ signal \in {"none", "ready", "error"}
  /\ timeouts \in Nat

-----------------------------------------------------------------------------
(***************************************************************************)
(* start() and stop().                                                        *)
(***************************************************************************)

\* Mutant: the queues of the dead process are used again.
LaunchOnOldQueues ==
  /\ process' = "loading" /\ encoding' = 0 /\ signal' = "none" /\ timeouts' = 0
  /\ UNCHANGED <<tasks, results>>

\* A new process with new queues.
Launch ==
  /\ process' = "loading" /\ encoding' = 0
  /\ tasks' = <<>> /\ signal' = "none" /\ results' = <<>> /\ timeouts' = 0

\* stop() ends with kill(): the process is gone, and so are the queues.
Stop ==
  /\ process' = "none" /\ encoding' = 0
  /\ tasks' = <<>> /\ signal' = "none" /\ results' = <<>> /\ timeouts' = 0

Init ==
  /\ pc = "starting" /\ caller = "loop" /\ at = 1 /\ oom_count = 0
  /\ stored = [c \in Chunk |-> 0]
  /\ process = "loading" /\ encoding = 0
  /\ tasks = <<>> /\ signal = "none" /\ results = <<>> /\ timeouts = 0

\* The loop goes on with the next chunk.
Advance == at' = at + 1 /\ pc' = "asking" /\ UNCHANGED caller

\* It has come to its end: the worker is stopped, whatever it does.
Finish ==
  /\ pc = "asking" /\ at > N
  /\ pc' = "done" /\ Stop
  /\ UNCHANGED <<caller, at, oom_count, stored>>

\* embed_single behind its look at the process: the task is in the queue.
Put == tasks' = Append(tasks, at) /\ pc' = "waiting"

\* start() takes "ready" from the result queue and returns.
Started ==
  /\ pc = "starting" /\ signal = "ready" /\ signal' = "none"
  /\ \/ caller = "loop" /\ pc' = "asking" /\ UNCHANGED <<caller, at, tasks>>
     \/ caller = "embed_single" /\ Put /\ UNCHANGED <<caller, at>>
     \/ caller = "restart" /\ Advance /\ UNCHANGED tasks
  /\ UNCHANGED <<oom_count, stored, process, encoding, results, timeouts>>

\* It takes "error", or nothing for 60 seconds: the loop falls back to the main
\* process, embed_single reports an error, the restart pauses the run.
NotStarted ==
  /\ pc = "starting" /\ signal # "ready"
  /\ Stop
  /\ \/ caller = "loop" /\ pc' = "fallback" /\ UNCHANGED <<caller, at>>
     \/ caller = "embed_single" /\ Advance
     \/ caller = "restart" /\ pc' = "paused" /\ UNCHANGED <<caller, at>>
  /\ UNCHANGED <<oom_count, stored>>

-----------------------------------------------------------------------------
(***************************************************************************)
(* embed_single() and what the loop makes of its answer.                       *)
(***************************************************************************)

Ask ==
  /\ pc = "asking" /\ at \in Chunk /\ Alive
  /\ Put
  /\ UNCHANGED <<caller, at, oom_count, stored, process, encoding, signal, results, timeouts>>

\* The process was found dead: it is started again first.
AskDead ==
  /\ pc = "asking" /\ at \in Chunk /\ ~Alive
  /\ Launch /\ pc' = "starting" /\ caller' = "embed_single"
  /\ UNCHANGED <<at, oom_count, stored>>

\* Mutant: the head is looked at and stays.
ReceivePeeks ==
  /\ pc = "waiting" /\ results # <<>> /\ Head(results).success
  /\ stored' = [stored EXCEPT ![at] = Head(results).chunk] /\ oom_count' = 0
  /\ Advance
  /\ UNCHANGED <<process, encoding, tasks, signal, results, timeouts>>

\* The head of the result queue is taken for the answer.  A vector of the wrong
\* dimension is not stored, and the store may fail.
Receive ==
  /\ pc = "waiting" /\ results # <<>>
  /\ results' = Tail(results)
  /\ IF Head(results).success
     THEN stored' \in {stored, [stored EXCEPT ![at] = Head(results).chunk]} /\ oom_count' = 0
     ELSE UNCHANGED <<stored, oom_count>>
  /\ Advance
  /\ UNCHANGED <<process, encoding, tasks, signal, timeouts>>

\* Nothing came in time and the process lives: the chunk failed.
TimeOut ==
  /\ pc = "waiting" /\ results = <<>> /\ Alive
  /\ timeouts' = timeouts + 1 /\ Advance
  /\ UNCHANGED <<oom_count, stored, workerVars>>

\* Nothing came in time because the process has ended by itself.
FindExited ==
  /\ pc = "waiting" /\ results = <<>> /\ process = "exited"
  /\ Advance
  /\ UNCHANGED <<oom_count, stored, workerVars, timeouts>>

\* Nothing came in time because the process was killed for its memory.
FindKilled ==
  /\ pc = "waiting" /\ results = <<>> /\ process = "killed"
  /\ oom_count' = oom_count + 1 /\ pc' = "killed"
  /\ UNCHANGED <<caller, at, stored, workerVars, timeouts>>

\* Mutant: the chunk that was in hand is tried again, and the kill is forgiven.
RestartForgives ==
  /\ pc = "killed" /\ oom_count < MAX_OOM_RETRIES
  /\ Launch /\ pc' = "starting" /\ caller' = "embed_single" /\ oom_count' = 0
  /\ UNCHANGED <<at, stored>>

\* It was killed once more: the loop starts it again and leaves the chunk behind.
Restart ==
  /\ pc = "killed" /\ oom_count < MAX_OOM_RETRIES
  /\ Launch /\ pc' = "starting" /\ caller' = "restart"
  /\ UNCHANGED <<at, oom_count, stored>>

GiveUp ==
  /\ pc = "killed" /\ oom_count >= MAX_OOM_RETRIES
  /\ Stop /\ pc' = "paused"
  /\ UNCHANGED <<caller, at, oom_count, stored>>

-----------------------------------------------------------------------------
(***************************************************************************)
(* _embedding_worker.                                                         *)
(***************************************************************************)
LoadModel ==
  /\ process = "loading"
  /\ \/ signal' = "ready" /\ process' = "idle"
     \/ signal' = "error" /\ process' = "exited"
  /\ UNCHANGED <<mainVars, encoding, tasks, results, timeouts>>

TakeTask ==
  /\ process = "idle" /\ tasks # <<>>
  /\ process' = "encoding" /\ encoding' = Head(tasks) /\ tasks' = Tail(tasks)
  /\ UNCHANGED <<mainVars, signal, results, timeouts>>

\* The model answers, or raises.
Encode ==
  /\ process = "encoding"
  /\ \E success \in BOOLEAN :
       results' = Append(results, [chunk |-> encoding, success |-> success])
  /\ process' = "idle" /\ encoding' = 0
  /\ UNCHANGED <<mainVars, tasks, signal, timeouts>>

\* The system kills it, or it ends otherwise.
Die ==
  /\ Alive
  /\ process' \in {"killed", "exited"} /\ encoding' = 0
  /\ UNCHANGED <<mainVars, tasks, signal, results, timeouts>>

-----------------------------------------------------------------------------
MainStep ==
  \/ Started \/ NotStarted \/ Finish
  \/ Ask \/ AskDead \/ Receive \/ TimeOut \/ FindExited \/ FindKilled \/ Restart \/ GiveUp

WorkerStep == LoadModel \/ TakeTask \/ Encode

\* The loop is over.
Ended == pc \in Over /\ UNCHANGED vars

Next == MainStep \/ WorkerStep \/ Die \/ Ended

Spec == Init /\ [][Next]_vars

\* Every wait of the main process has a timeout; the worker promises nothing.
FairSpec == Spec /\ WF_vars(MainStep)

-----------------------------------------------------------------------------
(***************************************************************************)
(* Properties.                                                                *)
(***************************************************************************)

\* Each timeout of a worker that lives on leaves one result unread, and from
\* then on every answer is that of an earlier chunk: the vector a step stores
\* belongs to the chunk as many places before as there were timeouts since the
\* worker was started, and to the chunk itself when there was none
\* (embed_single, _embedding_worker).
LagIsTimeouts ==
  [][\A c \in Chunk : stored'[c] # stored[c] => stored'[c] = c - timeouts]_vars

\* However late the answers are, and however often the worker is started again,
\* no embedding is stored for two chunks, nor for one before its own.
NoVectorTwice ==
  \A c \in Chunk : stored[c] # 0 =>
    /\ stored[c] <= c
    /\ \A d \in Chunk \ {c} : stored[d] # stored[c]

\* The loop ends, whatever becomes of the worker: it is restarted for a chunk
\* at most once, and given up after MAX_OOM_RETRIES kills without a success.
Terminates == <>(pc \in Over)

\* When the worker lives, answers in time and does not fail, and the store
\* does not either, every chunk gets its own vector.
HealthyEmbeds ==
  /\ [](timeouts = 0 /\ process \notin {"killed", "exited"} /\ pc # "fallback")
  /\ [](pc \in {"asking", "done"} => \A c \in 1..(at - 1) : stored[c] # 0)
  => <>(\A c \in Chunk : stored[c] = c)

\* Both promises about the end of the loop: it comes, and with a healthy worker every chunk
\* has its own vector then.
EmbedderEnds == Terminates /\ HealthyEmbeds

=============================================================================
