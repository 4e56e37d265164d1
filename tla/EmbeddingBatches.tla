-------------------------- MODULE EmbeddingBatches --------------------------
(***************************************************************************)
(* How a list of texts becomes a list of vectors: the two embedding        *)
(* generators of processing/embedding_generator.py, one calling OpenAI and *)
(* one running a local model.  Each has a strict call, which raises when   *)
(* any text fails, and a soft one, which says which texts failed; the      *)
(* OpenAI generator has both again with its batches sent concurrently.     *)
(*                                                                         *)
(* A text is a model value and its vector is the text itself.  A batch is  *)
(* sent, answered, limited (and sent again after a delay) or refused; a    *)
(* soft call then sends its texts one by one.  Truncation and the memory   *)
(* readings are left out: low memory is one of the ways to be refused.     *)
(***************************************************************************)
EXTENDS Naturals, Sequences, FiniteSets, SequencesExt

CONSTANTS
  Texts, EmptyText,   \* the texts, and the one that is blank
  Lists,              \* the lists a caller submits
  BatchTexts,         \* the most texts per request of a strict or concurrent call
  SoftBatchTexts,     \* the same of a soft call
  DeviceBatch,        \* the most texts the local model encodes at a time
  MaxConcurrent,      \* the requests a concurrent call has open
  MaxRetries,         \* the attempts against a rate limit
  CacheSize,          \* the most vectors the cache keeps
  MaxCalls            \* (bound) calls to the generator

ASSUME BatchesAssumption ==
  /\ {BatchTexts, SoftBatchTexts, DeviceBatch, MaxConcurrent, MaxRetries, CacheSize} \subseteq Nat \ {0}
  /\ MaxCalls \in Nat
  /\ \A l \in Lists : l \in Seq(Texts \cup {EmptyText})

VARIABLES
  cached,             \* the texts whose vectors the cache holds, the oldest first
  call,               \* the call under way or last ended
  calls               \* how many calls there were

batchVars == <<cached, call, calls>>

NoVector == "no vector"
StrictKinds == {"strict", "strict concurrent", "strict local"}
SoftKinds == {"soft", "soft concurrent", "soft local"}
ConcurrentKinds == {"strict concurrent", "soft concurrent"}
LocalKinds == {"strict local", "soft local"}

(***************************************************************************)
(* The cache.  It has a length, so an empty cache is false: "if cache" is  *)
(* how every use of it asks whether there is one.                          *)
(***************************************************************************)
CacheUsed == cached # <<>>
Hit(text) == CacheUsed /\ text \in ToSet(cached)
CacheSet(cache, text) ==
  LET evicted == IF Len(cache) >= CacheSize THEN Tail(cache) ELSE cache
  IN  IF text \in ToSet(evicted) THEN evicted ELSE Append(evicted, text)
CacheAll(texts) == IF CacheUsed THEN FoldLeft(CacheSet, cached, texts) ELSE cached

BatchSizeOf(kind, n) ==
  CASE kind = "soft" -> SoftBatchTexts
    [] kind = "soft local" -> DeviceBatch
    [] kind = "strict local" -> n
    [] OTHER -> BatchTexts
\* The places of S, a set of numbers, from the first to the last.
InOrder(S) == CHOOSE s \in [1..Cardinality(S) -> S] : \A j, k \in DOMAIN s : j < k => s[j] < s[k]

Batches(indices, size) ==
  [b \in 1..((Len(indices) + size - 1) \div size) |->
     SubSeq(indices, (b - 1) * size + 1, IF b * size < Len(indices) THEN b * size ELSE Len(indices))]

GeneratorInit ==
  /\ cached = <<>> /\ calls = 0
  /\ call = [kind |-> "none", texts |-> <<>>, batches |-> <<>>, valid |-> 0, at |-> <<>>, tries |-> <<>>,
             got |-> <<>>, failed |-> {}, refused |-> {}, progress |-> 0, outcome |-> "idle"]

\* Blank and cached texts need no request.  A strict call refuses a blank text.
Submit(kind, texts) ==
  /\ call.outcome # "running" /\ calls < MaxCalls
  /\ calls' = calls + 1
  /\ LET blank == {i \in DOMAIN texts : texts[i] = EmptyText}
         hits == {i \in DOMAIN texts : Hit(texts[i])}
         indices == InOrder(DOMAIN texts \ (blank \cup hits))
         batches == IF indices = <<>> THEN <<>>
                    ELSE Batches(indices, BatchSizeOf(kind, Len(indices)))
     IN  call' = [kind |-> kind, texts |-> texts, batches |-> batches, valid |-> Len(indices),
                  at |-> [b \in DOMAIN batches |-> "waiting"],
                  tries |-> [b \in DOMAIN batches |-> 1],
                  got |-> [i \in DOMAIN texts |-> IF i \in hits THEN texts[i] ELSE NoVector],
                  failed |-> blank, refused |-> {},
                  progress |-> Cardinality(blank \cup hits),
                  outcome |-> IF kind \in StrictKinds /\ blank # {} THEN "raised" ELSE "running"]
  /\ UNCHANGED cached

\* Batches are sent in turn, or as many at once as the semaphore lets through.
Asking == {b \in DOMAIN call.batches : call.at[b] = "asked"}
SendBatch(b) ==
  /\ call.outcome = "running" /\ call.at[b] = "waiting"
  /\ IF call.kind \in ConcurrentKinds THEN Cardinality(Asking) < MaxConcurrent
     ELSE \A c \in 1..(b - 1) : call.at[c] = "done"
  /\ call' = [call EXCEPT !.at[b] = "asked"]
  /\ UNCHANGED <<cached, calls>>

RateLimited(b) ==
  /\ call.outcome = "running" /\ call.at[b] = "asked" /\ call.kind \notin LocalKinds
  /\ call.tries[b] < MaxRetries
  /\ call' = [call EXCEPT !.tries[b] = @ + 1]
  /\ UNCHANGED <<cached, calls>>

\* The vectors of a concurrent call go into a list as long as the texts that
\* needed a request, at their places among all the texts: one that lies beyond
\* the end raises, and the whole batch is taken to have failed.
Beyond(b) == \E i \in ToSet(call.batches[b]) : i > call.valid

Stored(b) == [i \in DOMAIN call.got |->
                IF i \in ToSet(call.batches[b]) THEN call.texts[i] ELSE call.got[i]]
TextsOf(b) == [i \in DOMAIN call.batches[b] |-> call.texts[call.batches[b][i]]]

BatchAnswered(b) ==
  /\ call.outcome = "running" /\ call.at[b] = "asked"
  /\ IF call.kind \in ConcurrentKinds /\ Beyond(b)
     THEN call' = [call EXCEPT !.at[b] = "done", !.failed = @ \cup ToSet(call.batches[b]),
                               !.progress = @ + Len(call.batches[b])]
     ELSE call' = [call EXCEPT !.at[b] = "done", !.got = Stored(b),
                               !.progress = @ + Len(call.batches[b])]
  /\ cached' = IF call.kind \in {"soft", "soft local"} THEN CacheAll(TextsOf(b)) ELSE cached
  /\ UNCHANGED calls

\* What a request can come back with, other than vectors.
Refusals == {"rate limit", "too long", "api error", "bad request", "failure"}

\* The model on this machine encodes a batch or fails, and is taken to fail when memory is
\* short; the soft call goes on with the next batch.
LocalFailure(why) == why = "failure"

\* A soft call sends the texts of a refused batch one by one, unless the refusal
\* is about something else than them; a strict one raises, at once when its
\* batches go in turn and after the last one when they do not.
BatchRefused(b, why) ==
  /\ call.outcome = "running" /\ call.at[b] = "asked"
  /\ why = "rate limit" => call.tries[b] = MaxRetries
  /\ call.kind \in LocalKinds => LocalFailure(why)
  /\ LET batch == ToSet(call.batches[b])
         counted == [call EXCEPT !.refused = @ \cup batch, !.failed = @ \cup batch, !.at[b] = "done",
                                 !.progress = @ + Len(call.batches[b])]
     IN  call' = CASE call.kind = "soft" /\ why \in {"rate limit", "too long", "api error"} ->
                        [call EXCEPT !.at[b] = "singly", !.tries[b] = 1]
                   [] call.kind \in {"strict", "strict local"} -> [call EXCEPT !.outcome = "raised"]
                   [] OTHER -> counted
  /\ UNCHANGED <<cached, calls>>

\* Mutant: what failed in a batch that was sent one by one is left out.
SendOneSilent(b, answered) ==
  LET k == call.tries[b]
      i == call.batches[b][k] IN
  /\ call.outcome = "running" /\ call.at[b] = "singly"
  /\ call' = [call EXCEPT !.got[i] = IF answered THEN call.texts[i] ELSE @,
                          !.at[b] = IF k = Len(call.batches[b]) THEN "done" ELSE @,
                          !.tries[b] = k + 1]
  /\ UNCHANGED <<cached, calls>>

\* One text of a refused batch: tries[b] is the next one's place in the batch.
SendOne(b, answered) ==
  LET batch == call.batches[b]
      k == call.tries[b]
      i == batch[k]
      last == k = Len(batch)
      one == IF answered THEN [call EXCEPT !.got[i] = call.texts[i]]
             ELSE [call EXCEPT !.failed = @ \cup {i}, !.refused = @ \cup {i}]
  IN  /\ call.outcome = "running" /\ call.at[b] = "singly"
      /\ call' = IF last THEN [one EXCEPT !.at[b] = "done", !.progress = @ + Len(batch)]
                 ELSE [one EXCEPT !.tries[b] = k + 1]
      /\ cached' = IF last THEN CacheAll(SelectSeq(TextsOf(b), LAMBDA t :
                                   \E j \in ToSet(batch) : call'.texts[j] = t /\ call'.got[j] # NoVector))
                   ELSE cached
      /\ UNCHANGED calls

Return ==
  /\ call.outcome = "running" /\ \A b \in DOMAIN call.batches : call.at[b] = "done"
  /\ call' = [call EXCEPT !.outcome =
                IF call.kind = "strict concurrent" /\ call.failed # {} THEN "raised" ELSE "returned"]
  /\ cached' = IF call'.outcome = "returned" /\ call.kind \notin {"soft", "soft local"}
               THEN CacheAll(SelectSeq(call.texts, LAMBDA t :
                      \E i \in DOMAIN call.texts : call.texts[i] = t /\ call.got[i] # NoVector /\ ~Hit(t)))
               ELSE cached
  /\ UNCHANGED calls

\* The calls: each method is a kind of submission, its batches and its return
\* are those of that kind.
EmbedBatch(texts) == Submit("strict", texts)
EmbedBatchSoft(texts) == Submit("soft", texts)
EmbedBatchConcurrent(texts) == Submit("strict concurrent", texts)
EmbedBatchSoftConcurrent(texts) == Submit("soft concurrent", texts)
LocalEmbedBatch(texts) == Submit("strict local", texts)
LocalEmbedBatchSoft(texts) == Submit("soft local", texts)

GeneratorNext ==
  \/ \E texts \in Lists :
       \/ EmbedBatch(texts) \/ EmbedBatchSoft(texts)
       \/ EmbedBatchConcurrent(texts) \/ EmbedBatchSoftConcurrent(texts)
       \/ LocalEmbedBatch(texts) \/ LocalEmbedBatchSoft(texts)
  \/ \E b \in DOMAIN call.batches :
       \/ SendBatch(b) \/ RateLimited(b) \/ BatchAnswered(b)
       \/ \E why \in Refusals : BatchRefused(b, why)
       \/ \E answered \in BOOLEAN : SendOne(b, answered)
  \/ Return

GeneratorSpec == GeneratorInit /\ [][GeneratorNext]_batchVars

-----------------------------------------------------------------------------
GeneratorTypeOK ==
  /\ cached \in Seq(Texts) /\ Len(cached) <= CacheSize /\ calls \in 0..MaxCalls
  /\ call.outcome \in {"idle", "running", "returned", "raised"}
  /\ call.failed \cup call.refused \subseteq DOMAIN call.texts
  /\ \A i \in DOMAIN call.texts : call.got[i] \in Texts \cup {NoVector}
  /\ \A b \in DOMAIN call.batches : call.at[b] \in {"waiting", "asked", "singly", "done"}

\* A call that returns answers for every text: with the vector of that very text
\* or, a soft call, by naming it as failed, and never both; and its progress has
\* reached the number of texts.  Batches, retries and the second try one by one
\* come in between.
EveryTextAccounted ==
  call.outcome = "returned" =>
    /\ \A i \in DOMAIN call.texts :
         IF i \in call.failed THEN call.kind \in SoftKinds /\ call.got[i] = NoVector
         ELSE call.got[i] = call.texts[i]
    /\ call.progress = Len(call.texts)

\* What a call of the generator answers, as a value of its type and for every text.
GeneratorInv == GeneratorTypeOK /\ EveryTextAccounted

=============================================================================
