----------------------------- MODULE Retrieval ------------------------------
(***************************************************************************)
(* Hybrid retrieval (services/retrieval_service.py) over the vector store        *)
(* (storage/vector_store.py), while indexing adds to the store and a deletion of   *)
(* the repository (routers/repos.py) takes from it.                             *)
(*                                                                          *)
(* A query waits between its search and its anchors; what follows is arithmetic    *)
(* over the candidates it has.  Scores are in tenths.                            *)
(***************************************************************************)
EXTENDS Integers, Sequences, FiniteSets, SequencesExt

CONSTANTS
  Vectors,     \* the chunks of a repository
  FileOf,      \* the file of each chunk; chunks of a file are numbered in its order
  TokensOf,    \* their lengths
  Similarity,  \* how near each is to the query, in tenths
  TopK,        \* results of a search
  Budgets,     \* token limits asked for
  Bonus,       \* bonuses, in tenths, of a chunk of the current file and of its directory
  MaxDeletes   \* bound of the model on deletions

ASSUME RetrievalAssumption ==
  /\ TopK \in Nat /\ Budgets \subseteq Nat \ {0} /\ Vectors \subseteq Nat /\ MaxDeletes \in Nat
  /\ Bonus.file \in Nat /\ Bonus.directory \in Nat
  /\ IsFiniteSet(Vectors) /\ TokensOf \in [Vectors -> Nat] /\ Similarity \in [Vectors -> Int]

VARIABLES
  vectors,   \* the chunks in the vector store
  rows,      \* whether the graph and the metadata know the repository
  adding,    \* chunks the indexer has yet to add
  removal,   \* a deletion: where it is, the ids it read, whether no run of the indexer met it
  query      \* a query: where it is, its anchors, its candidates, what it answered

retrievalVars == <<vectors, rows, adding, removal, query>>

Nobody == "none"
Paths  == {FileOf[c] : c \in Vectors}
Idle   == [at |-> "idle", file |-> Nobody, stack |-> Nobody, line |-> 0, budget |-> 0, ranking |-> TRUE,
           candidates |-> <<>>, out |-> <<>>, silent |-> FALSE]

RetrievalTypeOK ==
  /\ vectors \subseteq Vectors /\ adding \subseteq Vectors
  /\ {rows.graph, rows.metadata} \subseteq BOOLEAN
  /\ removal.at \in {"none", "graph", "read", "delete", "metadata", "gone", "failed"}
  /\ removal.ids \subseteq Vectors /\ removal.count \in 0..MaxDeletes /\ removal.alone \in BOOLEAN
  /\ query.at \in {"idle", "search", "anchors", "rank", "done", "failed"}
  /\ \A i \in DOMAIN query.candidates : query.candidates[i].chunk \in Vectors

RetrievalInit ==
  /\ vectors \in {{}, Vectors} /\ rows = [graph |-> TRUE, metadata |-> TRUE]
  /\ adding = Vectors \ vectors /\ query = Idle
  /\ removal = [at |-> "none", ids |-> {}, count |-> 0, alone |-> FALSE]

-----------------------------------------------------------------------------
(***************************************************************************)
(* The store: the indexer's batches, and the deletion of the repository from the   *)
(* graph, the vector store and the metadata, in turn.                             *)
(***************************************************************************)

\* A batch of the indexer's: the next chunks, in order.
UpsertBatch ==
  /\ \E last \in adding :
       /\ vectors' = vectors \cup {c \in adding : c <= last} /\ adding' = {c \in adding : c > last}
  /\ UNCHANGED <<rows, removal, query>>

\* A run of the indexer starts over and registers the repository again.
Reindex ==
  /\ adding = {}
  /\ adding' = Vectors /\ rows' = [graph |-> TRUE, metadata |-> TRUE]
  /\ removal' = [removal EXCEPT !.alone = FALSE] /\ query' = [query EXCEPT !.silent = FALSE]
  /\ UNCHANGED vectors

\* A request for a repository the metadata does not know is answered 404.
StartDelete ==
  /\ removal.at \in {"none", "gone", "failed"} /\ removal.count < MaxDeletes /\ rows.metadata
  /\ removal' = [at |-> "graph", ids |-> {}, count |-> removal.count + 1, alone |-> adding = {}]
  /\ UNCHANGED <<vectors, rows, adding, query>>

DeleteGraph == /\ removal.at = "graph"
               /\ rows' = [rows EXCEPT !.graph = FALSE] /\ removal' = [removal EXCEPT !.at = "read"]
               /\ UNCHANGED <<vectors, adding, query>>

\* The ids are read first, then deleted; without any, nothing is.
ReadIds == /\ removal.at = "read"
           /\ removal' = [removal EXCEPT !.at = IF vectors = {} THEN "metadata" ELSE "delete", !.ids = vectors]
           /\ UNCHANGED <<vectors, rows, adding, query>>

DeleteIds == /\ removal.at = "delete"
             /\ vectors' = vectors \ removal.ids /\ removal' = [removal EXCEPT !.at = "metadata"]
             /\ UNCHANGED <<rows, adding, query>>

DeleteMetadata == /\ removal.at = "metadata"
                  /\ rows' = [rows EXCEPT !.metadata = FALSE] /\ removal' = [removal EXCEPT !.at = "gone"]
                  /\ UNCHANGED <<vectors, adding, query>>

\* Any of them fails: the answer is an error, and what was deleted stays deleted.
DeleteFails == /\ removal.at \in {"graph", "read", "delete", "metadata"}
               /\ removal' = [removal EXCEPT !.at = "failed"]
               /\ UNCHANGED <<vectors, rows, adding, query>>

-----------------------------------------------------------------------------
(***************************************************************************)
(* The candidates of a query.                                                  *)
(***************************************************************************)

Candidate(c, score) == [chunk |-> c, score |-> score, anchor |-> FALSE]

Few(n)    == IF n < TopK THEN n ELSE TopK
Results(S) == UNION {SetToSeqs(R) : R \in {Q \in SUBSET S : Cardinality(Q) = Few(Cardinality(S))}}

\* The search is approximate: it answers TopK of the chunks, nearest first.
Search ==
  /\ query.at = "search"
  /\ \E found \in Results(vectors) :
       /\ \A i, j \in DOMAIN found : i < j => Similarity[found[i]] >= Similarity[found[j]]
       /\ query' = [query EXCEPT !.at = "anchors",
                      !.candidates = [i \in DOMAIN found |-> Candidate(found[i], Similarity[found[i]])]]
  /\ UNCHANGED <<vectors, rows, adding, removal>>

ChunksIn(f) == {c \in vectors : FileOf[c] = f}

\* All chunks of the current file, at half the score of a perfect match.
FromFile(found) == [i \in DOMAIN found |-> [Candidate(found[i], 5) EXCEPT !.anchor = TRUE]]

\* Of a file of the error stack: the chunk that has the line, or the first three.
FromStack(found) ==
  IF \E i \in DOMAIN found : found[i] = query.line
  THEN <<[Candidate(query.line, 7) EXCEPT !.anchor = TRUE]>>
  ELSE FromFile(SubSeq(found, 1, IF Len(found) < 3 THEN Len(found) ELSE 3))

\* The second list's chunks that the first has not.
Merged(primary, secondary) ==
  LET merged[i \in 0..Len(secondary)] ==
        IF i = 0 THEN primary
        ELSE LET acc == merged[i - 1]
             IN  IF \E j \in DOMAIN acc : acc[j].chunk = secondary[i].chunk THEN acc ELSE Append(acc, secondary[i])
  IN  merged[Len(secondary)]

\* A look-up that fails leaves its file out.
ExpandAnchors ==
  /\ query.at = "anchors"
  /\ \E file \in {<<>>} \cup Results(ChunksIn(query.file)), stack \in {<<>>} \cup Results(ChunksIn(query.stack)) :
       query' = [query EXCEPT !.at = "rank",
                   !.candidates = Merged(@, FromFile(file) \o FromStack(stack))]
  /\ UNCHANGED <<vectors, rows, adding, removal>>

\* The expansion through the graph starts from the names of symbols; the ids of
\* nodes begin with the repository's, so that no name is one and none is found.
Expanded(candidates) == candidates

\* A bonus for the current file, a smaller one for its directory (all are in one).
Located(candidates) ==
  IF query.file = Nobody THEN candidates
  ELSE [i \in DOMAIN candidates |->
          [candidates[i] EXCEPT !.score = @ + IF FileOf[candidates[i].chunk] = query.file
                                              THEN Bonus.file ELSE Bonus.directory]]

FinalScore(c) == c.score + IF c.anchor THEN 2 ELSE 0

\* Highest first; equal ones keep their order: one is put after the last that scores no less.
Place(ranked, c) ==
  CHOOSE n \in 0..Len(ranked) : \A i \in DOMAIN ranked : i <= n <=> FinalScore(ranked[i]) >= FinalScore(c)
Sorted(candidates) ==
  LET sorted[i \in 0..Len(candidates)] ==
        IF i = 0 THEN <<>>
        ELSE LET before == sorted[i - 1] IN InsertAt(before, Place(before, candidates[i]) + 1, candidates[i])
  IN  sorted[Len(candidates)]
Ranked(candidates) == IF query.ranking THEN Sorted(candidates) ELSE candidates

Total(candidates) ==
  LET total[i \in 0..Len(candidates)] == IF i = 0 THEN 0 ELSE total[i - 1] + TokensOf[candidates[i].chunk]
  IN  total[Len(candidates)]

\* Mutant: the first that does not fit ends the list.
KeptAtFirst(acc, c) ==
  IF acc.stop THEN acc
  ELSE IF Total(acc.out) + TokensOf[c.chunk] <= query.budget THEN [acc EXCEPT !.out = Append(@, c)]
  ELSE [out |-> IF acc.out = <<>> THEN <<c>> ELSE acc.out, stop |-> TRUE]

\* What fits is kept, what does not is passed over; but if the very first does
\* not fit, it alone is kept.
Kept(acc, c) ==
  IF acc.stop THEN acc
  ELSE IF Total(acc.out) + TokensOf[c.chunk] <= query.budget THEN [acc EXCEPT !.out = Append(@, c)]
  ELSE IF acc.out = <<>> THEN [out |-> <<c>>, stop |-> TRUE]
  ELSE acc

Pruned(candidates) ==
  LET kept[i \in 0..Len(candidates)] ==
        IF i = 0 THEN [out |-> <<>>, stop |-> FALSE] ELSE Kept(kept[i - 1], candidates[i])
  IN  kept[Len(candidates)].out

Answer == Pruned(Ranked(Located(Expanded(query.candidates))))

Retrieve ==
  /\ query.at = "idle"
  /\ \E file, stack \in Paths \cup {Nobody}, line \in Vectors, budget \in Budgets, ranking \in BOOLEAN :
       /\ stack = Nobody => \A c \in Vectors : line <= c
       /\ query' = [Idle EXCEPT !.at = "search", !.file = file, !.stack = stack, !.line = line,
                                !.budget = budget, !.ranking = ranking,
                                !.silent = removal.at = "gone" /\ removal.alone]
  /\ UNCHANGED <<vectors, rows, adding, removal>>

BuildContext ==
  /\ query.at = "rank"
  /\ query' = [query EXCEPT !.at = "done", !.out = Answer,
                            !.candidates = Located(Expanded(@))]
  /\ UNCHANGED <<vectors, rows, adding, removal>>

\* The embedding or the search fails, and so does the query.
SearchFails == /\ query.at = "search" /\ query' = [query EXCEPT !.at = "failed"]
               /\ UNCHANGED <<vectors, rows, adding, removal>>

RetrievalNext ==
  \/ UpsertBatch \/ Reindex
  \/ StartDelete \/ DeleteGraph \/ ReadIds \/ DeleteIds \/ DeleteMetadata \/ DeleteFails
  \/ Retrieve \/ Search \/ ExpandAnchors \/ BuildContext \/ SearchFails

RetrievalSpec == RetrievalInit /\ [][RetrievalNext]_retrievalVars

-----------------------------------------------------------------------------
(***************************************************************************)
(* What should hold.                                                          *)
(***************************************************************************)

\* A context holds no chunk twice, begins with the best candidate there is, and
\* stays within the token limit unless that one alone is beyond it; what is left
\* out of a context within the limit would not have fitted any more.
ContextIsGreedy ==
  query.at = "done" =>
    LET out  == query.out
        rest == {i \in DOMAIN query.candidates : \A j \in DOMAIN out : out[j].chunk # query.candidates[i].chunk}
    IN  /\ \A i, j \in DOMAIN out : i # j => out[i].chunk # out[j].chunk
        /\ query.candidates # <<>> => out # <<>>
        /\ query.ranking => \A i \in DOMAIN query.candidates, j \in DOMAIN out :
                              j = 1 => FinalScore(query.candidates[i]) <= FinalScore(out[1])
        /\ Total(out) > query.budget => Len(out) = 1
        /\ Total(out) <= query.budget =>
             \A i \in rest : Total(out) + TokensOf[query.candidates[i].chunk] > query.budget

\* A query put after a deletion was answered that no run of the indexer met finds
\* nothing of the repository, whichever step of an earlier deletion failed.
DeletedIsSilent == query.at = "done" /\ query.silent => query.out = <<>>

\* What a query answers: the best that fits, and nothing of a repository that was deleted.
RetrievalInv == RetrievalTypeOK /\ ContextIsGreedy /\ DeletedIsSilent

=============================================================================
