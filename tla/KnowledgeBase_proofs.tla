------------------------ MODULE KnowledgeBase_proofs ------------------------
(***************************************************************************)
(* Proofs about the parts of the knowledge base: the embedding subprocess     *)
(* (Embedder), the calls of the embedding generator (EmbeddingBatches),         *)
(* hybrid retrieval (Retrieval), the code graph with its indexing, deletions    *)
(* and traversals (CodeGraph), and the views of it (GraphViews).  But for the      *)
(* last two the parts share no state; each has its own specification.           *)
(***************************************************************************)
EXTENDS Embedder, EmbeddingBatches, Retrieval, GraphViews, TLAPS, FiniteSetTheorems, SequenceTheorems, WellFoundedInduction

-----------------------------------------------------------------------------
(***************************************************************************)
(* Numbers and recursion.                                                  *)
(***************************************************************************)

\* Every set of numbers that is not empty has a smallest member.
LEMMA Smallest ==
  ASSUME NEW T, T \subseteq Nat, T # {}
  PROVE  \E n \in T : \A m \in T : n <= m
<1>1. IsWellFoundedOn(OpToRel(<, Nat), Nat)
  BY NatLessThanWellFounded
<1>2. PICK n \in T : \A m \in T : ~ (<<m, n>> \in OpToRel(<, Nat))
  BY <1>1, WFMin
<1>3. \A m \in T : ~ (m < n)
  BY <1>2 DEF OpToRel
<1> QED BY <1>3

\* Steps that start in D[0] and lead from D[i - 1] to D[i].
Leads(n, base, G, D) ==
  base \in D[0] /\ \A i \in 1..n : \A d \in D[i - 1] : G[<<i, d>>] \in D[i]

Follows(f, n, base, G) ==
  f[0] = base /\ \A i \in 1..n : f[i] = G[<<i, f[i - 1]>>]

\* Such steps can be followed to the end.
LEMMA Iterated ==
  ASSUME NEW n \in Nat, NEW base, NEW G, NEW D, Leads(n, base, G, D), NEW U, \A i \in 0..n : D[i] \subseteq U
  PROVE  \E f \in [0..n -> U] : Follows(f, n, base, G)
<1> DEFINE Has(k) == \E f \in [0..k -> U] : Follows(f, k, base, G) /\ f[k] \in D[k]
           Lacks  == {k \in 0..n : ~Has(k)}
<1>1. SUFFICES ASSUME Lacks # {} PROVE FALSE
  OBVIOUS
<1>2. PICK k \in Lacks : \A m \in Lacks : k <= m
  <2> Lacks \subseteq Nat
    OBVIOUS
  <2> HIDE DEF Lacks
  <2> QED BY <1>1, Smallest
<1>3. k # 0
  <2>1. SUFFICES ASSUME k = 0 PROVE Has(0)
    BY <1>2
  <2> DEFINE f == [i \in 0..0 |-> base]
  <2>2. base \in U
    BY DEF Leads
  <2>3. f \in [0..0 -> U] /\ f[0] = base
    BY <2>2
  <2> HIDE DEF f
  <2>4. Follows(f, 0, base, G) /\ f[0] \in D[0]
    BY <2>3 DEF Leads, Follows
  <2> QED BY <2>3, <2>4
<1>4. k \in 1..n /\ k - 1 \in 0..n /\ Has(k - 1)
  <2>1. k \in 1..n /\ k - 1 \in 0..n /\ ~(k <= k - 1)
    BY <1>2, <1>3
  <2> HIDE DEF Has
  <2> QED BY <2>1, <1>2
<1>5. PICK f \in [0..(k - 1) -> U] : Follows(f, k - 1, base, G) /\ f[k - 1] \in D[k - 1]
  BY <1>4
<1> DEFINE e == [i \in 0..k |-> IF i = k THEN G[<<k, f[k - 1]>>] ELSE f[i]]
<1>6. G[<<k, f[k - 1]>>] \in D[k] /\ k \in 0..n
  BY <1>4, <1>5 DEF Leads
<1>7. e \in [0..k -> U]
  <2>1. G[<<k, f[k - 1]>>] \in U
    BY <1>6
  <2>2. \A i \in 0..k : i # k => i \in 0..(k - 1)
    BY <1>4
  <2> QED BY <2>1, <2>2
<1>8. Follows(e, k, base, G)
  <2>1. e[0] = base
    BY <1>4, <1>5 DEF Follows
  <2>2. ASSUME NEW i \in 1..k PROVE e[i] = G[<<i, e[i - 1]>>]
    <3>1. i - 1 \in 0..k /\ i - 1 # k /\ i \in 0..k
      BY <1>4
    <3>2. e[i - 1] = f[i - 1]
      BY <3>1
    <3>3. CASE i = k
      BY <3>1, <3>2, <3>3
    <3>4. CASE i # k
      <4>1. i \in 1..(k - 1)
        BY <1>4, <3>4
      <4>2. f[i] = G[<<i, f[i - 1]>>]
        BY <4>1, <1>5 DEF Follows
      <4>3. e[i] = f[i]
        BY <3>1, <3>4
      <4> QED BY <4>2, <4>3, <3>2
    <3> QED BY <3>3, <3>4
  <2> QED BY <2>1, <2>2 DEF Follows
<1>9. e[k] \in D[k]
  BY <1>4, <1>6
<1> HIDE DEF e
<1> QED BY <1>2, <1>7, <1>8, <1>9

\* What holds at the beginning and after each step holds all the way.
LEMMA Reached ==
  ASSUME NEW n \in Nat, NEW D, NEW f, f[0] \in D[0],
         \A i \in 1..n : f[i - 1] \in D[i - 1] => f[i] \in D[i]
  PROVE  \A i \in 0..n : f[i] \in D[i]
<1> DEFINE Lacks  == {k \in 0..n : f[k] \notin D[k]}
<1>1. SUFFICES ASSUME Lacks # {} PROVE FALSE
  OBVIOUS
<1>2. PICK k \in Lacks : \A m \in Lacks : k <= m
  <2> Lacks \subseteq Nat
    OBVIOUS
  <2> HIDE DEF Lacks
  <2> QED BY <1>1, Smallest
<1>3. k \in 1..n /\ k - 1 \in 0..n /\ ~(k <= k - 1)
  BY <1>2
<1>4. f[k - 1] \in D[k - 1]
  BY <1>2, <1>3
<1> QED BY <1>2, <1>3, <1>4

-----------------------------------------------------------------------------
(***************************************************************************)
(* Embedder: the embedding subprocess, for every number of chunks and limit. *)
(*                                                                         *)
(* The inductive invariant describes what is between the main process and a *)
(* worker: an unbroken run of chunks, in order, that begins as many places *)
(* before the chunk in hand as there were timeouts.                        *)
(***************************************************************************)

\* The oldest chunk whose result is not read, if there is one.
Oldest == at - timeouts

\* The number of chunks the worker has in hand, and of those it has been given.
InHand      == IF encoding = 0 THEN 0 ELSE 1
Outstanding == Len(results) + InHand + Len(tasks)

\* The results are those of consecutive chunks, whether or not the worker lives.
ResultsInOrder == \A i \in 1..Len(results) : results[i].chunk = Oldest + i - 1

\* Behind them come the chunk the worker has in hand, and the tasks.
RestInOrder ==
  Alive =>
    /\ encoding # 0 => encoding = Oldest + Len(results)
    /\ \A i \in 1..Len(tasks) : tasks[i] = Oldest + Len(results) + InHand + i - 1

\* A worker that lives owes one answer for each timeout, and one that is waited for.
Owed ==
  /\ Alive /\ pc = "asking"  => Outstanding = timeouts
  /\ Alive /\ pc = "waiting" => Outstanding = timeouts + 1
  /\ pc = "starting" => tasks = <<>> /\ results = <<>> /\ encoding = 0 /\ timeouts = 0
  /\ pc = "killed" => process = "killed"
  /\ process # "encoding" => encoding = 0

\* What is stored is older than anything that can still be received.
StoredBefore == \A c \in Chunk : stored[c] # 0 => stored[c] < Oldest

IInv == TypeOK /\ ResultsInOrder /\ RestInOrder /\ Owed /\ StoredBefore /\ NoVectorTwice

-----------------------------------------------------------------------------
\* The loop of the indexer starts well typed.
LEMMA TypeInit == Init => TypeOK
  BY EmbedderAssumption DEF Init, TypeOK, Over, Chunk, Result

\* Every step keeps the types; that the worker is waited for says which chunk is asked.
LEMMA TypeStep == TypeOK /\ [Next]_vars => TypeOK'
<1> SUFFICES ASSUME TypeOK, [Next]_vars PROVE TypeOK'
  OBVIOUS
<1> USE EmbedderAssumption
<1>1. CASE Started
  <2>1. CASE caller = "loop"
    BY <1>1, <2>1 DEF TypeOK, Started, Over, Chunk, Result
  <2>2. CASE caller = "embed_single"
    <3>1. at \in Chunk /\ tasks' = Append(tasks, at) /\ pc' = "waiting"
      BY <1>1, <2>2 DEF TypeOK, Started, Put
    <3>2. tasks' \in Seq(Chunk)
      BY <3>1 DEF TypeOK
    <3> QED BY <1>1, <2>2, <3>1, <3>2 DEF TypeOK, Started, Over
  <2>3. CASE caller = "restart"
    BY <1>1, <2>3 DEF TypeOK, Started, Advance, Over, Chunk
  <2> QED BY <1>1, <2>1, <2>2, <2>3 DEF Started
<1>2. CASE NotStarted
  BY <1>2 DEF TypeOK, NotStarted, Stop, Advance, Over, Chunk, Result
<1>3. CASE Finish
  BY <1>3 DEF TypeOK, Finish, Stop, Over, Chunk, Result
<1>4. CASE Ask
  BY <1>4 DEF TypeOK, Ask, Put, Over, Chunk, Result
<1>5. CASE AskDead
  BY <1>5 DEF TypeOK, AskDead, Launch, Over, Chunk, Result
<1>6. CASE Receive
  <2>1. Head(results) \in Result /\ Tail(results) \in Seq(Result)
    BY <1>6 DEF TypeOK, Receive
  <2>2. Head(results).chunk \in 0..N
    BY <2>1 DEF Result, Chunk
  <2>3. [stored EXCEPT ![at] = Head(results).chunk] \in [Chunk -> 0..N]
    BY <2>2 DEF TypeOK
  <2>4. /\ stored' \in {stored, [stored EXCEPT ![at] = Head(results).chunk]}
        /\ oom_count' \in {0, oom_count}
    BY <1>6 DEF Receive
  <2>5. stored' \in [Chunk -> 0..N] /\ oom_count' \in {0, oom_count}
    BY <2>3, <2>4 DEF TypeOK
  <2>6. at \in Chunk /\ at' = at + 1 /\ pc' = "asking" /\ results' = Tail(results)
    BY <1>6 DEF TypeOK, Receive, Advance
  <2> QED BY <1>6, <2>1, <2>5, <2>6 DEF TypeOK, Receive, Advance, Over, Chunk
<1>7. CASE TimeOut
  BY <1>7 DEF TypeOK, TimeOut, Advance, workerVars, Over, Chunk, Result
<1>8. CASE FindExited
  BY <1>8 DEF TypeOK, FindExited, Advance, workerVars, Over, Chunk, Result
<1>9. CASE FindKilled
  BY <1>9 DEF TypeOK, FindKilled, workerVars, Over, Chunk, Result
<1>10. CASE Restart
  BY <1>10 DEF TypeOK, Restart, Launch, Over, Chunk, Result
<1>11. CASE GiveUp
  BY <1>11 DEF TypeOK, GiveUp, Stop, Over, Chunk, Result
<1>12. CASE LoadModel
  BY <1>12 DEF TypeOK, LoadModel, mainVars, Over, Chunk, Result
<1>13. CASE TakeTask
  BY <1>13 DEF TypeOK, TakeTask, mainVars, Over, Chunk, Result
<1>14. CASE Encode
  BY <1>14 DEF TypeOK, Encode, mainVars, Over, Chunk, Result
<1>15. CASE Die
  BY <1>15 DEF TypeOK, Die, mainVars, Over, Chunk, Result
<1>16. CASE UNCHANGED vars
  BY <1>16 DEF TypeOK, vars, mainVars, workerVars, Over, Chunk, Result
<1> QED BY <1>1, <1>2, <1>3, <1>4, <1>5, <1>6, <1>7, <1>8, <1>9, <1>10, <1>11, <1>12, <1>13,
     <1>14, <1>15, <1>16 DEF Next, MainStep, WorkerStep, Ended

-----------------------------------------------------------------------------
\* It starts with nothing between the two.
LEMMA QueuesInit == Init => ResultsInOrder /\ RestInOrder /\ Owed
  BY EmbedderAssumption
  DEF Init, ResultsInOrder, RestInOrder, Owed, Oldest, InHand, Outstanding, Alive

\* Launch and Stop leave nothing between the two.
LEMMA EmptyInOrder ==
  ASSUME TypeOK', tasks' = <<>>, results' = <<>>, encoding' = 0
  PROVE  ResultsInOrder' /\ RestInOrder'
  BY DEF ResultsInOrder, RestInOrder

\* Every step keeps the run of chunks between the two unbroken.
LEMMA QueuesStep ==
  TypeOK /\ TypeOK' /\ ResultsInOrder /\ RestInOrder /\ Owed /\ [Next]_vars
    => ResultsInOrder' /\ RestInOrder' /\ Owed'
<1> SUFFICES ASSUME TypeOK, TypeOK', ResultsInOrder, RestInOrder, Owed, [Next]_vars
             PROVE  ResultsInOrder' /\ RestInOrder' /\ Owed'
  OBVIOUS
<1> USE EmbedderAssumption DEF Oldest, InHand, Outstanding, Alive
<1>1. CASE Started
  <2>1. tasks = <<>> /\ results = <<>> /\ encoding = 0 /\ timeouts = 0
    BY <1>1 DEF Started, Owed
  <2>2. ResultsInOrder'
    BY <1>1, <2>1 DEF Started, ResultsInOrder
  <2>3. CASE caller = "embed_single"
    <3>1. at \in Nat /\ tasks' = Append(<<>>, at) /\ pc' = "waiting" /\ at' = at
      BY <1>1, <2>1, <2>3 DEF Started, Put, TypeOK
    <3>2. Len(tasks') = 1 /\ tasks'[1] = at
      BY <3>1
    <3>3. results' = <<>> /\ encoding' = 0 /\ timeouts' = 0 /\ process' = process
      BY <1>1, <2>1 DEF Started
    <3> QED BY <2>2, <3>1, <3>2, <3>3 DEF RestInOrder, Owed
  <2>4. CASE caller # "embed_single"
    <3>1. pc' = "asking" /\ tasks' = <<>>
      BY <1>1, <2>1, <2>4 DEF Started, Advance
    <3> QED BY <1>1, <2>1, <2>2, <3>1 DEF Started, RestInOrder, Owed
  <2> QED BY <2>3, <2>4
<1>2. CASE NotStarted
  BY <1>2, EmptyInOrder DEF NotStarted, Stop, Advance, Owed
<1>3. CASE Finish
  BY <1>3, EmptyInOrder DEF Finish, Stop, Owed
<1>4. CASE Ask
  <2>1. /\ tasks' = Append(tasks, at) /\ pc' = "waiting" /\ at' = at
        /\ UNCHANGED <<process, encoding, results, timeouts>>
    BY <1>4 DEF Ask, Put
  <2>2. Outstanding = timeouts
    BY <1>4 DEF Ask, Owed
  <2>3. /\ Len(tasks') = Len(tasks) + 1 /\ tasks'[Len(tasks) + 1] = at
        /\ \A i \in 1..Len(tasks) : tasks'[i] = tasks[i]
    BY <2>1 DEF TypeOK
  <2>4. ResultsInOrder'
    BY <2>1 DEF ResultsInOrder
  <2>5. at \in Nat /\ timeouts \in Nat /\ Len(results) \in Nat /\ Len(tasks) \in Nat
    BY DEF TypeOK
  <2>6. at = Oldest + Len(results) + InHand + Len(tasks)
    BY <2>2, <2>5
  <2>7. RestInOrder'
    <3> SUFFICES ASSUME Alive'
                 PROVE  /\ encoding' # 0 => encoding' = Oldest' + Len(results')
                        /\ \A i \in 1..Len(tasks') :
                             tasks'[i] = Oldest' + Len(results') + InHand' + i - 1
      BY DEF RestInOrder
    <3>1. encoding' # 0 => encoding' = Oldest' + Len(results')
      BY <2>1 DEF RestInOrder
    <3>2. ASSUME NEW i \in 1..Len(tasks')
          PROVE  tasks'[i] = Oldest' + Len(results') + InHand' + i - 1
      <4>1. CASE i \in 1..Len(tasks)
        BY <2>1, <2>3, <4>1 DEF RestInOrder
      <4>2. CASE i = Len(tasks) + 1
        BY <2>1, <2>3, <2>5, <2>6, <4>2
      <4> QED BY <2>3, <2>5, <4>1, <4>2
    <3> QED BY <3>1, <3>2
  <2>8. Owed'
    <3>1. Outstanding' = timeouts' + 1
      <4>1. Outstanding' = Len(results) + InHand + (Len(tasks) + 1)
        BY <2>1, <2>3
      <4>2. InHand \in Nat
        OBVIOUS
      <4>3. Len(results) + InHand + Len(tasks) = timeouts
        BY <2>2
      <4> HIDE DEF InHand, Outstanding
      <4> QED BY <2>1, <2>5, <4>1, <4>2, <4>3
    <3>2. (process' # "encoding" => encoding' = 0) /\ pc' = "waiting"
      BY <2>1 DEF Owed
    <3> QED BY <3>1, <3>2 DEF Owed
  <2> QED BY <2>4, <2>7, <2>8
<1>5. CASE AskDead
  BY <1>5, EmptyInOrder DEF AskDead, Launch, Owed
<1>6. CASE Receive
  <2>1. /\ results # <<>> /\ results' = Tail(results) /\ at' = at + 1
        /\ pc = "waiting" /\ pc' = "asking"
        /\ UNCHANGED <<process, encoding, tasks, timeouts>>
    BY <1>6 DEF Receive, Advance
  <2>2. /\ Len(results') = Len(results) - 1
        /\ \A i \in 1..Len(results') : results'[i] = results[i + 1]
    BY <2>1 DEF TypeOK
  <2>3. at \in Nat /\ timeouts \in Nat /\ Len(results) \in Nat /\ Len(tasks) \in Nat
    BY DEF TypeOK
  <2>4. ResultsInOrder'
    BY <2>1, <2>2, <2>3 DEF ResultsInOrder
  <2>5. RestInOrder'
    BY <2>1, <2>2, <2>3 DEF RestInOrder
  <2>6. Owed'
    BY <2>1, <2>2, <2>3 DEF Owed
  <2> QED BY <2>4, <2>5, <2>6
<1>7. CASE TimeOut
  <2>1. /\ at' = at + 1 /\ timeouts' = timeouts + 1 /\ pc = "waiting" /\ pc' = "asking"
        /\ UNCHANGED <<process, encoding, tasks, results>>
    BY <1>7 DEF TimeOut, Advance, workerVars
  <2>2. at \in Nat /\ timeouts \in Nat
    BY DEF TypeOK
  <2>3. Oldest' = Oldest
    BY <2>1, <2>2
  <2>4. ResultsInOrder'
    <3> HIDE DEF Oldest
    <3> QED BY <2>1, <2>3 DEF ResultsInOrder
  <2>5. RestInOrder'
    <3> HIDE DEF Oldest
    <3> QED BY <2>1, <2>3 DEF RestInOrder
  <2> QED BY <2>1, <2>2, <2>4, <2>5 DEF Owed
<1>8. CASE FindExited
  <2>1. /\ results' = <<>> /\ process' = "exited" /\ encoding' = encoding /\ pc' = "asking"
    BY <1>8 DEF FindExited, Advance, workerVars
  <2> QED BY <1>8, <2>1 DEF FindExited, ResultsInOrder, RestInOrder, Owed
<1>9. CASE FindKilled
  BY <1>9 DEF FindKilled, workerVars, ResultsInOrder, RestInOrder, Owed
<1>10. CASE Restart
  BY <1>10, EmptyInOrder DEF Restart, Launch, Owed
<1>11. CASE GiveUp
  BY <1>11, EmptyInOrder DEF GiveUp, Stop, Owed
<1>12. CASE LoadModel
  BY <1>12 DEF LoadModel, mainVars, ResultsInOrder, RestInOrder, Owed
<1>13. CASE TakeTask
  <2>1. /\ tasks # <<>> /\ process = "idle" /\ process' = "encoding"
        /\ encoding' = Head(tasks) /\ tasks' = Tail(tasks)
        /\ UNCHANGED <<pc, at, results, timeouts>>
    BY <1>13 DEF TakeTask, mainVars
  <2>2. encoding = 0 /\ encoding' = tasks[1] /\ encoding' # 0
    <3>1. tasks \in Seq(Chunk) /\ Chunk \subseteq Nat \ {0}
      BY DEF TypeOK, Chunk
    <3> HIDE DEF Chunk
    <3>2. Head(tasks) = tasks[1] /\ tasks[1] \in Chunk
      BY <2>1, <3>1
    <3> QED BY <2>1, <3>1, <3>2 DEF Owed
  <2>3. /\ Len(tasks') = Len(tasks) - 1 /\ Len(tasks) # 0
        /\ \A i \in 1..Len(tasks') : tasks'[i] = tasks[i + 1]
    BY <2>1 DEF TypeOK
  <2>4. at \in Nat /\ timeouts \in Nat /\ Len(results) \in Nat /\ Len(tasks) \in Nat
    BY DEF TypeOK
  <2>5. ResultsInOrder'
    BY <2>1 DEF ResultsInOrder
  <2>6. RestInOrder'
    BY <2>1, <2>2, <2>3, <2>4 DEF RestInOrder
  <2>7. Owed'
    BY <2>1, <2>2, <2>3, <2>4 DEF Owed
  <2> QED BY <2>5, <2>6, <2>7
<1>14. CASE Encode
  <2>1. /\ process = "encoding" /\ process' = "idle" /\ encoding' = 0
        /\ UNCHANGED <<pc, at, tasks, timeouts>>
    BY <1>14 DEF Encode, mainVars
  <2>2. PICK success \in BOOLEAN :
          results' = Append(results, [chunk |-> encoding, success |-> success])
    BY <1>14 DEF Encode
  <2>3. encoding # 0 /\ encoding = Oldest + Len(results)
    BY <2>1 DEF RestInOrder, TypeOK, Chunk
  <2>4. /\ Len(results') = Len(results) + 1 /\ results'[Len(results) + 1].chunk = encoding
        /\ \A i \in 1..Len(results) : results'[i] = results[i]
    BY <2>2 DEF TypeOK
  <2>5. at \in Nat /\ timeouts \in Nat /\ Len(results) \in Nat /\ Len(tasks) \in Nat
    BY DEF TypeOK
  <2>6. ResultsInOrder'
    <3> SUFFICES ASSUME NEW i \in 1..Len(results')
                 PROVE  results'[i].chunk = Oldest' + i - 1
      BY DEF ResultsInOrder
    <3>1. CASE i \in 1..Len(results)
      BY <2>1, <2>4, <3>1 DEF ResultsInOrder
    <3>2. CASE i = Len(results) + 1
      BY <2>1, <2>3, <2>4, <2>5, <3>2
    <3> QED BY <2>4, <2>5, <3>1, <3>2
  <2>7. RestInOrder'
    BY <2>1, <2>3, <2>4, <2>5 DEF RestInOrder
  <2>8. Owed'
    BY <2>1, <2>3, <2>4, <2>5 DEF Owed, TypeOK, Chunk
  <2> QED BY <2>6, <2>7, <2>8
<1>15. CASE Die
  BY <1>15 DEF Die, mainVars, ResultsInOrder, RestInOrder, Owed
<1>16. CASE UNCHANGED vars
  BY <1>16 DEF vars, mainVars, workerVars, ResultsInOrder, RestInOrder, Owed
<1> QED BY <1>1, <1>2, <1>3, <1>4, <1>5, <1>6, <1>7, <1>8, <1>9, <1>10, <1>11, <1>12, <1>13,
     <1>14, <1>15, <1>16 DEF Next, MainStep, WorkerStep, Ended

-----------------------------------------------------------------------------
\* What a step stores is the head of the results, and it is the oldest chunk.
LEMMA StoredStep ==
  TypeOK /\ ResultsInOrder /\ [Next]_vars =>
    \/ stored' = stored /\ Oldest' >= Oldest
    \/ /\ stored' = [stored EXCEPT ![at] = Oldest] /\ at \in Chunk
       /\ Oldest \in Chunk /\ Oldest' = Oldest + 1
<1> SUFFICES ASSUME TypeOK, ResultsInOrder, [Next]_vars
             PROVE  \/ stored' = stored /\ Oldest' >= Oldest
                    \/ /\ stored' = [stored EXCEPT ![at] = Oldest] /\ at \in Chunk
                       /\ Oldest \in Chunk /\ Oldest' = Oldest + 1
  OBVIOUS
<1> USE EmbedderAssumption DEF Oldest
<1>1. at \in Nat /\ timeouts \in Nat
  BY DEF TypeOK
<1>2. CASE Receive
  <2>1. results[1] = Head(results) /\ 1 \in 1..Len(results) /\ Head(results) \in Result
    BY <1>2 DEF Receive, TypeOK
  <2>2. Head(results).chunk = Oldest /\ Oldest \in Chunk
    BY <1>1, <2>1 DEF ResultsInOrder, Result
  <2>3. at \in Chunk /\ at' = at + 1 /\ timeouts' = timeouts
    BY <1>2 DEF Receive, Advance, TypeOK
  <2>4. stored' \in {stored, [stored EXCEPT ![at] = Head(results).chunk]}
    BY <1>2 DEF Receive
  <2> QED BY <1>1, <2>2, <2>3, <2>4
<1>3. CASE ~Receive
  <2>1. stored' = stored
    BY <1>3 DEF Next, MainStep, WorkerStep, Ended, Started, NotStarted, Finish, Ask, AskDead,
       TimeOut, FindExited, FindKilled, Restart, GiveUp, LoadModel, TakeTask, Encode, Die,
       vars, mainVars
  <2>2. \/ at' \in {at, at + 1} /\ timeouts' \in {0, timeouts}
        \/ at' = at + 1 /\ timeouts' = timeouts + 1
    BY <1>3 DEF Next, MainStep, WorkerStep, Ended, Started, NotStarted, Finish, Ask, AskDead,
       TimeOut, FindExited, FindKilled, Restart, GiveUp, LoadModel, TakeTask, Encode, Die,
       Put, Advance, Launch, Stop, vars, mainVars
  <2> QED BY <1>1, <2>1, <2>2
<1> QED BY <1>2, <1>3

\* No chunk is stored twice: what was stored before is older than the oldest.
LEMMA OnceStep ==
  /\ TypeOK /\ TypeOK' /\ ResultsInOrder /\ StoredBefore /\ NoVectorTwice /\ [Next]_vars
  => StoredBefore' /\ NoVectorTwice'
<1> SUFFICES ASSUME TypeOK, TypeOK', ResultsInOrder, StoredBefore, NoVectorTwice, [Next]_vars
             PROVE  StoredBefore' /\ NoVectorTwice'
  OBVIOUS
<1>1. /\ at \in Nat /\ timeouts \in Nat /\ Oldest \in Int /\ Oldest <= at /\ Oldest' \in Int
      /\ stored \in [Chunk -> 0..N]
  BY EmbedderAssumption DEF TypeOK, Oldest
<1>2. CASE stored' = stored /\ Oldest' >= Oldest
  <2>1. StoredBefore'
    BY EmbedderAssumption, <1>1, <1>2 DEF StoredBefore
  <2> QED BY <1>2, <2>1 DEF NoVectorTwice
<1>3. CASE /\ stored' = [stored EXCEPT ![at] = Oldest] /\ at \in Chunk
           /\ Oldest \in Chunk /\ Oldest' = Oldest + 1
  <2>1. \A c \in Chunk : stored'[c] = IF c = at THEN Oldest ELSE stored[c]
    BY <1>1, <1>3
  <2>2. \A c \in Chunk : stored[c] \in Nat /\ (stored[c] # 0 => stored[c] < Oldest)
    BY EmbedderAssumption, <1>1 DEF StoredBefore
  <2>3. StoredBefore'
    BY <1>1, <1>3, <2>1, <2>2 DEF StoredBefore
  <2>4. Oldest # 0
    BY EmbedderAssumption, <1>3 DEF Chunk
  <2>5. NoVectorTwice'
    BY <1>1, <2>1, <2>2, <2>4 DEF NoVectorTwice
  <2> QED BY <2>3, <2>5
<1> QED BY <1>2, <1>3, StoredStep

\* The invariant holds at the start.
LEMMA IInvInit == Init => IInv
<1>1. Init => StoredBefore /\ NoVectorTwice
  BY EmbedderAssumption DEF Init, StoredBefore, NoVectorTwice
<1> QED BY <1>1, TypeInit, QueuesInit DEF IInv

\* Every step of the loop and of the worker keeps the invariant.
LEMMA IInvStep == IInv /\ [Next]_vars => IInv'
  BY TypeStep, QueuesStep, OnceStep DEF IInv

-----------------------------------------------------------------------------
\* Every reachable state is well typed: what SubprocessEmbedder and the loop of
\* the indexer keep is what the model says.
THEOREM TypeCorrect == Spec => []TypeOK
<1>1. IInv => TypeOK
  BY DEF IInv
<1> QED BY <1>1, IInvInit, IInvStep, PTL DEF Spec

\* embed_single: what it returns is the embedding of the chunk that lies as many
\* places back as it has timed out since the worker was started.
THEOREM LagExact == Spec => LagIsTimeouts
<1>1. IInv /\ [Next]_vars
        => [\A c \in Chunk : stored'[c] # stored[c] => stored'[c] = c - timeouts]_vars
  <2> SUFFICES ASSUME IInv, [Next]_vars, NEW c \in Chunk, stored'[c] # stored[c]
               PROVE  stored'[c] = c - timeouts
    OBVIOUS
  <2>1. stored' = [stored EXCEPT ![at] = Oldest]
    BY StoredStep DEF IInv
  <2>2. stored \in [Chunk -> 0..N]
    BY DEF IInv, TypeOK
  <2>3. c = at /\ stored'[c] = Oldest
    BY <2>1, <2>2
  <2> QED BY <2>3 DEF Oldest
<1> QED BY <1>1, IInvInit, IInvStep, PTL DEF Spec, LagIsTimeouts

\* However often the worker times out, is killed and is started again, no
\* embedding is stored for two chunks.
THEOREM VectorsDistinct == Spec => []NoVectorTwice
<1>1. IInv => NoVectorTwice
  BY DEF IInv
<1> QED BY <1>1, IInvInit, IInvStep, PTL DEF Spec

-----------------------------------------------------------------------------
(***************************************************************************)
(* EmbeddingBatches: the calls of the embedding generator.                 *)
(*                                                                         *)
(* The invariant knows of each batch which of its texts are settled; that the *)
(* batches part the places of a call is a fact about their arithmetic.     *)
(***************************************************************************)

Ordered(s) == \A j, k \in DOMAIN s : j < k => s[j] < s[k]

\* The places of a list can be put in order: by taking the smallest away, again and again.
LEMMA OrderExists ==
  ASSUME NEW S, S \subseteq Nat, IsFiniteSet(S)
  PROVE  \E s \in [1..Cardinality(S) -> S] : Ordered(s)
<1> DEFINE Has(A) == \E s \in [1..Cardinality(A) -> A] : Ordered(s)
           Lacks  == {n \in Nat : \E A \in SUBSET Nat : IsFiniteSet(A) /\ Cardinality(A) = n /\ ~Has(A)}
<1>1. SUFFICES ASSUME Lacks # {} PROVE FALSE
  BY FS_CardinalityType
<1>2. PICK n \in Lacks : \A m \in Lacks : n <= m
  <2> Lacks \subseteq Nat
    OBVIOUS
  <2> HIDE DEF Lacks
  <2> QED BY <1>1, Smallest
<1>3. PICK A \in SUBSET Nat : IsFiniteSet(A) /\ Cardinality(A) = n /\ ~Has(A)
  BY <1>2
<1>4. A # {}
  <2>1. SUFFICES ASSUME A = {} PROVE Has(A)
    BY <1>3
  <2>2. Cardinality(A) = 0 /\ 1..0 = {}
    BY <2>1, FS_EmptySet
  <2>3. [i \in {} |-> i] \in [{} -> {}] /\ Ordered([i \in {} |-> i])
    BY DEF Ordered
  <2> QED BY <2>1, <2>2, <2>3
<1>5. PICK least \in A : \A m \in A : least <= m
  BY <1>4, Smallest
<1> DEFINE B == A \ {least}
<1>6. IsFiniteSet(B) /\ n \in Nat /\ n # 0 /\ Cardinality(B) = n - 1 /\ B \in SUBSET Nat
  <2>1. IsFiniteSet(B) /\ Cardinality(B) = Cardinality(A) - 1
    BY <1>3, FS_RemoveElement
  <2>2. Cardinality(A) # 0
    BY <1>3, <1>4, FS_EmptySet
  <2> QED BY <2>1, <2>2, <1>2, <1>3
<1>7. Has(B)
  <2>1. ~(n - 1 \in Lacks) /\ n - 1 \in Nat
    <3> HIDE DEF Lacks, B
    <3> QED BY <1>2, <1>6
  <2>2. IsFiniteSet(B) /\ Cardinality(B) = n - 1 /\ B \in SUBSET Nat
    BY <1>6
  <2> HIDE DEF B, Has
  <2> QED BY <2>1, <2>2
<1>8. PICK t \in [1..(n - 1) -> B] : Ordered(t)
  BY <1>6, <1>7
<1> DEFINE s == [i \in 1..n |-> IF i = 1 THEN least ELSE t[i - 1]]
<1>9. s \in [1..n -> A]
  BY <1>6, <1>8, <1>5
<1>10. Ordered(s)
  <2> SUFFICES ASSUME NEW j \in 1..n, NEW k \in 1..n, j < k PROVE s[j] < s[k]
    BY DEF Ordered
  <2>1. k # 1 /\ k - 1 \in 1..(n - 1)
    BY <1>6
  <2>2. t[k - 1] \in A /\ t[k - 1] # least /\ t[k - 1] \in Nat /\ least \in Nat
    BY <2>1, <1>8
  <2>3. CASE j = 1
    BY <2>1, <2>2, <2>3, <1>5
  <2>4. CASE j # 1
    <3>1. j - 1 \in 1..(n - 1) /\ j - 1 < k - 1
      BY <2>4, <1>6
    <3> QED BY <3>1, <2>1, <2>4, <1>8 DEF Ordered
  <2> QED BY <2>3, <2>4
<1> QED BY <1>3, <1>9, <1>10

\* embed_batch_soft: the places of the texts to embed, in order, each once.
LEMMA InOrderIs ==
  ASSUME NEW S, S \subseteq Nat, IsFiniteSet(S)
  PROVE  /\ InOrder(S) \in [1..Cardinality(S) -> S] /\ Cardinality(S) \in Nat
         /\ \A j, k \in 1..Cardinality(S) : InOrder(S)[j] = InOrder(S)[k] => j = k
         /\ \A x \in S : \E j \in 1..Cardinality(S) : InOrder(S)[j] = x
<1> DEFINE n == Cardinality(S)
           s == InOrder(S)
<1>1. n \in Nat
  BY FS_CardinalityType
<1>2. s \in [1..n -> S] /\ Ordered(s)
  BY OrderExists DEF InOrder, Ordered
<1> HIDE DEF s
<1>3. \A j, k \in 1..n : s[j] = s[k] => j = k
  <2> SUFFICES ASSUME NEW j \in 1..n, NEW k \in 1..n, s[j] = s[k], j < k PROVE FALSE
    BY <1>1
  <2> s[j] \in Nat /\ s[j] < s[k]
    BY <1>2 DEF Ordered
  <2> QED OBVIOUS
<1>4. s \in Surjection(1..n, S)
  <2>1. s \in Injection(1..n, S)
    BY <1>2, <1>3 DEF Injection, IsInjective
  <2>2. Cardinality(1..n) = n
    BY <1>1, FS_Interval
  <2> QED BY <2>1, <2>2, FS_Injection
<1> QED BY <1>1, <1>2, <1>3, <1>4 DEF s, Surjection

\* What the division of natural numbers leaves.
LEMMA Divided ==
  ASSUME NEW a \in Nat, NEW d \in Nat \ {0}
  PROVE  a \div d \in Nat /\ (a \div d) * d <= a /\ a < (a \div d) * d + d
  OBVIOUS

\* Multiples of a size keep the order of what is multiplied, and lie a size apart.
LEMMA Multiples ==
  ASSUME NEW a \in Int, NEW b \in Int, NEW d \in Nat \ {0}
  PROVE  /\ a * d \in Int /\ b * d \in Int
         /\ (a - 1) * d = a * d - d
         /\ a < b => a * d + d <= b * d
         /\ a <= b => a * d <= b * d
  OBVIOUS

Partition(batches, S) ==
  /\ batches \in Seq(Seq(S))
  /\ \A b \in DOMAIN batches : batches[b] # <<>>
  /\ \A b \in DOMAIN batches : \A j, k \in DOMAIN batches[b] : batches[b][j] = batches[b][k] => j = k
  /\ \A b, c \in DOMAIN batches : \A j \in DOMAIN batches[b], k \in DOMAIN batches[c] :
       batches[b][j] = batches[c][k] => b = c
  /\ \A x \in S : \E b \in DOMAIN batches : \E j \in DOMAIN batches[b] : batches[b][j] = x

\* A slice of a sequence of members of S, and what is known of it.
IsSlice(t, s, a, b, S) ==
  /\ t \in Seq(S) /\ t # <<>> /\ DOMAIN t = 1..(b - a + 1)
  /\ \A j \in 1..(b - a + 1) : t[j] = s[a + j - 1]

\* SubSeq gives a slice.
LEMMA SliceIs ==
  ASSUME NEW S, NEW n \in Nat, NEW s \in [1..n -> S], NEW a \in 1..n, NEW b \in a..n
  PROVE  IsSlice(SubSeq(s, a, b), s, a, b, S)
<1> DEFINE t == SubSeq(s, a, b)
<1>1. t \in Seq(S) /\ Len(t) = b - a + 1
  OBVIOUS
<1>2. \A j \in 1..(b - a + 1) : t[j] = s[a + j - 1]
  OBVIOUS
<1> HIDE DEF t
<1>3. t # <<>> /\ DOMAIN t = 1..(b - a + 1)
  BY <1>1
<1>4. IsSlice(t, s, a, b, S)
  BY <1>1, <1>2, <1>3 DEF IsSlice
<1> QED BY <1>4 DEF t

\* A list of the members of a set, each once.
Enumerates(s, n, S) ==
  /\ \A j, k \in 1..n : s[j] = s[k] => j = k
  /\ \A x \in S : \E j \in 1..n : s[j] = x

\* Stretches of 1..n that follow one another and leave nothing out.
Consecutive(f, l, q, n) ==
  /\ \A b \in 1..q : f[b] \in 1..n /\ l[b] \in f[b]..n
  /\ \A b, c \in 1..q : b < c => l[b] < f[c]
  /\ \A p \in 1..n : \E b \in 1..q : f[b] <= p /\ p <= l[b]

Meeting(n, a, b, c, d, j, k) ==
  /\ a + j - 1 \in 1..n /\ c + k - 1 \in 1..n
  /\ a + j - 1 = c + k - 1 => ~(b < c)
  /\ a + j - 1 = c + k - 1 => ~(d < a)
  /\ a + j - 1 = c + k - 1 /\ a = c => j = k

\* Two stretches with a place in common.
LEMMA PlaceInBoth ==
  ASSUME NEW n \in Nat, NEW a \in 1..n, NEW b \in a..n, NEW c \in 1..n, NEW d \in c..n,
         NEW j \in 1..(b - a + 1), NEW k \in 1..(d - c + 1)
  PROVE  Meeting(n, a, b, c, d, j, k)
  BY DEF Meeting

\* Slices that follow one another make a partition of a list.
LEMMA SlicesPartition ==
  ASSUME NEW n \in Nat, NEW S, NEW s \in [1..n -> S], Enumerates(s, n, S),
         NEW q \in Nat, NEW f, NEW l, Consecutive(f, l, q, n)
  PROVE  Partition([b \in 1..q |-> SubSeq(s, f[b], l[b])], S)
<1> DEFINE B == [b \in 1..q |-> SubSeq(s, f[b], l[b])]
<1>2. ASSUME NEW b \in 1..q
      PROVE  f[b] \in 1..n /\ l[b] \in f[b]..n
  BY DEF Consecutive
<1>3. ASSUME NEW b \in 1..q
      PROVE  /\ B[b] \in Seq(S) /\ B[b] # <<>>
             /\ DOMAIN B[b] = 1..(l[b] - f[b] + 1)
             /\ \A j \in 1..(l[b] - f[b] + 1) : B[b][j] = s[f[b] + j - 1]
  <2>1. B[b] = SubSeq(s, f[b], l[b])
    OBVIOUS
  <2> HIDE DEF B
  <2>2. IsSlice(B[b], s, f[b], l[b], S)
    BY <2>1, <1>2, SliceIs
  <2> QED BY <2>2 DEF IsSlice
<1>4. B \in Seq(Seq(S)) /\ DOMAIN B = 1..q
  <2>1. \A b \in 1..q : B[b] \in Seq(S)
    BY <1>3
  <2>2. DOMAIN B = 1..q /\ B = [b \in 1..q |-> B[b]]
    OBVIOUS
  <2> HIDE DEF B
  <2>3. B \in [1..q -> Seq(S)]
    BY <2>1, <2>2
  <2> QED BY <2>2, <2>3
<1> HIDE DEF B
<1>5. ASSUME NEW b \in 1..q, NEW c \in 1..q, NEW j \in DOMAIN B[b], NEW k \in DOMAIN B[c], B[b][j] = B[c][k]
      PROVE  b = c /\ j = k
  <2>1. /\ j \in 1..(l[b] - f[b] + 1) /\ f[b] \in 1..n /\ l[b] \in f[b]..n
        /\ k \in 1..(l[c] - f[c] + 1) /\ f[c] \in 1..n /\ l[c] \in f[c]..n
    BY <1>2, <1>3
  <2>2. s[f[b] + j - 1] = s[f[c] + k - 1]
    BY <2>1, <1>3, <1>5
  <2>3. Meeting(n, f[b], l[b], f[c], l[c], j, k)
    BY <2>1, PlaceInBoth
  <2>4. f[b] + j - 1 = f[c] + k - 1
    BY <2>2, <2>3 DEF Enumerates, Meeting
  <2>5. ~(l[b] < f[c]) /\ ~(l[c] < f[b])
    BY <2>3, <2>4 DEF Meeting
  <2>6. ~(b < c) /\ ~(c < b)
    BY <2>5 DEF Consecutive
  <2>7. b = c
    BY <2>6
  <2> QED BY <2>3, <2>4, <2>7 DEF Meeting
<1>6. ASSUME NEW x \in S PROVE \E b \in 1..q : \E j \in DOMAIN B[b] : B[b][j] = x
  <2>1. PICK p \in 1..n : s[p] = x
    BY DEF Enumerates
  <2>2. PICK b \in 1..q : f[b] <= p /\ p <= l[b]
    BY DEF Consecutive
  <2>3. f[b] \in 1..n /\ l[b] \in f[b]..n
    BY <1>2
  <2>4. p - f[b] + 1 \in 1..(l[b] - f[b] + 1) /\ f[b] + (p - f[b] + 1) - 1 = p
    BY <2>2, <2>3
  <2>5. p - f[b] + 1 \in DOMAIN B[b] /\ B[b][p - f[b] + 1] = s[p]
    BY <2>4, <1>3
  <2> QED BY <2>1, <2>5
<1> QED
  <2>1. Partition(B, S)
    <3>1. \A b \in DOMAIN B : B[b] # <<>>
      BY <1>3, <1>4
    <3>2. /\ \A b \in DOMAIN B : \A j, k \in DOMAIN B[b] : B[b][j] = B[b][k] => j = k
          /\ \A b, c \in DOMAIN B : \A j \in DOMAIN B[b], k \in DOMAIN B[c] : B[b][j] = B[c][k] => b = c
      BY <1>4, <1>5
    <3>3. \A x \in S : \E b \in DOMAIN B : \E j \in DOMAIN B[b] : B[b][j] = x
      BY <1>4, <1>6
    <3> QED BY <1>4, <3>1, <3>2, <3>3 DEF Partition
  <2> QED BY <2>1 DEF B

\* The batches of a list of places are such slices.
LEMMA BatchesIs ==
  ASSUME NEW n \in Nat \ {0}, NEW S, NEW s \in [1..n -> S], NEW size \in Nat \ {0}, Enumerates(s, n, S)
  PROVE  Partition(Batches(s, size), S)
<1> DEFINE q == (n + size - 1) \div size
           f == [b \in 1..q |-> (b - 1) * size + 1]
           l == [b \in 1..q |-> IF b * size < n THEN b * size ELSE n]
<1>1. Len(s) = n
  OBVIOUS
<1>2. q \in Nat /\ q * size \in Int /\ q * size <= n + size - 1 /\ n + size - 1 < q * size + size
  BY Divided
<1>3. Batches(s, size) = [b \in 1..q |-> SubSeq(s, f[b], l[b])]
  BY <1>1 DEF Batches
<1> HIDE DEF q
<1>4. ASSUME NEW b \in 1..q
      PROVE  /\ b * size \in Int /\ f[b] = b * size - size + 1 /\ f[b] \in 1..n /\ l[b] \in f[b]..n
             /\ l[b] <= b * size
  <2>1. /\ b * size \in Int /\ f[b] = b * size - size + 1
        /\ size <= b * size /\ b * size <= q * size
    <3>1. 1 * size = size /\ b \in Int /\ 1 <= b /\ b <= q /\ q \in Int
      BY <1>2
    <3>2. (b - 1) * size = b * size - size /\ b * size \in Int
      BY <3>1, Multiples
    <3>3. 1 * size <= b * size /\ b * size <= q * size
      BY <3>1, Multiples
    <3> QED BY <3>1, <3>2, <3>3
  <2>2. l[b] = IF b * size < n THEN b * size ELSE n
    OBVIOUS
  <2> HIDE DEF f, l
  <2> QED BY <2>1, <2>2, <1>2
<1>5. ASSUME NEW b \in 1..q, NEW c \in 1..q, b < c PROVE l[b] < f[c]
  <2>1. b * size + size <= c * size
    BY <1>5, Multiples
  <2>2. /\ b * size \in Int /\ l[b] \in Int /\ l[b] <= b * size
        /\ c * size \in Int /\ f[c] = c * size - size + 1
    BY <1>4
  <2> HIDE DEF f, l
  <2> QED BY <2>1, <2>2
<1>6. ASSUME NEW p \in 1..n PROVE \E b \in 1..q : f[b] <= p /\ p <= l[b]
  <2> DEFINE r == (p - 1) \div size
  <2>1. r \in Nat /\ r * size \in Int /\ r * size <= p - 1 /\ p - 1 < r * size + size
    BY Divided
  <2> HIDE DEF r
  <2>2. r < q
    <3>1. SUFFICES ASSUME q <= r PROVE FALSE
      BY <2>1, <1>2
    <3>2. q * size <= r * size
      BY <3>1, <1>2, <2>1, Multiples
    <3> QED BY <3>2, <2>1, <1>2
  <2>3. r + 1 \in 1..q /\ (r + 1) * size = r * size + size
    BY <2>1, <2>2, <1>2
  <2>4. f[r + 1] = r * size + 1 /\ l[r + 1] = IF r * size + size < n THEN r * size + size ELSE n
    <3>1. (r + 1) - 1 = r
      BY <2>1
    <3> QED BY <2>3, <3>1
  <2> HIDE DEF f, l
  <2>5. f[r + 1] <= p /\ p <= l[r + 1]
    BY <2>1, <2>4
  <2> QED BY <2>3, <2>5
<1> HIDE DEF f, l
<1>7. Consecutive(f, l, q, n)
  BY <1>4, <1>5, <1>6 DEF Consecutive
<1>8. Partition([b \in 1..q |-> SubSeq(s, f[b], l[b])], S)
  BY <1>2, <1>7, SlicesPartition
<1> QED BY <1>3, <1>8

Kinds    == StrictKinds \cup SoftKinds
Statuses == {"waiting", "asked", "singly", "done"}
Fields   == {"kind", "texts", "batches", "valid", "at", "tries", "got", "failed", "refused", "progress", "outcome"}

Blank(c)  == {i \in DOMAIN c.texts : c.texts[i] = EmptyText}
Places(c) == DOMAIN c.texts \ Blank(c)

\* A call and its parts.
IsCall(c) ==
  /\ DOMAIN c = Fields
  /\ c.texts \in Seq(Texts \cup {EmptyText})
  /\ c.got \in [DOMAIN c.texts -> Texts \cup {NoVector}]
  /\ c.at \in [DOMAIN c.batches -> Statuses] /\ c.tries \in [DOMAIN c.batches -> Nat]
  /\ c.failed \subseteq DOMAIN c.texts /\ c.refused \subseteq DOMAIN c.texts
  /\ c.outcome \in {"idle", "running", "returned", "raised"}
  /\ c.outcome # "idle" => c.kind \in Kinds
  /\ Partition(c.batches, Places(c))

\* A text no request answered yet, and one that has its vector or failed.
Fresh(c, i)   == i \notin c.failed /\ c.got[i] = NoVector
Settled(c, i) == IF i \in c.failed THEN c.got[i] = NoVector ELSE c.got[i] = c.texts[i]

BatchKnown(c, b) ==
  /\ c.at[b] \in {"waiting", "asked"} => \A j \in DOMAIN c.batches[b] : Fresh(c, c.batches[b][j])
  /\ c.at[b] = "singly" =>
       /\ c.kind = "soft" /\ c.tries[b] \in DOMAIN c.batches[b]
       /\ \A j \in DOMAIN c.batches[b] :
            IF j < c.tries[b] THEN Settled(c, c.batches[b][j]) ELSE Fresh(c, c.batches[b][j])
  /\ c.at[b] = "done" => \A j \in DOMAIN c.batches[b] : Settled(c, c.batches[b][j])

Known(c) == /\ \A i \in Blank(c) : i \in c.failed /\ c.got[i] = NoVector
            /\ \A b \in DOMAIN c.batches : BatchKnown(c, b)

\* The texts that are done with: the blank ones and those of finished batches.
DoneWith(c) == Blank(c) \cup {i \in Places(c) : \E b \in DOMAIN c.batches : c.at[b] = "done" /\ i \in ToSet(c.batches[b])}

Accounted(c) ==
  c.outcome = "returned" =>
    /\ \A i \in DOMAIN c.texts :
         IF i \in c.failed THEN c.kind \in SoftKinds /\ c.got[i] = NoVector
         ELSE c.got[i] = c.texts[i]
    /\ c.progress = Len(c.texts)

Clean(c) == c.outcome = "running" /\ c.kind \in {"strict", "strict local"} => c.failed = {}

Good(c) == IsCall(c) /\ Known(c) /\ c.progress = Cardinality(DoneWith(c)) /\ Clean(c) /\ Accounted(c)

GInv == cached = <<>> /\ calls \in 0..MaxCalls /\ Good(call)

-----------------------------------------------------------------------------
\* What a batch of a call is: some of its places, each once, and no place of another batch.
LEMMA PartOf ==
  ASSUME NEW c, IsCall(c), NEW b \in DOMAIN c.batches
  PROVE  /\ ToSet(c.batches[b]) \subseteq Places(c) /\ Places(c) \subseteq DOMAIN c.texts
         /\ c.batches[b] # <<>> /\ c.batches[b] \in Seq(Places(c))
         /\ DOMAIN c.batches[b] = 1..Len(c.batches[b]) /\ Len(c.batches[b]) \in Nat \ {0}
         /\ \A j \in DOMAIN c.batches[b] : c.batches[b][j] \in ToSet(c.batches[b])
         /\ \A e \in DOMAIN c.batches \ {b} : \A j \in DOMAIN c.batches[e] : c.batches[e][j] \notin ToSet(c.batches[b])
<1>1. Partition(c.batches, Places(c))
  BY DEF IsCall
<1>2. c.batches \in Seq(Seq(Places(c))) /\ c.batches[b] # <<>>
  BY <1>1 DEF Partition
<1>3. c.batches[b] \in Seq(Places(c))
  BY <1>2
<1>4. DOMAIN c.batches[b] = 1..Len(c.batches[b]) /\ Len(c.batches[b]) \in Nat \ {0}
  BY <1>2, <1>3
<1>5. ToSet(c.batches[b]) \subseteq Places(c) /\ \A j \in DOMAIN c.batches[b] : c.batches[b][j] \in ToSet(c.batches[b])
  BY <1>3 DEF ToSet
<1>6. ASSUME NEW e \in DOMAIN c.batches \ {b}, NEW j \in DOMAIN c.batches[e]
      PROVE  c.batches[e][j] \notin ToSet(c.batches[b])
  BY <1>1 DEF Partition, ToSet
<1> QED BY <1>2, <1>3, <1>4, <1>5, <1>6 DEF Places

\* What a step at one batch does to the places of the others: nothing.
LEMMA OneBatch ==
  ASSUME NEW c, NEW d, NEW b \in DOMAIN c.batches, IsCall(c), Known(c),
         d.kind = c.kind, d.texts = c.texts, d.batches = c.batches,
         \A e \in DOMAIN c.batches \ {b} : d.at[e] = c.at[e] /\ d.tries[e] = c.tries[e],
         \A i \in DOMAIN c.texts \ ToSet(c.batches[b]) : d.got[i] = c.got[i] /\ (i \in d.failed <=> i \in c.failed),
         BatchKnown(d, b)
  PROVE  Known(d)
<1>1. Blank(d) = Blank(c)
  BY DEF Blank
<1>2. ASSUME NEW i \in Blank(c) PROVE i \in d.failed /\ d.got[i] = NoVector
  <2>1. i \in DOMAIN c.texts \ ToSet(c.batches[b])
    BY PartOf DEF Places, Blank
  <2> QED BY <2>1 DEF Known
<1>3. ASSUME NEW e \in DOMAIN c.batches PROVE BatchKnown(d, e)
  <2>1. CASE e = b
    BY <2>1
  <2>2. CASE e # b
    <3>1. BatchKnown(c, e) /\ d.at[e] = c.at[e] /\ d.tries[e] = c.tries[e]
      BY <2>2 DEF Known
    <3>2. ASSUME NEW j \in DOMAIN c.batches[e]
          PROVE  /\ Fresh(c, c.batches[e][j]) => Fresh(d, c.batches[e][j])
                 /\ Settled(c, c.batches[e][j]) => Settled(d, c.batches[e][j])
      <4> DEFINE i == c.batches[e][j]
      <4>1. i \notin ToSet(c.batches[b]) /\ i \in ToSet(c.batches[e]) /\ ToSet(c.batches[e]) \subseteq DOMAIN c.texts
        BY <2>2, PartOf
      <4> HIDE DEF i
      <4>2. d.got[i] = c.got[i] /\ (i \in d.failed <=> i \in c.failed)
        BY <4>1
      <4>3. (Fresh(c, i) => Fresh(d, i)) /\ (Settled(c, i) => Settled(d, i))
        BY <4>2 DEF Fresh, Settled
      <4> QED BY <4>3 DEF i
    <3> QED BY <3>1, <3>2 DEF BatchKnown
  <2> QED BY <2>1, <2>2
<1> QED BY <1>1, <1>2, <1>3 DEF Known

\* The texts done with are some of the texts.
LEMMA DoneWithIs ==
  ASSUME NEW c, IsCall(c)
  PROVE  /\ DoneWith(c) \subseteq DOMAIN c.texts /\ DOMAIN c.texts = 1..Len(c.texts) /\ Len(c.texts) \in Nat
         /\ IsFiniteSet(DOMAIN c.texts) /\ Cardinality(DOMAIN c.texts) = Len(c.texts)
         /\ IsFiniteSet(DoneWith(c))
<1>1. DOMAIN c.texts = 1..Len(c.texts) /\ Len(c.texts) \in Nat
  BY DEF IsCall
<1>2. IsFiniteSet(DOMAIN c.texts) /\ Cardinality(DOMAIN c.texts) = Len(c.texts)
  BY <1>1, FS_Interval
<1>3. DoneWith(c) \subseteq DOMAIN c.texts
  BY DEF DoneWith, Blank, Places
<1> QED BY <1>1, <1>2, <1>3, FS_Subset

\* A list without repetitions has as many members as places.
LEMMA ListSize ==
  ASSUME NEW S, NEW s \in Seq(S), \A j, k \in DOMAIN s : s[j] = s[k] => j = k
  PROVE  IsFiniteSet(ToSet(s)) /\ Cardinality(ToSet(s)) = Len(s)
<1>1. DOMAIN s = 1..Len(s) /\ Len(s) \in Nat
  OBVIOUS
<1>2. IsFiniteSet(1..Len(s)) /\ Cardinality(1..Len(s)) = Len(s)
  BY <1>1, FS_Interval
<1>3. s \in Bijection(1..Len(s), ToSet(s))
  BY <1>1 DEF ToSet, Bijection, Injection, Surjection, IsInjective
<1> QED BY <1>2, <1>3, FS_Bijection DEF ExistsBijection

\* A batch that ends counts its texts.
LEMMA BatchEnds ==
  ASSUME NEW c, NEW d, NEW b \in DOMAIN c.batches, IsCall(c), c.progress = Cardinality(DoneWith(c)),
         d.texts = c.texts, d.batches = c.batches, c.at[b] # "done",
         d.at = [c.at EXCEPT ![b] = "done"], d.progress = c.progress + Len(c.batches[b])
  PROVE  d.progress = Cardinality(DoneWith(d))
<1> DEFINE batch == ToSet(c.batches[b])
<1>1. Blank(d) = Blank(c) /\ Places(d) = Places(c)
  BY DEF Blank, Places
<1>2. batch \subseteq Places(c)
  BY PartOf
<1>3. d.at[b] = "done" /\ \A e \in DOMAIN c.batches \ {b} : d.at[e] = c.at[e]
  BY DEF IsCall
<1>4. DoneWith(d) = DoneWith(c) \cup batch
  BY <1>1, <1>2, <1>3 DEF DoneWith
<1>5. DoneWith(c) \cap batch = {}
  <2> SUFFICES ASSUME NEW i \in batch, i \in DoneWith(c) PROVE FALSE
    OBVIOUS
  <2>1. i \in Places(c)
    BY <1>2
  <2>2. PICK e \in DOMAIN c.batches : c.at[e] = "done" /\ i \in ToSet(c.batches[e])
    BY <2>1 DEF DoneWith, Places
  <2>3. e # b
    BY <2>2
  <2> QED BY <2>2, <2>3, PartOf DEF ToSet
<1>6. IsFiniteSet(batch) /\ Cardinality(batch) = Len(c.batches[b])
  <2>1. c.batches[b] \in Seq(Places(c))
    BY PartOf
  <2>2. \A j, k \in DOMAIN c.batches[b] : c.batches[b][j] = c.batches[b][k] => j = k
    BY DEF IsCall, Partition
  <2> QED BY <2>1, <2>2, ListSize
<1>7. IsFiniteSet(DoneWith(c))
  BY DoneWithIs
<1> HIDE DEF batch
<1>8. Cardinality(DoneWith(c) \cup batch) = Cardinality(DoneWith(c)) + Len(c.batches[b])
  <2>1. Cardinality(DoneWith(c) \cap batch) = 0
    BY <1>5, FS_EmptySet
  <2>2. Cardinality(DoneWith(c)) \in Nat /\ Cardinality(batch) \in Nat
    BY <1>6, <1>7, FS_CardinalityType
  <2>3. Cardinality(DoneWith(c) \cup batch) = Cardinality(DoneWith(c)) + Cardinality(batch) - Cardinality(DoneWith(c) \cap batch)
    BY <1>6, <1>7, FS_Union
  <2> QED BY <2>1, <2>2, <2>3, <1>6
<1> QED BY <1>4, <1>8

\* Nothing is known of a call whose outcome did not end in "returned" beyond its parts.
LEMMA GoodIs ==
  ASSUME NEW d, IsCall(d), Known(d), d.progress = Cardinality(DoneWith(d)), d.outcome \in {"running", "raised"},
         Clean(d)
  PROVE  Good(d)
BY DEF Good, Accounted

\* All that is known when every batch is done.
LEMMA AllDone ==
  ASSUME NEW c, Good(c), \A b \in DOMAIN c.batches : c.at[b] = "done"
  PROVE  /\ \A i \in DOMAIN c.texts : Settled(c, i)
         /\ c.progress = Len(c.texts)
<1>1. ASSUME NEW i \in Places(c) PROVE \E b \in DOMAIN c.batches : \E j \in DOMAIN c.batches[b] : c.batches[b][j] = i
  BY DEF Good, IsCall, Partition
<1>2. ASSUME NEW i \in DOMAIN c.texts PROVE Settled(c, i)
  <2>1. CASE i \in Blank(c)
    BY <2>1 DEF Good, Known, Settled
  <2>2. CASE i \in Places(c)
    <3>1. PICK b \in DOMAIN c.batches : \E j \in DOMAIN c.batches[b] : c.batches[b][j] = i
      BY <1>1, <2>2
    <3>2. BatchKnown(c, b) /\ c.at[b] = "done"
      BY DEF Good, Known
    <3> QED BY <3>1, <3>2 DEF BatchKnown
  <2> QED BY <2>1, <2>2 DEF Places
<1>3. DoneWith(c) = DOMAIN c.texts
  <2>1. ASSUME NEW i \in Places(c) PROVE i \in DoneWith(c)
    <3>1. PICK b \in DOMAIN c.batches : \E j \in DOMAIN c.batches[b] : c.batches[b][j] = i
      BY <1>1
    <3> QED BY <3>1 DEF DoneWith, ToSet
  <2> QED BY <2>1, DoneWithIs DEF Good, DoneWith, Places
<1> QED BY <1>2, <1>3, DoneWithIs DEF Good

\* A step that moves one batch, before its texts are done with.
Moves(c, d, b, status, n) ==
  /\ DOMAIN d = Fields /\ d.kind = c.kind /\ d.texts = c.texts /\ d.batches = c.batches /\ d.got = c.got
  /\ d.failed = c.failed /\ d.refused = c.refused /\ d.progress = c.progress /\ d.outcome = c.outcome
  /\ d.at = [c.at EXCEPT ![b] = status] /\ d.tries = [c.tries EXCEPT ![b] = n]

\* A batch that is sent, sent again or taken apart leaves a good call good.
LEMMA BatchMoves ==
  ASSUME NEW c, NEW b \in DOMAIN c.batches, Good(c), c.outcome = "running", c.at[b] \in {"waiting", "asked"},
         NEW status \in {"asked", "singly"}, NEW n \in Nat, status = "singly" => c.kind = "soft" /\ n = 1,
         NEW d, Moves(c, d, b, status, n)
  PROVE  Good(d)
<1> USE DEF Moves
<1>1. IsCall(c) /\ Known(c) /\ c.progress = Cardinality(DoneWith(c)) /\ Clean(c)
  BY DEF Good
<1>3. /\ d.at \in [DOMAIN c.batches -> Statuses] /\ d.tries \in [DOMAIN c.batches -> Nat]
      /\ d.at[b] = status /\ d.tries[b] = n
      /\ \A e \in DOMAIN c.batches \ {b} : d.at[e] = c.at[e] /\ d.tries[e] = c.tries[e]
  BY <1>1 DEF IsCall, Statuses
<1>4. Places(d) = Places(c) /\ Blank(d) = Blank(c)
  BY DEF Places, Blank
<1>5. IsCall(d)
  BY <1>1, <1>3, <1>4 DEF IsCall
<1>6. BatchKnown(d, b)
  <2>1. \A j \in DOMAIN c.batches[b] : Fresh(d, c.batches[b][j])
    BY <1>1 DEF Known, BatchKnown, Fresh
  <2>2. 1 \in DOMAIN c.batches[b] /\ \A j \in DOMAIN c.batches[b] : ~(j < 1)
    BY <1>1, PartOf
  <2> QED BY <2>1, <2>2, <1>3 DEF BatchKnown
<1>7. Known(d)
  BY <1>1, <1>3, <1>6, OneBatch
<1>8. DoneWith(d) = DoneWith(c)
  BY <1>3, <1>4 DEF DoneWith
<1> QED BY <1>1, <1>5, <1>7, <1>8, GoodIs DEF Clean

\* A step that ends one batch: each of its texts has its vector or failed.
EndsBatch(c, d, b) ==
  /\ DOMAIN d = Fields /\ d.kind = c.kind /\ d.texts = c.texts /\ d.batches = c.batches /\ d.outcome = c.outcome
  /\ d.at = [c.at EXCEPT ![b] = "done"] /\ d.tries = c.tries /\ d.progress = c.progress + Len(c.batches[b])
  /\ d.failed \subseteq DOMAIN c.texts /\ d.refused \subseteq DOMAIN c.texts
  /\ d.got \in [DOMAIN c.texts -> Texts \cup {NoVector}]
  /\ \A i \in DOMAIN c.texts \ ToSet(c.batches[b]) : d.got[i] = c.got[i] /\ (i \in d.failed <=> i \in c.failed)
  /\ \A j \in DOMAIN c.batches[b] : Settled(d, c.batches[b][j])
  /\ c.kind \in {"strict", "strict local"} => d.failed = c.failed

\* A batch that ends leaves a good call good.
LEMMA BatchDone ==
  ASSUME NEW c, NEW b \in DOMAIN c.batches, Good(c), c.outcome = "running", c.at[b] \in {"asked", "singly"},
         NEW d, EndsBatch(c, d, b)
  PROVE  Good(d)
<1> USE DEF EndsBatch
<1>1. IsCall(c) /\ Known(c) /\ c.progress = Cardinality(DoneWith(c)) /\ Clean(c)
  BY DEF Good
<1>2. /\ d.at \in [DOMAIN c.batches -> Statuses]
      /\ d.at[b] = "done" /\ c.at[b] # "done"
      /\ \A e \in DOMAIN c.batches \ {b} : d.at[e] = c.at[e] /\ d.tries[e] = c.tries[e]
  BY <1>1 DEF IsCall, Statuses
<1>3. Places(d) = Places(c)
  BY DEF Places, Blank
<1>4. IsCall(d)
  BY <1>1, <1>2, <1>3 DEF IsCall
<1>5. BatchKnown(d, b)
  BY <1>2 DEF BatchKnown
<1>6. Known(d)
  BY <1>1, <1>2, <1>5, OneBatch
<1>7. d.progress = Cardinality(DoneWith(d))
  BY <1>1, <1>2, BatchEnds
<1> QED BY <1>1, <1>4, <1>6, <1>7, GoodIs DEF Clean

\* Without a cache (EMBEDDING_CACHE is off for these calls) there is nothing to hit.
LEMMA NoCache ==
  ASSUME cached = <<>>
  PROVE  ~CacheUsed /\ (\A text : ~Hit(text)) /\ (\A texts : CacheAll(texts) = cached)
BY DEF CacheUsed, Hit, CacheAll

\* The generator starts with no call.
LEMMA GInit == GeneratorInit => GInv
<1> SUFFICES ASSUME GeneratorInit PROVE GInv
  OBVIOUS
<1>1. /\ cached = <<>> /\ calls = 0 /\ DOMAIN call = Fields /\ call.texts = <<>> /\ call.batches = <<>>
      /\ call.at = <<>> /\ call.tries = <<>> /\ call.got = <<>> /\ call.failed = {} /\ call.refused = {}
      /\ call.progress = 0 /\ call.outcome = "idle"
  BY DEF GeneratorInit, Fields
<1>2. Blank(call) = {} /\ Places(call) = {} /\ DoneWith(call) = {}
  BY <1>1 DEF Blank, Places, DoneWith
<1>3. Partition(<<>>, {})
  BY DEF Partition
<1>4. IsCall(call)
  BY <1>1, <1>2, <1>3 DEF IsCall
<1>5. Known(call)
  BY <1>1, <1>2 DEF Known
<1>6. Good(call)
  BY <1>1, <1>2, <1>4, <1>5, FS_EmptySet DEF Good, Clean, Accounted
<1> QED BY <1>1, <1>6, BatchesAssumption DEF GInv

\* Every kind of call has batches of at least one text.
LEMMA BatchSizes ==
  ASSUME NEW kind \in Kinds, NEW n \in Nat \ {0}
  PROVE  BatchSizeOf(kind, n) \in Nat \ {0}
BY BatchesAssumption DEF BatchSizeOf, Kinds, StrictKinds, SoftKinds

\* A call is divided into batches: each text that is not blank in one of them, once.
LEMMA GSubmit ==
  ASSUME GInv, NEW kind \in Kinds, NEW texts \in Lists, Submit(kind, texts)
  PROVE  GInv'
<1> DEFINE blank == {i \in DOMAIN texts : texts[i] = EmptyText}
           hits == {i \in DOMAIN texts : Hit(texts[i])}
           places == DOMAIN texts \ (blank \cup hits)
           indices == InOrder(places)
           batches == IF indices = <<>> THEN <<>> ELSE Batches(indices, BatchSizeOf(kind, Len(indices)))
<1>1. cached' = <<>> /\ cached = <<>> /\ calls' \in 0..MaxCalls
  BY BatchesAssumption DEF GInv, Submit
<1>2. hits = {} /\ places = DOMAIN texts \ blank
  BY <1>1, NoCache
<1>3. /\ texts \in Seq(Texts \cup {EmptyText}) /\ DOMAIN texts = 1..Len(texts) /\ Len(texts) \in Nat
      /\ IsFiniteSet(DOMAIN texts) /\ places \subseteq Nat /\ IsFiniteSet(places)
  <2>1. texts \in Seq(Texts \cup {EmptyText})
    BY BatchesAssumption
  <2>2. DOMAIN texts = 1..Len(texts) /\ Len(texts) \in Nat
    BY <2>1
  <2>3. IsFiniteSet(DOMAIN texts)
    BY <2>2, FS_Interval
  <2>4. places \subseteq DOMAIN texts
    OBVIOUS
  <2> HIDE DEF places
  <2> QED BY <2>1, <2>2, <2>3, <2>4, FS_Subset
<1>4. Partition(batches, places)
  <2> HIDE DEF places
  <2>1. /\ indices \in [1..Cardinality(places) -> places] /\ Cardinality(places) \in Nat
        /\ Enumerates(indices, Cardinality(places), places)
    BY <1>3, InOrderIs DEF Enumerates
  <2>2. Len(indices) = Cardinality(places)
    BY <2>1
  <2> HIDE DEF indices
  <2>3. CASE indices = <<>>
    <3>1. places = {}
      BY <2>1, <2>2, <2>3 DEF Enumerates
    <3> QED BY <3>1, <2>3 DEF Partition
  <2>4. CASE indices # <<>>
    <3>1. Cardinality(places) \in Nat \ {0}
      BY <2>1, <2>4
    <3>2. BatchSizeOf(kind, Len(indices)) \in Nat \ {0}
      BY <3>1, <2>2, BatchSizes
    <3> QED BY <3>1, <3>2, <2>1, <2>4, BatchesIs
  <2> QED BY <2>3, <2>4
<1>5. /\ DOMAIN call' = Fields /\ call'.kind = kind /\ call'.texts = texts /\ call'.batches = batches
      /\ call'.at = [b \in DOMAIN batches |-> "waiting"] /\ call'.tries = [b \in DOMAIN batches |-> 1]
      /\ call'.got = [i \in DOMAIN texts |-> NoVector] /\ call'.failed = blank /\ call'.refused = {}
      /\ call'.progress = Cardinality(blank)
      /\ call'.outcome = IF kind \in StrictKinds /\ blank # {} THEN "raised" ELSE "running"
  <2>1. call' = [kind |-> kind, texts |-> texts, batches |-> batches, valid |-> Len(indices),
                 at |-> [b \in DOMAIN batches |-> "waiting"],
                 tries |-> [b \in DOMAIN batches |-> 1],
                 got |-> [i \in DOMAIN texts |-> IF i \in hits THEN texts[i] ELSE NoVector],
                 failed |-> blank, refused |-> {},
                 progress |-> Cardinality(blank \cup hits),
                 outcome |-> IF kind \in StrictKinds /\ blank # {} THEN "raised" ELSE "running"]
    BY DEF Submit
  <2> HIDE DEF batches, indices, places, blank, hits
  <2> QED BY <2>1, <1>2 DEF Fields
<1> HIDE DEF batches, indices, places, hits
<1> DEFINE d == call'
<1>6. Blank(d) = blank /\ Places(d) = places
  BY <1>2, <1>5 DEF Blank, Places
<1>7. IsCall(d)
  <2>1. d.got \in [DOMAIN texts -> Texts \cup {NoVector}] /\ blank \subseteq DOMAIN texts
    BY <1>5
  <2>2. d.at \in [DOMAIN batches -> Statuses] /\ d.tries \in [DOMAIN batches -> Nat]
    BY <1>5 DEF Statuses
  <2> HIDE DEF blank
  <2> QED BY <1>3, <1>4, <1>5, <1>6, <2>1, <2>2 DEF IsCall
<1>8. Known(d)
  <2>1. \A i \in blank : i \in d.failed /\ d.got[i] = NoVector
    BY <1>5
  <2>2. ASSUME NEW b \in DOMAIN batches PROVE BatchKnown(d, b)
    <3>1. d.at[b] = "waiting"
      BY <1>5
    <3>2. ASSUME NEW j \in DOMAIN batches[b] PROVE batches[b][j] \in DOMAIN texts \ blank
      BY <1>2, <1>4 DEF Partition
    <3>3. \A j \in DOMAIN batches[b] : Fresh(d, batches[b][j])
      BY <3>2, <1>5 DEF Fresh
    <3> QED BY <3>1, <3>3, <1>5 DEF BatchKnown
  <2> QED BY <2>1, <2>2, <1>5, <1>6 DEF Known
<1>9. DoneWith(d) = blank
  BY <1>5, <1>6 DEF DoneWith
<1>10. Good(d)
  <2>1. Clean(d)
    BY <1>5 DEF Clean, StrictKinds
  <2> HIDE DEF blank
  <2> QED BY <1>5, <1>7, <1>8, <1>9, <2>1, GoodIs
<1> QED BY <1>1, <1>10 DEF GInv

\* A batch is sent, or sent again after a rate limit.
LEMMA GSendBatch ==
  ASSUME GInv, NEW b \in DOMAIN call.batches, SendBatch(b) \/ RateLimited(b)
  PROVE  GInv'
<1>1. Good(call) /\ call.outcome = "running" /\ cached' = cached /\ calls' = calls
  BY DEF GInv, SendBatch, RateLimited
<1>2. DOMAIN call = Fields /\ call.at \in [DOMAIN call.batches -> Statuses] /\ call.tries \in [DOMAIN call.batches -> Nat]
  BY <1>1 DEF Good, IsCall
<1>3. PICK n \in Nat : Moves(call, call', b, "asked", n) /\ call.at[b] \in {"waiting", "asked"}
  <2>1. CASE SendBatch(b)
    <3>1. call.tries = [call.tries EXCEPT ![b] = call.tries[b]] /\ call.tries[b] \in Nat
      BY <1>2
    <3> QED BY <2>1, <3>1, <1>2 DEF SendBatch, Fields, Moves
  <2>2. CASE RateLimited(b)
    <3>1. call.tries[b] + 1 \in Nat
      BY <1>2
    <3>2. call.at = [call.at EXCEPT ![b] = "asked"]
      BY <2>2, <1>2 DEF RateLimited
    <3> QED BY <2>2, <3>1, <3>2, <1>2 DEF RateLimited, Fields, Moves
  <2> QED BY <2>1, <2>2
<1>4. Good(call')
  BY <1>1, <1>3, BatchMoves
<1> QED BY <1>1, <1>4 DEF GInv

\* What an asked batch is.
LEMMA AskedBatch ==
  ASSUME NEW c, Good(c), NEW b \in DOMAIN c.batches, c.at[b] = "asked"
  PROVE  /\ ToSet(c.batches[b]) \subseteq DOMAIN c.texts
         /\ \A i \in ToSet(c.batches[b]) : Fresh(c, i) /\ c.texts[i] \in Texts
         /\ \A j \in DOMAIN c.batches[b] : c.batches[b][j] \in ToSet(c.batches[b])
<1>1. IsCall(c) /\ BatchKnown(c, b)
  BY DEF Good, Known
<1>2. ToSet(c.batches[b]) \subseteq Places(c) /\ \A j \in DOMAIN c.batches[b] : c.batches[b][j] \in ToSet(c.batches[b])
  BY <1>1, PartOf
<1>3. ASSUME NEW i \in ToSet(c.batches[b]) PROVE Fresh(c, i)
  BY <1>1 DEF ToSet, BatchKnown
<1>4. ASSUME NEW i \in Places(c) PROVE c.texts[i] \in Texts /\ i \in DOMAIN c.texts
  BY <1>1 DEF IsCall, Places, Blank
<1> QED BY <1>2, <1>3, <1>4

\* A batch that fails: its texts are named.
LEMMA BatchFails ==
  ASSUME NEW c, Good(c), NEW b \in DOMAIN c.batches, c.at[b] = "asked", c.outcome = "running",
         c.kind \notin {"strict", "strict local"}, NEW R \in {c.refused, c.refused \cup ToSet(c.batches[b])}
  PROVE  Good([c EXCEPT !.refused = R, !.failed = @ \cup ToSet(c.batches[b]), !.at[b] = "done",
                        !.progress = @ + Len(c.batches[b])])
<1> DEFINE batch == ToSet(c.batches[b])
           d == [c EXCEPT !.refused = R, !.failed = @ \cup batch, !.at[b] = "done", !.progress = @ + Len(c.batches[b])]
<1>1. DOMAIN c = Fields /\ IsCall(c)
  BY DEF Good, IsCall
<1>2. /\ batch \subseteq DOMAIN c.texts /\ \A i \in batch : Fresh(c, i)
      /\ \A j \in DOMAIN c.batches[b] : c.batches[b][j] \in batch
  BY AskedBatch
<1> HIDE DEF batch
<1>3. /\ DOMAIN d = Fields /\ d.kind = c.kind /\ d.texts = c.texts /\ d.batches = c.batches /\ d.outcome = c.outcome
      /\ d.at = [c.at EXCEPT ![b] = "done"] /\ d.tries = c.tries /\ d.progress = c.progress + Len(c.batches[b])
      /\ d.failed = c.failed \cup batch /\ d.refused = R /\ d.got = c.got
  BY <1>1 DEF Fields
<1> HIDE DEF d
<1>4. d.failed \subseteq DOMAIN c.texts /\ d.refused \subseteq DOMAIN c.texts /\ d.got \in [DOMAIN c.texts -> Texts \cup {NoVector}]
  BY <1>1, <1>2, <1>3 DEF IsCall, batch
<1>5. \A i \in DOMAIN c.texts \ batch : d.got[i] = c.got[i] /\ (i \in d.failed <=> i \in c.failed)
  BY <1>3
<1>6. \A j \in DOMAIN c.batches[b] : Settled(d, c.batches[b][j])
  BY <1>2, <1>3 DEF Settled, Fresh
<1>7. EndsBatch(c, d, b)
  BY <1>3, <1>4, <1>5, <1>6 DEF EndsBatch, batch
<1>8. Good(d)
  BY <1>7, BatchDone
<1> QED BY <1>8 DEF d, batch

\* A batch is answered: its vectors are stored at the places of its texts.
LEMMA GBatchAnswered ==
  ASSUME GInv, NEW b \in DOMAIN call.batches, BatchAnswered(b)
  PROVE  GInv'
<1> DEFINE batch == ToSet(call.batches[b])
<1>1. Good(call) /\ call.outcome = "running" /\ call.at[b] = "asked" /\ cached' = <<>> /\ calls' = calls /\ IsCall(call)
      /\ DOMAIN call = Fields /\ calls \in 0..MaxCalls
  <2>1. cached' = cached
    BY NoCache DEF GInv, BatchAnswered
  <2> QED BY <2>1 DEF GInv, BatchAnswered, Good, IsCall
<1>2. CASE call.kind \in ConcurrentKinds /\ Beyond(b)
  <2>1. call' = [call EXCEPT !.at[b] = "done", !.failed = @ \cup batch, !.progress = @ + Len(call.batches[b])]
    BY <1>2 DEF BatchAnswered
  <2>2. call.kind \notin {"strict", "strict local"}
    BY <1>2 DEF ConcurrentKinds
  <2> HIDE DEF batch
  <2>3. call' = [call EXCEPT !.refused = call.refused, !.failed = @ \cup batch, !.at[b] = "done",
                             !.progress = @ + Len(call.batches[b])]
    BY <2>1, <1>1 DEF Fields
  <2>4. Good(call')
    BY <1>1, <2>2, <2>3, BatchFails DEF batch
  <2> QED BY <1>1, <2>4 DEF GInv
<1>3. CASE ~(call.kind \in ConcurrentKinds /\ Beyond(b))
  <2>1. call' = [call EXCEPT !.at[b] = "done", !.got = Stored(b), !.progress = @ + Len(call.batches[b])]
    BY <1>3 DEF BatchAnswered
  <2>2. /\ batch \subseteq DOMAIN call.texts /\ \A i \in batch : Fresh(call, i) /\ call.texts[i] \in Texts
        /\ \A j \in DOMAIN call.batches[b] : call.batches[b][j] \in batch
    BY <1>1, AskedBatch
  <2>3. Stored(b) = [i \in DOMAIN call.texts |-> IF i \in batch THEN call.texts[i] ELSE call.got[i]]
    BY <1>1 DEF Stored, IsCall
  <2> DEFINE d == call'
  <2> HIDE DEF batch
  <2>4. /\ DOMAIN d = Fields /\ d.kind = call.kind /\ d.texts = call.texts /\ d.batches = call.batches /\ d.outcome = call.outcome
        /\ d.at = [call.at EXCEPT ![b] = "done"] /\ d.tries = call.tries /\ d.progress = call.progress + Len(call.batches[b])
        /\ d.failed = call.failed /\ d.refused = call.refused /\ d.got = Stored(b)
    BY <1>1, <2>1 DEF Fields
  <2>5. d.failed \subseteq DOMAIN call.texts /\ d.refused \subseteq DOMAIN call.texts /\ d.got \in [DOMAIN call.texts -> Texts \cup {NoVector}]
    <3>1. \A i \in DOMAIN call.texts : call.got[i] \in Texts \cup {NoVector}
      BY <1>1 DEF IsCall
    <3>2. d.got \in [DOMAIN call.texts -> Texts \cup {NoVector}]
      BY <2>2, <2>3, <2>4, <3>1
    <3> QED BY <1>1, <2>4, <3>2 DEF IsCall
  <2>6. \A i \in DOMAIN call.texts \ batch : d.got[i] = call.got[i] /\ (i \in d.failed <=> i \in call.failed)
    BY <2>3, <2>4
  <2>7. \A j \in DOMAIN call.batches[b] : Settled(d, call.batches[b][j])
    BY <2>2, <2>3, <2>4 DEF Settled, Fresh
  <2> HIDE DEF d
  <2>8. EndsBatch(call, d, b)
    BY <2>4, <2>5, <2>6, <2>7 DEF EndsBatch, batch
  <2>9. Good(d)
    BY <1>1, <2>8, BatchDone
  <2> QED BY <1>1, <2>9 DEF GInv, d
<1> QED BY <1>2, <1>3

\* A call that raises.
LEMMA Raising ==
  ASSUME NEW c, Good(c), NEW how \in {"raised", "returned"}, c.outcome = "running",
         how = "returned" => Accounted([c EXCEPT !.outcome = "returned"])
  PROVE  Good([c EXCEPT !.outcome = how])
<1> DEFINE d == [c EXCEPT !.outcome = how]
<1>1. DOMAIN c = Fields /\ IsCall(c) /\ Known(c) /\ c.progress = Cardinality(DoneWith(c))
  BY DEF Good, IsCall
<1>2. /\ DOMAIN d = Fields /\ d.kind = c.kind /\ d.texts = c.texts /\ d.batches = c.batches /\ d.outcome = how
      /\ d.at = c.at /\ d.tries = c.tries /\ d.progress = c.progress
      /\ d.failed = c.failed /\ d.refused = c.refused /\ d.got = c.got
  BY <1>1 DEF Fields
<1>3. Accounted(d)
  BY <1>2 DEF Accounted
<1> HIDE DEF d
<1>4. Blank(d) = Blank(c) /\ Places(d) = Places(c) /\ DoneWith(d) = DoneWith(c)
  BY <1>2 DEF Blank, Places, DoneWith
<1>5. IsCall(d)
  BY <1>1, <1>2, <1>4 DEF IsCall
<1>6. Known(d)
  <2>1. \A i : (Fresh(d, i) <=> Fresh(c, i)) /\ (Settled(d, i) <=> Settled(c, i))
    BY <1>2 DEF Fresh, Settled
  <2>2. ASSUME NEW b \in DOMAIN c.batches PROVE BatchKnown(d, b)
    <3>1. BatchKnown(c, b)
      BY <1>1 DEF Known
    <3> QED BY <1>2, <2>1, <3>1 DEF BatchKnown
  <2> QED BY <1>1, <1>2, <1>4, <2>2 DEF Known
<1>7. Good(d)
  BY <1>1, <1>2, <1>3, <1>4, <1>5, <1>6 DEF Good, Clean
<1> QED BY <1>7 DEF d

\* A batch is refused: it is taken apart, fails, or raises, as its kind of call has it.
LEMMA GBatchRefused ==
  ASSUME GInv, NEW b \in DOMAIN call.batches, NEW why \in Refusals, BatchRefused(b, why)
  PROVE  GInv'
<1> DEFINE batch == ToSet(call.batches[b])
<1>1. Good(call) /\ call.outcome = "running" /\ call.at[b] = "asked" /\ cached' = <<>> /\ calls' = calls
      /\ DOMAIN call = Fields /\ calls \in 0..MaxCalls
  BY DEF GInv, BatchRefused, Good, IsCall
<1>2. SUFFICES Good(call')
  BY <1>1 DEF GInv
<1>3. CASE call.kind = "soft" /\ why \in {"rate limit", "too long", "api error"}
  <2>1. call' = [call EXCEPT !.at[b] = "singly", !.tries[b] = 1]
    BY <1>3 DEF BatchRefused
  <2>2. Moves(call, call', b, "singly", 1)
    BY <1>1, <2>1 DEF Moves, Fields
  <2> QED BY <1>1, <1>3, <2>2, BatchMoves
<1>4. CASE call.kind \in {"strict", "strict local"}
  <2>1. call' = [call EXCEPT !.outcome = "raised"]
    BY <1>4 DEF BatchRefused
  <2> QED BY <1>1, <2>1, Raising
<1>5. CASE ~(call.kind = "soft" /\ why \in {"rate limit", "too long", "api error"}) /\ call.kind \notin {"strict", "strict local"}
  <2>1. call' = [call EXCEPT !.refused = @ \cup batch, !.failed = @ \cup batch, !.at[b] = "done",
                                 !.progress = @ + Len(call.batches[b])]
    BY <1>5 DEF BatchRefused
  <2> QED BY <1>1, <1>5, <2>1, BatchFails
<1> QED BY <1>3, <1>4, <1>5

\* One text of a batch that is sent one by one: answered or failed, it is settled.
Tried(c, one, b, i) ==
  /\ DOMAIN one = Fields /\ one.kind = c.kind /\ one.texts = c.texts /\ one.batches = c.batches
  /\ one.outcome = c.outcome /\ one.at = c.at /\ one.tries = c.tries /\ one.progress = c.progress
  /\ one.failed \subseteq DOMAIN c.texts /\ one.refused \subseteq DOMAIN c.texts
  /\ one.got \in [DOMAIN c.texts -> Texts \cup {NoVector}]
  /\ \A j \in DOMAIN c.texts \ {i} : one.got[j] = c.got[j] /\ (j \in one.failed <=> j \in c.failed)
  /\ Settled(one, i) /\ i \in ToSet(c.batches[b]) /\ c.kind = "soft"
  /\ ToSet(c.batches[b]) \subseteq DOMAIN c.texts

\* The next text of a batch that was taken apart: after it, one more is settled.
LEMMA OneSettled ==
  ASSUME NEW c, Good(c), NEW b \in DOMAIN c.batches, c.at[b] = "singly", NEW answered \in BOOLEAN,
         NEW i, i = c.batches[b][c.tries[b]],
         NEW one, one = IF answered THEN [c EXCEPT !.got[i] = c.texts[i]]
                        ELSE [c EXCEPT !.failed = @ \cup {i}, !.refused = @ \cup {i}]
  PROVE  Tried(c, one, b, i)
<1> USE DEF Tried
<1>1. DOMAIN c = Fields /\ IsCall(c) /\ BatchKnown(c, b)
  BY DEF Good, IsCall, Known
<1>2. c.tries[b] \in DOMAIN c.batches[b] /\ Fresh(c, i) /\ c.kind = "soft"
  <2>1. c.tries[b] \in DOMAIN c.batches[b] /\ DOMAIN c.batches[b] = 1..Len(c.batches[b])
    BY <1>1, PartOf DEF BatchKnown
  <2>2. ~(c.tries[b] < c.tries[b])
    BY <2>1
  <2> QED BY <1>1, <2>1, <2>2 DEF BatchKnown
<1>3. i \in ToSet(c.batches[b]) /\ i \in Places(c) /\ ToSet(c.batches[b]) \subseteq DOMAIN c.texts
  <2>1. i \in ToSet(c.batches[b])
    BY <1>1, <1>2, PartOf
  <2>2. ToSet(c.batches[b]) \subseteq Places(c) /\ Places(c) \subseteq DOMAIN c.texts
    BY <1>1, PartOf
  <2> QED BY <2>1, <2>2
<1>4. c.texts[i] \in Texts /\ i \in DOMAIN c.texts
  <2>1. i \in DOMAIN c.texts /\ c.texts[i] # EmptyText
    BY <1>3 DEF Places, Blank
  <2>2. c.texts \in Seq(Texts \cup {EmptyText})
    BY <1>1 DEF IsCall
  <2>3. c.texts[i] \in Texts \cup {EmptyText}
    <3>1. DOMAIN c.texts = 1..Len(c.texts)
      BY <2>2, LenProperties
    <3> QED BY <2>1, <2>2, <3>1, ElementOfSeq
  <2> QED BY <2>1, <2>3
<1>5. CASE answered
  <2>1. one = [c EXCEPT !.got[i] = c.texts[i]]
    BY <1>5
  <2>2. /\ DOMAIN one = Fields /\ one.kind = c.kind /\ one.texts = c.texts /\ one.batches = c.batches
        /\ one.outcome = c.outcome /\ one.at = c.at /\ one.tries = c.tries /\ one.progress = c.progress
        /\ one.failed = c.failed /\ one.refused = c.refused /\ one.got = [c.got EXCEPT ![i] = c.texts[i]]
    BY <1>1, <2>1 DEF Fields
  <2>3. /\ one.got \in [DOMAIN c.texts -> Texts \cup {NoVector}] /\ one.got[i] = c.texts[i]
        /\ \A j \in DOMAIN c.texts \ {i} : one.got[j] = c.got[j]
    <3>1. c.got \in [DOMAIN c.texts -> Texts \cup {NoVector}] /\ c.texts[i] \in Texts \cup {NoVector}
      BY <1>1, <1>4 DEF IsCall
    <3>2. [c.got EXCEPT ![i] = c.texts[i]] \in [DOMAIN c.texts -> Texts \cup {NoVector}]
      BY <3>1
    <3>3. [c.got EXCEPT ![i] = c.texts[i]][i] = c.texts[i]
      BY <1>4, <3>1
    <3>4. \A j \in DOMAIN c.texts \ {i} : [c.got EXCEPT ![i] = c.texts[i]][j] = c.got[j]
      BY <3>1
    <3>5. one.got = [c.got EXCEPT ![i] = c.texts[i]]
      BY <2>2
    <3> QED BY <3>2, <3>3, <3>4, <3>5
  <2>4. Settled(one, i)
    BY <1>2, <2>2, <2>3 DEF Settled, Fresh
  <2> QED BY <1>1, <1>2, <1>3, <2>2, <2>3, <2>4 DEF IsCall
<1>6. CASE ~answered
  <2>1. one = [c EXCEPT !.failed = @ \cup {i}, !.refused = @ \cup {i}]
    BY <1>6
  <2>2. /\ DOMAIN one = Fields /\ one.kind = c.kind /\ one.texts = c.texts /\ one.batches = c.batches
        /\ one.outcome = c.outcome /\ one.at = c.at /\ one.tries = c.tries /\ one.progress = c.progress
        /\ one.failed = c.failed \cup {i} /\ one.refused = c.refused \cup {i} /\ one.got = c.got
    BY <1>1, <2>1 DEF Fields
  <2>3. one.failed \subseteq DOMAIN c.texts /\ one.refused \subseteq DOMAIN c.texts
    BY <1>1, <1>4, <2>2 DEF IsCall
  <2>4. Settled(one, i)
    BY <1>2, <2>2 DEF Settled, Fresh
  <2>5. \A j \in DOMAIN c.texts \ {i} : one.got[j] = c.got[j] /\ (j \in one.failed <=> j \in c.failed)
    BY <2>2
  <2> QED BY <1>1, <1>2, <1>3, <2>2, <2>3, <2>4, <2>5 DEF IsCall
<1> QED BY <1>5, <1>6

\* A text is sent by itself, and answered, refused, or fails with those after it.
LEMMA GSendOne ==
  ASSUME GInv, NEW b \in DOMAIN call.batches, NEW answered \in BOOLEAN, SendOne(b, answered)
  PROVE  GInv'
<1> DEFINE batch == call.batches[b]
           k == call.tries[b]
           i == batch[k]
           one == IF answered THEN [call EXCEPT !.got[i] = call.texts[i]]
                  ELSE [call EXCEPT !.failed = @ \cup {i}, !.refused = @ \cup {i}]
<1>1. Good(call) /\ call.outcome = "running" /\ call.at[b] = "singly" /\ calls' = calls
      /\ DOMAIN call = Fields /\ calls \in 0..MaxCalls /\ IsCall(call) /\ cached = <<>> /\ ~CacheUsed
  BY NoCache DEF GInv, SendOne, Good, IsCall
<1>2. cached' = <<>>
  <2>1. cached' = cached \/ \E texts : cached' = CacheAll(texts)
    BY Zenon DEF SendOne
  <2> QED BY <1>1, <2>1, NoCache
<1>3. call' = IF k = Len(batch) THEN [one EXCEPT !.at[b] = "done", !.progress = @ + Len(batch)]
              ELSE [one EXCEPT !.tries[b] = k + 1]
  BY DEF SendOne
<1>4. SUFFICES Good(call')
  BY <1>1, <1>2 DEF GInv
<1>5. BatchKnown(call, b) /\ k \in DOMAIN batch /\ DOMAIN batch = 1..Len(batch) /\ Len(batch) \in Nat
      /\ \A j \in DOMAIN batch : IF j < k THEN Settled(call, batch[j]) ELSE Fresh(call, batch[j])
  <2>1. BatchKnown(call, b)
    BY <1>1 DEF Good, Known
  <2> QED BY <1>1, <2>1, PartOf DEF BatchKnown
<1>6. /\ DOMAIN one = Fields /\ one.kind = call.kind /\ one.texts = call.texts /\ one.batches = call.batches
      /\ one.outcome = call.outcome /\ one.at = call.at /\ one.tries = call.tries /\ one.progress = call.progress
      /\ one.failed \subseteq DOMAIN call.texts /\ one.refused \subseteq DOMAIN call.texts
      /\ one.got \in [DOMAIN call.texts -> Texts \cup {NoVector}]
      /\ \A j \in DOMAIN call.texts \ {i} : one.got[j] = call.got[j] /\ (j \in one.failed <=> j \in call.failed)
      /\ Settled(one, i) /\ i \in ToSet(batch) /\ call.kind = "soft"
      /\ ToSet(batch) \subseteq DOMAIN call.texts
  <2>1. Tried(call, one, b, i)
    BY <1>1, OneSettled
  <2> HIDE DEF one
  <2> QED BY <2>1 DEF Tried
<1> HIDE DEF one
<1>7. \A j \in DOMAIN batch : j # k => batch[j] # i /\ batch[j] \in DOMAIN call.texts
  <2>1. \A j, l \in DOMAIN batch : batch[j] = batch[l] => j = l
    BY <1>1 DEF IsCall, Partition
  <2>2. \A j \in DOMAIN batch : batch[j] \in ToSet(batch)
    BY <1>1, PartOf
  <2> QED BY <1>5, <1>6, <2>1, <2>2
<1>8. \A j \in DOMAIN batch : IF j < k + 1 THEN Settled(one, batch[j]) ELSE Fresh(one, batch[j])
  <2> SUFFICES ASSUME NEW j \in DOMAIN batch PROVE IF j < k + 1 THEN Settled(one, batch[j]) ELSE Fresh(one, batch[j])
    OBVIOUS
  <2>1. CASE j = k
    BY <2>1, <1>5, <1>6
  <2>2. CASE j # k
    <3>1. j < k + 1 <=> j < k
      BY <2>2, <1>5
    <3>2. one.got[batch[j]] = call.got[batch[j]] /\ (batch[j] \in one.failed <=> batch[j] \in call.failed)
      BY <2>2, <1>6, <1>7
    <3> QED BY <3>1, <3>2, <1>5, <1>6 DEF Settled, Fresh
  <2> QED BY <2>1, <2>2
<1>9. \A j \in DOMAIN call.texts \ ToSet(batch) : one.got[j] = call.got[j] /\ (j \in one.failed <=> j \in call.failed)
  BY <1>6
<1>10. CASE k = Len(batch)
  <2> DEFINE d == [one EXCEPT !.at[b] = "done", !.progress = @ + Len(batch)]
  <2>1. /\ DOMAIN d = Fields /\ d.kind = call.kind /\ d.texts = call.texts /\ d.batches = call.batches /\ d.outcome = call.outcome
        /\ d.at = [call.at EXCEPT ![b] = "done"] /\ d.tries = call.tries /\ d.progress = call.progress + Len(batch)
        /\ d.failed = one.failed /\ d.refused = one.refused /\ d.got = one.got
    BY <1>6 DEF Fields
  <2>2. call' = d
    BY <1>3, <1>10
  <2> HIDE DEF d
  <2>3. \A j \in DOMAIN batch : Settled(d, batch[j])
    <3>1. \A j \in DOMAIN batch : j < k + 1
      BY <1>5, <1>10
    <3>2. \A j \in DOMAIN batch : Settled(one, batch[j])
      BY <1>8, <3>1
    <3>3. \A x : Settled(one, x) => Settled(d, x)
      BY <2>1, <1>6 DEF Settled
    <3> QED BY <3>2, <3>3
  <2>4. EndsBatch(call, d, b)
    BY <1>6, <1>9, <2>1, <2>3 DEF EndsBatch
  <2> QED BY <1>1, <2>2, <2>4, BatchDone
<1>11. CASE k # Len(batch)
  <2> DEFINE d == [one EXCEPT !.tries[b] = k + 1]
  <2>1. /\ DOMAIN d = Fields /\ d.kind = call.kind /\ d.texts = call.texts /\ d.batches = call.batches /\ d.outcome = call.outcome
        /\ d.at = call.at /\ d.tries = [call.tries EXCEPT ![b] = k + 1] /\ d.progress = call.progress
        /\ d.failed = one.failed /\ d.refused = one.refused /\ d.got = one.got
    BY <1>6 DEF Fields
  <2>2. call' = d
    BY <1>3, <1>11
  <2> HIDE DEF d
  <2>3. k + 1 \in DOMAIN batch /\ k + 1 \in Nat
    BY <1>5, <1>11
  <2>4. d.tries \in [DOMAIN call.batches -> Nat] /\ d.tries[b] = k + 1
        /\ \A e \in DOMAIN call.batches \ {b} : d.at[e] = call.at[e] /\ d.tries[e] = call.tries[e]
    BY <1>1, <2>1, <2>3 DEF IsCall
  <2>5. Blank(d) = Blank(call) /\ Places(d) = Places(call) /\ DoneWith(d) = DoneWith(call)
    BY <2>1 DEF Blank, Places, DoneWith
  <2>6. IsCall(d)
    BY <1>1, <1>6, <2>1, <2>4, <2>5 DEF IsCall
  <2>7. \A j \in DOMAIN batch : IF j < k + 1 THEN Settled(d, batch[j]) ELSE Fresh(d, batch[j])
    <3>1. \A x : (Settled(one, x) => Settled(d, x)) /\ (Fresh(one, x) => Fresh(d, x))
      BY <2>1, <1>6 DEF Settled, Fresh
    <3> QED BY <1>8, <3>1
  <2>8. BatchKnown(d, b)
    BY <1>1, <1>6, <2>1, <2>3, <2>4, <2>7 DEF BatchKnown
  <2>9. Known(d)
    <3>1. \A j \in DOMAIN call.texts \ ToSet(call.batches[b]) : d.got[j] = call.got[j] /\ (j \in d.failed <=> j \in call.failed)
      BY <1>9, <2>1
    <3>2. Known(call)
      BY <1>1 DEF Good
    <3>3. d.kind = call.kind /\ d.texts = call.texts /\ d.batches = call.batches
      BY <2>1
    <3> HIDE DEF batch, i, k
    <3> QED BY <1>1, <2>4, <2>8, <3>1, <3>2, <3>3, OneBatch
  <2>10. Clean(d)
    BY <1>6, <2>1 DEF Clean
  <2> QED BY <1>1, <2>1, <2>2, <2>5, <2>6, <2>9, <2>10, GoodIs DEF Good
<1> QED BY <1>10, <1>11

\* A call returns when its batches are done: every text is accounted for.
LEMMA GReturn ==
  ASSUME GInv, Return
  PROVE  GInv'
<1>1. Good(call) /\ call.outcome = "running" /\ calls' = calls
      /\ DOMAIN call = Fields /\ calls \in 0..MaxCalls /\ IsCall(call) /\ cached = <<>>
      /\ \A b \in DOMAIN call.batches : call.at[b] = "done"
  BY DEF GInv, Return, Good, IsCall
<1>2. cached' = <<>>
  <2>1. cached' = cached \/ \E texts : cached' = CacheAll(texts)
    BY Zenon DEF Return
  <2> QED BY <1>1, <2>1, NoCache
<1>3. SUFFICES Good(call')
  BY <1>1, <1>2 DEF GInv
<1> DEFINE how == IF call.kind = "strict concurrent" /\ call.failed # {} THEN "raised" ELSE "returned"
<1>4. call' = [call EXCEPT !.outcome = how]
  BY DEF Return
<1>5. (\A i \in DOMAIN call.texts : Settled(call, i)) /\ call.progress = Len(call.texts)
  BY <1>1, AllDone
<1>6. ASSUME how = "returned" PROVE Accounted([call EXCEPT !.outcome = "returned"])
  <2>1. call.failed # {} => call.kind \in SoftKinds
    BY <1>1, <1>6 DEF Good, Clean, IsCall, Kinds, StrictKinds
  <2> DEFINE d == [call EXCEPT !.outcome = "returned"]
  <2>2. d.failed = call.failed /\ d.got = call.got /\ d.texts = call.texts /\ d.kind = call.kind /\ d.progress = call.progress
    BY <1>1 DEF Fields
  <2> HIDE DEF d
  <2>3. Accounted(d)
    BY <1>5, <2>1, <2>2 DEF Accounted, Settled
  <2> QED BY <2>3 DEF d
<1>7. how \in {"raised", "returned"}
  OBVIOUS
<1> HIDE DEF how
<1> QED BY <1>1, <1>4, <1>6, <1>7, Raising

\* Every step of the generator keeps the invariant.
LEMMA GNext == GInv /\ [GeneratorNext]_batchVars => GInv'
<1> SUFFICES ASSUME GInv, [GeneratorNext]_batchVars PROVE GInv'
  OBVIOUS
<1>1. ASSUME NEW kind \in Kinds, NEW texts \in Lists, Submit(kind, texts) PROVE GInv'
  BY <1>1, GSubmit
<1>2. ASSUME NEW texts \in Lists,
             \/ EmbedBatch(texts) \/ EmbedBatchSoft(texts)
             \/ EmbedBatchConcurrent(texts) \/ EmbedBatchSoftConcurrent(texts)
             \/ LocalEmbedBatch(texts) \/ LocalEmbedBatchSoft(texts)
      PROVE  GInv'
  BY <1>1, <1>2 DEF EmbedBatch, EmbedBatchSoft, EmbedBatchConcurrent, EmbedBatchSoftConcurrent, LocalEmbedBatch,
                    LocalEmbedBatchSoft, Kinds, StrictKinds, SoftKinds
<1>3. ASSUME NEW b \in DOMAIN call.batches, SendBatch(b) \/ RateLimited(b) PROVE GInv'
  BY <1>3, GSendBatch
<1>4. ASSUME NEW b \in DOMAIN call.batches, BatchAnswered(b) PROVE GInv'
  BY <1>4, GBatchAnswered
<1>5. ASSUME NEW b \in DOMAIN call.batches, NEW why \in Refusals, BatchRefused(b, why) PROVE GInv'
  BY <1>5, GBatchRefused
<1>6. ASSUME NEW b \in DOMAIN call.batches, NEW answered \in BOOLEAN, SendOne(b, answered) PROVE GInv'
  BY <1>6, GSendOne
<1>7. CASE Return
  BY <1>7, GReturn
<1>8. CASE UNCHANGED batchVars
  <2>1. cached' = cached /\ call' = call /\ calls' = calls
    BY <1>8 DEF batchVars
  <2> QED BY <2>1 DEF GInv
<1> QED BY <1>2, <1>3, <1>4, <1>5, <1>6, <1>7, <1>8 DEF GeneratorNext

\* The invariant says what the checked one says.
LEMMA GImplies == GInv => GeneratorInv
<1> SUFFICES ASSUME GInv PROVE GeneratorInv
  OBVIOUS
<1>1. IsCall(call) /\ Accounted(call) /\ cached = <<>> /\ calls \in 0..MaxCalls
  BY DEF GInv, Good
<1>2. EveryTextAccounted
  BY <1>1 DEF EveryTextAccounted, Accounted
<1>3. cached \in Seq(Texts) /\ Len(cached) <= CacheSize
  BY <1>1, BatchesAssumption
<1>4. GeneratorTypeOK
  BY <1>1, <1>3 DEF GeneratorTypeOK, IsCall, Statuses
<1> QED BY <1>2, <1>4 DEF GeneratorInv

\* embed_batch_soft and its kin: a call that returns gives every text its own vector or
\* names it as failed (a strict one gives every vector), and its progress counts every text,
\* however its batches are answered, refused, taken apart, limited or repeated.
THEOREM GeneratorCorrect == GeneratorSpec => []GeneratorInv
BY GInit, GNext, GImplies, PTL DEF GeneratorSpec

-----------------------------------------------------------------------------
(***************************************************************************)
(* Retrieval: the query, the store it asks, and the deletion of a repository. *)
(*                                                                         *)
(* Merging, ranking and pruning are recursive; each of their results is shown *)
(* to be reached by steps that keep what is said of it.                    *)
(***************************************************************************)

Candidates  == [chunk : Vectors, score : Int, anchor : BOOLEAN]
Distinct(s) == \A j, k \in DOMAIN s : s[j].chunk = s[k].chunk => j = k
Shortlists  == {s \in Seq(Candidates) : Distinct(s)}

\* What a list of candidates without repetitions is.
LEMMA ShortlistIs ==
  ASSUME NEW s \in Shortlists
  PROVE  s \in Seq(Candidates) /\ Distinct(s) /\ Len(s) \in Nat /\ DOMAIN s = 1..Len(s)
         /\ \A j \in 1..Len(s) : s[j] \in Candidates
BY DEF Shortlists

\* Merging keeps the list free of repetitions.
LEMMA MergedIs ==
  ASSUME NEW primary \in Shortlists, NEW secondary \in Seq(Candidates)
  PROVE  /\ Merged(primary, secondary) \in Shortlists
         /\ secondary = <<>> => Merged(primary, secondary) = primary
<1> DEFINE n == Len(secondary)
           Step(i, acc) == IF \E j \in DOMAIN acc : acc[j].chunk = secondary[i].chunk THEN acc
                           ELSE Append(acc, secondary[i])
           merged == CHOOSE f : f = [i \in 0..n |-> IF i = 0 THEN primary ELSE Step(i, f[i - 1])]
           D == [i \in 0..n |-> Shortlists]
           G == [p \in (1..n) \X Shortlists |-> Step(p[1], p[2])]
<1>1. Merged(primary, secondary) = merged[n]
  BY DEF Merged
<1>2. n \in Nat
  OBVIOUS
<1>3. ASSUME NEW i \in 1..n, NEW acc \in Shortlists PROVE Step(i, acc) \in Shortlists
  <2>1. secondary[i] \in Candidates /\ acc \in Seq(Candidates) /\ Distinct(acc)
    BY DEF Shortlists
  <2>2. CASE \E j \in DOMAIN acc : acc[j].chunk = secondary[i].chunk
    BY <2>2
  <2>3. CASE ~\E j \in DOMAIN acc : acc[j].chunk = secondary[i].chunk
    <3> DEFINE t == Append(acc, secondary[i])
    <3>1. t \in Seq(Candidates) /\ DOMAIN t = 1..(Len(acc) + 1) /\ Len(acc) \in Nat /\ DOMAIN acc = 1..Len(acc)
          /\ t[Len(acc) + 1] = secondary[i] /\ \A j \in 1..Len(acc) : t[j] = acc[j]
      BY <2>1
    <3> HIDE DEF t
    <3>2. Distinct(t)
      <4> SUFFICES ASSUME NEW j \in DOMAIN t, NEW k \in DOMAIN t, t[j].chunk = t[k].chunk PROVE j = k
        BY DEF Distinct
      <4>1. CASE j \in 1..Len(acc) /\ k \in 1..Len(acc)
        BY <4>1, <3>1, <2>1 DEF Distinct
      <4>2. CASE j = Len(acc) + 1 /\ k \in 1..Len(acc)
        BY <4>2, <3>1, <2>3
      <4>3. CASE k = Len(acc) + 1 /\ j \in 1..Len(acc)
        BY <4>3, <3>1, <2>3
      <4>4. CASE k = Len(acc) + 1 /\ j = Len(acc) + 1
        BY <4>4
      <4> QED BY <4>1, <4>2, <4>3, <4>4, <3>1
    <3>3. t \in Shortlists
      BY <3>1, <3>2 DEF Shortlists
    <3> QED BY <2>3, <3>3 DEF t
  <2> QED BY <2>2, <2>3
<1>4. /\ D[0] = Shortlists /\ \A i \in 0..n : D[i] = Shortlists
      /\ \A i \in 1..n : D[i - 1] = Shortlists /\ i \in 0..n /\ i # 0
  BY <1>2
<1>5. \A i \in 1..n : \A acc \in Shortlists : G[<<i, acc>>] = Step(i, acc)
  OBVIOUS
<1> HIDE DEF Step, D, G, n
<1>6. Leads(n, primary, G, D)
  BY <1>3, <1>4, <1>5 DEF Leads
<1>7. PICK f \in [0..n -> Shortlists] : Follows(f, n, primary, G)
  BY <1>2, <1>4, <1>6, Iterated
<1>8. f = [i \in 0..n |-> IF i = 0 THEN primary ELSE Step(i, f[i - 1])]
  <2>1. ASSUME NEW i \in 0..n PROVE f[i] = IF i = 0 THEN primary ELSE Step(i, f[i - 1])
    <3>1. CASE i = 0
      BY <3>1, <1>7 DEF Follows
    <3>2. CASE i # 0
      <4>1. i \in 1..n /\ i - 1 \in 0..n
        BY <3>2, <1>2
      <4> QED BY <4>1, <3>2, <1>5, <1>7 DEF Follows
    <3> QED BY <3>1, <3>2
  <2> QED BY <2>1
<1>9. merged = [i \in 0..n |-> IF i = 0 THEN primary ELSE Step(i, merged[i - 1])]
  BY <1>8
<1> HIDE DEF merged
<1>10. merged[0] = primary /\ 0 \in 0..n /\ n \in 0..n
  <2>1. 0 \in 0..n /\ n \in 0..n
    BY <1>2
  <2> QED BY <2>1, <1>9
<1>11. ASSUME NEW i \in 1..n, merged[i - 1] \in D[i - 1] PROVE merged[i] \in D[i]
  <2>1. i \in 0..n /\ i # 0 /\ merged[i - 1] \in Shortlists
    BY <1>2, <1>4, <1>11
  <2>2. merged[i] = Step(i, merged[i - 1])
    BY <2>1, <1>9
  <2> QED BY <2>1, <2>2, <1>3, <1>4
<1>12. \A i \in 0..n : merged[i] \in D[i]
  BY <1>2, <1>4, <1>10, <1>11, Reached
<1>13. merged[n] \in Shortlists
  BY <1>4, <1>10, <1>12
<1>14. secondary = <<>> => merged[n] = primary
  BY <1>10 DEF n
<1> QED BY <1>1, <1>13, <1>14

\* A list with one more member, n places after its beginning.
Inserted(t, s, n, e, S) ==
  /\ t \in Seq(S) /\ DOMAIN t = 1..(Len(s) + 1) /\ Len(t) = Len(s) + 1
  /\ \A j \in 1..n : t[j] = s[j]
  /\ t[n + 1] = e
  /\ \A j \in (n + 2)..(Len(s) + 1) : t[j] = s[j - 1]

\* InsertAt gives such a list.
LEMMA InsertedIs ==
  ASSUME NEW S, NEW s \in Seq(S), NEW n \in 0..Len(s), NEW e \in S
  PROVE  Inserted(InsertAt(s, n + 1, e), s, n, e, S)
<1> DEFINE a == SubSeq(s, 1, n)
           b == SubSeq(s, n + 1, Len(s))
           t == InsertAt(s, n + 1, e)
<1>1. Len(s) \in Nat /\ n \in Nat
  OBVIOUS
<1>2. a \in Seq(S) /\ Len(a) = n /\ \A j \in 1..n : a[j] = s[j]
  BY <1>1
<1>3. b \in Seq(S) /\ Len(b) = Len(s) - n /\ \A j \in 1..(Len(s) - n) : b[j] = s[n + j]
  BY <1>1
<1>4. t = a \o <<e>> \o b
  <2>1. (n + 1) - 1 = n
    BY <1>1
  <2>2. t = SubSeq(s, 1, (n + 1) - 1) \o <<e>> \o SubSeq(s, n + 1, Len(s))
    BY Zenon DEF InsertAt
  <2> QED BY <2>1, <2>2, Zenon
<1> HIDE DEF a, b, t
<1>5. t \in Seq(S) /\ Len(t) = Len(s) + 1 /\ DOMAIN t = 1..(Len(s) + 1)
  BY <1>1, <1>2, <1>3, <1>4
<1>6. \A j \in 1..n : t[j] = s[j]
  BY <1>1, <1>2, <1>3, <1>4
<1>7. t[n + 1] = e
  BY <1>1, <1>2, <1>3, <1>4
<1>8. ASSUME NEW j \in (n + 2)..(Len(s) + 1) PROVE t[j] = s[j - 1]
  <2>1. j - n - 1 \in 1..(Len(s) - n) /\ n + (j - n - 1) = j - 1
    BY <1>1
  <2>2. t[j] = b[j - n - 1]
    BY <1>1, <1>2, <1>3, <1>4, <2>1
  <2>3. b[j - n - 1] = s[n + (j - n - 1)]
    BY <1>3, <2>1
  <2> QED BY <2>1, <2>2, <2>3
<1>9. Inserted(t, s, n, e, S)
  BY <1>5, <1>6, <1>7, <1>8 DEF Inserted
<1> QED BY <1>9 DEF t

Descending(s) == \A j, k \in DOMAIN s : j < k => FinalScore(s[j]) >= FinalScore(s[k])

\* Every candidate has a score.
LEMMA Scores ==
  ASSUME NEW c \in Candidates
  PROVE  FinalScore(c) \in Int
BY DEF Candidates, FinalScore

\* There is a place for a candidate in a list that descends.
LEMMA PlaceIs ==
  ASSUME NEW s \in Seq(Candidates), Descending(s), NEW c \in Candidates
  PROVE  /\ Place(s, c) \in 0..Len(s)
         /\ \A i \in DOMAIN s : i <= Place(s, c) <=> FinalScore(s[i]) >= FinalScore(c)
<1> DEFINE T == {n \in 0..Len(s) : \A i \in DOMAIN s : n < i => FinalScore(s[i]) < FinalScore(c)}
<1>1. Len(s) \in Nat /\ DOMAIN s = 1..Len(s) /\ Len(s) \in T
  OBVIOUS
<1>2. \A i \in 1..Len(s) : FinalScore(s[i]) \in Int
  BY Scores, <1>1
<1>3. FinalScore(c) \in Int
  BY Scores
<1>4. PICK n \in T : \A m \in T : n <= m
  <2> T \subseteq Nat
    BY <1>1
  <2> HIDE DEF T
  <2> QED BY <1>1, Smallest
<1>5. ASSUME NEW i \in 1..Len(s) PROVE i <= n <=> FinalScore(s[i]) >= FinalScore(c)
  <2>1. CASE n < i
    <3> FinalScore(s[i]) < FinalScore(c)
      BY <2>1, <1>1, <1>4
    <3> QED BY <2>1, <1>1, <1>2, <1>3
  <2>2. CASE i <= n
    <3>1. n \in 1..Len(s) /\ n - 1 \in 0..Len(s) /\ n - 1 \notin T
      BY <2>2, <1>1, <1>4
    <3>2. PICK j \in 1..Len(s) : n - 1 < j /\ ~(FinalScore(s[j]) < FinalScore(c))
      BY <3>1, <1>1
    <3>3. j = n
      BY <3>1, <3>2, <1>1, <1>4
    <3>4. i = n \/ FinalScore(s[i]) >= FinalScore(s[n])
      BY <2>2, <3>1, <1>1 DEF Descending
    <3> HIDE DEF T
    <3> QED BY <2>2, <3>1, <3>2, <3>3, <3>4, <1>2, <1>3
  <2> HIDE DEF T
  <2> QED BY <2>1, <2>2, <1>1, <1>4 DEF T
<1>6. n \in 0..Len(s)
  BY <1>4
<1>7. \E m \in 0..Len(s) : \A i \in DOMAIN s : i <= m <=> FinalScore(s[i]) >= FinalScore(c)
  <2> HIDE DEF T
  <2> QED BY <1>1, <1>5, <1>6
<1> HIDE DEF T
<1> QED BY <1>7 DEF Place

\* The first i of the candidates, best first.
Best(s, candidates, i) ==
  /\ s \in Shortlists /\ Len(s) = i /\ Descending(s)
  /\ \A k \in DOMAIN s : \E j \in 1..i : s[k] = candidates[j]
  /\ \A j \in 1..i : \E k \in DOMAIN s : s[k] = candidates[j]

\* Putting one more candidate in its place keeps the list in order.
LEMMA BestGrows ==
  ASSUME NEW candidates \in Shortlists, NEW i \in 1..Len(candidates), NEW s, Best(s, candidates, i - 1)
  PROVE  Best(InsertAt(s, Place(s, candidates[i]) + 1, candidates[i]), candidates, i)
<1> DEFINE c == candidates[i]
           n == Place(s, c)
           t == InsertAt(s, n + 1, c)
<1>1. /\ Len(candidates) \in Nat /\ c \in Candidates /\ s \in Seq(Candidates) /\ Descending(s) /\ Distinct(s)
      /\ Len(s) = i - 1 /\ DOMAIN s = 1..(i - 1)
  BY ShortlistIs DEF Best
<1> HIDE DEF c
<1>2. n \in 0..Len(s) /\ \A j \in 1..(i - 1) : j <= n <=> FinalScore(s[j]) >= FinalScore(c)
  BY <1>1, PlaceIs
<1> HIDE DEF n
<1>3. Inserted(t, s, n, c, Candidates)
  BY <1>1, <1>2, InsertedIs
<1> HIDE DEF t
<1>4. /\ t \in Seq(Candidates) /\ DOMAIN t = 1..i /\ Len(t) = i /\ n \in 0..(i - 1)
      /\ \A j \in 1..n : t[j] = s[j] /\ j \in 1..(i - 1)
      /\ t[n + 1] = c
      /\ \A j \in (n + 2)..i : t[j] = s[j - 1] /\ j - 1 \in 1..(i - 1)
  BY <1>1, <1>2, <1>3 DEF Inserted
<1>5. \A j \in 1..i : j \in 1..n \/ j = n + 1 \/ j \in (n + 2)..i
  BY <1>4
<1>6. ASSUME NEW k \in 1..(i - 1) PROVE s[k].chunk # c.chunk
  <2>1. PICK j \in 1..(i - 1) : s[k] = candidates[j]
    BY <1>1 DEF Best
  <2>2. j \in DOMAIN candidates /\ i \in DOMAIN candidates /\ j # i
    BY ShortlistIs
  <2> QED BY <2>1, <2>2, ShortlistIs DEF Distinct, c
<1>7. Distinct(t)
  <2> SUFFICES ASSUME NEW j \in 1..i, NEW k \in 1..i, t[j].chunk = t[k].chunk PROVE j = k
    BY <1>4 DEF Distinct
  <2>1. \A a, b \in 1..(i - 1) : s[a].chunk = s[b].chunk => a = b
    BY <1>1 DEF Distinct
  <2>2. CASE j \in 1..n
    <3>1. CASE k \in 1..n
      BY <2>1, <2>2, <3>1, <1>4
    <3>2. CASE k = n + 1
      BY <2>2, <3>2, <1>4, <1>6
    <3>3. CASE k \in (n + 2)..i
      BY <2>1, <2>2, <3>3, <1>4
    <3> QED BY <3>1, <3>2, <3>3, <1>5
  <2>3. CASE j = n + 1
    BY <2>3, <1>4, <1>5, <1>6
  <2>4. CASE j \in (n + 2)..i
    <3>1. CASE k \in 1..n
      BY <2>1, <2>4, <3>1, <1>4
    <3>2. CASE k = n + 1
      BY <2>4, <3>2, <1>4, <1>6
    <3>3. CASE k \in (n + 2)..i
      BY <2>1, <2>4, <3>3, <1>4
    <3> QED BY <3>1, <3>2, <3>3, <1>5
  <2> QED BY <2>2, <2>3, <2>4, <1>5
<1>8. Descending(t)
  <2> SUFFICES ASSUME NEW j \in 1..i, NEW k \in 1..i, j < k PROVE FinalScore(t[j]) >= FinalScore(t[k])
    BY <1>4 DEF Descending
  <2>1. /\ \A a, b \in 1..(i - 1) : a < b => FinalScore(s[a]) >= FinalScore(s[b])
        /\ \A a \in 1..(i - 1) : FinalScore(s[a]) \in Int
        /\ FinalScore(c) \in Int
    <3> \A a \in 1..(i - 1) : s[a] \in Candidates
      BY <1>1
    <3> QED BY <1>1, Scores DEF Descending
  <2>2. CASE j \in 1..n /\ k \in 1..n
    BY <2>1, <2>2, <1>4
  <2>3. CASE j \in 1..n /\ k = n + 1
    BY <2>3, <1>2, <1>4
  <2>4. CASE j \in 1..n /\ k \in (n + 2)..i
    <3> j < k - 1
      BY <2>4, <1>4
    <3> QED BY <2>1, <2>4, <1>4
  <2>5. CASE j = n + 1 /\ k \in (n + 2)..i
    <3>1. k - 1 \in 1..(i - 1) /\ ~(k - 1 <= n) /\ t[k] = s[k - 1] /\ t[j] = c
      BY <2>5, <1>4
    <3>2. ~(FinalScore(s[k - 1]) >= FinalScore(c))
      BY <3>1, <1>2
    <3> QED BY <3>1, <3>2, <2>1
  <2>6. CASE j \in (n + 2)..i /\ k \in (n + 2)..i
    <3>1. j - 1 \in 1..(i - 1) /\ k - 1 \in 1..(i - 1) /\ j - 1 < k - 1 /\ t[j] = s[j - 1] /\ t[k] = s[k - 1]
      BY <2>6, <1>4
    <3> QED BY <3>1, <2>1
  <2>7. ~(j = n + 1 /\ k \in 1..n) /\ ~(j = n + 1 /\ k = n + 1) /\ ~(j \in (n + 2)..i /\ k \in 1..n)
        /\ ~(j \in (n + 2)..i /\ k = n + 1)
    BY <1>4
  <2> QED BY <2>2, <2>3, <2>4, <2>5, <2>6, <2>7, <1>5
<1>9. ASSUME NEW k \in 1..i PROVE \E j \in 1..i : t[k] = candidates[j]
  <2>1. \A a \in 1..(i - 1) : \E j \in 1..(i - 1) : s[a] = candidates[j]
    BY <1>1 DEF Best
  <2>2. 1..(i - 1) \subseteq 1..i /\ i \in 1..i
    OBVIOUS
  <2>3. t[k] = c \/ \E a \in 1..(i - 1) : t[k] = s[a]
    BY <1>4, <1>5
  <2> QED BY <2>1, <2>2, <2>3 DEF c
<1>10. ASSUME NEW j \in 1..i PROVE \E k \in 1..i : t[k] = candidates[j]
  <2>1. CASE j = i
    BY <2>1, <1>4 DEF c
  <2>2. CASE j # i
    <3>1. j \in 1..(i - 1)
      BY <2>2
    <3>2. PICK a \in 1..(i - 1) : s[a] = candidates[j]
      BY <3>1, <1>1 DEF Best
    <3>3. CASE a <= n
      <4> a \in 1..n /\ a \in 1..i
        BY <3>3, <1>4
      <4> QED BY <3>2, <1>4
    <3>4. CASE ~(a <= n)
      <4>1. a + 1 \in (n + 2)..i /\ a + 1 \in 1..i /\ (a + 1) - 1 = a
        BY <3>4, <1>4
      <4> QED BY <4>1, <3>2, <1>4
    <3> QED BY <3>3, <3>4
  <2> QED BY <2>1, <2>2
<1>11. Best(t, candidates, i)
  <2> t \in Shortlists
    BY <1>4, <1>7 DEF Shortlists
  <2> QED BY <1>4, <1>8, <1>9, <1>10 DEF Best
<1> QED BY <1>11 DEF t, n, c

\* Sorting orders the candidates and loses none.
LEMMA SortedIs ==
  ASSUME NEW candidates \in Shortlists
  PROVE  Best(Sorted(candidates), candidates, Len(candidates))
<1> DEFINE n == Len(candidates)
           Step(i, before) == InsertAt(before, Place(before, candidates[i]) + 1, candidates[i])
           sorted == CHOOSE f : f = [i \in 0..n |-> IF i = 0 THEN <<>> ELSE Step(i, f[i - 1])]
           D == [i \in 0..n |-> {s \in Shortlists : Best(s, candidates, i)}]
           G == [p \in (1..n) \X Shortlists |-> Step(p[1], p[2])]
<1>1. Sorted(candidates) = sorted[n]
  BY DEF Sorted
<1>2. n \in Nat
  BY ShortlistIs
<1>3. ASSUME NEW i \in 1..n, NEW s, Best(s, candidates, i - 1) PROVE Best(Step(i, s), candidates, i)
  BY <1>3, BestGrows
<1>4. /\ \A i \in 0..n : \A s : s \in D[i] <=> Best(s, candidates, i)
      /\ \A i \in 1..n : \A s : s \in D[i - 1] <=> Best(s, candidates, i - 1)
      /\ \A i \in 1..n : i \in 0..n /\ i # 0
  <2>1. \A i \in 1..n : i \in 0..n /\ i - 1 \in 0..n /\ i # 0
    BY <1>2
  <2>2. \A i \in 0..n : D[i] = {s \in Shortlists : Best(s, candidates, i)}
    OBVIOUS
  <2>3. ASSUME NEW i \in 0..n, NEW s PROVE s \in D[i] <=> Best(s, candidates, i)
    BY <2>2 DEF Best
  <2> HIDE DEF D, n
  <2> QED BY <2>1, <2>3
<1>5. \A i \in 1..n : \A s \in Shortlists : G[<<i, s>>] = Step(i, s)
  OBVIOUS
<1>6. Best(<<>>, candidates, 0)
  BY DEF Best, Shortlists, Distinct, Descending
<1>7. \A i \in 0..n : D[i] \subseteq Shortlists
  OBVIOUS
<1> HIDE DEF Step, D, G, n
<1>8. Leads(n, <<>>, G, D)
  <2>1. <<>> \in D[0]
    BY <1>2, <1>4, <1>6
  <2>2. ASSUME NEW i \in 1..n, NEW d \in D[i - 1] PROVE G[<<i, d>>] \in D[i]
    <3>1. Best(d, candidates, i - 1)
      BY <1>4
    <3>2. d \in Shortlists
      BY <3>1 DEF Best
    <3> QED BY <3>1, <3>2, <1>3, <1>4, <1>5
  <2> QED BY <2>1, <2>2 DEF Leads
<1>9. PICK f \in [0..n -> Shortlists] : Follows(f, n, <<>>, G)
  BY <1>2, <1>7, <1>8, Iterated
<1>10. f = [i \in 0..n |-> IF i = 0 THEN <<>> ELSE Step(i, f[i - 1])]
  <2>1. ASSUME NEW i \in 0..n PROVE f[i] = IF i = 0 THEN <<>> ELSE Step(i, f[i - 1])
    <3>1. CASE i = 0
      BY <3>1, <1>9 DEF Follows
    <3>2. CASE i # 0
      <4>1. i \in 1..n /\ i - 1 \in 0..n
        BY <3>2, <1>2
      <4> QED BY <4>1, <3>2, <1>5, <1>9 DEF Follows
    <3> QED BY <3>1, <3>2
  <2> QED BY <2>1
<1>11. sorted = [i \in 0..n |-> IF i = 0 THEN <<>> ELSE Step(i, sorted[i - 1])]
  BY <1>10
<1> HIDE DEF sorted
<1>12. sorted[0] = <<>> /\ 0 \in 0..n /\ n \in 0..n
  <2>1. 0 \in 0..n /\ n \in 0..n
    BY <1>2
  <2> QED BY <2>1, <1>11
<1>13. ASSUME NEW i \in 1..n, sorted[i - 1] \in D[i - 1] PROVE sorted[i] \in D[i]
  <2>1. sorted[i] = Step(i, sorted[i - 1])
    BY <1>4, <1>11
  <2> QED BY <2>1, <1>3, <1>4, <1>13
<1>14. sorted[0] \in D[0]
  BY <1>4, <1>6, <1>12
<1>15. \A i \in 0..n : sorted[i] \in D[i]
  BY <1>2, <1>13, <1>14, Reached
<1> QED BY <1>1, <1>4, <1>12, <1>15 DEF n

\* Every candidate has a length.
LEMMA Lengths ==
  ASSUME NEW c \in Candidates
  PROVE  TokensOf[c.chunk] \in Nat
BY RetrievalAssumption DEF Candidates

\* The partial sums of the lengths of a list.
SumsOf(s) == CHOOSE f : f = [i \in 0..Len(s) |-> IF i = 0 THEN 0 ELSE f[i - 1] + TokensOf[s[i].chunk]]

\* Total is the last of the partial sums, each of which adds one length.
LEMMA SumsAre ==
  ASSUME NEW s \in Seq(Candidates)
  PROVE  /\ Total(s) = SumsOf(s)[Len(s)] /\ SumsOf(s)[0] = 0
         /\ \A i \in 0..Len(s) : SumsOf(s)[i] \in Nat
         /\ \A i \in 1..Len(s) : SumsOf(s)[i] = SumsOf(s)[i - 1] + TokensOf[s[i].chunk]
<1> DEFINE n == Len(s)
           Step(i, sum) == sum + TokensOf[s[i].chunk]
           sums == CHOOSE f : f = [i \in 0..n |-> IF i = 0 THEN 0 ELSE Step(i, f[i - 1])]
           D == [i \in 0..n |-> Nat]
           G == [p \in (1..n) \X Nat |-> Step(p[1], p[2])]
<1>1. Total(s) = sums[n] /\ SumsOf(s) = sums
  BY DEF Total, SumsOf
<1>2. n \in Nat
  OBVIOUS
<1>3. \A i \in 1..n, sum \in Nat : Step(i, sum) \in Nat
  <2> SUFFICES ASSUME NEW i \in 1..n, NEW sum \in Nat PROVE Step(i, sum) \in Nat
    OBVIOUS
  <2> s[i] \in Candidates
    OBVIOUS
  <2> TokensOf[s[i].chunk] \in Nat
    BY Lengths
  <2> QED OBVIOUS
<1>4. /\ \A i \in 0..n : D[i] = Nat
      /\ \A i \in 1..n : D[i - 1] = Nat /\ i \in 0..n /\ i - 1 \in 0..n /\ i # 0
  BY <1>2
<1>5. \A i \in 1..n : \A sum \in Nat : G[<<i, sum>>] = Step(i, sum)
  OBVIOUS
<1>6. \A i, sum : Step(i, sum) = sum + TokensOf[s[i].chunk]
  OBVIOUS
<1>7. 0 \in 0..n /\ n \in 0..n
  BY <1>2
<1> HIDE DEF Step, D, G, n
<1>8. Leads(n, 0, G, D)
  <2>1. 0 \in D[0]
    BY <1>4, <1>7
  <2>2. ASSUME NEW i \in 1..n, NEW d \in D[i - 1] PROVE G[<<i, d>>] \in D[i]
    <3>1. d \in Nat
      BY <1>4
    <3>2. G[<<i, d>>] = Step(i, d) /\ Step(i, d) \in Nat
      BY <3>1, <1>3, <1>5
    <3>3. D[i] = Nat
      BY <1>4
    <3> QED BY <3>2, <3>3
  <2> QED BY <2>1, <2>2 DEF Leads
<1>9. PICK f \in [0..n -> Nat] : Follows(f, n, 0, G)
  BY <1>2, <1>4, <1>8, Iterated
<1>10. f = [i \in 0..n |-> IF i = 0 THEN 0 ELSE Step(i, f[i - 1])]
  <2>1. ASSUME NEW i \in 0..n PROVE f[i] = IF i = 0 THEN 0 ELSE Step(i, f[i - 1])
    <3>1. CASE i = 0
      BY <3>1, <1>9 DEF Follows
    <3>2. CASE i # 0
      <4>1. i \in 1..n /\ i - 1 \in 0..n
        BY <3>2, <1>2
      <4> QED BY <4>1, <3>2, <1>5, <1>9 DEF Follows
    <3> QED BY <3>1, <3>2
  <2> QED BY <2>1
<1>11. sums = [i \in 0..n |-> IF i = 0 THEN 0 ELSE Step(i, sums[i - 1])]
  BY <1>10
<1> HIDE DEF sums
<1>12. sums[0] = 0
  BY <1>7, <1>11
<1>13. ASSUME NEW i \in 1..n PROVE sums[i] = Step(i, sums[i - 1])
  BY <1>4, <1>11
<1>14. ASSUME NEW i \in 1..n, sums[i - 1] \in D[i - 1] PROVE sums[i] \in D[i]
  BY <1>3, <1>4, <1>13, <1>14
<1>15. \A i \in 0..n : sums[i] \in D[i]
  <2> sums[0] \in D[0]
    BY <1>4, <1>7, <1>12
  <2> QED BY <1>2, <1>14, Reached
<1> QED BY <1>1, <1>4, <1>6, <1>12, <1>13, <1>15 DEF n

\* The length of a list is a number, and of the empty list zero.
LEMMA TotalIs ==
  ASSUME NEW s \in Seq(Candidates)
  PROVE  Total(s) \in Nat /\ (s = <<>> => Total(s) = 0)
<1> Len(s) \in 0..Len(s) /\ (s = <<>> => Len(s) = 0)
  OBVIOUS
<1> QED BY SumsAre

\* One candidate more adds its length.
LEMMA TotalAppend ==
  ASSUME NEW s \in Seq(Candidates), NEW c \in Candidates
  PROVE  Total(Append(s, c)) = Total(s) + TokensOf[c.chunk]
<1> DEFINE t == Append(s, c)
           n == Len(s)
<1>1. /\ t \in Seq(Candidates) /\ Len(t) = n + 1 /\ n \in Nat /\ t[n + 1] = c
      /\ \A i \in 1..n : t[i] = s[i]
  OBVIOUS
<1> HIDE DEF t, n
<1> DEFINE D == [i \in 0..n |-> {SumsOf(s)[i]}]
<1>2. SumsOf(t)[0] \in D[0]
  <2>1. SumsOf(t)[0] = 0 /\ SumsOf(s)[0] = 0
    BY <1>1, SumsAre
  <2> QED BY <2>1, <1>1
<1>3. ASSUME NEW i \in 1..n, SumsOf(t)[i - 1] \in D[i - 1] PROVE SumsOf(t)[i] \in D[i]
  <2>1. i \in 0..n /\ i - 1 \in 0..n /\ i \in 1..Len(t) /\ i \in 1..Len(s)
    BY <1>1 DEF n
  <2>2. /\ SumsOf(t)[i] = SumsOf(t)[i - 1] + TokensOf[t[i].chunk]
        /\ SumsOf(s)[i] = SumsOf(s)[i - 1] + TokensOf[s[i].chunk]
    BY <2>1, <1>1, SumsAre
  <2>3. SumsOf(t)[i - 1] = SumsOf(s)[i - 1]
    BY <2>1, <1>3
  <2> QED BY <2>1, <2>2, <2>3, <1>1
<1> HIDE DEF D
<1>4. \A i \in 0..n : SumsOf(t)[i] \in D[i]
  BY <1>1, <1>2, <1>3, Reached
<1>5. SumsOf(t)[n] = SumsOf(s)[n]
  <2>1. n \in 0..n
    BY <1>1
  <2> QED BY <2>1, <1>4 DEF D
<1>6. n + 1 \in 1..Len(t) /\ (n + 1) - 1 = n
  BY <1>1
<1>7. SumsOf(t)[n + 1] = SumsOf(t)[n] + TokensOf[t[n + 1].chunk]
  BY <1>1, <1>6, SumsAre
<1>8. Total(t) = SumsOf(t)[n + 1] /\ Total(s) = SumsOf(s)[n]
  BY <1>1, SumsAre DEF n
<1> QED BY <1>1, <1>5, <1>7, <1>8 DEF t

-----------------------------------------------------------------------------
\* What is kept of the first i of a list.
Keeps(k, r, i) ==
  /\ k \in [out : Shortlists, stop : BOOLEAN]
  /\ \A j \in DOMAIN k.out : \E m \in 1..i : k.out[j] = r[m]
  /\ i # 0 => k.out # <<>> /\ k.out[1] = r[1]
  /\ k.stop => Len(k.out) = 1 /\ Total(k.out) > query.budget
  /\ ~k.stop => /\ Total(k.out) <= query.budget
                /\ \A m \in 1..i : \/ \E j \in DOMAIN k.out : k.out[j] = r[m]
                                   \/ Total(k.out) + TokensOf[r[m].chunk] > query.budget

\* _prune_to_token_limit: one candidate more is kept, passed over, or the only one kept.
LEMMA KeepsOn ==
  ASSUME query.budget \in Nat, NEW r \in Shortlists, NEW i \in 1..Len(r), NEW k, Keeps(k, r, i - 1)
  PROVE  Keeps(Kept(k, r[i]), r, i)
<1> DEFINE c == r[i]
<1>1. /\ Len(r) \in Nat /\ DOMAIN r = 1..Len(r) /\ \A m \in 1..Len(r) : r[m] \in Candidates
      /\ c \in Candidates /\ i \in Nat /\ i # 0 /\ i - 1 \in Nat
      /\ \A m \in 1..(i - 1) : m \in 1..i /\ m \in 1..Len(r) /\ m # i
      /\ \A m \in 1..i : m \in 1..(i - 1) \/ m = i
  BY ShortlistIs
<1>2. /\ k.out \in Seq(Candidates) /\ Distinct(k.out) /\ DOMAIN k.out = 1..Len(k.out) /\ Len(k.out) \in Nat
      /\ k.out \in Shortlists
  BY ShortlistIs DEF Keeps
<1>3. TokensOf[c.chunk] \in Nat /\ Total(k.out) \in Nat /\ \A m \in 1..Len(r) : TokensOf[r[m].chunk] \in Nat
  BY <1>1, <1>2, Lengths, TotalIs
<1>4. i - 1 = 0 => k.out = <<>>
  <2> SUFFICES ASSUME i - 1 = 0, k.out # <<>> PROVE FALSE
    OBVIOUS
  <2>1. 1 \in DOMAIN k.out
    BY <1>2
  <2>2. PICK m \in 1..(i - 1) : TRUE
    BY <2>1 DEF Keeps
  <2> QED BY <2>2
<1> HIDE DEF c
<1>5. CASE k.stop
  <2>1. Kept(k, c) = k /\ i - 1 # 0
    BY <1>2, <1>4, <1>5 DEF Kept, Keeps
  <2> QED BY <2>1, <1>1, <1>5 DEF Keeps, c
<1>6. CASE ~k.stop /\ Total(k.out) + TokensOf[c.chunk] <= query.budget
  <2> DEFINE t == Append(k.out, c)
             d == [k EXCEPT !.out = t]
  <2>1. Kept(k, c) = d
    BY <1>6 DEF Kept
  <2>2. /\ d.out = t /\ d.stop = FALSE
        /\ t \in Shortlists => d \in [out : Shortlists, stop : BOOLEAN]
    <3>1. k \in [out : Shortlists, stop : BOOLEAN]
      BY DEF Keeps
    <3> HIDE DEF t
    <3> QED BY <3>1, <1>6
  <2>3. /\ t \in Seq(Candidates) /\ DOMAIN t = 1..(Len(k.out) + 1) /\ t[Len(k.out) + 1] = c /\ t # <<>>
        /\ \A j \in 1..Len(k.out) : t[j] = k.out[j]
    BY <1>1, <1>2
  <2>4. Total(t) = Total(k.out) + TokensOf[c.chunk]
    BY <1>1, <1>2, TotalAppend
  <2> HIDE DEF t, d
  <2>5. ASSUME NEW j \in 1..Len(k.out) PROVE k.out[j].chunk # c.chunk
    <3>1. PICK m \in 1..(i - 1) : k.out[j] = r[m]
      BY <1>2 DEF Keeps
    <3> QED BY <3>1, <1>1, ShortlistIs DEF Distinct, c
  <2>6. Distinct(t)
    <3> SUFFICES ASSUME NEW j \in DOMAIN t, NEW m \in DOMAIN t, t[j].chunk = t[m].chunk PROVE j = m
      BY DEF Distinct
    <3>1. CASE j \in 1..Len(k.out) /\ m \in 1..Len(k.out)
      BY <3>1, <1>2, <2>3 DEF Distinct
    <3>2. CASE j = Len(k.out) + 1 /\ m \in 1..Len(k.out)
      BY <3>2, <2>3, <2>5
    <3>3. CASE m = Len(k.out) + 1 /\ j \in 1..Len(k.out)
      BY <3>3, <2>3, <2>5
    <3>4. CASE m = Len(k.out) + 1 /\ j = Len(k.out) + 1
      BY <3>4
    <3>5. \A a \in DOMAIN t : a \in 1..Len(k.out) \/ a = Len(k.out) + 1
      BY <2>3, <1>2
    <3> QED BY <3>1, <3>2, <3>3, <3>4, <3>5
  <2>7. ASSUME NEW j \in DOMAIN t PROVE \E m \in 1..i : t[j] = r[m]
    <3>1. CASE j \in 1..Len(k.out)
      <4>1. PICK m \in 1..(i - 1) : k.out[j] = r[m]
        BY <3>1, <1>2 DEF Keeps
      <4> QED BY <4>1, <3>1, <1>1, <2>3
    <3>2. CASE j = Len(k.out) + 1
      BY <3>2, <1>1, <2>3 DEF c
    <3> QED BY <3>1, <3>2, <2>3, <1>2
  <2>8. t[1] = r[1]
    <3>1. CASE i - 1 = 0
      <4> i = 1 /\ Len(k.out) = 0
        BY <3>1, <1>1, <1>4
      <4> QED BY <2>3 DEF c
    <3>2. CASE i - 1 # 0
      <4> k.out # <<>> /\ k.out[1] = r[1]
        BY <3>2 DEF Keeps
      <4> 1 \in 1..Len(k.out)
        BY <1>2
      <4> QED BY <2>3
    <3> QED BY <3>1, <3>2
  <2>9. ASSUME NEW m \in 1..i PROVE \/ \E j \in DOMAIN t : t[j] = r[m]
                                   \/ Total(t) + TokensOf[r[m].chunk] > query.budget
    <3>1. CASE m = i
      <4> Len(k.out) + 1 \in DOMAIN t
        BY <1>2, <2>3
      <4> QED BY <3>1, <2>3 DEF c
    <3>2. CASE m \in 1..(i - 1) /\ \E j \in DOMAIN k.out : k.out[j] = r[m]
      <4>1. PICK j \in DOMAIN k.out : k.out[j] = r[m]
        BY <3>2
      <4>2. j \in DOMAIN t /\ t[j] = k.out[j]
        BY <1>2, <2>3
      <4> QED BY <4>1, <4>2
    <3>3. CASE m \in 1..(i - 1) /\ Total(k.out) + TokensOf[r[m].chunk] > query.budget
      BY <3>3, <1>1, <1>3, <2>4
    <3>4. m \in 1..(i - 1) => \/ \E j \in DOMAIN k.out : k.out[j] = r[m]
                              \/ Total(k.out) + TokensOf[r[m].chunk] > query.budget
      BY <1>6 DEF Keeps
    <3> QED BY <3>1, <3>2, <3>3, <3>4, <1>1
  <2>10. t \in Shortlists /\ Total(t) <= query.budget
    BY <2>3, <2>4, <2>6, <1>6 DEF Shortlists
  <2>11. Keeps(d, r, i)
    BY <2>2, <2>3, <2>7, <2>8, <2>9, <2>10 DEF Keeps
  <2> QED BY <2>1, <2>11 DEF c
<1>7. CASE ~k.stop /\ ~(Total(k.out) + TokensOf[c.chunk] <= query.budget) /\ k.out = <<>>
  <2> DEFINE t == <<c>>
             d == [out |-> t, stop |-> TRUE]
  <2>1. Kept(k, c) = d
    BY <1>7 DEF Kept
  <2>2. i = 1
    BY <1>7, <1>1 DEF Keeps
  <2>3. t \in Seq(Candidates) /\ DOMAIN t = 1..1 /\ t[1] = c /\ t # <<>> /\ Len(t) = 1 /\ Append(k.out, c) = t
    BY <1>1, <1>7
  <2>4. Total(t) = 0 + TokensOf[c.chunk] /\ Total(t) > query.budget
    <3>1. Total(t) = Total(k.out) + TokensOf[c.chunk] /\ Total(k.out) = 0
      BY <1>1, <1>2, <1>7, <2>3, TotalAppend, TotalIs
    <3> HIDE DEF t
    <3> QED BY <3>1, <1>3, <1>7
  <2>5. d.out = t /\ d.stop = TRUE /\ (t \in Shortlists => d \in [out : Shortlists, stop : BOOLEAN])
    <3> HIDE DEF t
    <3> QED OBVIOUS
  <2> HIDE DEF t, d
  <2>6. t \in Shortlists
    BY <2>3 DEF Shortlists, Distinct
  <2>7. \A j \in DOMAIN t : t[j] = r[1] /\ 1 \in 1..i
    BY <2>2, <2>3 DEF c
  <2>8. Keeps(d, r, i)
    BY <2>2, <2>3, <2>4, <2>5, <2>6, <2>7 DEF Keeps, c
  <2> QED BY <2>1, <2>8 DEF c
<1>8. CASE ~k.stop /\ ~(Total(k.out) + TokensOf[c.chunk] <= query.budget) /\ k.out # <<>>
  <2>1. Kept(k, c) = k /\ i - 1 # 0
    BY <1>8, <1>4 DEF Kept
  <2>2. Total(k.out) + TokensOf[c.chunk] > query.budget
    BY <1>3, <1>8
  <2>3. \A m \in 1..i : \/ \E j \in DOMAIN k.out : k.out[j] = r[m]
                        \/ Total(k.out) + TokensOf[r[m].chunk] > query.budget
    BY <2>2, <1>1, <1>8 DEF Keeps, c
  <2> QED BY <2>1, <2>3, <1>1, <1>8 DEF Keeps, c
<1> QED BY <1>5, <1>6, <1>7, <1>8 DEF Keeps

\* Pruning keeps what the definition above says of the whole list.
LEMMA PrunedIs ==
  ASSUME query.budget \in Nat, NEW r \in Shortlists
  PROVE  \E k : Keeps(k, r, Len(r)) /\ Pruned(r) = k.out
<1> DEFINE n == Len(r)
           States == [out : Shortlists, stop : BOOLEAN]
           base == [out |-> <<>>, stop |-> FALSE]
           Step(i, acc) == Kept(acc, r[i])
           kept == CHOOSE f : f = [i \in 0..n |-> IF i = 0 THEN base ELSE Step(i, f[i - 1])]
           D == [i \in 0..n |-> {k \in States : Keeps(k, r, i)}]
           G == [p \in (1..n) \X States |-> Step(p[1], p[2])]
<1>1. Pruned(r) = kept[n].out
  BY DEF Pruned
<1>2. n \in Nat
  BY ShortlistIs
<1>3. ASSUME NEW i \in 1..n, NEW k, Keeps(k, r, i - 1) PROVE Keeps(Step(i, k), r, i)
  BY <1>3, KeepsOn
<1>4. ASSUME NEW k, NEW i, Keeps(k, r, i) PROVE k \in States
  BY <1>4 DEF Keeps
<1>5. /\ \A i \in 0..n : \A k : k \in D[i] <=> Keeps(k, r, i)
      /\ \A i \in 1..n : \A k : k \in D[i - 1] <=> Keeps(k, r, i - 1)
      /\ \A i \in 1..n : i \in 0..n /\ i # 0
  <2>1. \A i \in 1..n : i \in 0..n /\ i - 1 \in 0..n /\ i # 0
    BY <1>2
  <2>2. \A i \in 0..n : D[i] = {k \in States : Keeps(k, r, i)}
    OBVIOUS
  <2> HIDE DEF D, n, States
  <2>3. ASSUME NEW i \in 0..n, NEW k PROVE k \in D[i] <=> Keeps(k, r, i)
    BY <2>2, <1>4
  <2> QED BY <2>1, <2>3
<1>6. \A i \in 1..n : \A k \in States : G[<<i, k>>] = Step(i, k)
  OBVIOUS
<1>7. Keeps(base, r, 0)
  <2> DEFINE none == <<>>
  <2>1. none \in Shortlists /\ none \in Seq(Candidates) /\ DOMAIN none = {} /\ none = <<>>
    BY DEF Shortlists, Distinct
  <2>3. base.out = none /\ base.stop = FALSE /\ base \in [out : Shortlists, stop : BOOLEAN]
    BY <2>1
  <2> HIDE DEF base, none
  <2>2. Total(none) = 0 /\ Total(none) <= query.budget
    <3> Total(none) = 0
      BY <2>1, TotalIs
    <3> QED OBVIOUS
  <2>4. 1..0 = {}
    OBVIOUS
  <2> QED BY <2>1, <2>2, <2>3, <2>4 DEF Keeps
<1>8. \A i \in 0..n : D[i] \subseteq States
  OBVIOUS
<1>9. 0 \in 0..n /\ n \in 0..n
  BY <1>2
<1> HIDE DEF Step, D, G, n, States, base
<1>10. Leads(n, base, G, D)
  <2>1. base \in D[0]
    BY <1>5, <1>7, <1>9
  <2>2. ASSUME NEW i \in 1..n, NEW d \in D[i - 1] PROVE G[<<i, d>>] \in D[i]
    <3>1. Keeps(d, r, i - 1)
      BY <1>5
    <3>2. d \in States
      BY <3>1, <1>4
    <3> QED BY <3>1, <3>2, <1>3, <1>5, <1>6
  <2> QED BY <2>1, <2>2 DEF Leads
<1>11. PICK f \in [0..n -> States] : Follows(f, n, base, G)
  BY <1>2, <1>8, <1>10, Iterated
<1>12. f = [i \in 0..n |-> IF i = 0 THEN base ELSE Step(i, f[i - 1])]
  <2>1. ASSUME NEW i \in 0..n PROVE f[i] = IF i = 0 THEN base ELSE Step(i, f[i - 1])
    <3>1. CASE i = 0
      BY <3>1, <1>11 DEF Follows
    <3>2. CASE i # 0
      <4>1. i \in 1..n /\ i - 1 \in 0..n
        BY <3>2, <1>2
      <4> QED BY <4>1, <3>2, <1>6, <1>11 DEF Follows
    <3> QED BY <3>1, <3>2
  <2> QED BY <2>1
<1>13. kept = [i \in 0..n |-> IF i = 0 THEN base ELSE Step(i, kept[i - 1])]
  BY <1>12
<1> HIDE DEF kept
<1>14. kept[0] = base
  BY <1>9, <1>13
<1>15. ASSUME NEW i \in 1..n, kept[i - 1] \in D[i - 1] PROVE kept[i] \in D[i]
  <2>1. kept[i] = Step(i, kept[i - 1])
    BY <1>5, <1>13
  <2> QED BY <2>1, <1>3, <1>5, <1>15
<1>16. kept[0] \in D[0]
  BY <1>5, <1>7, <1>9, <1>14
<1>17. \A i \in 0..n : kept[i] \in D[i]
  BY <1>2, <1>15, <1>16, Reached
<1>18. Keeps(kept[n], r, n)
  BY <1>5, <1>9, <1>17
<1> QED BY <1>1, <1>18 DEF n

\* Ranking, when it is asked for, sorts; the bonuses change only the scores.
LEMMA LocatedIs ==
  ASSUME NEW candidates \in Shortlists
  PROVE  Located(candidates) \in Shortlists /\ (candidates = <<>> <=> Located(candidates) = <<>>)
<1>1. CASE query.file = Nobody
  BY <1>1 DEF Located
<1>2. CASE query.file # Nobody
  <2> DEFINE More(i) == IF FileOf[candidates[i].chunk] = query.file THEN Bonus.file ELSE Bonus.directory
             n == Len(candidates)
             t == [i \in 1..n |-> [candidates[i] EXCEPT !.score = @ + More(i)]]
  <2>1. /\ n \in Nat /\ DOMAIN candidates = 1..n /\ Distinct(candidates) /\ candidates \in Seq(Candidates)
        /\ \A i \in 1..n : candidates[i] \in Candidates
    BY ShortlistIs
  <2>2. Located(candidates) = t
    <3> DOMAIN candidates = 1..n
      BY <2>1
    <3> QED BY <1>2, Zenon DEF Located
  <2>3. ASSUME NEW i \in 1..n PROVE t[i] \in Candidates /\ t[i].chunk = candidates[i].chunk
    <3>1. candidates[i] \in Candidates /\ More(i) \in Int
      BY <2>1, RetrievalAssumption
    <3> HIDE DEF More
    <3>2. t[i] = [candidates[i] EXCEPT !.score = @ + More(i)]
      OBVIOUS
    <3> QED BY <3>1, <3>2 DEF Candidates
  <2>4. DOMAIN t = 1..n /\ t = [i \in 1..n |-> t[i]]
    OBVIOUS
  <2> HIDE DEF t, n
  <2>5. t \in [1..n -> Candidates]
    BY <2>3, <2>4
  <2>6. t \in Seq(Candidates) /\ Len(t) = n
    BY <2>1, <2>5
  <2>7. Distinct(t)
    BY <2>1, <2>3, <2>4 DEF Distinct
  <2>8. candidates = <<>> <=> t = <<>>
    BY <2>1, <2>6 DEF n
  <2> QED BY <2>2, <2>6, <2>7, <2>8 DEF Shortlists
<1> QED BY <1>1, <1>2

\* Ranking neither loses nor adds a candidate, and puts them in order when it is asked for.
LEMMA RankedIs ==
  ASSUME NEW candidates \in Shortlists
  PROVE  /\ Ranked(candidates) \in Shortlists
         /\ \A k \in DOMAIN Ranked(candidates) : \E j \in DOMAIN candidates : Ranked(candidates)[k] = candidates[j]
         /\ \A j \in DOMAIN candidates : \E k \in DOMAIN Ranked(candidates) : Ranked(candidates)[k] = candidates[j]
         /\ Ranked(candidates) = <<>> <=> candidates = <<>>
         /\ query.ranking => Descending(Ranked(candidates))
<1>1. DOMAIN candidates = 1..Len(candidates) /\ Len(candidates) \in Nat /\ candidates \in Seq(Candidates)
  BY ShortlistIs
<1>2. CASE query.ranking
  <2> DEFINE s == Sorted(candidates)
  <2>1. Ranked(candidates) = s /\ Best(s, candidates, Len(candidates))
    BY <1>2, SortedIs DEF Ranked
  <2> HIDE DEF s
  <2>2. s \in Shortlists /\ Len(s) = Len(candidates) /\ Descending(s) /\ s \in Seq(Candidates)
    BY <2>1, ShortlistIs DEF Best
  <2>3. s = <<>> <=> candidates = <<>>
    BY <2>2, <1>1
  <2> QED BY <2>1, <2>2, <2>3, <1>1 DEF Best
<1>3. CASE ~query.ranking
  <2> Ranked(candidates) = candidates
    BY <1>3 DEF Ranked
  <2> QED BY <1>3
<1> QED BY <1>2, <1>3

\* What a look-up finds in a set of chunks: some of them, each once.
IsFound(s, S) ==
  s \in Seq(S) /\ (\A j, k \in DOMAIN s : s[j] = s[k] => j = k) /\ (S = {} => s = <<>>)

\* A search or a look-up finds some of the chunks it looks among, each once.
LEMMA ResultsAre ==
  ASSUME NEW S, S \subseteq Vectors, NEW found \in {<<>>} \cup Results(S)
  PROVE  IsFound(found, S)
<1>1. CASE found = <<>>
  BY <1>1 DEF IsFound
<1>2. CASE found \in Results(S)
  <2>1. PICK R \in SUBSET S : found \in SetToSeqs(R)
    BY <1>2 DEF Results
  <2>2. IsFiniteSet(R) /\ Cardinality(R) \in Nat
    <3>1. IsFiniteSet(R)
      BY <2>1, RetrievalAssumption, FS_Subset
    <3> QED BY <3>1, FS_CardinalityType
  <2>3. /\ found \in [1..Cardinality(R) -> R]
        /\ \A i, j \in 1..Cardinality(R) : i # j => found[i] # found[j]
    BY <2>1, Zenon DEF SetToSeqs
  <2>4. found \in Seq(S) /\ DOMAIN found = 1..Cardinality(R)
    BY <2>1, <2>2, <2>3
  <2>5. S = {} => found = <<>>
    <3> SUFFICES ASSUME S = {} PROVE found = <<>>
      OBVIOUS
    <3>1. R = {} /\ Cardinality(R) = 0
      BY FS_EmptySet
    <3>2. DOMAIN found = 1..0
      BY <3>1, <2>4
    <3>3. Len(found) = 0
      BY <3>2, <2>4
    <3> QED BY <3>3, <2>4
  <2> QED BY <2>3, <2>4, <2>5 DEF IsFound
<1> QED BY <1>1, <1>2

\* The candidates made of what was found.
LEMMA FoundAre ==
  ASSUME NEW S, S \subseteq Vectors, NEW found, IsFound(found, S), NEW t, DOMAIN t = DOMAIN found,
         t \in [DOMAIN found -> Candidates], \A i \in DOMAIN found : t[i].chunk = found[i]
  PROVE  t \in Shortlists /\ t \in Seq(Candidates) /\ (S = {} => t = <<>>)
<1>1. DOMAIN found = 1..Len(found) /\ Len(found) \in Nat
  BY DEF IsFound
<1>2. t \in Seq(Candidates)
  BY <1>1
<1>3. Distinct(t)
  BY DEF Distinct, IsFound
<1>4. S = {} => t = <<>>
  <2> SUFFICES ASSUME S = {} PROVE t = <<>>
    OBVIOUS
  <2>1. found = <<>> /\ Len(found) = 0
    BY DEF IsFound
  <2>2. Len(t) = 0
    BY <2>1, <1>1, <1>2
  <2> QED BY <2>2, <1>2
<1> QED BY <1>2, <1>3, <1>4 DEF Shortlists

\* The candidates of a search.
LEMMA SearchedAre ==
  ASSUME NEW S, S \subseteq Vectors, NEW found, IsFound(found, S)
  PROVE  /\ [i \in DOMAIN found |-> Candidate(found[i], Similarity[found[i]])] \in Shortlists
         /\ S = {} => [i \in DOMAIN found |-> Candidate(found[i], Similarity[found[i]])] = <<>>
<1> DEFINE t == [i \in DOMAIN found |-> Candidate(found[i], Similarity[found[i]])]
<1>1. ASSUME NEW i \in DOMAIN found PROVE t[i] \in Candidates /\ t[i].chunk = found[i]
  <2>1. found[i] \in Vectors
    BY DEF IsFound
  <2>2. Similarity[found[i]] \in Int
    BY <2>1, RetrievalAssumption
  <2> QED BY <2>1, <2>2 DEF Candidate, Candidates
<1>2. DOMAIN t = DOMAIN found /\ t = [i \in DOMAIN found |-> t[i]]
  OBVIOUS
<1> HIDE DEF t
<1>3. t \in [DOMAIN found -> Candidates]
  BY <1>1, <1>2
<1>4. t \in Shortlists /\ (S = {} => t = <<>>)
  BY <1>1, <1>2, <1>3, FoundAre
<1> QED BY <1>4 DEF t

\* An anchor is a candidate of the chunk it was made of.
LEMMA AnchorIs ==
  ASSUME NEW x \in Vectors, NEW n \in Int
  PROVE  [Candidate(x, n) EXCEPT !.anchor = TRUE] \in Candidates /\ [Candidate(x, n) EXCEPT !.anchor = TRUE].chunk = x
<1> DEFINE c == Candidate(x, n)
<1>1. c \in Candidates /\ c.chunk = x
  BY DEF Candidate, Candidates
<1> HIDE DEF c
<1>2. [c EXCEPT !.anchor = TRUE] \in Candidates /\ [c EXCEPT !.anchor = TRUE].chunk = x
  BY <1>1 DEF Candidates
<1> QED BY <1>2 DEF c

\* The candidates of the current file.
LEMMA FromFileIs ==
  ASSUME NEW S, S \subseteq Vectors, NEW found, IsFound(found, S)
  PROVE  FromFile(found) \in Seq(Candidates) /\ (S = {} => FromFile(found) = <<>>)
<1> DEFINE t == FromFile(found)
<1>1. DOMAIN t = DOMAIN found /\ t = [i \in DOMAIN found |-> t[i]]
  BY DEF FromFile
<1>2. ASSUME NEW i \in DOMAIN found PROVE t[i] \in Candidates /\ t[i].chunk = found[i]
  <2>1. found[i] \in Vectors
    BY DEF IsFound
  <2>2. t[i] = [Candidate(found[i], 5) EXCEPT !.anchor = TRUE]
    BY DEF FromFile
  <2> QED BY <2>1, <2>2, AnchorIs
<1> HIDE DEF t
<1>3. t \in [DOMAIN found -> Candidates]
  BY <1>1, <1>2
<1>4. t \in Seq(Candidates) /\ (S = {} => t = <<>>)
  BY <1>1, <1>2, <1>3, FoundAre
<1> QED BY <1>4 DEF t

\* The first of what was found.
LEMMA FirstFound ==
  ASSUME NEW S, NEW found, IsFound(found, S), NEW n \in 0..Len(found)
  PROVE  IsFound(SubSeq(found, 1, n), S)
<1> DEFINE t == SubSeq(found, 1, n)
<1>1. found \in Seq(S) /\ Len(found) \in Nat /\ DOMAIN found = 1..Len(found)
  BY DEF IsFound
<1>2. t \in Seq(S) /\ Len(t) = n /\ \A i \in 1..n : t[i] = found[i]
  BY <1>1
<1> HIDE DEF t
<1>3. DOMAIN t = 1..n
  BY <1>2
<1>4. S = {} => t = <<>>
  BY <1>2
<1>5. \A j, k \in 1..n : t[j] = t[k] => j = k
  <2> \A j \in 1..n : j \in DOMAIN found
    BY <1>1
  <2> QED BY <1>2 DEF IsFound
<1>6. IsFound(t, S)
  BY <1>2, <1>3, <1>4, <1>5 DEF IsFound
<1> QED BY <1>6 DEF t

\* The candidates of a file of the error stack.
LEMMA FromStackIs ==
  ASSUME NEW S, S \subseteq Vectors, NEW found, IsFound(found, S)
  PROVE  FromStack(found) \in Seq(Candidates) /\ (S = {} => FromStack(found) = <<>>)
<1>1. CASE \E i \in DOMAIN found : found[i] = query.line
  <2> DEFINE c == [Candidate(query.line, 7) EXCEPT !.anchor = TRUE]
  <2>1. query.line \in Vectors /\ S # {}
    BY <1>1 DEF IsFound
  <2>2. c \in Candidates
    BY <2>1, AnchorIs
  <2>3. FromStack(found) = <<c>>
    BY <1>1, Zenon DEF FromStack
  <2> HIDE DEF c
  <2> QED BY <2>1, <2>2, <2>3
<1>2. CASE ~\E i \in DOMAIN found : found[i] = query.line
  <2> DEFINE n == IF Len(found) < 3 THEN Len(found) ELSE 3
  <2>1. n \in 0..Len(found)
    BY DEF IsFound
  <2>2. FromStack(found) = FromFile(SubSeq(found, 1, n))
    BY <1>2, Zenon DEF FromStack
  <2> HIDE DEF n
  <2> QED BY <2>1, <2>2, FirstFound, FromFileIs
<1> QED BY <1>1, <1>2

Queries == [at : {"idle", "search", "anchors", "rank", "done", "failed"}, file : Paths \cup {Nobody},
            stack : Paths \cup {Nobody}, line : Nat, budget : Nat, ranking : BOOLEAN,
            candidates : Shortlists, out : Shortlists, silent : BOOLEAN]

Removals == [at : {"none", "graph", "read", "delete", "metadata", "gone", "failed"}, ids : SUBSET Vectors,
             count : 0..MaxDeletes, alone : BOOLEAN]

Typed ==
  /\ vectors \subseteq Vectors /\ adding \subseteq Vectors
  /\ rows \in [graph : BOOLEAN, metadata : BOOLEAN]
  /\ removal \in Removals /\ query \in Queries

\* A deletion that no run of the indexer met empties the store.
Emptied ==
  removal.alone => /\ adding = {}
                   /\ removal.at = "delete" => vectors \subseteq removal.ids
                   /\ removal.at \in {"metadata", "gone"} => vectors = {}

\* A query put after it finds nothing, whatever it does next.
Silent ==
  query.silent => vectors = {} /\ adding = {} /\ query.candidates = <<>> /\ query.out = <<>>

RInv == Typed /\ Emptied /\ Silent /\ ContextIsGreedy

\* No query at all is one.
LEMMA IdleIs == Idle \in Queries
<1>1. <<>> \in Shortlists
  BY DEF Shortlists, Distinct
<1> QED BY <1>1 DEF Idle, Queries

\* The store starts empty or filled, and without a query.
LEMMA RInit == RetrievalInit => RInv
<1> SUFFICES ASSUME RetrievalInit PROVE RInv
  OBVIOUS
<1>1. Typed
  <2>1. query \in Queries
    BY IdleIs DEF RetrievalInit
  <2>2. removal \in Removals
    BY RetrievalAssumption DEF RetrievalInit, Removals
  <2> QED BY <2>1, <2>2 DEF RetrievalInit, Typed
<1>2. Emptied
  BY DEF RetrievalInit, Emptied
<1>3. Silent
  BY DEF RetrievalInit, Idle, Silent
<1>4. ContextIsGreedy
  BY DEF RetrievalInit, Idle, ContextIsGreedy
<1> QED BY <1>1, <1>2, <1>3, <1>4 DEF RInv

\* The context is judged by the query alone.
SameAnswer(q) ==
  /\ q.at = query.at /\ q.out = query.out /\ q.candidates = query.candidates
  /\ q.ranking = query.ranking /\ q.budget = query.budget

\* What a context should hold of its candidates.
Greedy(out, candidates, ranking, budget) ==
  /\ \A i, j \in DOMAIN out : i # j => out[i].chunk # out[j].chunk
  /\ candidates # <<>> => out # <<>>
  /\ ranking => \A i \in DOMAIN candidates, j \in DOMAIN out : j = 1 => FinalScore(candidates[i]) <= FinalScore(out[1])
  /\ Total(out) > budget => Len(out) = 1
  /\ Total(out) <= budget =>
       \A i \in {a \in DOMAIN candidates : \A j \in DOMAIN out : out[j].chunk # candidates[a].chunk} :
         Total(out) + TokensOf[candidates[i].chunk] > budget

\* A step that leaves the answer alone leaves the context what it was.
LEMMA GreedyStays ==
  ASSUME ContextIsGreedy, SameAnswer(query') \/ query'.at # "done"
  PROVE  ContextIsGreedy'
<1>1. CASE query'.at # "done"
  BY <1>1 DEF ContextIsGreedy
<1>2. CASE SameAnswer(query') /\ query'.at = "done"
  <2>1. Greedy(query.out, query.candidates, query.ranking, query.budget)
    BY <1>2, Zenon DEF ContextIsGreedy, SameAnswer, Greedy
  <2>2. Greedy(query'.out, query'.candidates, query'.ranking, query'.budget)
    BY <1>2, <2>1 DEF SameAnswer
  <2> QED BY <2>2, Zenon DEF ContextIsGreedy, Greedy, FinalScore, Total
<1> QED BY <1>1, <1>2

\* The store and the deletion, while the query stays as it is.
LEMMA RStore ==
  ASSUME RInv, UpsertBatch \/ StartDelete \/ DeleteGraph \/ ReadIds \/ DeleteIds \/ DeleteMetadata \/ DeleteFails
  PROVE  RInv'
<1>1. query' = query /\ Typed /\ Emptied /\ Silent /\ ContextIsGreedy
  BY DEF RInv, UpsertBatch, StartDelete, DeleteGraph, ReadIds, DeleteIds, DeleteMetadata, DeleteFails
<1>2. ContextIsGreedy'
  <2> SameAnswer(query')
    BY <1>1 DEF SameAnswer
  <2> QED BY <1>1, GreedyStays
<1>3. CASE UpsertBatch
  <2>1. PICK last \in adding : /\ vectors' = vectors \cup {c \in adding : c <= last}
                               /\ adding' = {c \in adding : c > last}
    BY <1>3 DEF UpsertBatch
  <2>2. ~removal.alone /\ ~query.silent /\ removal' = removal /\ rows' = rows
    BY <1>1, <1>3, <2>1 DEF Emptied, Silent, UpsertBatch
  <2>3. Typed'
    BY <1>1, <2>1, <2>2 DEF Typed
  <2>4. Emptied' /\ Silent'
    BY <1>1, <2>2 DEF Emptied, Silent
  <2> QED BY <1>2, <2>3, <2>4 DEF RInv
<1>4. CASE StartDelete
  <2>1. /\ removal' = [at |-> "graph", ids |-> {}, count |-> removal.count + 1, alone |-> adding = {}]
        /\ removal.count < MaxDeletes /\ UNCHANGED <<vectors, rows, adding, query>>
    BY <1>4 DEF StartDelete
  <2>2. removal.count + 1 \in 0..MaxDeletes
    BY <1>1, <2>1, RetrievalAssumption DEF Typed, Removals
  <2>3. removal' \in Removals
    <3>1. (adding = {}) \in BOOLEAN
      OBVIOUS
    <3> QED BY <2>1, <2>2, <3>1 DEF Removals
  <2>4. Typed'
    BY <1>1, <2>1, <2>3 DEF Typed
  <2>5. Emptied'
    BY <2>1 DEF Emptied
  <2>6. Silent'
    BY <1>1, <2>1 DEF Silent
  <2> QED BY <1>2, <2>4, <2>5, <2>6 DEF RInv
<1>5. CASE DeleteGraph
  <2>1. Typed'
    BY <1>1, <1>5 DEF DeleteGraph, Typed, Removals
  <2>2. Emptied' /\ Silent'
    BY <1>1, <1>5 DEF DeleteGraph, Typed, Removals, Emptied, Silent
  <2> QED BY <1>2, <2>1, <2>2 DEF RInv
<1>6. CASE ReadIds
  <2>1. /\ removal' = [removal EXCEPT !.at = IF vectors = {} THEN "metadata" ELSE "delete", !.ids = vectors]
        /\ removal \in Removals /\ vectors \subseteq Vectors /\ UNCHANGED <<vectors, rows, adding, query>>
    BY <1>1, <1>6 DEF ReadIds, Typed
  <2>2. removal' \in Removals /\ removal'.alone = removal.alone /\ removal'.ids = vectors
        /\ removal'.at = IF vectors = {} THEN "metadata" ELSE "delete"
    BY <2>1 DEF Removals
  <2>3. Typed' /\ Emptied' /\ Silent'
    BY <1>1, <2>1, <2>2 DEF Typed, Emptied, Silent
  <2> QED BY <1>2, <2>3 DEF RInv
<1>7. CASE DeleteIds
  <2>1. /\ removal.at = "delete" /\ vectors' = vectors \ removal.ids /\ removal' = [removal EXCEPT !.at = "metadata"]
        /\ UNCHANGED <<rows, adding, query>>
    BY <1>7 DEF DeleteIds
  <2>2. removal' \in Removals /\ removal'.alone = removal.alone /\ removal'.at = "metadata"
    BY <1>1, <2>1 DEF Typed, Removals
  <2>3. Typed' /\ Emptied' /\ Silent'
    BY <1>1, <2>1, <2>2 DEF Typed, Emptied, Silent
  <2> QED BY <1>2, <2>3 DEF RInv
<1>8. CASE DeleteMetadata
  <2>1. Typed'
    BY <1>1, <1>8 DEF DeleteMetadata, Typed, Removals
  <2>2. Emptied' /\ Silent'
    BY <1>1, <1>8 DEF DeleteMetadata, Typed, Removals, Emptied, Silent
  <2> QED BY <1>2, <2>1, <2>2 DEF RInv
<1>9. CASE DeleteFails
  <2>1. Typed'
    BY <1>1, <1>9 DEF DeleteFails, Typed, Removals
  <2>2. Emptied' /\ Silent'
    BY <1>1, <1>9 DEF DeleteFails, Typed, Removals, Emptied, Silent
  <2> QED BY <1>2, <2>1, <2>2 DEF RInv
<1> QED BY <1>3, <1>4, <1>5, <1>6, <1>7, <1>8, <1>9

\* A run of the indexer starts over: no deletion counts any more.
LEMMA RReindex ==
  ASSUME RInv, Reindex
  PROVE  RInv'
<1>1. /\ adding = {} /\ adding' = Vectors /\ vectors' = vectors /\ rows' = [graph |-> TRUE, metadata |-> TRUE]
      /\ removal' = [removal EXCEPT !.alone = FALSE] /\ query' = [query EXCEPT !.silent = FALSE]
      /\ removal \in Removals /\ query \in Queries /\ vectors \subseteq Vectors /\ ContextIsGreedy
  BY DEF RInv, Typed, Reindex
<1>2. removal' \in Removals /\ removal'.alone = FALSE
  BY <1>1 DEF Removals
<1>3. query' \in Queries /\ query'.silent = FALSE /\ SameAnswer(query')
  BY <1>1 DEF Queries, SameAnswer
<1>4. Typed' /\ Emptied' /\ Silent'
  BY <1>1, <1>2, <1>3 DEF Typed, Emptied, Silent
<1> QED BY <1>1, <1>3, <1>4, GreedyStays DEF RInv

\* A query is put: it is silent if a deletion emptied the store.
LEMMA RRetrieve ==
  ASSUME RInv, Retrieve
  PROVE  RInv'
<1>1. UNCHANGED <<vectors, rows, adding, removal>> /\ Typed /\ Emptied /\ ContextIsGreedy
  BY DEF RInv, Retrieve
<1>2. PICK file, stack \in Paths \cup {Nobody}, line \in Vectors, budget \in Budgets, ranking \in BOOLEAN :
        /\ stack = Nobody => \A c \in Vectors : line <= c
        /\ query' = [Idle EXCEPT !.at = "search", !.file = file, !.stack = stack, !.line = line,
                                 !.budget = budget, !.ranking = ranking,
                                 !.silent = removal.at = "gone" /\ removal.alone]
  BY Zenon DEF Retrieve
<1>3. /\ query' \in Queries /\ query'.at = "search" /\ query'.candidates = <<>> /\ query'.out = <<>>
      /\ query'.silent = (removal.at = "gone" /\ removal.alone)
  <2>1. line \in Nat /\ budget \in Nat /\ (removal.at = "gone" /\ removal.alone) \in BOOLEAN
    BY RetrievalAssumption
  <2>2. Idle \in Queries /\ Idle.candidates = <<>> /\ Idle.out = <<>>
    BY IdleIs DEF Idle
  <2> QED BY <1>2, <2>1, <2>2 DEF Queries
<1>4. Typed' /\ Emptied'
  BY <1>1, <1>3 DEF Typed, Emptied
<1>5. Silent'
  BY <1>1, <1>3 DEF Silent, Emptied
<1>6. ContextIsGreedy'
  BY <1>1, <1>3, GreedyStays
<1> QED BY <1>4, <1>5, <1>6 DEF RInv

\* The search answers, or fails.
LEMMA RSearch ==
  ASSUME RInv, Search \/ SearchFails
  PROVE  RInv'
<1>1. UNCHANGED <<vectors, rows, adding, removal>> /\ Typed /\ Emptied /\ Silent /\ ContextIsGreedy /\ query \in Queries
  BY DEF RInv, Search, SearchFails, Typed
<1>2. CASE Search
  <2>1. PICK found \in Results(vectors) :
          query' = [query EXCEPT !.at = "anchors",
                      !.candidates = [i \in DOMAIN found |-> Candidate(found[i], Similarity[found[i]])]]
    BY <1>2 DEF Search
  <2> DEFINE t == [i \in DOMAIN found |-> Candidate(found[i], Similarity[found[i]])]
  <2>2. t \in Shortlists /\ (vectors = {} => t = <<>>)
    <3>1. IsFound(found, vectors) /\ vectors \subseteq Vectors
      BY <1>1, ResultsAre DEF Typed
    <3> HIDE DEF t
    <3> QED BY <3>1, SearchedAre DEF t
  <2> HIDE DEF t
  <2>3. query' = [query EXCEPT !.at = "anchors", !.candidates = t]
    BY <2>1 DEF t
  <2>4. /\ query' \in Queries /\ query'.at = "anchors" /\ query'.candidates = t /\ query'.out = query.out
        /\ query'.silent = query.silent
    BY <1>1, <2>2, <2>3 DEF Queries
  <2>5. Typed' /\ Emptied'
    BY <1>1, <2>4 DEF Typed, Emptied
  <2>6. Silent'
    BY <1>1, <2>2, <2>4 DEF Silent
  <2>7. ContextIsGreedy'
    BY <1>1, <2>4, GreedyStays
  <2> QED BY <2>5, <2>6, <2>7 DEF RInv
<1>3. CASE SearchFails
  <2>1. query' = [query EXCEPT !.at = "failed"]
    BY <1>3 DEF SearchFails
  <2>2. /\ query' \in Queries /\ query'.at = "failed" /\ query'.candidates = query.candidates
        /\ query'.out = query.out /\ query'.silent = query.silent
    BY <1>1, <2>1 DEF Queries
  <2>3. Typed' /\ Emptied' /\ Silent'
    BY <1>1, <2>2 DEF Typed, Emptied, Silent
  <2>4. ContextIsGreedy'
    BY <1>1, <2>2, GreedyStays
  <2> QED BY <2>3, <2>4 DEF RInv
<1> QED BY <1>2, <1>3

\* The anchors are added, what the search found first.
LEMMA RExpand ==
  ASSUME RInv, ExpandAnchors
  PROVE  RInv'
<1>1. UNCHANGED <<vectors, rows, adding, removal>> /\ Typed /\ Emptied /\ Silent /\ ContextIsGreedy /\ query \in Queries
  BY DEF RInv, ExpandAnchors, Typed
<1>2. PICK file \in {<<>>} \cup Results(ChunksIn(query.file)), stack \in {<<>>} \cup Results(ChunksIn(query.stack)) :
        query' = [query EXCEPT !.at = "rank", !.candidates = Merged(@, FromFile(file) \o FromStack(stack))]
  BY DEF ExpandAnchors
<1> DEFINE more == FromFile(file) \o FromStack(stack)
           t == Merged(query.candidates, more)
<1>3. more \in Seq(Candidates) /\ (vectors = {} => more = <<>>)
  <2>1. /\ ChunksIn(query.file) \subseteq vectors /\ ChunksIn(query.stack) \subseteq vectors /\ vectors \subseteq Vectors
    BY <1>1 DEF ChunksIn, Typed
  <2>2. IsFound(file, ChunksIn(query.file)) /\ IsFound(stack, ChunksIn(query.stack))
    BY <2>1, ResultsAre
  <2>3. /\ FromFile(file) \in Seq(Candidates) /\ (ChunksIn(query.file) = {} => FromFile(file) = <<>>)
        /\ FromStack(stack) \in Seq(Candidates) /\ (ChunksIn(query.stack) = {} => FromStack(stack) = <<>>)
    <3>1. ChunksIn(query.file) \subseteq Vectors /\ ChunksIn(query.stack) \subseteq Vectors
      BY <2>1
    <3> QED BY <2>2, <3>1, FromFileIs, FromStackIs
  <2>4. more \in Seq(Candidates)
    BY <2>3
  <2>5. vectors = {} => more = <<>>
    <3> SUFFICES ASSUME vectors = {} PROVE more = <<>>
      OBVIOUS
    <3> FromFile(file) = <<>> /\ FromStack(stack) = <<>>
      BY <2>1, <2>3
    <3> QED OBVIOUS
  <2> QED BY <2>4, <2>5
<1> HIDE DEF more
<1>4. t \in Shortlists /\ (more = <<>> => t = query.candidates)
  <2> query.candidates \in Shortlists
    BY <1>1 DEF Queries
  <2> QED BY <1>3, MergedIs
<1>5. query' = [query EXCEPT !.at = "rank", !.candidates = t]
  BY <1>2 DEF more
<1> HIDE DEF t
<1>6. /\ query' \in Queries /\ query'.at = "rank" /\ query'.candidates = t /\ query'.out = query.out
      /\ query'.silent = query.silent
  BY <1>1, <1>4, <1>5 DEF Queries
<1>7. Typed' /\ Emptied'
  BY <1>1, <1>6 DEF Typed, Emptied
<1>8. Silent'
  BY <1>1, <1>3, <1>4, <1>6 DEF Silent
<1>9. ContextIsGreedy'
  BY <1>1, <1>6, GreedyStays
<1> QED BY <1>7, <1>8, <1>9 DEF RInv

\* What pruning a ranked list keeps is what the context should hold.
LEMMA PrunedIsGreedy ==
  ASSUME query.budget \in Nat, NEW candidates \in Shortlists
  PROVE  /\ Pruned(Ranked(candidates)) \in Shortlists /\ Greedy(Pruned(Ranked(candidates)), candidates, query.ranking, query.budget)
         /\ candidates = <<>> => Pruned(Ranked(candidates)) = <<>>
<1> DEFINE r == Ranked(candidates)
<1>1. /\ r \in Shortlists
      /\ \A m \in DOMAIN r : \E j \in DOMAIN candidates : r[m] = candidates[j]
      /\ \A j \in DOMAIN candidates : \E m \in DOMAIN r : r[m] = candidates[j]
      /\ r = <<>> <=> candidates = <<>>
      /\ query.ranking => Descending(r)
  BY RankedIs
<1> HIDE DEF r
<1>2. /\ DOMAIN r = 1..Len(r) /\ Len(r) \in Nat /\ r \in Seq(Candidates)
      /\ \A m \in 1..Len(r) : r[m] \in Candidates
  BY <1>1, ShortlistIs
<1>3. PICK k : Keeps(k, r, Len(r)) /\ Pruned(r) = k.out
  BY <1>1, PrunedIs
<1> DEFINE out == k.out
<1>4. /\ out \in Shortlists /\ k.stop \in BOOLEAN
      /\ \A j \in DOMAIN out : \E m \in 1..Len(r) : out[j] = r[m]
      /\ Len(r) # 0 => out # <<>> /\ out[1] = r[1]
      /\ k.stop => Len(out) = 1 /\ Total(out) > query.budget
      /\ ~k.stop => /\ Total(out) <= query.budget
                    /\ \A m \in 1..Len(r) : \/ \E j \in DOMAIN out : out[j] = r[m]
                                            \/ Total(out) + TokensOf[r[m].chunk] > query.budget
  BY <1>3 DEF Keeps
<1> HIDE DEF out
<1>5. DOMAIN out = 1..Len(out) /\ Len(out) \in Nat /\ out \in Seq(Candidates) /\ Total(out) \in Nat
  BY <1>4, ShortlistIs, TotalIs
<1>6. \A i, j \in DOMAIN out : i # j => out[i].chunk # out[j].chunk
  BY <1>4, ShortlistIs DEF Distinct
<1>7. candidates # <<>> => out # <<>>
  <2> r # <<>> => Len(r) # 0
    BY <1>2
  <2> QED BY <1>1, <1>4
<1>8. ASSUME query.ranking, NEW i \in DOMAIN candidates, NEW j \in DOMAIN out, j = 1
      PROVE  FinalScore(candidates[i]) <= FinalScore(out[1])
  <2>1. PICK m \in 1..Len(r) : r[m] = candidates[i]
    BY <1>1, <1>2
  <2>2. out[1] = r[1] /\ 1 \in 1..Len(r)
    BY <2>1, <1>2, <1>4
  <2>3. m = 1 \/ FinalScore(r[1]) >= FinalScore(r[m])
    BY <2>2, <1>1, <1>2, <1>8 DEF Descending
  <2>4. FinalScore(r[1]) \in Int /\ FinalScore(r[m]) \in Int
    BY <2>2, <1>2, Scores
  <2> QED BY <2>1, <2>2, <2>3, <2>4
<1>9. Total(out) > query.budget => Len(out) = 1
  BY <1>4, <1>5
<1>10. ASSUME Total(out) <= query.budget, NEW i \in DOMAIN candidates,
              \A j \in DOMAIN out : out[j].chunk # candidates[i].chunk
       PROVE  Total(out) + TokensOf[candidates[i].chunk] > query.budget
  <2>1. PICK m \in 1..Len(r) : r[m] = candidates[i]
    BY <1>1, <1>2
  <2>2. ~k.stop
    BY <1>4, <1>5, <1>10
  <2>3. ~\E j \in DOMAIN out : out[j] = r[m]
    BY <2>1, <1>10
  <2> QED BY <2>1, <2>2, <2>3, <1>4
<1>11. Greedy(out, candidates, query.ranking, query.budget)
  BY <1>6, <1>7, <1>8, <1>9, <1>10 DEF Greedy
<1>12. candidates = <<>> => out = <<>>
  <2> SUFFICES ASSUME candidates = <<>>, out # <<>> PROVE FALSE
    OBVIOUS
  <2>1. 1 \in DOMAIN out /\ Len(r) = 0
    BY <1>1, <1>5
  <2>2. PICK m \in 1..0 : TRUE
    BY <2>1, <1>4
  <2> QED BY <2>2
<1> QED BY <1>3, <1>4, <1>11, <1>12 DEF out, r

\* The context is built: bonuses, order, limit.
LEMMA RBuild ==
  ASSUME RInv, BuildContext
  PROVE  RInv'
<1>1. UNCHANGED <<vectors, rows, adding, removal>> /\ Typed /\ Emptied /\ Silent /\ query \in Queries
  BY DEF RInv, BuildContext, Typed
<1> DEFINE c == Located(query.candidates)
           o == Pruned(Ranked(c))
<1>2. query' = [query EXCEPT !.at = "done", !.out = o, !.candidates = c]
  BY DEF BuildContext, Answer, Expanded
<1>3. c \in Shortlists /\ (query.candidates = <<>> => c = <<>>)
  <2> query.candidates \in Shortlists
    BY <1>1 DEF Queries
  <2> QED BY LocatedIs
<1> HIDE DEF c
<1>4. o \in Shortlists /\ Greedy(o, c, query.ranking, query.budget) /\ (c = <<>> => o = <<>>)
  <2> query.budget \in Nat
    BY <1>1 DEF Queries
  <2> QED BY <1>3, PrunedIsGreedy
<1> HIDE DEF o
<1>5. /\ query' \in Queries /\ query'.out = o /\ query'.candidates = c /\ query'.silent = query.silent
      /\ query'.ranking = query.ranking /\ query'.budget = query.budget
  BY <1>1, <1>2, <1>3, <1>4 DEF Queries
<1>6. Typed' /\ Emptied'
  BY <1>1, <1>5 DEF Typed, Emptied
<1>7. Silent'
  BY <1>1, <1>3, <1>4, <1>5 DEF Silent
<1>8. ContextIsGreedy'
  <2>1. Greedy(query'.out, query'.candidates, query'.ranking, query'.budget)
    BY <1>4, <1>5
  <2> QED BY <2>1, Zenon DEF ContextIsGreedy, Greedy, FinalScore, Total
<1> QED BY <1>6, <1>7, <1>8 DEF RInv

\* Every step of the store, the deletion and the query keeps the invariant.
LEMMA RNext == RInv /\ [RetrievalNext]_retrievalVars => RInv'
<1> SUFFICES ASSUME RInv, [RetrievalNext]_retrievalVars PROVE RInv'
  OBVIOUS
<1>1. CASE UpsertBatch \/ StartDelete \/ DeleteGraph \/ ReadIds \/ DeleteIds \/ DeleteMetadata \/ DeleteFails
  BY <1>1, RStore
<1>2. CASE Reindex
  BY <1>2, RReindex
<1>3. CASE Retrieve
  BY <1>3, RRetrieve
<1>4. CASE Search \/ SearchFails
  BY <1>4, RSearch
<1>5. CASE ExpandAnchors
  BY <1>5, RExpand
<1>6. CASE BuildContext
  BY <1>6, RBuild
<1>7. CASE UNCHANGED retrievalVars
  <2>1. query' = query /\ UNCHANGED <<vectors, rows, adding, removal>>
    BY <1>7 DEF retrievalVars
  <2>2. ContextIsGreedy'
    <3> SameAnswer(query')
      BY <2>1 DEF SameAnswer
    <3> QED BY GreedyStays DEF RInv
  <2> QED BY <2>1, <2>2 DEF RInv, Typed, Emptied, Silent
<1> QED BY <1>1, <1>2, <1>3, <1>4, <1>5, <1>6, <1>7 DEF RetrievalNext

\* The invariant says what the checked one says.
LEMMA RImplies == RInv => RetrievalInv
<1> SUFFICES ASSUME RInv PROVE RetrievalInv
  OBVIOUS
<1>1. Typed /\ Silent /\ ContextIsGreedy /\ query \in Queries /\ removal \in Removals
  BY DEF RInv, Typed
<1>2. query.candidates \in Shortlists
  BY <1>1 DEF Queries
<1>3. \A i \in DOMAIN query.candidates : query.candidates[i].chunk \in Vectors
  BY <1>2, ShortlistIs DEF Candidates
<1>4. RetrievalTypeOK
  BY <1>1, <1>3 DEF RetrievalTypeOK, Typed, Queries, Removals
<1> QED BY <1>1, <1>4 DEF RetrievalInv, DeletedIsSilent, Silent

\* retrieve_with_progress: whatever the scores and lengths, a context holds the best
\* of the candidates that fit, each once; and a query put after a deletion that no
\* run of the indexer met finds nothing of the repository.
THEOREM RetrievalCorrect == RetrievalSpec => []RetrievalInv
<1> QED BY RInit, RNext, RImplies, PTL DEF RetrievalSpec

-----------------------------------------------------------------------------
(***************************************************************************)
(* CodeGraph: what indexing writes, deletions take and traversals read.    *)
(*                                                                         *)
(* Every node a write needs is there before it, whatever the graph held: from *)
(* this a run that no deletion met is whole.  A traversal is described by what *)
(* it may have missed (nothing behind its frontier) and what it may not have *)
(* found (nothing further than its depth); its nodes lie in levels, and a  *)
(* longest walk through the levels is a chain that is shown.               *)
(***************************************************************************)

\* The image of a finite set is no larger.
LEMMA ImageIsFinite ==
  ASSUME NEW S, IsFiniteSet(S), NEW f
  PROVE  IsFiniteSet({f[x] : x \in S}) /\ Cardinality({f[x] : x \in S}) <= Cardinality(S)
<1> DEFINE T == {f[x] : x \in S}
           g == [x \in S |-> f[x]]
<1>1. g \in Surjection(S, T)
  BY DEF Surjection
<1> HIDE DEF g, T
<1>2. IsFiniteSet(T) /\ Cardinality(T) <= Cardinality(S)
  BY <1>1, FS_Surjection
<1> QED BY <1>2 DEF T

\* A list has finitely many members.
LEMMA ListIsFinite ==
  ASSUME NEW S, NEW s \in Seq(S)
  PROVE  IsFiniteSet(ToSet(s)) /\ ToSet(s) \subseteq S
<1>1. IsFiniteSet(DOMAIN s)
  <2>1. DOMAIN s = 1..Len(s) /\ Len(s) \in Nat
    OBVIOUS
  <2> QED BY <2>1, FS_Interval
<1>2. IsFiniteSet({s[i] : i \in DOMAIN s})
  BY <1>1, ImageIsFinite
<1> QED BY <1>2 DEF ToSet

\* The repository: finitely many nodes, each of a kind; what the assumption says of the tree.
NodeKinds == {"Chunk", "Symbol", "File", "Directory", "Repo"}

\* The tree is a list of triples.
LEMMA TreeIs ==
  /\ Tree \in Seq({"Repo", "Directory", "File", "Symbol"} \X Named \X Named)
  /\ DOMAIN Tree = 1..Len(Tree) /\ Len(Tree) \in Nat
  /\ \A i \in DOMAIN Tree : /\ Tree[i] = <<Tree[i][1], Tree[i][2], Tree[i][3]>>
                            /\ Tree[i][1] \in {"Repo", "Directory", "File", "Symbol"}
                            /\ Tree[i][2] \in Named /\ Tree[i][3] \in Named
<1>1. Tree \in Seq({"Repo", "Directory", "File", "Symbol"} \X Named \X Named)
  BY RepositoryAssumption
<1>2. DOMAIN Tree = 1..Len(Tree) /\ Len(Tree) \in Nat
  BY <1>1
<1>3. ASSUME NEW i \in DOMAIN Tree
      PROVE  /\ Tree[i] = <<Tree[i][1], Tree[i][2], Tree[i][3]>>
             /\ Tree[i][1] \in {"Repo", "Directory", "File", "Symbol"}
             /\ Tree[i][2] \in Named /\ Tree[i][3] \in Named
  <2>1. Tree[i] \in {"Repo", "Directory", "File", "Symbol"} \X Named \X Named
    BY <1>1
  <2> QED BY <2>1
<1> QED BY <1>1, <1>2, <1>3

\* An id is that of nodes of one kind; what is not in the tree is a chunk.
LEMMA KindIs ==
  /\ \A i \in DOMAIN Tree : KindOf(Tree[i][2]) = Tree[i][1]
  /\ \A n : KindOf(n) \in NodeKinds
  /\ \A n : n \notin Named => KindOf(n) = "Chunk"
<1>1. ASSUME NEW n \in Named
      PROVE  \E i \in DOMAIN Tree : Tree[i][2] = n /\ KindOf(n) = Tree[i][1]
  <2>1. \E i \in DOMAIN Tree : Tree[i][2] = n
    BY DEF Named
  <2>2. KindOf(n) = Tree[CHOOSE i \in DOMAIN Tree : Tree[i][2] = n][1]
    BY DEF KindOf
  <2> QED BY <2>1, <2>2
<1>2. ASSUME NEW i \in DOMAIN Tree PROVE KindOf(Tree[i][2]) = Tree[i][1]
  <2>1. PICK j \in DOMAIN Tree : Tree[j][2] = Tree[i][2] /\ KindOf(Tree[i][2]) = Tree[j][1]
    BY <1>1, TreeIs
  <2>2. \A a, b \in DOMAIN Tree : Tree[a][2] = Tree[b][2] => Tree[a][1] = Tree[b][1]
    BY RepositoryAssumption
  <2> QED BY <2>1, <2>2
<1>3. ASSUME NEW n, n \notin Named PROVE KindOf(n) = "Chunk"
  BY <1>3 DEF KindOf
<1>4. ASSUME NEW n PROVE KindOf(n) \in NodeKinds
  <2>1. CASE n \in Named
    BY <2>1, <1>1, TreeIs DEF NodeKinds
  <2>2. CASE n \notin Named
    BY <2>2, <1>3 DEF NodeKinds
  <2> QED BY <2>1, <2>2
<1> QED BY <1>2, <1>3, <1>4

\* Files are nodes of the tree, finitely many, none of them named like a deletion of all.
LEMMA FilesAre ==
  /\ FilesOf \subseteq Named /\ IsFiniteSet(FilesOf) /\ "repo" \notin FilesOf
  /\ \A f \in FilesOf : /\ KindOf(f) = "File" /\ ChunksOf[f] \in Seq(AllChunks)
                        /\ ToSet(ChunksOf[f]) \subseteq AllChunks /\ ToSet(ChunksOf[f]) \cap Named = {}
<1>1. \A f \in FilesOf : f \in Named /\ KindOf(f) = "File" /\ f # "repo" /\ ChunksOf[f] \in Seq(AllChunks)
  BY RepositoryAssumption
<1>2. AllChunks \cap Named = {}
  BY RepositoryAssumption
<1>3. IsFiniteSet(Named)
  <2>1. IsFiniteSet(DOMAIN Tree)
    BY TreeIs, FS_Interval
  <2> DEFINE f == [i \in DOMAIN Tree |-> Tree[i][2]]
  <2>2. IsFiniteSet({f[i] : i \in DOMAIN Tree})
    BY <2>1, ImageIsFinite
  <2>3. {f[i] : i \in DOMAIN Tree} = Named
    BY DEF Named
  <2> QED BY <2>2, <2>3
<1>4. IsFiniteSet(FilesOf) /\ FilesOf \subseteq Named
  BY <1>1, <1>3, FS_Subset
<1>5. \A f \in FilesOf : ToSet(ChunksOf[f]) \subseteq AllChunks
  BY DEF AllChunks
<1> QED BY <1>1, <1>2, <1>4, <1>5

Edges == AllNodes \X EdgeTypes \X AllNodes

\* There are finitely many nodes and edges.
LEMMA NodesAreFinite ==
  IsFiniteSet(AllNodes) /\ IsFiniteSet(Edges) /\ Cardinality(AllNodes) \in Nat
<1>1. IsFiniteSet(Named)
  <2>1. IsFiniteSet(DOMAIN Tree)
    BY TreeIs, FS_Interval
  <2> DEFINE f == [i \in DOMAIN Tree |-> Tree[i][2]]
  <2>2. IsFiniteSet({f[i] : i \in DOMAIN Tree})
    BY <2>1, ImageIsFinite
  <2>3. {f[i] : i \in DOMAIN Tree} = Named
    BY DEF Named
  <2> QED BY <2>2, <2>3
<1>2. IsFiniteSet(AllChunks)
  <2> DEFINE g == [f \in FilesOf |-> ToSet(ChunksOf[f])]
             S == {g[f] : f \in FilesOf}
  <2>1. IsFiniteSet(S)
    BY FilesAre, ImageIsFinite
  <2>2. \A T \in S : IsFiniteSet(T)
    BY FilesAre, ListIsFinite
  <2>3. UNION S = AllChunks
    BY DEF AllChunks
  <2> HIDE DEF S
  <2> QED BY <2>1, <2>2, <2>3, FS_UNION
<1>3. IsFiniteSet(AllNodes) /\ Cardinality(AllNodes) \in Nat
  BY <1>1, <1>2, FS_Union, FS_CardinalityType DEF AllNodes
<1>4. IsFiniteSet(EdgeTypes)
  <2> DEFINE s == <<"CONTAINS", "CALLS", "IMPORTS", "NEXT_CHUNK", "REPRESENTED_BY">>
  <2>1. s \in Seq(EdgeTypes)
    BY DEF EdgeTypes
  <2>2. DOMAIN s = 1..5
    OBVIOUS
  <2>3. EdgeTypes \subseteq ToSet(s)
    <3>1. s[1] = "CONTAINS" /\ s[2] = "CALLS" /\ s[3] = "IMPORTS" /\ s[4] = "NEXT_CHUNK" /\ s[5] = "REPRESENTED_BY"
      OBVIOUS
    <3> HIDE DEF s
    <3>2. \A i \in 1..5 : s[i] \in ToSet(s)
      BY <2>2 DEF ToSet
    <3> QED BY <3>1, <3>2 DEF EdgeTypes
  <2> HIDE DEF s
  <2> QED BY <2>1, <2>3, ListIsFinite, FS_Subset
<1>5. IsFiniteSet(Edges)
  <2> DEFINE P == (AllNodes \X EdgeTypes) \X AllNodes
             f == [p \in P |-> <<p[1][1], p[1][2], p[2]>>]
  <2>1. IsFiniteSet(P)
    BY <1>3, <1>4, FS_Product
  <2>2. IsFiniteSet({f[p] : p \in P})
    <3> HIDE DEF f, P
    <3> QED BY <2>1, ImageIsFinite
  <2>3. ASSUME NEW e \in Edges PROVE e \in {f[p] : p \in P}
    <3>1. e = <<e[1], e[2], e[3]>> /\ e[1] \in AllNodes /\ e[2] \in EdgeTypes /\ e[3] \in AllNodes
      BY DEF Edges
    <3> DEFINE p == <<<<e[1], e[2]>>, e[3]>>
    <3>2. p \in P
      BY <3>1
    <3>3. f[p] = e
      <4>1. p[1][1] = e[1] /\ p[1][2] = e[2] /\ p[2] = e[3]
        OBVIOUS
      <4> HIDE DEF p, P
      <4> QED BY <4>1, <3>1, <3>2
    <3> HIDE DEF p, f, P
    <3> QED BY <3>2, <3>3
  <2> HIDE DEF f, P
  <2> QED BY <2>2, <2>3, FS_Subset
<1> QED BY <1>3, <1>5

\* Appending to a list of a set.
LEMMA EmptyAndAppend ==
  ASSUME NEW W, NEW s \in Seq(W)
  PROVE  <<>> \o s = s
  BY EmptySeq, ConcatEmptySeq

\* A flattened list is reached from the empty one by appending its parts in turn.
LEMMA FlattenReaches ==
  ASSUME NEW W, NEW seqs \in Seq(Seq(W)), NEW D, <<>> \in D[0],
         \A i \in 0..Len(seqs) : D[i] \subseteq Seq(W),
         \A i \in 1..Len(seqs) : \A s \in D[i - 1] : s \o seqs[i] \in D[i]
  PROVE  FlattenSeq(seqs) \in D[Len(seqs)]
<1> DEFINE n == Len(seqs)
<1>1. n \in Nat /\ \A i \in 1..n : seqs[i] \in Seq(W)
  OBVIOUS
<1>2. CASE n = 0
  <2>1. FlattenSeq(seqs) = seqs
    BY <1>2 DEF FlattenSeq
  <2>2. seqs = <<>>
    BY <1>2, EmptySeq
  <2> QED BY <2>1, <2>2, <1>2
<1>3. CASE n # 0
  <2> DEFINE G == [p \in (1..n) \X Seq(W) |-> p[2] \o seqs[p[1]]]
             All == [i \in 0..n |-> Seq(W)]
  <2>1. \A i \in 1..n : \A s \in Seq(W) : G[<<i, s>>] = s \o seqs[i] /\ s \o seqs[i] \in Seq(W)
    <3>1. ASSUME NEW i \in 1..n, NEW s \in Seq(W) PROVE G[<<i, s>>] = s \o seqs[i] /\ s \o seqs[i] \in Seq(W)
      <4>1. <<i, s>> \in (1..n) \X Seq(W)
        OBVIOUS
      <4>2. G[<<i, s>>] = s \o seqs[i]
        BY <4>1
      <4>3. s \o seqs[i] \in Seq(W)
        BY <1>1, ConcatProperties
      <4> QED BY <4>2, <4>3
    <3> QED BY <3>1
  <2> HIDE DEF n, G
  <2>2. Leads(n, <<>>, G, All)
    <3>1. <<>> \in All[0]
      BY <1>1
    <3>2. ASSUME NEW i \in 1..n, NEW d \in All[i - 1] PROVE G[<<i, d>>] \in All[i]
      <4>1. i - 1 \in 0..n /\ i \in 0..n
        BY <1>1
      <4>2. d \in Seq(W)
        BY <4>1
      <4>3. G[<<i, d>>] \in Seq(W)
        BY <4>2, <2>1
      <4> QED BY <4>1, <4>3
    <3> QED BY <3>1, <3>2 DEF Leads
  <2>3. \A i \in 0..n : All[i] \subseteq Seq(W)
    OBVIOUS
  <2> HIDE DEF All
  <2>4. PICK f \in [0..n -> Seq(W)] : Follows(f, n, <<>>, G)
    BY <1>1, <2>2, <2>3, Iterated
  <2>5. f[0] = <<>> /\ \A i \in 1..n : f[i] = f[i - 1] \o seqs[i]
    <3>1. f[0] = <<>> /\ \A i \in 1..n : f[i] = G[<<i, f[i - 1]>>]
      BY <2>4 DEF Follows
    <3>2. \A i \in 1..n : f[i - 1] \in Seq(W)
      BY <1>1, <2>4
    <3> QED BY <3>1, <3>2, <2>1
  <2> DEFINE Is(h) == h = [i \in 1..Len(seqs) |-> IF i = 1 THEN seqs[i] ELSE h[i - 1] \o seqs[i]]
             e == [i \in 1..n |-> f[i]]
             h == CHOOSE h : Is(h)
  <2>6. Is(e)
    <3>1. ASSUME NEW i \in 1..n PROVE e[i] = IF i = 1 THEN seqs[i] ELSE e[i - 1] \o seqs[i]
      <4>1. CASE i = 1
        <5>1. e[1] = f[1]
          BY <4>1
        <5>2. f[1] = <<>> \o seqs[1]
          <6>1. 1 - 1 = 0 /\ 1 \in 1..n
            BY <4>1
          <6>2. f[1] = f[1 - 1] \o seqs[1]
            BY <6>1, <2>5, Zenon
          <6> QED BY <6>1, <6>2, <2>5
        <5>3. <<>> \o seqs[1] = seqs[1]
          BY <4>1, <1>1, EmptyAndAppend
        <5> QED BY <4>1, <5>1, <5>2, <5>3
      <4>2. CASE i # 1
        <5>1. i - 1 \in 1..n
          BY <1>1, <4>2
        <5> QED BY <5>1, <4>2, <2>5
      <4> QED BY <4>1, <4>2
    <3>2. e = [i \in 1..n |-> IF i = 1 THEN seqs[i] ELSE e[i - 1] \o seqs[i]]
      <4>1. e = [i \in 1..n |-> e[i]]
        OBVIOUS
      <4> HIDE DEF e
      <4> QED BY <4>1, <3>1, Zenon
    <3> HIDE DEF e
    <3> QED BY <3>2 DEF n
  <2>7. Is(h)
    <3> HIDE DEF Is, e
    <3> QED BY <2>6
  <2>8. FlattenSeq(seqs) = h[n]
    BY <1>3, Zenon DEF FlattenSeq, n
  <2> HIDE DEF h
  <2>9. \A i \in 1..n : h[i] = IF i = 1 THEN seqs[i] ELSE h[i - 1] \o seqs[i]
    BY <2>7 DEF n
  <2> DEFINE g == [i \in 0..n |-> IF i = 0 THEN <<>> ELSE h[i]]
  <2>10. \A i \in 1..n : g[i - 1] \in D[i - 1] => g[i] \in D[i]
    <3>1. SUFFICES ASSUME NEW i \in 1..n, g[i - 1] \in D[i - 1] PROVE g[i] \in D[i]
      OBVIOUS
    <3>2. i \in 0..n /\ i - 1 \in 0..n /\ i # 0
      BY <1>1
    <3>3. g[i] = g[i - 1] \o seqs[i]
      <4>1. CASE i = 1
        <5>1. g[i] = seqs[1] /\ g[i - 1] = <<>>
          BY <4>1, <3>2, <2>9
        <5> QED BY <5>1, <4>1, <1>1, EmptyAndAppend
      <4>2. CASE i # 1
        <5>1. g[i - 1] = h[i - 1] /\ g[i] = h[i]
          BY <4>2, <3>2
        <5> QED BY <5>1, <4>2, <2>9
      <4> QED BY <4>1, <4>2
    <3> HIDE DEF g
    <3> QED BY <3>1, <3>3 DEF n
  <2>11. g[0] \in D[0]
    BY <1>1
  <2>12. g[n] = h[n] /\ n \in 0..n
    BY <1>1, <1>3 DEF n
  <2> HIDE DEF g
  <2>13. g[n] \in D[n]
    BY <2>10, <2>11, <2>12, <1>1, Reached
  <2> QED BY <2>13, <2>12, <2>8 DEF n
<1> QED BY <1>2, <1>3

\* The writes of a run: which nodes one gives, and which it needs.
Writable == {<<"node", n>> : n \in Named} \cup {<<"edge", e>> : e \in Named \X EdgeTypes \X Named}
            \cup {<<"chunks", f>> : f \in FilesOf} \cup {<<"next", f>> : f \in FilesOf} \cup { <<"links">> }

Gives(w) == CASE w[1] = "node"   -> {w[2]}
              [] w[1] = "chunks" -> ToSet(ChunksOf[w[2]])
              [] OTHER           -> {}
Needs(w) == CASE w[1] = "edge"   -> {w[2][1], w[2][3]}
              [] w[1] = "chunks" -> {w[2]}
              [] w[1] = "links"  -> AllNodes
              [] OTHER           -> {}

\* Every write of a list finds the nodes it needs among Ns and those given before it.
Given(s)        == UNION {Gives(s[j]) : j \in DOMAIN s}
Supported(s, Ns) == \A j \in DOMAIN s : Needs(s[j]) \subseteq Ns \cup UNION {Gives(s[i]) : i \in 1..(j - 1)}

\* More nodes at the beginning do no harm.
LEMMA SupportedMore ==
  ASSUME NEW s, NEW Ns, NEW M, Ns \subseteq M, Supported(s, Ns)
  PROVE  Supported(s, M)
<1>1. ASSUME NEW j \in DOMAIN s PROVE Needs(s[j]) \subseteq M \cup UNION {Gives(s[i]) : i \in 1..(j - 1)}
  <2> DEFINE U == UNION {Gives(s[i]) : i \in 1..(j - 1)}
  <2>1. Needs(s[j]) \subseteq Ns \cup U
    BY DEF Supported
  <2> HIDE DEF U
  <2>2. Needs(s[j]) \subseteq M \cup U
    BY <2>1
  <2> QED BY <2>2 DEF U
<1> QED BY <1>1 DEF Supported

\* Two lists of writes after one another: the second may use what the first gives.
LEMMA SupportedBoth ==
  ASSUME NEW s \in Seq(Writable), NEW t \in Seq(Writable), NEW Ns, Supported(s, Ns), Supported(t, Ns \cup Given(s))
  PROVE  /\ s \o t \in Seq(Writable) /\ Supported(s \o t, Ns) /\ Given(s \o t) = Given(s) \cup Given(t)
         /\ ToSet(s \o t) = ToSet(s) \cup ToSet(t)
<1> DEFINE r == s \o t
           m == Len(s)
           n == Len(t)
<1>1. /\ m \in Nat /\ n \in Nat /\ Len(r) = m + n /\ DOMAIN r = 1..(m + n) /\ DOMAIN s = 1..m /\ DOMAIN t = 1..n
      /\ r \in Seq(Writable)
      /\ \A i \in 1..m : r[i] = s[i]
      /\ \A i \in 1..n : r[m + i] = t[i]
  <2>1. r \in Seq(Writable) /\ Len(r) = m + n /\ m \in Nat /\ n \in Nat
    BY ConcatProperties, LenProperties
  <2>2. DOMAIN r = 1..(m + n) /\ DOMAIN s = 1..m /\ DOMAIN t = 1..n
    BY <2>1, LenProperties
  <2>3. \A i \in 1..m : r[i] = s[i]
    BY <2>1
  <2>4. \A i \in 1..n : r[m + i] = t[i]
    BY <2>1
  <2> QED BY <2>1, <2>2, <2>3, <2>4
<1> HIDE DEF r, m, n
<1>2. \A i \in 1..(m + n) : i \in 1..m \/ \E k \in 1..n : i = m + k
  <2>1. SUFFICES ASSUME NEW i \in 1..(m + n), i \notin 1..m PROVE \E k \in 1..n : i = m + k
    OBVIOUS
  <2>2. i - m \in 1..n /\ i = m + (i - m)
    BY <1>1, <2>1
  <2> QED BY <2>2
<1>3. \A i \in 1..m : i \in 1..(m + n)
  BY <1>1
<1>4. \A k \in 1..n : m + k \in 1..(m + n)
  BY <1>1
<1>5. Given(r) = Given(s) \cup Given(t)
  <2>1. ASSUME NEW x \in Given(r) PROVE x \in Given(s) \cup Given(t)
    <3>1. PICK i \in 1..(m + n) : x \in Gives(r[i])
      BY <1>1 DEF Given
    <3>2. CASE i \in 1..m
      BY <3>1, <3>2, <1>1 DEF Given
    <3>3. CASE i \notin 1..m
      <4>1. PICK k \in 1..n : i = m + k
        BY <3>3, <1>2
      <4> QED BY <4>1, <3>1, <1>1 DEF Given
    <3> QED BY <3>2, <3>3
  <2>2. ASSUME NEW x \in Given(s) PROVE x \in Given(r)
    <3>1. PICK i \in 1..m : x \in Gives(s[i])
      BY <1>1 DEF Given
    <3>2. x \in Gives(r[i]) /\ i \in DOMAIN r
      BY <3>1, <1>1, <1>3
    <3> QED BY <3>2 DEF Given
  <2>3. ASSUME NEW x \in Given(t) PROVE x \in Given(r)
    <3>1. PICK k \in 1..n : x \in Gives(t[k])
      BY <1>1 DEF Given
    <3>2. x \in Gives(r[m + k]) /\ m + k \in DOMAIN r
      BY <3>1, <1>1, <1>4
    <3> QED BY <3>2 DEF Given
  <2> QED BY <2>1, <2>2, <2>3
<1>6. ToSet(r) = ToSet(s) \cup ToSet(t)
  <2>1. ASSUME NEW x \in ToSet(r) PROVE x \in ToSet(s) \cup ToSet(t)
    <3>1. PICK i \in 1..(m + n) : x = r[i]
      BY <1>1 DEF ToSet
    <3>2. CASE i \in 1..m
      BY <3>1, <3>2, <1>1 DEF ToSet
    <3>3. CASE i \notin 1..m
      <4>1. PICK k \in 1..n : i = m + k
        BY <3>3, <1>2
      <4> QED BY <4>1, <3>1, <1>1 DEF ToSet
    <3> QED BY <3>2, <3>3
  <2>2. ASSUME NEW x \in ToSet(s) PROVE x \in ToSet(r)
    <3>1. PICK i \in 1..m : x = s[i]
      BY <1>1 DEF ToSet
    <3> QED BY <3>1, <1>1, <1>3 DEF ToSet
  <2>3. ASSUME NEW x \in ToSet(t) PROVE x \in ToSet(r)
    <3>1. PICK k \in 1..n : x = t[k]
      BY <1>1 DEF ToSet
    <3>2. x = r[m + k] /\ m + k \in DOMAIN r
      BY <3>1, <1>1, <1>4
    <3> QED BY <3>2 DEF ToSet
  <2> QED BY <2>1, <2>2, <2>3
<1>7. Supported(r, Ns)
  <2>1. SUFFICES ASSUME NEW j \in 1..(m + n), NEW x \in Needs(r[j])
                 PROVE  x \in Ns \cup UNION {Gives(r[i]) : i \in 1..(j - 1)}
    BY <1>1 DEF Supported
  <2> SUFFICES ASSUME x \notin Ns PROVE \E i \in 1..(j - 1) : x \in Gives(r[i])
    OBVIOUS
  <2>2. CASE j \in 1..m
    <3>1. x \in UNION {Gives(s[i]) : i \in 1..(j - 1)}
      BY <2>1, <2>2, <1>1 DEF Supported
    <3>2. PICK i \in 1..(j - 1) : x \in Gives(s[i])
      BY <3>1
    <3>3. i \in 1..m
      BY <2>2, <1>1
    <3> QED BY <3>2, <3>3, <1>1
  <2>3. CASE j \notin 1..m
    <3>1. PICK k \in 1..n : j = m + k
      BY <2>3, <1>2
    <3>2. x \in Needs(t[k])
      BY <3>1, <1>1
    <3>3. x \in (Ns \cup Given(s)) \cup UNION {Gives(t[i]) : i \in 1..(k - 1)}
      BY <3>1, <3>2, <1>1 DEF Supported
    <3>4. CASE x \in Given(s)
      <4>1. PICK i \in 1..m : x \in Gives(s[i])
        BY <3>4, <1>1 DEF Given
      <4>2. i \in 1..(j - 1)
        BY <1>1, <3>1
      <4> QED BY <4>1, <4>2, <1>1
    <3>5. CASE x \in UNION {Gives(t[i]) : i \in 1..(k - 1)}
      <4>1. PICK i \in 1..(k - 1) : x \in Gives(t[i])
        BY <3>5
      <4>2. m + i \in 1..(j - 1) /\ i \in 1..n
        BY <1>1, <3>1
      <4> QED BY <4>1, <4>2, <1>1
    <3> QED BY <3>3, <3>4, <3>5
  <2> QED BY <2>2, <2>3
<1> QED BY <1>1, <1>5, <1>6, <1>7 DEF r

\* When the first write is done, the rest may use what it gave.
LEMMA SupportedRest ==
  ASSUME NEW s \in Seq(Writable), s # <<>>
  PROVE  /\ Head(s) \in Writable /\ Tail(s) \in Seq(Writable)
         /\ \A Ns : Supported(s, Ns) => Needs(Head(s)) \subseteq Ns /\ Supported(Tail(s), Ns \cup Gives(Head(s)))
         /\ ToSet(s) = {Head(s)} \cup ToSet(Tail(s))
<1> DEFINE n == Len(s)
           t == Tail(s)
<1>1. /\ n \in Nat /\ n # 0 /\ DOMAIN s = 1..n /\ t \in Seq(Writable) /\ DOMAIN t = 1..(n - 1)
      /\ Head(s) = s[1] /\ s[1] \in Writable
      /\ \A i \in 1..(n - 1) : t[i] = s[i + 1]
  <2>1. n \in Nat /\ n # 0 /\ DOMAIN s = 1..n
    BY EmptySeq, LenProperties
  <2>2. t \in Seq(Writable) /\ Len(t) = n - 1 /\ Head(s) = s[1]
    BY HeadTailProperties
  <2>3. \A i \in 1..(n - 1) : t[i] = s[i + 1]
    BY HeadTailProperties, <2>2
  <2>4. s[1] \in Writable
    BY <2>1
  <2> QED BY <2>1, <2>2, <2>3, <2>4, LenProperties
<1> HIDE DEF n, t
<1>2. ASSUME NEW Ns, Supported(s, Ns) PROVE Needs(s[1]) \subseteq Ns
  <2>1. 1 \in DOMAIN s /\ 1..(1 - 1) = {}
    BY <1>1
  <2>2. Needs(s[1]) \subseteq Ns \cup UNION {Gives(s[i]) : i \in 1..(1 - 1)}
    BY <2>1, <1>2 DEF Supported
  <2> QED BY <2>1, <2>2
<1>3. ASSUME NEW Ns, Supported(s, Ns) PROVE Supported(t, Ns \cup Gives(s[1]))
  <2>1. SUFFICES ASSUME NEW j \in 1..(n - 1), NEW x \in Needs(t[j])
                 PROVE  x \in (Ns \cup Gives(s[1])) \cup UNION {Gives(t[i]) : i \in 1..(j - 1)}
    BY <1>1 DEF Supported
  <2>2. j + 1 \in 1..n /\ (j + 1) - 1 = j
    BY <1>1
  <2>3. Needs(s[j + 1]) \subseteq Ns \cup UNION {Gives(s[i]) : i \in 1..j}
    <3>1. Needs(s[j + 1]) \subseteq Ns \cup UNION {Gives(s[i]) : i \in 1..((j + 1) - 1)}
      BY <2>2, <1>1, <1>3 DEF Supported
    <3> QED BY <2>2, <3>1
  <2>4. x \in Ns \/ \E i \in 1..j : x \in Gives(s[i])
    BY <2>1, <2>3, <1>1
  <2>5. ASSUME NEW i \in 1..j, x \in Gives(s[i]), i # 1 PROVE \E k \in 1..(j - 1) : x \in Gives(t[k])
    <3>1. i - 1 \in 1..(j - 1) /\ i - 1 \in 1..(n - 1) /\ (i - 1) + 1 = i
      BY <1>1, <2>5
    <3>2. t[i - 1] = s[i]
      BY <3>1, <1>1
    <3> QED BY <3>1, <3>2, <2>5
  <2> QED BY <2>4, <2>5
<1>4. ToSet(s) = {s[1]} \cup ToSet(t)
  <2>1. ASSUME NEW x \in ToSet(s) PROVE x \in {s[1]} \cup ToSet(t)
    <3>1. PICK i \in 1..n : x = s[i]
      BY <1>1 DEF ToSet
    <3>2. CASE i # 1
      <4>1. i - 1 \in 1..(n - 1) /\ (i - 1) + 1 = i
        BY <1>1, <3>2
      <4>2. t[i - 1] = s[i]
        BY <4>1, <1>1
      <4> QED BY <4>1, <4>2, <3>1, <1>1 DEF ToSet
    <3> QED BY <3>1, <3>2
  <2>2. ASSUME NEW x \in ToSet(t) PROVE x \in ToSet(s)
    <3>1. PICK i \in 1..(n - 1) : x = t[i]
      BY <1>1 DEF ToSet
    <3>2. i + 1 \in 1..n
      BY <1>1
    <3> QED BY <3>1, <3>2, <1>1 DEF ToSet
  <2>3. s[1] \in ToSet(s)
    BY <1>1 DEF ToSet
  <2> QED BY <2>1, <2>2, <2>3
<1> QED BY <1>1, <1>2, <1>3, <1>4 DEF t

\* A list of one write.
LEMMA WritesOfOne ==
  ASSUME NEW w \in Writable
  PROVE  /\ <<w>> \in Seq(Writable) /\ Given(<<w>>) = Gives(w) /\ ToSet(<<w>>) = {w}
         /\ \A Ns : Needs(w) \subseteq Ns => Supported(<<w>>, Ns)
<1> DEFINE s == <<w>>
<1>1. s \in Seq(Writable) /\ DOMAIN s = {1} /\ s[1] = w
  OBVIOUS
<1> HIDE DEF s
<1>2. \A Ns : Needs(w) \subseteq Ns => Supported(s, Ns)
  <2> SUFFICES ASSUME NEW Ns, Needs(w) \subseteq Ns, NEW j \in DOMAIN s
               PROVE  Needs(s[j]) \subseteq Ns \cup UNION {Gives(s[i]) : i \in 1..(j - 1)}
    BY DEF Supported
  <2>1. s[j] = w
    BY <1>1
  <2> QED BY <2>1
<1>3. Given(s) = Gives(w) /\ ToSet(s) = {w}
  BY <1>1 DEF Given, ToSet
<1> QED BY <1>1, <1>2, <1>3 DEF s

\* A list of two writes.
LEMMA WritesOfTwo ==
  ASSUME NEW v \in Writable, NEW w \in Writable, NEW Ns, Needs(v) \subseteq Ns, Needs(w) \subseteq Ns \cup Gives(v)
  PROVE  /\ <<v, w>> \in Seq(Writable) /\ Given(<<v, w>>) = Gives(v) \cup Gives(w) /\ ToSet(<<v, w>>) = {v, w}
         /\ Supported(<<v, w>>, Ns)
<1>1. <<v>> \o <<w>> = <<v, w>>
  <2> DEFINE a == <<v>>
             b == <<w>>
             c == <<v, w>>
  <2>1. a \in Seq(Writable) /\ Len(a) = 1 /\ a[1] = v /\ b \in Seq(Writable) /\ Len(b) = 1 /\ b[1] = w
    OBVIOUS
  <2>2. c \in Seq(Writable) /\ Len(c) = 2 /\ c[1] = v /\ c[2] = w
    OBVIOUS
  <2> HIDE DEF a, b, c
  <2>3. a \o b \in Seq(Writable) /\ Len(a \o b) = 2
        /\ \A i \in 1..2 : (a \o b)[i] = IF i <= 1 THEN a[i] ELSE b[i - 1]
    <3>1. /\ a \o b \in Seq(Writable) /\ Len(a \o b) = Len(a) + Len(b)
          /\ \A i \in 1..Len(a) + Len(b) : (a \o b)[i] = IF i <= Len(a) THEN a[i] ELSE b[i - Len(a)]
      BY <2>1, ConcatProperties, Zenon
    <3> QED BY <2>1, <3>1
  <2>4. (a \o b)[1] = v /\ (a \o b)[2] = w
    BY <2>1, <2>3
  <2>5. \A i \in 1..2 : i = 1 \/ i = 2
    OBVIOUS
  <2> DEFINE d == a \o b
  <2>6. d \in Seq(Writable) /\ Len(d) = Len(c) /\ \A i \in 1..Len(d) : d[i] = c[i]
    BY <2>2, <2>3, <2>4, <2>5
  <2> HIDE DEF d
  <2>7. d = c
    BY <2>2, <2>6, SeqEqual
  <2> QED BY <2>7 DEF a, b, c, d
<1>2. Supported(<<v>>, Ns) /\ <<v>> \in Seq(Writable) /\ Given(<<v>>) = Gives(v) /\ ToSet(<<v>>) = {v}
  BY WritesOfOne
<1>3. Supported(<<w>>, Ns \cup Given(<<v>>)) /\ <<w>> \in Seq(Writable) /\ Given(<<w>>) = Gives(w) /\ ToSet(<<w>>) = {w}
  BY <1>2, WritesOfOne
<1> DEFINE a == <<v>>
           b == <<w>>
<1> HIDE DEF a, b
<1>4. /\ a \o b \in Seq(Writable) /\ Supported(a \o b, Ns) /\ Given(a \o b) = Given(a) \cup Given(b)
      /\ ToSet(a \o b) = ToSet(a) \cup ToSet(b)
  <2>1. a \in Seq(Writable) /\ b \in Seq(Writable) /\ Supported(a, Ns) /\ Supported(b, Ns \cup Given(a))
    BY <1>2, <1>3 DEF a, b
  <2> QED BY <2>1, SupportedBoth
<1>5. {v} \cup {w} = {v, w}
  OBVIOUS
<1> QED BY <1>1, <1>2, <1>3, <1>4, <1>5 DEF a, b

\* A list of no writes.
LEMMA NothingWritten ==
  <<>> \in Seq(Writable) /\ Given(<<>>) = {} /\ ToSet(<<>>) = {} /\ \A Ns : Supported(<<>>, Ns)
<1> DEFINE s == <<>>
<1>1. s \in Seq(Writable) /\ DOMAIN s = {}
  OBVIOUS
<1> HIDE DEF s
<1>2. Given(s) = {} /\ ToSet(s) = {} /\ \A Ns : Supported(s, Ns)
  BY <1>1 DEF Given, ToSet, Supported
<1> QED BY <1>1, <1>2 DEF s

\* The nodes of the tree that come before the i-th, and it.
NamedTo(i) == {Tree[j][2] : j \in 1..i}
Structures(i) == {s \in Seq(Writable) : /\ Supported(s, {}) /\ Given(s) = NamedTo(i)
                                        /\ \A j \in 1..i : ToSet(NodeWrites(Tree[j])) \subseteq ToSet(s)}

\* _index_symbols and its kin: a node, then the edge that holds it, whose other end came before.
LEMMA NodeWritesAre ==
  ASSUME NEW i \in DOMAIN Tree
  PROVE  /\ NodeWrites(Tree[i]) \in Seq(Writable) /\ Given(NodeWrites(Tree[i])) = {Tree[i][2]}
         /\ Supported(NodeWrites(Tree[i]), NamedTo(i - 1))
         /\ <<"node", Tree[i][2]>> \in ToSet(NodeWrites(Tree[i]))
         /\ i # 1 => <<"edge", <<Tree[i][3], "CONTAINS", Tree[i][2]>> >> \in ToSet(NodeWrites(Tree[i]))
<1> DEFINE v == <<"node", Tree[i][2]>>
           w == <<"edge", <<Tree[i][3], "CONTAINS", Tree[i][2]>> >>
<1>1. v \in Writable /\ w \in Writable
  BY TreeIs DEF Writable, EdgeTypes
<1>2. Gives(v) = {Tree[i][2]} /\ Needs(v) = {} /\ Gives(w) = {} /\ Needs(w) = {Tree[i][3], Tree[i][2]}
  BY DEF Gives, Needs
<1>3. IF i = 1 THEN Tree[i][1] = "Repo"
      ELSE Tree[i][1] # "Repo" /\ \E j \in 1..(i - 1) : Tree[j][2] = Tree[i][3]
  BY RepositoryAssumption
<1>4. NodeWrites(Tree[i]) = IF i = 1 THEN <<v>> ELSE <<v, w>>
  BY <1>3 DEF NodeWrites
<1> HIDE DEF v, w
<1>5. CASE i = 1
  <2>1. NodeWrites(Tree[i]) = <<v>>
    BY <1>4, <1>5
  <2>2. <<v>> \in Seq(Writable) /\ Given(<<v>>) = Gives(v) /\ ToSet(<<v>>) = {v} /\ Supported(<<v>>, NamedTo(i - 1))
    <3>1. Needs(v) \subseteq NamedTo(i - 1)
      BY <1>2
    <3> QED BY <1>1, <3>1, WritesOfOne
  <2>3. v \in ToSet(<<v>>)
    BY <2>2
  <2> QED BY <2>1, <2>2, <2>3, <1>2, <1>5 DEF v
<1>6. CASE i # 1
  <2>1. NodeWrites(Tree[i]) = <<v, w>>
    BY <1>4, <1>6
  <2>2. Tree[i][3] \in NamedTo(i - 1)
    BY <1>3, <1>6 DEF NamedTo
  <2>3. Needs(v) \subseteq NamedTo(i - 1) /\ Needs(w) \subseteq NamedTo(i - 1) \cup Gives(v)
    BY <2>2, <1>2
  <2>4. /\ <<v, w>> \in Seq(Writable) /\ Given(<<v, w>>) = Gives(v) \cup Gives(w) /\ ToSet(<<v, w>>) = {v, w}
        /\ Supported(<<v, w>>, NamedTo(i - 1))
    BY <1>1, <2>3, WritesOfTwo
  <2>5. v \in ToSet(<<v, w>>) /\ w \in ToSet(<<v, w>>) /\ Gives(v) \cup Gives(w) = {Tree[i][2]}
    BY <2>4, <1>2
  <2> QED BY <2>1, <2>4, <2>5 DEF v, w
<1> QED BY <1>5, <1>6

\* The nodes with the edges that hold them give every named node and need none.
LEMMA StructureIs ==
  /\ Structure \in Seq(Writable) /\ Supported(Structure, {}) /\ Given(Structure) = Named
  /\ \A i \in DOMAIN Tree : <<"node", Tree[i][2]>> \in ToSet(Structure)
  /\ \A i \in 2..Len(Tree) : <<"edge", <<Tree[i][3], "CONTAINS", Tree[i][2]>> >> \in ToSet(Structure)
<1> DEFINE seqs == [i \in DOMAIN Tree |-> NodeWrites(Tree[i])]
           n    == Len(Tree)
           D    == [i \in 0..n |-> Structures(i)]
<1>1. n \in Nat /\ DOMAIN Tree = 1..n
  BY TreeIs
<1>2. seqs \in Seq(Seq(Writable)) /\ Len(seqs) = n /\ \A i \in 1..n : seqs[i] = NodeWrites(Tree[i])
  <2>1. seqs \in [1..n -> Seq(Writable)]
    BY <1>1, NodeWritesAre
  <2> HIDE DEF seqs
  <2>2. seqs \in Seq(Seq(Writable)) /\ Len(seqs) = n
    BY <1>1, <2>1, IsASeq, LenProperties
  <2> QED BY <2>2, <1>1 DEF seqs
<1> HIDE DEF n
<1>3. <<>> \in D[0]
  <2>1. <<>> \in Structures(0)
    <3> DEFINE e == <<>>
    <3>1. e \in Seq(Writable) /\ Supported(e, {}) /\ Given(e) = {}
      BY NothingWritten
    <3>2. NamedTo(0) = {} /\ 1..0 = {}
      BY DEF NamedTo
    <3> HIDE DEF e
    <3>3. e \in Structures(0)
      BY <3>1, <3>2 DEF Structures
    <3> QED BY <3>3 DEF e
  <2> QED BY <2>1, <1>1
<1>4. \A i \in 1..n : \A s \in D[i - 1] : s \o seqs[i] \in D[i]
  <2> SUFFICES ASSUME NEW i \in 1..n, NEW s \in D[i - 1] PROVE s \o seqs[i] \in D[i]
    OBVIOUS
  <2>1. i \in 0..n /\ i - 1 \in 0..n /\ i \in DOMAIN Tree
    BY <1>1
  <2>2. s \in Structures(i - 1)
    BY <2>1
  <2> DEFINE t == seqs[i]
  <2>3. t = NodeWrites(Tree[i])
    BY <1>2
  <2> HIDE DEF t, seqs, D
  <2>4. t \in Seq(Writable) /\ Given(t) = {Tree[i][2]} /\ Supported(t, NamedTo(i - 1))
    BY <2>3, <2>1, NodeWritesAre
  <2>5. s \in Seq(Writable) /\ Supported(s, {}) /\ Given(s) = NamedTo(i - 1)
        /\ \A j \in 1..(i - 1) : ToSet(NodeWrites(Tree[j])) \subseteq ToSet(s)
    BY <2>2 DEF Structures
  <2>6. Supported(t, {} \cup Given(s))
    <3>1. {} \cup Given(s) = NamedTo(i - 1)
      BY <2>5
    <3> QED BY <3>1, <2>4
  <2>7. /\ s \o t \in Seq(Writable) /\ Supported(s \o t, {}) /\ Given(s \o t) = Given(s) \cup Given(t)
        /\ ToSet(s \o t) = ToSet(s) \cup ToSet(t)
    BY <2>4, <2>5, <2>6, SupportedBoth
  <2>8. \A j \in 1..i : j = i \/ j \in 1..(i - 1)
    BY <1>1
  <2>9. NamedTo(i - 1) \cup {Tree[i][2]} = NamedTo(i)
    <3>1. \A j \in 1..(i - 1) : j \in 1..i
      BY <1>1
    <3>2. i \in 1..i
      BY <1>1
    <3> QED BY <2>8, <3>1, <3>2 DEF NamedTo
  <2>10. \A j \in 1..i : ToSet(NodeWrites(Tree[j])) \subseteq ToSet(s \o t)
    BY <2>3, <2>5, <2>7, <2>8
  <2>11. s \o t \in Structures(i)
    <3> DEFINE r == s \o t
    <3>1. r \in Seq(Writable) /\ Supported(r, {}) /\ Given(r) = NamedTo(i) /\ \A j \in 1..i : ToSet(NodeWrites(Tree[j])) \subseteq ToSet(r)
      BY <2>4, <2>5, <2>7, <2>9, <2>10
    <3> HIDE DEF r
    <3>2. r \in Structures(i)
      BY <3>1 DEF Structures
    <3> QED BY <3>2 DEF r
  <2> QED BY <2>11, <2>1 DEF t, D
<1>5. \A i \in 0..n : D[i] \subseteq Seq(Writable)
  BY DEF Structures
<1> HIDE DEF D
<1>6. FlattenSeq(seqs) \in D[n]
  <2> HIDE DEF seqs
  <2>1. /\ <<>> \in D[0] /\ \A i \in 0..Len(seqs) : D[i] \subseteq Seq(Writable)
        /\ \A i \in 1..Len(seqs) : \A s \in D[i - 1] : s \o seqs[i] \in D[i]
    BY <1>2, <1>3, <1>4, <1>5
  <2>2. FlattenSeq(seqs) \in D[Len(seqs)]
    BY <1>2, <2>1, FlattenReaches
  <2> QED BY <2>2, <1>2
<1>7. Structure \in Structures(n)
  BY <1>1, <1>6 DEF D, Structure
<1>8. /\ Structure \in Seq(Writable) /\ Supported(Structure, {}) /\ Given(Structure) = NamedTo(n)
      /\ \A j \in 1..n : ToSet(NodeWrites(Tree[j])) \subseteq ToSet(Structure)
  BY <1>7 DEF Structures
<1>9. NamedTo(n) = Named
  BY <1>1 DEF NamedTo, Named
<1>10. \A i \in 2..n : i \in DOMAIN Tree /\ i # 1
  BY <1>1
<1> QED BY <1>1, <1>8, <1>9, <1>10, NodeWritesAre DEF n

\* The edges of a list of pairs, each end of which is a named node.
LEMMA RelatedIs ==
  ASSUME NEW pairs \in Seq(Named \X Named), NEW type \in EdgeTypes
  PROVE  /\ Related(pairs, type) \in Seq(Writable) /\ Supported(Related(pairs, type), Named)
         /\ \A i \in DOMAIN pairs : <<"edge", <<pairs[i][1], type, pairs[i][2]>> >> \in ToSet(Related(pairs, type))
<1> DEFINE s == Related(pairs, type)
<1>1. DOMAIN pairs = 1..Len(pairs) /\ Len(pairs) \in Nat
  BY LenProperties
<1>2. \A i \in DOMAIN pairs : pairs[i][1] \in Named /\ pairs[i][2] \in Named
  <2>1. \A i \in DOMAIN pairs : pairs[i] \in Named \X Named
    OBVIOUS
  <2> QED BY <2>1
<1>3. \A i \in DOMAIN pairs : <<"edge", <<pairs[i][1], type, pairs[i][2]>> >> \in Writable
  BY <1>2 DEF Writable
<1>4. DOMAIN s = DOMAIN pairs /\ \A i \in DOMAIN pairs : s[i] = <<"edge", <<pairs[i][1], type, pairs[i][2]>> >>
  BY DEF Related
<1>5. s \in Seq(Writable)
  <2>1. s \in [1..Len(pairs) -> Writable]
    BY <1>1, <1>3 DEF Related
  <2> HIDE DEF s
  <2> QED BY <1>1, <2>1, IsASeq
<1> HIDE DEF s
<1>6. Supported(s, Named)
  <2> SUFFICES ASSUME NEW j \in DOMAIN s PROVE Needs(s[j]) \subseteq Named
    BY DEF Supported
  <2>1. s[j] = <<"edge", <<pairs[j][1], type, pairs[j][2]>> >>
    BY <1>4
  <2>2. Needs(s[j]) = {pairs[j][1], pairs[j][2]}
    BY <2>1 DEF Needs
  <2> QED BY <2>2, <1>2, <1>4
<1>7. \A i \in DOMAIN pairs : <<"edge", <<pairs[i][1], type, pairs[i][2]>> >> \in ToSet(s)
  BY <1>4 DEF ToSet
<1> QED BY <1>5, <1>6, <1>7 DEF s

\* SetToSeq lists a finite set.
LEMMA ListOfAll ==
  ASSUME NEW S, IsFiniteSet(S)
  PROVE  SetToSeq(S) \in Seq(S) /\ ToSet(SetToSeq(S)) = S
<1> DEFINE n == Cardinality(S)
           s == SetToSeq(S)
<1>1. n \in Nat /\ ExistsBijection(1..n, S)
  BY FS_CardinalityType
<1>2. PICK b : b \in Bijection(1..n, S)
  BY <1>1 DEF ExistsBijection
<1>3. b \in [1..n -> S] /\ IsInjective(b)
  BY <1>2 DEF Bijection, Injection
<1>4. s \in [1..n -> S] /\ IsInjective(s)
  BY <1>3 DEF SetToSeq
<1>5. IsFiniteSet(1..n) /\ Cardinality(1..n) = n
  BY <1>1, FS_Interval
<1> HIDE DEF n, s
<1>6. s \in Surjection(1..n, S)
  <2>1. s \in Injection(1..n, S)
    BY <1>4 DEF Injection
  <2> QED BY <2>1, <1>5, FS_Injection DEF n
<1>7. s \in Seq(S) /\ DOMAIN s = 1..n
  BY <1>1, <1>4
<1>8. ToSet(s) = S
  BY <1>6, <1>7 DEF ToSet, Surjection
<1> QED BY <1>7, <1>8 DEF s

ChunkLists(files, i) == {s \in Seq(Writable) : /\ Supported(s, Named)
                                              /\ \A j \in 1..i : /\ ToSet(ChunksOf[files[j]]) \subseteq Given(s)
                                                                 /\ <<"chunks", files[j]>> \in ToSet(s)}

\* The chunks of the files, and the links to them, after all the chunks.
LEMMA ChunkWritesAre ==
  /\ ChunkWrites \in Seq(Writable) /\ Supported(ChunkWrites, Named)
  /\ \A f \in FilesOf : <<"chunks", f>> \in ToSet(ChunkWrites)
  /\ <<"links">> \in ToSet(ChunkWrites)
<1> DEFINE files == SetToSeq(FilesOf)
           seqs  == [i \in 1..Len(files) |-> << <<"chunks", files[i]>>, <<"next", files[i]>> >>]
           n     == Len(files)
           D     == [i \in 0..n |-> ChunkLists(files, i)]
<1>1. files \in Seq(FilesOf) /\ ToSet(files) = FilesOf
  BY FilesAre, ListOfAll
<1>2. n \in Nat /\ DOMAIN files = 1..n /\ \A i \in 1..n : files[i] \in FilesOf /\ files[i] \in Named
  <2>1. n \in Nat /\ DOMAIN files = 1..n
    BY <1>1, LenProperties
  <2>2. \A i \in 1..n : files[i] \in FilesOf
    BY <1>1, ElementOfSeq
  <2> QED BY <2>1, <2>2, FilesAre
<1>3. \A f \in FilesOf : \E i \in 1..n : files[i] = f
  BY <1>1, <1>2 DEF ToSet
<1> HIDE DEF files, n
<1>4. ASSUME NEW i \in 1..n
      PROVE  /\ seqs[i] \in Seq(Writable) /\ Supported(seqs[i], Named)
             /\ Given(seqs[i]) = ToSet(ChunksOf[files[i]]) /\ <<"chunks", files[i]>> \in ToSet(seqs[i])
  <2> DEFINE v == <<"chunks", files[i]>>
             w == <<"next", files[i]>>
  <2>1. v \in Writable /\ w \in Writable
    BY <1>2 DEF Writable
  <2>2. Gives(v) = ToSet(ChunksOf[files[i]]) /\ Gives(w) = {} /\ Needs(v) = {files[i]} /\ Needs(w) = {}
    BY DEF Gives, Needs
  <2>3. seqs[i] = <<v, w>>
    BY DEF n
  <2> HIDE DEF v, w, seqs
  <2>4. Needs(v) \subseteq Named /\ Needs(w) \subseteq Named \cup Gives(v)
    BY <2>2, <1>2
  <2>5. /\ <<v, w>> \in Seq(Writable) /\ Given(<<v, w>>) = Gives(v) \cup Gives(w) /\ ToSet(<<v, w>>) = {v, w}
        /\ Supported(<<v, w>>, Named)
    BY <2>1, <2>4, WritesOfTwo
  <2>6. v \in ToSet(<<v, w>>) /\ Gives(v) \cup Gives(w) = ToSet(ChunksOf[files[i]])
    BY <2>5, <2>2
  <2> QED BY <2>3, <2>5, <2>6 DEF v
<1>5. seqs \in Seq(Seq(Writable)) /\ Len(seqs) = n
  <2>1. DOMAIN seqs = 1..n
    BY DEF n
  <2> HIDE DEF seqs
  <2>2. seqs = [i \in 1..n |-> seqs[i]]
    BY <2>1 DEF seqs, n
  <2>3. seqs \in [1..n -> Seq(Writable)]
    BY <1>4, <2>2
  <2> QED BY <1>2, <2>3
<1> HIDE DEF seqs
<1>6. <<>> \in D[0]
  <2> DEFINE e == <<>>
  <2>1. e \in Seq(Writable) /\ Supported(e, Named)
    BY NothingWritten
  <2>2. 1..0 = {} /\ 0 \in 0..n
    BY <1>2
  <2> HIDE DEF e
  <2>3. e \in ChunkLists(files, 0)
    BY <2>1, <2>2 DEF ChunkLists
  <2> QED BY <2>2, <2>3 DEF e
<1>7. \A i \in 1..n : \A s \in D[i - 1] : s \o seqs[i] \in D[i]
  <2> SUFFICES ASSUME NEW i \in 1..n, NEW s \in D[i - 1] PROVE s \o seqs[i] \in D[i]
    OBVIOUS
  <2>1. i \in 0..n /\ i - 1 \in 0..n
    BY <1>2
  <2>2. s \in ChunkLists(files, i - 1)
    BY <2>1
  <2> DEFINE t == seqs[i]
  <2>3. /\ t \in Seq(Writable) /\ Supported(t, Named)
        /\ Given(t) = ToSet(ChunksOf[files[i]]) /\ <<"chunks", files[i]>> \in ToSet(t)
    BY <1>4
  <2> HIDE DEF t, D
  <2>4. /\ s \in Seq(Writable) /\ Supported(s, Named)
        /\ \A j \in 1..(i - 1) : ToSet(ChunksOf[files[j]]) \subseteq Given(s) /\ <<"chunks", files[j]>> \in ToSet(s)
    BY <2>2 DEF ChunkLists
  <2>5. Supported(t, Named \cup Given(s))
    <3>1. Named \subseteq Named \cup Given(s)
      OBVIOUS
    <3> QED BY <3>1, <2>3, SupportedMore
  <2> DEFINE r == s \o t
  <2>6. r \in Seq(Writable) /\ Supported(r, Named) /\ Given(r) = Given(s) \cup Given(t) /\ ToSet(r) = ToSet(s) \cup ToSet(t)
    BY <2>3, <2>4, <2>5, SupportedBoth
  <2>7. \A j \in 1..i : j = i \/ j \in 1..(i - 1)
    BY <1>2
  <2> HIDE DEF r
  <2>8. \A j \in 1..i : ToSet(ChunksOf[files[j]]) \subseteq Given(r) /\ <<"chunks", files[j]>> \in ToSet(r)
    BY <2>3, <2>4, <2>6, <2>7
  <2>9. r \in ChunkLists(files, i)
    BY <2>6, <2>8 DEF ChunkLists
  <2> QED BY <2>9, <2>1 DEF t, r, D
<1>8. \A i \in 0..n : D[i] \subseteq Seq(Writable)
  BY DEF ChunkLists
<1> DEFINE F == FlattenSeq(seqs)
<1>9. F \in ChunkLists(files, n)
  <2>1. n \in 0..n
    BY <1>2
  <2> HIDE DEF D
  <2>2. /\ <<>> \in D[0] /\ \A i \in 0..Len(seqs) : D[i] \subseteq Seq(Writable)
        /\ \A i \in 1..Len(seqs) : \A s \in D[i - 1] : s \o seqs[i] \in D[i]
    BY <1>5, <1>6, <1>7, <1>8
  <2>3. FlattenSeq(seqs) \in D[Len(seqs)]
    BY <1>5, <2>2, FlattenReaches
  <2> QED BY <2>1, <2>3, <1>5 DEF D
<1> HIDE DEF F, D
<1> DEFINE l == << <<"links">> >>
<1>10. /\ F \in Seq(Writable) /\ Supported(F, Named)
       /\ \A f \in FilesOf : ToSet(ChunksOf[f]) \subseteq Given(F) /\ <<"chunks", f>> \in ToSet(F)
  BY <1>9, <1>3 DEF ChunkLists
<1>11. AllNodes \subseteq Named \cup Given(F)
  BY <1>10 DEF AllNodes, AllChunks
<1>12. l \in Seq(Writable) /\ Supported(l, Named \cup Given(F)) /\ ToSet(l) = { <<"links">> }
  <2> DEFINE w == <<"links">>
  <2>1. w \in Writable
    BY DEF Writable
  <2>2. Needs(w) \subseteq Named \cup Given(F)
    BY <1>11 DEF Needs
  <2> HIDE DEF w
  <2>3. <<w>> \in Seq(Writable) /\ ToSet(<<w>>) = {w} /\ Supported(<<w>>, Named \cup Given(F))
    BY <2>1, <2>2, WritesOfOne
  <2> QED BY <2>3 DEF w
<1> HIDE DEF l
<1>13. /\ F \o l \in Seq(Writable) /\ Supported(F \o l, Named)
       /\ ToSet(F \o l) = ToSet(F) \cup ToSet(l)
  BY <1>10, <1>12, SupportedBoth
<1>14. ChunkWrites = F \o l
  <2>1. FlattenSeq([i \in 1..Len(SetToSeq(FilesOf)) |->
                   << <<"chunks", SetToSeq(FilesOf)[i]>>, <<"next", SetToSeq(FilesOf)[i]>> >>]) = F
    BY DEF F, seqs, files
  <2>2. ChunkWrites = FlattenSeq([i \in 1..Len(SetToSeq(FilesOf)) |->
                   << <<"chunks", SetToSeq(FilesOf)[i]>>, <<"next", SetToSeq(FilesOf)[i]>> >>]) \o l
    BY Zenon DEF ChunkWrites, l
  <2> QED BY <2>1, <2>2
<1>15. <<"links">> \in ToSet(l)
  BY <1>12
<1> QED BY <1>10, <1>13, <1>14, <1>15

\* What a run of the indexer writes: every node, every edge, each after the nodes it joins.
LEMMA WritesAre ==
  /\ Writes \in Seq(Writable) /\ Supported(Writes, {})
  /\ \A i \in DOMAIN Tree : <<"node", Tree[i][2]>> \in ToSet(Writes)
  /\ \A i \in 2..Len(Tree) : <<"edge", <<Tree[i][3], "CONTAINS", Tree[i][2]>> >> \in ToSet(Writes)
  /\ \A i \in DOMAIN Calls : <<"edge", <<Calls[i][1], "CALLS", Calls[i][2]>> >> \in ToSet(Writes)
  /\ \A i \in DOMAIN Imports : <<"edge", <<Imports[i][1], "IMPORTS", Imports[i][2]>> >> \in ToSet(Writes)
  /\ \A f \in FilesOf : <<"chunks", f>> \in ToSet(Writes)
  /\ <<"links">> \in ToSet(Writes)
<1> DEFINE s == Structure
           c == Related(Calls, "CALLS")
           i == Related(Imports, "IMPORTS")
           k == ChunkWrites
<1>1. Calls \in Seq(Named \X Named) /\ Imports \in Seq(Named \X Named)
  BY RepositoryAssumption
<1>2. "CALLS" \in EdgeTypes /\ "IMPORTS" \in EdgeTypes
  BY DEF EdgeTypes
<1>3. c \in Seq(Writable) /\ Supported(c, Named)
      /\ \A j \in DOMAIN Calls : <<"edge", <<Calls[j][1], "CALLS", Calls[j][2]>> >> \in ToSet(c)
  BY <1>1, <1>2, RelatedIs
<1>4. i \in Seq(Writable) /\ Supported(i, Named)
      /\ \A j \in DOMAIN Imports : <<"edge", <<Imports[j][1], "IMPORTS", Imports[j][2]>> >> \in ToSet(i)
  BY <1>1, <1>2, RelatedIs
<1> HIDE DEF c, i, s, k
<1>5. /\ c \o i \in Seq(Writable) /\ Supported(c \o i, Named)
      /\ ToSet(c \o i) = ToSet(c) \cup ToSet(i)
  <2>1. Supported(i, Named \cup Given(c))
    BY <1>4, SupportedMore
  <2> QED BY <2>1, <1>3, <1>4, SupportedBoth
<1> DEFINE r == c \o i
<1>6. s \in Seq(Writable) /\ Supported(s, {}) /\ Given(s) = Named
  BY StructureIs DEF s
<1> HIDE DEF r
<1>7. /\ s \o r \in Seq(Writable) /\ Supported(s \o r, {}) /\ Given(s \o r) = Given(s) \cup Given(r)
      /\ ToSet(s \o r) = ToSet(s) \cup ToSet(r)
  <2>1. Supported(r, {} \cup Given(s))
    <3>1. {} \cup Given(s) = Named
      BY <1>6
    <3> QED BY <3>1, <1>5 DEF r
  <2> QED BY <2>1, <1>5, <1>6, SupportedBoth DEF r
<1> DEFINE q == s \o r
<1> HIDE DEF q
<1>8. k \in Seq(Writable) /\ Supported(k, {} \cup Given(q))
  <2>1. Named \subseteq {} \cup Given(q)
    BY <1>6, <1>7 DEF q
  <2> QED BY <2>1, ChunkWritesAre, SupportedMore DEF k
<1>9. q \o k \in Seq(Writable) /\ Supported(q \o k, {}) /\ ToSet(q \o k) = ToSet(q) \cup ToSet(k)
  <2>1. q \in Seq(Writable) /\ Supported(q, {})
    BY <1>7 DEF q
  <2> QED BY <2>1, <1>8, SupportedBoth
<1>10. Writes = q \o k
  BY DEF Writes, Relations, q, r, s, c, i, k
<1>11. ToSet(s) \subseteq ToSet(Writes) /\ ToSet(c) \subseteq ToSet(Writes) /\ ToSet(i) \subseteq ToSet(Writes)
       /\ ToSet(k) \subseteq ToSet(Writes)
  BY <1>5, <1>7, <1>9, <1>10 DEF q, r
<1>12. Writes \in Seq(Writable) /\ Supported(Writes, {})
  BY <1>9, <1>10
<1>13. \A j \in DOMAIN Tree : <<"node", Tree[j][2]>> \in ToSet(Writes)
  BY <1>11, StructureIs DEF s
<1>14. \A j \in 2..Len(Tree) : <<"edge", <<Tree[j][3], "CONTAINS", Tree[j][2]>> >> \in ToSet(Writes)
  BY <1>11, StructureIs DEF s
<1>15. \A f \in FilesOf : <<"chunks", f>> \in ToSet(Writes)
  BY <1>11, ChunkWritesAre DEF k
<1>16. <<"links">> \in ToSet(Writes)
  BY <1>11, ChunkWritesAre DEF k
<1>17. \A j \in DOMAIN Calls : <<"edge", <<Calls[j][1], "CALLS", Calls[j][2]>> >> \in ToSet(Writes)
  BY <1>3, <1>11
<1>18. \A j \in DOMAIN Imports : <<"edge", <<Imports[j][1], "IMPORTS", Imports[j][2]>> >> \in ToSet(Writes)
  BY <1>4, <1>11
<1> QED BY <1>12, <1>13, <1>14, <1>15, <1>16, <1>17, <1>18, Zenon

\* A graph in which no edge lacks an end, and what a write that found its nodes leaves in it.
Graphs    == [nodes : SUBSET AllNodes, edges : SUBSET Edges]
Joined(g) == g \in Graphs /\ \A e \in g.edges : e[1] \in g.nodes /\ e[3] \in g.nodes

Holding(w) == {<<w[2], "CONTAINS", c>> : c \in ToSet(ChunksOf[w[2]])}
Linking    == {<<p[1], "REPRESENTED_BY", p[2]>> : p \in Represents}

HasWritten(g, w) ==
  CASE w[1] = "node"   -> w[2] \in g.nodes
    [] w[1] = "edge"   -> w[2] \in g.edges
    [] w[1] = "chunks" -> ToSet(ChunksOf[w[2]]) \subseteq g.nodes /\ Holding(w) \subseteq g.edges
    [] w[1] = "links"  -> Linking \subseteq g.edges
    [] OTHER           -> TRUE

\* Edges are created between nodes that are there.
LEMMA WithEdgesIs ==
  ASSUME NEW g, Joined(g), NEW es \in SUBSET Edges
  PROVE  /\ Joined(WithEdges(g, es)) /\ WithEdges(g, es).nodes = g.nodes /\ g.edges \subseteq WithEdges(g, es).edges
         /\ \A e \in es : e[1] \in g.nodes /\ e[3] \in g.nodes => e \in WithEdges(g, es).edges
<1> DEFINE new == {e \in es : {e[1], e[3]} \subseteq g.nodes}
           h   == WithEdges(g, es)
<1>1. g \in Graphs /\ \A e \in g.edges : e[1] \in g.nodes /\ e[3] \in g.nodes
  BY DEF Joined
<1>2. h = [g EXCEPT !.edges = @ \cup new]
  BY DEF WithEdges
<1>3. new \subseteq Edges /\ \A e \in new : e[1] \in g.nodes /\ e[3] \in g.nodes
  OBVIOUS
<1>4. \A e \in es : e[1] \in g.nodes /\ e[3] \in g.nodes => e \in new
  OBVIOUS
<1> HIDE DEF new, h
<1>5. h \in Graphs /\ h.nodes = g.nodes /\ h.edges = g.edges \cup new
  BY <1>1, <1>2, <1>3 DEF Graphs
<1>6. Joined(h)
  BY <1>1, <1>3, <1>5 DEF Joined
<1> QED BY <1>4, <1>5, <1>6 DEF h

\* Nodes are merged.
LEMMA WithNodesIs ==
  ASSUME NEW g, Joined(g), NEW ns \in SUBSET AllNodes
  PROVE  LET h == [g EXCEPT !.nodes = @ \cup ns] IN Joined(h) /\ h.nodes = g.nodes \cup ns /\ h.edges = g.edges
<1> DEFINE h == [g EXCEPT !.nodes = @ \cup ns]
<1>1. h \in Graphs /\ h.nodes = g.nodes \cup ns /\ h.edges = g.edges
  BY DEF Joined, Graphs
<1>2. \A e \in h.edges : e[1] \in h.nodes /\ e[3] \in h.nodes
  BY <1>1 DEF Joined
<1> QED BY <1>1, <1>2 DEF Joined

\* A deletion takes nodes with their edges (DETACH DELETE).
LEMMA WithoutIs ==
  ASSUME NEW g, Joined(g), NEW ns
  PROVE  /\ Joined(Without(g, ns)) /\ Without(g, ns).nodes = g.nodes \ ns /\ Without(g, ns).edges \subseteq g.edges
         /\ \A e \in g.edges : e[1] \notin ns /\ e[3] \notin ns => e \in Without(g, ns).edges
<1> DEFINE h == Without(g, ns)
<1>1. h.nodes = g.nodes \ ns /\ h.edges = {e \in g.edges : {e[1], e[3]} \cap ns = {}} /\ h \in Graphs
  BY DEF Without, Joined, Graphs
<1>2. \A e \in h.edges : e[1] \in h.nodes /\ e[3] \in h.nodes
  BY <1>1 DEF Joined
<1> QED BY <1>1, <1>2 DEF Joined

\* The kinds of writes.
LEMMA WritableIs ==
  ASSUME NEW w \in Writable
  PROVE  \/ w[1] = "node" /\ w[2] \in Named
         \/ w[1] = "edge" /\ w[2] \in Named \X EdgeTypes \X Named
         \/ w[1] = "chunks" /\ w[2] \in FilesOf
         \/ w[1] = "next" /\ w[2] \in FilesOf
         \/ w[1] = "links"
  BY DEF Writable

\* A write adds what it gives, and all of it if it finds what it needs.
LEMMA WrittenIs ==
  ASSUME NEW g, Joined(g), NEW w \in Writable
  PROVE  /\ Joined(Written(g, w)) /\ Written(g, w).nodes = g.nodes \cup Gives(w)
         /\ g.edges \subseteq Written(g, w).edges
         /\ Needs(w) \subseteq g.nodes => HasWritten(Written(g, w), w)
<1> DEFINE h == Written(g, w)
<1>2. CASE w[1] = "node"
  <2>1. w[2] \in Named /\ h = [g EXCEPT !.nodes = @ \cup {w[2]}] /\ Gives(w) = {w[2]}
    BY <1>2, WritableIs DEF Written, Gives
  <2>2. {w[2]} \in SUBSET AllNodes
    BY <2>1 DEF AllNodes
  <2> HIDE DEF h
  <2>3. Joined(h) /\ h.nodes = g.nodes \cup {w[2]} /\ h.edges = g.edges
    BY <2>1, <2>2, WithNodesIs
  <2>4. HasWritten(h, w)
    BY <2>3, <1>2 DEF HasWritten
  <2> QED BY <2>1, <2>3, <2>4 DEF h
<1>3. CASE w[1] = "edge"
  <2>1. w[2] \in Named \X EdgeTypes \X Named /\ h = WithEdges(g, {w[2]}) /\ Gives(w) = {} /\ Needs(w) = {w[2][1], w[2][3]}
    BY <1>3, WritableIs DEF Written, Gives, Needs
  <2>2. {w[2]} \in SUBSET Edges
    BY <2>1 DEF Edges, AllNodes
  <2> HIDE DEF h
  <2>3. /\ Joined(h) /\ h.nodes = g.nodes /\ g.edges \subseteq h.edges
        /\ w[2][1] \in g.nodes /\ w[2][3] \in g.nodes => w[2] \in h.edges
    BY <2>1, <2>2, WithEdgesIs
  <2>4. Needs(w) \subseteq g.nodes => HasWritten(h, w)
    BY <2>1, <2>3, <1>3 DEF HasWritten
  <2> QED BY <2>1, <2>3, <2>4 DEF h
<1>4. CASE w[1] = "chunks"
  <2> DEFINE cs == ToSet(ChunksOf[w[2]])
             m  == [g EXCEPT !.nodes = @ \cup cs]
  <2>1. w[2] \in FilesOf /\ h = WithEdges(m, Holding(w)) /\ Gives(w) = cs /\ Needs(w) = {w[2]}
    BY <1>4, WritableIs DEF Written, Gives, Needs, Holding
  <2>2. cs \subseteq AllChunks /\ w[2] \in Named
    BY <2>1, FilesAre
  <2>3. Holding(w) \subseteq Edges
    BY <2>2 DEF Holding, Edges, AllNodes, EdgeTypes
  <2>4. cs \in SUBSET AllNodes
    BY <2>2 DEF AllNodes
  <2>5. \A e \in Holding(w) : e[1] = w[2] /\ e[3] \in cs
    BY DEF Holding
  <2> HIDE DEF h, cs
  <2>6. Joined(m) /\ m.nodes = g.nodes \cup cs /\ m.edges = g.edges
    BY <2>4, WithNodesIs
  <2> HIDE DEF m
  <2>7. /\ Joined(h) /\ h.nodes = m.nodes /\ m.edges \subseteq h.edges
        /\ \A e \in Holding(w) : e[1] \in m.nodes /\ e[3] \in m.nodes => e \in h.edges
    BY <2>1, <2>3, <2>6, WithEdgesIs
  <2>8. ASSUME Needs(w) \subseteq g.nodes PROVE HasWritten(h, w)
    <3>1. cs \subseteq h.nodes
      BY <2>6, <2>7
    <3>2. Holding(w) \subseteq h.edges
      BY <2>1, <2>5, <2>6, <2>7, <2>8
    <3> QED BY <3>1, <3>2, <1>4 DEF HasWritten, cs
  <2> QED BY <2>1, <2>6, <2>7, <2>8 DEF h
<1>5. CASE w[1] = "next"
  <2> DEFINE s  == ChunksOf[w[2]]
             es == {<<s[i], "NEXT_CHUNK", s[i + 1]>> : i \in 1..(Len(s) - 1)}
  <2>1. w[2] \in FilesOf /\ h = WithEdges(g, es) /\ Gives(w) = {}
    BY <1>5, WritableIs DEF Written, Gives
  <2>2. s \in Seq(AllChunks)
    BY <2>1, FilesAre
  <2> HIDE DEF s
  <2>3. \A i \in 1..(Len(s) - 1) : s[i] \in AllChunks /\ s[i + 1] \in AllChunks
    <3> SUFFICES ASSUME NEW i \in 1..(Len(s) - 1) PROVE s[i] \in AllChunks /\ s[i + 1] \in AllChunks
      OBVIOUS
    <3>1. Len(s) \in Nat
      BY <2>2, LenProperties
    <3>2. i \in 1..Len(s) /\ i + 1 \in 1..Len(s)
      BY <3>1
    <3> QED BY <2>2, <3>2, ElementOfSeq
  <2>4. es \in SUBSET Edges
    BY <2>3 DEF Edges, AllNodes, EdgeTypes
  <2> HIDE DEF h, es
  <2>5. Joined(h) /\ h.nodes = g.nodes /\ g.edges \subseteq h.edges
    BY <2>1, <2>4, WithEdgesIs
  <2>6. HasWritten(h, w)
    BY <1>5 DEF HasWritten
  <2> QED BY <2>1, <2>5, <2>6 DEF h
<1>6. CASE w[1] = "links"
  <2>1. h = WithEdges(g, Linking) /\ Gives(w) = {} /\ Needs(w) = AllNodes
    BY <1>6 DEF Written, Gives, Needs, Linking
  <2>2. Represents \subseteq Named \X AllChunks
    BY RepositoryAssumption
  <2>3. \A p \in Represents : p[1] \in AllNodes /\ p[2] \in AllNodes
    BY <2>2 DEF AllNodes
  <2>4. Linking \subseteq Edges /\ \A e \in Linking : e[1] \in AllNodes /\ e[3] \in AllNodes
    BY <2>3 DEF Linking, Edges, EdgeTypes
  <2> HIDE DEF h
  <2>5. /\ Joined(h) /\ h.nodes = g.nodes /\ g.edges \subseteq h.edges
        /\ \A e \in Linking : e[1] \in g.nodes /\ e[3] \in g.nodes => e \in h.edges
    BY <2>1, <2>4, WithEdgesIs
  <2>6. ASSUME Needs(w) \subseteq g.nodes PROVE HasWritten(h, w)
    <3>1. Linking \subseteq h.edges
      BY <2>1, <2>4, <2>5, <2>6
    <3> QED BY <3>1, <1>6 DEF HasWritten
  <2> QED BY <2>1, <2>5, <2>6 DEF h
<1> QED BY <1>2, <1>3, <1>4, <1>5, <1>6, WritableIs

\* What was written stays while the graph grows.
LEMMA WrittenStays ==
  ASSUME NEW g, NEW h, g.nodes \subseteq h.nodes, g.edges \subseteq h.edges, NEW w \in Writable, HasWritten(g, w)
  PROVE  HasWritten(h, w)
<1>1. CASE w[1] = "node"
  BY <1>1 DEF HasWritten
<1>2. CASE w[1] = "edge"
  BY <1>2 DEF HasWritten
<1>3. CASE w[1] = "chunks"
  <2>1. ToSet(ChunksOf[w[2]]) \subseteq g.nodes /\ Holding(w) \subseteq g.edges
    BY <1>3 DEF HasWritten
  <2>2. ToSet(ChunksOf[w[2]]) \subseteq h.nodes /\ Holding(w) \subseteq h.edges
    BY <2>1
  <2> QED BY <2>2, <1>3 DEF HasWritten
<1>4. CASE w[1] = "links"
  BY <1>4 DEF HasWritten
<1>5. CASE w[1] = "next"
  BY <1>5 DEF HasWritten
<1> QED BY <1>1, <1>2, <1>3, <1>4, <1>5, WritableIs

\* A run that no deletion met: each of its writes is done or will find its nodes.
IndexingIs == indexing \in [runs : 0..MaxRuns, left : Seq(Writable), clean : BOOLEAN]
Undisturbed ==
  indexing.clean =>
    /\ erasing.kinds = <<>> /\ Supported(indexing.left, graph.nodes)
    /\ \A w \in ToSet(Writes) : w \in ToSet(indexing.left) \/ HasWritten(graph, w)

\* A deletion goes through the kinds in order.
RestOfRepo == { <<"Chunk", "Symbol", "File", "Directory", "Repo">>, <<"Symbol", "File", "Directory", "Repo">>,
                <<"File", "Directory", "Repo">>, <<"Directory", "Repo">>, <<"Repo">>, <<>> }
RestOfFile == { <<"Chunk", "Symbol", "File">>, <<"Symbol", "File">>, <<"File">>, <<>> }
ErasingIs ==
  /\ erasing \in [count : 0..MaxErasures, of : FilesOf \cup {"repo", "none"}, kinds : RestOfRepo \cup RestOfFile,
                  most : Nat, clean : BOOLEAN, whole : BOOLEAN]
  /\ erasing.of = "repo" => erasing.kinds \in RestOfRepo
  /\ erasing.of \in FilesOf => erasing.kinds \in RestOfFile
  /\ erasing.of \notin FilesOf /\ erasing.of # "repo" => erasing.kinds = <<>>

\* What it took is gone as long as no run comes in between and no query was too small.
Held(f) == {Tree[i][2] : i \in {k \in DOMAIN Tree : Tree[k][3] = f}}
Gone(kind) == kind \notin ToSet(erasing.kinds)
Cleared ==
  erasing.clean => indexing.left = <<>>
ClearedRepo ==
  erasing.clean /\ erasing.most <= BatchLimit /\ erasing.of = "repo" =>
    \A n \in graph.nodes : KindOf(n) \in ToSet(erasing.kinds)
ClearedFile ==
  erasing.clean /\ erasing.most <= BatchLimit /\ erasing.of \in FilesOf =>
    /\ Gone("Chunk") => graph.nodes \cap ToSet(ChunksOf[erasing.of]) = {}
    /\ Gone("File") => erasing.of \notin graph.nodes
    /\ erasing.whole => \A n \in Held(erasing.of) \cap graph.nodes :
         ~Gone("Symbol") /\ <<erasing.of, "CONTAINS", n>> \in graph.edges

StoreInv == Joined(graph) /\ IndexingIs /\ Undisturbed /\ ErasingIs /\ Cleared /\ ClearedRepo /\ ClearedFile

\* What a file holds in the tree are symbols.
LEMMA HeldAreSymbols ==
  ASSUME NEW f \in FilesOf, NEW n \in Held(f)
  PROVE  n \in Named /\ KindOf(n) = "Symbol" /\ n # f /\ n \notin ToSet(ChunksOf[f])
         /\ \E i \in 2..Len(Tree) : Tree[i][2] = n /\ Tree[i][3] = f
<1>1. PICK i \in DOMAIN Tree : Tree[i][3] = f /\ Tree[i][2] = n
  BY DEF Held
<1>2. KindOf(f) = "File" /\ ToSet(ChunksOf[f]) \cap Named = {}
  BY FilesAre
<1>3. Tree[i][1] = "Symbol"
  BY <1>1, <1>2, RepositoryAssumption
<1>4. n \in Named /\ KindOf(n) = "Symbol"
  BY <1>1, <1>3, KindIs, TreeIs
<1>5. i # 1
  BY <1>3, RepositoryAssumption
<1>6. i \in 2..Len(Tree)
  BY <1>5, TreeIs
<1> QED BY <1>1, <1>2, <1>4, <1>6

\* A query that takes up to its limit takes all if there are no more; the largest count shows it.
LEMMA TakesAll ==
  ASSUME NEW ns, IsFiniteSet(ns), NEW batch \in SUBSET ns, Cardinality(batch) = Min({Cardinality(ns), BatchLimit}),
         NEW m \in Nat
  PROVE  /\ Max({m, Cardinality(ns)}) \in Nat
         /\ Max({m, Cardinality(ns)}) <= BatchLimit => batch = ns /\ m <= BatchLimit
<1> DEFINE n == Cardinality(ns)
<1>1. n \in Nat /\ BatchLimit \in Nat
  BY FS_CardinalityType, CodeGraphAssumption
<1> HIDE DEF n
<1>2. \A a, b \in Nat : Max({a, b}) \in Nat /\ Max({a, b}) >= a /\ Max({a, b}) >= b
  <2> SUFFICES ASSUME NEW a \in Nat, NEW b \in Nat PROVE Max({a, b}) \in Nat /\ Max({a, b}) >= a /\ Max({a, b}) >= b
    OBVIOUS
  <2>1. \E x \in {a, b} : \A y \in {a, b} : x >= y
    BY a >= b \/ b >= a
  <2> DEFINE x == CHOOSE x \in {a, b} : \A y \in {a, b} : x >= y
  <2>2. x \in {a, b} /\ \A y \in {a, b} : x >= y
    BY <2>1
  <2> HIDE DEF x
  <2>3. x \in Nat /\ x >= a /\ x >= b
    BY <2>2
  <2> QED BY <2>3 DEF Max, x
<1>3. \A a, b \in Nat : a <= b => Min({a, b}) = a
  <2> SUFFICES ASSUME NEW a \in Nat, NEW b \in Nat, a <= b PROVE Min({a, b}) = a
    OBVIOUS
  <2>1. \A x \in {a, b} : (\A y \in {a, b} : x =< y) <=> x = a
    OBVIOUS
  <2>2. a \in {a, b} /\ \A y \in {a, b} : a =< y
    OBVIOUS
  <2> DEFINE x == CHOOSE x \in {a, b} : \A y \in {a, b} : x =< y
  <2>3. x \in {a, b} /\ \A y \in {a, b} : x =< y
    BY <2>2
  <2> HIDE DEF x
  <2>4. x = a
    BY <2>1, <2>3
  <2> QED BY <2>4 DEF Min, x
<1>4. ASSUME Max({m, n}) <= BatchLimit PROVE batch = ns /\ m <= BatchLimit
  <2>1. m <= BatchLimit /\ n <= BatchLimit
    BY <1>1, <1>2, <1>4
  <2>2. Cardinality(batch) = Cardinality(ns)
    BY <1>1, <1>3, <2>1 DEF n
  <2> QED BY <2>1, <2>2, FS_Subset
<1> QED BY <1>1, <1>2, <1>4 DEF n

\* The store starts with any graph in which no edge lacks an end.
LEMMA StoreStarts ==
  ASSUME NEW g, Joined(g), StartWith(g)
  PROVE  StoreInv
<1>1. graph = g /\ indexing = [runs |-> 0, left |-> <<>>, clean |-> FALSE]
      /\ erasing = [count |-> 0, of |-> "none", kinds |-> <<>>, most |-> 0, clean |-> FALSE, whole |-> FALSE]
  BY DEF StartWith
<1>2. IndexingIs
  BY <1>1, CodeGraphAssumption DEF IndexingIs
<1>3. ErasingIs
  <2>1. "none" \notin FilesOf \/ erasing.kinds \in RestOfFile
    BY <1>1 DEF RestOfFile
  <2> QED BY <1>1, <2>1, CodeGraphAssumption DEF ErasingIs, RestOfFile
<1> QED BY <1>1, <1>2, <1>3 DEF StoreInv, Undisturbed, Cleared, ClearedRepo, ClearedFile

\* A run of the indexer starts: all its writes are before it.
LEMMA StoreStartIndexing ==
  ASSUME StoreInv, StartIndexing
  PROVE  StoreInv'
<1> USE DEF StoreInv
<1>1. /\ indexing.left = <<>> /\ indexing.runs < MaxRuns
      /\ indexing' = [runs |-> indexing.runs + 1, left |-> Writes, clean |-> erasing.kinds = <<>>]
      /\ erasing' = [erasing EXCEPT !.clean = FALSE]
      /\ graph' = graph
  BY DEF StartIndexing
<1>2. Joined(graph)'
  BY <1>1
<1>3. IndexingIs'
  BY <1>1, WritesAre, CodeGraphAssumption DEF IndexingIs
<1>4. ErasingIs'
  <2>1. erasing' \in [count : 0..MaxErasures, of : FilesOf \cup {"repo", "none"}, kinds : RestOfRepo \cup RestOfFile,
                  most : Nat, clean : BOOLEAN, whole : BOOLEAN]
        /\ erasing'.of = erasing.of /\ erasing'.kinds = erasing.kinds /\ erasing'.clean = FALSE
    BY <1>1 DEF ErasingIs
  <2> QED BY <2>1 DEF ErasingIs
<1>5. Undisturbed'
  <2> SUFFICES ASSUME indexing'.clean
               PROVE  /\ erasing'.kinds = <<>> /\ Supported(indexing'.left, graph'.nodes)
                      /\ \A w \in ToSet(Writes) : w \in ToSet(indexing'.left)
    BY DEF Undisturbed
  <2>1. erasing'.kinds = <<>> /\ indexing'.left = Writes
    BY <1>1 DEF ErasingIs
  <2>2. Supported(Writes, graph'.nodes)
    <3>1. {} \subseteq graph'.nodes
      OBVIOUS
    <3> QED BY <3>1, WritesAre, SupportedMore
  <2> QED BY <2>1, <2>2
<1>6. erasing'.clean = FALSE
  BY <1>1 DEF ErasingIs
<1> QED BY <1>2, <1>3, <1>4, <1>5, <1>6 DEF Cleared, ClearedRepo, ClearedFile

\* A run writes: what it needs is there if no deletion met it.
LEMMA StoreWriteNext ==
  ASSUME StoreInv, WriteNext
  PROVE  StoreInv' /\ Joined(graph')
<1> USE DEF StoreInv
<1> DEFINE w == Head(indexing.left)
<1>1. /\ indexing.left # <<>> /\ graph' = Written(graph, w)
      /\ indexing' = [indexing EXCEPT !.left = Tail(@)] /\ erasing' = erasing
  BY DEF WriteNext, Store
<1>2. indexing.left \in Seq(Writable) /\ indexing'.left = Tail(indexing.left) /\ indexing'.clean = indexing.clean
  BY <1>1 DEF IndexingIs
<1>3. w \in Writable /\ Tail(indexing.left) \in Seq(Writable) /\ ToSet(indexing.left) = {w} \cup ToSet(Tail(indexing.left))
      /\ \A Ns : Supported(indexing.left, Ns) => Needs(w) \subseteq Ns /\ Supported(Tail(indexing.left), Ns \cup Gives(w))
  BY <1>1, <1>2, SupportedRest
<1> HIDE DEF w
<1>4. /\ Joined(graph') /\ graph'.nodes = graph.nodes \cup Gives(w) /\ graph.edges \subseteq graph'.edges
      /\ Needs(w) \subseteq graph.nodes => HasWritten(graph', w)
  BY <1>1, <1>3, WrittenIs
<1>5. IndexingIs'
  BY <1>1, <1>3 DEF IndexingIs
<1>6. ErasingIs'
  BY <1>1 DEF ErasingIs
<1>7. Undisturbed'
  <2> SUFFICES ASSUME indexing'.clean
               PROVE  /\ erasing'.kinds = <<>> /\ Supported(indexing'.left, graph'.nodes)
                      /\ \A v \in ToSet(Writes) : v \in ToSet(indexing'.left) \/ HasWritten(graph', v)
    BY DEF Undisturbed
  <2>1. /\ erasing.kinds = <<>> /\ Supported(indexing.left, graph.nodes)
        /\ \A v \in ToSet(Writes) : v \in ToSet(indexing.left) \/ HasWritten(graph, v)
    BY <1>2 DEF Undisturbed
  <2>2. Needs(w) \subseteq graph.nodes /\ Supported(indexing'.left, graph'.nodes)
    BY <1>2, <1>3, <1>4, <2>1
  <2>3. \A v \in ToSet(Writes) : v \in Writable
    BY WritesAre, ListIsFinite
  <2>4. ASSUME NEW v \in ToSet(Writes) PROVE v \in ToSet(indexing'.left) \/ HasWritten(graph', v)
    <3>1. CASE v = w
      BY <3>1, <2>2, <1>4
    <3>2. CASE v # w /\ v \in ToSet(indexing.left)
      BY <3>2, <1>2, <1>3
    <3>3. CASE HasWritten(graph, v)
      <4>1. graph.nodes \subseteq graph'.nodes
        BY <1>4
      <4> QED BY <4>1, <2>3, <1>4, <3>3, WrittenStays
    <3> QED BY <3>1, <3>2, <3>3, <2>1
  <2> QED BY <1>1, <2>1, <2>2, <2>4
<1>8. erasing'.clean = FALSE
  BY <1>1 DEF Cleared, ErasingIs
<1> QED BY <1>4, <1>5, <1>6, <1>7, <1>8 DEF Cleared, ClearedRepo, ClearedFile

\* A run is cut off: it is no longer undisturbed.
LEMMA StoreStopIndexing ==
  ASSUME StoreInv, StopIndexing
  PROVE  StoreInv'
<1> USE DEF StoreInv
<1>1. /\ indexing' = [indexing EXCEPT !.left = <<>>, !.clean = FALSE] /\ graph' = graph /\ erasing' = erasing
  BY DEF StopIndexing
<1>2. <<>> \in Seq(Writable)
  BY NothingWritten
<1>3. IndexingIs' /\ indexing'.clean = FALSE /\ indexing'.left = <<>>
  BY <1>1, <1>2 DEF IndexingIs
<1>4. ErasingIs' /\ Joined(graph)'
  BY <1>1 DEF ErasingIs
<1>5. Cleared' /\ ClearedRepo' /\ ClearedFile'
  BY <1>1, <1>3 DEF Cleared, ClearedRepo, ClearedFile, Gone
<1> QED BY <1>3, <1>4, <1>5 DEF Undisturbed

\* A list has its first member and the rest.
LEMMA RestOfList ==
  ASSUME NEW S, NEW s \in Seq(S), s # <<>>
  PROVE  ToSet(s) = {Head(s)} \cup ToSet(Tail(s))
<1> DEFINE n == Len(s)
           t == Tail(s)
<1>1. /\ n \in Nat /\ n # 0 /\ DOMAIN s = 1..n /\ t \in Seq(S) /\ Len(t) = n - 1
      /\ Head(s) = s[1] /\ \A i \in 1..(n - 1) : t[i] = s[i + 1]
  <2>1. n \in Nat /\ n # 0 /\ DOMAIN s = 1..n
    BY EmptySeq, LenProperties
  <2>2. t \in Seq(S) /\ Len(t) = n - 1 /\ Head(s) = s[1]
    BY HeadTailProperties
  <2>3. \A i \in 1..(n - 1) : t[i] = s[i + 1]
    BY HeadTailProperties, <2>2
  <2> QED BY <2>1, <2>2, <2>3
<1> HIDE DEF n, t
<1>2. DOMAIN t = 1..(n - 1)
  BY <1>1, LenProperties
<1>3. ASSUME NEW x \in ToSet(s) PROVE x \in {s[1]} \cup ToSet(t)
  <2>1. PICK i \in 1..n : x = s[i]
    BY <1>1 DEF ToSet
  <2>2. CASE i # 1
    <3>1. i - 1 \in 1..(n - 1) /\ (i - 1) + 1 = i
      BY <1>1, <2>2
    <3>2. t[i - 1] = s[i]
      BY <3>1, <1>1
    <3> QED BY <3>1, <3>2, <2>1, <1>2 DEF ToSet
  <2> QED BY <2>1, <2>2
<1>4. ASSUME NEW x \in ToSet(t) PROVE x \in ToSet(s)
  <2>1. PICK i \in 1..(n - 1) : x = t[i]
    BY <1>2 DEF ToSet
  <2>2. i + 1 \in 1..n
    BY <1>1
  <2> QED BY <2>1, <2>2, <1>1 DEF ToSet
<1>5. s[1] \in ToSet(s)
  BY <1>1 DEF ToSet
<1> QED BY <1>1, <1>3, <1>4, <1>5 DEF t

\* Each kind is deleted once, in order.
LEMMA KindsLeft ==
  /\ ToSet(<< >>) = {}
  /\ \A ks \in RestOfRepo \cup RestOfFile :
       ks # <<>> => /\ ToSet(ks) = {Head(ks)} \cup ToSet(Tail(ks)) /\ Head(ks) \in NodeKinds
                    /\ Head(ks) \notin ToSet(Tail(ks))
                    /\ ks \in RestOfRepo => Tail(ks) \in RestOfRepo
                    /\ ks \in RestOfFile => Tail(ks) \in RestOfFile
  /\ \A ks \in RestOfFile :
       ks # <<>> => \/ Head(ks) = "Chunk" /\ ToSet(Tail(ks)) = {"Symbol", "File"}
                    \/ Head(ks) = "Symbol" /\ ToSet(Tail(ks)) = {"File"}
                    \/ Head(ks) = "File" /\ ToSet(Tail(ks)) = {}
  /\ \A ks \in RestOfRepo \cup RestOfFile : ToSet(ks) \subseteq NodeKinds
<1> DEFINE r1 == <<"Repo">>
           r2 == <<"Directory", "Repo">>
           r3 == <<"File", "Directory", "Repo">>
           r4 == <<"Symbol", "File", "Directory", "Repo">>
           r5 == <<"Chunk", "Symbol", "File", "Directory", "Repo">>
           f1 == <<"File">>
           f2 == <<"Symbol", "File">>
           f3 == <<"Chunk", "Symbol", "File">>
           e  == << >>
<1>1. e \in Seq(NodeKinds) /\ ToSet(e) = {}
  BY NothingWritten, EmptySeq
<1>2. /\ r1 \in Seq(NodeKinds) /\ r1 # e /\ Head(r1) = "Repo" /\ Tail(r1) = e
      /\ r2 \in Seq(NodeKinds) /\ r2 # e /\ Head(r2) = "Directory" /\ Tail(r2) = r1
      /\ r3 \in Seq(NodeKinds) /\ r3 # e /\ Head(r3) = "File" /\ Tail(r3) = r2
      /\ f1 \in Seq(NodeKinds) /\ f1 # e /\ Head(f1) = "File" /\ Tail(f1) = e
      /\ f2 \in Seq(NodeKinds) /\ f2 # e /\ Head(f2) = "Symbol" /\ Tail(f2) = f1
  BY DEF NodeKinds
<1>3. /\ r4 \in Seq(NodeKinds) /\ r4 # e /\ Head(r4) = "Symbol" /\ Tail(r4) = r3
      /\ r5 \in Seq(NodeKinds) /\ r5 # e /\ Head(r5) = "Chunk" /\ Tail(r5) = r4
      /\ f3 \in Seq(NodeKinds) /\ f3 # e /\ Head(f3) = "Chunk" /\ Tail(f3) = f2
  BY DEF NodeKinds
<1>4. RestOfRepo = {r1, r2, r3, r4, r5, e} /\ RestOfFile = {f1, f2, f3, e}
  BY DEF RestOfRepo, RestOfFile
<1> HIDE DEF r1, r2, r3, r4, r5, f1, f2, f3, e
<1>5. /\ ToSet(r1) = {"Repo"} /\ ToSet(f1) = {"File"}
      /\ ToSet(r2) = {"Directory", "Repo"} /\ ToSet(f2) = {"Symbol", "File"}
      /\ ToSet(r3) = {"File", "Directory", "Repo"} /\ ToSet(f3) = {"Chunk", "Symbol", "File"}
      /\ ToSet(r4) = {"Symbol", "File", "Directory", "Repo"}
      /\ ToSet(r5) = {"Chunk", "Symbol", "File", "Directory", "Repo"}
  <2>1. ToSet(r1) = {Head(r1)} \cup ToSet(Tail(r1)) /\ ToSet(f1) = {Head(f1)} \cup ToSet(Tail(f1))
    BY <1>2, RestOfList DEF e
  <2>2. ToSet(r2) = {Head(r2)} \cup ToSet(Tail(r2)) /\ ToSet(f2) = {Head(f2)} \cup ToSet(Tail(f2))
    BY <1>2, RestOfList DEF e
  <2>3. ToSet(r3) = {Head(r3)} \cup ToSet(Tail(r3)) /\ ToSet(f3) = {Head(f3)} \cup ToSet(Tail(f3))
    BY <1>2, <1>3, RestOfList DEF e
  <2>4. ToSet(r4) = {Head(r4)} \cup ToSet(Tail(r4)) /\ ToSet(r5) = {Head(r5)} \cup ToSet(Tail(r5))
    BY <1>3, RestOfList DEF e
  <2>5. ToSet(r1) = {"Repo"} /\ ToSet(f1) = {"File"}
    BY <2>1, <1>1, <1>2
  <2>6. ToSet(r2) = {"Directory", "Repo"} /\ ToSet(f2) = {"Symbol", "File"}
    BY <2>2, <2>5, <1>2
  <2>7. ToSet(r3) = {"File", "Directory", "Repo"} /\ ToSet(f3) = {"Chunk", "Symbol", "File"}
    <3>1. Head(r3) = "File" /\ Tail(r3) = r2 /\ Head(f3) = "Chunk" /\ Tail(f3) = f2
      BY <1>2, <1>3
    <3>2. ToSet(r3) = {"File"} \cup {"Directory", "Repo"} /\ ToSet(f3) = {"Chunk"} \cup {"Symbol", "File"}
      BY <2>3, <2>6, <3>1
    <3> QED BY <3>2
  <2>8. ToSet(r4) = {"Symbol", "File", "Directory", "Repo"}
    BY <2>4, <2>7, <1>3
  <2>9. ToSet(r5) = {"Chunk", "Symbol", "File", "Directory", "Repo"}
    BY <2>4, <2>8, <1>3
  <2> QED BY <2>5, <2>6, <2>7, <2>8, <2>9
<1>6. ASSUME NEW ks \in RestOfRepo \cup RestOfFile, ks # e
      PROVE  /\ ToSet(ks) = {Head(ks)} \cup ToSet(Tail(ks)) /\ Head(ks) \in NodeKinds
             /\ Head(ks) \notin ToSet(Tail(ks))
             /\ ks \in RestOfRepo => Tail(ks) \in RestOfRepo
             /\ ks \in RestOfFile => Tail(ks) \in RestOfFile
  <2>1. ks \in {r1, r2, r3, r4, r5, f1, f2, f3}
    BY <1>4, <1>6
  <2> DEFINE Split(l) == ToSet(l) = {Head(l)} \cup ToSet(Tail(l)) /\ Head(l) \in NodeKinds /\ Head(l) \notin ToSet(Tail(l))
  <2>2. Split(ks)
    <3>1. Split(r1) /\ Split(f1)
      BY <1>1, <1>2, <1>5 DEF NodeKinds
    <3>2. Split(r2) /\ Split(f2)
      BY <1>2, <1>5 DEF NodeKinds
    <3>3. Split(r3)
      BY <1>2, <1>5 DEF NodeKinds
    <3>4. Split(f3)
      BY <1>3, <1>5 DEF NodeKinds
    <3>5. Split(r4)
      BY <1>3, <1>5 DEF NodeKinds
    <3>6. Split(r5)
      BY <1>3, <1>5 DEF NodeKinds
    <3> HIDE DEF Split
    <3> QED BY <2>1, <3>1, <3>2, <3>3, <3>4, <3>5, <3>6
  <2>3. ks \in RestOfRepo => Tail(ks) \in RestOfRepo
    BY <1>2, <1>3, <1>4, <1>6
  <2>4. ks \in RestOfFile => Tail(ks) \in RestOfFile
    BY <1>2, <1>3, <1>4, <1>6
  <2> QED BY <2>2, <2>3, <2>4
<1>7. ASSUME NEW ks \in RestOfFile, ks # e
      PROVE  \/ Head(ks) = "Chunk" /\ ToSet(Tail(ks)) = {"Symbol", "File"}
             \/ Head(ks) = "Symbol" /\ ToSet(Tail(ks)) = {"File"}
             \/ Head(ks) = "File" /\ ToSet(Tail(ks)) = {}
  BY <1>1, <1>2, <1>3, <1>4, <1>5, <1>7
<1>8. \A ks \in RestOfRepo \cup RestOfFile : ToSet(ks) \subseteq NodeKinds
  BY <1>1, <1>4, <1>5 DEF NodeKinds
<1> QED BY <1>1, <1>6, <1>7, <1>8 DEF e

\* What a deletion finds of a kind is some of the nodes.
LEMMA FoundIsFinite ==
  ASSUME StoreInv, erasing.kinds # <<>>
  PROVE  LET ns == Found(erasing.of, Head(erasing.kinds)) IN ns \subseteq graph.nodes /\ IsFiniteSet(ns)
<1> DEFINE k  == Head(erasing.kinds)
           ns == Found(erasing.of, k)
<1>2. erasing.of \in FilesOf => k \in {"Chunk", "Symbol", "File"}
  BY KindsLeft DEF StoreInv, ErasingIs
<1> HIDE DEF k
<1>3. ns \subseteq graph.nodes
  <2>1. CASE erasing.of \notin FilesOf
    BY <2>1 DEF Found, OfKind
  <2>2. CASE erasing.of \in FilesOf /\ k = "Chunk"
    BY <2>2 DEF Found
  <2>3. CASE erasing.of \in FilesOf /\ k = "Symbol"
    BY <2>3 DEF Found, OfKind
  <2>4. CASE erasing.of \in FilesOf /\ k = "File"
    BY <2>4 DEF Found
  <2> QED BY <2>1, <2>2, <2>3, <2>4, <1>2
<1> HIDE DEF ns
<1>4. graph.nodes \subseteq AllNodes
  BY DEF StoreInv, Joined, Graphs
<1>5. IsFiniteSet(ns)
  BY <1>3, <1>4, NodesAreFinite, FS_Subset
<1> QED BY <1>3, <1>5 DEF ns, k

\* A deletion starts: nothing is gone yet, and a whole file has its symbols on its edges.
LEMMA StoreStartErasing ==
  ASSUME StoreInv, NEW target \in FilesOf \cup {"repo"}, StartErasing(target)
  PROVE  StoreInv'
<1> USE DEF StoreInv
<1>1. /\ erasing.kinds = <<>> /\ erasing.count < MaxErasures /\ graph' = graph
      /\ erasing' = [count |-> erasing.count + 1, of |-> target, kinds |-> KindsFor(target), most |-> 0,
                     clean |-> indexing.left = <<>>, whole |-> indexing.clean /\ indexing.left = <<>>]
      /\ indexing' = [indexing EXCEPT !.clean = FALSE]
  BY DEF StartErasing
<1>2. IndexingIs' /\ indexing'.clean = FALSE /\ indexing'.left = indexing.left
  BY <1>1 DEF IndexingIs
<1>3. "repo" \notin FilesOf
  BY FilesAre
<1>4. /\ target = "repo" => KindsFor(target) = <<"Chunk", "Symbol", "File", "Directory", "Repo">>
      /\ target \in FilesOf => KindsFor(target) = <<"Chunk", "Symbol", "File">>
  BY <1>3 DEF KindsFor
<1>5. /\ target = "repo" => KindsFor(target) \in RestOfRepo
      /\ target \in FilesOf => KindsFor(target) \in RestOfFile
  BY <1>4 DEF RestOfRepo, RestOfFile
<1>6. ErasingIs'
  <2>1. erasing' \in [count : 0..MaxErasures, of : FilesOf \cup {"repo", "none"}, kinds : RestOfRepo \cup RestOfFile,
                      most : Nat, clean : BOOLEAN, whole : BOOLEAN]
    BY <1>1, <1>5, CodeGraphAssumption DEF ErasingIs
  <2>2. erasing'.of = target /\ erasing'.kinds = KindsFor(target)
    BY <1>1
  <2> QED BY <2>1, <2>2, <1>5 DEF ErasingIs
<1>7. Cleared'
  BY <1>1, <1>2 DEF Cleared
<1>8. /\ target = "repo" => ToSet(KindsFor(target)) = NodeKinds
      /\ target \in FilesOf => ToSet(KindsFor(target)) = {"Chunk", "Symbol", "File"}
  <2>3. KindsFor(target) \in RestOfRepo \cup RestOfFile /\ KindsFor(target) # <<>>
    BY <1>4, <1>5
  <2>4. target = "repo" => DOMAIN KindsFor(target) = 1..5
    BY <1>4
  <2>5. target \in FilesOf => DOMAIN KindsFor(target) = 1..3
    BY <1>4
  <2>6. target = "repo" => /\ KindsFor(target)[1] = "Chunk" /\ KindsFor(target)[2] = "Symbol" /\ KindsFor(target)[3] = "File"
                           /\ KindsFor(target)[4] = "Directory" /\ KindsFor(target)[5] = "Repo"
    BY <1>4
  <2>7. target \in FilesOf => KindsFor(target)[1] = "Chunk" /\ KindsFor(target)[2] = "Symbol" /\ KindsFor(target)[3] = "File"
    BY <1>4
  <2>8. target = "repo" => ToSet(KindsFor(target)) = NodeKinds
    <3> SUFFICES ASSUME target = "repo" PROVE ToSet(KindsFor(target)) = NodeKinds
      OBVIOUS
    <3>1. \A i \in 1..5 : KindsFor(target)[i] \in ToSet(KindsFor(target))
      BY <2>4 DEF ToSet
    <3>2. NodeKinds \subseteq ToSet(KindsFor(target))
      BY <3>1, <2>6 DEF NodeKinds
    <3> QED BY <3>2, <2>3, KindsLeft
  <2>9. target \in FilesOf => ToSet(KindsFor(target)) = {"Chunk", "Symbol", "File"}
    <3> SUFFICES ASSUME target \in FilesOf PROVE ToSet(KindsFor(target)) = {"Chunk", "Symbol", "File"}
      OBVIOUS
    <3>1. \A i \in 1..3 : i = 1 \/ i = 2 \/ i = 3
      OBVIOUS
    <3> QED BY <3>1, <2>5, <2>7 DEF ToSet
  <2> QED BY <2>8, <2>9
<1>9. ClearedRepo'
  BY <1>1, <1>8, KindIs DEF ClearedRepo
<1>10. ClearedFile'
  <2> SUFFICES ASSUME target \in FilesOf, erasing'.whole, NEW n \in Held(target), n \in graph.nodes
               PROVE  <<target, "CONTAINS", n>> \in graph.edges
    <3>1. erasing'.of = target /\ erasing'.kinds = KindsFor(target)
      BY <1>1
    <3>2. target \in FilesOf => ~Gone("Chunk")' /\ ~Gone("File")' /\ ~Gone("Symbol")'
      BY <3>1, <1>8 DEF Gone
    <3> QED BY <3>1, <3>2, <1>1 DEF ClearedFile
  <2>1. indexing.clean /\ indexing.left = <<>>
    BY <1>1
  <2>2. \A w \in ToSet(Writes) : HasWritten(graph, w)
    <3>1. ToSet(<<>>) = {}
      BY KindsLeft
    <3> QED BY <2>1, <3>1 DEF Undisturbed
  <2>3. PICK i \in 2..Len(Tree) : Tree[i][2] = n /\ Tree[i][3] = target
    BY HeldAreSymbols
  <2>4. <<"edge", <<target, "CONTAINS", n>> >> \in ToSet(Writes)
    BY <2>3, WritesAre
  <2> DEFINE w == <<"edge", <<target, "CONTAINS", n>> >>
  <2>5. HasWritten(graph, w) /\ w[1] = "edge" /\ w[2] = <<target, "CONTAINS", n>>
    BY <2>2, <2>4
  <2> HIDE DEF w
  <2> QED BY <2>5 DEF HasWritten
<1> QED BY <1>1, <1>2, <1>6, <1>7, <1>9, <1>10 DEF Undisturbed

\* A deletion takes a kind: if it took all it found, the kind is gone.
LEMMA StoreEraseKind ==
  ASSUME StoreInv, EraseKind
  PROVE  StoreInv' /\ Joined(graph')
<1> USE DEF StoreInv
<1> DEFINE kind == Head(erasing.kinds)
           ns   == Found(erasing.of, kind)
<1>1. erasing.kinds # <<>> /\ indexing' = indexing
      /\ erasing' = [erasing EXCEPT !.kinds = Tail(@), !.most = Max({@, Cardinality(ns)})]
  BY DEF EraseKind
<1>2. PICK batch \in SUBSET ns : Cardinality(batch) = Min({Cardinality(ns), BatchLimit}) /\ graph' = Without(graph, batch)
  BY DEF EraseKind, Store
<1>3. ns \subseteq graph.nodes /\ IsFiniteSet(ns)
  BY <1>1, FoundIsFinite
<1>4. /\ erasing.kinds \in RestOfRepo \cup RestOfFile /\ erasing.most \in Nat
      /\ erasing.of = "repo" => erasing.kinds \in RestOfRepo
      /\ erasing.of \in FilesOf => erasing.kinds \in RestOfFile
      /\ erasing.of = "repo" \/ erasing.of \in FilesOf
  BY <1>1 DEF ErasingIs
<1>5. "repo" \notin FilesOf
  BY FilesAre
<1> HIDE DEF ns
<1>6. /\ Max({erasing.most, Cardinality(ns)}) \in Nat
      /\ Max({erasing.most, Cardinality(ns)}) <= BatchLimit => batch = ns /\ erasing.most <= BatchLimit
  BY <1>2, <1>3, <1>4, TakesAll
<1>7. /\ erasing'.kinds = Tail(erasing.kinds) /\ erasing'.most = Max({erasing.most, Cardinality(ns)})
      /\ erasing'.of = erasing.of /\ erasing'.clean = erasing.clean /\ erasing'.whole = erasing.whole
      /\ erasing'.most <= BatchLimit => batch = ns /\ erasing.most <= BatchLimit
  BY <1>1, <1>6 DEF ErasingIs
<1>8. /\ ToSet(erasing.kinds) = {kind} \cup ToSet(erasing'.kinds) /\ kind \notin ToSet(erasing'.kinds)
      /\ erasing.kinds \in RestOfRepo => erasing'.kinds \in RestOfRepo
      /\ erasing.kinds \in RestOfFile => erasing'.kinds \in RestOfFile
  BY <1>1, <1>4, <1>7, KindsLeft
<1>9. /\ Joined(graph') /\ graph'.nodes = graph.nodes \ batch
      /\ \A e \in graph.edges : e[1] \notin batch /\ e[3] \notin batch => e \in graph'.edges
  BY <1>2, WithoutIs
<1> HIDE DEF kind
<1>10. ErasingIs'
  <2>1. erasing' \in [count : 0..MaxErasures, of : FilesOf \cup {"repo", "none"}, kinds : RestOfRepo \cup RestOfFile,
                      most : Nat, clean : BOOLEAN, whole : BOOLEAN]
    <3>1. Tail(erasing.kinds) \in RestOfRepo \cup RestOfFile
      BY <1>4, <1>7, <1>8
    <3> QED BY <1>1, <1>6, <3>1 DEF ErasingIs
  <2> QED BY <2>1, <1>4, <1>5, <1>7, <1>8 DEF ErasingIs
<1>11. indexing'.clean = FALSE /\ IndexingIs'
  BY <1>1 DEF Undisturbed, IndexingIs
<1>12. Cleared'
  BY <1>1, <1>7 DEF Cleared
<1>13. ClearedRepo'
  <2> SUFFICES ASSUME erasing.clean, erasing'.most <= BatchLimit, erasing.of = "repo", NEW n \in graph'.nodes
               PROVE  KindOf(n) \in ToSet(erasing'.kinds)
    BY <1>7 DEF ClearedRepo
  <2>1. KindOf(n) \in ToSet(erasing.kinds) /\ n \in graph.nodes /\ n \notin batch
    BY <1>7, <1>9 DEF ClearedRepo
  <2>2. ns = OfKind(kind)
    BY <1>5 DEF ns, Found
  <2>3. KindOf(n) # kind
    BY <2>1, <2>2, <1>7 DEF OfKind
  <2> QED BY <2>1, <2>3, <1>8
<1>14. ClearedFile'
  <2> DEFINE f == erasing.of
  <2> SUFFICES ASSUME erasing.clean, erasing'.most <= BatchLimit, f \in FilesOf
               PROVE  /\ Gone("Chunk")' => graph'.nodes \cap ToSet(ChunksOf[f]) = {}
                      /\ Gone("File")' => f \notin graph'.nodes
                      /\ erasing.whole => \A n \in Held(f) \cap graph'.nodes :
                           ~Gone("Symbol")' /\ <<f, "CONTAINS", n>> \in graph'.edges
    BY <1>7 DEF ClearedFile
  <2>1. batch = ns /\ erasing.most <= BatchLimit
    BY <1>7
  <2>2. /\ Gone("Chunk") => graph.nodes \cap ToSet(ChunksOf[f]) = {}
        /\ Gone("File") => f \notin graph.nodes
        /\ erasing.whole => \A n \in Held(f) \cap graph.nodes :
             ~Gone("Symbol") /\ <<f, "CONTAINS", n>> \in graph.edges
    BY <2>1 DEF ClearedFile
  <2>3. \A k : Gone(k)' => Gone(k) \/ k = kind
    BY <1>8 DEF Gone
  <2>4. /\ kind = "Chunk" => ns = graph.nodes \cap ToSet(ChunksOf[f])
        /\ kind = "Symbol" => ns = {n \in OfKind("Symbol") : <<f, "CONTAINS", n>> \in graph.edges}
        /\ kind = "File" => ns = graph.nodes \cap {f}
    BY DEF ns, Found
  <2>5. \/ kind = "Chunk" /\ ToSet(erasing'.kinds) = {"Symbol", "File"}
        \/ kind = "Symbol" /\ ToSet(erasing'.kinds) = {"File"}
        \/ kind = "File" /\ ToSet(erasing'.kinds) = {}
    BY <1>1, <1>4, <1>7, KindsLeft DEF kind
  <2>6. Gone("Chunk")' => graph'.nodes \cap ToSet(ChunksOf[f]) = {}
    BY <2>1, <2>2, <2>3, <2>4, <1>9
  <2>7. Gone("File")' => f \notin graph'.nodes
    BY <2>1, <2>2, <2>3, <2>4, <1>9
  <2>8. ASSUME erasing.whole, NEW n \in Held(f), n \in graph'.nodes
        PROVE  ~Gone("Symbol")' /\ <<f, "CONTAINS", n>> \in graph'.edges
    <3>1. n \in Named /\ KindOf(n) = "Symbol" /\ n # f /\ n \notin ToSet(ChunksOf[f])
      BY HeldAreSymbols
    <3>2. n \in graph.nodes /\ n \notin batch
      BY <2>8, <1>9
    <3>3. "Symbol" \in ToSet(erasing.kinds) /\ <<f, "CONTAINS", n>> \in graph.edges
      BY <2>2, <2>8, <3>2 DEF Gone
    <3>4. kind # "Symbol"
      BY <2>1, <2>4, <3>1, <3>2, <3>3 DEF OfKind
    <3>5. kind = "Chunk" /\ "Symbol" \in ToSet(erasing'.kinds)
      BY <1>8, <2>5, <3>3, <3>4
    <3>6. f \notin batch
      BY <2>1, <2>4, <3>5, FilesAre
    <3>7. <<f, "CONTAINS", n>> \in graph'.edges
      <4> DEFINE e == <<f, "CONTAINS", n>>
      <4>1. e[1] = f /\ e[3] = n
        OBVIOUS
      <4> QED BY <4>1, <3>2, <3>3, <3>6, <1>9
    <3> QED BY <3>5, <3>7 DEF Gone
  <2> QED BY <2>6, <2>7, <2>8
<1> QED BY <1>9, <1>10, <1>11, <1>12, <1>13, <1>14 DEF Undisturbed

\* Every step of the store keeps its invariant, and tells the traversal the graph it leaves.
LEMMA StoreStep ==
  ASSUME StoreInv, StoreChanges
  PROVE  /\ StoreInv'
         /\ \/ Store(graph')
            \/ UNCHANGED <<graph, trace>>
<1>1. CASE StartIndexing
  BY <1>1, StoreStartIndexing DEF StartIndexing
<1>2. CASE WriteNext
  <2>1. Store(graph')
    BY <1>2 DEF WriteNext, Store
  <2> QED BY <1>2, <2>1, StoreWriteNext
<1>3. CASE StopIndexing
  BY <1>3, StoreStopIndexing DEF StopIndexing
<1>4. ASSUME NEW target \in FilesOf \cup {"repo"}, StartErasing(target) PROVE StoreInv' /\ UNCHANGED <<graph, trace>>
  BY <1>4, StoreStartErasing DEF StartErasing
<1>5. CASE EraseKind
  <2>1. Store(graph')
    BY <1>5 DEF EraseKind, Store
  <2> QED BY <1>5, <2>1, StoreEraseKind
<1> QED BY <1>1, <1>2, <1>3, <1>4, <1>5 DEF StoreChanges

\* A step that leaves the store alone keeps its invariant.
LEMMA StoreStays ==
  ASSUME StoreInv, UNCHANGED <<graph, indexing, erasing>>
  PROVE  StoreInv'
<1> QED BY DEF StoreInv, IndexingIs, Undisturbed, ErasingIs, Cleared, ClearedRepo, ClearedFile, Gone

\* The invariant of the store says what the checked ones say.
LEMMA StoreIs ==
  ASSUME StoreInv
  PROVE  IndexIsWhole /\ ErasureClears
<1> USE DEF StoreInv
<1>1. ToSet(<<>>) = {}
  BY KindsLeft
<1>2. IndexIsWhole
  <2> SUFFICES ASSUME indexing.left = <<>>, indexing.clean
      PROVE  /\ AllNodes \subseteq graph.nodes
             /\ {<<Tree[i][3], "CONTAINS", Tree[i][2]>> : i \in 2..Len(Tree)} \subseteq graph.edges
             /\ {<<Calls[i][1], "CALLS", Calls[i][2]>> : i \in DOMAIN Calls} \subseteq graph.edges
             /\ {<<Imports[i][1], "IMPORTS", Imports[i][2]>> : i \in DOMAIN Imports} \subseteq graph.edges
             /\ \A f \in FilesOf : {<<f, "CONTAINS", c>> : c \in ToSet(ChunksOf[f])} \subseteq graph.edges
             /\ {<<p[1], "REPRESENTED_BY", p[2]>> : p \in Represents} \subseteq graph.edges
    BY DEF IndexIsWhole
  <2>1. \A w \in ToSet(Writes) : HasWritten(graph, w)
    BY <1>1 DEF Undisturbed
  <2>2. \A n : <<"node", n>> \in ToSet(Writes) => n \in graph.nodes
    <3> SUFFICES ASSUME NEW n, <<"node", n>> \in ToSet(Writes) PROVE n \in graph.nodes
      OBVIOUS
    <3> DEFINE w == <<"node", n>>
    <3>1. w[1] = "node" /\ w[2] = n /\ HasWritten(graph, w)
      BY <2>1
    <3> HIDE DEF w
    <3> QED BY <3>1 DEF HasWritten
  <2>3. \A e : <<"edge", e>> \in ToSet(Writes) => e \in graph.edges
    <3> SUFFICES ASSUME NEW e, <<"edge", e>> \in ToSet(Writes) PROVE e \in graph.edges
      OBVIOUS
    <3> DEFINE w == <<"edge", e>>
    <3>1. w[1] = "edge" /\ w[2] = e /\ HasWritten(graph, w)
      BY <2>1
    <3> HIDE DEF w
    <3> QED BY <3>1 DEF HasWritten
  <2>4. \A f \in FilesOf : ToSet(ChunksOf[f]) \subseteq graph.nodes
                           /\ {<<f, "CONTAINS", c>> : c \in ToSet(ChunksOf[f])} \subseteq graph.edges
    <3> SUFFICES ASSUME NEW f \in FilesOf
                 PROVE  ToSet(ChunksOf[f]) \subseteq graph.nodes
                        /\ {<<f, "CONTAINS", c>> : c \in ToSet(ChunksOf[f])} \subseteq graph.edges
      OBVIOUS
    <3> DEFINE w == <<"chunks", f>>
    <3>1. w[1] = "chunks" /\ w[2] = f /\ HasWritten(graph, w)
      BY <2>1, WritesAre
    <3> HIDE DEF w
    <3>2. ToSet(ChunksOf[f]) \subseteq graph.nodes /\ Holding(w) \subseteq graph.edges
      BY <3>1 DEF HasWritten
    <3> QED BY <3>1, <3>2 DEF Holding
  <2>5. Linking \subseteq graph.edges
    <3> DEFINE w == <<"links">>
    <3>1. w[1] = "links" /\ HasWritten(graph, w)
      BY <2>1, WritesAre
    <3> HIDE DEF w
    <3> QED BY <3>1 DEF HasWritten
  <2>6. AllNodes \subseteq graph.nodes
    <3>1. Named \subseteq graph.nodes
      BY <2>2, WritesAre DEF Named
    <3> QED BY <3>1, <2>4 DEF AllNodes, AllChunks
  <2> QED BY <2>3, <2>4, <2>5, <2>6, WritesAre DEF Linking
<1>3. ErasureClears
  <2> SUFFICES ASSUME erasing.of # "none", erasing.kinds = <<>>, erasing.clean, erasing.most <= BatchLimit
      PROVE  IF erasing.of = "repo" THEN graph.nodes = {}
             ELSE /\ graph.nodes \cap ({erasing.of} \cup ToSet(ChunksOf[erasing.of])) = {}
                  /\ erasing.whole => \A i \in DOMAIN Tree : Tree[i][3] = erasing.of => Tree[i][2] \notin graph.nodes
    BY DEF ErasureClears
  <2>1. CASE erasing.of = "repo"
    BY <2>1, <1>1 DEF ClearedRepo
  <2>2. CASE erasing.of \in FilesOf
    <3>1. Gone("Chunk") /\ Gone("File") /\ Gone("Symbol")
      BY <1>1 DEF Gone
    <3>2. /\ graph.nodes \cap ToSet(ChunksOf[erasing.of]) = {} /\ erasing.of \notin graph.nodes
          /\ erasing.whole => \A n \in Held(erasing.of) : n \notin graph.nodes
      BY <2>2, <3>1 DEF ClearedFile
    <3>3. erasing.of # "repo"
      BY <2>2, FilesAre
    <3>4. \A i \in DOMAIN Tree : Tree[i][3] = erasing.of => Tree[i][2] \in Held(erasing.of)
      BY DEF Held
    <3>5. erasing.whole => \A i \in DOMAIN Tree : Tree[i][3] = erasing.of => Tree[i][2] \notin graph.nodes
      BY <3>2, <3>4
    <3>6. graph.nodes \cap ({erasing.of} \cup ToSet(ChunksOf[erasing.of])) = {}
      BY <3>2
    <3> QED BY <3>3, <3>5, <3>6
  <2> QED BY <2>1, <2>2 DEF ErasingIs
<1> QED BY <1>2, <1>3

\* An edge as it is gone along, and what lies one edge further than some nodes.
Along(e, out)      == IF out THEN <<e[1], e[3]>> ELSE <<e[3], e[1]>>
Hop(ns, es, out)   == {Along(e, out)[2] : e \in {d \in es : Along(d, out)[1] \in ns}}

\* The ends of an edge are nodes.
LEMMA EdgesAre ==
  ASSUME NEW e \in Edges, NEW out
  PROVE  /\ e[1] \in AllNodes /\ e[2] \in EdgeTypes /\ e[3] \in AllNodes
         /\ Along(e, out)[1] \in AllNodes /\ Along(e, out)[2] \in AllNodes
<1>1. e[1] \in AllNodes /\ e[2] \in EdgeTypes /\ e[3] \in AllNodes
  BY DEF Edges
<1>2. CASE out = TRUE
  BY <1>1, <1>2 DEF Along
<1>3. CASE out # TRUE
  <2>1. Along(e, out)[1] \in {e[1], e[3]} /\ Along(e, out)[2] \in {e[1], e[3]}
    BY DEF Along
  <2> QED BY <1>1, <2>1
<1> QED BY <1>1, <1>2, <1>3

\* What lies one edge further.
LEMMA HopIs ==
  ASSUME NEW es \in SUBSET Edges, NEW out, NEW ns
  PROVE  /\ Hop(ns, es, out) \subseteq AllNodes
         /\ \A e \in es : Along(e, out)[1] \in ns => Along(e, out)[2] \in Hop(ns, es, out)
         /\ \A n \in Hop(ns, es, out) : \E e \in es : Along(e, out)[1] \in ns /\ Along(e, out)[2] = n
<1>1. \A e \in es : Along(e, out)[2] \in AllNodes
  BY EdgesAre
<1> QED BY <1>1 DEF Hop

\* The sets of nodes within a number of steps.
Grown(f, n, start, es, out) ==
  f[0] = {start} /\ \A i \in 1..n : f[i] = f[i - 1] \cup Hop(f[i - 1], es, out)

\* There are such sets for every number of steps.
LEMMA GrownExists ==
  ASSUME NEW start \in AllNodes, NEW es \in SUBSET Edges, NEW out, NEW n \in Nat
  PROVE  \E f \in [0..n -> SUBSET AllNodes] : Grown(f, n, start, es, out)
<1> DEFINE G == [p \in (1..n) \X SUBSET AllNodes |-> p[2] \cup Hop(p[2], es, out)]
           D == [i \in 0..n |-> SUBSET AllNodes]
<1>1. \A i \in 1..n : \A d \in SUBSET AllNodes : G[<<i, d>>] = d \cup Hop(d, es, out)
  OBVIOUS
<1>2. \A d \in SUBSET AllNodes : d \cup Hop(d, es, out) \in SUBSET AllNodes
  BY HopIs
<1>3. 0 \in 0..n /\ \A i \in 1..n : i - 1 \in 0..n /\ i \in 0..n
  OBVIOUS
<1> HIDE DEF G
<1>4. Leads(n, {start}, G, D)
  <2>1. {start} \in D[0]
    BY <1>3
  <2>2. ASSUME NEW i \in 1..n, NEW d \in D[i - 1] PROVE G[<<i, d>>] \in D[i]
    BY <1>1, <1>2, <1>3
  <2> QED BY <2>1, <2>2 DEF Leads
<1>5. \A i \in 0..n : D[i] \subseteq SUBSET AllNodes
  OBVIOUS
<1> HIDE DEF D
<1>6. PICK f \in [0..n -> SUBSET AllNodes] : Follows(f, n, {start}, G)
  BY <1>4, <1>5, Iterated
<1>7. Grown(f, n, start, es, out)
  <2>1. f[0] = {start}
    BY <1>6 DEF Follows
  <2>2. ASSUME NEW i \in 1..n PROVE f[i] = f[i - 1] \cup Hop(f[i - 1], es, out)
    <3>1. f[i - 1] \in SUBSET AllNodes
      BY <1>3
    <3>2. f[i] = G[<<i, f[i - 1]>>]
      BY <1>6 DEF Follows
    <3> QED BY <3>1, <3>2, <1>1
  <2> QED BY <2>1, <2>2 DEF Grown
<1> QED BY <1>7

\* Two such sequences agree as far as both go.
LEMMA GrownAgree ==
  ASSUME NEW start, NEW es, NEW out, NEW n \in Nat, NEW f, NEW g,
         Grown(f, n, start, es, out), Grown(g, n, start, es, out)
  PROVE  \A i \in 0..n : f[i] = g[i]
<1> DEFINE D == [i \in 0..n |-> {g[i]}]
<1>1. \A i \in 0..n : D[i] = {g[i]}
  OBVIOUS
<1>2. 0 \in 0..n /\ \A i \in 1..n : i - 1 \in 0..n /\ i \in 0..n
  OBVIOUS
<1> HIDE DEF D
<1>3. f[0] \in D[0]
  BY <1>1, <1>2 DEF Grown
<1>4. ASSUME NEW i \in 1..n, f[i - 1] \in D[i - 1] PROVE f[i] \in D[i]
  <2>1. f[i - 1] = g[i - 1]
    BY <1>1, <1>2, <1>4
  <2>2. f[i] = f[i - 1] \cup Hop(f[i - 1], es, out)
    BY Zenon DEF Grown
  <2>3. g[i] = g[i - 1] \cup Hop(g[i - 1], es, out)
    BY Zenon DEF Grown
  <2>4. f[i] = g[i]
    BY <2>1, <2>2, <2>3
  <2> QED BY <2>4, <1>1, <1>2
<1>5. \A i \in 0..n : f[i] \in D[i]
  BY <1>3, <1>4, Reached
<1> QED BY <1>1, <1>5

\* Reach is the last of them.
LEMMA ReachIs ==
  ASSUME NEW start \in AllNodes, NEW es \in SUBSET Edges, NEW out \in BOOLEAN, NEW n \in Nat
  PROVE  \E f \in [0..n -> SUBSET AllNodes] : Grown(f, n, start, es, out) /\ Reach(start, es, out, n) = f[n]
<1> DEFINE hop(ns) == IF out THEN {e[3] : e \in {d \in es : d[1] \in ns}}
                      ELSE {e[1] : e \in {d \in es : d[3] \in ns}}
           within[i \in 0..n] == IF i = 0 THEN {start} ELSE within[i - 1] \cup hop(within[i - 1])
<1>1. Reach(start, es, out, n) = within[n]
  BY Zenon DEF Reach
<1>2. \A ns : hop(ns) = Hop(ns, es, out)
  <2>1. CASE out
    BY <2>1 DEF Hop, Along
  <2>2. CASE ~out
    BY <2>2 DEF Hop, Along
  <2> QED BY <2>1, <2>2
<1> HIDE DEF hop
<1>3. PICK f \in [0..n -> SUBSET AllNodes] : Grown(f, n, start, es, out)
  BY GrownExists
<1>4. f = [i \in 0..n |-> IF i = 0 THEN {start} ELSE f[i - 1] \cup hop(f[i - 1])]
  <2>1. ASSUME NEW i \in 0..n PROVE f[i] = IF i = 0 THEN {start} ELSE f[i - 1] \cup hop(f[i - 1])
    <3>1. CASE i = 0
      BY <3>1, <1>3 DEF Grown
    <3>2. CASE i # 0
      <4>1. i \in 1..n
        BY <3>2
      <4>2. f[i] = f[i - 1] \cup Hop(f[i - 1], es, out)
        BY <4>1, <1>3, Zenon DEF Grown
      <4>3. hop(f[i - 1]) = Hop(f[i - 1], es, out)
        BY <1>2, Zenon
      <4> QED BY <3>2, <4>2, <4>3
    <3> QED BY <3>1, <3>2
  <2> QED BY <2>1
<1>5. within = [i \in 0..n |-> IF i = 0 THEN {start} ELSE within[i - 1] \cup hop(within[i - 1])]
  <2> DEFINE P(g) == g = [i \in 0..n |-> IF i = 0 THEN {start} ELSE g[i - 1] \cup hop(g[i - 1])]
  <2>1. P(f)
    BY <1>4
  <2>2. within = CHOOSE g : P(g)
    BY Zenon
  <2> HIDE DEF P, within
  <2>3. P(within)
    BY <2>1, <2>2
  <2> QED BY <2>3 DEF P
<1> HIDE DEF within
<1>6. Grown(within, n, start, es, out)
  <2>1. within[0] = {start}
    BY <1>5
  <2>2. ASSUME NEW i \in 1..n PROVE within[i] = within[i - 1] \cup Hop(within[i - 1], es, out)
    <3>1. i \in 0..n /\ i # 0
      OBVIOUS
    <3>2. within[i] = within[i - 1] \cup hop(within[i - 1])
      BY <3>1, <1>5
    <3>3. hop(within[i - 1]) = Hop(within[i - 1], es, out)
      BY <1>2, Zenon
    <3> QED BY <3>2, <3>3
  <2> QED BY <2>1, <2>2 DEF Grown
<1>7. within[n] = f[n]
  BY <1>3, <1>6, GrownAgree
<1> QED BY <1>1, <1>3, <1>7

\* A sequence of such sets can be cut short.
LEMMA GrownShorter ==
  ASSUME NEW start \in AllNodes, NEW es \in SUBSET Edges, NEW out \in BOOLEAN, NEW n \in Nat, NEW f,
         Grown(f, n, start, es, out), NEW k \in 0..n
  PROVE  Reach(start, es, out, k) = f[k]
<1>1. Grown(f, k, start, es, out)
  BY DEF Grown
<1>2. k \in Nat /\ k \in 0..k
  OBVIOUS
<1>3. PICK g \in [0..k -> SUBSET AllNodes] : Grown(g, k, start, es, out) /\ Reach(start, es, out, k) = g[k]
  BY <1>2, ReachIs
<1> QED BY <1>1, <1>2, <1>3, GrownAgree

\* Within no steps there is the start; one step further lies what an edge leads to.
LEMMA ReachStep ==
  ASSUME NEW start \in AllNodes, NEW es \in SUBSET Edges, NEW out \in BOOLEAN, NEW n \in Nat
  PROVE  /\ start \in Reach(start, es, out, n) /\ Reach(start, es, out, n) \subseteq AllNodes
         /\ Reach(start, es, out, 0) = {start}
         /\ Reach(start, es, out, n) \subseteq Reach(start, es, out, n + 1)
         /\ \A e \in es : Along(e, out)[1] \in Reach(start, es, out, n) =>
                            Along(e, out)[2] \in Reach(start, es, out, n + 1)
<1>0. n + 1 \in Nat
  OBVIOUS
<1>1. PICK f \in [0..(n + 1) -> SUBSET AllNodes] : Grown(f, n + 1, start, es, out)
  BY <1>0, GrownExists
<1>2. \A k \in 0..(n + 1) : Reach(start, es, out, k) = f[k]
  BY <1>0, <1>1, GrownShorter
<1>3. f[n + 1] = f[n] \cup Hop(f[n], es, out)
  <2>1. n + 1 \in 1..(n + 1) /\ (n + 1) - 1 = n
    OBVIOUS
  <2>2. f[n + 1] = f[(n + 1) - 1] \cup Hop(f[(n + 1) - 1], es, out)
    BY <1>1, <2>1, Zenon DEF Grown
  <2> QED BY <2>1, <2>2
<1>4. \A k \in 0..(n + 1) : start \in f[k]
  <2> DEFINE D == [i \in 0..(n + 1) |-> {S \in SUBSET AllNodes : start \in S}]
  <2>1. \A i \in 0..(n + 1) : D[i] = {S \in SUBSET AllNodes : start \in S}
    OBVIOUS
  <2> HIDE DEF D
  <2>2. f[0] \in D[0]
    BY <2>1, <1>1 DEF Grown
  <2>3. ASSUME NEW i \in 1..(n + 1), f[i - 1] \in D[i - 1] PROVE f[i] \in D[i]
    <3>1. i \in 0..(n + 1) /\ i - 1 \in 0..(n + 1)
      OBVIOUS
    <3>2. start \in f[i - 1]
      BY <2>1, <2>3, <3>1
    <3>3. f[i] = f[i - 1] \cup Hop(f[i - 1], es, out)
      BY <1>1, Zenon DEF Grown
    <3>4. f[i] \in SUBSET AllNodes
      BY <1>1, <3>1
    <3> QED BY <2>1, <3>1, <3>2, <3>3, <3>4
  <2>4. \A i \in 0..(n + 1) : f[i] \in D[i]
    BY <1>0, <2>2, <2>3, Reached
  <2> QED BY <2>1, <2>4
<1>5. \A e \in es : Along(e, out)[1] \in f[n] => Along(e, out)[2] \in f[n + 1]
  BY <1>3, HopIs
<1>6. 0 \in 0..(n + 1) /\ n \in 0..(n + 1) /\ n + 1 \in 0..(n + 1)
  OBVIOUS
<1>7. f[n] \in SUBSET AllNodes /\ start \in f[n] /\ f[n] \subseteq f[n + 1] /\ f[0] = {start}
  BY <1>1, <1>3, <1>4, <1>6 DEF Grown
<1> QED BY <1>2, <1>5, <1>6, <1>7

\* More steps reach no less.
LEMMA ReachFurther ==
  ASSUME NEW start \in AllNodes, NEW es \in SUBSET Edges, NEW out \in BOOLEAN, NEW n \in Nat, NEW k \in 0..n
  PROVE  Reach(start, es, out, k) \subseteq Reach(start, es, out, n)
<1> DEFINE R(i) == Reach(start, es, out, i)
           Lacks == {i \in k..n : ~(R(k) \subseteq R(i))}
<1>1. SUFFICES ASSUME Lacks # {} PROVE FALSE
  OBVIOUS
<1>2. PICK m \in Lacks : \A i \in Lacks : m <= i
  <2> Lacks \subseteq Nat
    OBVIOUS
  <2> HIDE DEF Lacks
  <2> QED BY <1>1, Smallest
<1> HIDE DEF R
<1>3. m \in k..n /\ m # k
  BY <1>2
<1>4. m - 1 \in k..n /\ m - 1 \in Nat /\ (m - 1) + 1 = m /\ ~(m <= m - 1)
  BY <1>3
<1>5. R(k) \subseteq R(m - 1)
  BY <1>2, <1>4
<1>6. R(m - 1) \subseteq R((m - 1) + 1)
  BY <1>4, ReachStep DEF R
<1> QED BY <1>2, <1>4, <1>5, <1>6

\* More edges reach no less, and no more than a set they do not lead out of.
LEMMA ReachInside ==
  ASSUME NEW start \in AllNodes, NEW es \in SUBSET Edges, NEW out \in BOOLEAN, NEW n \in Nat,
         NEW S, start \in S, \A e \in es : Along(e, out)[1] \in S => Along(e, out)[2] \in S
  PROVE  Reach(start, es, out, n) \subseteq S
<1>1. PICK f \in [0..n -> SUBSET AllNodes] : Grown(f, n, start, es, out) /\ Reach(start, es, out, n) = f[n]
  BY ReachIs
<1> DEFINE D == [i \in 0..n |-> SUBSET S]
<1>2. \A i \in 0..n : D[i] = SUBSET S
  OBVIOUS
<1> HIDE DEF D
<1>3. f[0] \in D[0]
  BY <1>1, <1>2 DEF Grown
<1>4. ASSUME NEW i \in 1..n, f[i - 1] \in D[i - 1] PROVE f[i] \in D[i]
  <2>1. i \in 0..n /\ i - 1 \in 0..n
    OBVIOUS
  <2>2. f[i - 1] \subseteq S
    BY <1>2, <1>4, <2>1
  <2>3. f[i] = f[i - 1] \cup Hop(f[i - 1], es, out)
    BY <1>1, Zenon DEF Grown
  <2>4. ASSUME NEW m \in Hop(f[i - 1], es, out) PROVE m \in S
    <3>1. PICK e \in es : Along(e, out)[1] \in f[i - 1] /\ Along(e, out)[2] = m
      BY <2>4 DEF Hop
    <3> QED BY <2>2, <3>1
  <2> QED BY <1>2, <2>1, <2>2, <2>3, <2>4
<1>5. \A i \in 0..n : f[i] \in D[i]
  BY <1>3, <1>4, Reached
<1> QED BY <1>1, <1>2, <1>5

\* More edges reach no less.
LEMMA ReachMore ==
  ASSUME NEW start \in AllNodes, NEW es \in SUBSET Edges, NEW fs \in SUBSET Edges, es \subseteq fs,
         NEW out \in BOOLEAN, NEW n \in Nat
  PROVE  Reach(start, es, out, n) \subseteq Reach(start, fs, out, n)
<1>1. PICK f \in [0..n -> SUBSET AllNodes] : Grown(f, n, start, es, out) /\ Reach(start, es, out, n) = f[n]
  BY ReachIs
<1>2. PICK g \in [0..n -> SUBSET AllNodes] : Grown(g, n, start, fs, out) /\ Reach(start, fs, out, n) = g[n]
  BY ReachIs
<1> DEFINE D == [i \in 0..n |-> SUBSET g[i]]
<1>3. \A i \in 0..n : D[i] = SUBSET g[i]
  OBVIOUS
<1> HIDE DEF D
<1>4. f[0] \in D[0]
  BY <1>1, <1>2, <1>3 DEF Grown
<1>5. ASSUME NEW i \in 1..n, f[i - 1] \in D[i - 1] PROVE f[i] \in D[i]
  <2>1. i \in 0..n /\ i - 1 \in 0..n
    OBVIOUS
  <2>2. f[i - 1] \subseteq g[i - 1]
    BY <1>3, <1>5, <2>1
  <2>3. f[i] = f[i - 1] \cup Hop(f[i - 1], es, out)
    BY <1>1, Zenon DEF Grown
  <2>4. g[i] = g[i - 1] \cup Hop(g[i - 1], fs, out)
    BY <1>2, Zenon DEF Grown
  <2>5. ASSUME NEW m \in Hop(f[i - 1], es, out) PROVE m \in Hop(g[i - 1], fs, out)
    <3>1. PICK e \in es : Along(e, out)[1] \in f[i - 1] /\ Along(e, out)[2] = m
      BY <2>5 DEF Hop
    <3>2. e \in fs /\ Along(e, out)[1] \in g[i - 1]
      BY <2>2, <3>1
    <3> QED BY <3>1, <3>2, HopIs
  <2> QED BY <1>3, <2>1, <2>2, <2>3, <2>4, <2>5
<1>6. \A i \in 0..n : f[i] \in D[i]
  BY <1>4, <1>5, Reached
<1> QED BY <1>1, <1>2, <1>3, <1>6

\* A traversal t of a graph g: its types, and how it came to where it is.
Legs == {<<>>, <<"outgoing">>, <<"incoming">>, <<"outgoing", "incoming">>}
Traces == [at : {"idle", "types", "start", "level", "done"}, of : AllNodes \cup {"none"}, legs : Legs,
           types : SUBSET Semantic, depth : 0..MaxDepth, seen : SUBSET AllNodes, frontier : SUBSET AllNodes,
           found : SUBSET AllNodes, edges : SUBSET Edges, cut : BOOLEAN, gone : BOOLEAN,
           steady : SUBSET Edges, ever : SUBSET Edges]
Going == {"start", "level", "done"}

Following(t, g) ==
  /\ t.at = "idle" => t.found = {} /\ t.edges = {}
  /\ t.at # "idle" => t.of \in AllNodes /\ t.steady \subseteq g.edges /\ g.edges \subseteq t.ever
  /\ t.at = "types" => t.legs = Neighborhood /\ t.types = {"CALLS"} /\ t.found = {} /\ t.edges = {}
  /\ t.at \in Going /\ t.types = {"CALLS"} => t.legs \in OneWay
  /\ t.at \in Going /\ t.types # {"CALLS"} => t.legs \in {Neighborhood, <<"incoming">>}
                                               /\ \A e \in t.steady : e[2] \in Semantic => e[2] \in t.types
  /\ t.at = "start" /\ (t.types = {"CALLS"} \/ t.legs = Neighborhood) => t.found = {} /\ t.edges = {}
  /\ t.at = "done" => t.legs # Neighborhood

\* It found what lies within its depth along edges that were there.
OfTypes(es, types) == {e \in es : e[2] \in types}
Outward(t)       == Head(t.legs) = "outgoing"
Aim(t, es, k) ==
  IF t.types = {"CALLS"} THEN Reach(t.of, OfTypes(es, t.types), Outward(t), k)
  ELSE Reach(t.of, OfTypes(es, Semantic), TRUE, k) \cup Reach(t.of, OfTypes(es, Semantic), FALSE, k)

Sound(t) ==
  /\ t.at \in Going => t.found \subseteq Aim(t, t.ever, MaxDepth)
  /\ t.at = "level" => /\ t.depth < MaxDepth /\ t.seen \subseteq t.found /\ t.frontier \subseteq t.seen \cup {t.of}
                       /\ t.seen \cup t.frontier \subseteq Reach(t.of, OfTypes(t.ever, t.types), Outward(t), t.depth)

\* If nothing was cut, the edges that stayed lead out of no node it left behind.
Behind(t) ==
  \A e \in OfTypes(t.steady, t.types) :
    Along(e, Outward(t))[1] \in (t.seen \cup {t.of}) \ t.frontier => Along(e, Outward(t))[2] \in t.seen \cup {t.of}
AllAlong(t, out) == Reach(t.of, OfTypes(t.steady, Semantic), out, Cardinality(AllNodes)) \subseteq t.found \cup {t.of}
Complete(t) ==
  /\ t.at = "level" => Behind(t)
  /\ t.at \in Going /\ t.types # {"CALLS"} /\ t.legs # Neighborhood => AllAlong(t, TRUE)
  /\ t.at = "done" => Aim(t, t.steady, Cardinality(AllNodes)) \subseteq t.found \cup {t.of}

\* What it found lies in levels, each one step further than the one before.
Layers(t, lv) ==
  /\ t.of \in t.found /\ lv[t.of] = 0
  /\ \A n \in t.found : lv[n] <= t.depth /\ (n = t.of \/ \E e \in t.edges : Along(e, Outward(t))[2] = n)
  /\ \A e \in t.edges : /\ Along(e, Outward(t))[1] \in t.found /\ Along(e, Outward(t))[2] \in t.found
                        /\ lv[Along(e, Outward(t))[2]] = lv[Along(e, Outward(t))[1]] + 1
  /\ t.at = "level" => t.seen = t.found /\ \A n \in t.frontier : n \in t.found /\ lv[n] = t.depth
Layered(t) ==
  t.at \in {"level", "done"} /\ t.types = {"CALLS"} /\ ~t.gone => \E lv \in [t.found -> 0..MaxDepth] : Layers(t, lv)

TraceOK(t, g) == t \in Traces /\ Following(t, g) /\ Sound(t) /\ (~t.cut => Complete(t)) /\ Layered(t)

\* The legs of a traversal: one way, or both one after the other.
LEMMA LegsAre ==
  /\ Neighborhood \notin OneWay /\ Neighborhood # <<"incoming">> /\ OneWay \subseteq Legs /\ Neighborhood \in Legs
  /\ <<"incoming">> \in Legs
  /\ Head(Neighborhood) = "outgoing" /\ Tail(Neighborhood) = <<"incoming">> /\ Len(Neighborhood) = 2
  /\ \A l \in OneWay : Len(l) = 1
  /\ Head(<<"incoming">>) # "outgoing"
<1>1. Len(Neighborhood) = 2 /\ Head(Neighborhood) = "outgoing"
  BY DEF Neighborhood
<1>2. Tail(Neighborhood) = <<"incoming">>
  BY DEF Neighborhood
<1>3. \A l \in OneWay : Len(l) = 1
  BY DEF OneWay
<1>4. Len(<<"incoming">>) = 1 /\ Head(<<"incoming">>) = "incoming"
  OBVIOUS
<1>5. OneWay \subseteq Legs /\ Neighborhood \in Legs /\ <<"incoming">> \in Legs
  BY DEF OneWay, Legs, Neighborhood
<1>6. Neighborhood \notin OneWay /\ Neighborhood # <<"incoming">>
  BY <1>1, <1>3, <1>4
<1> QED BY <1>1, <1>2, <1>3, <1>4, <1>5, <1>6

\* Where a traversal reaches depends on the edges only by those of its types; fewer reach less.
LEMMA AimGrows ==
  ASSUME NEW t \in Traces, t.of \in AllNodes, NEW es \in SUBSET Edges, NEW fs \in SUBSET Edges, es \subseteq fs, NEW k \in Nat
  PROVE  /\ Aim(t, es, k) \subseteq Aim(t, fs, k) /\ t.of \in Aim(t, es, k)
         /\ \A types : \A out \in BOOLEAN : Reach(t.of, OfTypes(es, types), out, k) \subseteq Reach(t.of, OfTypes(fs, types), out, k)
<1>1. ASSUME NEW types, NEW out \in BOOLEAN
      PROVE  Reach(t.of, OfTypes(es, types), out, k) \subseteq Reach(t.of, OfTypes(fs, types), out, k)
             /\ t.of \in Reach(t.of, OfTypes(es, types), out, k)
  <2>1. OfTypes(es, types) \in SUBSET Edges /\ OfTypes(fs, types) \in SUBSET Edges /\ OfTypes(es, types) \subseteq OfTypes(fs, types)
    BY DEF OfTypes
  <2>2. Reach(t.of, OfTypes(es, types), out, k) \subseteq Reach(t.of, OfTypes(fs, types), out, k)
    BY <2>1, ReachMore
  <2>3. t.of \in Reach(t.of, OfTypes(es, types), out, k)
    BY <2>1, ReachStep
  <2> QED BY <2>2, <2>3
<1>2. Outward(t) \in BOOLEAN
  BY DEF Outward
<1>3. Aim(t, es, k) \subseteq Aim(t, fs, k) /\ t.of \in Aim(t, es, k)
  <2>1. CASE t.types = {"CALLS"}
    <3>1. Aim(t, es, k) = Reach(t.of, OfTypes(es, t.types), Outward(t), k)
          /\ Aim(t, fs, k) = Reach(t.of, OfTypes(fs, t.types), Outward(t), k)
      BY <2>1 DEF Aim
    <3> QED BY <3>1, <1>1, <1>2
  <2>2. CASE t.types # {"CALLS"}
    <3>1. Aim(t, es, k) = Reach(t.of, OfTypes(es, Semantic), TRUE, k) \cup Reach(t.of, OfTypes(es, Semantic), FALSE, k)
          /\ Aim(t, fs, k) = Reach(t.of, OfTypes(fs, Semantic), TRUE, k) \cup Reach(t.of, OfTypes(fs, Semantic), FALSE, k)
      BY <2>2 DEF Aim
    <3>2. TRUE \in BOOLEAN /\ FALSE \in BOOLEAN
      OBVIOUS
    <3> QED BY <3>1, <3>2, <1>1
  <2> QED BY <2>1, <2>2
<1> QED BY <1>1, <1>3

\* The types of a traversal are among those that are asked for.
LEMMA AimIsWide ==
  ASSUME NEW t \in Traces, t.of \in AllNodes, NEW es \in SUBSET Edges, NEW k \in Nat
  PROVE  Reach(t.of, OfTypes(es, t.types), Outward(t), k) \subseteq Aim(t, es, k)
<1>1. CASE t.types = {"CALLS"}
  BY <1>1 DEF Aim
<1>2. CASE t.types # {"CALLS"}
  <2>1. OfTypes(es, t.types) \in SUBSET Edges /\ OfTypes(es, Semantic) \in SUBSET Edges
        /\ OfTypes(es, t.types) \subseteq OfTypes(es, Semantic)
    BY DEF OfTypes, Traces
  <2>2. Outward(t) \in BOOLEAN
    BY DEF Outward
  <2>3. Reach(t.of, OfTypes(es, t.types), Outward(t), k) \subseteq Reach(t.of, OfTypes(es, Semantic), Outward(t), k)
    BY <2>1, <2>2, ReachMore
  <2>4. Aim(t, es, k) = Reach(t.of, OfTypes(es, Semantic), TRUE, k) \cup Reach(t.of, OfTypes(es, Semantic), FALSE, k)
    BY <1>2 DEF Aim
  <2>5. CASE Outward(t)
    <3>1. Outward(t) = TRUE
      BY <2>2, <2>5
    <3> QED BY <2>3, <2>4, <3>1
  <2>6. CASE ~Outward(t)
    <3>1. Outward(t) = FALSE
      BY <2>2, <2>6
    <3> QED BY <2>3, <2>4, <3>1
  <2> QED BY <2>5, <2>6
<1> QED BY <1>1, <1>2

\* Before the first traversal there is none.
LEMMA TraceStarts ==
  ASSUME NEW t, NEW g,
         t = [at |-> "idle", of |-> "none", legs |-> <<>>, types |-> {}, depth |-> 0, seen |-> {},
              frontier |-> {}, found |-> {}, edges |-> {}, cut |-> FALSE, gone |-> FALSE, steady |-> {}, ever |-> {}]
  PROVE  TraceOK(t, g)
<1>1. t \in Traces
  BY CodeGraphAssumption DEF Traces, Legs
<1>2. t.at = "idle" /\ t.found = {} /\ t.edges = {}
  OBVIOUS
<1> QED BY <1>1, <1>2 DEF TraceOK, Following, Sound, Complete, Layered, Going

\* A change of the store leaves fewer edges there throughout, and more that ever were.
LEMMA TraceSees ==
  ASSUME NEW t, NEW g, TraceOK(t, g), NEW h, h.edges \subseteq Edges, NEW u,
         u = IF t.at = "idle" THEN t ELSE [t EXCEPT !.steady = @ \cap h.edges, !.ever = @ \cup h.edges]
  PROVE  TraceOK(u, h)
<1>1. CASE t.at = "idle"
  <2>1. u = t
    BY <1>1
  <2>2. Following(t, h)
    BY <1>1 DEF TraceOK, Following, Going
  <2> QED BY <2>1, <2>2 DEF TraceOK
<1>2. CASE t.at # "idle"
  <2>1. t \in Traces /\ t.of \in AllNodes
    BY <1>2 DEF TraceOK, Following
  <2>2. /\ u.at = t.at /\ u.of = t.of /\ u.legs = t.legs /\ u.types = t.types /\ u.depth = t.depth /\ u.seen = t.seen
        /\ u.frontier = t.frontier /\ u.found = t.found /\ u.edges = t.edges /\ u.cut = t.cut /\ u.gone = t.gone
        /\ u.steady = t.steady \cap h.edges /\ u.ever = t.ever \cup h.edges
    BY <1>2, <2>1 DEF Traces
  <2>3. u \in Traces
    <3>1. u = [t EXCEPT !.steady = @ \cap h.edges, !.ever = @ \cup h.edges]
      BY <1>2
    <3>2. t.steady \subseteq Edges /\ t.ever \subseteq Edges
      BY <2>1 DEF Traces
    <3> QED BY <2>1, <3>1, <3>2 DEF Traces
  <2>4. Following(u, h)
    BY <2>2 DEF TraceOK, Following
  <2>5. Outward(u) = Outward(t) /\ Outward(t) \in BOOLEAN
    BY <2>2 DEF Outward
  <2>6. /\ \A es, k : Aim(u, es, k) = Aim(t, es, k)
        /\ t.steady \in SUBSET Edges /\ u.steady \in SUBSET Edges /\ u.steady \subseteq t.steady
        /\ t.ever \in SUBSET Edges /\ u.ever \in SUBSET Edges /\ t.ever \subseteq u.ever
    BY <2>1, <2>2, <2>3, <2>5 DEF Aim, Traces
  <2>7. MaxDepth \in Nat /\ Cardinality(AllNodes) \in Nat /\ t.depth \in Nat
    BY <2>1, CodeGraphAssumption, NodesAreFinite DEF Traces
  <2>8. Sound(u)
    <3>1. t.at \in Going => t.found \subseteq Aim(t, t.ever, MaxDepth)
      BY DEF TraceOK, Sound
    <3>2. Aim(t, t.ever, MaxDepth) \subseteq Aim(t, u.ever, MaxDepth)
      BY <2>1, <2>6, <2>7, AimGrows
    <3>3. Reach(t.of, OfTypes(t.ever, t.types), Outward(t), t.depth) \subseteq Reach(t.of, OfTypes(u.ever, t.types), Outward(t), t.depth)
      BY <2>1, <2>5, <2>6, <2>7, AimGrows
    <3>4. t.at = "level" => /\ t.depth < MaxDepth /\ t.seen \subseteq t.found /\ t.frontier \subseteq t.seen \cup {t.of}
                            /\ t.seen \cup t.frontier \subseteq Reach(t.of, OfTypes(t.ever, t.types), Outward(t), t.depth)
      BY DEF TraceOK, Sound
    <3>5. u.at \in Going => u.found \subseteq Aim(u, u.ever, MaxDepth)
      BY <2>2, <2>6, <3>1, <3>2
    <3>6. u.at = "level" => u.seen \cup u.frontier \subseteq Reach(u.of, OfTypes(u.ever, u.types), Outward(u), u.depth)
      BY <2>2, <2>5, <3>3, <3>4
    <3> QED BY <2>2, <3>4, <3>5, <3>6 DEF Sound
  <2>9. ~u.cut => Complete(u)
    <3> SUFFICES ASSUME ~t.cut PROVE Complete(u)
      BY <2>2
    <3>1. Complete(t)
      BY DEF TraceOK
    <3>2. OfTypes(u.steady, t.types) \subseteq OfTypes(t.steady, t.types)
      BY <2>6 DEF OfTypes
    <3>3. Behind(t) => Behind(u)
      BY <2>2, <2>5, <3>2 DEF Behind
    <3>4. AllAlong(t, TRUE) => AllAlong(u, TRUE)
      <4>1. Reach(t.of, OfTypes(u.steady, Semantic), TRUE, Cardinality(AllNodes))
            \subseteq Reach(t.of, OfTypes(t.steady, Semantic), TRUE, Cardinality(AllNodes))
        BY <2>1, <2>6, <2>7, AimGrows
      <4> QED BY <2>2, <4>1 DEF AllAlong
    <3>5. Aim(u, u.steady, Cardinality(AllNodes)) \subseteq Aim(t, t.steady, Cardinality(AllNodes))
      BY <2>1, <2>6, <2>7, AimGrows
    <3> QED BY <2>2, <3>1, <3>3, <3>4, <3>5 DEF Complete
  <2>10. Layered(u)
    <3> SUFFICES ASSUME t.at \in {"level", "done"}, t.types = {"CALLS"}, ~t.gone
                 PROVE  \E lv \in [u.found -> 0..MaxDepth] : Layers(u, lv)
      BY <2>2 DEF Layered
    <3>1. PICK lv \in [t.found -> 0..MaxDepth] : Layers(t, lv)
      BY DEF TraceOK, Layered
    <3>2. Layers(u, lv)
      BY <2>2, <2>5, <3>1 DEF Layers
    <3> QED BY <2>2, <3>1, <3>2
  <2> QED BY <2>3, <2>4, <2>8, <2>9, <2>10 DEF TraceOK
<1> QED BY <1>1, <1>2

\* find_symbol_by_name: a traversal starts at a symbol.
LEMMA TraceFinds ==
  ASSUME NEW t, NEW g, TraceOK(t, g), t.at = "idle", g.edges \subseteq Edges, NEW s \in AllNodes,
         NEW legs \in OneWay \cup {Neighborhood}, NEW u,
         u = [t EXCEPT !.at = IF legs = Neighborhood THEN "types" ELSE "start", !.of = s, !.legs = legs,
                       !.types = {"CALLS"}, !.steady = g.edges, !.ever = g.edges]
  PROVE  TraceOK(u, g)
<1>1. t \in Traces /\ t.found = {} /\ t.edges = {}
  BY DEF TraceOK, Following
<1>2. legs \in Legs
  BY LegsAre
<1>3. {"CALLS"} \subseteq Semantic
  BY DEF Semantic
<1>4. u \in Traces
  BY <1>1, <1>2, <1>3 DEF Traces
<1>5. /\ u.at = IF legs = Neighborhood THEN "types" ELSE "start"
      /\ u.of = s /\ u.legs = legs /\ u.types = {"CALLS"} /\ u.found = {} /\ u.edges = {}
      /\ u.steady = g.edges /\ u.ever = g.edges
  BY <1>1 DEF Traces
<1>6. Following(u, g)
  BY <1>5, LegsAre DEF Following, Going
<1>7. Sound(u) /\ Complete(u) /\ Layered(u)
  BY <1>5 DEF Sound, Complete, Layered, Going
<1> QED BY <1>4, <1>6, <1>7 DEF TraceOK

\* The types of edges there are hold those of every edge that stays.
LEMMA TraceAsksTypes ==
  ASSUME NEW t, NEW g, TraceOK(t, g), t.at = "types",
         NEW types \in {{e[2] : e \in g.edges} \cap Semantic, Semantic}, NEW u,
         u = [t EXCEPT !.at = "start", !.types = types \cup {"CONTAINS"}]
  PROVE  TraceOK(u, g)
<1>1. t \in Traces /\ t.found = {} /\ t.edges = {} /\ t.legs = Neighborhood /\ t.of \in AllNodes
      /\ t.steady \subseteq g.edges /\ g.edges \subseteq t.ever
  BY DEF TraceOK, Following
<1>2. types \cup {"CONTAINS"} \subseteq Semantic /\ types \cup {"CONTAINS"} # {"CALLS"}
  BY DEF Semantic
<1>3. u \in Traces
  BY <1>1, <1>2 DEF Traces
<1>4. /\ u.at = "start" /\ u.of = t.of /\ u.legs = Neighborhood /\ u.types = types \cup {"CONTAINS"}
      /\ u.found = {} /\ u.edges = {} /\ u.steady = t.steady /\ u.ever = t.ever
  BY <1>1 DEF Traces
<1>5. \A e \in g.edges : e[2] \in Semantic => e[2] \in types
  OBVIOUS
<1>6. Following(u, g)
  BY <1>1, <1>2, <1>4, <1>5, LegsAre DEF Following, Going
<1>7. Sound(u) /\ Complete(u) /\ Layered(u)
  BY <1>2, <1>4 DEF Sound, Complete, Layered
<1> QED BY <1>3, <1>6, <1>7 DEF TraceOK

\* The start is read: a leg begins.
LEMMA TraceReadsStart ==
  ASSUME NEW t, NEW g, TraceOK(t, g), t.at = "start", NEW here, here = g.nodes \cap {t.of}, NEW u,
         u = [t EXCEPT !.at = "level", !.depth = 0, !.seen = here, !.found = @ \cup here,
                       !.frontier = {t.of}, !.gone = here = {}]
  PROVE  TraceOK(u, g)
<1>1. t \in Traces /\ t.of \in AllNodes /\ here \subseteq {t.of} /\ 0 \in 0..MaxDepth /\ 0 < MaxDepth /\ MaxDepth \in Nat
  BY CodeGraphAssumption DEF TraceOK, Following
<1>2. u \in Traces
  <2>1. here \subseteq AllNodes /\ {t.of} \subseteq AllNodes /\ (here = {}) \in BOOLEAN
    BY <1>1
  <2> QED BY <1>1, <2>1 DEF Traces
<1>3. /\ u.at = "level" /\ u.of = t.of /\ u.legs = t.legs /\ u.types = t.types /\ u.depth = 0 /\ u.seen = here
      /\ u.frontier = {t.of} /\ u.found = t.found \cup here /\ u.edges = t.edges /\ u.cut = t.cut /\ u.gone = (here = {})
      /\ u.steady = t.steady /\ u.ever = t.ever
  BY <1>1 DEF Traces
<1>4. Outward(u) = Outward(t) /\ Outward(t) \in BOOLEAN /\ \A es, k : Aim(u, es, k) = Aim(t, es, k)
  BY <1>3 DEF Outward, Aim
<1>5. Following(u, g)
  BY <1>3 DEF TraceOK, Following, Going
<1>6. Sound(u)
  <2>1. t.found \subseteq Aim(t, t.ever, MaxDepth)
    BY DEF TraceOK, Sound, Going
  <2>2. t.ever \in SUBSET Edges
    BY <1>1 DEF Traces
  <2>3. t.of \in Aim(t, t.ever, MaxDepth)
    BY <1>1, <2>2, AimGrows
  <2>4. t.of \in Reach(t.of, OfTypes(t.ever, t.types), Outward(t), 0)
    <3>1. OfTypes(t.ever, t.types) \in SUBSET Edges
      BY <2>2 DEF OfTypes
    <3> QED BY <1>1, <1>4, <3>1, ReachStep
  <2>5. u.found \subseteq Aim(u, u.ever, MaxDepth)
    <3>1. t.found \cup here \subseteq Aim(t, t.ever, MaxDepth)
      BY <1>1, <2>1, <2>3
    <3>2. Aim(u, t.ever, MaxDepth) = Aim(t, t.ever, MaxDepth)
      BY <1>4, Zenon
    <3> QED BY <1>3, <3>1, <3>2
  <2>6. u.seen \cup u.frontier \subseteq Reach(u.of, OfTypes(u.ever, u.types), Outward(u), u.depth)
    BY <1>1, <1>3, <1>4, <2>4
  <2> QED BY <1>1, <1>3, <2>5, <2>6 DEF Sound
<1>7. ~u.cut => Complete(u)
  <2> SUFFICES ASSUME ~t.cut PROVE Complete(u)
    BY <1>3
  <2>1. Complete(t)
    BY DEF TraceOK
  <2>2. Behind(u)
    <3>1. (u.seen \cup {u.of}) \ u.frontier = {}
      BY <1>1, <1>3
    <3> QED BY <3>1 DEF Behind
  <2>3. AllAlong(t, TRUE) => AllAlong(u, TRUE)
    BY <1>3 DEF AllAlong
  <2> QED BY <1>3, <2>1, <2>2, <2>3 DEF Complete, Going
<1>8. Layered(u)
  <2> SUFFICES ASSUME t.types = {"CALLS"}, here # {}
               PROVE  \E lv \in [u.found -> 0..MaxDepth] : Layers(u, lv)
    BY <1>3 DEF Layered
  <2>1. t.found = {} /\ t.edges = {} /\ here = {t.of}
    BY <1>1 DEF TraceOK, Following
  <2> DEFINE lv == [n \in {t.of} |-> 0]
  <2>2. lv \in [u.found -> 0..MaxDepth]
    BY <1>1, <1>3, <2>1
  <2>3. Layers(u, lv)
    BY <1>3, <2>1 DEF Layers
  <2> QED BY <2>2, <2>3
<1> QED BY <1>2, <1>5, <1>6, <1>7, <1>8 DEF TraceOK

\* A query that returns fewer than its limit returns all.
LEMMA TakesAllBelow ==
  ASSUME NEW ns, IsFiniteSet(ns), NEW batch \in SUBSET ns, Cardinality(batch) = Min({Cardinality(ns), RecordLimit}),
         ~(Cardinality(batch) >= RecordLimit)
  PROVE  batch = ns
<1> DEFINE n == Cardinality(ns)
           x == CHOOSE x \in {n, RecordLimit} : \A y \in {n, RecordLimit} : x =< y
<1>1. n \in Nat /\ RecordLimit \in Nat
  BY FS_CardinalityType, CodeGraphAssumption
<1>2. Cardinality(batch) = x
  BY DEF Min
<1> HIDE DEF n
<1>3. \E y \in {n, RecordLimit} : \A z \in {n, RecordLimit} : y =< z
  BY <1>1, n <= RecordLimit \/ RecordLimit <= n
<1>4. x \in {n, RecordLimit}
  BY <1>3
<1> HIDE DEF x
<1>5. x = n
  BY <1>1, <1>2, <1>4
<1>6. Cardinality(batch) = Cardinality(ns)
  BY <1>2, <1>5 DEF n
<1> QED BY <1>6, FS_Subset

\* What a level of a traversal t of a graph g asks for, what it gets, and what becomes of it.
Asks(t, g)  == {e \in g.edges : /\ e[2] \in t.types
                                /\ Along(e, Outward(t))[1] \in t.frontier /\ Along(e, Outward(t))[2] \notin t.seen}
Gets(t, es) == {Along(e, Outward(t))[2] : e \in es} \ t.seen
LevelEnds(t, es) == Gets(t, es) = {} \/ t.depth + 1 = MaxDepth
Short(t, es) == Cardinality(es) >= RecordLimit \/ (Gets(t, es) # {} /\ t.depth + 1 = MaxDepth)
Leveled(t, es, u) ==
  u = [t EXCEPT !.at = IF ~LevelEnds(t, es) THEN "level" ELSE IF Len(t.legs) > 1 THEN "start" ELSE "done",
                !.legs = IF LevelEnds(t, es) /\ Len(t.legs) > 1 THEN Tail(t.legs) ELSE t.legs,
                !.depth = t.depth + 1, !.seen = t.seen \cup Gets(t, es), !.frontier = Gets(t, es),
                !.found = t.found \cup Gets(t, es), !.edges = t.edges \cup es, !.cut = t.cut \/ Short(t, es)]

Leveling(t, g, es) ==
  /\ TraceOK(t, g) /\ t.at = "level" /\ g.edges \subseteq Edges
  /\ es \in SUBSET Asks(t, g) /\ Cardinality(es) = Min({Cardinality(Asks(t, g)), RecordLimit})

\* What holds when a level is read.
LEMMA LevelFacts ==
  ASSUME NEW t, NEW g, NEW es, Leveling(t, g, es)
  PROVE  /\ t \in Traces /\ t.of \in AllNodes /\ t.depth \in Nat /\ t.depth < MaxDepth /\ MaxDepth \in Nat
         /\ t.steady \subseteq g.edges /\ g.edges \subseteq t.ever /\ t.ever \subseteq Edges /\ Outward(t) \in BOOLEAN
         /\ t.seen \subseteq t.found /\ t.frontier \subseteq t.seen \cup {t.of}
         /\ es \subseteq Edges /\ Gets(t, es) \subseteq AllNodes
         /\ ~Short(t, es) => es = Asks(t, g)
         /\ ~Short(t, es) /\ LevelEnds(t, es) => Gets(t, es) = {}
         /\ t.types = {"CALLS"} => t.legs \in OneWay
         /\ t.types # {"CALLS"} => t.legs \in {Neighborhood, <<"incoming">>}
                                   /\ \A e \in t.steady : e[2] \in Semantic => e[2] \in t.types
<1>1. t \in Traces /\ Following(t, g) /\ Sound(t) /\ t.at = "level" /\ t.at \in Going /\ g.edges \subseteq Edges
  BY DEF Leveling, TraceOK, Going
<1>2. t.of \in AllNodes /\ t.depth \in Nat /\ t.depth < MaxDepth /\ MaxDepth \in Nat /\ t.ever \subseteq Edges
  BY <1>1, CodeGraphAssumption DEF Following, Sound, Traces
<1>3. es \subseteq Asks(t, g) /\ Asks(t, g) \subseteq Edges
  BY <1>1 DEF Leveling, Asks
<1>4. Gets(t, es) \subseteq AllNodes
  BY <1>3, EdgesAre DEF Gets
<1>5. IsFiniteSet(Asks(t, g))
  BY <1>3, NodesAreFinite, FS_Subset
<1>6. ~(Cardinality(es) >= RecordLimit) => es = Asks(t, g)
  BY <1>5, TakesAllBelow DEF Leveling
<1>7. ~Short(t, es) => es = Asks(t, g)
  BY <1>6 DEF Short
<1>8. ~Short(t, es) /\ LevelEnds(t, es) => Gets(t, es) = {}
  BY DEF Short, LevelEnds
<1>9. Outward(t) \in BOOLEAN
  BY DEF Outward
<1>10. t.seen \subseteq t.found /\ t.frontier \subseteq t.seen \cup {t.of}
  BY <1>1 DEF Sound
<1>11. /\ t.steady \subseteq g.edges /\ g.edges \subseteq t.ever
       /\ t.types = {"CALLS"} => t.legs \in OneWay
       /\ t.types # {"CALLS"} => t.legs \in {Neighborhood, <<"incoming">>}
                                 /\ \A e \in t.steady : e[2] \in Semantic => e[2] \in t.types
  BY <1>1 DEF Following
<1> QED BY <1>1, <1>2, <1>3, <1>4, <1>7, <1>8, <1>9, <1>10, <1>11

\* What a level leaves.
LEMMA LevelFields ==
  ASSUME NEW t \in Traces, NEW es, NEW u, Leveled(t, es, u)
  PROVE  /\ u.at = IF ~LevelEnds(t, es) THEN "level" ELSE IF Len(t.legs) > 1 THEN "start" ELSE "done"
         /\ u.legs = IF LevelEnds(t, es) /\ Len(t.legs) > 1 THEN Tail(t.legs) ELSE t.legs
         /\ u.depth = t.depth + 1 /\ u.seen = t.seen \cup Gets(t, es) /\ u.frontier = Gets(t, es)
         /\ u.found = t.found \cup Gets(t, es) /\ u.edges = t.edges \cup es /\ u.cut = (t.cut \/ Short(t, es))
         /\ u.of = t.of /\ u.types = t.types /\ u.gone = t.gone /\ u.steady = t.steady /\ u.ever = t.ever
BY DEF Leveled, Traces

\* A level takes the traversal one step further.
LEMMA LevelGoesOn ==
  ASSUME NEW t, NEW g, NEW es, Leveling(t, g, es)
  PROVE  /\ t.seen \cup Gets(t, es) \subseteq Reach(t.of, OfTypes(t.ever, t.types), Outward(t), t.depth + 1)
         /\ t.found \cup Gets(t, es) \subseteq Aim(t, t.ever, MaxDepth)
<1> DEFINE fs == OfTypes(t.ever, t.types)
           R(k) == Reach(t.of, fs, Outward(t), k)
<1>1. /\ t \in Traces /\ t.of \in AllNodes /\ t.depth \in Nat /\ t.depth < MaxDepth /\ MaxDepth \in Nat
      /\ g.edges \subseteq t.ever /\ t.ever \subseteq Edges /\ Outward(t) \in BOOLEAN
  BY LevelFacts
<1>2. t.found \subseteq Aim(t, t.ever, MaxDepth) /\ t.seen \cup t.frontier \subseteq R(t.depth)
  BY DEF Leveling, TraceOK, Sound, Going
<1>3. fs \in SUBSET Edges
  BY <1>1 DEF OfTypes
<1> HIDE DEF fs
<1>4. R(t.depth) \subseteq R(t.depth + 1)
      /\ \A e \in fs : Along(e, Outward(t))[1] \in R(t.depth) => Along(e, Outward(t))[2] \in R(t.depth + 1)
  BY <1>1, <1>3, ReachStep
<1>5. t.depth + 1 \in 0..MaxDepth
  BY <1>1
<1>6. R(t.depth + 1) \subseteq R(MaxDepth)
  BY <1>1, <1>3, <1>5, ReachFurther
<1>7. R(MaxDepth) \subseteq Aim(t, t.ever, MaxDepth)
  BY <1>1, AimIsWide DEF fs
<1> HIDE DEF R
<1>8. ASSUME NEW n \in Gets(t, es) PROVE n \in R(t.depth + 1)
  <2>1. PICK e \in es : Along(e, Outward(t))[2] = n
    BY DEF Gets
  <2>2. e \in g.edges /\ e[2] \in t.types /\ Along(e, Outward(t))[1] \in t.frontier
    BY DEF Leveling, Asks
  <2>3. e \in fs
    BY <1>1, <2>2 DEF fs, OfTypes
  <2>4. Along(e, Outward(t))[1] \in R(t.depth)
    BY <2>2, <1>2
  <2> QED BY <2>1, <2>3, <2>4, <1>4
<1>9. t.seen \cup Gets(t, es) \subseteq R(t.depth + 1)
  BY <1>2, <1>4, <1>8
<1>10. t.found \cup Gets(t, es) \subseteq Aim(t, t.ever, MaxDepth)
  BY <1>2, <1>6, <1>7, <1>8
<1> QED BY <1>9, <1>10 DEF R, fs

\* If it leaves nothing out, the edges that stayed lead from behind to what it saw.
LEMMA LevelLeavesNone ==
  ASSUME NEW t, NEW g, NEW es, Leveling(t, g, es), ~t.cut, ~Short(t, es)
  PROVE  /\ \A e \in OfTypes(t.steady, t.types) :
              Along(e, Outward(t))[1] \in (t.seen \cup Gets(t, es) \cup {t.of}) \ Gets(t, es) =>
                Along(e, Outward(t))[2] \in t.seen \cup Gets(t, es) \cup {t.of}
         /\ LevelEnds(t, es) => Reach(t.of, OfTypes(t.steady, t.types), Outward(t), Cardinality(AllNodes)) \subseteq t.found \cup {t.of}
<1>1. /\ t.of \in AllNodes /\ t.steady \subseteq g.edges /\ g.edges \subseteq Edges /\ t.seen \subseteq t.found
      /\ Outward(t) \in BOOLEAN /\ es = Asks(t, g)
      /\ LevelEnds(t, es) => Gets(t, es) = {}
  BY LevelFacts DEF Leveling
<1>2. Behind(t)
  BY DEF Leveling, TraceOK, Complete
<1>3. ASSUME NEW e \in OfTypes(t.steady, t.types),
             Along(e, Outward(t))[1] \in (t.seen \cup Gets(t, es) \cup {t.of}) \ Gets(t, es)
      PROVE  Along(e, Outward(t))[2] \in t.seen \cup Gets(t, es) \cup {t.of}
  <2>1. CASE Along(e, Outward(t))[1] \notin t.frontier
    BY <1>2, <1>3, <2>1 DEF Behind
  <2>2. CASE Along(e, Outward(t))[1] \in t.frontier
    <3>1. e \in g.edges /\ e[2] \in t.types
      BY <1>1 DEF OfTypes
    <3>2. Along(e, Outward(t))[2] \notin t.seen => e \in es
      BY <1>1, <2>2, <3>1 DEF Asks
    <3> QED BY <3>2 DEF Gets
  <2> QED BY <2>1, <2>2
<1>4. ASSUME LevelEnds(t, es)
      PROVE  Reach(t.of, OfTypes(t.steady, t.types), Outward(t), Cardinality(AllNodes)) \subseteq t.found \cup {t.of}
  <2> DEFINE S == t.seen \cup {t.of}
             fs == OfTypes(t.steady, t.types)
  <2>1. Gets(t, es) = {}
    BY <1>1, <1>4 DEF LevelEnds
  <2>2. \A e \in fs : Along(e, Outward(t))[1] \in S => Along(e, Outward(t))[2] \in S
    BY <1>3, <2>1
  <2>3. fs \in SUBSET Edges
    BY <1>1 DEF OfTypes
  <2>4. t.of \in S /\ S \subseteq t.found \cup {t.of} /\ Cardinality(AllNodes) \in Nat
    BY <1>1, NodesAreFinite
  <2> HIDE DEF S, fs
  <2>5. Reach(t.of, fs, Outward(t), Cardinality(AllNodes)) \subseteq S
    BY <1>1, <2>2, <2>3, <2>4, ReachInside
  <2> QED BY <2>4, <2>5 DEF fs
<1> QED BY <1>3, <1>4

\* What a level reaches makes a level of its own.
LEMMA LevelLayers ==
  ASSUME NEW t, NEW g, NEW es, Leveling(t, g, es), NEW u, Leveled(t, es, u),
         t.types = {"CALLS"}, ~t.gone, u.legs = t.legs
  PROVE  \E lv \in [u.found -> 0..MaxDepth] : Layers(u, lv)
<1>1. t \in Traces /\ t.depth \in Nat /\ t.depth < MaxDepth /\ MaxDepth \in Nat
  BY LevelFacts
<1> DEFINE new == Gets(t, es)
           from(e) == Along(e, Outward(t))[1]
           to(e) == Along(e, Outward(t))[2]
<1>2. /\ u.depth = t.depth + 1 /\ u.seen = t.seen \cup new /\ u.frontier = new
      /\ u.found = t.found \cup new /\ u.edges = t.edges \cup es /\ u.of = t.of /\ Outward(u) = Outward(t)
  BY <1>1, LevelFields DEF Outward
<1>3. PICK lv \in [t.found -> 0..MaxDepth] : Layers(t, lv)
  BY DEF Leveling, TraceOK, Layered
<1>4. /\ t.of \in t.found /\ lv[t.of] = 0
      /\ \A n \in t.found : lv[n] <= t.depth /\ (n = t.of \/ \E e \in t.edges : to(e) = n)
      /\ \A e \in t.edges : from(e) \in t.found /\ to(e) \in t.found /\ lv[to(e)] = lv[from(e)] + 1
      /\ t.seen = t.found /\ \A n \in t.frontier : n \in t.found /\ lv[n] = t.depth
  BY <1>3 DEF Layers, Leveling
<1>5. new \cap t.found = {} /\ \A n \in new : \E e \in es : to(e) = n
  BY <1>4 DEF Gets
<1>6. \A e \in es : from(e) \in t.frontier /\ to(e) \in new
  BY DEF Leveling, Asks, Gets
<1> HIDE DEF from, to, new
<1> DEFINE lw == [n \in t.found \cup new |-> IF n \in new THEN t.depth + 1 ELSE lv[n]]
<1>7. lw \in [t.found \cup new -> 0..MaxDepth]
  BY <1>1, <1>3
<1>8. (\A n \in t.found : lw[n] = lv[n]) /\ (\A n \in new : lw[n] = t.depth + 1)
  BY <1>5
<1> HIDE DEF lw
<1>9. ASSUME NEW n \in t.found \cup new
      PROVE  lw[n] <= t.depth + 1 /\ (n = t.of \/ \E e \in t.edges \cup es : to(e) = n)
  <2>1. CASE n \in new
    BY <2>1, <1>1, <1>5, <1>8
  <2>2. CASE n \in t.found
    <3>1. lv[n] \in 0..MaxDepth /\ lv[n] <= t.depth /\ lw[n] = lv[n]
      BY <2>2, <1>3, <1>4, <1>8
    <3> QED BY <2>2, <3>1, <1>1, <1>4
  <2> QED BY <2>1, <2>2
<1>10. ASSUME NEW e \in t.edges \cup es
       PROVE  from(e) \in t.found \cup new /\ to(e) \in t.found \cup new /\ lw[to(e)] = lw[from(e)] + 1
  <2>1. CASE e \in es
    <3>1. from(e) \in t.found /\ lv[from(e)] = t.depth /\ to(e) \in new
      BY <2>1, <1>4, <1>6
    <3> QED BY <3>1, <1>8
  <2>2. CASE e \in t.edges
    BY <2>2, <1>4, <1>8
  <2> QED BY <2>1, <2>2
<1>11. t.of \in t.found \cup new /\ lw[t.of] = 0
  BY <1>4, <1>8
<1>12. Layers(u, lw)
  <2>1. u.of \in u.found /\ lw[u.of] = 0
    BY <1>2, <1>11
  <2>2. \A n \in u.found : lw[n] <= u.depth /\ (n = u.of \/ \E e \in u.edges : Along(e, Outward(u))[2] = n)
    BY <1>2, <1>9 DEF to
  <2>3. \A e \in u.edges : /\ Along(e, Outward(u))[1] \in u.found /\ Along(e, Outward(u))[2] \in u.found
                          /\ lw[Along(e, Outward(u))[2]] = lw[Along(e, Outward(u))[1]] + 1
    BY <1>2, <1>10 DEF to, from
  <2>4. u.seen = u.found /\ \A n \in u.frontier : n \in u.found /\ lw[n] = u.depth
    BY <1>2, <1>4, <1>8
  <2> QED BY <2>1, <2>2, <2>3, <2>4 DEF Layers
<1> QED BY <1>2, <1>7, <1>12

\* A level keeps what is said of a traversal, whether it goes on, turns to its second leg or is done.
LEMMA TraceLevels ==
  ASSUME NEW t, NEW g, NEW es, Leveling(t, g, es), NEW u, Leveled(t, es, u)
  PROVE  TraceOK(u, g)
<1> DEFINE new == Gets(t, es)
           K == Cardinality(AllNodes)
<1>1. /\ t \in Traces /\ t.of \in AllNodes /\ t.depth \in Nat /\ t.depth < MaxDepth /\ MaxDepth \in Nat
      /\ t.steady \subseteq g.edges /\ g.edges \subseteq t.ever /\ t.ever \subseteq Edges /\ Outward(t) \in BOOLEAN
      /\ t.seen \subseteq t.found /\ es \subseteq Edges /\ new \subseteq AllNodes
  BY LevelFacts
<1>2. /\ t.types = {"CALLS"} => t.legs \in OneWay
      /\ t.types # {"CALLS"} => t.legs \in {Neighborhood, <<"incoming">>}
                                /\ \A e \in t.steady : e[2] \in Semantic => e[2] \in t.types
  BY LevelFacts
<1>3. /\ u.at = IF ~LevelEnds(t, es) THEN "level" ELSE IF Len(t.legs) > 1 THEN "start" ELSE "done"
      /\ u.legs = IF LevelEnds(t, es) /\ Len(t.legs) > 1 THEN Tail(t.legs) ELSE t.legs
      /\ u.depth = t.depth + 1 /\ u.seen = t.seen \cup new /\ u.frontier = new
      /\ u.found = t.found \cup new /\ u.edges = t.edges \cup es /\ u.cut = (t.cut \/ Short(t, es))
      /\ u.of = t.of /\ u.types = t.types /\ u.gone = t.gone /\ u.steady = t.steady /\ u.ever = t.ever
  BY <1>1, LevelFields
<1>4. \/ ~LevelEnds(t, es) /\ u.at = "level" /\ u.legs = t.legs
      \/ /\ LevelEnds(t, es) /\ u.at = "start" /\ t.legs = Neighborhood /\ u.legs = <<"incoming">>
         /\ t.types # {"CALLS"} /\ Outward(t) = TRUE
      \/ /\ LevelEnds(t, es) /\ u.at = "done" /\ u.legs = t.legs /\ t.legs # Neighborhood
         /\ t.types # {"CALLS"} => Outward(t) = FALSE
  <2>1. \/ t.legs = Neighborhood /\ Len(t.legs) = 2 /\ Tail(t.legs) = <<"incoming">> /\ t.types # {"CALLS"}
           /\ Outward(t) = TRUE
        \/ t.legs # Neighborhood /\ Len(t.legs) = 1 /\ (t.types # {"CALLS"} => Outward(t) = FALSE)
    <3>1. CASE t.types = {"CALLS"}
      BY <3>1, <1>2, LegsAre
    <3>2. CASE t.legs = Neighborhood
      BY <3>2, <1>2, LegsAre DEF Outward
    <3>3. CASE t.types # {"CALLS"} /\ t.legs = <<"incoming">>
      <4>1. <<"incoming">> \in OneWay
        BY DEF OneWay
      <4> QED BY <3>3, <4>1, LegsAre DEF Outward
    <3> QED BY <3>1, <3>2, <3>3, <1>2
  <2>2. CASE ~LevelEnds(t, es)
    BY <2>2, <1>3
  <2>3. CASE LevelEnds(t, es) /\ Len(t.legs) = 2 /\ t.legs = Neighborhood
    <3>1. Len(t.legs) > 1
      BY <2>3
    <3>2. u.at = "start" /\ u.legs = <<"incoming">>
      BY <2>1, <2>3, <3>1, <1>3
    <3> QED BY <2>1, <2>3, <3>2
  <2>4. CASE LevelEnds(t, es) /\ Len(t.legs) = 1 /\ t.legs # Neighborhood
    <3>1. ~(Len(t.legs) > 1)
      BY <2>4
    <3>2. u.at = "done" /\ u.legs = t.legs
      BY <2>4, <3>1, <1>3
    <3> QED BY <2>1, <2>4, <3>2
  <2> QED BY <2>1, <2>2, <2>3, <2>4
<1> HIDE DEF new
<1>6. u \in Traces
  <2>1. t.depth + 1 \in 0..MaxDepth
    BY <1>1
  <2>2. u.at \in {"idle", "types", "start", "level", "done"} /\ u.legs \in Legs
    <3>1. t.legs \in Legs
      BY <1>1 DEF Traces
    <3> QED BY <1>4, <3>1, LegsAre
  <2>3. u = [t EXCEPT !.at = u.at, !.legs = u.legs, !.depth = t.depth + 1, !.seen = t.seen \cup new, !.frontier = new,
                      !.found = t.found \cup new, !.edges = t.edges \cup es, !.cut = (t.cut \/ Short(t, es))]
    BY <1>3 DEF Leveled, new
  <2>4. t.seen \cup new \subseteq AllNodes /\ t.found \cup new \subseteq AllNodes /\ t.edges \cup es \subseteq Edges
        /\ (t.cut \/ Short(t, es)) \in BOOLEAN
    BY <1>1 DEF Traces
  <2> HIDE DEF Leveled
  <2> DEFINE to == u.at
             rest == u.legs
             cut == (t.cut \/ Short(t, es))
  <2> HIDE DEF to, rest, cut
  <2>5. u = [t EXCEPT !.at = to, !.legs = rest, !.depth = t.depth + 1, !.seen = t.seen \cup new, !.frontier = new,
                      !.found = t.found \cup new, !.edges = t.edges \cup es, !.cut = cut]
    BY <2>3 DEF to, rest, cut
  <2>6. to \in {"idle", "types", "start", "level", "done"} /\ rest \in Legs /\ cut \in BOOLEAN
    BY <2>2, <2>4 DEF to, rest, cut
  <2> QED BY <1>1, <2>1, <2>4, <2>5, <2>6 DEF Traces
<1>7. Following(u, g)
  <2>1. u.of \in AllNodes /\ u.steady \subseteq g.edges /\ g.edges \subseteq u.ever
    BY <1>1, <1>3
  <2>2. u.types = {"CALLS"} => u.legs \in OneWay
    BY <1>2, <1>3, <1>4
  <2>3. u.types # {"CALLS"} => u.legs \in {Neighborhood, <<"incoming">>}
                              /\ \A e \in u.steady : e[2] \in Semantic => e[2] \in u.types
    BY <1>2, <1>3, <1>4
  <2>4. u.at = "start" => u.types # {"CALLS"} /\ u.legs # Neighborhood
    BY <1>3, <1>4, LegsAre
  <2>5. u.at = "done" => u.legs # Neighborhood
    BY <1>4
  <2>6. u.at \notin {"idle", "types"}
    BY <1>4
  <2> QED BY <2>1, <2>2, <2>3, <2>4, <2>5, <2>6 DEF Following
<1>8. \A xs, k : Aim(u, xs, k) = Aim(t, xs, k)
  <2>1. u.of = t.of /\ u.types = t.types /\ (t.types = {"CALLS"} => u.legs = t.legs)
    BY <1>3, <1>4
  <2>2. CASE t.types = {"CALLS"}
    <3>1. Outward(u) = Outward(t)
      BY <2>1, <2>2 DEF Outward
    <3> QED BY <2>1, <3>1 DEF Aim
  <2>3. CASE t.types # {"CALLS"}
    BY <2>1, <2>3 DEF Aim
  <2> QED BY <2>2, <2>3
<1>9. Sound(u)
  <2>1. /\ t.seen \cup new \subseteq Reach(t.of, OfTypes(t.ever, t.types), Outward(t), t.depth + 1)
        /\ t.found \cup new \subseteq Aim(t, t.ever, MaxDepth)
    BY LevelGoesOn DEF new
  <2>2. Aim(u, t.ever, MaxDepth) = Aim(t, t.ever, MaxDepth)
    BY <1>8, Zenon
  <2>3. u.found \subseteq Aim(u, u.ever, MaxDepth)
    BY <1>3, <2>1, <2>2
  <2>4. ASSUME u.at = "level"
        PROVE  /\ u.depth < MaxDepth /\ u.seen \subseteq u.found /\ u.frontier \subseteq u.seen \cup {u.of}
               /\ u.seen \cup u.frontier \subseteq Reach(u.of, OfTypes(u.ever, u.types), Outward(u), u.depth)
    <3>1. Outward(u) = Outward(t) /\ t.depth + 1 # MaxDepth
      BY <1>4, <2>4 DEF Outward, LevelEnds
    <3>2. u.depth < MaxDepth
      BY <1>1, <1>3, <3>1
    <3>3. u.seen \cup u.frontier = t.seen \cup new
      BY <1>3
    <3>4. Reach(u.of, OfTypes(u.ever, u.types), Outward(u), u.depth) = Reach(t.of, OfTypes(t.ever, t.types), Outward(t), t.depth + 1)
      BY <1>3, <3>1
    <3> QED BY <1>1, <1>3, <2>1, <3>2, <3>3, <3>4
  <2> QED BY <2>3, <2>4 DEF Sound
<1>10. ASSUME ~u.cut PROVE Complete(u)
  <2>1. ~t.cut /\ ~Short(t, es)
    BY <1>3, <1>10
  <2>2. Complete(t)
    BY <2>1 DEF Leveling, TraceOK
  <2>3. \A e \in OfTypes(t.steady, t.types) :
          Along(e, Outward(t))[1] \in (t.seen \cup new \cup {t.of}) \ new =>
            Along(e, Outward(t))[2] \in t.seen \cup new \cup {t.of}
    BY <2>1, LevelLeavesNone DEF new
  <2>4. LevelEnds(t, es) => Reach(t.of, OfTypes(t.steady, t.types), Outward(t), K) \subseteq t.found \cup {t.of}
    BY <2>1, LevelLeavesNone
  <2>5. u.at = "level" => Behind(u)
    <3> SUFFICES ASSUME u.at = "level" PROVE Behind(u)
      OBVIOUS
    <3>1. Outward(u) = Outward(t)
      BY <1>4 DEF Outward
    <3> QED BY <1>3, <2>3, <3>1 DEF Behind
  <2>6. AllAlong(t, TRUE) => AllAlong(u, TRUE)
    BY <1>3 DEF AllAlong
  <2>7. t.types # {"CALLS"} => Reach(t.of, OfTypes(t.steady, Semantic), Outward(t), K)
                                 \subseteq Reach(t.of, OfTypes(t.steady, t.types), Outward(t), K)
    <3> SUFFICES ASSUME t.types # {"CALLS"}
                 PROVE  Reach(t.of, OfTypes(t.steady, Semantic), Outward(t), K)
                          \subseteq Reach(t.of, OfTypes(t.steady, t.types), Outward(t), K)
      OBVIOUS
    <3>1. OfTypes(t.steady, Semantic) \subseteq OfTypes(t.steady, t.types) /\ OfTypes(t.steady, Semantic) \in SUBSET Edges
          /\ OfTypes(t.steady, t.types) \in SUBSET Edges /\ K \in Nat
      BY <1>1, <1>2, NodesAreFinite DEF OfTypes, Leveling
    <3> HIDE DEF K
    <3> QED BY <1>1, <3>1, ReachMore
  <2>8. u.at \in Going /\ u.types # {"CALLS"} /\ u.legs # Neighborhood => AllAlong(u, TRUE)
    <3> SUFFICES ASSUME u.types # {"CALLS"}, u.legs # Neighborhood PROVE AllAlong(u, TRUE)
      OBVIOUS
    <3>1. CASE t.legs # Neighborhood
      <4>1. AllAlong(t, TRUE)
        <5>1. t.at = "level" /\ t.at \in Going
          BY DEF Leveling, Going
        <5> QED BY <1>3, <2>2, <3>1, <5>1 DEF Complete
      <4> QED BY <2>6, <4>1
    <3>2. CASE t.legs = Neighborhood
      <4>1. LevelEnds(t, es) /\ Outward(t) = TRUE /\ t.types # {"CALLS"}
        BY <1>3, <1>4, <3>2
      <4>2. Reach(t.of, OfTypes(t.steady, Semantic), TRUE, K) \subseteq t.found \cup {t.of}
        BY <2>4, <2>7, <4>1
      <4> QED BY <1>3, <4>2 DEF AllAlong
    <3> QED BY <3>1, <3>2
  <2>9. ASSUME u.at = "done" PROVE Aim(u, u.steady, K) \subseteq u.found \cup {u.of}
    <3>1. LevelEnds(t, es) /\ (t.types # {"CALLS"} => Outward(t) = FALSE) /\ u.legs = t.legs /\ t.legs # Neighborhood
      BY <1>4, <2>9
    <3>2. Reach(t.of, OfTypes(t.steady, t.types), Outward(t), K) \subseteq t.found \cup {t.of}
      BY <2>4, <3>1
    <3>3. Aim(t, t.steady, K) \subseteq t.found \cup new \cup {t.of}
      <4>1. CASE t.types = {"CALLS"}
        BY <3>2, <4>1 DEF Aim
      <4>2. CASE t.types # {"CALLS"}
        <5>1. Reach(t.of, OfTypes(t.steady, Semantic), FALSE, K) \subseteq t.found \cup {t.of}
          BY <2>7, <3>1, <3>2, <4>2
        <5>2. Reach(t.of, OfTypes(t.steady, Semantic), TRUE, K) \subseteq u.found \cup {u.of}
          BY <1>3, <2>8, <2>9, <3>1, <4>2 DEF AllAlong, Going
        <5> QED BY <1>3, <4>2, <5>1, <5>2 DEF Aim
      <4> QED BY <4>1, <4>2
    <3>4. Aim(u, t.steady, K) = Aim(t, t.steady, K)
      BY <1>8, Zenon
    <3> QED BY <1>3, <3>3, <3>4
  <2> QED BY <2>5, <2>8, <2>9 DEF Complete
<1>11. Layered(u)
  <2> SUFFICES ASSUME u.types = {"CALLS"}, ~u.gone PROVE \E lv \in [u.found -> 0..MaxDepth] : Layers(u, lv)
    BY DEF Layered
  <2>1. t.types = {"CALLS"} /\ ~t.gone /\ u.legs = t.legs
    BY <1>3, <1>4
  <2> QED BY <2>1, LevelLayers
<1> QED BY <1>6, <1>7, <1>9, <1>10, <1>11 DEF TraceOK

\* The walks one node longer, along the edges found.
Longer(ws) == UNION {{Append(w, n) : n \in After(Last(w)) \ ToSet(w)} : w \in ws}

\* What lies behind the edges that were found.
LEMMA AfterIs ==
  ASSUME trace \in Traces, NEW n
  PROVE  /\ After(n) \subseteq AllNodes
         /\ \A e \in trace.edges : Along(e, Outward(trace))[1] = n => Along(e, Outward(trace))[2] \in After(n)
         /\ \A m \in After(n) : \E e \in trace.edges : Along(e, Outward(trace))[1] = n /\ Along(e, Outward(trace))[2] = m
<1>1. \A e : Ends(e) = Along(e, Outward(trace))
  BY DEF Ends, Along, Outward
<1>2. After(n) = {Along(e, Outward(trace))[2] : e \in {d \in trace.edges : Along(d, Outward(trace))[1] = n}}
  BY <1>1 DEF After
<1>3. \A e \in trace.edges : Along(e, Outward(trace))[2] \in AllNodes
  BY EdgesAre DEF Traces
<1> QED BY <1>2, <1>3

\* The walks are reached by making them longer, step by step.
LEMMA WalksAre ==
  ASSUME trace \in Traces, trace.of \in AllNodes
  PROVE  Walks[0] = {<<trace.of>>} /\ \A k \in 1..Cardinality(AllNodes) : Walks[k] = Longer(Walks[k - 1])
<1> DEFINE K == Cardinality(AllNodes)
           U == SUBSET Seq(AllNodes)
           G == [p \in (1..K) \X U |-> Longer(p[2])]
           D == [i \in 0..K |-> U]
<1>1. K \in Nat
  BY NodesAreFinite
<1> HIDE DEF K
<1>2. ASSUME NEW ws \in U PROVE Longer(ws) \in U
  <2>1. ASSUME NEW w \in ws, NEW n \in After(Last(w)) \ ToSet(w) PROVE Append(w, n) \in Seq(AllNodes)
    <3>1. w \in Seq(AllNodes) /\ n \in AllNodes
      BY AfterIs
    <3> QED BY <3>1
  <2> QED BY <2>1 DEF Longer
<1>3. \A i \in 1..K : \A d \in U : G[<<i, d>>] = Longer(d)
  OBVIOUS
<1>4. 0 \in 0..K /\ \A i \in 1..K : i - 1 \in 0..K /\ i \in 0..K
  BY <1>1
<1>5. {<<trace.of>>} \in U
  OBVIOUS
<1> HIDE DEF G, U
<1>6. Leads(K, {<<trace.of>>}, G, D)
  <2>1. {<<trace.of>>} \in D[0]
    BY <1>4, <1>5
  <2>2. ASSUME NEW i \in 1..K, NEW d \in D[i - 1] PROVE G[<<i, d>>] \in D[i]
    BY <1>2, <1>3, <1>4
  <2> QED BY <2>1, <2>2 DEF Leads
<1>7. \A i \in 0..K : D[i] \subseteq U
  OBVIOUS
<1> HIDE DEF D
<1>8. PICK f \in [0..K -> U] : Follows(f, K, {<<trace.of>>}, G)
  BY <1>1, <1>6, <1>7, Iterated
<1>9. \A k \in 1..K : f[k] = Longer(f[k - 1])
  <2> SUFFICES ASSUME NEW k \in 1..K PROVE f[k] = Longer(f[k - 1])
    OBVIOUS
  <2>1. f[k - 1] \in U
    BY <1>4, <1>8
  <2>2. f[k] = G[<<k, f[k - 1]>>]
    BY <1>8 DEF Follows
  <2> QED BY <2>1, <2>2, <1>3
<1> DEFINE P(g) == g = [k \in 0..K |-> IF k = 0 THEN {<<trace.of>>}
                        ELSE UNION {{Append(w, n) : n \in After(Last(w)) \ ToSet(w)} : w \in g[k - 1]}]
<1>10. P(f)
  <2>1. ASSUME NEW k \in 0..K
        PROVE  f[k] = IF k = 0 THEN {<<trace.of>>}
                      ELSE UNION {{Append(w, n) : n \in After(Last(w)) \ ToSet(w)} : w \in f[k - 1]}
    <3>1. CASE k = 0
      BY <3>1, <1>8 DEF Follows
    <3>2. CASE k # 0
      <4>1. k \in 1..K
        BY <1>1, <3>2
      <4>2. f[k] = Longer(f[k - 1])
        BY <1>9, <4>1
      <4>3. f[k] = UNION {{Append(w, n) : n \in After(Last(w)) \ ToSet(w)} : w \in f[k - 1]}
        BY <4>2, Zenon DEF Longer
      <4> QED BY <3>2, <4>3
    <3> QED BY <3>1, <3>2
  <2> QED BY <2>1
<1>11. P(Walks)
  <2>1. Walks = CHOOSE g : P(g)
    BY Zenon DEF Walks, K
  <2> HIDE DEF P
  <2> QED BY <1>10, <2>1
<1>12. Walks[0] = {<<trace.of>>}
  BY <1>4, <1>11
<1>13. ASSUME NEW k \in 1..K PROVE Walks[k] = Longer(Walks[k - 1])
  <2>1. k \in 0..K /\ k # 0
    BY <1>1
  <2>2. Walks[k] = UNION {{Append(w, n) : n \in After(Last(w)) \ ToSet(w)} : w \in Walks[k - 1]}
    BY <1>11, <2>1
  <2> QED BY <2>2 DEF Longer
<1> QED BY <1>12, <1>13 DEF K

\* A chain from the start, one level further at each place.
Path(w, lv) == w \in Seq(trace.found) /\ Len(w) > 0 /\ \A i \in 1..Len(w) : lv[w[i]] = i - 1

\* No node is on it twice.
LEMMA PathIsShort ==
  ASSUME trace \in Traces, NEW lv \in [trace.found -> 0..MaxDepth], NEW w, Path(w, lv)
  PROVE  /\ Len(w) \in Nat /\ Len(w) <= Cardinality(trace.found)
         /\ Cardinality(trace.found) \in Nat /\ Cardinality(trace.found) <= Cardinality(AllNodes)
         /\ Last(w) \in trace.found /\ lv[Last(w)] = Len(w) - 1
         /\ \A n \in ToSet(w) : n \in trace.found /\ lv[n] < Len(w) /\ lv[n] \in Nat
<1>1. w \in Seq(trace.found) /\ Len(w) \in Nat /\ Len(w) > 0 /\ DOMAIN w = 1..Len(w)
      /\ \A i \in 1..Len(w) : w[i] \in trace.found /\ lv[w[i]] = i - 1
  BY DEF Path
<1>2. IsFiniteSet(trace.found) /\ Cardinality(trace.found) \in Nat /\ Cardinality(trace.found) <= Cardinality(AllNodes)
  <2>1. trace.found \in SUBSET AllNodes
    BY DEF Traces
  <2> QED BY <2>1, NodesAreFinite, FS_Subset, FS_CardinalityType
<1>3. w \in Injection(1..Len(w), trace.found)
  <2>1. w \in [1..Len(w) -> trace.found]
    BY <1>1
  <2>2. ASSUME NEW i \in 1..Len(w), NEW j \in 1..Len(w), w[i] = w[j] PROVE i = j
    <3>1. i - 1 = j - 1
      BY <1>1, <2>2
    <3> QED BY <3>1
  <2> QED BY <2>1, <2>2 DEF Injection, IsInjective
<1>4. Cardinality(1..Len(w)) = Len(w)
  <2>1. Cardinality(1..Len(w)) = IF 1 > Len(w) THEN 0 ELSE Len(w) - 1 + 1
    BY <1>1, FS_Interval
  <2> QED BY <1>1, <2>1
<1>5. Len(w) <= Cardinality(trace.found)
  BY <1>2, <1>3, <1>4, FS_Injection
<1>6. Last(w) \in trace.found /\ lv[Last(w)] = Len(w) - 1
  <2>1. Len(w) \in 1..Len(w)
    BY <1>1
  <2>2. w[Len(w)] \in trace.found /\ lv[w[Len(w)]] = Len(w) - 1
    BY <1>1, <2>1
  <2> QED BY <2>2 DEF Last
<1>7. ASSUME NEW n \in ToSet(w) PROVE n \in trace.found /\ lv[n] < Len(w) /\ lv[n] \in Nat
  <2>1. PICK i \in 1..Len(w) : w[i] = n
    BY <1>1 DEF ToSet
  <2>2. lv[n] = i - 1 /\ n \in trace.found
    BY <1>1, <2>1
  <2> QED BY <1>1, <2>2
<1> QED BY <1>1, <1>2, <1>5, <1>6, <1>7

\* A chain goes on along an edge that leaves its end.
LEMMA PathGoesOn ==
  ASSUME trace \in Traces, trace.of \in AllNodes, NEW lv \in [trace.found -> 0..MaxDepth], Layers(trace, lv),
         NEW w, Path(w, lv), w \in Walks[Len(w) - 1], NEW n \in After(Last(w))
  PROVE  LET x == Append(w, n) IN Path(x, lv) /\ x \in Walks[Len(x) - 1] /\ Len(x) = Len(w) + 1 /\ Last(x) = n
                                  /\ ToSet(w) \subseteq ToSet(x) /\ n \in ToSet(x)
<1> DEFINE x == Append(w, n)
           m == Len(w)
<1>1. m \in Nat /\ m > 0 /\ w \in Seq(trace.found) /\ DOMAIN w = 1..m /\ \A i \in 1..m : lv[w[i]] = i - 1 /\ w[i] \in trace.found
  BY DEF Path
<1>2. PICK e \in trace.edges : Along(e, Outward(trace))[1] = Last(w) /\ Along(e, Outward(trace))[2] = n
  BY AfterIs
<1>3. n \in trace.found /\ lv[n] = lv[Last(w)] + 1
  BY <1>2 DEF Layers
<1>4. lv[Last(w)] = m - 1 /\ \A k \in ToSet(w) : lv[k] < m /\ lv[k] \in Nat
  BY PathIsShort
<1>5. lv[n] = m /\ n \notin ToSet(w)
  <2>1. lv[n] = m
    BY <1>1, <1>3, <1>4
  <2> QED BY <1>1, <1>4, <2>1
<1>6. x \in Seq(trace.found) /\ Len(x) = m + 1 /\ x[m + 1] = n /\ \A i \in 1..m : x[i] = w[i]
  BY <1>1, <1>3
<1> HIDE DEF x
<1>7. Path(x, lv)
  <2>1. ASSUME NEW i \in 1..(m + 1) PROVE lv[x[i]] = i - 1
    <3>1. CASE i = m + 1
      BY <3>1, <1>1, <1>5, <1>6
    <3>2. CASE i # m + 1
      <4>1. i \in 1..m
        BY <3>2, <1>1
      <4> QED BY <4>1, <1>1, <1>6
    <3> QED BY <3>1, <3>2
  <2> QED BY <1>1, <1>6, <2>1 DEF Path
<1>8. Len(x) <= Cardinality(trace.found) /\ Cardinality(trace.found) <= Cardinality(AllNodes)
      /\ Cardinality(trace.found) \in Nat
  BY <1>7, PathIsShort
<1>9. m \in 1..Cardinality(AllNodes)
  BY <1>1, <1>6, <1>8, NodesAreFinite
<1>10. x \in Walks[m]
  <2>1. Walks[m] = Longer(Walks[m - 1])
    BY <1>9, WalksAre
  <2>2. x \in Longer(Walks[m - 1])
    BY <1>5 DEF Longer, x
  <2> QED BY <2>1, <2>2
<1>11. Len(x) - 1 = m
  BY <1>1, <1>6
<1>12. Last(x) = n
  BY <1>6 DEF Last
<1>13. DOMAIN x = 1..(m + 1)
  BY <1>6
<1>14. ToSet(w) \subseteq ToSet(x) /\ n \in ToSet(x)
  <2>1. ASSUME NEW k \in ToSet(w) PROVE k \in ToSet(x)
    <3>1. PICK i \in 1..m : w[i] = k
      BY <1>1 DEF ToSet
    <3>2. i \in 1..(m + 1) /\ x[i] = k
      BY <1>1, <1>6, <3>1
    <3> QED BY <1>13, <3>2 DEF ToSet
  <2>2. m + 1 \in 1..(m + 1)
    BY <1>1
  <2>3. n \in ToSet(x)
    BY <1>6, <1>13, <2>2 DEF ToSet
  <2> QED BY <2>1, <2>3
<1> QED BY <1>6, <1>7, <1>10, <1>11, <1>12, <1>14 DEF x

\* Every node found has a chain that ends at it.
LEMMA PathLeadsTo ==
  ASSUME trace \in Traces, trace.of \in AllNodes, NEW lv \in [trace.found -> 0..MaxDepth], Layers(trace, lv),
         NEW n \in trace.found
  PROVE  \E w : Path(w, lv) /\ w \in Walks[Len(w) - 1] /\ Last(w) = n
<1> DEFINE Has(m)  == \E w : Path(w, lv) /\ w \in Walks[Len(w) - 1] /\ Last(w) = m
           Lacks   == {m \in trace.found : ~Has(m)}
           Heights == {lv[m] : m \in Lacks}
<1>1. SUFFICES ASSUME Lacks # {} PROVE FALSE
  OBVIOUS
<1>2. PICK h \in Heights : \A k \in Heights : h <= k
  <2>1. Heights \subseteq Nat /\ Heights # {}
    <3> HIDE DEF Has
    <3> QED BY <1>1
  <2> HIDE DEF Heights
  <2> QED BY <2>1, Smallest
<1>3. PICK m \in Lacks : lv[m] = h
  BY <1>2
<1>4. m # trace.of
  <2>1. SUFFICES ASSUME m = trace.of PROVE Has(m)
    BY <1>3
  <2> DEFINE w == <<trace.of>>
  <2>2. Len(w) = 1 /\ w[1] = trace.of /\ Len(w) - 1 = 0
    OBVIOUS
  <2>3. trace.of \in trace.found /\ lv[trace.of] = 0
    BY DEF Layers
  <2>4. w \in Seq(trace.found)
    <3>1. \A S : \A x \in S : <<x>> \in Seq(S)
      OBVIOUS
    <3> QED BY <2>3, <3>1
  <2>5. w \in Walks[0]
    BY WalksAre
  <2> HIDE DEF w
  <2>6. \A i \in 1..1 : i = 1
    OBVIOUS
  <2>7. Path(w, lv)
    BY <2>2, <2>3, <2>4, <2>6 DEF Path
  <2>8. Last(w) = m
    BY <2>1, <2>2 DEF Last
  <2> QED BY <2>2, <2>5, <2>7, <2>8
<1>5. PICK e \in trace.edges : Along(e, Outward(trace))[2] = m
  BY <1>3, <1>4 DEF Layers
<1> DEFINE from == Along(e, Outward(trace))[1]
<1>6. from \in trace.found /\ lv[m] = lv[from] + 1
  BY <1>5 DEF Layers
<1>7. lv[from] \in Nat /\ lv[from] < h
  BY <1>3, <1>6
<1>8. Has(from)
  <2> HIDE DEF Has, from
  <2>1. SUFFICES ASSUME from \in Lacks PROVE FALSE
    BY <1>6
  <2>2. lv[from] \in Heights
    BY <2>1
  <2>3. h \in Nat /\ h <= lv[from]
    BY <1>2, <1>3, <2>2
  <2> QED BY <1>7, <2>3
<1>9. PICK w : Path(w, lv) /\ w \in Walks[Len(w) - 1] /\ Last(w) = from
  BY <1>8
<1>10. m \in After(Last(w))
  BY <1>5, <1>9, AfterIs
<1>11. Has(m)
  BY <1>9, <1>10, PathGoesOn
<1> QED BY <1>3, <1>11

\* Every node found is on a chain that is shown: the longest of those it is on.
LEMMA ChainsShow ==
  ASSUME trace \in Traces, trace.of \in AllNodes, NEW lv \in [trace.found -> 0..MaxDepth], Layers(trace, lv),
         NEW n \in trace.found
  PROVE  \E w \in Chains : n \in ToSet(w)
<1> DEFINE K     == Cardinality(trace.found)
           On(w) == Path(w, lv) /\ w \in Walks[Len(w) - 1] /\ n \in ToSet(w)
           Rest  == {k \in Nat : \E w : On(w) /\ k = K - Len(w)}
<1>1. PICK v : Path(v, lv) /\ v \in Walks[Len(v) - 1] /\ Last(v) = n
  BY PathLeadsTo
<1>2. On(v)
  <2>1. Len(v) \in DOMAIN v
    BY <1>1 DEF Path
  <2>2. n \in ToSet(v)
    BY <1>1, <2>1 DEF Last, ToSet
  <2> QED BY <1>1, <2>2
<1>3. \A w : On(w) => Len(w) \in Nat /\ Len(w) > 0 /\ Len(w) <= K /\ K \in Nat /\ K - Len(w) \in Nat
  <2> SUFFICES ASSUME NEW w, On(w)
               PROVE  Len(w) \in Nat /\ Len(w) > 0 /\ Len(w) <= K /\ K \in Nat /\ K - Len(w) \in Nat
    OBVIOUS
  <2>1. Len(w) \in Nat /\ Len(w) <= K /\ K \in Nat
    BY PathIsShort
  <2>2. Len(w) > 0
    BY DEF Path
  <2> HIDE DEF K
  <2> QED BY <2>1, <2>2
<1> HIDE DEF On, K
<1>4. Rest \subseteq Nat /\ Rest # {}
  <2>1. K - Len(v) \in Rest
    BY <1>2, <1>3
  <2> QED BY <2>1
<1>5. PICK k \in Rest : \A j \in Rest : k <= j
  <2> HIDE DEF Rest
  <2> QED BY <1>4, Smallest
<1>6. PICK w : On(w) /\ k = K - Len(w)
  BY <1>5
<1>7. After(Last(w)) = {}
  <2>1. SUFFICES ASSUME NEW m \in After(Last(w)) PROVE FALSE
    OBVIOUS
  <2> DEFINE x == Append(w, m)
  <2>2. On(x) /\ Len(x) = Len(w) + 1
    <3>1. Path(w, lv) /\ w \in Walks[Len(w) - 1] /\ n \in ToSet(w)
      BY <1>6 DEF On
    <3>2. Path(x, lv) /\ x \in Walks[Len(x) - 1] /\ Len(x) = Len(w) + 1 /\ ToSet(w) \subseteq ToSet(x)
      BY <3>1, <2>1, PathGoesOn
    <3> QED BY <3>1, <3>2 DEF On
  <2> HIDE DEF x
  <2>3. K - Len(x) \in Rest
    BY <2>2, <1>3
  <2>4. k <= K - Len(x)
    BY <2>3, <1>5
  <2> QED BY <2>2, <2>4, <1>3, <1>6
<1>8. w \in Chains
  <2>1. Len(w) - 1 \in 0..K
    BY <1>3, <1>6
  <2>2. w \in Walks[Len(w) - 1]
    BY <1>6 DEF On
  <2> DEFINE j == Len(w) - 1
  <2> HIDE DEF j
  <2>3. j \in 0..Cardinality(trace.found) /\ w \in Walks[j]
    BY <2>1, <2>2 DEF j, K
  <2> QED BY <1>7, <2>3 DEF Chains
<1> QED BY <1>6, <1>8 DEF On

\* The invariant of the graph, what changes it, and what goes along it.
GraphInv == StoreInv /\ TraceOK(trace, graph)

\* What is said of a traversal implies what is checked of it.
LEMMA TraceImplies ==
  ASSUME TraceOK(trace, graph)
  PROVE  TraversalBetween /\ FoundOnChains
<1>1. \A es, k : Sought(es, k) = Aim(trace, es, k)
  <2>1. ASSUME NEW es, NEW k PROVE Sought(es, k) = Aim(trace, es, k)
    <3>1. OfTypes(es, {"CALLS"}) = {e \in es : e[2] = "CALLS"} /\ OfTypes(es, Semantic) = {e \in es : e[2] \in Semantic}
      BY DEF OfTypes
    <3>2. CASE trace.types = {"CALLS"}
      <4>1. Sought(es, k) = Reach(trace.of, {e \in es : e[2] = "CALLS"}, Head(trace.legs) = "outgoing", k)
        BY <3>2, Zenon DEF Sought
      <4>2. Aim(trace, es, k) = Reach(trace.of, OfTypes(es, {"CALLS"}), Head(trace.legs) = "outgoing", k)
        BY <3>2, Zenon DEF Aim, Outward
      <4> QED BY <3>1, <4>1, <4>2
    <3>3. CASE trace.types # {"CALLS"}
      <4>1. Sought(es, k) = Reach(trace.of, {e \in es : e[2] \in Semantic}, TRUE, k)
                            \cup Reach(trace.of, {e \in es : e[2] \in Semantic}, FALSE, k)
        BY <3>3, Zenon DEF Sought
      <4>2. Aim(trace, es, k) = Reach(trace.of, OfTypes(es, Semantic), TRUE, k) \cup Reach(trace.of, OfTypes(es, Semantic), FALSE, k)
        BY <3>3, Zenon DEF Aim
      <4> QED BY <3>1, <4>1, <4>2
    <3> QED BY <3>2, <3>3
  <2> QED BY <2>1
<1>2. TraversalBetween
  <2> SUFFICES ASSUME trace.at = "done"
               PROVE  /\ trace.found \subseteq Sought(trace.ever, MaxDepth)
                      /\ ~trace.cut => Sought(trace.steady, Cardinality(AllNodes)) \subseteq trace.found \cup {trace.of}
    BY DEF TraversalBetween
  <2>1. trace.found \subseteq Aim(trace, trace.ever, MaxDepth)
    BY DEF TraceOK, Sound, Going
  <2>2. ~trace.cut => Aim(trace, trace.steady, Cardinality(AllNodes)) \subseteq trace.found \cup {trace.of}
    BY DEF TraceOK, Complete
  <2>3. Sought(trace.ever, MaxDepth) = Aim(trace, trace.ever, MaxDepth)
        /\ Sought(trace.steady, Cardinality(AllNodes)) = Aim(trace, trace.steady, Cardinality(AllNodes))
    BY <1>1, Zenon
  <2> QED BY <2>1, <2>2, <2>3
<1>3. FoundOnChains
  <2> SUFFICES ASSUME trace.at = "done", trace.types = {"CALLS"}, ~trace.gone, NEW n \in trace.found
               PROVE  \E w \in Chains : n \in ToSet(w)
    BY DEF FoundOnChains
  <2>1. trace \in Traces /\ trace.of \in AllNodes
    BY DEF TraceOK, Following
  <2>2. PICK lv \in [trace.found -> 0..MaxDepth] : Layers(trace, lv)
    BY DEF TraceOK, Layered
  <2> QED BY <2>1, <2>2, ChainsShow
<1> QED BY <1>2, <1>3

\* The invariant types the graph.
LEMMA GraphTyped ==
  ASSUME GraphInv
  PROVE  CodeGraphTypeOK
<1> USE DEF GraphInv, StoreInv
<1>1. graph.nodes \subseteq AllNodes /\ graph.edges \subseteq graph.nodes \X EdgeTypes \X graph.nodes
  <2>1. graph.nodes \subseteq AllNodes /\ graph.edges \subseteq Edges /\ \A e \in graph.edges : e[1] \in graph.nodes /\ e[3] \in graph.nodes
    BY DEF Joined, Graphs
  <2>2. ASSUME NEW e \in graph.edges PROVE e \in graph.nodes \X EdgeTypes \X graph.nodes
    <3>1. e = <<e[1], e[2], e[3]>> /\ e[2] \in EdgeTypes
      BY <2>1 DEF Edges
    <3> QED BY <2>1, <3>1
  <2> QED BY <2>1, <2>2
<1>2. indexing.runs \in 0..MaxRuns /\ indexing.clean \in BOOLEAN
  BY DEF IndexingIs
<1>3. erasing.count \in 0..MaxErasures /\ {erasing.clean, erasing.whole} \subseteq BOOLEAN
      /\ erasing.kinds \in RestOfRepo \cup RestOfFile
  BY DEF ErasingIs
<1>4. ToSet(erasing.kinds) \subseteq {"Chunk", "Symbol", "File", "Directory", "Repo"}
  <2>1. \A s \in RestOfRepo \cup RestOfFile : ToSet(s) \subseteq {"Chunk", "Symbol", "File", "Directory", "Repo"}
    BY KindsLeft DEF NodeKinds
  <2> QED BY <1>3, <2>1
<1>5. /\ trace.at \in {"idle", "types", "start", "level", "done"} /\ trace.depth \in 0..MaxDepth
      /\ trace.found \subseteq AllNodes /\ trace.frontier \subseteq AllNodes /\ {trace.cut, trace.gone} \subseteq BOOLEAN
  BY DEF TraceOK, Traces
<1> QED BY <1>1, <1>2, <1>3, <1>4, <1>5 DEF CodeGraphTypeOK

\* It holds of any graph in which no edge lacks an end.
LEMMA GraphStart ==
  ASSUME NEW g, Joined(g), StartWith(g)
  PROVE  GraphInv
<1>1. StoreInv
  BY StoreStarts
<1>2. TraceOK(trace, graph)
  BY TraceStarts DEF StartWith
<1> QED BY <1>1, <1>2 DEF GraphInv

\* A change of the store keeps it.
LEMMA GraphStores ==
  ASSUME GraphInv, StoreChanges
  PROVE  GraphInv'
<1>1. StoreInv' /\ (Store(graph') \/ UNCHANGED <<graph, trace>>)
  BY StoreStep DEF GraphInv
<1>2. CASE Store(graph')
  <2>1. trace' = IF trace.at = "idle" THEN trace
                 ELSE [trace EXCEPT !.steady = @ \cap graph'.edges, !.ever = @ \cup graph'.edges]
    BY <1>2 DEF Store
  <2>2. graph'.edges \subseteq Edges
    BY <1>1 DEF StoreInv, Joined, Graphs
  <2>3. TraceOK(trace', graph')
    BY <2>1, <2>2, TraceSees DEF GraphInv
  <2> QED BY <1>1, <2>3 DEF GraphInv
<1>3. CASE UNCHANGED <<graph, trace>>
  BY <1>1, <1>3 DEF GraphInv
<1> QED BY <1>1, <1>2, <1>3

\* A step of a traversal keeps it.
LEMMA GraphTraces ==
  ASSUME GraphInv,
         \/ \E n \in AllNodes, legs \in OneWay \cup {Neighborhood} : FindSymbol(n, legs)
         \/ AvailableTypes \/ ReadStart \/ Level
  PROVE  GraphInv'
<1>1. UNCHANGED <<graph, indexing, erasing>>
  BY DEF FindSymbol, AvailableTypes, ReadStart, Level
<1>2. StoreInv'
  BY <1>1, StoreStays DEF GraphInv
<1>3. graph.edges \subseteq Edges /\ TraceOK(trace, graph)
  BY DEF GraphInv, StoreInv, Joined, Graphs
<1>4. SUFFICES TraceOK(trace', graph)
  BY <1>1, <1>2 DEF GraphInv
<1>5. ASSUME NEW n \in AllNodes, NEW legs \in OneWay \cup {Neighborhood}, FindSymbol(n, legs)
      PROVE  TraceOK(trace', graph)
  BY <1>3, <1>5, TraceFinds DEF FindSymbol
<1>6. CASE AvailableTypes
  <2>1. PICK types \in {{e[2] : e \in graph.edges} \cap Semantic, Semantic} :
          trace' = [trace EXCEPT !.at = "start", !.types = types \cup {"CONTAINS"}]
    BY <1>6 DEF AvailableTypes
  <2>2. trace.at = "types"
    BY <1>6 DEF AvailableTypes
  <2> QED BY <1>3, <2>1, <2>2, TraceAsksTypes
<1>7. CASE ReadStart
  <2> DEFINE here == graph.nodes \cap {trace.of}
  <2>1. trace.at = "start" /\ here = graph.nodes \cap {trace.of}
    BY <1>7 DEF ReadStart
  <2>2. trace' = [trace EXCEPT !.at = "level", !.depth = 0, !.seen = here, !.found = @ \cup here,
                               !.frontier = {trace.of}, !.gone = here = {}]
    BY <1>7 DEF ReadStart
  <2> HIDE DEF here
  <2> QED BY <1>3, <2>1, <2>2, TraceReadsStart
<1>8. CASE Level
  <2>1. \A e : Ends(e) = Along(e, Outward(trace))
    BY DEF Ends, Along, Outward
  <2>2. Records = Asks(trace, graph)
    BY <2>1 DEF Records, Asks
  <2>3. PICK records \in SUBSET Records :
          /\ Cardinality(records) = Min({Cardinality(Records), RecordLimit})
          /\ LET reached == {Ends(e)[2] : e \in records} \ trace.seen
                 over    == reached = {} \/ trace.depth + 1 = MaxDepth
             IN  trace' = [trace EXCEPT
                   !.at = IF ~over THEN "level" ELSE IF Len(trace.legs) > 1 THEN "start" ELSE "done",
                   !.legs = IF over /\ Len(@) > 1 THEN Tail(@) ELSE @,
                   !.depth = @ + 1, !.seen = @ \cup reached, !.frontier = reached,
                   !.found = @ \cup reached, !.edges = @ \cup records,
                   !.cut = @ \/ CutBy(records, reached)]
    BY <1>8 DEF Level
  <2>4. {Ends(e)[2] : e \in records} \ trace.seen = Gets(trace, records)
    BY <2>1 DEF Gets
  <2>5. CutBy(records, Gets(trace, records)) = Short(trace, records)
    BY DEF CutBy, Short
  <2>6. Leveled(trace, records, trace')
    <3> DEFINE reached == {Ends(e)[2] : e \in records} \ trace.seen
    <3>1. reached = Gets(trace, records)
      BY <2>4
    <3> HIDE DEF reached
    <3>2. LevelEnds(trace, records) = (reached = {} \/ trace.depth + 1 = MaxDepth)
      BY <3>1 DEF LevelEnds
    <3>3. trace' = [trace EXCEPT
                   !.at = IF ~(reached = {} \/ trace.depth + 1 = MaxDepth) THEN "level"
                          ELSE IF Len(trace.legs) > 1 THEN "start" ELSE "done",
                   !.legs = IF (reached = {} \/ trace.depth + 1 = MaxDepth) /\ Len(trace.legs) > 1 THEN Tail(trace.legs)
                            ELSE trace.legs,
                   !.depth = trace.depth + 1, !.seen = trace.seen \cup reached, !.frontier = reached,
                   !.found = trace.found \cup reached, !.edges = trace.edges \cup records,
                   !.cut = trace.cut \/ CutBy(records, reached)]
      BY <2>3, Zenon DEF reached
    <3> QED BY <2>5, <3>1, <3>2, <3>3, Zenon DEF Leveled
  <2>7. Leveling(trace, graph, records)
    BY <1>3, <1>8, <2>2, <2>3 DEF Leveling, Level
  <2> QED BY <2>6, <2>7, TraceLevels
<1> QED BY <1>5, <1>6, <1>7, <1>8

\* The empty graph is such a graph.
LEMMA EmptyIsJoined ==
  Joined(NoGraph)
BY DEF Joined, Graphs, NoGraph

\* CodeGraph: what a run of the indexer leaves in the graph, what a deletion takes, and
\* what a traversal reports, however the queries of the three interleave.
THEOREM CodeGraphCorrect == CodeGraphSpec => []CodeGraphInv
<1>1. CodeGraphInit => GraphInv
  BY GraphStart, EmptyIsJoined DEF CodeGraphInit
<1>2. GraphInv /\ [CodeGraphNext]_graphVars => GraphInv'
  <2> SUFFICES ASSUME GraphInv, [CodeGraphNext]_graphVars PROVE GraphInv'
    OBVIOUS
  <2>1. CASE StoreChanges
    BY <2>1, GraphStores
  <2>2. CASE \/ \E n \in AllNodes, legs \in OneWay \cup {Neighborhood} : FindSymbol(n, legs)
             \/ AvailableTypes \/ ReadStart \/ Level
    BY <2>2, GraphTraces
  <2>3. CASE UNCHANGED graphVars
    <3>1. UNCHANGED <<graph, indexing, erasing, trace>>
      BY <2>3 DEF graphVars
    <3>2. StoreInv'
      BY <3>1, StoreStays DEF GraphInv
    <3> QED BY <3>1, <3>2 DEF GraphInv
  <2> QED BY <2>1, <2>2, <2>3 DEF CodeGraphNext
<1>3. GraphInv => CodeGraphInv
  <2> SUFFICES ASSUME GraphInv PROVE CodeGraphInv
    OBVIOUS
  <2>1. CodeGraphTypeOK
    BY GraphTyped
  <2>2. IndexIsWhole /\ ErasureClears
    BY StoreIs DEF GraphInv
  <2>3. TraversalBetween /\ FoundOnChains
    BY TraceImplies DEF GraphInv
  <2> QED BY <2>1, <2>2, <2>3 DEF CodeGraphInv
<1> QED BY <1>1, <1>2, <1>3, PTL DEF CodeGraphSpec

-----------------------------------------------------------------------------
(***************************************************************************)
(* GraphViews: what each kind of view shows of a graph that changes.       *)
(*                                                                         *)
(* While a view is under way, the graph lies between what was there throughout *)
(* and what was there at any time, and what the view holds lies between the *)
(* same two: so each query adds what may be shown, and all that must be.  The *)
(* rest is about limits: a list shorter than its limit was not cut.        *)
(***************************************************************************)

\* The smaller of two numbers.
LEMMA MinIs ==
  ASSUME NEW a \in Int, NEW b \in Int
  PROVE  Min({a, b}) = IF a <= b THEN a ELSE b
<1> DEFINE P(x) == \A y \in {a, b} : x =< y
           x == CHOOSE z \in {a, b} : P(z)
<1>1. \E z \in {a, b} : P(z)
  BY a <= b \/ b <= a
<1>2. x \in {a, b} /\ P(x)
  BY <1>1
<1>3. Min({a, b}) = x
  BY DEF Min
<1> HIDE DEF x
<1> QED BY <1>2, <1>3

\* The larger of two numbers.
LEMMA MaxIs ==
  ASSUME NEW a \in Int, NEW b \in Int
  PROVE  Max({a, b}) = IF a <= b THEN b ELSE a
<1> DEFINE P(x) == \A y \in {a, b} : x >= y
           x == CHOOSE z \in {a, b} : P(z)
<1>1. \E z \in {a, b} : P(z)
  BY a >= b \/ b >= a
<1>2. x \in {a, b} /\ P(x)
  BY <1>1
<1>3. Max({a, b}) = x
  BY DEF Max
<1> HIDE DEF x
<1> QED BY <1>2, <1>3

\* Python's s[:n]: no more than n, and everything if it is fewer than n.
LEMMA SliceHas ==
  ASSUME NEW S, IsFiniteSet(S), NEW n \in Int, NEW T \in AnySlice(S, n)
  PROVE  /\ T \subseteq S /\ IsFiniteSet(T) /\ Cardinality(T) \in Nat /\ Cardinality(S) \in Nat
         /\ n >= 0 => Cardinality(T) <= n
         /\ n >= 0 /\ Cardinality(T) # n => T = S
         /\ n >= 0 /\ Cardinality(S) >= n => Cardinality(T) = n
         /\ n < 0 /\ Cardinality(S) + n >= 0 => Cardinality(T) = Cardinality(S) + n
<1> DEFINE s == Cardinality(S)
           t == Cardinality(T)
<1>1. T \subseteq S /\ t = IF n < 0 THEN Max({0, s + n}) ELSE Min({n, s})
  BY DEF AnySlice
<1>2. IsFiniteSet(T) /\ t \in Nat /\ s \in Nat /\ (s = t => S = T)
  BY <1>1, FS_Subset, FS_CardinalityType
<1> HIDE DEF s, t
<1>3. Max({0, s + n}) = IF 0 <= s + n THEN s + n ELSE 0
  BY <1>2, MaxIs
<1>4. Min({n, s}) = IF n <= s THEN n ELSE s
  BY <1>2, MinIs
<1>5. /\ n >= 0 => t <= n
      /\ n >= 0 /\ t # n => t = s
      /\ n >= 0 /\ s >= n => t = n
      /\ n < 0 /\ s + n >= 0 => t = s + n
  BY <1>1, <1>2, <1>3, <1>4
<1> QED BY <1>1, <1>2, <1>5 DEF s, t

\* The members of two sets together.
LEMMA UnionFits ==
  ASSUME NEW S, NEW T, IsFiniteSet(S), IsFiniteSet(T)
  PROVE  /\ IsFiniteSet(S \cup T) /\ {Cardinality(S), Cardinality(T), Cardinality(S \cup T)} \subseteq Nat
         /\ Cardinality(S \cup T) <= Cardinality(S) + Cardinality(T)
         /\ S \cap T = {} => Cardinality(S \cup T) = Cardinality(S) + Cardinality(T)
<1>1. IsFiniteSet(S \cup T) /\ Cardinality(S \cup T) = Cardinality(S) + Cardinality(T) - Cardinality(S \cap T)
  BY FS_Union
<1>2. IsFiniteSet(S \cap T)
  BY FS_Intersection
<1>3. Cardinality(S) \in Nat /\ Cardinality(T) \in Nat /\ Cardinality(S \cup T) \in Nat /\ Cardinality(S \cap T) \in Nat
  BY <1>1, <1>2, FS_CardinalityType
<1>4. S \cap T = {} => Cardinality(S \cap T) = 0
  BY FS_EmptySet
<1> QED BY <1>1, <1>3, <1>4

\* The nodes that edges join.
LEMMA EndsOf ==
  /\ \A es, fs : NodesOf(es \cup fs) = NodesOf(es) \cup NodesOf(fs)
  /\ \A es : \A fs \in SUBSET es : NodesOf(fs) \subseteq NodesOf(es)
  /\ \A es, nodes : NodesOf(es) \subseteq nodes <=> \A e \in es : e[1] \in nodes /\ e[3] \in nodes
  /\ \A es, nodes : Among(es, nodes) \subseteq es /\ NodesOf(Among(es, nodes)) \subseteq nodes
<1>1. \A es, fs : NodesOf(es \cup fs) = NodesOf(es) \cup NodesOf(fs)
  BY DEF NodesOf
<1>2. \A es : \A fs \in SUBSET es : NodesOf(fs) \subseteq NodesOf(es)
  BY DEF NodesOf
<1>3. \A es, nodes : NodesOf(es) \subseteq nodes <=> \A e \in es : e[1] \in nodes /\ e[3] \in nodes
  BY DEF NodesOf
<1>4. \A es, nodes : Among(es, nodes) \subseteq es /\ NodesOf(Among(es, nodes)) \subseteq nodes
  BY DEF NodesOf, Among
<1> QED BY <1>1, <1>2, <1>3, <1>4

\* What a view may show, of any graph.
Shapes == AllNodes \cup Folders
Lines  == Shapes \X EdgeTypes \X Shapes

FileNodes(nodes) == {n \in nodes : KindOf(n) = "File"}

\* The folders in the paths of files: finitely many, and none is a node of the graph's kinds.
LEMMA FoldersAre ==
  /\ IsFiniteSet(Folders) /\ IsFiniteSet(Shapes) /\ IsFiniteSet(Lines) /\ Edges \subseteq Lines
  /\ \A n \in Folders : KindOf(n) \notin {"Repo", "File", "Symbol"}
  /\ \A n \in AllNodes : KindOf(n) = "File" => n \in DOMAIN FolderOf
  /\ \A nodes \in SUBSET AllNodes : FoldersOf(FileNodes(nodes)) \subseteq Folders
  /\ \A fs, gs : fs \subseteq gs => FoldersOf(fs) \subseteq FoldersOf(gs)
<1>1. Folders = UNION {FoldersTo[f] : f \in DOMAIN FolderOf}
  BY DEF Folders, FoldersOf
<1>2. Folders \subseteq DOMAIN FolderOf
  BY <1>1, ViewsAssumption
<1>3. IsFiniteSet(Folders)
  BY <1>2, ViewsAssumption, FS_Subset
<1>4. IsFiniteSet(Shapes)
  BY <1>3, NodesAreFinite, FS_Union DEF Shapes
<1>5. IsFiniteSet(EdgeTypes)
  <2>1. IsFiniteSet({"CONTAINS"}) /\ IsFiniteSet({"CALLS"}) /\ IsFiniteSet({"IMPORTS"})
        /\ IsFiniteSet({"NEXT_CHUNK"}) /\ IsFiniteSet({"REPRESENTED_BY"})
    BY FS_Singleton
  <2>2. EdgeTypes = {"CONTAINS"} \cup {"CALLS"} \cup {"IMPORTS"} \cup {"NEXT_CHUNK"} \cup {"REPRESENTED_BY"}
    BY DEF EdgeTypes
  <2>3. IsFiniteSet({"CONTAINS"} \cup {"CALLS"})
    BY <2>1, FS_Union
  <2>4. IsFiniteSet({"CONTAINS"} \cup {"CALLS"} \cup {"IMPORTS"})
    BY <2>1, <2>3, FS_Union
  <2>5. IsFiniteSet({"CONTAINS"} \cup {"CALLS"} \cup {"IMPORTS"} \cup {"NEXT_CHUNK"})
    BY <2>1, <2>4, FS_Union
  <2> QED BY <2>1, <2>2, <2>5, FS_Union
<1>6. IsFiniteSet(Lines)
  <2>1. IsFiniteSet((Shapes \X EdgeTypes) \X Shapes)
    BY <1>4, <1>5, FS_Product
  <2> DEFINE flat == {<<p[1][1], p[1][2], p[2]>> : p \in (Shapes \X EdgeTypes) \X Shapes}
  <2>2. IsFiniteSet(flat)
    <3> DEFINE P == (Shapes \X EdgeTypes) \X Shapes
               f == [p \in P |-> <<p[1][1], p[1][2], p[2]>>]
    <3>1. flat = {f[p] : p \in P}
      OBVIOUS
    <3> HIDE DEF f
    <3>2. IsFiniteSet({f[p] : p \in P})
      BY <2>1, ImageIsFinite
    <3> QED BY <3>1, <3>2
  <2>3. Lines \subseteq flat
    <3> SUFFICES ASSUME NEW a \in Shapes, NEW k \in EdgeTypes, NEW b \in Shapes PROVE <<a, k, b>> \in flat
      BY DEF Lines
    <3> DEFINE p == <<<<a, k>>, b>>
    <3>1. p \in (Shapes \X EdgeTypes) \X Shapes /\ <<p[1][1], p[1][2], p[2]>> = <<a, k, b>>
      OBVIOUS
    <3> QED BY <3>1
  <2> QED BY <2>2, <2>3, FS_Subset
<1>7. Edges \subseteq Lines
  BY DEF Edges, Lines, Shapes
<1>8. \A n \in AllNodes : KindOf(n) = "File" => n \in DOMAIN FolderOf
  <2>1. \A n \in AllNodes : KindOf(n) = "File" => n \in Named
    BY DEF KindOf
  <2> QED BY <2>1, ViewsAssumption
<1>9. \A nodes \in SUBSET AllNodes : FoldersOf(FileNodes(nodes)) \subseteq Folders
  BY <1>1, <1>8 DEF FileNodes, FoldersOf
<1>10. \A fs, gs : fs \subseteq gs => FoldersOf(fs) \subseteq FoldersOf(gs)
  BY DEF FoldersOf
<1> QED BY <1>3, <1>4, <1>6, <1>7, <1>8, <1>9, <1>10, ViewsAssumption

\* A graph has nodes and edges a view may show.
LEMMA GraphIs ==
  ASSUME NEW g, Joined(g)
  PROVE  /\ g.nodes \subseteq AllNodes /\ g.edges \subseteq Edges /\ g.nodes \subseteq Shapes /\ g.edges \subseteq Lines
         /\ IsFiniteSet(g.nodes) /\ IsFiniteSet(g.edges)
         /\ \A e \in g.edges : e[1] \in g.nodes /\ e[3] \in g.nodes /\ e[1] \in AllNodes /\ e[3] \in AllNodes
<1>1. g.nodes \in SUBSET AllNodes /\ g.edges \in SUBSET Edges
  BY DEF Joined, Graphs
<1>2. \A e \in g.edges : e[1] \in g.nodes /\ e[3] \in g.nodes
  BY DEF Joined
<1>3. IsFiniteSet(g.nodes) /\ IsFiniteSet(g.edges)
  BY <1>1, FoldersAre, FS_Subset, NodesAreFinite
<1> QED BY <1>1, <1>2, <1>3, FoldersAre DEF Shapes

\* No edge of the graph that indexing leaves lacks an end.
LEMMA IndexedIs ==
  Joined(Indexed[Len(Writes)])
<1> DEFINE n == Len(Writes)
           J == {g \in Graphs : Joined(g)}
           Step(i, g) == Written(g, Writes[i])
           G == [p \in (1..n) \X J |-> Step(p[1], p[2])]
           D == [i \in 0..n |-> J]
<1>1. Writes \in Seq(Writable) /\ n \in Nat
  BY WritesAre
<1>2. ASSUME NEW i \in 1..n, NEW g \in J PROVE Step(i, g) \in J
  <2>1. Writes[i] \in Writable
    BY <1>1
  <2>2. Joined(Written(g, Writes[i]))
    BY <2>1, WrittenIs
  <2> QED BY <2>2 DEF Joined
<1>3. NoGraph \in J
  BY EmptyIsJoined DEF Joined
<1>4. /\ \A i \in 0..n : D[i] = J
      /\ \A i \in 1..n : D[i - 1] = J /\ i \in 0..n /\ i - 1 \in 0..n /\ i # 0
      /\ 0 \in 0..n /\ n \in 0..n
  BY <1>1
<1>5. \A i \in 1..n : \A g \in J : G[<<i, g>>] = Step(i, g)
  OBVIOUS
<1>6. Indexed = CHOOSE f : f = [i \in 0..n |-> IF i = 0 THEN NoGraph ELSE Step(i, f[i - 1])]
  BY DEF Indexed
<1> HIDE DEF Step, D, G, n, J
<1>7. Leads(n, NoGraph, G, D)
  <2>1. NoGraph \in D[0]
    BY <1>3, <1>4
  <2>2. ASSUME NEW i \in 1..n, NEW d \in D[i - 1] PROVE G[<<i, d>>] \in D[i]
    <3>1. d \in J
      BY <1>4
    <3>2. G[<<i, d>>] = Step(i, d) /\ Step(i, d) \in J
      BY <3>1, <1>2, <1>5
    <3>3. D[i] = J
      BY <1>4
    <3> QED BY <3>2, <3>3
  <2> QED BY <2>1, <2>2 DEF Leads
<1>8. PICK f \in [0..n -> J] : Follows(f, n, NoGraph, G)
  BY <1>1, <1>4, <1>7, Iterated
<1>9. f = [i \in 0..n |-> IF i = 0 THEN NoGraph ELSE Step(i, f[i - 1])]
  <2>1. ASSUME NEW i \in 0..n PROVE f[i] = IF i = 0 THEN NoGraph ELSE Step(i, f[i - 1])
    <3>1. CASE i = 0
      BY <3>1, <1>8 DEF Follows
    <3>2. CASE i # 0
      <4>1. i \in 1..n /\ i - 1 \in 0..n
        BY <3>2, <1>1
      <4> QED BY <4>1, <3>2, <1>5, <1>8 DEF Follows
    <3> QED BY <3>1, <3>2
  <2> QED BY <2>1
<1>10. Indexed = [i \in 0..n |-> IF i = 0 THEN NoGraph ELSE Step(i, Indexed[i - 1])]
  BY <1>6, <1>9
<1>11. Indexed[0] \in D[0]
  BY <1>3, <1>4, <1>10
<1>12. ASSUME NEW i \in 1..n, Indexed[i - 1] \in D[i - 1] PROVE Indexed[i] \in D[i]
  <2>1. Indexed[i] = Step(i, Indexed[i - 1])
    BY <1>4, <1>10
  <2> QED BY <1>2, <1>4, <1>12, <2>1
<1>13. \A i \in 0..n : Indexed[i] \in D[i]
  BY <1>1, <1>11, <1>12, Reached
<1>14. Indexed[n] \in J
  BY <1>4, <1>13
<1> QED BY <1>14 DEF J, n

-----------------------------------------------------------------------------
\* The views: how far they can be, what they can be of, and what they can show.
Middle == {"between", "calls", "imports", "files", "symbols", "contents", "CALLS", "IMPORTS", "CONTAINS", "cut"}
Stages == {"idle", "path", "read", "refused", "done"} \cup Middle

Views == [at : Stages, kind : {r.kind : r \in Requests} \cup {"none"}, scope : {r.scope : r \in Requests} \cup {{}},
          limit : Nat, start : {r.start : r \in Requests} \cup {{}}, leg : {r.leg : r \in Requests} \cup {"none"},
          nodes : SUBSET Shapes, edges : SUBSET Lines, failed : BOOLEAN, changes : Nat, steady : Graphs, ever : Graphs]

Between(v, g) == /\ v.steady.nodes \subseteq g.nodes /\ v.steady.edges \subseteq g.edges
                 /\ g.nodes \subseteq v.ever.nodes /\ g.edges \subseteq v.ever.edges /\ Joined(v.ever)

\* What Draw does to a view.
Drawn(v, g, to, nodes, edges, w) ==
  w = [v EXCEPT !.at = to, !.nodes = nodes, !.edges = edges,
                !.steady = IF v.at = "read" THEN g ELSE @, !.ever = IF v.at = "read" THEN g ELSE @]

Drawing(v, g, to, nodes, edges, w) ==
  /\ Joined(g) /\ v \in Views /\ (v.at \in Middle => Between(v, g)) /\ v.at \in Middle \cup {"read"}
  /\ to \in Middle \cup {"done"} /\ nodes \in SUBSET Shapes /\ edges \in SUBSET Lines
  /\ Drawn(v, g, to, nodes, edges, w)

\* A query that is answered: what the view is after it.
LEMMA DrawnIs ==
  ASSUME NEW v, NEW g, NEW to, NEW nodes, NEW edges, NEW w, Drawing(v, g, to, nodes, edges, w)
  PROVE  /\ w \in Views /\ Between(w, g)
         /\ w.at = to /\ w.kind = v.kind /\ w.scope = v.scope /\ w.limit = v.limit /\ w.start = v.start /\ w.leg = v.leg
         /\ w.nodes = nodes /\ w.edges = edges /\ w.failed = v.failed /\ w.changes = v.changes
         /\ v.at = "read" => w.steady = g /\ w.ever = g
         /\ v.at # "read" => w.steady = v.steady /\ w.ever = v.ever
         /\ v.limit \in Nat
<1>1. g \in Graphs /\ v \in Views
  BY DEF Drawing, Joined
<1>2. w = [v EXCEPT !.at = to, !.nodes = nodes, !.edges = edges,
                !.steady = IF v.at = "read" THEN g ELSE v.steady, !.ever = IF v.at = "read" THEN g ELSE v.ever]
  BY DEF Drawing, Drawn
<1>3. w \in Views
  <2> DEFINE s == IF v.at = "read" THEN g ELSE v.steady
             e == IF v.at = "read" THEN g ELSE v.ever
  <2>1. s \in Graphs /\ e \in Graphs
    BY <1>1 DEF Views
  <2>2. to \in Stages /\ nodes \in SUBSET Shapes /\ edges \in SUBSET Lines
    BY DEF Drawing, Stages
  <2>3. w = [v EXCEPT !.at = to, !.nodes = nodes, !.edges = edges, !.steady = s, !.ever = e]
    BY <1>2
  <2> HIDE DEF s, e
  <2> QED BY <1>1, <2>1, <2>2, <2>3 DEF Views
<1>4. /\ w.at = to /\ w.kind = v.kind /\ w.scope = v.scope /\ w.limit = v.limit /\ w.start = v.start /\ w.leg = v.leg
      /\ w.nodes = nodes /\ w.edges = edges /\ w.failed = v.failed /\ w.changes = v.changes
      /\ w.steady = IF v.at = "read" THEN g ELSE v.steady
      /\ w.ever = IF v.at = "read" THEN g ELSE v.ever
      /\ v.limit \in Nat
  BY <1>1, <1>2 DEF Views
<1>5. Between(w, g)
  BY <1>4 DEF Between, Drawing
<1> QED BY <1>3, <1>4, <1>5

\* The store goes on while a view is under way.
Later(v, w) ==
  /\ w.at = v.at /\ w.kind = v.kind /\ w.scope = v.scope /\ w.limit = v.limit /\ w.start = v.start /\ w.leg = v.leg
  /\ w.nodes = v.nodes /\ w.edges = v.edges /\ w.failed = v.failed
  /\ w.steady.nodes \subseteq v.steady.nodes /\ w.steady.edges \subseteq v.steady.edges
  /\ v.ever.nodes \subseteq w.ever.nodes /\ v.ever.edges \subseteq w.ever.edges

\* A change of the store: what was there throughout shrinks, what was there at any time grows.
LEMMA SeenIs ==
  ASSUME NEW v \in Views, Joined(v.ever), NEW h, Joined(h), NEW w,
         w = [v EXCEPT !.changes = @ + 1,
                       !.steady = [nodes |-> @.nodes \cap h.nodes, edges |-> @.edges \cap h.edges],
                       !.ever = [nodes |-> @.nodes \cup h.nodes, edges |-> @.edges \cup h.edges]]
  PROVE  w \in Views /\ Between(w, h) /\ Later(v, w)
<1> DEFINE s == [nodes |-> v.steady.nodes \cap h.nodes, edges |-> v.steady.edges \cap h.edges]
           e == [nodes |-> v.ever.nodes \cup h.nodes, edges |-> v.ever.edges \cup h.edges]
<1>1. h \in Graphs /\ v.steady \in Graphs /\ v.ever \in Graphs /\ v.changes \in Nat
  BY DEF Joined, Views
<1>2. s \in Graphs /\ e \in Graphs
  BY <1>1 DEF Graphs
<1>3. /\ s.nodes = v.steady.nodes \cap h.nodes /\ s.edges = v.steady.edges \cap h.edges
      /\ e.nodes = v.ever.nodes \cup h.nodes /\ e.edges = v.ever.edges \cup h.edges
  OBVIOUS
<1>4. w = [v EXCEPT !.changes = v.changes + 1, !.steady = s, !.ever = e]
  OBVIOUS
<1> HIDE DEF s, e
<1>5. w \in Views
  <2> DEFINE c == v.changes + 1
  <2>1. c \in Nat
    BY <1>1
  <2>2. w = [v EXCEPT !.changes = c, !.steady = s, !.ever = e]
    BY <1>4
  <2> HIDE DEF c
  <2> QED BY <2>1, <2>2, <1>2 DEF Views
<1>6. /\ w.at = v.at /\ w.kind = v.kind /\ w.scope = v.scope /\ w.limit = v.limit /\ w.start = v.start /\ w.leg = v.leg
      /\ w.nodes = v.nodes /\ w.edges = v.edges /\ w.failed = v.failed /\ w.steady = s /\ w.ever = e
  BY <1>4 DEF Views
<1> QED BY <1>2, <1>3, <1>5, <1>6 DEF Between, Later, Joined

\* A part of a limit.
LEMMA PartsOf ==
  ASSUME NEW n \in Nat
  PROVE  /\ n \div 2 \in Nat /\ n \div 2 <= n
         /\ n \div 3 \in Nat /\ n - 2 * (n \div 3) \in Nat
OBVIOUS

\* The nodes of a kind.
LEMMA OfKindIs ==
  ASSUME Joined(graph)
  PROVE  /\ \A kind : OfKind(kind) \subseteq graph.nodes /\ OfKind(kind) \subseteq AllNodes /\ IsFiniteSet(OfKind(kind))
                      /\ \A n \in OfKind(kind) : KindOf(n) = kind
         /\ OfKind("File") = FileNodes(graph.nodes)
<1>1. graph.nodes \subseteq AllNodes /\ IsFiniteSet(graph.nodes)
  BY GraphIs
<1>2. \A kind : OfKind(kind) \subseteq graph.nodes /\ \A n \in OfKind(kind) : KindOf(n) = kind
  BY DEF OfKind
<1>3. \A kind : IsFiniteSet(OfKind(kind))
  BY <1>1, <1>2, FS_Subset
<1>4. OfKind("File") = FileNodes(graph.nodes)
  BY DEF OfKind, FileNodes
<1> QED BY <1>1, <1>2, <1>3, <1>4

\* _build_nested_directory_edges and its kin: folders hold what lies in them, among the nodes shown.
LEMMA FoldingIs ==
  ASSUME NEW nodes \in SUBSET Shapes
  PROVE  Folding(nodes) \in SUBSET Lines /\ NodesOf(Folding(nodes)) \subseteq nodes /\ \A e \in Folding(nodes) : e[2] = "CONTAINS"
<1>1. \A e \in Folding(nodes) : \E n \in nodes : FolderOf[n] \in nodes /\ e = <<FolderOf[n], "CONTAINS", n>>
  BY DEF Folding
<1>2. \A e \in Folding(nodes) : e[1] \in nodes /\ e[3] \in nodes /\ e[2] = "CONTAINS" /\ e \in Lines
  <2> "CONTAINS" \in EdgeTypes
    BY DEF EdgeTypes
  <2> QED BY <1>1 DEF Lines
<1> QED BY <1>2, EndsOf

\* What the architecture of a repository may show.
Structural(g, scope, nodes) ==
  /\ nodes \in SUBSET Shapes
  /\ \A n \in nodes : n \in Folders \/ (n \in FileNodes(g.nodes) /\ n \in scope)
  /\ nodes \subseteq g.nodes \cup FoldersOf(FileNodes(g.nodes))

Picking(files, folders, kept) ==
  files \subseteq OfKind("File") \cap view.scope /\ folders \subseteq FoldersOf(files) /\ kept \subseteq files

\* Some files, with folders of theirs.
LEMMA PickedIs ==
  ASSUME Joined(graph), NEW files, NEW folders, NEW kept, Picking(files, folders, kept)
  PROVE  /\ Structural(graph, view.scope, folders \cup kept)
         /\ FileNodes(folders \cup kept) = kept
         /\ folders \cap kept = {} /\ IsFiniteSet(files) /\ IsFiniteSet(folders) /\ IsFiniteSet(kept)
         /\ IsFiniteSet(folders \cup kept) /\ FoldersOf(kept) \subseteq FoldersOf(files)
<1>0. files \subseteq OfKind("File") \cap view.scope /\ folders \subseteq FoldersOf(files) /\ kept \subseteq files
  BY DEF Picking
<1>1. files \subseteq FileNodes(graph.nodes) /\ files \subseteq AllNodes /\ IsFiniteSet(files)
  BY <1>0, OfKindIs, FS_Subset
<1>2. FileNodes(files) = files
  BY <1>1 DEF FileNodes
<1>3. FoldersOf(files) \subseteq Folders /\ FoldersOf(files) \subseteq FoldersOf(FileNodes(graph.nodes))
  BY <1>1, <1>2, FoldersAre
<1>4. IsFiniteSet(folders) /\ IsFiniteSet(kept)
  BY <1>0, <1>1, <1>3, FoldersAre, FS_Subset
<1>5. \A n \in files : KindOf(n) = "File" /\ n \notin Folders
  BY <1>1, FoldersAre DEF FileNodes
<1>6. \A n \in folders : KindOf(n) # "File" /\ n \in Folders
  BY <1>0, <1>3, FoldersAre
<1>7. Structural(graph, view.scope, folders \cup kept)
  <2>1. folders \cup kept \in SUBSET Shapes
    BY <1>0, <1>1, <1>6 DEF Shapes
  <2>2. \A n \in kept : n \in FileNodes(graph.nodes) /\ n \in view.scope /\ n \in graph.nodes
    BY <1>0, <1>1 DEF FileNodes
  <2> QED BY <2>1, <2>2, <1>0, <1>3, <1>6 DEF Structural
<1>8. FileNodes(folders \cup kept) = kept
  BY <1>0, <1>5, <1>6 DEF FileNodes
<1>9. folders \cap kept = {}
  BY <1>0, <1>5, <1>6
<1> QED BY <1>0, <1>1, <1>4, <1>7, <1>8, <1>9, FS_Union, FoldersAre

\* query_architecture: files and folders within the limit, every file below its folders, and
\* all files unless their half or the limit is reached.
LEMMA ArchitectureHas ==
  ASSUME Joined(graph), NEW limit \in Nat, NEW nodes \in Architectures(limit)
  PROVE  /\ Structural(graph, view.scope, nodes) /\ IsFiniteSet(nodes) /\ Cardinality(nodes) <= limit
         /\ FoldersOf(FileNodes(nodes)) \subseteq nodes
         /\ Cardinality(FileNodes(nodes)) # limit \div 2 /\ Cardinality(nodes) < limit
              => OfKind("File") \cap view.scope \subseteq nodes
<1> DEFINE S == OfKind("File") \cap view.scope
<1>1. IsFiniteSet(S) /\ limit \div 2 \in Nat /\ limit \in Int
  <2>1. IsFiniteSet(OfKind("File"))
    BY OfKindIs
  <2>2. S \subseteq OfKind("File") /\ limit \in Int
    OBVIOUS
  <2> HIDE DEF S
  <2> QED BY <2>1, <2>2, FS_Subset, PartsOf
<1>2. PICK picked \in AnySlice(S, limit \div 2) :
        nodes \in LET folders == FoldersOf(picked)
                      excess  == Cardinality(folders \cup picked) - limit
                  IN  IF excess <= 0 THEN {folders \cup picked}
                      ELSE IF excess < Cardinality(picked) THEN {folders \cup kept : kept \in AnySlice(picked, -excess)}
                      ELSE AnySlice(folders, limit)
  BY DEF Architectures
<1> DEFINE folders == FoldersOf(picked)
           excess  == Cardinality(folders \cup picked) - limit
<1>3. picked \subseteq S /\ (Cardinality(picked) # limit \div 2 => picked = S)
  BY <1>1, SliceHas
<1>4. /\ \A kept : kept \subseteq picked =>
           /\ Structural(graph, view.scope, folders \cup kept) /\ FileNodes(folders \cup kept) = kept
           /\ folders \cap kept = {} /\ IsFiniteSet(kept) /\ IsFiniteSet(folders \cup kept)
           /\ FoldersOf(kept) \subseteq folders
      /\ IsFiniteSet(picked) /\ IsFiniteSet(folders)
  <2>1. picked \subseteq OfKind("File") \cap view.scope /\ folders \subseteq FoldersOf(picked) /\ folders = FoldersOf(picked)
    BY <1>3
  <2> HIDE DEF folders
  <2>2. ASSUME NEW kept, kept \subseteq picked
        PROVE  /\ Structural(graph, view.scope, folders \cup kept) /\ FileNodes(folders \cup kept) = kept
               /\ folders \cap kept = {} /\ IsFiniteSet(kept) /\ IsFiniteSet(folders \cup kept)
               /\ FoldersOf(kept) \subseteq folders
               /\ IsFiniteSet(picked) /\ IsFiniteSet(folders)
    <3>1. /\ Structural(graph, view.scope, folders \cup kept) /\ FileNodes(folders \cup kept) = kept
          /\ folders \cap kept = {} /\ IsFiniteSet(picked) /\ IsFiniteSet(folders) /\ IsFiniteSet(kept)
          /\ IsFiniteSet(folders \cup kept) /\ FoldersOf(kept) \subseteq FoldersOf(picked)
      <4>1. Picking(picked, folders, kept)
        BY <2>1, <2>2 DEF Picking
      <4> QED BY <4>1, PickedIs
    <3> QED BY <2>1, <3>1
  <2> QED BY <2>2
<1>5. /\ {Cardinality(picked), Cardinality(folders), Cardinality(folders \cup picked)} \subseteq Nat
      /\ Cardinality(folders \cup picked) = Cardinality(folders) + Cardinality(picked)
  <2>1. folders \cap picked = {}
    BY <1>4
  <2> HIDE DEF folders
  <2> QED BY <2>1, <1>4, UnionFits
<1>6. nodes \in IF excess <= 0 THEN {folders \cup picked}
                ELSE IF excess < Cardinality(picked) THEN {folders \cup kept : kept \in AnySlice(picked, -excess)}
                ELSE AnySlice(folders, limit)
  BY <1>2
<1> HIDE DEF folders, S
<1>8. CASE excess <= 0
  <2>1. nodes = folders \cup picked
    BY <1>6, <1>8
  <2>2. Cardinality(nodes) <= limit
    BY <2>1, <1>5, <1>8
  <2>3. FileNodes(nodes) = picked /\ Structural(graph, view.scope, nodes) /\ IsFiniteSet(nodes) /\ FoldersOf(picked) \subseteq nodes
    BY <2>1, <1>4
  <2> QED BY <2>1, <2>2, <2>3, <1>3 DEF S
<1>9. CASE ~(excess <= 0) /\ excess < Cardinality(picked)
  <2>1. PICK kept \in AnySlice(picked, -excess) : nodes = folders \cup kept
    BY <1>6, <1>9
  <2>2. excess \in Int /\ -excess \in Int /\ -excess < 0 /\ Cardinality(picked) + (-excess) >= 0
    BY <1>5, <1>9
  <2> HIDE DEF excess
  <2>3. kept \subseteq picked /\ Cardinality(kept) = Cardinality(picked) + (-excess)
    BY <2>2, <1>4, SliceHas
  <2>4. Cardinality(nodes) = Cardinality(folders) + Cardinality(kept)
    BY <2>1, <2>3, <1>4, UnionFits
  <2>5. Cardinality(nodes) = limit
    BY <2>3, <2>4, <1>5 DEF excess
  <2>6. FileNodes(nodes) = kept /\ Structural(graph, view.scope, nodes) /\ IsFiniteSet(nodes) /\ FoldersOf(kept) \subseteq nodes
    BY <2>1, <2>3, <1>4
  <2> QED BY <2>5, <2>6
<1>10. CASE ~(excess <= 0) /\ ~(excess < Cardinality(picked))
  <2>1. nodes \in AnySlice(folders, limit)
    BY <1>6, <1>10
  <2>2. nodes \subseteq folders /\ IsFiniteSet(nodes) /\ (Cardinality(folders) >= limit => Cardinality(nodes) = limit)
    BY <2>1, <1>1, <1>4, SliceHas
  <2>3. Cardinality(folders) >= limit
    BY <1>5, <1>10
  <2>4. nodes \cup {} = nodes /\ {} \subseteq picked
    OBVIOUS
  <2>5. Structural(graph, view.scope, nodes \cup {}) /\ FileNodes(nodes \cup {}) = {}
    <3>1. Picking(picked, nodes, {})
      BY <2>2, <2>4, <1>3 DEF Picking, S, folders
    <3> QED BY <3>1, PickedIs
  <2>6. FoldersOf({}) = {}
    BY DEF FoldersOf
  <2>7. Structural(graph, view.scope, nodes) /\ FileNodes(nodes) = {}
    BY <2>4, <2>5
  <2>8. Cardinality(nodes) = limit
    BY <2>2, <2>3
  <2> QED BY <2>2, <2>6, <2>7, <2>8, <1>1
<1> QED BY <1>8, <1>9, <1>10

\* What a view shows while it is under way, and when it is done.
CallsIn(es)   == {e \in es : e[2] = "CALLS"}
ImportsIn(es) == {e \in es : e[2] = "IMPORTS" /\ e[1] # e[3]}

Drawable(v) == v.ever.nodes \cup FoldersOf(FileNodes(v.ever.nodes))
InPath(v, es) == \A e \in es : {e[1], e[3]} \cap v.scope # {}
Lined(v) == v.nodes = NodesOf(v.edges) /\ v.edges \subseteq v.ever.edges /\ v.nodes \subseteq v.ever.nodes

Structured(v) == /\ v.nodes \subseteq Drawable(v)
                 /\ \A n \in v.nodes : n \in Folders \/ (KindOf(n) = "File" /\ n \in v.scope)

ArchitectureOK(v) ==
  /\ Structured(v) /\ v.edges = Folding(v.nodes)
  /\ Cardinality(v.nodes) <= v.limit /\ FoldersOf(FileNodes(v.nodes)) \subseteq v.nodes
  /\ Cardinality(FileNodes(v.nodes)) # v.limit \div 2 /\ Cardinality(v.nodes) < v.limit
       => FileNodes(v.steady.nodes) \cap v.scope \subseteq v.nodes

CallsOK(v) ==
  /\ Lined(v) /\ InPath(v, v.edges) /\ Cardinality(v.edges) <= v.limit
  /\ v.scope = AllNodes /\ Cardinality(v.edges) # v.limit => CallsIn(v.steady.edges) \subseteq v.edges

ChainOK(v) ==
  /\ Lined(v) /\ Cardinality(v.edges) <= v.limit
  /\ Cardinality(v.edges) # v.limit => ChainCalls(CallsIn(v.steady.edges), v.start, v.leg) \subseteq v.edges

DependenciesOK(v) ==
  /\ Lined(v) /\ InPath(v, v.edges) /\ Cardinality(v.nodes) <= v.limit + 1
  /\ v.scope = AllNodes /\ Cardinality(v.nodes) < v.limit /\ Cardinality(v.edges) # 3 * v.limit
       => ImportsIn(v.steady.edges) \subseteq v.edges

Busiest(v) ==
  /\ v.nodes \subseteq v.ever.nodes \cap v.scope /\ Cardinality(v.nodes) <= v.limit
  /\ v.scope = AllNodes /\ Cardinality(v.nodes) < v.limit => Connected(v.steady) \subseteq v.nodes

HotspotsOK(v) == /\ Busiest(v) /\ v.edges \subseteq v.ever.edges /\ NodesOf(v.edges) \subseteq v.nodes
                 /\ Among(CallsIn(v.steady.edges), v.nodes) \subseteq v.edges

FullCalled(v) == /\ Structured(v) /\ v.edges \subseteq Folding(v.nodes) \cup CallsIn(v.ever.edges)
                 /\ InPath(v, CallsIn(v.edges))

FullOK(v) ==
  /\ v.nodes \subseteq Drawable(v) /\ NodesOf(v.edges) \subseteq v.nodes /\ v.edges \subseteq v.ever.edges \cup Folding(v.nodes)
  /\ Cardinality(v.nodes) <= v.limit
  /\ Cardinality(v.nodes) < v.limit =>
       \A n \in v.nodes : n \in Folders \/ n \in v.scope \/ \E e \in v.edges : n \in {e[1], e[3]} /\ {e[1], e[3]} \cap v.scope # {}

RootFolds(nodes) == {<<r, "CONTAINS", d>> : r \in {n \in nodes \ Folders : KindOf(n) = "Repo"}, d \in nodes \cap Folders}
BetweenSymbols(es) == {e \in es : {KindOf(e[1]), KindOf(e[3])} = {"Symbol"}}
Frame(v) == {n \in v.nodes : n \in Folders \/ KindOf(n) = "Repo"}

Whole(v) ==
  /\ v.nodes \subseteq Drawable(v) /\ FoldersOf(FileNodes(v.nodes)) \subseteq v.nodes
  /\ \A n \in v.nodes : \/ n \in Folders \/ KindOf(n) = "Repo"
                        \/ KindOf(n) \in {"File", "Symbol"} /\ n \in v.scope
  /\ NodesOf(v.edges) \subseteq v.nodes
  /\ v.edges \subseteq v.ever.edges \cup Folding(v.nodes) \cup RootFolds(v.nodes)

Wholly(v) ==
  /\ \A n \in v.steady.nodes \cap v.scope :
       /\ KindOf(n) = "Repo" => n \in v.nodes
       /\ v.at # "files" /\ KindOf(n) = "File" => n \in v.nodes
       /\ v.at \notin {"files", "symbols"} /\ KindOf(n) = "Symbol" => n \in v.nodes
  /\ v.at \in {"IMPORTS", "CONTAINS", "cut", "done"} /\ Cardinality(CallsIn(v.ever.edges)) < EdgeLimit
       => BetweenSymbols(Among(CallsIn(v.steady.edges), v.nodes)) \subseteq v.edges

ComprehensiveOK(v) ==
  /\ Whole(v) /\ (Cardinality(v.nodes) <= v.limit \/ Cardinality(Frame(v)) > v.limit)
  /\ Cardinality(v.nodes) < v.limit /\ Cardinality(FileNodes(v.nodes)) # (v.limit - Cardinality(Frame(v))) \div 2
       => Wholly(v)

DoneOK(v) ==
  \/ v.kind = "architecture" /\ ArchitectureOK(v)
  \/ v.kind = "calls" /\ CallsOK(v)
  \/ v.kind = "call_chain" /\ ChainOK(v)
  \/ v.kind = "dependencies" /\ DependenciesOK(v)
  \/ v.kind = "hotspots" /\ HotspotsOK(v)
  \/ v.kind = "full" /\ FullOK(v)
  \/ v.kind = "comprehensive" /\ ComprehensiveOK(v)

ViewFacts(v) ==
  /\ v.at = "done" /\ ~v.failed => DoneOK(v)
  /\ v.kind = "hotspots" /\ v.at = "between" => Busiest(v) /\ v.edges = {}
  /\ v.kind = "full" /\ v.at = "calls" => Structured(v) /\ v.edges = Folding(v.nodes)
  /\ v.kind = "full" /\ v.at = "imports" => FullCalled(v)
  /\ v.kind = "comprehensive" /\ v.at \in {"files", "symbols", "contents", "CALLS", "IMPORTS", "CONTAINS", "cut"}
       => Whole(v) /\ Wholly(v) /\ (v.at \in {"files", "symbols"} => v.edges = {})

ViewInv == view \in Views /\ (view.at \in Middle => Between(view, graph)) /\ ViewFacts(view)

\* A query of a view that goes on is one of those described above.
LEMMA DrawsOn ==
  ASSUME Joined(graph), ViewInv, NEW to \in Middle \cup {"done"}, NEW nodes \in SUBSET Shapes, NEW edges \in SUBSET Lines,
         view.at \in Middle \cup {"read"}, Draw(to, nodes, edges)
  PROVE  Drawing(view, graph, to, nodes, edges, view') /\ UNCHANGED <<graph, indexing, erasing, trace>>
<1>1. view' = [view EXCEPT !.at = to, !.nodes = nodes, !.edges = edges,
                           !.steady = IF view.at = "read" THEN graph ELSE @,
                           !.ever = IF view.at = "read" THEN graph ELSE @]
  BY DEF Draw
<1>2. UNCHANGED <<graph, indexing, erasing, trace>>
  BY DEF Draw, graphVars
<1>3. view \in Views /\ (view.at \in Middle => Between(view, graph))
  BY DEF ViewInv
<1> QED BY <1>1, <1>2, <1>3 DEF Drawing, Drawn

\* It keeps the invariant when the view keeps what it has to.
LEMMA ViewHolds ==
  ASSUME NEW nodes, NEW edges, NEW to, Drawing(view, graph, to, nodes, edges, view'), UNCHANGED graph, ViewFacts(view')
  PROVE  ViewInv'
<1>1. view' \in Views /\ Between(view', graph)
  BY DrawnIs
<1>2. Between(view', graph')
  BY <1>1
<1> QED BY <1>1, <1>2 DEF ViewInv

\* A view that is done has nothing else to keep.
LEMMA DoneHolds ==
  ASSUME NEW v, v.at = "done", DoneOK(v)
  PROVE  ViewFacts(v)
BY DEF ViewFacts

\* A path leaves the edges that touch it, and the whole repository leaves all.
LEMMA InScopeIs ==
  ASSUME NEW es
  PROVE  /\ InScope(es) \subseteq es /\ InPath(view, InScope(es))
         /\ view.scope = AllNodes /\ es \subseteq Edges => InScope(es) = es
<1>1. InScope(es) \subseteq es /\ InPath(view, InScope(es))
  BY DEF InScope, InPath
<1>2. ASSUME view.scope = AllNodes, es \subseteq Edges PROVE InScope(es) = es
  <2>1. \A e \in es : e[1] \in AllNodes
    BY <1>2 DEF Edges
  <2> QED BY <1>2, <2>1 DEF InScope
<1> QED BY <1>1, <1>2

\* query_calls: calls of the graph, of the path, within the limit, and all unless the limit is reached.
LEMMA CallGraphsHave ==
  ASSUME Joined(graph), NEW limit \in Nat, NEW edges \in CallGraphs(limit)
  PROVE  /\ edges \subseteq CallsIn(graph.edges) /\ edges \subseteq graph.edges /\ edges \in SUBSET Lines
         /\ InPath(view, edges) /\ Cardinality(edges) <= limit
         /\ view.scope = AllNodes /\ Cardinality(edges) # limit => CallsIn(graph.edges) \subseteq edges
<1> DEFINE C == OfType("CALLS")
<1>1. C = CallsIn(graph.edges) /\ C \subseteq graph.edges
  BY DEF OfType, CallsIn
<1>2. IsFiniteSet(C) /\ graph.edges \subseteq Lines /\ graph.edges \subseteq Edges
  BY <1>1, GraphIs, FS_Subset
<1>3. PICK came \in AnySlice(C, 3 * limit) : edges \in AnySlice(InScope(came), limit)
  BY DEF CallGraphs
<1> HIDE DEF C
<1>4. 3 * limit \in Nat /\ 3 * limit \in Int /\ limit \in Int
  OBVIOUS
<1>5. came \subseteq C /\ IsFiniteSet(came) /\ (Cardinality(came) # 3 * limit => came = C) /\ Cardinality(came) \in Nat
  BY <1>2, <1>3, <1>4, SliceHas
<1>6. InScope(came) \subseteq came /\ InPath(view, InScope(came)) /\ (view.scope = AllNodes => InScope(came) = came)
  BY <1>1, <1>2, <1>5, InScopeIs
<1>7. IsFiniteSet(InScope(came))
  BY <1>5, <1>6, FS_Subset
<1>8. /\ edges \subseteq InScope(came) /\ Cardinality(edges) <= limit /\ Cardinality(edges) \in Nat
      /\ Cardinality(edges) # limit => edges = InScope(came)
  BY <1>3, <1>4, <1>7, SliceHas
<1>9. edges \subseteq C /\ InPath(view, edges)
  BY <1>5, <1>6, <1>8 DEF InPath
<1>10. ASSUME view.scope = AllNodes, Cardinality(edges) # limit PROVE C \subseteq edges
  <2>1. edges = came /\ Cardinality(came) < limit
    BY <1>6, <1>8, <1>10
  <2>2. Cardinality(came) # 3 * limit
    BY <1>5, <2>1
  <2> QED BY <1>5, <2>1, <2>2
<1> QED BY <1>1, <1>2, <1>8, <1>9, <1>10

\* query_dependencies: the loop that ends with the edge that fills the limit leaves at most one
\* node more, and drops no edge unless it is full or the query was cut.
LEMMA DependenciesHave ==
  ASSUME Joined(graph), NEW limit \in Nat, NEW edges \in Dependencies(limit)
  PROVE  /\ edges \subseteq ImportsIn(graph.edges) /\ edges \subseteq graph.edges /\ edges \in SUBSET Lines
         /\ InPath(view, edges) /\ Cardinality(NodesOf(edges)) <= limit + 1
         /\ view.scope = AllNodes /\ Cardinality(NodesOf(edges)) < limit /\ Cardinality(edges) # 3 * limit
              => ImportsIn(graph.edges) \subseteq edges
<1> DEFINE C == ImportsIn(graph.edges)
           D == {e \in OfType("IMPORTS") : e[1] # e[3]}
<1>1. C = D /\ C \subseteq graph.edges
  BY DEF OfType, ImportsIn
<1>2. IsFiniteSet(C) /\ graph.edges \subseteq Lines /\ graph.edges \subseteq Edges
  BY <1>1, GraphIs, FS_Subset
<1>3. PICK came \in AnySlice(D, 3 * limit) :
        edges \in {es \in SUBSET InScope(came) :
                     /\ es = InScope(came) \/ Cardinality(NodesOf(es)) >= limit
                     /\ es # {} => \E last \in es : Cardinality(NodesOf(es \ {last})) < limit}
  BY DEF Dependencies
<1>4. /\ edges \subseteq InScope(came)
      /\ edges = InScope(came) \/ Cardinality(NodesOf(edges)) >= limit
      /\ edges # {} => \E last \in edges : Cardinality(NodesOf(edges \ {last})) < limit
  BY <1>3
<1>5. came \in AnySlice(C, 3 * limit)
  BY <1>1, <1>3
<1> HIDE DEF C, D
<1>6. 3 * limit \in Nat /\ 3 * limit \in Int /\ limit \in Int
  OBVIOUS
<1>7. came \subseteq C /\ (Cardinality(came) # 3 * limit => came = C)
  BY <1>2, <1>5, <1>6, SliceHas
<1>8. InScope(came) \subseteq came /\ InPath(view, InScope(came)) /\ (view.scope = AllNodes => InScope(came) = came)
  BY <1>1, <1>2, <1>7, InScopeIs
<1>9. edges \subseteq C /\ edges \subseteq graph.edges /\ InPath(view, edges)
  BY <1>1, <1>4, <1>7, <1>8 DEF InPath
<1>10. \A es \in SUBSET edges : NodesOf(es) \subseteq graph.nodes /\ IsFiniteSet(NodesOf(es)) /\ Cardinality(NodesOf(es)) \in Nat
  <2>1. \A es \in SUBSET edges : NodesOf(es) \subseteq graph.nodes
    BY <1>9, EndsOf, GraphIs
  <2> QED BY <2>1, GraphIs, FS_Subset, FS_CardinalityType
<1>11. Cardinality(NodesOf(edges)) <= limit + 1
  <2>1. CASE edges = {}
    <3>1. NodesOf(edges) = {}
      BY <2>1 DEF NodesOf
    <3> QED BY <3>1, FS_EmptySet
  <2>2. CASE edges # {}
    <3>1. PICK last \in edges : Cardinality(NodesOf(edges \ {last})) < limit
      BY <1>4, <2>2
    <3> DEFINE rest == NodesOf(edges \ {last})
               ends == {last[1]} \cup {last[3]}
    <3>2. IsFiniteSet(rest) /\ Cardinality(rest) \in Nat /\ Cardinality(rest) < limit
      BY <1>10, <3>1
    <3>3. IsFiniteSet(ends) /\ Cardinality(ends) <= 2 /\ Cardinality(ends) \in Nat
      <4>1. IsFiniteSet({last[1]}) /\ Cardinality({last[1]}) = 1 /\ IsFiniteSet({last[3]}) /\ Cardinality({last[3]}) = 1
        BY FS_Singleton
      <4> QED BY <4>1, UnionFits
    <3>4. NodesOf(edges) \subseteq rest \cup ends
      BY DEF NodesOf
    <3> HIDE DEF rest, ends
    <3>5. IsFiniteSet(rest \cup ends) /\ Cardinality(rest \cup ends) <= Cardinality(rest) + Cardinality(ends)
          /\ Cardinality(rest \cup ends) \in Nat
      BY <3>2, <3>3, UnionFits
    <3>6. Cardinality(NodesOf(edges)) <= Cardinality(rest \cup ends)
      BY <3>4, <3>5, FS_Subset
    <3>7. Cardinality(NodesOf(edges)) \in Nat
      BY <1>10
    <3> QED BY <3>2, <3>3, <3>5, <3>6, <3>7
  <2> QED BY <2>1, <2>2
<1>12. ASSUME view.scope = AllNodes, Cardinality(NodesOf(edges)) < limit, Cardinality(edges) # 3 * limit
       PROVE  C \subseteq edges
  <2>1. edges = InScope(came)
    BY <1>4, <1>10, <1>12
  <2> QED BY <1>7, <1>8, <1>12, <2>1
<1> QED BY <1>2, <1>9, <1>11, <1>12 DEF C

\* The nodes of edges of the graph are its nodes.
LEMMA LinesAre ==
  ASSUME Joined(graph), NEW edges, edges \subseteq graph.edges
  PROVE  NodesOf(edges) \subseteq graph.nodes /\ NodesOf(edges) \in SUBSET Shapes /\ edges \in SUBSET Lines
<1>1. graph.nodes \subseteq Shapes /\ graph.edges \subseteq Lines /\ \A e \in graph.edges : e[1] \in graph.nodes /\ e[3] \in graph.nodes
  BY GraphIs
<1>2. NodesOf(edges) \subseteq graph.nodes
  BY <1>1 DEF NodesOf
<1> QED BY <1>1, <1>2

\* The view of calls.
LEMMA ViewsCalls ==
  ASSUME Joined(graph), ViewInv, ViewCalls
  PROVE  ViewInv' /\ UNCHANGED <<graph, indexing, erasing, trace>>
<1>1. view.kind = "calls" /\ view.at = "read" /\ view.limit \in Nat
  BY DEF ViewCalls, Reading, ViewInv, Views
<1>2. PICK edges \in CallGraphs(view.limit) : Draw("done", NodesOf(edges), edges)
  BY DEF ViewCalls
<1>3. /\ edges \subseteq graph.edges /\ edges \in SUBSET Lines
      /\ InPath(view, edges) /\ Cardinality(edges) <= view.limit
      /\ view.scope = AllNodes /\ Cardinality(edges) # view.limit => CallsIn(graph.edges) \subseteq edges
  BY <1>1, CallGraphsHave
<1>4. NodesOf(edges) \in SUBSET Shapes
  BY <1>3, LinesAre
<1>5. Drawing(view, graph, "done", NodesOf(edges), edges, view') /\ UNCHANGED <<graph, indexing, erasing, trace>>
  BY <1>1, <1>2, <1>3, <1>4, DrawsOn
<1> DEFINE w == view'
<1>6. /\ w.at = "done" /\ w.kind = "calls" /\ w.scope = view.scope /\ w.limit = view.limit
      /\ w.nodes = NodesOf(edges) /\ w.edges = edges /\ w.steady = graph /\ w.ever = graph
  BY <1>1, <1>5, DrawnIs
<1> HIDE DEF w
<1>7. CallsOK(w)
  <2>1. NodesOf(edges) \subseteq graph.nodes
    BY <1>3, LinesAre
  <2> QED BY <1>3, <1>6, <2>1 DEF CallsOK, Lined, InPath
<1>8. ViewFacts(w)
  BY <1>6, <1>7, DoneHolds DEF DoneOK
<1> QED BY <1>5, <1>8, ViewHolds DEF w

\* The view of a chain of calls.
LEMMA ViewsCallChain ==
  ASSUME Joined(graph), ViewInv, ViewCallChain
  PROVE  ViewInv' /\ UNCHANGED <<graph, indexing, erasing, trace>>
<1>1. view.kind = "call_chain" /\ view.at = "read" /\ view.limit \in Nat /\ view.limit \in Int
  BY DEF ViewCallChain, Reading, ViewInv, Views
<1> DEFINE C == ChainCalls(OfType("CALLS"), view.start, view.leg)
<1>2. PICK edges \in AnySlice(C, view.limit) : Draw("done", NodesOf(edges), edges)
  BY DEF ViewCallChain
<1>3. OfType("CALLS") = CallsIn(graph.edges)
  BY DEF OfType, CallsIn
<1>4. C \subseteq graph.edges
  BY DEF ChainCalls, OfType
<1>5. IsFiniteSet(C) /\ C = ChainCalls(CallsIn(graph.edges), view.start, view.leg)
  BY <1>3, <1>4, GraphIs, FS_Subset
<1> HIDE DEF C
<1>6. edges \subseteq C /\ Cardinality(edges) <= view.limit /\ (Cardinality(edges) # view.limit => C \subseteq edges)
  BY <1>1, <1>2, <1>5, SliceHas
<1>7. edges \subseteq graph.edges
  BY <1>4, <1>6
<1>8. NodesOf(edges) \in SUBSET Shapes /\ edges \in SUBSET Lines
  BY <1>7, LinesAre
<1>9. Drawing(view, graph, "done", NodesOf(edges), edges, view') /\ UNCHANGED <<graph, indexing, erasing, trace>>
  BY <1>1, <1>2, <1>8, DrawsOn
<1> DEFINE w == view'
<1>10. /\ w.at = "done" /\ w.kind = "call_chain" /\ w.limit = view.limit /\ w.start = view.start /\ w.leg = view.leg
       /\ w.nodes = NodesOf(edges) /\ w.edges = edges /\ w.steady = graph /\ w.ever = graph
  BY <1>1, <1>9, DrawnIs
<1> HIDE DEF w
<1>11. ChainOK(w)
  <2>1. NodesOf(edges) \subseteq graph.nodes
    BY <1>7, LinesAre
  <2> QED BY <1>5, <1>6, <1>7, <1>10, <2>1 DEF ChainOK, Lined
<1>12. ViewFacts(w)
  BY <1>10, <1>11, DoneHolds DEF DoneOK
<1> QED BY <1>9, <1>12, ViewHolds DEF w

\* The view of dependencies.
LEMMA ViewsDependencies ==
  ASSUME Joined(graph), ViewInv, ViewDependencies
  PROVE  ViewInv' /\ UNCHANGED <<graph, indexing, erasing, trace>>
<1>1. view.kind = "dependencies" /\ view.at = "read" /\ view.limit \in Nat
  BY DEF ViewDependencies, Reading, ViewInv, Views
<1>2. PICK edges \in Dependencies(view.limit) : Draw("done", NodesOf(edges), edges)
  BY DEF ViewDependencies
<1>3. /\ edges \subseteq graph.edges /\ edges \in SUBSET Lines
      /\ InPath(view, edges) /\ Cardinality(NodesOf(edges)) <= view.limit + 1
      /\ view.scope = AllNodes /\ Cardinality(NodesOf(edges)) < view.limit /\ Cardinality(edges) # 3 * view.limit
           => ImportsIn(graph.edges) \subseteq edges
  BY <1>1, DependenciesHave
<1>4. NodesOf(edges) \in SUBSET Shapes
  BY <1>3, LinesAre
<1>5. Drawing(view, graph, "done", NodesOf(edges), edges, view') /\ UNCHANGED <<graph, indexing, erasing, trace>>
  BY <1>1, <1>2, <1>3, <1>4, DrawsOn
<1> DEFINE w == view'
<1>6. /\ w.at = "done" /\ w.kind = "dependencies" /\ w.scope = view.scope /\ w.limit = view.limit
      /\ w.nodes = NodesOf(edges) /\ w.edges = edges /\ w.steady = graph /\ w.ever = graph
  BY <1>1, <1>5, DrawnIs
<1> HIDE DEF w
<1>7. DependenciesOK(w)
  <2>1. NodesOf(edges) \subseteq graph.nodes
    BY <1>3, LinesAre
  <2> QED BY <1>3, <1>6, <2>1 DEF DependenciesOK, Lined, InPath
<1>8. ViewFacts(w)
  BY <1>6, <1>7, DoneHolds DEF DoneOK
<1> QED BY <1>5, <1>8, ViewHolds DEF w

\* The view of the architecture.
LEMMA ViewsArchitecture ==
  ASSUME Joined(graph), ViewInv, ViewArchitecture
  PROVE  ViewInv' /\ UNCHANGED <<graph, indexing, erasing, trace>>
<1>1. view.kind = "architecture" /\ view.at = "read" /\ view.limit \in Nat
  BY DEF ViewArchitecture, Reading, ViewInv, Views
<1>2. PICK nodes \in Architectures(view.limit) : Draw("done", nodes, Folding(nodes))
  BY DEF ViewArchitecture
<1>3. /\ Structural(graph, view.scope, nodes) /\ Cardinality(nodes) <= view.limit
      /\ FoldersOf(FileNodes(nodes)) \subseteq nodes
      /\ Cardinality(FileNodes(nodes)) # view.limit \div 2 /\ Cardinality(nodes) < view.limit
           => FileNodes(graph.nodes) \cap view.scope \subseteq nodes
  BY <1>1, ArchitectureHas, OfKindIs
<1>4. nodes \in SUBSET Shapes /\ Folding(nodes) \in SUBSET Lines
  BY <1>3, FoldingIs DEF Structural
<1>5. Drawing(view, graph, "done", nodes, Folding(nodes), view') /\ UNCHANGED <<graph, indexing, erasing, trace>>
  BY <1>1, <1>2, <1>4, DrawsOn
<1> DEFINE w == view'
<1>6. /\ w.at = "done" /\ w.kind = "architecture" /\ w.scope = view.scope /\ w.limit = view.limit
      /\ w.nodes = nodes /\ w.edges = Folding(nodes) /\ w.steady = graph /\ w.ever = graph
  BY <1>1, <1>5, DrawnIs
<1> HIDE DEF w
<1>7. Structured(w)
  BY <1>3, <1>6 DEF Structured, Structural, Drawable, FileNodes
<1>8. ArchitectureOK(w)
  BY <1>3, <1>6, <1>7 DEF ArchitectureOK
<1>9. ViewFacts(w)
  BY <1>6, <1>8, DoneHolds DEF DoneOK
<1> QED BY <1>5, <1>9, ViewHolds DEF w

\* A symbol has no more calls in a part of a graph.
LEMMA FewerConnected ==
  ASSUME NEW g \in Graphs, NEW h \in Graphs, g.nodes \subseteq h.nodes, g.edges \subseteq h.edges
  PROVE  Connected(g) \subseteq Connected(h)
<1> DEFINE c == CallsIn(g.edges)
           d == CallsIn(h.edges)
<1>1. c \subseteq d /\ d \subseteq Edges
  BY DEF CallsIn, Graphs
<1>2. IsFiniteSet(d)
  BY <1>1, NodesAreFinite, FS_Subset
<1>3. /\ Connected(g) = {n \in g.nodes : KindOf(n) = "Symbol" /\ Degree(c, n) >= MinConnections}
      /\ Connected(h) = {n \in h.nodes : KindOf(n) = "Symbol" /\ Degree(d, n) >= MinConnections}
  BY DEF Connected, CallsIn
<1> HIDE DEF c, d
<1>4. ASSUME NEW n PROVE Degree(c, n) \in Nat /\ Degree(d, n) \in Nat /\ Degree(c, n) <= Degree(d, n)
  <2> DEFINE a == {e \in c : e[1] = n}
             b == {e \in d : e[1] = n}
             k == {e \in c : e[3] = n}
             l == {e \in d : e[3] = n}
  <2>1. a \subseteq b /\ k \subseteq l /\ b \subseteq d /\ l \subseteq d
    BY <1>1
  <2>2. Degree(c, n) = Cardinality(a) + Cardinality(k) /\ Degree(d, n) = Cardinality(b) + Cardinality(l)
    BY DEF Degree
  <2> HIDE DEF a, b, k, l
  <2>3. IsFiniteSet(b) /\ IsFiniteSet(l)
    BY <1>2, <2>1, FS_Subset
  <2>4. IsFiniteSet(a) /\ IsFiniteSet(k) /\ Cardinality(a) <= Cardinality(b) /\ Cardinality(k) <= Cardinality(l)
    BY <2>1, <2>3, FS_Subset
  <2>5. {Cardinality(a), Cardinality(b), Cardinality(k), Cardinality(l)} \subseteq Nat
    BY <2>3, <2>4, FS_CardinalityType
  <2> QED BY <2>2, <2>4, <2>5
<1>5. MinConnections \in Nat
  BY ViewsAssumption
<1> QED BY <1>3, <1>4, <1>5

\* More calls were there at some time, the longer the view takes.
LEMMA CallsCount ==
  ASSUME NEW es \in SUBSET Edges, NEW fs \in SUBSET es
  PROVE  /\ IsFiniteSet(CallsIn(es)) /\ Cardinality(CallsIn(fs)) <= Cardinality(CallsIn(es))
         /\ Cardinality(CallsIn(es)) \in Nat /\ Cardinality(CallsIn(fs)) \in Nat
<1>1. CallsIn(fs) \subseteq CallsIn(es) /\ CallsIn(es) \subseteq Edges
  BY DEF CallsIn
<1>2. IsFiniteSet(CallsIn(es))
  BY <1>1, NodesAreFinite, FS_Subset
<1> QED BY <1>1, <1>2, FS_Subset, FS_CardinalityType

\* What holds of a view under way holds while the store goes on.
LEMMA LaterDrawable ==
  ASSUME NEW v \in Views, NEW w \in Views, Later(v, w)
  PROVE  Drawable(v) \subseteq Drawable(w)
<1>1. FileNodes(v.ever.nodes) \subseteq FileNodes(w.ever.nodes)
  BY DEF Later, FileNodes
<1> QED BY <1>1, FoldersAre DEF Drawable, Later

\* So do the facts about the view.
LEMMA LaterHolds ==
  ASSUME NEW v \in Views, NEW w \in Views, Later(v, w), ViewFacts(v), v.at \in Middle
  PROVE  ViewFacts(w)
<1>1. /\ w.at = v.at /\ w.kind = v.kind /\ w.scope = v.scope /\ w.limit = v.limit
      /\ w.nodes = v.nodes /\ w.edges = v.edges
      /\ w.steady.nodes \subseteq v.steady.nodes /\ w.steady.edges \subseteq v.steady.edges
      /\ v.ever.nodes \subseteq w.ever.nodes /\ v.ever.edges \subseteq w.ever.edges
  BY DEF Later
<1>2. Drawable(v) \subseteq Drawable(w)
  BY LaterDrawable
<1>3. v.steady \in Graphs /\ w.steady \in Graphs /\ v.ever \in Graphs /\ w.ever \in Graphs
  BY DEF Views
<1>4. Busiest(v) => Busiest(w)
  <2>1. Connected(w.steady) \subseteq Connected(v.steady)
    BY <1>1, <1>3, FewerConnected
  <2> QED BY <1>1, <2>1 DEF Busiest
<1>5. Structured(v) => Structured(w)
  BY <1>1, <1>2 DEF Structured
<1>6. FullCalled(v) => FullCalled(w)
  <2>1. CallsIn(v.ever.edges) \subseteq CallsIn(w.ever.edges)
    BY <1>1 DEF CallsIn
  <2> QED BY <1>1, <1>5, <2>1 DEF FullCalled, InPath
<1>7. Whole(v) => Whole(w)
  BY <1>1, <1>2 DEF Whole
<1>8. Wholly(v) => Wholly(w)
  <2> SUFFICES ASSUME Wholly(v) PROVE Wholly(w)
    OBVIOUS
  <2>1. \A n \in w.steady.nodes \cap w.scope :
       /\ KindOf(n) = "Repo" => n \in w.nodes
       /\ w.at # "files" /\ KindOf(n) = "File" => n \in w.nodes
       /\ w.at \notin {"files", "symbols"} /\ KindOf(n) = "Symbol" => n \in w.nodes
    BY <1>1 DEF Wholly
  <2>2. ASSUME w.at \in {"IMPORTS", "CONTAINS", "cut", "done"}, Cardinality(CallsIn(w.ever.edges)) < EdgeLimit
        PROVE  BetweenSymbols(Among(CallsIn(w.steady.edges), w.nodes)) \subseteq w.edges
    <3>1. w.ever.edges \in SUBSET Edges /\ v.ever.edges \in SUBSET w.ever.edges
      BY <1>1, <1>3 DEF Graphs
    <3>2. Cardinality(CallsIn(v.ever.edges)) < EdgeLimit
      BY <2>2, <3>1, CallsCount, ViewsAssumption
    <3>3. BetweenSymbols(Among(CallsIn(v.steady.edges), v.nodes)) \subseteq v.edges
      BY <1>1, <2>2, <3>2 DEF Wholly
    <3>4. BetweenSymbols(Among(CallsIn(w.steady.edges), v.nodes)) \subseteq BetweenSymbols(Among(CallsIn(v.steady.edges), v.nodes))
      BY <1>1 DEF BetweenSymbols, Among, CallsIn
    <3> QED BY <1>1, <3>3, <3>4
  <2> QED BY <2>1, <2>2 DEF Wholly
<1>9. w.at # "done"
  BY <1>1 DEF Middle
<1> QED BY <1>1, <1>4, <1>5, <1>6, <1>7, <1>8, <1>9 DEF ViewFacts

\* The symbols with the most calls are nodes of the graph.
LEMMA ConnectedIs ==
  ASSUME Joined(graph)
  PROVE  Connected(graph) \subseteq graph.nodes /\ IsFiniteSet(Connected(graph)) /\ OfType("CALLS") = CallsIn(graph.edges)
<1>1. Connected(graph) \subseteq graph.nodes
  BY DEF Connected
<1> QED BY <1>1, GraphIs, FS_Subset DEF OfType, CallsIn

\* The view of hotspots, its first query: the symbols.
LEMMA ViewsHotspots ==
  ASSUME Joined(graph), ViewInv, ViewHotspots
  PROVE  ViewInv' /\ UNCHANGED <<graph, indexing, erasing, trace>>
<1>1. view.kind = "hotspots" /\ view.at = "read" /\ view.limit \in Nat /\ view.limit \in Int
  BY DEF ViewHotspots, Reading, ViewInv, Views
<1>2. PICK top \in AnySlice(Connected(graph), view.limit) :
        Draw(IF top \cap view.scope = {} THEN "done" ELSE "between", top \cap view.scope, {})
  BY DEF ViewHotspots
<1> DEFINE nodes == top \cap view.scope
           to == IF nodes = {} THEN "done" ELSE "between"
<1>3. /\ top \subseteq graph.nodes /\ IsFiniteSet(top) /\ Cardinality(top) <= view.limit /\ Cardinality(top) \in Nat
      /\ Cardinality(top) # view.limit => top = Connected(graph)
  BY <1>1, <1>2, ConnectedIs, SliceHas
<1>4. nodes \subseteq top /\ IsFiniteSet(nodes) /\ Cardinality(nodes) <= Cardinality(top) /\ Cardinality(nodes) \in Nat
  BY <1>3, FS_Subset, FS_CardinalityType
<1>5. nodes \in SUBSET Shapes /\ {} \in SUBSET Lines /\ to \in Middle \cup {"done"} /\ nodes \subseteq graph.nodes \cap view.scope
  BY <1>3, GraphIs DEF Middle
<1>6. view.scope = AllNodes => nodes = top
  BY <1>3, GraphIs
<1>7. Draw(to, nodes, {})
  BY <1>2
<1>8. to = "done" <=> nodes = {}
  OBVIOUS
<1> HIDE DEF nodes, to
<1>9. Drawing(view, graph, to, nodes, {}, view') /\ UNCHANGED <<graph, indexing, erasing, trace>>
  BY <1>1, <1>5, <1>7, DrawsOn
<1> DEFINE w == view'
<1>10. /\ w.at = to /\ w.kind = "hotspots" /\ w.scope = view.scope /\ w.limit = view.limit
       /\ w.nodes = nodes /\ w.edges = {} /\ w.steady = graph /\ w.ever = graph
  BY <1>1, <1>9, DrawnIs
<1>11. to \in {"done", "between"}
  BY DEF to
<1> HIDE DEF w
<1>12. Busiest(w)
  <2>1. Cardinality(nodes) <= view.limit
    BY <1>1, <1>3, <1>4
  <2>2. view.scope = AllNodes /\ Cardinality(nodes) < view.limit => Connected(graph) \subseteq nodes
    BY <1>1, <1>3, <1>6
  <2> QED BY <1>5, <1>10, <2>1, <2>2 DEF Busiest
<1>13. to = "done" => HotspotsOK(w)
  BY <1>8, <1>10, <1>12 DEF HotspotsOK, NodesOf, Among
<1>14. ViewFacts(w)
  BY <1>10, <1>11, <1>12, <1>13 DEF ViewFacts, DoneOK
<1> QED BY <1>9, <1>14, ViewHolds DEF w

\* Its second: the calls between them.
LEMMA ViewsHotspotEdges ==
  ASSUME Joined(graph), ViewInv, HotspotEdges
  PROVE  ViewInv' /\ UNCHANGED <<graph, indexing, erasing, trace>>
<1>1. view.kind = "hotspots" /\ view.at = "between" /\ view \in Views /\ Busiest(view) /\ Between(view, graph)
  BY DEF HotspotEdges, Reading, ViewInv, ViewFacts, Middle
<1> DEFINE edges == Among(OfType("CALLS"), view.nodes)
<1>2. Draw("done", view.nodes, edges)
  BY DEF HotspotEdges
<1>3. OfType("CALLS") = CallsIn(graph.edges)
  BY ConnectedIs
<1>4. edges \subseteq graph.edges /\ NodesOf(edges) \subseteq view.nodes
  BY <1>3, EndsOf DEF CallsIn
<1>5. Among(CallsIn(view.steady.edges), view.nodes) \subseteq edges
  BY <1>1, <1>3 DEF Between, CallsIn, Among
<1> HIDE DEF edges
<1>6. view.nodes \in SUBSET Shapes /\ edges \in SUBSET Lines /\ view.at \in Middle
  BY <1>1, <1>4, GraphIs DEF Views, Middle
<1>7. Drawing(view, graph, "done", view.nodes, edges, view') /\ UNCHANGED <<graph, indexing, erasing, trace>>
  BY <1>2, <1>6, DrawsOn
<1> DEFINE w == view'
<1>8. /\ w.at = "done" /\ w.kind = "hotspots" /\ w.scope = view.scope /\ w.limit = view.limit
      /\ w.nodes = view.nodes /\ w.edges = edges /\ w.steady = view.steady /\ w.ever = view.ever
  BY <1>1, <1>7, DrawnIs
<1> HIDE DEF w
<1>9. HotspotsOK(w)
  BY <1>1, <1>4, <1>5, <1>8 DEF HotspotsOK, Busiest, Between
<1>10. ViewFacts(w)
  BY <1>8, <1>9, DoneHolds DEF DoneOK
<1> QED BY <1>7, <1>10, ViewHolds DEF w

\* The full view, its first part: the architecture.
LEMMA ViewsFullArchitecture ==
  ASSUME Joined(graph), ViewInv, FullArchitecture
  PROVE  ViewInv' /\ UNCHANGED <<graph, indexing, erasing, trace>>
<1>1. view.kind = "full" /\ view.at = "read" /\ view.limit \in Nat
  BY DEF FullArchitecture, Reading, ViewInv, Views
<1>2. PICK nodes \in Architectures(view.limit \div 3) \cup {{}} : Draw("calls", nodes, Folding(nodes))
  BY DEF FullArchitecture
<1>3. Structural(graph, view.scope, nodes)
  <2>1. CASE nodes \in Architectures(view.limit \div 3)
    BY <1>1, <2>1, PartsOf, ArchitectureHas
  <2>2. CASE nodes = {}
    BY <2>2 DEF Structural
  <2> QED BY <1>2, <2>1, <2>2
<1>4. nodes \in SUBSET Shapes /\ Folding(nodes) \in SUBSET Lines
  BY <1>3, FoldingIs DEF Structural
<1>5. "calls" \in Middle
  BY DEF Middle
<1>6. Drawing(view, graph, "calls", nodes, Folding(nodes), view') /\ UNCHANGED <<graph, indexing, erasing, trace>>
  BY <1>1, <1>2, <1>4, <1>5, DrawsOn
<1> DEFINE w == view'
<1>7. /\ w.at = "calls" /\ w.kind = "full" /\ w.scope = view.scope /\ w.nodes = nodes /\ w.edges = Folding(nodes) /\ w.ever = graph
  BY <1>1, <1>6, DrawnIs
<1> HIDE DEF w
<1>8. Structured(w)
  BY <1>3, <1>7 DEF Structured, Structural, Drawable, FileNodes
<1>9. ViewFacts(w)
  BY <1>7, <1>8 DEF ViewFacts
<1> QED BY <1>6, <1>9, ViewHolds DEF w

\* Its second: the calls.
LEMMA ViewsFullCalls ==
  ASSUME Joined(graph), ViewInv, FullCalls
  PROVE  ViewInv' /\ UNCHANGED <<graph, indexing, erasing, trace>>
<1>1. view.kind = "full" /\ view.at = "calls" /\ view \in Views /\ view.limit \in Nat /\ Between(view, graph)
      /\ Structured(view) /\ view.edges = Folding(view.nodes)
  BY DEF FullCalls, Reading, ViewInv, Views, Middle, ViewFacts
<1>2. PICK cs \in CallGraphs(view.limit \div 3) \cup {{}} : Draw("imports", view.nodes, view.edges \cup cs)
  BY DEF FullCalls
<1>3. cs \subseteq CallsIn(graph.edges) /\ cs \in SUBSET Lines /\ InPath(view, cs)
  <2>1. CASE cs \in CallGraphs(view.limit \div 3)
    BY <1>1, <2>1, PartsOf, CallGraphsHave
  <2>2. CASE cs = {}
    BY <2>2 DEF InPath
  <2> QED BY <1>2, <2>1, <2>2
<1> DEFINE edges == view.edges \cup cs
<1>4. view.nodes \in SUBSET Shapes /\ edges \in SUBSET Lines
  BY <1>1, <1>3 DEF Views
<1>5. CallsIn(edges) \subseteq cs /\ edges \subseteq Folding(view.nodes) \cup CallsIn(view.ever.edges)
  <2>1. \A e \in Folding(view.nodes) : e[2] = "CONTAINS"
    BY <1>4, FoldingIs
  <2>2. cs \subseteq CallsIn(view.ever.edges)
    BY <1>1, <1>3 DEF CallsIn, Between
  <2> QED BY <1>1, <2>1, <2>2 DEF CallsIn
<1>6. Draw("imports", view.nodes, edges)
  BY <1>2
<1>7. "imports" \in Middle /\ "calls" \in Middle
  BY DEF Middle
<1> HIDE DEF edges
<1>8. Drawing(view, graph, "imports", view.nodes, edges, view') /\ UNCHANGED <<graph, indexing, erasing, trace>>
  BY <1>1, <1>4, <1>6, <1>7, DrawsOn
<1> DEFINE w == view'
<1>9. /\ w.at = "imports" /\ w.kind = "full" /\ w.scope = view.scope /\ w.nodes = view.nodes /\ w.edges = edges /\ w.ever = view.ever
  BY <1>1, <1>8, DrawnIs
<1> HIDE DEF w
<1>10. FullCalled(w)
  BY <1>1, <1>3, <1>5, <1>9 DEF FullCalled, Structured, Drawable, InPath
<1>11. ViewFacts(w)
  BY <1>9, <1>10 DEF ViewFacts
<1> QED BY <1>8, <1>11, ViewHolds DEF w

\* The cut of the full view.
LEMMA FullCutIs ==
  ASSUME view.limit \in Nat, NEW shown, NEW cs, NEW imports, NEW nodes \in FullCut(shown, cs, imports)
  PROVE  /\ nodes \subseteq shown \cup NodesOf(cs) \cup NodesOf(imports) /\ Cardinality(nodes) <= view.limit
         /\ Cardinality(nodes) < view.limit => nodes = shown \cup NodesOf(cs) \cup NodesOf(imports)
<1> DEFINE first == shown \cup NodesOf(cs)
           all == first \cup NodesOf(imports)
<1>1. nodes \in IF Cardinality(all) <= view.limit THEN {all}
                ELSE IF Cardinality(first) >= view.limit
                THEN {s \in {shown \cup more : more \in FirstNodes(cs)} : Cardinality(s) = view.limit}
                ELSE {s \in {first \cup more : more \in FirstNodes(imports)} : Cardinality(s) = view.limit}
  BY DEF FullCut
<1>2. \A es : \A more \in FirstNodes(es) : more \subseteq NodesOf(es)
  BY DEF FirstNodes, NodesOf
<1>3. CASE Cardinality(all) <= view.limit
  <2>1. nodes = all
    BY <1>1, <1>3
  <2> QED BY <2>1, <1>3
<1>4. CASE ~(Cardinality(all) <= view.limit)
  <2>1. \/ \E more \in FirstNodes(cs) : nodes = shown \cup more /\ Cardinality(nodes) = view.limit
        \/ \E more \in FirstNodes(imports) : nodes = first \cup more /\ Cardinality(nodes) = view.limit
    <3> HIDE DEF first, all
    <3> QED BY <1>1, <1>4
  <2>2. Cardinality(nodes) = view.limit
    BY <2>1
  <2>3. nodes \subseteq all
    BY <1>2, <2>1
  <2> QED BY <2>2, <2>3
<1> QED BY <1>3, <1>4

\* Its third: the dependencies, and the cut.
LEMMA ViewsFullDependencies ==
  ASSUME Joined(graph), ViewInv, FullDependencies
  PROVE  ViewInv' /\ UNCHANGED <<graph, indexing, erasing, trace>>
<1>1. view.kind = "full" /\ view.at = "imports" /\ view \in Views /\ view.limit \in Nat /\ Between(view, graph)
      /\ FullCalled(view)
  BY DEF FullDependencies, Reading, ViewInv, Views, Middle, ViewFacts
<1> DEFINE part == view.limit - 2 * (view.limit \div 3)
           cs == {e \in view.edges : e[2] = "CALLS"}
<1>2. PICK imports \in Dependencies(part) \cup {{}} :
        \E nodes \in FullCut(view.nodes, cs, imports) : Draw("done", nodes, Among(view.edges \cup imports, nodes))
  BY DEF FullDependencies
<1>3. part \in Nat /\ cs = CallsIn(view.edges)
  BY <1>1, PartsOf DEF CallsIn
<1> HIDE DEF part, cs
<1>4. imports \subseteq graph.edges /\ InPath(view, imports)
  <2>1. CASE imports \in Dependencies(part)
    BY <1>3, <2>1, DependenciesHave
  <2>2. CASE imports = {}
    BY <2>2 DEF InPath
  <2> QED BY <1>2, <2>1, <2>2
<1> PICK nodes \in FullCut(view.nodes, cs, imports) : Draw("done", nodes, Among(view.edges \cup imports, nodes))
  BY <1>2
<1> DEFINE edges == Among(view.edges \cup imports, nodes)
<1>5. /\ nodes \subseteq view.nodes \cup NodesOf(cs) \cup NodesOf(imports) /\ Cardinality(nodes) <= view.limit
      /\ Cardinality(nodes) < view.limit => nodes = view.nodes \cup NodesOf(cs) \cup NodesOf(imports)
  BY <1>1, <1>2, FullCutIs
<1>6. /\ NodesOf(imports) \subseteq graph.nodes /\ NodesOf(cs) \subseteq view.ever.nodes /\ cs \subseteq view.ever.edges
      /\ graph.nodes \subseteq view.ever.nodes /\ graph.edges \subseteq view.ever.edges
  <2>1. NodesOf(imports) \subseteq graph.nodes
    BY <1>4, LinesAre
  <2>2. cs \subseteq view.ever.edges
    <3>1. view.nodes \in SUBSET Shapes
      BY <1>1 DEF Views
    <3>2. \A e \in Folding(view.nodes) : e[2] = "CONTAINS"
      BY <3>1, FoldingIs
    <3> QED BY <1>1, <1>3, <3>2 DEF FullCalled, CallsIn
  <2>3. NodesOf(cs) \subseteq view.ever.nodes
    <3>1. \A e \in view.ever.edges : e[1] \in view.ever.nodes /\ e[3] \in view.ever.nodes
      BY <1>1 DEF Between, Joined
    <3> QED BY <2>2, <3>1 DEF NodesOf
  <2> QED BY <1>1, <2>1, <2>2, <2>3 DEF Between
<1>7. /\ NodesOf(edges) \subseteq nodes /\ edges \subseteq view.edges \cup imports
      /\ NodesOf(view.edges \cup imports) \subseteq nodes => edges = view.edges \cup imports
  BY EndsOf DEF Among, NodesOf
<1>8. /\ nodes \subseteq Drawable(view) /\ nodes \in SUBSET Shapes
      /\ \A n \in view.nodes : n \in Folders \/ n \in view.scope
  <2>1. view.nodes \subseteq Drawable(view) /\ \A n \in view.nodes : n \in Folders \/ n \in view.scope
    BY <1>1 DEF FullCalled, Structured
  <2>2. view.nodes \in SUBSET Shapes /\ view.ever.nodes \in SUBSET AllNodes
    BY <1>1 DEF Views, Graphs
  <2> QED BY <1>5, <1>6, <2>1, <2>2 DEF Drawable, Shapes
<1>9. edges \in SUBSET Lines
  BY <1>1, <1>4, <1>7, GraphIs DEF Views
<1>10. edges \subseteq view.ever.edges \cup Folding(nodes)
  <2>1. ASSUME NEW e \in edges, e \in Folding(view.nodes) PROVE e \in Folding(nodes)
    <3>1. e[1] \in nodes /\ e[3] \in nodes
      BY <1>7, EndsOf
    <3>2. PICK n \in view.nodes \cap DOMAIN FolderOf : FolderOf[n] \in view.nodes /\ e = <<FolderOf[n], "CONTAINS", n>>
      BY <2>1 DEF Folding
    <3> QED BY <3>1, <3>2 DEF Folding
  <2>2. \A e \in edges : e \in Folding(view.nodes) \/ e \in view.ever.edges
    <3>1. view.edges \subseteq Folding(view.nodes) \cup view.ever.edges
      BY <1>1 DEF FullCalled, CallsIn
    <3> QED BY <1>4, <1>6, <1>7, <3>1
  <2> QED BY <2>1, <2>2
<1>11. ASSUME Cardinality(nodes) < view.limit, NEW n \in nodes
       PROVE  n \in Folders \/ n \in view.scope \/ \E e \in edges : n \in {e[1], e[3]} /\ {e[1], e[3]} \cap view.scope # {}
  <2>1. nodes = view.nodes \cup NodesOf(cs) \cup NodesOf(imports)
    BY <1>5, <1>11
  <2>2. cs \cup imports \subseteq edges
    <3>1. cs \subseteq view.edges
      BY <1>3 DEF CallsIn
    <3> QED BY <2>1, <3>1 DEF Among, NodesOf
  <2>3. InPath(view, cs)
    BY <1>1, <1>3 DEF FullCalled
  <2>4. CASE n \in view.nodes
    BY <1>8, <2>4
  <2>5. CASE n \in NodesOf(cs) \cup NodesOf(imports)
    <3>1. PICK e \in cs \cup imports : n \in {e[1], e[3]}
      BY <2>5 DEF NodesOf
    <3>2. {e[1], e[3]} \cap view.scope # {}
      BY <1>4, <2>3 DEF InPath
    <3> QED BY <2>2, <3>1, <3>2
  <2> QED BY <2>1, <2>4, <2>5
<1>12. "imports" \in Middle
  BY DEF Middle
<1>13. Draw("done", nodes, edges)
  OBVIOUS
<1> HIDE DEF edges
<1>14. Drawing(view, graph, "done", nodes, edges, view') /\ UNCHANGED <<graph, indexing, erasing, trace>>
  BY <1>1, <1>8, <1>9, <1>12, <1>13, DrawsOn
<1> DEFINE w == view'
<1>15. /\ w.at = "done" /\ w.kind = "full" /\ w.scope = view.scope /\ w.limit = view.limit
       /\ w.nodes = nodes /\ w.edges = edges /\ w.ever = view.ever
  BY <1>1, <1>14, DrawnIs
<1> HIDE DEF w
<1>16. FullOK(w)
  BY <1>5, <1>7, <1>8, <1>10, <1>11, <1>15 DEF FullOK, Drawable
<1>17. ViewFacts(w)
  BY <1>15, <1>16, DoneHolds DEF DoneOK
<1> QED BY <1>14, <1>17, ViewHolds DEF w

ComprehensiveStages == {"files", "symbols", "contents", "CALLS", "IMPORTS", "CONTAINS", "cut"}

\* What each query of the comprehensive view starts from.
LEMMA StageIs ==
  ASSUME Joined(graph), ViewInv, NEW from \in ComprehensiveStages, Reading("comprehensive", from)
  PROVE  /\ view.kind = "comprehensive" /\ view.at = from /\ from \in Middle /\ view \in Views /\ view.limit \in Nat
         /\ Whole(view) /\ Wholly(view) /\ (from \in {"files", "symbols"} => view.edges = {}) /\ Between(view, graph)
         /\ view.nodes \in SUBSET Shapes /\ view.edges \in SUBSET Lines
         /\ graph.nodes \subseteq Drawable(view) /\ FoldersOf(OfKind("File")) \subseteq Drawable(view)
<1>1. view.kind = "comprehensive" /\ view.at = from /\ from \in Middle
  BY DEF Reading, ComprehensiveStages, Middle
<1>2. view \in Views /\ Between(view, graph) /\ ViewFacts(view)
  BY <1>1 DEF ViewInv
<1>3. view.nodes \in SUBSET Shapes /\ view.edges \in SUBSET Lines /\ view.limit \in Nat
  BY <1>2 DEF Views
<1>4. Whole(view) /\ Wholly(view) /\ (from \in {"files", "symbols"} => view.edges = {})
  BY <1>1, <1>2 DEF ViewFacts, ComprehensiveStages
<1>5. graph.nodes \subseteq view.ever.nodes
  BY <1>2 DEF Between
<1>6. OfKind("File") \subseteq FileNodes(view.ever.nodes)
  BY <1>5 DEF OfKind, FileNodes
<1>7. FoldersOf(OfKind("File")) \subseteq FoldersOf(FileNodes(view.ever.nodes))
  BY <1>6, FoldersAre
<1> QED BY <1>1, <1>2, <1>3, <1>4, <1>5, <1>7 DEF Drawable

\* A query of the comprehensive view that is not the last.
LEMMA StageDraws ==
  ASSUME Joined(graph), ViewInv, NEW from \in ComprehensiveStages \cup {"read"}, Reading("comprehensive", from),
         NEW to \in ComprehensiveStages, NEW nodes \in SUBSET Shapes, NEW edges \in SUBSET Lines, Draw(to, nodes, edges),
         \A w : /\ w \in Views /\ Between(w, graph) /\ w.at = to /\ w.scope = view.scope /\ w.limit = view.limit
                /\ w.nodes = nodes /\ w.edges = edges
                /\ (from = "read" => w.steady = graph /\ w.ever = graph)
                /\ (from # "read" => w.steady = view.steady /\ w.ever = view.ever)
                => Whole(w) /\ Wholly(w) /\ (to \in {"files", "symbols"} => edges = {})
  PROVE  ViewInv' /\ UNCHANGED <<graph, indexing, erasing, trace>>
<1>1. view.kind = "comprehensive" /\ view.at = from /\ from \in Middle \cup {"read"} /\ to \in Middle
  BY DEF Reading, ComprehensiveStages, Middle
<1>2. Drawing(view, graph, to, nodes, edges, view') /\ UNCHANGED <<graph, indexing, erasing, trace>>
  BY <1>1, DrawsOn
<1> DEFINE w == view'
<1>3. /\ w \in Views /\ Between(w, graph) /\ w.at = to /\ w.kind = "comprehensive" /\ w.scope = view.scope /\ w.limit = view.limit
      /\ w.nodes = nodes /\ w.edges = edges
      /\ (from = "read" => w.steady = graph /\ w.ever = graph)
      /\ (from # "read" => w.steady = view.steady /\ w.ever = view.ever)
  BY <1>1, <1>2, DrawnIs
<1> HIDE DEF w
<1>4. Whole(w) /\ Wholly(w) /\ (to \in {"files", "symbols"} => w.edges = {})
  BY <1>3
<1>5. ViewFacts(w)
  BY <1>3, <1>4 DEF ViewFacts, ComprehensiveStages
<1> QED BY <1>2, <1>5, ViewHolds DEF w

\* The comprehensive view asks for the repository.
LEMMA ViewsReadRepo ==
  ASSUME Joined(graph), ViewInv, ReadRepo
  PROVE  ViewInv' /\ UNCHANGED <<graph, indexing, erasing, trace>>
<1> DEFINE nodes == OfKind("Repo")
           empty == {}
<1>1. Reading("comprehensive", "read") /\ Draw("files", nodes, empty)
  BY DEF ReadRepo
<1>2. nodes \subseteq graph.nodes /\ nodes \in SUBSET Shapes /\ \A n \in nodes : KindOf(n) = "Repo"
  BY OfKindIs DEF Shapes
<1>3. FileNodes(nodes) = {} /\ FoldersOf(FileNodes(nodes)) = {}
  BY <1>2 DEF FileNodes, FoldersOf
<1>4. \A n \in graph.nodes : KindOf(n) = "Repo" => n \in nodes
  BY DEF OfKind
<1> HIDE DEF nodes, empty
<1>5. ASSUME NEW w, w.at = "files", w.nodes = nodes, w.edges = empty, w.steady = graph, w.ever = graph
      PROVE  Whole(w) /\ Wholly(w)
  <2>1. Whole(w)
    BY <1>2, <1>3, <1>5 DEF Whole, Drawable, NodesOf, empty
  <2>2. Wholly(w)
    BY <1>4, <1>5 DEF Wholly
  <2> QED BY <2>1, <2>2
<1>6. empty = {} /\ empty \in SUBSET Lines /\ "files" \in ComprehensiveStages
  BY DEF empty, ComprehensiveStages
<1> QED BY <1>1, <1>2, <1>5, <1>6, StageDraws

\* It asks for the files, and adds their folders.
LEMMA ViewsReadFiles ==
  ASSUME Joined(graph), ViewInv, ReadFiles
  PROVE  ViewInv' /\ UNCHANGED <<graph, indexing, erasing, trace>>
<1> DEFINE files == OfKind("File") \cap view.scope
           nodes == view.nodes \cup files \cup FoldersOf(files)
           empty == {}
<1>1. Reading("comprehensive", "files") /\ Draw("symbols", nodes, empty)
  BY DEF ReadFiles
<1>2. "files" \in ComprehensiveStages /\ "symbols" \in ComprehensiveStages
  BY DEF ComprehensiveStages
<1>3. /\ Whole(view) /\ Wholly(view) /\ Between(view, graph) /\ view.at = "files" /\ view.nodes \in SUBSET Shapes
      /\ graph.nodes \subseteq Drawable(view) /\ FoldersOf(OfKind("File")) \subseteq Drawable(view)
  BY <1>1, <1>2, StageIs
<1>4. /\ files \subseteq OfKind("File") /\ files \subseteq view.scope /\ files \subseteq graph.nodes /\ files \in SUBSET AllNodes
      /\ \A n \in files : KindOf(n) = "File"
  BY OfKindIs
<1>5. FoldersOf(files) \subseteq FoldersOf(OfKind("File")) /\ FoldersOf(files) \subseteq Folders
  <2>1. FileNodes(files) = files
    BY <1>4 DEF FileNodes
  <2> HIDE DEF files
  <2> QED BY <1>4, <2>1, FoldersAre
<1>6. \A n \in graph.nodes \cap view.scope : KindOf(n) = "File" => n \in files
  BY DEF OfKind
<1> HIDE DEF files
<1>7. nodes \in SUBSET Shapes /\ nodes \subseteq Drawable(view)
  BY <1>3, <1>4, <1>5 DEF Shapes, Whole
<1>8. FoldersOf(FileNodes(nodes)) \subseteq nodes
  <2>1. FileNodes(nodes) = FileNodes(view.nodes) \cup files
    BY <1>4, <1>5, FoldersAre DEF FileNodes
  <2>2. FoldersOf(FileNodes(view.nodes) \cup files) = FoldersOf(FileNodes(view.nodes)) \cup FoldersOf(files)
    BY DEF FoldersOf
  <2> QED BY <1>3, <2>1, <2>2 DEF Whole
<1>9. \A n \in nodes : \/ n \in Folders \/ KindOf(n) = "Repo"
                       \/ KindOf(n) \in {"File", "Symbol"} /\ n \in view.scope
  BY <1>3, <1>4, <1>5 DEF Whole
<1>10. view.nodes \subseteq nodes /\ files \subseteq nodes
  OBVIOUS
<1> HIDE DEF nodes, empty
<1>11. ASSUME NEW w, w.at = "symbols", w.scope = view.scope, w.nodes = nodes, w.edges = empty,
              w.steady = view.steady, w.ever = view.ever
       PROVE  Whole(w) /\ Wholly(w)
  <2>1. Drawable(w) = Drawable(view)
    BY <1>11 DEF Drawable
  <2>2. Whole(w)
    BY <1>7, <1>8, <1>9, <1>11, <2>1 DEF Whole, NodesOf, empty
  <2>3. Wholly(w)
    BY <1>3, <1>6, <1>10, <1>11 DEF Wholly, Between
  <2> QED BY <2>2, <2>3
<1>12. empty = {} /\ empty \in SUBSET Lines
  BY DEF empty
<1> QED BY <1>1, <1>2, <1>7, <1>11, <1>12, StageDraws

\* It asks for the symbols, and adds what holds files and folders.
LEMMA ViewsReadSymbols ==
  ASSUME Joined(graph), ViewInv, ReadSymbols
  PROVE  ViewInv' /\ UNCHANGED <<graph, indexing, erasing, trace>>
<1> DEFINE roots == {n \in view.nodes \ Folders : KindOf(n) = "Repo"}
           tops  == {n \in view.nodes : n \in Folders /\ FoldersTo[n] = {}}
           nodes == view.nodes \cup (OfKind("Symbol") \cap view.scope)
           held  == {<<r, "CONTAINS", d>> : r \in roots, d \in tops}
           edges == Folding(view.nodes) \cup held
<1>1. Reading("comprehensive", "symbols") /\ Draw("contents", nodes, edges)
  BY DEF ReadSymbols
<1>2. "symbols" \in ComprehensiveStages /\ "contents" \in ComprehensiveStages
  BY DEF ComprehensiveStages
<1>3. /\ Whole(view) /\ Wholly(view) /\ Between(view, graph) /\ view.at = "symbols" /\ view.nodes \in SUBSET Shapes
      /\ graph.nodes \subseteq Drawable(view)
  BY <1>1, <1>2, StageIs
<1>4. OfKind("Symbol") \subseteq graph.nodes /\ OfKind("Symbol") \subseteq AllNodes /\ \A n \in OfKind("Symbol") : KindOf(n) = "Symbol"
  BY OfKindIs
<1>5. \A n \in graph.nodes \cap view.scope : KindOf(n) = "Symbol" => n \in nodes
  BY DEF OfKind
<1>6. nodes \in SUBSET Shapes /\ nodes \subseteq Drawable(view) /\ view.nodes \subseteq nodes
  BY <1>3, <1>4 DEF Shapes, Whole
<1>7. FileNodes(nodes) = FileNodes(view.nodes)
  BY <1>4 DEF FileNodes
<1>8. \A n \in nodes : \/ n \in Folders \/ KindOf(n) = "Repo"
                       \/ KindOf(n) \in {"File", "Symbol"} /\ n \in view.scope
  BY <1>3, <1>4 DEF Whole
<1>9. edges \subseteq Folding(nodes) \cup RootFolds(nodes)
  <2>1. Folding(view.nodes) \subseteq Folding(nodes)
    BY <1>6 DEF Folding
  <2>2. held \subseteq RootFolds(nodes)
    BY <1>6 DEF RootFolds
  <2> QED BY <2>1, <2>2
<1>10. NodesOf(edges) \subseteq nodes /\ edges \in SUBSET Lines
  <2>1. NodesOf(Folding(view.nodes)) \subseteq nodes /\ Folding(view.nodes) \in SUBSET Lines
    BY <1>3, <1>6, FoldingIs
  <2>2. \A e \in held : e[1] \in view.nodes /\ e[3] \in view.nodes /\ e \in Lines
    BY <1>3 DEF Lines, EdgeTypes
  <2> HIDE DEF held, nodes
  <2>3. NodesOf(held) \subseteq nodes
    BY <1>6, <2>2, EndsOf
  <2> QED BY <2>1, <2>2, <2>3, EndsOf
<1> HIDE DEF nodes, edges
<1>11. ASSUME NEW w, w.at = "contents", w.scope = view.scope, w.nodes = nodes, w.edges = edges,
              w.steady = view.steady, w.ever = view.ever
       PROVE  Whole(w) /\ Wholly(w)
  <2>1. Drawable(w) = Drawable(view)
    BY <1>11 DEF Drawable
  <2>2. FoldersOf(FileNodes(nodes)) \subseteq nodes
    BY <1>3, <1>6, <1>7 DEF Whole
  <2>3. Whole(w)
    BY <1>6, <1>8, <1>9, <1>10, <1>11, <2>1, <2>2 DEF Whole
  <2>4. Wholly(w)
    BY <1>3, <1>5, <1>6, <1>11 DEF Wholly, Between
  <2> QED BY <2>3, <2>4
<1>12. "contents" \notin {"files", "symbols"}
  OBVIOUS
<1> QED BY <1>1, <1>2, <1>6, <1>10, <1>11, <1>12, StageDraws

\* A query of the comprehensive view that adds edges between the nodes it shows.
LEMMA EdgesAdded ==
  ASSUME Joined(graph), ViewInv, NEW from \in ComprehensiveStages \ {"files", "symbols"}, Reading("comprehensive", from),
         NEW to \in ComprehensiveStages \ {"files", "symbols"}, NEW came, came \subseteq graph.edges,
         Draw(to, view.nodes, view.edges \cup Among(came, view.nodes)),
         from \in {"contents", "CALLS"} /\ to \in {"IMPORTS", "CONTAINS", "cut"} /\ Cardinality(CallsIn(graph.edges)) < EdgeLimit
           => BetweenSymbols(CallsIn(graph.edges)) \subseteq came
  PROVE  ViewInv' /\ UNCHANGED <<graph, indexing, erasing, trace>>
<1> DEFINE edges == view.edges \cup Among(came, view.nodes)
<1>1. /\ Whole(view) /\ Wholly(view) /\ Between(view, graph) /\ view.at = from /\ view.nodes \in SUBSET Shapes
      /\ view.edges \in SUBSET Lines /\ view \in Views
  BY StageIs
<1>2. /\ Among(came, view.nodes) \subseteq came /\ NodesOf(Among(came, view.nodes)) \subseteq view.nodes
      /\ NodesOf(edges) = NodesOf(view.edges) \cup NodesOf(Among(came, view.nodes))
      /\ graph.edges \subseteq Lines /\ graph.edges \subseteq view.ever.edges
  <2>1. Among(came, view.nodes) \subseteq came /\ NodesOf(Among(came, view.nodes)) \subseteq view.nodes
    BY EndsOf
  <2>2. NodesOf(edges) = NodesOf(view.edges) \cup NodesOf(Among(came, view.nodes))
    <3>1. \A es, fs : NodesOf(es \cup fs) = NodesOf(es) \cup NodesOf(fs)
      BY EndsOf
    <3> QED BY <3>1, Zenon
  <2>3. graph.edges \subseteq Lines /\ graph.edges \subseteq view.ever.edges
    BY <1>1, GraphIs DEF Between
  <2> QED BY <2>1, <2>2, <2>3
<1>3. /\ edges \in SUBSET Lines /\ NodesOf(edges) \subseteq view.nodes /\ view.edges \subseteq edges
      /\ edges \subseteq view.ever.edges \cup Folding(view.nodes) \cup RootFolds(view.nodes)
      /\ Among(came, view.nodes) \subseteq edges
  BY <1>1, <1>2 DEF Whole
<1>4. view.steady.edges \subseteq graph.edges /\ Joined(view.ever) /\ view.ever.edges \in SUBSET Edges
  BY <1>1 DEF Between, Joined, Graphs
<1> HIDE DEF edges
<1>5. ASSUME to \in {"IMPORTS", "CONTAINS", "cut"}, Cardinality(CallsIn(view.ever.edges)) < EdgeLimit
      PROVE  BetweenSymbols(Among(CallsIn(view.steady.edges), view.nodes)) \subseteq edges
  <2>1. CASE from \in {"contents", "CALLS"}
    <3>1. /\ Cardinality(CallsIn(graph.edges)) <= Cardinality(CallsIn(view.ever.edges))
          /\ {Cardinality(CallsIn(graph.edges)), Cardinality(CallsIn(view.ever.edges)), EdgeLimit} \subseteq Nat
      BY <1>2, <1>4, CallsCount, ViewsAssumption
    <3>2. Cardinality(CallsIn(graph.edges)) < EdgeLimit
      BY <1>5, <3>1
    <3>3. BetweenSymbols(CallsIn(graph.edges)) \subseteq came
      BY <1>5, <2>1, <3>2
    <3>4. BetweenSymbols(Among(CallsIn(view.steady.edges), view.nodes)) \subseteq Among(BetweenSymbols(CallsIn(graph.edges)), view.nodes)
      BY <1>4 DEF BetweenSymbols, Among, CallsIn
    <3>5. Among(BetweenSymbols(CallsIn(graph.edges)), view.nodes) \subseteq Among(came, view.nodes)
      BY <3>3 DEF Among
    <3> QED BY <1>3, <3>4, <3>5
  <2>2. CASE from \notin {"contents", "CALLS"}
    <3>1. view.at \in {"IMPORTS", "CONTAINS", "cut", "done"}
      BY <1>1, <2>2 DEF ComprehensiveStages
    <3> QED BY <1>1, <1>3, <1>5, <3>1 DEF Wholly
  <2> QED BY <2>1, <2>2
<1>6. ASSUME NEW w, w.at = to, w.scope = view.scope, w.nodes = view.nodes, w.edges = edges,
             w.steady = view.steady, w.ever = view.ever
      PROVE  Whole(w) /\ Wholly(w)
  <2>1. Drawable(w) = Drawable(view)
    BY <1>6 DEF Drawable
  <2>2. Whole(w)
    BY <1>1, <1>3, <1>6, <2>1 DEF Whole
  <2>3. from \notin {"files", "symbols"} /\ to \notin {"files", "symbols"} /\ to # "done"
    BY DEF ComprehensiveStages
  <2>4. \A n \in w.steady.nodes \cap w.scope :
          /\ KindOf(n) = "Repo" => n \in w.nodes
          /\ KindOf(n) = "File" => n \in w.nodes
          /\ KindOf(n) = "Symbol" => n \in w.nodes
    BY <1>1, <1>6, <2>3 DEF Wholly
  <2>5. w.at \in {"IMPORTS", "CONTAINS", "cut", "done"} /\ Cardinality(CallsIn(w.ever.edges)) < EdgeLimit
          => BetweenSymbols(Among(CallsIn(w.steady.edges), w.nodes)) \subseteq w.edges
    BY <1>5, <1>6, <2>3
  <2> QED BY <2>2, <2>4, <2>5 DEF Wholly
<1>7. from # "read" /\ from \in ComprehensiveStages \cup {"read"} /\ to \in ComprehensiveStages /\ to \notin {"files", "symbols"}
  BY DEF ComprehensiveStages
<1> QED BY <1>1, <1>3, <1>6, <1>7, StageDraws DEF edges

\* It asks for what holds the symbols.
LEMMA ViewsReadContents ==
  ASSUME Joined(graph), ViewInv, ReadContents
  PROVE  ViewInv' /\ UNCHANGED <<graph, indexing, erasing, trace>>
<1> DEFINE held == {e \in OfType("CONTAINS") : KindOf(e[1]) = "File" /\ KindOf(e[3]) = "Symbol"}
<1>1. Reading("comprehensive", "contents") /\ Draw("CALLS", view.nodes, view.edges \cup Among(held, view.nodes))
  BY DEF ReadContents
<1>2. held \subseteq graph.edges
  BY DEF OfType
<1>3. {"contents", "CALLS"} \subseteq ComprehensiveStages \ {"files", "symbols"} /\ "CALLS" \notin {"IMPORTS", "CONTAINS", "cut"}
  BY DEF ComprehensiveStages
<1> HIDE DEF held
<1> QED BY <1>1, <1>2, <1>3, EdgesAdded

\* It asks for the edges between symbols, type by type.
LEMMA ViewsReadRelations ==
  ASSUME Joined(graph), ViewInv, NEW type \in Semantic, ReadRelations(type)
  PROVE  ViewInv' /\ UNCHANGED <<graph, indexing, erasing, trace>>
<1> DEFINE between == {e \in OfType(type) : {KindOf(e[1]), KindOf(e[3])} = {"Symbol"}}
           to == NextType[type]
<1>1. Reading("comprehensive", type)
  BY DEF ReadRelations
<1>2. PICK came \in AnySlice(between, EdgeLimit) : Draw(to, view.nodes, view.edges \cup Among(came, view.nodes))
  BY DEF ReadRelations
<1>3. to = CASE type = "CALLS" -> "IMPORTS" [] type = "IMPORTS" -> "CONTAINS" [] OTHER -> "cut"
  BY DEF NextType
<1>4. /\ type \in {"CALLS", "IMPORTS", "CONTAINS"} /\ to \in {"IMPORTS", "CONTAINS", "cut"}
      /\ type \in ComprehensiveStages \ {"files", "symbols"} /\ to \in ComprehensiveStages \ {"files", "symbols"}
  BY <1>3 DEF Semantic, ComprehensiveStages
<1>5. between \subseteq graph.edges /\ IsFiniteSet(between) /\ EdgeLimit \in Int /\ EdgeLimit >= 0
  <2>1. between \subseteq graph.edges /\ IsFiniteSet(graph.edges)
    BY GraphIs DEF OfType
  <2> HIDE DEF between
  <2> QED BY <2>1, FS_Subset, ViewsAssumption
<1>6. type = "CALLS" => between = BetweenSymbols(CallsIn(graph.edges))
  BY DEF OfType, BetweenSymbols, CallsIn
<1>7. between \subseteq CallsIn(graph.edges) \/ type # "CALLS"
  BY DEF OfType, CallsIn
<1> HIDE DEF between, to
<1>8. came \subseteq between /\ (Cardinality(came) # EdgeLimit => came = between)
  BY <1>5, SliceHas
<1>9. type = "CALLS" /\ Cardinality(CallsIn(graph.edges)) < EdgeLimit => came = between
  <2> SUFFICES ASSUME type = "CALLS", Cardinality(CallsIn(graph.edges)) < EdgeLimit PROVE Cardinality(came) # EdgeLimit
    BY <1>8
  <2>1. graph.edges \in SUBSET Edges
    BY DEF Joined, Graphs
  <2>2. IsFiniteSet(CallsIn(graph.edges)) /\ Cardinality(CallsIn(graph.edges)) \in Nat
    BY <2>1, CallsCount
  <2>3. came \subseteq CallsIn(graph.edges)
    BY <1>7, <1>8
  <2>4. Cardinality(came) \in Nat /\ Cardinality(came) <= Cardinality(CallsIn(graph.edges))
    BY <2>2, <2>3, FS_Subset, FS_CardinalityType
  <2> QED BY <2>2, <2>4, ViewsAssumption
<1>10. type \in {"contents", "CALLS"} => type = "CALLS"
  BY <1>4
<1>11. came \subseteq graph.edges
  BY <1>5, <1>8
<1> QED BY <1>1, <1>2, <1>4, <1>6, <1>9, <1>10, <1>11, EdgesAdded

\* Half of what is left of a limit, at most the files there are.
LEMMA ShareIs ==
  ASSUME NEW rest \in Int, rest >= 0, NEW count \in Nat
  PROVE  /\ Min({count, rest \div 2}) \in Nat /\ Min({count, rest \div 2}) <= count
         /\ rest - Min({count, rest \div 2}) \in Int /\ rest - Min({count, rest \div 2}) >= 0
         /\ Min({count, rest \div 2}) # rest \div 2 => Min({count, rest \div 2}) = count
<1>1. rest \in Nat
  OBVIOUS
<1>2. rest \div 2 \in Nat /\ rest \div 2 <= rest
  BY <1>1, PartsOf
<1> DEFINE half == rest \div 2
           share == Min({count, half})
<1>3. half \in Nat /\ half <= rest
  BY <1>2
<1> HIDE DEF half
<1>4. share = IF count <= half THEN count ELSE half
  BY <1>3, MinIs
<1> HIDE DEF share
<1>5. share \in Nat /\ share <= count /\ rest - share \in Int /\ rest - share >= 0 /\ (share # half => share = count)
  BY <1>1, <1>3, <1>4
<1> QED BY <1>5 DEF share, half

\* The comprehensive view is what came together of folders, files and symbols.
LEMMA PartsShown ==
  ASSUME NEW v, Whole(v), v.nodes \in SUBSET Shapes
  PROVE  LET frame   == Frame(v)
             files   == FileNodes(v.nodes)
             symbols == {n \in v.nodes : KindOf(n) = "Symbol"}
         IN  /\ {n \in v.nodes \ Folders : KindOf(n) = "File"} = files
             /\ v.nodes = frame \cup files \cup symbols /\ files \subseteq AllNodes
             /\ IsFiniteSet(frame) /\ IsFiniteSet(files) /\ IsFiniteSet(symbols)
             /\ \A fs \in SUBSET files, ss \in SUBSET symbols :
                  frame \cap fs = {} /\ (frame \cup fs) \cap ss = {} /\ FileNodes(frame \cup fs \cup ss) = fs
<1> DEFINE frame   == Frame(v)
           files   == FileNodes(v.nodes)
           symbols == {n \in v.nodes : KindOf(n) = "Symbol"}
<1>1. \A n \in Folders : KindOf(n) \notin {"Repo", "File", "Symbol"}
  BY FoldersAre
<1>2. \A n \in files : n \notin Folders /\ KindOf(n) = "File" /\ n \in v.nodes /\ n \in AllNodes
  BY <1>1 DEF FileNodes, Shapes
<1>3. \A n \in symbols : n \notin Folders /\ KindOf(n) = "Symbol" /\ n \in v.nodes
  BY <1>1
<1>4. \A n \in frame : (n \in Folders \/ KindOf(n) = "Repo") /\ KindOf(n) \notin {"File", "Symbol"} /\ n \in v.nodes
  BY <1>1 DEF Frame
<1>5. v.nodes = frame \cup files \cup symbols
  BY DEF Whole, Frame, FileNodes
<1>6. {n \in v.nodes \ Folders : KindOf(n) = "File"} = files
  BY <1>1 DEF FileNodes
<1>7. IsFiniteSet(frame) /\ IsFiniteSet(files) /\ IsFiniteSet(symbols)
  <2>1. IsFiniteSet(Shapes) /\ frame \subseteq Shapes /\ files \subseteq Shapes /\ symbols \subseteq Shapes
    BY <1>2, <1>3, <1>4, FoldersAre
  <2> HIDE DEF frame, files, symbols
  <2> QED BY <2>1, FS_Subset
<1> HIDE DEF frame, files, symbols
<1>8. ASSUME NEW fs \in SUBSET files, NEW ss \in SUBSET symbols
      PROVE  frame \cap fs = {} /\ (frame \cup fs) \cap ss = {} /\ FileNodes(frame \cup fs \cup ss) = fs
  <2>1. frame \cap fs = {} /\ (frame \cup fs) \cap ss = {}
    BY <1>2, <1>3, <1>4
  <2>2. FileNodes(frame \cup fs \cup ss) = fs
    BY <1>2, <1>3, <1>4 DEF FileNodes
  <2> QED BY <2>1, <2>2
<1> QED BY <1>2, <1>5, <1>6, <1>7, <1>8 DEF frame, files, symbols

\* What is cut of a view still has the folders of its files and the ends of its edges.
LEMMA CutStaysWhole ==
  ASSUME NEW v, NEW w, Whole(v), v.nodes \in SUBSET Shapes, Frame(v) \subseteq w.nodes, w.nodes \subseteq v.nodes,
         w.edges = Among(v.edges, w.nodes), w.ever = v.ever, w.scope = v.scope
  PROVE  Whole(w) /\ Frame(w) = Frame(v)
<1>1. w.nodes \subseteq Drawable(w) /\ Drawable(w) = Drawable(v)
  BY DEF Whole, Drawable
<1>2. FoldersOf(FileNodes(w.nodes)) \subseteq w.nodes
  <2>1. FileNodes(w.nodes) \subseteq FileNodes(v.nodes) /\ FileNodes(v.nodes) \in SUBSET AllNodes
    <3>1. FileNodes(v.nodes) \subseteq AllNodes
      BY FoldersAre DEF FileNodes, Shapes
    <3> QED BY <3>1 DEF FileNodes
  <2>2. FileNodes(FileNodes(v.nodes)) = FileNodes(v.nodes)
    BY DEF FileNodes
  <2>3. FoldersOf(FileNodes(w.nodes)) \subseteq FoldersOf(FileNodes(v.nodes)) /\ FoldersOf(FileNodes(v.nodes)) \subseteq Folders
    BY <2>1, <2>2, FoldersAre
  <2>4. FoldersOf(FileNodes(v.nodes)) \subseteq v.nodes
    BY DEF Whole
  <2>5. FoldersOf(FileNodes(v.nodes)) \subseteq Frame(v)
    BY <2>3, <2>4 DEF Frame
  <2> QED BY <2>3, <2>5
<1>3. \A n \in w.nodes : \/ n \in Folders \/ KindOf(n) = "Repo"
                         \/ KindOf(n) \in {"File", "Symbol"} /\ n \in w.scope
  BY DEF Whole
<1>4. NodesOf(w.edges) \subseteq w.nodes
  BY EndsOf
<1>5. w.edges \subseteq w.ever.edges \cup Folding(w.nodes) \cup RootFolds(w.nodes)
  <2> SUFFICES ASSUME NEW e \in w.edges PROVE e \in w.ever.edges \cup Folding(w.nodes) \cup RootFolds(w.nodes)
    OBVIOUS
  <2>1. e \in v.edges /\ e[1] \in w.nodes /\ e[3] \in w.nodes
    BY DEF Among
  <2>2. CASE e \in Folding(v.nodes)
    <3>1. PICK n \in v.nodes \cap DOMAIN FolderOf : FolderOf[n] \in v.nodes /\ e = <<FolderOf[n], "CONTAINS", n>>
      BY <2>2 DEF Folding
    <3>2. n \in w.nodes /\ FolderOf[n] \in w.nodes
      BY <2>1, <3>1
    <3> QED BY <3>1, <3>2 DEF Folding
  <2>3. CASE e \in RootFolds(v.nodes)
    <3>1. PICK r \in {n \in v.nodes \ Folders : KindOf(n) = "Repo"}, d \in v.nodes \cap Folders : e = <<r, "CONTAINS", d>>
      BY <2>3 DEF RootFolds
    <3>2. r \in w.nodes /\ d \in w.nodes
      BY <2>1, <3>1
    <3> QED BY <3>1, <3>2 DEF RootFolds
  <2> QED BY <2>1, <2>2, <2>3 DEF Whole
<1>6. Frame(w) = Frame(v)
  BY DEF Frame
<1> QED BY <1>1, <1>2, <1>3, <1>4, <1>5, <1>6 DEF Whole

\* A comprehensive view of more nodes than the limit, and what is left of it.
CutOf(v, limit, rest, share, fs, ss, nodes) ==
  /\ Whole(v) /\ v.nodes \in SUBSET Shapes /\ limit \in Nat /\ Cardinality(v.nodes) > limit
  /\ rest = limit - Cardinality(Frame(v)) /\ share = Min({Cardinality(FileNodes(v.nodes)), rest \div 2})
  /\ fs \in AnySlice(FileNodes(v.nodes), share)
  /\ ss \in AnySlice({n \in v.nodes : KindOf(n) = "Symbol"}, rest - share)
  /\ nodes = Frame(v) \cup fs \cup ss

\* What the cut leaves fits, and is short of the limit only when nothing was cut, or when
\* the files had their half.
LEMMA CutFits ==
  ASSUME NEW v, NEW limit, NEW rest, NEW share, NEW fs, NEW ss, NEW nodes, CutOf(v, limit, rest, share, fs, ss, nodes)
  PROVE  /\ Frame(v) \subseteq nodes /\ nodes \subseteq v.nodes
         /\ Cardinality(nodes) <= limit \/ Cardinality(Frame(v)) > limit
         /\ ~(Cardinality(nodes) < limit /\ Cardinality(FileNodes(nodes)) # rest \div 2)
<1> DEFINE frame   == Frame(v)
           files   == FileNodes(v.nodes)
           symbols == {n \in v.nodes : KindOf(n) = "Symbol"}
<1>0. Whole(v) /\ v.nodes \in SUBSET Shapes /\ limit \in Nat /\ Cardinality(v.nodes) > limit
  BY DEF CutOf
<1>1. /\ v.nodes = frame \cup files \cup symbols
      /\ IsFiniteSet(frame) /\ IsFiniteSet(files) /\ IsFiniteSet(symbols)
      /\ \A gs \in SUBSET files, ts \in SUBSET symbols :
           frame \cap gs = {} /\ (frame \cup gs) \cap ts = {} /\ FileNodes(frame \cup gs \cup ts) = gs
  BY <1>0, PartsShown
<1>2. fs \in AnySlice(files, share) /\ ss \in AnySlice(symbols, rest - share) /\ nodes = frame \cup fs \cup ss
      /\ rest = limit - Cardinality(frame) /\ share = Min({Cardinality(files), rest \div 2}) /\ limit \in Nat
  BY DEF CutOf
<1>3. fs \subseteq files /\ ss \subseteq symbols
  BY <1>2 DEF AnySlice
<1> HIDE DEF frame, files, symbols
<1>4. /\ IsFiniteSet(fs) /\ IsFiniteSet(ss)
      /\ Cardinality(frame) \in Nat /\ Cardinality(files) \in Nat /\ Cardinality(fs) \in Nat /\ Cardinality(ss) \in Nat
      /\ rest \in Int
  <2>1. IsFiniteSet(fs) /\ IsFiniteSet(ss)
    BY <1>1, <1>3, FS_Subset
  <2> QED BY <2>1, <1>1, <1>2, FS_CardinalityType
<1>5. /\ Cardinality(nodes) = Cardinality(frame) + Cardinality(fs) + Cardinality(ss) /\ FileNodes(nodes) = fs
      /\ Cardinality(nodes) \in Nat
  <2>1. frame \cap fs = {} /\ (frame \cup fs) \cap ss = {} /\ FileNodes(frame \cup fs \cup ss) = fs
    BY <1>1, <1>3
  <2>2. IsFiniteSet(frame \cup fs) /\ Cardinality(frame \cup fs) = Cardinality(frame) + Cardinality(fs)
    BY <2>1, <1>1, <1>4, UnionFits
  <2>3. Cardinality((frame \cup fs) \cup ss) = Cardinality(frame \cup fs) + Cardinality(ss)
    BY <2>1, <2>2, <1>4, UnionFits
  <2>4. nodes = (frame \cup fs) \cup ss /\ FileNodes(nodes) = fs
    BY <2>1, <1>2
  <2>5. Cardinality(nodes) = Cardinality(frame) + Cardinality(fs) + Cardinality(ss)
    BY <2>2, <2>3, <2>4
  <2> QED BY <2>4, <2>5, <1>4
<1>6. frame \subseteq nodes /\ nodes \subseteq v.nodes
  BY <1>1, <1>2, <1>3
<1>7. CASE rest < 0
  <2>1. Cardinality(frame) > limit /\ Cardinality(nodes) > limit
    BY <1>2, <1>4, <1>5, <1>7
  <2>2. ~(Cardinality(nodes) < limit)
    BY <2>1, <1>2, <1>5
  <2> QED BY <2>1, <2>2, <1>6 DEF frame
<1>8. CASE rest >= 0
  <2>1. /\ share \in Nat /\ share <= Cardinality(files) /\ rest - share \in Int /\ rest - share >= 0
        /\ share # rest \div 2 => share = Cardinality(files)
    BY <1>2, <1>4, <1>8, ShareIs
  <2>2. Cardinality(fs) = share /\ fs \subseteq files
    <3>1. share \in Int /\ share >= 0 /\ Cardinality(files) >= share
      BY <2>1, <1>4
    <3> QED BY <3>1, <1>1, <1>2, SliceHas
  <2>3. /\ Cardinality(ss) <= rest - share
        /\ Cardinality(ss) # rest - share => ss = symbols
    BY <2>1, <1>1, <1>2, SliceHas
  <2>4. Cardinality(nodes) <= limit
    <3> DEFINE a == Cardinality(frame)
               b == Cardinality(ss)
               c == Cardinality(nodes)
    <3>1. c = a + share + b /\ rest = limit - a /\ a \in Nat /\ b \in Nat /\ c \in Nat
      BY <2>2, <1>2, <1>4, <1>5
    <3>2. b <= rest - share /\ share \in Nat
      BY <2>1, <2>3
    <3> HIDE DEF a, b, c
    <3>3. c <= limit
      BY <3>1, <3>2, <1>2
    <3> QED BY <3>3 DEF c
  <2>5. ASSUME Cardinality(nodes) < limit, Cardinality(FileNodes(nodes)) # rest \div 2
        PROVE  FALSE
    <3>1. share = Cardinality(files)
      BY <2>1, <2>2, <2>5, <1>5
    <3>2. fs = files
      BY <3>1, <2>2, <1>1, FS_Subset
    <3>3. Cardinality(ss) # rest - share
      <4> DEFINE a == Cardinality(frame)
                 b == Cardinality(ss)
                 c == Cardinality(nodes)
      <4>1. c = a + share + b /\ rest = limit - a /\ a \in Nat /\ b \in Nat /\ c \in Nat
        BY <2>2, <1>2, <1>4, <1>5
      <4>2. c < limit /\ share \in Nat
        BY <2>1, <2>5
      <4> HIDE DEF a, b, c
      <4>3. b # rest - share
        BY <4>1, <4>2, <1>2
      <4> QED BY <4>3 DEF b
    <3>4. nodes = v.nodes
      BY <3>2, <3>3, <2>3, <1>1, <1>2
    <3> QED BY <3>4, <2>5, <1>0, <1>5
  <2> QED BY <2>4, <2>5, <1>6 DEF frame
<1> QED BY <1>4, <1>7, <1>8

\* It keeps folders, and of files and symbols what the limit leaves room for.
LEMMA ViewsKeepWithinLimit ==
  ASSUME Joined(graph), ViewInv, KeepWithinLimit
  PROVE  ViewInv' /\ UNCHANGED <<graph, indexing, erasing, trace>>
<1> DEFINE limit   == view.limit
           frame   == Frame(view)
           files   == FileNodes(view.nodes)
           symbols == {n \in view.nodes : KindOf(n) = "Symbol"}
           rest    == limit - Cardinality(frame)
           share   == Min({Cardinality(files), rest \div 2})
<1>1. Reading("comprehensive", "cut") /\ "cut" \in ComprehensiveStages
  BY DEF KeepWithinLimit, ComprehensiveStages
<1>2. /\ Whole(view) /\ Wholly(view) /\ Between(view, graph) /\ view.kind = "comprehensive" /\ view.at = "cut"
      /\ view.at \in Middle /\ view.nodes \in SUBSET Shapes /\ view.edges \in SUBSET Lines /\ limit \in Nat
  BY <1>1, StageIs
<1>3. {n \in view.nodes \ Folders : KindOf(n) = "File"} = files /\ view.nodes = frame \cup files \cup symbols
  BY <1>2, PartsShown
<1>4. PICK fs \in AnySlice(files, share), ss \in AnySlice(symbols, rest - share) :
        LET nodes == IF Cardinality(view.nodes) <= limit THEN view.nodes ELSE frame \cup fs \cup ss
        IN  Draw("done", nodes, Among(view.edges, nodes))
  <2> DEFINE frame0 == {n \in view.nodes : n \in Folders \/ KindOf(n) = "Repo"}
             files0 == {n \in view.nodes \ Folders : KindOf(n) = "File"}
             rest0  == view.limit - Cardinality(frame0)
             share0 == Min({Cardinality(files0), rest0 \div 2})
  <2>1. \E fs \in AnySlice(files0, share0), ss \in AnySlice(symbols, rest0 - share0) :
          LET nodes == IF Cardinality(view.nodes) <= view.limit THEN view.nodes ELSE frame0 \cup fs \cup ss
          IN  Draw("done", nodes, Among(view.edges, nodes))
    BY Zenon DEF KeepWithinLimit
  <2>2. frame0 = frame /\ files0 = files
    BY <1>3 DEF Frame
  <2>3. rest0 = rest /\ share0 = share
    BY <2>2
  <2> HIDE DEF frame0, files0, rest0, share0, frame, files, rest, share, symbols
  <2> QED BY <2>1, <2>2, <2>3
<1> DEFINE nodes == IF Cardinality(view.nodes) <= limit THEN view.nodes ELSE frame \cup fs \cup ss
<1> HIDE DEF share, nodes
<1>5. Cardinality(view.nodes) \in Nat
  <2>1. IsFiniteSet(view.nodes)
    BY <1>2, FoldersAre, FS_Subset
  <2> QED BY <2>1, FS_CardinalityType
<1>6. Among(view.edges, nodes) \in SUBSET Lines /\ Among(view.edges, nodes) \subseteq view.edges
  BY <1>2 DEF Among
<1>6a. fs \subseteq files /\ ss \subseteq symbols /\ Draw("done", nodes, Among(view.edges, nodes))
  BY <1>4 DEF AnySlice, nodes
<1> DEFINE w == view'
           edges == Among(view.edges, nodes)
<1>7. frame \subseteq nodes /\ nodes \subseteq view.nodes /\ (Cardinality(view.nodes) <= limit => nodes = view.nodes)
  <2> HIDE DEF frame, files, symbols
  <2> QED BY <1>3, <1>6a DEF nodes
<1>8. /\ Cardinality(nodes) <= limit \/ Cardinality(frame) > limit
      /\ Cardinality(view.nodes) <= limit \/ ~(Cardinality(nodes) < limit /\ Cardinality(FileNodes(nodes)) # rest \div 2)
  <2>1. CASE Cardinality(view.nodes) <= limit
    BY <2>1, <1>7
  <2>2. CASE ~(Cardinality(view.nodes) <= limit)
    <3>1. nodes = frame \cup fs \cup ss
      BY <2>2 DEF nodes
    <3>2. Whole(view) /\ view.nodes \in SUBSET Shapes /\ view.limit \in Nat /\ Cardinality(view.nodes) > view.limit
      BY <2>2, <1>2, <1>5
    <3>3. share = Min({Cardinality(files), rest \div 2})
      BY DEF share
    <3> DEFINE r == rest
    <3>4. r = limit - Cardinality(Frame(view)) /\ share = Min({Cardinality(FileNodes(view.nodes)), r \div 2})
      BY <3>3
    <3>5. fs \in AnySlice(FileNodes(view.nodes), share) /\ ss \in AnySlice({n \in view.nodes : KindOf(n) = "Symbol"}, r - share)
      BY <1>4
    <3>6. nodes = Frame(view) \cup fs \cup ss
      BY <3>1
    <3> HIDE DEF r
    <3>7. CutOf(view, view.limit, r, share, fs, ss, nodes)
      BY <3>2, <3>4, <3>5, <3>6 DEF CutOf
    <3>8. /\ Cardinality(nodes) <= view.limit \/ Cardinality(Frame(view)) > view.limit
          /\ ~(Cardinality(nodes) < view.limit /\ Cardinality(FileNodes(nodes)) # r \div 2)
      BY <3>7, CutFits
    <3> QED BY <3>8 DEF r
  <2> QED BY <2>1, <2>2
<1>9. Drawing(view, graph, "done", nodes, edges, w) /\ UNCHANGED <<graph, indexing, erasing, trace>>
  <2>1. nodes \in SUBSET Shapes /\ "done" \in Middle \cup {"done"}
    BY <1>2, <1>7
  <2> QED BY <2>1, <1>2, <1>6, <1>6a, DrawsOn
<1>10. /\ w.at = "done" /\ w.kind = "comprehensive" /\ w.scope = view.scope /\ w.limit = limit
       /\ w.nodes = nodes /\ w.edges = edges /\ w.steady = view.steady /\ w.ever = view.ever
  BY <1>2, <1>9, DrawnIs
<1> HIDE DEF w
<1>11. Whole(w) /\ Frame(w) = frame
  BY <1>2, <1>7, <1>10, CutStaysWhole
<1>12. ASSUME Cardinality(view.nodes) <= limit PROVE Wholly(w)
  <2>1. w.nodes = view.nodes /\ w.edges = view.edges
    <3>1. nodes = view.nodes
      BY <1>7, <1>12
    <3>2. Among(view.edges, view.nodes) = view.edges
      <4>1. \A e \in view.edges : e[1] \in view.nodes /\ e[3] \in view.nodes
        BY <1>2, EndsOf DEF Whole
      <4> QED BY <4>1 DEF Among
    <3> QED BY <3>1, <3>2, <1>10
  <2> QED BY <2>1, <1>2, <1>10 DEF Wholly
<1>13. ComprehensiveOK(w)
  <2>1. Cardinality(w.nodes) <= w.limit \/ Cardinality(Frame(w)) > w.limit
    BY <1>8, <1>10, <1>11
  <2>2. Cardinality(w.nodes) < w.limit /\ Cardinality(FileNodes(w.nodes)) # (w.limit - Cardinality(Frame(w))) \div 2
          => Cardinality(view.nodes) <= limit
    BY <1>8, <1>10, <1>11
  <2> QED BY <2>1, <2>2, <1>11, <1>12 DEF ComprehensiveOK
<1>14. ViewFacts(w)
  BY <1>10, <1>13, DoneHolds DEF DoneOK
<1> QED BY <1>9, <1>14, ViewHolds DEF w

\* A view that has read nothing, or shows nothing, has nothing to keep.
LEMMA QuietView ==
  ASSUME NEW v \in Views, v.at \in {"idle", "path", "read", "refused"} \/ (v.at = "done" /\ v.failed /\ v.kind = "none")
  PROVE  v.at \notin Middle /\ ViewFacts(v)
BY DEF ViewFacts, Middle

\* No view at all is one.
LEMMA NoViewIs ==
  NoView \in Views /\ [NoView EXCEPT !.at = "done", !.failed = TRUE] \in Views
<1>1. NoGraph \in Graphs
  BY DEF NoGraph, Graphs
<1>2. NoView \in Views
  BY <1>1 DEF NoView, Views, Stages
<1>3. "done" \in Stages /\ TRUE \in BOOLEAN
  BY DEF Stages
<1> QED BY <1>2, <1>3 DEF Views

\* A view is asked for.
LEMMA ViewsGenerate ==
  ASSUME ViewInv, NEW r \in Requests, Generate(r)
  PROVE  ViewInv' /\ UNCHANGED <<graph, indexing, erasing, trace>>
<1> DEFINE to == IF r.scope = AllNodes THEN "read" ELSE "path"
<1>1. view' = [view EXCEPT !.at = to, !.kind = r.kind, !.scope = r.scope, !.limit = r.limit, !.start = r.start, !.leg = r.leg]
  BY DEF Generate
<1>2. to \in {"read", "path"} /\ to \in Stages /\ r.limit \in Nat
  BY ViewsAssumption DEF Stages
<1> HIDE DEF to
<1>3. view' \in Views /\ view'.at = to
  BY <1>1, <1>2 DEF ViewInv, Views
<1>4. view'.at \notin Middle /\ ViewFacts(view')
  BY <1>2, <1>3, QuietView
<1>5. UNCHANGED <<graph, indexing, erasing, trace>>
  BY DEF Generate, graphVars
<1> QED BY <1>3, <1>4, <1>5 DEF ViewInv

\* A path is looked up first.
LEMMA ViewsPathExists ==
  ASSUME ViewInv, PathExists
  PROVE  ViewInv' /\ UNCHANGED <<graph, indexing, erasing, trace>>
<1>1. PICK to \in {"refused"} \cup {"read" : f \in OfKind("File") \cap view.scope} : view' = [view EXCEPT !.at = to]
  BY DEF PathExists
<1>2. to \in {"read", "refused"} /\ to \in Stages
  BY DEF Stages
<1>3. view' \in Views /\ view'.at = to
  BY <1>1, <1>2 DEF ViewInv, Views
<1>4. view'.at \notin Middle /\ ViewFacts(view')
  BY <1>2, <1>3, QuietView
<1>5. UNCHANGED <<graph, indexing, erasing, trace>>
  BY DEF PathExists, graphVars
<1> QED BY <1>3, <1>4, <1>5 DEF ViewInv

\* A query raises.
LEMMA ViewsQueryFails ==
  ASSUME ViewInv, QueryFails
  PROVE  ViewInv' /\ UNCHANGED <<graph, indexing, erasing, trace>>
<1>1. view' = [NoView EXCEPT !.at = "done", !.failed = TRUE]
  BY DEF QueryFails
<1>2. view' \in Views /\ view'.at = "done" /\ view'.failed /\ view'.kind = "none"
  BY <1>1, NoViewIs DEF NoView
<1>3. view'.at \notin Middle /\ ViewFacts(view')
  BY <1>2, QuietView
<1>4. UNCHANGED <<graph, indexing, erasing, trace>>
  BY DEF QueryFails, graphVars
<1> QED BY <1>2, <1>3, <1>4 DEF ViewInv

\* Every step of a view keeps the invariant, and leaves the store alone.
LEMMA ViewsStep ==
  ASSUME Joined(graph), ViewInv, ViewNext
  PROVE  ViewInv' /\ UNCHANGED <<graph, indexing, erasing, trace>>
<1>1. CASE (\E r \in Requests : Generate(r)) \/ PathExists \/ QueryFails
  BY <1>1, ViewsGenerate, ViewsPathExists, ViewsQueryFails
<1>2. CASE ViewArchitecture \/ ViewCalls \/ ViewCallChain \/ ViewDependencies
  BY <1>2, ViewsArchitecture, ViewsCalls, ViewsCallChain, ViewsDependencies
<1>3. CASE ViewHotspots \/ HotspotEdges
  BY <1>3, ViewsHotspots, ViewsHotspotEdges
<1>4. CASE FullArchitecture \/ FullCalls \/ FullDependencies
  BY <1>4, ViewsFullArchitecture, ViewsFullCalls, ViewsFullDependencies
<1>5. CASE ReadRepo \/ ReadFiles \/ ReadSymbols \/ ReadContents
  BY <1>5, ViewsReadRepo, ViewsReadFiles, ViewsReadSymbols, ViewsReadContents
<1>6. CASE (\E type \in Semantic : ReadRelations(type)) \/ KeepWithinLimit
  BY <1>6, ViewsReadRelations, ViewsKeepWithinLimit
<1> QED BY <1>1, <1>2, <1>3, <1>4, <1>5, <1>6 DEF ViewNext

\* A change of the store leaves a view that reads it true of the graphs it met.
LEMMA ViewsMeetStore ==
  ASSUME ViewInv, Joined(graph'), view.at \notin {"refused", "done"},
         view' = IF view.at \in {"idle", "path", "read"} THEN view
                 ELSE [view EXCEPT !.changes = @ + 1,
                                   !.steady = [nodes |-> @.nodes \cap graph'.nodes, edges |-> @.edges \cap graph'.edges],
                                   !.ever = [nodes |-> @.nodes \cup graph'.nodes, edges |-> @.edges \cup graph'.edges]]
  PROVE  ViewInv'
<1>1. CASE view.at \in {"idle", "path", "read"}
  <2>1. view' = view /\ view.at \notin Middle
    BY <1>1 DEF Middle
  <2> QED BY <2>1 DEF ViewInv
<1>2. CASE view.at \notin {"idle", "path", "read"}
  <2>1. view \in Views /\ view.at \in Middle
    BY <1>2 DEF ViewInv, Views, Stages
  <2>2. Joined(view.ever) /\ ViewFacts(view)
    BY <2>1 DEF ViewInv, Between
  <2> DEFINE h == graph'
  <2>3. view' = [view EXCEPT !.changes = @ + 1,
                             !.steady = [nodes |-> @.nodes \cap h.nodes, edges |-> @.edges \cap h.edges],
                             !.ever = [nodes |-> @.nodes \cup h.nodes, edges |-> @.edges \cup h.edges]]
    BY <1>2
  <2>4. Joined(h)
    OBVIOUS
  <2> HIDE DEF h
  <2>5. view' \in Views /\ Between(view', h) /\ Later(view, view')
    BY <2>1, <2>2, <2>3, <2>4, SeenIs
  <2>6. ViewFacts(view')
    BY <2>1, <2>2, <2>5, LaterHolds
  <2> QED BY <2>5, <2>6 DEF ViewInv, h
<1> QED BY <1>1, <1>2

-----------------------------------------------------------------------------
\* What the properties call the parts of a view that is shown.
LEMMA ShownIs ==
  ASSUME ViewInv, Shown
  PROVE  /\ view \in Views /\ view.at = "done" /\ DoneOK(view) /\ view.nodes \in SUBSET Shapes
         /\ ShownOf("File") = FileNodes(view.nodes) /\ ShownOf("Repo") \cup (view.nodes \cap Folders) = Frame(view)
         /\ {<<r, "CONTAINS", d>> : r \in ShownOf("Repo"), d \in (view.nodes \cap Folders)} = RootFolds(view.nodes)
         /\ ShownOf("File") \cup ShownOf("Symbol") \subseteq view.nodes
         /\ \A n \in ShownOf("File") \cup ShownOf("Symbol") : n \notin Folders /\ KindOf(n) # "Repo"
         /\ Cardinality(view.nodes) \in Nat /\ view.limit \in Nat
<1>1. view \in Views /\ view.at = "done" /\ DoneOK(view)
  BY DEF ViewInv, ViewFacts, Shown
<1>2. view.nodes \in SUBSET Shapes /\ view.limit \in Nat
  BY <1>1 DEF Views
<1>3. ShownOf("File") = FileNodes(view.nodes)
  BY FoldersAre DEF ShownOf, FileNodes
<1>4. ShownOf("Repo") \cup (view.nodes \cap Folders) = Frame(view)
  BY DEF ShownOf, Frame
<1>5. {<<r, "CONTAINS", d>> : r \in ShownOf("Repo"), d \in (view.nodes \cap Folders)} = RootFolds(view.nodes)
  <2>1. ShownOf("Repo") = {n \in view.nodes \ Folders : KindOf(n) = "Repo"}
    BY DEF ShownOf
  <2> QED BY <2>1 DEF RootFolds
<1>6. /\ ShownOf("File") \cup ShownOf("Symbol") \subseteq view.nodes
      /\ \A n \in ShownOf("File") \cup ShownOf("Symbol") : n \notin Folders /\ KindOf(n) # "Repo"
  BY DEF ShownOf
<1>7. IsFiniteSet(view.nodes)
  BY <1>2, FoldersAre, FS_Subset
<1>8. Cardinality(view.nodes) \in Nat
  BY <1>7, FS_CardinalityType
<1> QED BY <1>1, <1>2, <1>3, <1>4, <1>5, <1>6, <1>8

\* The invariant says that what a view shows was there.
LEMMA ViewsShownWasThere ==
  ASSUME ViewInv
  PROVE  ShownWasThere
<1> DEFINE lines == {<<r, "CONTAINS", d>> : r \in ShownOf("Repo"), d \in (view.nodes \cap Folders)}
           Scoped == ShownOf("File") \cup ShownOf("Symbol") \subseteq view.scope \cup NodesOf(InScope(view.edges))
<1> SUFFICES ASSUME Shown
             PROVE  /\ view.nodes \subseteq view.ever.nodes \cup FoldersOf({n \in view.ever.nodes : KindOf(n) = "File"})
                    /\ NodesOf(view.edges) \subseteq view.nodes
                    /\ view.edges \subseteq view.ever.edges \cup Folding(view.nodes) \cup lines
                    /\ view.kind # "call_chain" /\ (view.kind = "full" => Cardinality(view.nodes) < view.limit) => Scoped
  BY DEF ShownWasThere
<1>1. /\ DoneOK(view) /\ view.nodes \in SUBSET Shapes /\ lines = RootFolds(view.nodes)
      /\ ShownOf("File") \cup ShownOf("Symbol") \subseteq view.nodes
      /\ \A n \in ShownOf("File") \cup ShownOf("Symbol") : n \notin Folders /\ KindOf(n) # "Repo"
  BY ShownIs
<1>2. Drawable(view) = view.ever.nodes \cup FoldersOf({n \in view.ever.nodes : KindOf(n) = "File"})
  BY DEF Drawable, FileNodes
<1> DEFINE OK == /\ view.nodes \subseteq Drawable(view) /\ NodesOf(view.edges) \subseteq view.nodes
                 /\ view.edges \subseteq view.ever.edges \cup Folding(view.nodes) \cup lines
                 /\ view.kind # "call_chain" /\ (view.kind = "full" => Cardinality(view.nodes) < view.limit) => Scoped
<1> HIDE DEF lines
<1>3. SUFFICES OK
  BY <1>2
<1>4. CASE view.kind = "architecture" /\ ArchitectureOK(view)
  <2>1. NodesOf(view.edges) \subseteq view.nodes
    BY <1>1, <1>4, FoldingIs DEF ArchitectureOK
  <2> QED BY <1>1, <1>4, <2>1 DEF ArchitectureOK, Structured
<1>5. CASE Lined(view) /\ (view.kind # "call_chain" => InPath(view, view.edges))
  <2>1. view.kind # "call_chain" => InScope(view.edges) = view.edges
    BY <1>5 DEF InPath, InScope
  <2>2. view.nodes = NodesOf(view.edges) /\ view.edges \subseteq view.ever.edges /\ view.nodes \subseteq Drawable(view)
    BY <1>5 DEF Lined, Drawable
  <2> QED BY <1>1, <2>1, <2>2
<1>6. CASE view.kind = "hotspots" /\ HotspotsOK(view)
  BY <1>1, <1>6 DEF HotspotsOK, Busiest, Drawable
<1>7. CASE view.kind = "full" /\ FullOK(view)
  <2>1. ASSUME Cardinality(view.nodes) < view.limit PROVE Scoped
    <3> SUFFICES ASSUME NEW n \in view.nodes, n \notin Folders, n \notin view.scope PROVE n \in NodesOf(InScope(view.edges))
      BY <1>1
    <3>1. PICK e \in view.edges : n \in {e[1], e[3]} /\ {e[1], e[3]} \cap view.scope # {}
      BY <1>7, <2>1 DEF FullOK
    <3>2. e \in InScope(view.edges)
      BY <3>1 DEF InScope
    <3> QED BY <3>1, <3>2 DEF NodesOf
  <2> HIDE DEF Scoped
  <2> QED BY <1>7, <2>1 DEF FullOK
<1>8. CASE view.kind = "comprehensive" /\ ComprehensiveOK(view)
  <2>1. Whole(view)
    BY <1>8 DEF ComprehensiveOK
  <2>2. Scoped
    BY <1>1, <2>1 DEF Whole
  <2> HIDE DEF Scoped
  <2> QED BY <1>1, <2>1, <2>2 DEF Whole
<1> QED BY <1>1, <1>4, <1>5, <1>6, <1>7, <1>8 DEF DoneOK, CallsOK, ChainOK, DependenciesOK

\* It says that files are shown with their folders.
LEMMA ViewsFoldersShown ==
  ASSUME ViewInv
  PROVE  FoldersShown
<1> SUFFICES ASSUME Shown, view.kind \in {"architecture", "comprehensive"} PROVE FoldersOf(ShownOf("File")) \subseteq view.nodes
  BY DEF FoldersShown
<1>1. DoneOK(view) /\ ShownOf("File") = FileNodes(view.nodes)
  BY ShownIs
<1>2. ArchitectureOK(view) \/ ComprehensiveOK(view)
  BY <1>1 DEF DoneOK
<1>3. FoldersOf(FileNodes(view.nodes)) \subseteq view.nodes
  BY <1>2 DEF ArchitectureOK, ComprehensiveOK, Whole
<1> QED BY <1>1, <1>3

\* It says that a view keeps within its limit.
LEMMA ViewsWithinLimit ==
  ASSUME ViewInv
  PROVE  WithinLimit
<1> SUFFICES ASSUME Shown
             PROVE  CASE view.kind \in {"calls", "call_chain"} -> Cardinality(view.edges) <= view.limit
                      [] view.kind = "dependencies" -> Cardinality(view.nodes) <= view.limit + 1
                      [] view.kind = "comprehensive" ->
                           \/ Cardinality(view.nodes) <= view.limit
                           \/ Cardinality(ShownOf("Repo") \cup (view.nodes \cap Folders)) > view.limit
                      [] OTHER -> Cardinality(view.nodes) <= view.limit
  BY DEF WithinLimit
<1>1. DoneOK(view) /\ ShownOf("Repo") \cup (view.nodes \cap Folders) = Frame(view)
  BY ShownIs
<1> QED
  BY <1>1 DEF DoneOK, ArchitectureOK, CallsOK, ChainOK, DependenciesOK, HotspotsOK, Busiest, FullOK, ComprehensiveOK

\* It says that a view without the sign of a cut shows all that was there throughout.
LEMMA ViewsSteadyShown ==
  ASSUME ViewInv
  PROVE  SteadyShown
<1> SUFFICES ASSUME Shown, ~Cut, view.scope = AllNodes
             PROVE  Due(view.steady).nodes \subseteq view.nodes /\ Due(view.steady).edges \subseteq view.edges
  BY DEF SteadyShown
<1> DEFINE cs == CallsIn(view.steady.edges)
           kinds(K) == {n \in view.steady.nodes \cap view.scope : KindOf(n) \in K}
<1>1. /\ DoneOK(view) /\ view \in Views /\ ShownOf("File") = FileNodes(view.nodes) /\ view.at = "done"
      /\ ShownOf("Repo") \cup (view.nodes \cap Folders) = Frame(view)
      /\ Cardinality(view.nodes) \in Nat /\ view.limit \in Nat
  BY ShownIs
<1>2. CASE view.kind = "architecture" /\ ArchitectureOK(view)
  <2>1. Due(view.steady) = [nodes |-> kinds({"File"}), edges |-> {}]
    BY <1>2 DEF Due
  <2>2. Cardinality(FileNodes(view.nodes)) # view.limit \div 2 /\ Cardinality(view.nodes) < view.limit
    BY <1>1, <1>2 DEF Cut
  <2>3. kinds({"File"}) \subseteq view.nodes
    BY <1>2, <2>2 DEF ArchitectureOK, FileNodes
  <2> QED BY <2>1, <2>3
<1>3. CASE view.kind = "calls" /\ CallsOK(view)
  <2>1. Due(view.steady) = [nodes |-> {}, edges |-> cs]
    BY <1>3 DEF Due, CallsIn
  <2>2. cs \subseteq view.edges
    BY <1>3 DEF Cut, CallsOK
  <2> QED BY <2>1, <2>2
<1>4. CASE view.kind = "call_chain" /\ ChainOK(view)
  <2>1. Due(view.steady) = [nodes |-> {}, edges |-> ChainCalls(cs, view.start, view.leg)]
    BY <1>4 DEF Due, CallsIn
  <2>2. ChainCalls(cs, view.start, view.leg) \subseteq view.edges
    BY <1>4 DEF Cut, ChainOK
  <2> QED BY <2>1, <2>2
<1>5. CASE view.kind = "dependencies" /\ DependenciesOK(view)
  <2>1. Due(view.steady) = [nodes |-> {}, edges |-> ImportsIn(view.steady.edges)]
    BY <1>5 DEF Due, ImportsIn
  <2>2. Cardinality(view.nodes) < view.limit /\ Cardinality(view.edges) # 3 * view.limit
    BY <1>1, <1>5 DEF Cut
  <2>3. ImportsIn(view.steady.edges) \subseteq view.edges
    BY <1>5, <2>2 DEF DependenciesOK
  <2> QED BY <2>1, <2>3
<1>6. CASE view.kind = "hotspots" /\ HotspotsOK(view)
  <2>1. Due(view.steady) = [nodes |-> Connected(view.steady), edges |-> Among(cs, view.nodes)]
    BY <1>6 DEF Due, CallsIn
  <2>2. Cardinality(view.nodes) < view.limit
    BY <1>1, <1>6 DEF Cut
  <2>3. Connected(view.steady) \subseteq view.nodes /\ Among(cs, view.nodes) \subseteq view.edges
    BY <1>6, <2>2 DEF HotspotsOK, Busiest
  <2> QED BY <2>1, <2>3
<1>7. CASE view.kind = "full" /\ FullOK(view)
  <2>1. Due(view.steady) = [nodes |-> {}, edges |-> {}]
    BY <1>7 DEF Due
  <2> QED BY <2>1
<1>8. CASE view.kind = "comprehensive" /\ ComprehensiveOK(view)
  <2>1. Due(view.steady) = [nodes |-> kinds({"Repo", "File", "Symbol"}), edges |-> BetweenSymbols(Among(cs, view.nodes))]
    BY <1>8 DEF Due, CallsIn, BetweenSymbols
  <2>2. /\ Cardinality(view.nodes) < view.limit
        /\ Cardinality(FileNodes(view.nodes)) # (view.limit - Cardinality(Frame(view))) \div 2
        /\ ~(Cardinality(CallsIn(view.ever.edges)) >= EdgeLimit)
    <3>1. /\ ~(Cardinality(view.nodes) >= view.limit)
          /\ ~(Cardinality({e \in view.ever.edges : e[2] = "CALLS"}) >= EdgeLimit)
          /\ Cardinality(ShownOf("File")) # (view.limit - Cardinality(ShownOf("Repo") \cup (view.nodes \cap Folders))) \div 2
      BY <1>8, Zenon DEF Cut
    <3>2. Cardinality(view.nodes) < view.limit
      BY <1>1, <3>1
    <3> QED BY <1>1, <3>1, <3>2 DEF CallsIn
  <2>3. view.ever.edges \in SUBSET Edges
    BY <1>1 DEF Views, Graphs
  <2>4. Cardinality(CallsIn(view.ever.edges)) < EdgeLimit
    BY <2>2, <2>3, CallsCount, ViewsAssumption
  <2>5. Wholly(view)
    BY <1>8, <2>2 DEF ComprehensiveOK
  <2>6. kinds({"Repo", "File", "Symbol"}) \subseteq view.nodes
    BY <1>1, <2>5 DEF Wholly
  <2>7. BetweenSymbols(Among(cs, view.nodes)) \subseteq view.edges
    BY <1>1, <2>4, <2>5 DEF Wholly
  <2> QED BY <2>1, <2>6, <2>7
<1> QED BY <1>1, <1>2, <1>3, <1>4, <1>5, <1>6, <1>7, <1>8 DEF DoneOK

\* GraphViews: what a view shows was in the graph while it was read, lies with its folders and
\* within its limit, and misses nothing that was there throughout unless it shows the sign.
THEOREM GraphViewsCorrect == GraphViewsSpec => []GraphViewsInv
<1> DEFINE Inv == GraphInv /\ ViewInv
<1>1. GraphViewsInit => Inv
  <2> SUFFICES ASSUME GraphViewsInit PROVE Inv
    OBVIOUS
  <2>1. GraphInv
    BY GraphStart, IndexedIs DEF GraphViewsInit
  <2>2. view = NoView /\ view \in Views /\ view.at = "idle"
    BY NoViewIs DEF GraphViewsInit, NoView
  <2>3. ViewInv
    BY <2>2, QuietView DEF ViewInv
  <2> QED BY <2>1, <2>3
<1>2. Inv /\ [GraphViewsNext]_viewVars => Inv'
  <2> SUFFICES ASSUME GraphInv, ViewInv, [GraphViewsNext]_viewVars PROVE Inv'
    OBVIOUS
  <2>1. Joined(graph)
    BY DEF GraphInv, StoreInv
  <2>2. CASE ViewNext
    <3>1. ViewInv' /\ UNCHANGED <<graph, indexing, erasing, trace>>
      BY <2>1, <2>2, ViewsStep
    <3>2. StoreInv'
      BY <3>1, StoreStays DEF GraphInv
    <3> QED BY <3>1, <3>2 DEF GraphInv
  <2>3. CASE /\ StoreChanges /\ view.at \notin {"refused", "done"}
             /\ view.changes < MaxChanges
             /\ view' = IF view.at \in {"idle", "path", "read"} THEN view
                        ELSE [view EXCEPT !.changes = @ + 1,
                                          !.steady = [nodes |-> @.nodes \cap graph'.nodes, edges |-> @.edges \cap graph'.edges],
                                          !.ever = [nodes |-> @.nodes \cup graph'.nodes, edges |-> @.edges \cup graph'.edges]]
    <3>1. GraphInv'
      BY <2>3, GraphStores
    <3>2. Joined(graph')
      BY <3>1 DEF GraphInv, StoreInv
    <3>3. ViewInv'
      BY <2>3, <3>2, ViewsMeetStore
    <3> QED BY <3>1, <3>3
  <2>4. CASE UNCHANGED viewVars
    <3>1. UNCHANGED <<graph, indexing, erasing, trace>> /\ UNCHANGED view
      BY <2>4 DEF viewVars, graphVars
    <3>2. StoreInv'
      BY <3>1, StoreStays DEF GraphInv
    <3>3. ViewInv'
      BY <3>1 DEF ViewInv
    <3> QED BY <3>1, <3>2, <3>3 DEF GraphInv
  <2> QED BY <2>2, <2>3, <2>4 DEF GraphViewsNext
<1>3. Inv => GraphViewsInv
  <2> SUFFICES ASSUME GraphInv, ViewInv PROVE GraphViewsInv
    OBVIOUS
  <2>1. CodeGraphInv
    BY GraphTyped, StoreIs, TraceImplies DEF GraphInv, CodeGraphInv
  <2> QED
    BY <2>1, ViewsShownWasThere, ViewsFoldersShown, ViewsWithinLimit, ViewsSteadyShown DEF GraphViewsInv
<1> QED BY <1>1, <1>2, <1>3, PTL DEF GraphViewsSpec

=============================================================================
