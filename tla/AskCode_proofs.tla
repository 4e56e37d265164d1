--------------------------- MODULE AskCode_proofs ----------------------------
(***************************************************************************)
(* Proofs about AskCode, for any number of questions and repositories and       *)
(* every limit.                                                                *)
(*                                                                          *)
(* The inductive invariant says which runs there are: one of a repository of a   *)
(* question that has been asked; and, as long as no page left its stream, one     *)
(* run at most that works on the conversation, from the history of its           *)
(* checkpoint.                                                                 *)
(***************************************************************************)
EXTENDS AskCode, TLAPS

Early == {"validate", "analyze_question", "clarify", "retrieve", "graph_expansion"}
Over  == {"done", "failed", "left"}

\* A turn that pairs a question with its own answer.
Turns == {t \in [asked : Requests, answered : Requests] : t.asked = t.answered}

JobRecord ==
  [at : Nodes \cup {"idle", "end", "ended"}, text : Texts, clarity : {"unknown", "clear", "vague"},
   limit : {Limit, BroadLimit}, error : BOOLEAN, iterations : 0..(Limit + BroadLimit),
   last : {"none", "human", "system", "calls", "answer", "empty", "tool"},
   history : Seq(Turns), output : {0} \cup Requests, own : {0} \cup Requests]

\* A run answers its own question, and calls the LLM only below its limit.
RunOK(j, r) ==
  /\ r \in JobRecord
  /\ r.own \in {0, j[1]}
  /\ r.at = "present" => r.output = j[1]
  /\ r.at \in Early => r.iterations = 0
  /\ r.at \in {"agent", "tools"} => r.iterations < r.limit

Kinds ==
  /\ ask \in Asks
  /\ stream \in [Requests -> [at : {"new", "open", "merging", "done", "failed", "left"}, shows : {0} \cup Requests]]
  /\ \A i \in Requests : stream[i].shows \in {0, i}
  /\ notes \in [Jobs -> [waiting : 0..MaxNotes, end : BOOLEAN, closed : BOOLEAN]]
  /\ over \in [Jobs -> [work : BOOLEAN, shown : BOOLEAN]]
  /\ saved \in [history : Seq(Turns), output : {0} \cup Requests, error : BOOLEAN]
  /\ failures \in 0..MaxFaults

Runs == job \in [Jobs -> JobRecord] /\ \A j \in Jobs : RunOK(j, job[j])

\* A run is one of a question that was asked, which ended before the next was.
Started ==
  /\ \A j \in Jobs : job[j].at # "idle" => j \in JobsOf(j[1]) /\ stream[j[1]].at # "new"
  /\ \A g, h \in Requests : g < h /\ stream[h].at # "new" => stream[g].at \in Over

\* What is over has ended, and so has the run of a question that was answered.
Ended ==
  /\ \A j \in Jobs : over[j].work => job[j].at = "ended"
  /\ \A i \in Requests : Single(i) /\ stream[i].at \notin {"new", "open", "left"} => job[<<i, 1>>].at = "ended"

\* The run that works on the conversation has its history.
NoneLeft == \A i \in Requests : stream[i].at # "left"
Current ==
  NoneLeft => \A j \in Jobs : InConversation(j) /\ job[j].at \in Nodes => job[j].history = saved.history

IInv == Kinds /\ Runs /\ Started /\ Ended /\ Current

-----------------------------------------------------------------------------
(* What the constants and the names of the runs are. *)

LEMMA Asked ==
  ASSUME ask \in Asks, NEW i \in Requests
  PROVE  /\ ask[i].text \in Texts /\ ask[i].repos \in Seq(STRING)
         /\ Len(ask[i].repos) \in 0..MaxRepos /\ DOMAIN ask[i].repos = 1..Len(ask[i].repos)
<1>1. ask[i] \in [way : Ways, text : Texts, repos : Seq(STRING)] /\ Len(ask[i].repos) <= MaxRepos
  BY AskCodeAssumption
<1>2. MaxRepos \in Nat
  BY AskCodeAssumption
<1> QED BY <1>1, <1>2

LEMMA Limits ==
  /\ Limit \in Nat /\ BroadLimit \in Nat /\ Limit > 0 /\ BroadLimit > 0 /\ MaxNotes \in Nat /\ MaxFaults \in Nat
  /\ MaxRepos \in Nat /\ 1 \in 1..MaxRepos
  /\ \A i \in Requests : i \in Nat /\ i # 0
BY AskCodeAssumption

LEMMA JobParts ==
  ASSUME NEW j \in Jobs
  PROVE  j[1] \in Requests /\ j[2] \in 1..MaxRepos /\ j = <<j[1], j[2]>>
BY DEF Jobs

\* The run of a question of the conversation is the only one of its question.
LEMMA OnlyOne ==
  ASSUME ask \in Asks, NEW j \in Jobs, j \in JobsOf(j[1]), InConversation(j)
  PROVE  Single(j[1]) /\ j = <<j[1], 1>>
<1>1. j[1] \in Requests
  BY JobParts
<1>2. PICK k \in DOMAIN ask[j[1]].repos : j = <<j[1], k>>
  BY DEF JobsOf
<1>3. Len(ask[j[1]].repos) = 1 /\ ask[j[1]].way = "stream"
  BY DEF InConversation
<1>4. k = 1
  BY <1>1, <1>2, <1>3, Asked
<1> QED BY <1>2, <1>3, <1>4 DEF Single

\* As long as no page left, no two runs work on the conversation.
LEMMA OneAtWork ==
  ASSUME Kinds, Started, Ended, NoneLeft,
         NEW g \in Jobs, InConversation(g), job[g].at \in Nodes,
         NEW j \in Jobs, InConversation(j), job[j].at \in Nodes
  PROVE  g = j
<1>1. ASSUME NEW h \in Jobs, InConversation(h), job[h].at \in Nodes
      PROVE  h = <<h[1], 1>> /\ stream[h[1]].at \notin {"new", "done", "failed", "left"} /\ h[1] \in Requests
  <2>1. h \in JobsOf(h[1]) /\ stream[h[1]].at # "new"
    BY <1>1 DEF Started, Nodes
  <2>2. Single(h[1]) /\ h = <<h[1], 1>>
    BY <1>1, <2>1, OnlyOne DEF Kinds
  <2>3. h[1] \in Requests
    BY <1>1, JobParts
  <2>4. job[<<h[1], 1>>].at # "ended"
    BY <1>1, <2>2 DEF Nodes
  <2>5. stream[h[1]].at \notin {"done", "failed"}
    BY <2>2, <2>3, <2>4 DEF Ended
  <2> QED BY <2>1, <2>2, <2>3, <2>5 DEF NoneLeft
<1>2. /\ g = <<g[1], 1>> /\ stream[g[1]].at \notin Over \cup {"new"} /\ g[1] \in Requests
      /\ j = <<j[1], 1>> /\ stream[j[1]].at \notin Over \cup {"new"} /\ j[1] \in Requests
  BY <1>1 DEF Over
<1>3. ~(g[1] < j[1]) /\ ~(j[1] < g[1])
  BY <1>2 DEF Started
<1>4. g[1] = j[1]
  BY <1>2, <1>3, Limits
<1> QED BY <1>2, <1>4

-----------------------------------------------------------------------------
(* The nodes of a run. *)

\* What is true before and after a step, and what the step does to the history.
Kept == IInv' /\ HistoryGrows

LEMMA HistoryKept == UNCHANGED saved => HistoryGrows
BY DEF HistoryGrows

\* A node's superstep: it commits a run that is still as it should be, with the history
\* it had or one more turn.
LEMMA Superstep ==
  ASSUME IInv, NEW j \in Jobs, job[j].at \in Nodes,
         NEW r, RunOK(j, r), r.at # "idle",
         r.history = job[j].history \/ \E t \in Turns : r.history = Append(job[j].history, t),
         Commit(j, r), UNCHANGED rest,
         notes' \in [Jobs -> [waiting : 0..MaxNotes, end : BOOLEAN, closed : BOOLEAN]]
  PROVE  Kept
<1>1. /\ job' = [job EXCEPT ![j] = r] /\ job \in [Jobs -> JobRecord] /\ r \in JobRecord
      /\ saved' = IF InConversation(j) THEN [history |-> r.history, output |-> r.output, error |-> r.error] ELSE saved
  BY DEF Commit, IInv, Runs, RunOK
<1>2. UNCHANGED ask /\ UNCHANGED stream /\ UNCHANGED over /\ UNCHANGED failures
  BY DEF rest
<1>3. job'[j] = r /\ \A g \in Jobs : g # j => job'[g] = job[g]
  BY <1>1
<1>4. \A i : JobsOf(i)' = JobsOf(i) /\ Single(i)' = Single(i)
  BY <1>2 DEF JobsOf, Single
<1>5. \A g : InConversation(g)' = InConversation(g)
  BY <1>2 DEF InConversation
<1>6. saved' \in [history : Seq(Turns), output : {0} \cup Requests, error : BOOLEAN]
  <2>1. r.history \in Seq(Turns) /\ r.output \in {0} \cup Requests /\ r.error \in BOOLEAN
    BY <1>1 DEF JobRecord
  <2> QED BY <1>1, <2>1 DEF IInv, Kinds
<1>7. Kinds'
  BY <1>2, <1>6 DEF IInv, Kinds
<1>8. Runs'
  <2>1. job' \in [Jobs -> JobRecord]
    BY <1>1
  <2>2. \A g \in Jobs : RunOK(g, job'[g])
    BY <1>3 DEF IInv, Runs
  <2> QED BY <2>1, <2>2 DEF Runs, RunOK
<1>9. Started'
  BY <1>2, <1>3, <1>4 DEF IInv, Started, Nodes
<1>10. Ended'
  <2>1. job[j].at # "ended"
    BY DEF Nodes
  <2>2. \A g \in Jobs : over'[g].work => job'[g].at = "ended"
    BY <1>2, <1>3, <2>1 DEF IInv, Ended
  <2>3. ASSUME NEW i \in Requests, Single(i), stream[i].at \notin {"new", "open", "left"} PROVE job'[<<i, 1>>].at = "ended"
    <3>1. job[<<i, 1>>].at = "ended"
      BY <2>3 DEF IInv, Ended
    <3>2. <<i, 1>> \in Jobs
      BY Limits DEF Jobs
    <3> QED BY <1>3, <2>1, <3>1, <3>2
  <2> QED BY <1>2, <1>4, <2>2, <2>3 DEF Ended
<1>11. Current'
  <2>1. SUFFICES ASSUME NoneLeft, NEW g \in Jobs, InConversation(g), job'[g].at \in Nodes
                 PROVE  job'[g].history = saved'.history
    BY <1>2, <1>5 DEF Current, NoneLeft
  <2>2. CASE g = j
    BY <1>1, <1>3, <2>1, <2>2
  <2>3. CASE g # j
    <3>1. job'[g] = job[g] /\ job[g].history = saved.history
      BY <1>3, <2>1, <2>3 DEF IInv, Current
    <3>2. ~InConversation(j)
      BY <2>1, <2>3, <3>1, OneAtWork DEF IInv
    <3> QED BY <1>1, <3>1, <3>2
  <2> QED BY <2>2, <2>3
<1>12. HistoryGrows
  <2>1. CASE ~InConversation(j)
    BY <1>1, <2>1, HistoryKept
  <2>2. CASE InConversation(j)
    <3>1. SUFFICES ASSUME NoneLeft, NEW k \in DOMAIN saved.history
                   PROVE  k \in DOMAIN saved'.history /\ saved'.history[k] = saved.history[k]
      BY DEF HistoryGrows, NoneLeft
    <3>2. saved.history = job[j].history /\ saved'.history = r.history
      BY <1>1, <2>2, <3>1 DEF IInv, Current
    <3>3. saved.history \in Seq(Turns)
      BY DEF IInv, Kinds
    <3>4. CASE r.history = job[j].history
      BY <3>1, <3>2, <3>4
    <3>5. ASSUME NEW t \in Turns, r.history = Append(job[j].history, t)
          PROVE  k \in DOMAIN saved'.history /\ saved'.history[k] = saved.history[k]
      <4>1. k \in DOMAIN Append(saved.history, t) /\ Append(saved.history, t)[k] = saved.history[k]
        BY <3>1, <3>3
      <4> QED BY <3>2, <3>5, <4>1
    <3> QED BY <3>4, <3>5
  <2> QED BY <2>1, <2>2
<1> QED BY <1>7, <1>8, <1>9, <1>10, <1>11, <1>12 DEF IInv, Kept

\* What a node may make of a run's record.
LEMMA Channels ==
  ASSUME NEW r \in JobRecord
  PROVE  /\ r.text \in Texts /\ r.iterations \in Nat /\ r.iterations <= Limit + BroadLimit
         /\ r.limit \in {Limit, BroadLimit} /\ r.limit \in Nat
         /\ r.history \in Seq(Turns) /\ r.output \in {0} \cup Requests
<1>1. r.iterations \in 0..(Limit + BroadLimit) /\ r.limit \in {Limit, BroadLimit}
  BY DEF JobRecord
<1>2. r.text \in Texts /\ r.history \in Seq(Turns) /\ r.output \in {0} \cup Requests
  BY DEF JobRecord
<1> QED BY <1>1, <1>2, Limits

LEMMA Noted ==
  ASSUME Kinds, NEW j \in Jobs, Emit(j) \/ UNCHANGED notes
  PROVE  notes' \in [Jobs -> [waiting : 0..MaxNotes, end : BOOLEAN, closed : BOOLEAN]]
<1>1. CASE UNCHANGED notes BY <1>1 DEF Kinds
<1>2. CASE Emit(j)
  <2>1. PICK n \in notes[j].waiting..MaxNotes : notes' = [notes EXCEPT ![j].waiting = n]
    BY <1>2 DEF Emit
  <2>2. n \in 0..MaxNotes
    BY <2>1, Limits DEF Kinds
  <2> QED BY <2>1, <2>2 DEF Kinds
<1> QED BY <1>1, <1>2

\* The record after a node, when the run moves on, and when an error is set.
LEMMA Moves ==
  ASSUME NEW j \in Jobs, NEW q \in JobRecord, q.own \in {0, j[1]}, NEW next \in Nodes \cup {"end"},
         NEW e \in BOOLEAN,
         next # "present", next \in Early => q.iterations = 0,
         next \in {"agent", "tools"} => q.iterations < q.limit
  PROVE  /\ RunOK(j, [q EXCEPT !.at = next, !.error = e]) /\ [q EXCEPT !.at = next, !.error = e].at # "idle"
         /\ [q EXCEPT !.at = next, !.error = e].history = q.history
<1> DEFINE r == [q EXCEPT !.at = next, !.error = e]
<1>2. /\ r \in JobRecord /\ r.at = next /\ r.history = q.history /\ r.own = q.own
      /\ r.iterations = q.iterations /\ r.limit = q.limit
  BY DEF JobRecord
<1>3. next # "idle"
  BY DEF Nodes
<1> HIDE DEF r
<1>4. RunOK(j, r) /\ r.at # "idle"
  BY <1>2, <1>3 DEF RunOK
<1> QED BY <1>2, <1>4 DEF r

LEMMA Failing ==
  ASSUME IInv, NEW j \in Jobs, job[j].at \in Nodes, NEW next \in Nodes \cup {"end"},
         next # "present", next \in Early => job[j].iterations = 0,
         next \in {"agent", "tools"} => job[j].iterations < job[j].limit,
         Fail(j, next), Emit(j) \/ UNCHANGED notes, UNCHANGED rest
  PROVE  Kept
<1>1. job[j] \in JobRecord /\ job[j].own \in {0, j[1]} /\ TRUE \in BOOLEAN
  BY DEF IInv, Runs, RunOK
<1> DEFINE r == [job[j] EXCEPT !.at = next, !.error = TRUE]
<1>2. RunOK(j, r) /\ r.at # "idle" /\ r.history = job[j].history
  BY <1>1, Moves
<1>3. Commit(j, r)
  BY DEF Fail
<1>4. notes' \in [Jobs -> [waiting : 0..MaxNotes, end : BOOLEAN, closed : BOOLEAN]]
  BY Noted DEF IInv
<1> HIDE DEF r
<1> QED BY <1>2, <1>3, <1>4, Superstep

LEMMA Succeeding ==
  ASSUME IInv, NEW j \in Jobs, job[j].at \in Nodes, NEW next \in Nodes \cup {"end"},
         NEW q \in JobRecord, q.own \in {0, j[1]}, q.history = job[j].history,
         next # "present", next \in Early => q.iterations = 0,
         next \in {"agent", "tools"} => q.iterations < q.limit,
         Succeed(j, q, next), Emit(j) \/ UNCHANGED notes, UNCHANGED rest
  PROVE  Kept
<1> DEFINE r == [q EXCEPT !.at = next, !.error = FALSE]
<1>1. FALSE \in BOOLEAN
  OBVIOUS
<1>2. RunOK(j, r) /\ r.at # "idle" /\ r.history = job[j].history
  BY <1>1, Moves
<1>3. Commit(j, r)
  BY DEF Succeed
<1>4. notes' \in [Jobs -> [waiting : 0..MaxNotes, end : BOOLEAN, closed : BOOLEAN]]
  BY Noted DEF IInv
<1> HIDE DEF r
<1> QED BY <1>2, <1>3, <1>4, Superstep

\* The last message of a run may be any, and nothing else of it changes.
LEMMA LastSet ==
  ASSUME NEW q \in JobRecord, NEW m \in {"none", "human", "system", "calls", "answer", "empty", "tool"}
  PROVE  /\ [q EXCEPT !.last = m] \in JobRecord /\ [q EXCEPT !.last = m].history = q.history
         /\ [q EXCEPT !.last = m].own = q.own
         /\ [q EXCEPT !.last = m].iterations = q.iterations /\ [q EXCEPT !.last = m].limit = q.limit
BY DEF JobRecord

LEMMA AtNode ==
  ASSUME IInv, NEW j \in Jobs, job[j].at \in Nodes
  PROVE  /\ RunOK(j, job[j]) /\ job[j] \in JobRecord /\ job[j].own \in {0, j[1]}
         /\ job[j].at \in Early => job[j].iterations = 0
         /\ job[j].at \in {"agent", "tools"} => job[j].iterations < job[j].limit
BY DEF IInv, Runs, RunOK

LEMMA StepValidate == ASSUME IInv, NEW j \in Jobs, Validate(j) PROVE Kept
<1>1. job[j].at = "validate" /\ UNCHANGED notes /\ UNCHANGED rest
  BY DEF Validate
<1>2. job[j] \in JobRecord /\ job[j].own \in {0, j[1]} /\ job[j].at \in Nodes /\ job[j].iterations = 0
  BY <1>1, AtNode DEF Nodes, Early
<1>3. CASE Fail(j, "end")
  BY <1>1, <1>2, <1>3, Failing DEF Early
<1>4. CASE Succeed(j, [job[j] EXCEPT !.last = "none"], "analyze_question")
  <2> DEFINE q == [job[j] EXCEPT !.last = "none"]
  <2>1. q \in JobRecord /\ q.own \in {0, j[1]} /\ q.history = job[j].history /\ q.iterations = 0
    BY <1>2, LastSet
  <2>2. "analyze_question" \in Nodes
    BY DEF Nodes
  <2> HIDE DEF q
  <2> QED BY <1>1, <1>2, <1>4, <2>1, <2>2, Succeeding DEF q
<1> QED BY <1>3, <1>4 DEF Validate

LEMMA StepClassify == ASSUME IInv, NEW j \in Jobs, Classify(j) PROVE Kept
<1>1. job[j].at = "analyze_question" /\ UNCHANGED notes /\ UNCHANGED rest
  BY DEF Classify
<1>2. job[j] \in JobRecord /\ job[j].own \in {0, j[1]} /\ job[j].at \in Nodes /\ job[j].iterations = 0
  BY <1>1, AtNode DEF Nodes, Early
<1>3. \A c : NextOf(c) \in Nodes /\ NextOf(c) \notin {"present", "agent", "tools"}
  BY DEF NextOf, Nodes
<1>4. CASE Fail(j, NextOf(job[j].clarity))
  BY <1>1, <1>2, <1>3, <1>4, Failing
<1>5. ASSUME NEW c \in Classifications,
             Succeed(j, [job[j] EXCEPT !.limit = c.limit, !.clarity = c.clarity], NextOf(c.clarity))
      PROVE  Kept
  <2> DEFINE q == [job[j] EXCEPT !.limit = c.limit, !.clarity = c.clarity]
  <2>1. c.limit \in {Limit, BroadLimit} /\ c.clarity \in {"clear", "vague"}
    BY <1>5 DEF Classifications, Heuristic
  <2>2. /\ q \in JobRecord /\ q.history = job[j].history /\ q.iterations = job[j].iterations
        /\ q.own = job[j].own
    BY <1>2, <2>1 DEF JobRecord
  <2> HIDE DEF q
  <2>3. Succeed(j, q, NextOf(c.clarity))
    BY <1>5 DEF q
  <2> QED BY <1>1, <1>2, <1>3, <2>2, <2>3, Succeeding
<1> QED BY <1>4, <1>5 DEF Classify

LEMMA StepClarify == ASSUME IInv, NEW j \in Jobs, Clarify(j) PROVE Kept
<1>1. job[j].at = "clarify" /\ UNCHANGED notes /\ UNCHANGED rest /\ Fail(j, "retrieve")
  BY DEF Clarify
<1>2. job[j] \in JobRecord /\ job[j].own \in {0, j[1]} /\ job[j].at \in Nodes /\ job[j].iterations = 0
  BY <1>1, AtNode DEF Nodes, Early
<1>3. "retrieve" \in Nodes
  BY DEF Nodes
<1> QED BY <1>1, <1>2, <1>3, Failing

LEMMA StepRetrieve == ASSUME IInv, NEW j \in Jobs, Retrieve(j) PROVE Kept
<1>1. job[j].at = "retrieve" /\ Emit(j) /\ UNCHANGED rest
  BY DEF Retrieve
<1>2. job[j] \in JobRecord /\ job[j].own \in {0, j[1]} /\ job[j].at \in Nodes /\ job[j].iterations = 0
  BY <1>1, AtNode DEF Nodes, Early
<1>3. CASE NotRetrieved(j)
  <2>1. Fail(j, "end")
    BY <1>3 DEF NotRetrieved
  <2> QED BY <1>1, <1>2, <2>1, Failing
<1>4. CASE Retrieved(j)
  <2> DEFINE q == [job[j] EXCEPT !.last = "human"]
  <2>1. q \in JobRecord /\ q.own \in {0, j[1]} /\ q.history = job[j].history /\ q.iterations = 0
    BY <1>2, LastSet
  <2>2. "graph_expansion" \in Nodes
    BY DEF Nodes
  <2>3. Succeed(j, q, "graph_expansion")
    BY <1>4 DEF Retrieved
  <2> HIDE DEF q
  <2> QED BY <1>1, <1>2, <2>1, <2>2, <2>3, Succeeding
<1> QED BY <1>3, <1>4 DEF Retrieve

LEMMA StepGraphExpansion == ASSUME IInv, NEW j \in Jobs, GraphExpansion(j) PROVE Kept
<1>1. job[j].at = "graph_expansion" /\ UNCHANGED notes /\ UNCHANGED rest
  BY DEF GraphExpansion
<1>2. job[j] \in JobRecord /\ job[j].own \in {0, j[1]} /\ job[j].at \in Nodes /\ job[j].iterations = 0
  BY <1>1, AtNode DEF Nodes, Early
<1>3. PICK m \in {job[j].last, "system"} : Succeed(j, [job[j] EXCEPT !.last = m], "agent")
  BY DEF GraphExpansion
<1> DEFINE q == [job[j] EXCEPT !.last = m]
<1>4. m \in {"none", "human", "system", "calls", "answer", "empty", "tool"}
  BY <1>2 DEF JobRecord
<1>5. q \in JobRecord /\ q.own \in {0, j[1]} /\ q.history = job[j].history /\ q.iterations = 0 /\ q.limit = job[j].limit
  BY <1>2, <1>4, LastSet
<1>6. "agent" \in Nodes
  BY DEF Nodes
<1>7. job[j].limit > 0
  BY <1>2, Limits DEF JobRecord
<1>8. Succeed(j, q, "agent")
  BY <1>3
<1> HIDE DEF q
<1>9. q.iterations < q.limit
  <2>1. q.limit \in Nat
    BY <1>5, Channels
  <2> QED BY <1>5, <1>7, <2>1
<1> QED BY <1>1, <1>2, <1>5, <1>6, <1>8, <1>9, Succeeding DEF Early

\* The LLM is called again only below the limit.
LEMMA StepAgent == ASSUME IInv, NEW j \in Jobs, Agent(j) PROVE Kept
<1>1. job[j].at = "agent" /\ Emit(j) /\ UNCHANGED rest
  BY DEF Agent
<1>2. /\ job[j] \in JobRecord /\ job[j].own \in {0, j[1]} /\ job[j].at \in Nodes
      /\ job[j].iterations < job[j].limit
  BY <1>1, AtNode DEF Nodes
<1>3. ASSUME NEW q PROVE /\ AfterAgent(q) \in {"tools", "format"}
                         /\ AfterAgent(q) = "tools" => q.iterations < q.limit
  BY DEF AfterAgent
<1>4. {"tools", "format"} \subseteq Nodes
  BY DEF Nodes
<1>5. CASE Fail(j, AfterAgent(job[j]))
  BY <1>1, <1>2, <1>3, <1>4, <1>5, Failing DEF Early
<1>6. ASSUME NEW m \in {"calls", "answer", "empty"},
             Succeed(j, [job[j] EXCEPT !.last = m, !.iterations = @ + 1],
                     AfterAgent([job[j] EXCEPT !.last = m, !.iterations = @ + 1]))
      PROVE  Kept
  <2> DEFINE q == [job[j] EXCEPT !.last = m, !.iterations = @ + 1]
  <2>1. job[j].iterations + 1 \in 0..(Limit + BroadLimit)
    <3>1. job[j].iterations \in Nat /\ job[j].limit \in {Limit, BroadLimit}
      BY <1>2, Channels
    <3> QED BY <1>2, <3>1, Limits
  <2>2. q \in JobRecord /\ q.history = job[j].history /\ q.own = job[j].own
    BY <1>2, <2>1 DEF JobRecord
  <2> HIDE DEF q
  <2>3. Succeed(j, q, AfterAgent(q))
    BY <1>6 DEF q
  <2> QED BY <1>1, <1>2, <1>3, <1>4, <2>2, <2>3, Succeeding DEF Early
<1> QED BY <1>5, <1>6 DEF Agent

LEMMA StepTools == ASSUME IInv, NEW j \in Jobs, Tools(j) PROVE Kept
<1>1. job[j].at = "tools" /\ Emit(j) /\ UNCHANGED rest /\ Succeed(j, [job[j] EXCEPT !.last = "tool"], "agent")
  BY DEF Tools
<1>2. /\ job[j] \in JobRecord /\ job[j].own \in {0, j[1]} /\ job[j].at \in Nodes
      /\ job[j].iterations < job[j].limit
  BY <1>1, AtNode DEF Nodes
<1> DEFINE q == [job[j] EXCEPT !.last = "tool"]
<1>3. /\ q \in JobRecord /\ q.own \in {0, j[1]} /\ q.history = job[j].history
      /\ q.iterations = job[j].iterations /\ q.limit = job[j].limit
  BY <1>2, LastSet
<1>4. "agent" \in Nodes /\ "agent" \notin Early
  BY DEF Nodes, Early
<1> HIDE DEF q
<1> QED BY <1>1, <1>2, <1>3, <1>4, Succeeding DEF q

\* The answer is that to the run's own question ...
LEMMA StepFormat == ASSUME IInv, NEW j \in Jobs, Format(j) PROVE Kept
<1>1. /\ job[j].at = "format" /\ UNCHANGED notes /\ UNCHANGED rest
      /\ Succeed(j, [job[j] EXCEPT !.output = j[1], !.own = j[1]], "present")
  BY DEF Format
<1>2. job[j] \in JobRecord /\ job[j].at \in Nodes /\ j[1] \in Requests
  BY <1>1, AtNode, JobParts DEF Nodes
<1> DEFINE r == [[job[j] EXCEPT !.output = j[1], !.own = j[1]] EXCEPT !.at = "present", !.error = FALSE]
<1>3. r \in JobRecord /\ r.own = j[1] /\ r.output = j[1] /\ r.at = "present" /\ r.history = job[j].history
  BY <1>2 DEF JobRecord, Nodes
<1>4. Commit(j, r)
  BY <1>1 DEF Succeed
<1>5. notes' \in [Jobs -> [waiting : 0..MaxNotes, end : BOOLEAN, closed : BOOLEAN]]
  BY <1>1, Noted DEF IInv
<1> HIDE DEF r
<1>6. RunOK(j, r)
  BY <1>3 DEF RunOK, Early
<1> QED BY <1>1, <1>2, <1>3, <1>4, <1>5, <1>6, Superstep

\* ... and so is the turn that the history gets.
LEMMA StepPresent == ASSUME IInv, NEW j \in Jobs, Present(j) PROVE Kept
<1> DEFINE turn == [asked |-> j[1], answered |-> job[j].output]
           h    == Append(job[j].history, turn)
           r    == [[job[j] EXCEPT !.history = Append(@, turn)] EXCEPT !.at = "end", !.error = FALSE]
<1>1. job[j].at = "present" /\ UNCHANGED notes /\ UNCHANGED rest /\ Commit(j, r)
  BY DEF Present, Succeed
<1>2. job[j] \in JobRecord /\ job[j].own \in {0, j[1]} /\ job[j].at \in Nodes /\ j[1] \in Requests
  BY <1>1, AtNode, JobParts DEF Nodes
<1>3. job[j].output = j[1]
  BY <1>1 DEF IInv, Runs, RunOK
<1>4. turn \in Turns
  BY <1>2, <1>3 DEF Turns
<1> HIDE DEF turn
<1>5. h \in Seq(Turns)
  BY <1>2, <1>4, Channels
<1> HIDE DEF h
<1>6. r = [job[j] EXCEPT !.history = h, !.at = "end", !.error = FALSE]
  BY <1>2 DEF JobRecord, h
<1> HIDE DEF r
<1>7. r \in JobRecord /\ r.own = job[j].own /\ r.at = "end" /\ r.history = h
  BY <1>2, <1>5, <1>6 DEF JobRecord
<1>8. RunOK(j, r)
  BY <1>2, <1>7 DEF RunOK, Early
<1>9. notes' \in [Jobs -> [waiting : 0..MaxNotes, end : BOOLEAN, closed : BOOLEAN]]
  BY <1>1, Noted DEF IInv
<1>10. \E t \in Turns : r.history = Append(job[j].history, t)
  BY <1>4, <1>7 DEF h
<1> QED BY <1>1, <1>2, <1>7, <1>8, <1>9, <1>10, Superstep

-----------------------------------------------------------------------------
(* The end of a run, its progress, and the streams. *)

NotesKind == notes \in [Jobs -> [waiting : 0..MaxNotes, end : BOOLEAN, closed : BOOLEAN]]
OverKind  == over \in [Jobs -> [work : BOOLEAN, shown : BOOLEAN]]

\* A run that moves to its end, or from there to the ended ones, commits nothing.
LEMMA Ending ==
  ASSUME IInv, NEW j \in Jobs, job[j].at \notin {"idle", "ended"},
         NEW r, RunOK(j, r), r.at \in {"end", "ended"}, job' = [job EXCEPT ![j] = r],
         UNCHANGED ask, UNCHANGED stream, UNCHANGED saved,
         NotesKind', OverKind', failures' \in 0..MaxFaults,
         \A g \in Jobs : over'[g].work => over[g].work \/ (g = j /\ r.at = "ended")
  PROVE  Kept
<1>1. r \in JobRecord /\ job \in [Jobs -> JobRecord]
  BY DEF RunOK, IInv, Runs
<1>2. job'[j] = r /\ \A g \in Jobs : g # j => job'[g] = job[g]
  BY <1>1
<1>3. \A i : JobsOf(i)' = JobsOf(i) /\ Single(i)' = Single(i)
  BY DEF JobsOf, Single
<1>4. Kinds'
  BY DEF IInv, Kinds, NotesKind, OverKind
<1>5. Runs'
  <2>1. job' \in [Jobs -> JobRecord]
    BY <1>1
  <2>2. \A g \in Jobs : RunOK(g, job'[g])
    BY <1>2 DEF IInv, Runs
  <2> QED BY <2>1, <2>2 DEF Runs, RunOK
<1>6. Started'
  BY <1>2, <1>3 DEF IInv, Started
<1>7. Ended'
  <2>1. \A g \in Jobs : over'[g].work => job'[g].at = "ended"
    BY <1>2 DEF IInv, Ended
  <2>2. ASSUME NEW i \in Requests, Single(i), stream[i].at \notin {"new", "open", "left"} PROVE job'[<<i, 1>>].at = "ended"
    <3>1. job[<<i, 1>>].at = "ended"
      BY <2>2 DEF IInv, Ended
    <3>2. <<i, 1>> \in Jobs
      BY Limits DEF Jobs
    <3> QED BY <1>2, <3>1, <3>2
  <2> QED BY <1>3, <2>1, <2>2 DEF Ended
<1>8. Current'
  <2>1. r.at \notin Nodes
    BY DEF Nodes
  <2>2. \A g : InConversation(g)' = InConversation(g)
    BY DEF InConversation
  <2> QED BY <1>2, <2>1, <2>2 DEF IInv, Current, NoneLeft
<1> QED BY <1>4, <1>5, <1>6, <1>7, <1>8, HistoryKept DEF IInv, Kept

LEMMA StepEndRun == ASSUME IInv, NEW j \in Jobs, EndRun(j) PROVE Kept
<1> DEFINE r == [Idle EXCEPT !.at = "ended", !.own = job[j].own]
<1>1. /\ job[j].at = "end" /\ job' = [job EXCEPT ![j] = r] /\ over' = [over EXCEPT ![j].work = TRUE] /\ Close(j)
      /\ UNCHANGED ask /\ UNCHANGED stream /\ UNCHANGED saved /\ UNCHANGED failures
  BY DEF EndRun
<1>2. job[j] \in JobRecord /\ job[j].own \in {0, j[1]} /\ failures \in 0..MaxFaults
  BY DEF IInv, Kinds, Runs, RunOK
<1>3. r \in JobRecord /\ r.own = job[j].own /\ r.at = "ended"
  <2>1. 0 \in 0..(Limit + BroadLimit)
    BY Limits
  <2>2. job[j].own \in {0} \cup Requests
    BY <1>2 DEF JobRecord
  <2>3. <<>> \in Seq(Turns)
    OBVIOUS
  <2> QED BY <2>1, <2>2, <2>3 DEF JobRecord, Idle, Texts
<1> HIDE DEF r
<1>4. RunOK(j, r)
  BY <1>2, <1>3 DEF RunOK, Early
<1>5. NotesKind'
  <2>1. notes' = [notes EXCEPT ![j].closed = TRUE, ![j].end = notes[j].waiting < MaxNotes]
    BY <1>1 DEF Close
  <2>2. (notes[j].waiting < MaxNotes) \in BOOLEAN
    OBVIOUS
  <2>3. NotesKind
    BY DEF IInv, Kinds, NotesKind
  <2> QED BY <2>1, <2>2, <2>3 DEF NotesKind
<1>6. OverKind' /\ \A g \in Jobs : over'[g].work => over[g].work \/ (g = j /\ r.at = "ended")
  BY <1>1, <1>3 DEF IInv, Kinds, OverKind
<1> QED BY <1>1, <1>2, <1>3, <1>4, <1>5, <1>6, Ending

LEMMA StepRaise == ASSUME IInv, NEW j \in Jobs, Raise(j) PROVE Kept
<1> DEFINE r == [job[j] EXCEPT !.at = "end"]
<1>1. /\ job[j].at \in Nodes /\ job' = [job EXCEPT ![j].at = "end"] /\ failures < MaxFaults /\ failures' = failures + 1
      /\ UNCHANGED ask /\ UNCHANGED stream /\ UNCHANGED saved /\ UNCHANGED notes /\ UNCHANGED over
  BY DEF Raise
<1>2. job[j] \in JobRecord /\ job[j].own \in {0, j[1]} /\ failures \in 0..MaxFaults
  BY DEF IInv, Kinds, Runs, RunOK
<1>3. job' = [job EXCEPT ![j] = r]
  BY <1>1
<1>4. r \in JobRecord /\ r.own = job[j].own /\ r.at = "end"
  BY <1>2 DEF JobRecord
<1> HIDE DEF r
<1>5. RunOK(j, r)
  BY <1>2, <1>4 DEF RunOK, Early
<1>6. NotesKind' /\ OverKind'
  BY <1>1 DEF IInv, Kinds, NotesKind, OverKind
<1>7. failures' \in 0..MaxFaults
  BY <1>1, <1>2, Limits
<1>8. job[j].at \notin {"idle", "ended"}
  BY <1>1 DEF Nodes
<1> QED BY <1>1, <1>3, <1>4, <1>5, <1>6, <1>7, <1>8, Ending

\* Progress moves neither a run nor a stream.
LEMMA Aside ==
  ASSUME IInv, UNCHANGED ask, UNCHANGED stream, UNCHANGED job, UNCHANGED saved, UNCHANGED failures,
         NotesKind', OverKind', \A g \in Jobs : over'[g].work => over[g].work
  PROVE  Kept
<1>1. Kinds'
  BY DEF IInv, Kinds, NotesKind, OverKind
<1>2. Runs'
  BY DEF IInv, Runs, RunOK
<1>3. Started'
  BY DEF IInv, Started, JobsOf
<1>4. Ended'
  BY DEF IInv, Ended, Single
<1>5. Current'
  BY DEF IInv, Current, NoneLeft, InConversation
<1> QED BY <1>1, <1>2, <1>3, <1>4, <1>5, HistoryKept DEF IInv, Kept

LEMMA StepAside ==
  ASSUME IInv, NEW j \in Jobs, ShowProgress(j) \/ EndProgress(j) \/ RepoDone(j) PROVE Kept
<1>1. /\ UNCHANGED ask /\ UNCHANGED stream /\ UNCHANGED job /\ UNCHANGED saved /\ UNCHANGED failures
  BY DEF ShowProgress, EndProgress, RepoDone
<1>2. NotesKind /\ OverKind
  BY DEF IInv, Kinds, NotesKind, OverKind
<1>3. CASE ShowProgress(j)
  <2>1. UNCHANGED over /\ notes[j].waiting > 0 /\ notes' = [notes EXCEPT ![j].waiting = @ - 1]
    BY <1>3 DEF ShowProgress
  <2>2. notes[j].waiting - 1 \in 0..MaxNotes
    BY <1>2, <2>1, Limits DEF NotesKind
  <2>3. NotesKind'
    BY <1>2, <2>1, <2>2 DEF NotesKind
  <2>4. OverKind'
    BY <1>2, <2>1 DEF OverKind
  <2> QED BY <1>1, <2>1, <2>3, <2>4, Aside
<1>4. CASE EndProgress(j)
  <2>1. UNCHANGED notes /\ over' = [over EXCEPT ![j].shown = TRUE]
    BY <1>4 DEF EndProgress
  <2>2. NotesKind'
    BY <1>2, <2>1 DEF NotesKind
  <2>3. OverKind' /\ \A g \in Jobs : over'[g].work => over[g].work
    BY <1>2, <2>1 DEF OverKind
  <2> QED BY <1>1, <2>2, <2>3, Aside
<1>5. CASE RepoDone(j)
  <2>1. UNCHANGED notes /\ UNCHANGED over
    BY <1>5 DEF RepoDone
  <2>2. NotesKind' /\ OverKind'
    BY <1>2, <2>1 DEF NotesKind, OverKind
  <2> QED BY <1>1, <2>1, <2>2, Aside
<1> QED BY <1>3, <1>4, <1>5

\* A stream that is under way comes to its end or is left; the run of one repository has
\* ended before its answer is shown.
LEMMA Streaming ==
  ASSUME IInv, NEW i \in Requests, stream[i].at \in {"open", "merging"},
         NEW a \in {"merging", "done", "failed", "left"}, NEW w \in {0, i},
         stream' = [stream EXCEPT ![i] = [at |-> a, shows |-> w]],
         a # "left" /\ Single(i) => job[<<i, 1>>].at = "ended",
         UNCHANGED ask, UNCHANGED job, UNCHANGED notes, UNCHANGED over, UNCHANGED saved, failures' \in 0..MaxFaults
  PROVE  Kept
<1>1. stream' \in [Requests -> [at : {"new", "open", "merging", "done", "failed", "left"}, shows : {0} \cup Requests]]
  BY DEF IInv, Kinds
<1>2. stream'[i].at = a /\ stream'[i].shows = w /\ \A g \in Requests : g # i => stream'[g] = stream[g]
  BY DEF IInv, Kinds
<1>3. Kinds'
  <2>1. \A g \in Requests : stream'[g].shows \in {0, g}
    BY <1>2 DEF IInv, Kinds
  <2> QED BY <1>1, <2>1 DEF IInv, Kinds
<1>4. Runs'
  BY DEF IInv, Runs, RunOK
<1>5. Started'
  <2>1. \A j \in Jobs : job[j].at # "idle" => j \in JobsOf(j[1]) /\ stream'[j[1]].at # "new"
    BY <1>2, JobParts DEF IInv, Started
  <2>2. ASSUME NEW g \in Requests, NEW h \in Requests, g < h, stream'[h].at # "new" PROVE stream'[g].at \in Over
    <3>1. stream[h].at # "new"
      BY <1>2, <2>2
    <3>2. stream[g].at \in Over
      BY <2>2, <3>1 DEF IInv, Started
    <3>3. g # i
      BY <3>2 DEF Over
    <3> QED BY <1>2, <3>2, <3>3
  <2> QED BY <2>1, <2>2 DEF Started, JobsOf
<1>6. Ended'
  <2>1. \A g \in Requests : Single(g) /\ stream'[g].at \notin {"new", "open", "left"} => job[<<g, 1>>].at = "ended"
    BY <1>2 DEF IInv, Ended
  <2> QED BY <2>1 DEF IInv, Ended, Single
<1>7. Current'
  <2>1. NoneLeft' => NoneLeft
    BY <1>2 DEF NoneLeft
  <2> QED BY <2>1 DEF IInv, Current, InConversation
<1> QED BY <1>3, <1>4, <1>5, <1>6, <1>7, HistoryKept DEF IInv, Kept

LEMMA ResultFits ==
  ASSUME IInv, NEW i \in Requests PROVE Result(i) \in {0, i} /\ <<i, 1>> \in Jobs
<1>1. <<i, 1>> \in Jobs /\ <<i, 1>>[1] = i
  BY Limits DEF Jobs
<1> QED BY <1>1 DEF IInv, Runs, RunOK, Result

LEMMA StepLeave == ASSUME IInv, NEW i \in Requests, Leave(i) PROVE Kept
<1>1. /\ stream[i].at \in {"open", "merging"} /\ stream' = [stream EXCEPT ![i].at = "left"]
      /\ failures < MaxFaults /\ failures' = failures + 1
      /\ UNCHANGED ask /\ UNCHANGED job /\ UNCHANGED notes /\ UNCHANGED over /\ UNCHANGED saved
  BY DEF Leave
<1>2. failures' \in 0..MaxFaults
  BY <1>1, Limits DEF IInv, Kinds
<1>3. stream[i].shows \in {0, i}
  BY DEF IInv, Kinds
<1>4. stream' = [stream EXCEPT ![i] = [at |-> "left", shows |-> stream[i].shows]]
  <2>1. [stream[i] EXCEPT !.at = "left"] = [at |-> "left", shows |-> stream[i].shows]
    BY DEF IInv, Kinds
  <2> QED BY <1>1, <2>1
<1> QED BY <1>1, <1>2, <1>3, <1>4, Streaming

\* What a stream that ends leaves alone.
LEMMA StepStream == ASSUME IInv, NEW i \in Requests, StreamStep(i) PROVE Kept
<1>1. /\ UNCHANGED ask /\ UNCHANGED job /\ UNCHANGED notes /\ UNCHANGED over /\ UNCHANGED saved /\ UNCHANGED failures
  BY DEF StreamStep, Direct, FinishSingle, FinishSocket, AllDone, Synthesize
<1>2. failures' \in 0..MaxFaults
  BY <1>1 DEF IInv, Kinds
<1>3. stream[i].at \in {"open", "merging"}
  BY DEF StreamStep, Direct, FinishSingle, FinishSocket, AllDone, Synthesize
<1>4. ASSUME NEW a \in {"merging", "done", "failed"}, NEW w \in {0, i}, Shown(i, a, w),
             Single(i) => job[<<i, 1>>].at = "ended"
      PROVE  Kept
  BY <1>1, <1>2, <1>3, <1>4, Streaming DEF Shown
<1>5. CASE Direct(i)
  <2>1. ~Single(i)
    <3>1. ask[i].repos = <<>> \/ ask[i].way = "once"
      BY <1>5 DEF Direct
    <3>2. CASE ask[i].repos = <<>>
      <4>1. Len(ask[i].repos) # 1
        BY <3>2
      <4> QED BY <4>1 DEF Single
    <3>3. CASE ask[i].way = "once"
      BY <3>3 DEF Single
    <3> QED BY <3>1, <3>2, <3>3
  <2>2. Shown(i, "done", i) \/ Shown(i, "failed", 0)
    BY <1>5 DEF Direct
  <2> QED BY <1>4, <2>1, <2>2
<1>6. CASE FinishSingle(i)
  <2>1. over[<<i, 1>>].work /\ Shown(i, "done", Result(i))
    BY <1>6 DEF FinishSingle
  <2>2. job[<<i, 1>>].at = "ended"
    BY <2>1, ResultFits DEF IInv, Ended
  <2> QED BY <1>4, <2>1, <2>2, ResultFits
<1>7. CASE FinishSocket(i)
  <2>1. ~Single(i) /\ Shown(i, "done", Result(i))
    BY <1>7 DEF FinishSocket, Single
  <2> QED BY <1>4, <2>1, ResultFits
<1>8. CASE AllDone(i)
  <2>1. ~Single(i) /\ (Shown(i, "failed", 0) \/ Shown(i, "merging", 0))
    <3>1. Multiple(i)
      BY <1>8 DEF AllDone
    <3>2. Len(ask[i].repos) \in Nat
      BY Asked, Limits DEF IInv, Kinds
    <3>3. Len(ask[i].repos) # 1
      <4>1. Len(ask[i].repos) > 1
        BY <3>1 DEF Multiple
      <4>2. ASSUME NEW n \in Nat, n > 1 PROVE n # 1
        BY <4>2
      <4> QED BY <3>2, <4>1, <4>2
    <3>4. ~Single(i)
      BY <3>3 DEF Single
    <3> QED BY <1>8, <3>4 DEF AllDone
  <2> QED BY <1>4, <2>1
<1>9. CASE Synthesize(i)
  <2>1. stream[i].at = "merging" /\ (Shown(i, "done", i) \/ Shown(i, "failed", 0))
    BY <1>9 DEF Synthesize
  <2>2. Single(i) => job[<<i, 1>>].at = "ended"
    BY <2>1 DEF IInv, Ended
  <2> QED BY <1>4, <2>1, <2>2
<1> QED BY <1>5, <1>6, <1>7, <1>8, <1>9 DEF StreamStep

-----------------------------------------------------------------------------
(* A question is asked when every earlier one is over: no run is at work on the       *)
(* conversation then, as long as no page left its stream.                             *)

LEMMA StepAsk == ASSUME IInv, NEW i \in Requests, Ask(i) PROVE Kept
<1>1. /\ stream[i].at = "new" /\ \A h \in Requests : h < i => stream[h].at \notin {"new", "open", "merging"}
      /\ stream' = [stream EXCEPT ![i].at = "open"]
      /\ job' = [j \in Jobs |-> IF j \in JobsOf(i) THEN StartJob(i, j) ELSE job[j]]
      /\ UNCHANGED ask /\ UNCHANGED notes /\ UNCHANGED over /\ UNCHANGED saved /\ UNCHANGED failures
  BY DEF Ask
<1>2. stream \in [Requests -> [at : {"new", "open", "merging", "done", "failed", "left"}, shows : {0} \cup Requests]]
  BY DEF IInv, Kinds
<1>3. /\ stream' \in [Requests -> [at : {"new", "open", "merging", "done", "failed", "left"}, shows : {0} \cup Requests]]
      /\ stream'[i].at = "open" /\ stream'[i].shows = stream[i].shows
      /\ \A g \in Requests : g # i => stream'[g] = stream[g]
  BY <1>1, <1>2
<1>4. \A j \in JobsOf(i) : j[1] = i
  BY DEF JobsOf
<1>5. \A h : JobsOf(h)' = JobsOf(h) /\ Single(h)' = Single(h)
  BY <1>1 DEF JobsOf, Single
<1>6. \A g : InConversation(g)' = InConversation(g)
  BY <1>1 DEF InConversation
<1>7. ASSUME NEW j \in Jobs, j \in JobsOf(i)
      PROVE  /\ job'[j] = StartJob(i, j) /\ job[j].at = "idle"
             /\ RunOK(j, StartJob(i, j)) /\ StartJob(i, j) \in JobRecord
             /\ StartJob(i, j).at = "validate"
             /\ InConversation(j) => StartJob(i, j).history = saved.history
  <2>1. job'[j] = StartJob(i, j)
    BY <1>1, <1>7
  <2>2. job[j].at = "idle"
    BY <1>1, <1>4, <1>7 DEF IInv, Started
  <2>3. saved.history \in Seq(Turns) /\ saved.output \in {0} \cup Requests /\ saved.error \in BOOLEAN
    BY DEF IInv, Kinds
  <2> DEFINE text == IF ask[i].way = "socket" THEN "none" ELSE ask[i].text
             hist == IF InConversation(j) THEN saved.history ELSE <<>>
             outp == IF InConversation(j) THEN saved.output ELSE 0
             err  == InConversation(j) /\ saved.error
  <2>4. text \in Texts
    BY Asked DEF IInv, Kinds, Texts
  <2>5. hist \in Seq(Turns) /\ outp \in {0} \cup Requests
    BY <2>3
  <2>6. err \in BOOLEAN
    OBVIOUS
  <2>s. StartJob(i, j) = [Idle EXCEPT !.at = "validate", !.text = text, !.history = hist, !.output = outp, !.error = err]
    BY Zenon DEF StartJob
  <2>8. InConversation(j) => hist = saved.history
    OBVIOUS
  <2> HIDE DEF text, hist, outp, err
  <2>7. StartJob(i, j) = [at |-> "validate", text |-> text, clarity |-> "unknown", limit |-> Limit, error |-> err,
                          iterations |-> 0, last |-> "none", history |-> hist, output |-> outp, own |-> 0]
    BY <2>s DEF Idle
  <2>9. 0 \in 0..(Limit + BroadLimit)
    BY Limits
  <2>10. StartJob(i, j) \in JobRecord
    BY <2>4, <2>5, <2>6, <2>7, <2>9 DEF JobRecord, Nodes
  <2>11. RunOK(j, StartJob(i, j))
    BY <2>7, <2>10 DEF RunOK
  <2> QED BY <2>1, <2>2, <2>7, <2>8, <2>10, <2>11
<1>8. ASSUME NEW j \in Jobs, j \notin JobsOf(i) PROVE job'[j] = job[j]
  BY <1>1, <1>8
<1>9. Kinds'
  <2>1. \A g \in Requests : stream'[g].shows \in {0, g}
    BY <1>3 DEF IInv, Kinds
  <2> QED BY <1>1, <1>3, <2>1 DEF IInv, Kinds
<1>10. Runs'
  <2>1. \A j \in Jobs : job'[j] \in JobRecord /\ RunOK(j, job'[j])
    BY <1>7, <1>8 DEF IInv, Runs, RunOK
  <2>2. job' \in [Jobs -> JobRecord]
    BY <1>1, <2>1
  <2> QED BY <2>1, <2>2 DEF Runs, RunOK
<1>11. Started'
  <2>1. ASSUME NEW j \in Jobs, job'[j].at # "idle" PROVE j \in JobsOf(j[1]) /\ stream'[j[1]].at # "new"
    <3>1. CASE j \in JobsOf(i)
      BY <1>3, <1>4, <3>1
    <3>2. CASE j \notin JobsOf(i)
      <4>1. j \in JobsOf(j[1]) /\ stream[j[1]].at # "new" /\ j[1] \in Requests
        BY <1>8, <2>1, <3>2, JobParts DEF IInv, Started
      <4> QED BY <1>1, <1>3, <4>1
    <3> QED BY <3>1, <3>2
  <2>2. ASSUME NEW g \in Requests, NEW h \in Requests, g < h, stream'[h].at # "new" PROVE stream'[g].at \in Over
    <3>1. CASE h = i
      <4>1. stream[g].at \in Over /\ g # i
        BY <1>1, <1>2, <2>2, <3>1 DEF Over
      <4> QED BY <1>3, <4>1
    <3>2. CASE h # i
      <4>1. stream[g].at \in Over
        BY <1>3, <2>2, <3>2 DEF IInv, Started
      <4>2. g # i
        BY <1>1, <4>1 DEF Over
      <4> QED BY <1>3, <4>1, <4>2
    <3> QED BY <3>1, <3>2
  <2> QED BY <1>5, <2>1, <2>2 DEF Started
<1>12. Ended'
  <2>1. ASSUME NEW j \in Jobs, job[j].at = "ended" PROVE job'[j].at = "ended"
    BY <1>7, <1>8, <2>1
  <2>2. ASSUME NEW g \in Requests, Single(g), stream'[g].at \notin {"new", "open", "left"}
        PROVE  job'[<<g, 1>>].at = "ended"
    <3>1. job[<<g, 1>>].at = "ended"
      BY <1>3, <2>2 DEF IInv, Ended
    <3>2. <<g, 1>> \in Jobs
      BY Limits DEF Jobs
    <3> QED BY <2>1, <3>1, <3>2
  <2> QED BY <1>1, <1>5, <2>1, <2>2 DEF IInv, Ended
<1>13. Current'
  <2>1. SUFFICES ASSUME NoneLeft', NEW j \in Jobs, InConversation(j), job'[j].at \in Nodes
                 PROVE  job'[j].history = saved'.history
    BY <1>6 DEF Current
  <2>2. NoneLeft
    BY <1>1, <1>3, <2>1 DEF NoneLeft
  <2>3. CASE j \in JobsOf(i)
    BY <1>1, <1>7, <2>1, <2>3
  <2>4. CASE j \notin JobsOf(i)
    BY <1>1, <1>8, <2>1, <2>2, <2>4 DEF IInv, Current
  <2> QED BY <2>3, <2>4
<1> QED BY <1>1, <1>9, <1>10, <1>11, <1>12, <1>13, HistoryKept DEF IInv, Kept

-----------------------------------------------------------------------------

LEMMA Start == Init => IInv
<1> SUFFICES ASSUME Init PROVE IInv
  OBVIOUS
<1>1. Idle \in JobRecord /\ Idle.at = "idle" /\ Idle.own = 0
  <2>1. 0 \in 0..(Limit + BroadLimit)
    BY Limits
  <2> QED BY <2>1 DEF Idle, JobRecord, Texts
<1>2. job = [j \in Jobs |-> Idle]
  BY DEF Init
<1>3. Kinds
  <2>1. 0 \in 0..MaxNotes /\ 0 \in 0..MaxFaults
    BY Limits
  <2> QED BY <2>1 DEF Init, Kinds
<1>4. Runs
  <2>1. \A j \in Jobs : RunOK(j, Idle)
    BY <1>1 DEF RunOK, Early
  <2> QED BY <1>1, <1>2, <2>1 DEF Runs
<1>5. Started
  BY <1>1, <1>2 DEF Init, Started
<1>6. Ended
  BY DEF Init, Ended
<1>7. Current
  BY <1>1, <1>2 DEF Current, Nodes
<1> QED BY <1>3, <1>4, <1>5, <1>6, <1>7 DEF IInv

LEMMA Step == IInv /\ [Next]_chatVars => Kept
<1> SUFFICES ASSUME IInv, [Next]_chatVars PROVE Kept
  OBVIOUS
<1>1. ASSUME NEW i \in Requests, Ask(i) \/ Leave(i) \/ StreamStep(i) PROVE Kept
  BY <1>1, StepAsk, StepLeave, StepStream
<1>2. ASSUME NEW j \in Jobs, NodeStep(j) \/ Raise(j) \/ ShowProgress(j) \/ EndProgress(j) \/ RepoDone(j)
      PROVE  Kept
  <2>1. CASE NodeStep(j)
    BY <2>1, StepValidate, StepClassify, StepClarify, StepRetrieve, StepGraphExpansion, StepAgent, StepTools,
       StepFormat, StepPresent, StepEndRun DEF NodeStep
  <2>2. CASE Raise(j)
    BY <2>2, StepRaise
  <2>3. CASE ShowProgress(j) \/ EndProgress(j) \/ RepoDone(j)
    BY <2>3, StepAside
  <2> QED BY <1>2, <2>1, <2>2, <2>3
<1>3. CASE UNCHANGED chatVars
  <2>1. /\ UNCHANGED ask /\ UNCHANGED stream /\ UNCHANGED job /\ UNCHANGED saved /\ UNCHANGED failures
        /\ UNCHANGED notes /\ UNCHANGED over
    BY <1>3 DEF chatVars
  <2>2. NotesKind' /\ OverKind'
    BY <2>1 DEF IInv, Kinds, NotesKind, OverKind
  <2> QED BY <2>1, <2>2, Aside
<1> QED BY <1>1, <1>2, <1>3 DEF Next

LEMMA Implied == IInv => TypeOK /\ AnswersFit
<1> SUFFICES ASSUME IInv PROVE TypeOK /\ AnswersFit
  OBVIOUS
<1>1. ASSUME NEW j \in Jobs
      PROVE  /\ job[j].at \in Nodes \cup {"idle", "end", "ended"}
             /\ job[j].clarity \in {"unknown", "clear", "vague"} /\ job[j].error \in BOOLEAN
             /\ job[j].iterations \in 0..(Limit + BroadLimit)
             /\ job[j].last \in {"none", "human", "system", "calls", "answer", "empty", "tool"}
             /\ {job[j].output, job[j].own} \subseteq {0} \cup Requests
  <2>1. job[j] \in JobRecord
    BY DEF IInv, Runs
  <2> QED BY <2>1 DEF JobRecord
<1>2. TypeOK
  BY <1>1 DEF IInv, Kinds, TypeOK
<1>3. ASSUME NEW k \in DOMAIN saved.history PROVE saved.history[k].asked = saved.history[k].answered
  <2>1. saved.history \in Seq(Turns)
    BY DEF IInv, Kinds
  <2>2. saved.history[k] \in Turns
    BY <2>1
  <2> QED BY <2>2 DEF Turns
<1>4. AnswersFit
  BY <1>3 DEF IInv, Kinds, AnswersFit
<1> QED BY <1>2, <1>4

\* Whatever is asked, of however many repositories, in however many questions: what is
\* shown and what the history of the conversation pairs is a question with its own
\* answer, and as long as no page left its stream no question or answer is lost from the
\* history (run_workflow, FormatResponseNode, PresentToUserNode).
THEOREM ConversationKept == Spec => AskCodeKept
<1>1. Kept => (TypeOK /\ AnswersFit)' /\ HistoryGrows
  BY Implied, PTL DEF Kept
<1>2. IInv /\ [Next]_chatVars => [(TypeOK /\ AnswersFit)' /\ HistoryGrows]_chatVars
  BY <1>1, Step
<1>3. IInv /\ [Next]_chatVars => IInv'
  BY Step DEF Kept
<1> QED BY Start, <1>2, <1>3, PTL DEF Spec, AskCodeKept

=============================================================================
