------------------------------ MODULE AskCode ------------------------------
(***************************************************************************)
(* Questions about code: the ask-code graph, its nodes and its progress queue, *)
(* the streams that show a run to a page, and the checkpoint that carries a     *)
(* conversation from one question to the next (flows/v3/graphs/ask_code.py,     *)
(* flows/v3/nodes, routers/chat.py, websocket/handlers/ask_code.py).            *)
(*                                                                          *)
(* A request is one question.  It is streamed for one repository, for several   *)
(* (a run each, then a synthesis) or for none, or it comes over the socket.     *)
(* A page may leave its stream; the run behind it goes on, and the next question *)
(* of the conversation may find it at work.                                   *)
(***************************************************************************)
EXTENDS Integers, Sequences, FiniteSets

CONSTANTS
  Requests,     \* the questions of one conversation, numbered
  MaxRepos,     \* bound of the model on the repositories of a question
  Asks,         \* what may be asked: the requests' ways, repositories and texts
  Limit,        \* max_agent_iterations of an ordinary question
  BroadLimit,   \* max_agent_iterations of an architectural question
  MaxNotes,     \* size of the progress queue
  MaxFaults     \* bound of the model on pages that leave and runs that raise

Ways  == {"stream", "socket", "once"}
Texts == {"none", "blank", "text"}
Jobs  == Requests \X (1..MaxRepos)

ASSUME AskCodeAssumption ==
  /\ Requests \subseteq Nat \ {0} /\ MaxRepos \in Nat \ {0}
  /\ \A a \in Asks : a \in [Requests -> [way : Ways, text : Texts, repos : Seq(STRING)]]
                     /\ \A i \in Requests : Len(a[i].repos) <= MaxRepos
  /\ {Limit, BroadLimit, MaxNotes, MaxFaults} \subseteq Nat /\ Limit > 0 /\ BroadLimit > 0

VARIABLES
  ask,      \* the questions asked
  stream,   \* each request: how far its answer is, and whose answer it shows
  job,      \* each run: its node and the channels of its state
  notes,    \* the progress queue of each run, and whether its end is marked in it
  over,     \* per run: the workflow and the progress collector are done
  saved,    \* the checkpoint of the conversation: history, last answer, error
  reposDone,\* repos_done of a request for several repositories
  failures  \* pages that left and runs that raised so far

chatVars == <<ask, stream, job, notes, over, saved, reposDone, failures>>

Nodes == {"validate", "analyze_question", "clarify", "retrieve", "graph_expansion",
          "agent", "tools", "format", "present"}
Idle  == [at |-> "idle", text |-> "none", clarity |-> "unknown", limit |-> Limit, error |-> FALSE,
          iterations |-> 0, last |-> "none", history |-> <<>>, output |-> 0, own |-> 0]

TypeOK ==
  /\ ask \in Asks
  /\ stream \in [Requests -> [at : {"new", "open", "merging", "done", "failed", "left"},
                              shows : {0} \cup Requests]]
  /\ \A j \in Jobs :
       /\ job[j].at \in Nodes \cup {"idle", "end", "ended"}
       /\ job[j].clarity \in {"unknown", "clear", "vague"} /\ job[j].error \in BOOLEAN
       /\ job[j].iterations \in 0..(Limit + BroadLimit)
       /\ job[j].last \in {"none", "human", "system", "calls", "answer", "empty", "tool"}
       /\ {job[j].output, job[j].own} \subseteq {0} \cup Requests
  /\ notes \in [Jobs -> [waiting : 0..MaxNotes, end : BOOLEAN, closed : BOOLEAN]]
  /\ over \in [Jobs -> [work : BOOLEAN, shown : BOOLEAN]]
  /\ saved.output \in {0} \cup Requests /\ saved.error \in BOOLEAN
  /\ failures \in 0..MaxFaults

Init ==
  /\ ask \in Asks
  /\ stream = [i \in Requests |-> [at |-> "new", shows |-> 0]]
  /\ job = [j \in Jobs |-> Idle]
  /\ notes = [j \in Jobs |-> [waiting |-> 0, end |-> FALSE, closed |-> FALSE]]
  /\ over = [j \in Jobs |-> [work |-> FALSE, shown |-> FALSE]]
  /\ saved = [history |-> <<>>, output |-> 0, error |-> FALSE]
  /\ reposDone = [i \in Requests |-> {}] /\ failures = 0

-----------------------------------------------------------------------------
(***************************************************************************)
(* The nodes.  A node returns the channels it changes; a success with output    *)
(* clears an error, a failure or an exception sets one.                        *)
(***************************************************************************)

InConversation(j) == ask[j[1]].way = "stream" /\ Len(ask[j[1]].repos) = 1

\* The superstep is committed: the run's channels are the thread's checkpoint.
Commit(j, r) ==
  /\ job' = [job EXCEPT ![j] = r]
  /\ saved' = IF InConversation(j)
              THEN [history |-> r.history, output |-> r.output, error |-> r.error] ELSE saved

Succeed(j, r, next) == Commit(j, [r EXCEPT !.at = next, !.error = FALSE])
Fail(j, next)       == Commit(j, [job[j] EXCEPT !.at = next, !.error = TRUE])

\* emit: an event that finds the queue full is dropped.
Emit(j) == \E n \in notes[j].waiting .. MaxNotes : notes' = [notes EXCEPT ![j].waiting = n]

rest == <<ask, stream, over, reposDone, failures>>

Validate(j) ==
  /\ job[j].at = "validate"
  /\ IF job[j].text = "none" THEN Fail(j, "end")
     ELSE Succeed(j, [job[j] EXCEPT !.last = "none"], "analyze_question")
  /\ UNCHANGED <<notes, rest>>

\* The LLM's classification, or the heuristics when it fails.
Heuristic(broad, named, short) ==
  [limit |-> IF broad /\ ~short /\ ~named THEN BroadLimit ELSE Limit,
   clarity |-> IF named \/ ~short THEN "clear" ELSE "vague"]

Classifications ==
  [limit : {Limit, BroadLimit}, clarity : {"clear", "vague"}]
    \cup {Heuristic(b, n, s) : b, n, s \in BOOLEAN}

NextOf(clarity) == IF clarity = "vague" THEN "clarify" ELSE "retrieve"

Classify(j) ==
  /\ job[j].at = "analyze_question"
  /\ IF job[j].text = "blank" THEN Fail(j, NextOf(job[j].clarity))
     ELSE \E c \in Classifications :
            Succeed(j, [job[j] EXCEPT !.limit = c.limit, !.clarity = c.clarity], NextOf(c.clarity))
  /\ UNCHANGED <<notes, rest>>

\* interrupt() raises, the node's own handler catches it, and its error result
\* cannot be built: the node has failed, and its edge leads on.
Clarify(j) ==
  /\ job[j].at = "clarify" /\ Fail(j, "retrieve") /\ UNCHANGED <<notes, rest>>

\* The retrieval answers in time and its context becomes the first message; or it
\* is not there, fails or takes too long.
Retrieved(j)    == Succeed(j, [job[j] EXCEPT !.last = "human"], "graph_expansion")
NotRetrieved(j) == Fail(j, "end")

Retrieve(j) ==
  /\ job[j].at = "retrieve" /\ Emit(j) /\ (Retrieved(j) \/ NotRetrieved(j))
  /\ UNCHANGED rest

\* Whatever happens to the expansion, the node succeeds, with a summary or without.
GraphExpansion(j) ==
  /\ job[j].at = "graph_expansion"
  /\ \E last \in {job[j].last, "system"} :
       Succeed(j, [job[j] EXCEPT !.last = last], "agent")
  /\ UNCHANGED <<notes, rest>>

AfterAgent(r) == IF r.last = "calls" /\ r.iterations < r.limit THEN "tools" ELSE "format"

\* The LLM asks for tools, answers, answers nothing, or has failed three times.
Agent(j) ==
  /\ job[j].at = "agent" /\ Emit(j)
  /\ \/ \E last \in {"calls", "answer", "empty"} :
          LET r == [job[j] EXCEPT !.last = last, !.iterations = @ + 1] IN
          Succeed(j, r, AfterAgent(r))
     \/ Fail(j, AfterAgent(job[j]))
  /\ UNCHANGED rest

\* Every call gets its message: a result, an error, a timeout or an unknown tool.
Tools(j) ==
  /\ job[j].at = "tools" /\ Emit(j)
  /\ Succeed(j, [job[j] EXCEPT !.last = "tool"], "agent")
  /\ UNCHANGED rest

\* The last message, or an apology when it is not one of the LLM or has no text.
Format(j) ==
  /\ job[j].at = "format"
  /\ Succeed(j, [job[j] EXCEPT !.output = j[1], !.own = j[1]], "present")
  /\ UNCHANGED <<notes, rest>>

\* The turn is added to the conversation's history.
Present(j) ==
  /\ job[j].at = "present"
  /\ Succeed(j, [job[j] EXCEPT !.history =
                   Append(@, [asked |-> j[1], answered |-> job[j].output])], "end")
  /\ UNCHANGED <<notes, rest>>

-----------------------------------------------------------------------------
(***************************************************************************)
(* A run and what shows it.                                                  *)
(***************************************************************************)

\* The end of the run is marked in the progress queue, if there is room for the mark.
Close(j) == notes' = [notes EXCEPT ![j].closed = TRUE, ![j].end = notes[j].waiting < MaxNotes]

\* Mutant: the queue of a run that raised is not closed.
EndRunOpen(j) ==
  /\ job[j].at = "end"
  /\ job' = [job EXCEPT ![j] = [Idle EXCEPT !.at = "ended", !.own = job[j].own]] /\ over' = [over EXCEPT ![j].work = TRUE]
  /\ UNCHANGED <<ask, stream, notes, saved, reposDone, failures>>

EndRun(j) ==
  /\ job[j].at = "end" /\ Close(j)
  /\ job' = [job EXCEPT ![j] = [Idle EXCEPT !.at = "ended", !.own = job[j].own]] /\ over' = [over EXCEPT ![j].work = TRUE]
  /\ UNCHANGED <<ask, stream, saved, reposDone, failures>>

Raise(j) ==
  /\ job[j].at \in Nodes /\ failures < MaxFaults /\ failures' = failures + 1
  /\ job' = [job EXCEPT ![j].at = "end"]
  /\ UNCHANGED <<ask, stream, notes, over, saved, reposDone>>

\* The collector of the progress queue takes an event, or the mark of the end.
ShowProgress(j) ==
  /\ notes[j].waiting > 0 /\ notes' = [notes EXCEPT ![j].waiting = @ - 1]
  /\ UNCHANGED <<ask, stream, job, over, saved, reposDone, failures>>

EndProgress(j) ==
  /\ notes[j].waiting = 0 /\ notes[j].end /\ ~over[j].shown
  /\ over' = [over EXCEPT ![j].shown = TRUE]
  /\ UNCHANGED <<ask, stream, job, notes, saved, reposDone, failures>>

JobsOf(i) == IF ask[i].way = "once" THEN {} ELSE {<<i, k>> : k \in DOMAIN ask[i].repos}

\* A run starts from the thread's checkpoint and the question; over the socket the
\* question is not among the channels the graph reads.
StartJob(i, j) ==
  [Idle EXCEPT !.at = "validate",
               !.text = IF ask[i].way = "socket" THEN "none" ELSE ask[i].text,
               !.history = IF InConversation(j) THEN saved.history ELSE <<>>,
               !.output = IF InConversation(j) THEN saved.output ELSE 0,
               !.error = InConversation(j) /\ saved.error]

\* The next question waits for the page: the stream of the last one is over or left.
Ask(i) ==
  /\ stream[i].at = "new" /\ \A h \in Requests : h < i => stream[h].at \notin {"new", "open", "merging"}
  /\ stream' = [stream EXCEPT ![i].at = "open"]
  /\ job' = [j \in Jobs |-> IF j \in JobsOf(i) THEN StartJob(i, j) ELSE job[j]]
  /\ UNCHANGED <<ask, notes, over, saved, reposDone, failures>>

\* The page goes away; the tasks behind its stream are not cancelled.
Leave(i) ==
  /\ stream[i].at \in {"open", "merging"} /\ failures < MaxFaults /\ failures' = failures + 1
  /\ stream' = [stream EXCEPT ![i].at = "left"]
  /\ UNCHANGED <<ask, job, notes, over, saved, reposDone>>

Single(i)   == ask[i].way = "stream" /\ Len(ask[i].repos) = 1
Multiple(i) == ask[i].way = "stream" /\ Len(ask[i].repos) > 1

Shown(i, at, shows) == stream' = [stream EXCEPT ![i] = [at |-> at, shows |-> shows]]

\* Without a repository, or outside the graph: retrieval and one call of the LLM.
Direct(i) ==
  /\ stream[i].at = "open" /\ (ask[i].repos = <<>> \/ ask[i].way = "once")
  /\ Shown(i, "done", i) \/ Shown(i, "failed", 0)
  /\ UNCHANGED <<ask, job, notes, over, saved, reposDone, failures>>

\* Mutant: the answer is read from the checkpoint of the conversation.
ResultSaved(i) == saved.output

\* What the run itself has returned, node by node.
Result(i) == job[<<i, 1>>].own

\* One repository: the answer of the run, or an apology.
FinishSingle(i) ==
  /\ Single(i) /\ stream[i].at = "open" /\ over[<<i, 1>>] = [work |-> TRUE, shown |-> TRUE]
  /\ Shown(i, "done", Result(i))
  /\ UNCHANGED <<ask, job, notes, over, saved, reposDone, failures>>

\* The socket's handler sends the run's progress itself, and completes.
FinishSocket(i) ==
  /\ ask[i].way = "socket" /\ stream[i].at = "open" /\ over[<<i, 1>>].work
  /\ Shown(i, "done", Result(i))
  /\ UNCHANGED <<ask, job, notes, over, saved, reposDone, failures>>

\* Several: a repository is done by name ...
RepoDone(j) ==
  LET i == j[1] IN
  /\ Multiple(i) /\ stream[i].at = "open" /\ over[j] = [work |-> TRUE, shown |-> TRUE]
  /\ ask[i].repos[j[2]] \notin reposDone[i]
  /\ reposDone' = [reposDone EXCEPT ![i] = @ \cup {ask[i].repos[j[2]]}]
  /\ UNCHANGED <<ask, stream, job, notes, over, saved, failures>>

\* ... and when as many are done as were asked for, their answers are merged.
Successful(i) == {j \in JobsOf(i) : job[j].own # 0}

AllDone(i) ==
  /\ Multiple(i) /\ stream[i].at = "open" /\ Cardinality(reposDone[i]) = Len(ask[i].repos)
  /\ IF Successful(i) = {} THEN Shown(i, "failed", 0) ELSE Shown(i, "merging", 0)
  /\ UNCHANGED <<ask, job, notes, over, saved, reposDone, failures>>

Synthesize(i) ==
  /\ stream[i].at = "merging" /\ (Shown(i, "done", i) \/ Shown(i, "failed", 0))
  /\ UNCHANGED <<ask, job, notes, over, saved, reposDone, failures>>

NodeStep(j) ==
  \/ Validate(j) \/ Classify(j) \/ Clarify(j) \/ Retrieve(j) \/ GraphExpansion(j)
  \/ Agent(j) \/ Tools(j) \/ Format(j) \/ Present(j) \/ EndRun(j)

StreamStep(i) ==
  \/ Direct(i) \/ FinishSingle(i) \/ FinishSocket(i) \/ AllDone(i) \/ Synthesize(i)

Next ==
  \/ \E i \in Requests : Ask(i) \/ Leave(i) \/ StreamStep(i)
  \/ \E j \in Jobs : NodeStep(j) \/ Raise(j) \/ ShowProgress(j) \/ EndProgress(j) \/ RepoDone(j)

Spec == Init /\ [][Next]_chatVars

\* The tasks of the event loop run; pages owe nothing.
Tasks ==
  /\ \A j \in Jobs : /\ WF_chatVars(NodeStep(j)) /\ WF_chatVars(ShowProgress(j))
                     /\ WF_chatVars(EndProgress(j)) /\ WF_chatVars(RepoDone(j))
  /\ \A i \in Requests : WF_chatVars(StreamStep(i))
FairSpec == Spec /\ Tasks

-----------------------------------------------------------------------------
(***************************************************************************)
(* Properties.                                                               *)
(***************************************************************************)

\* An answer that is shown, and every turn of the history, pairs a question with
\* the answer to that question, although the checkpoint still holds the answer to
\* the one before (run_workflow, FormatResponseNode, PresentToUserNode).
AnswersFit ==
  /\ \A i \in Requests : stream[i].shows \in {0, i}
  /\ \A k \in DOMAIN saved.history : saved.history[k].asked = saved.history[k].answered

\* The history of a conversation is only added to, unless the run of a stream that was
\* left commits over the run of the next question (thread_id, conversation_history).
HistoryGrows ==
  (\A i \in Requests : stream[i].at # "left")
    => \A k \in DOMAIN saved.history : k \in DOMAIN saved'.history /\ saved'.history[k] = saved.history[k]

\* A stream comes to its end or is left, unless the mark of a run's end did not fit
\* into its progress queue, or a repository was named twice: the stream then sends
\* keepalives for ever (ProgressQueue.close, repos_done).
Stuck(i) ==
  \/ \E j \in JobsOf(i) : notes[j].closed /\ ~notes[j].end
  \/ \E k, l \in DOMAIN ask[i].repos : k # l /\ ask[i].repos[k] = ask[i].repos[l]
StreamsEnd ==
  \A i \in Requests : stream[i].at = "open" ~> stream[i].at \in {"done", "failed", "left"} \/ Stuck(i)

\* What no step of the flow breaks: the types, answers that go with their questions, and a
\* history that loses nothing.
AskCodeKept == [][(TypeOK /\ AnswersFit)' /\ HistoryGrows]_chatVars

=============================================================================
