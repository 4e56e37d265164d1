----------------------------- MODULE Workflows ------------------------------
(***************************************************************************)
(* The workflows a client starts over its socket (dispatcher.py, manager.py): the *)
(* ingest of a repository with its clone and its progress queue (ingest.py,        *)
(* progress.py, repo_fetcher.py), and the agents' streams (deep_agent.py,          *)
(* multi_agent.py).                                                           *)
(*                                                                          *)
(* All ingests are of one repository and so share its checkout.  The event loop    *)
(* and the worker threads that clone and index interleave freely.  What is sent     *)
(* to the clients goes to the client a handler was started for and is left out.      *)
(***************************************************************************)
EXTENDS Integers, Sequences, FiniteSets

CONSTANTS
  Flows,        \* the workflows: numbers
  Clients,      \* client ids
  MaxReports,   \* bound of the model on the progress reports of a thread
  MaxCommands   \* bound of the model on commands and connections

ASSUME WorkflowsAssumption == Flows \subseteq Nat \ {0} /\ {MaxReports, MaxCommands} \subseteq Nat

VARIABLES
  online,     \* the clients with a socket
  record,     \* what the manager knows of each workflow: its status, "none" before and after
  owner,      \* the client it has for the workflow
  flow,       \* each workflow's handler: its kind, its client, where it is, its reports
  queue,      \* the progress queue of each ingest
  checkout,   \* the directory of the repository: none, whole, or partial and by whom
  overlapped, \* ingests that ran while another did
  cancels,    \* workflows a client cancelled
  commands    \* commands and connections so far

flowVars == <<online, record, owner, flow, queue, checkout, overlapped, cancels, commands>>

Stages   == {"none", "new", "cloning", "partial", "updating", "indexing", "streaming", "closing", "ended"}
Terminal == {"complete", "cancelled"}
Nobody   == 0
NoCheckout   == 0
WholeCheckout    == -1
Report   == "report"
EndMark  == "end"
Active(f) == flow[f].at \notin {"none", "ended"}

WorkflowsTypeOK ==
  /\ online \subseteq Clients /\ overlapped \subseteq Flows /\ cancels \subseteq Flows
  /\ record \in [Flows -> {"none", "running", "paused"} \cup Terminal]
  /\ owner \in [Flows -> Clients \cup {Nobody}]
  /\ flow \in [Flows -> [kind : {"ingest", "agent"}, client : Clients \cup {Nobody}, at : Stages,
                         reports : 0..2 * MaxReports, retried : BOOLEAN]]
  /\ queue \in [Flows -> Seq({Report, EndMark})]
  /\ checkout \in {NoCheckout, WholeCheckout} \cup Flows
  /\ commands \in 0..MaxCommands

WorkflowsInit ==
  /\ online = {} /\ record = [f \in Flows |-> "none"] /\ owner = [f \in Flows |-> Nobody]
  /\ flow \in [Flows -> [kind : {"ingest", "agent"}, client : {Nobody}, at : {"none"}, reports : {0}, retried : {FALSE}]]
  /\ queue = [f \in Flows |-> <<>>] /\ checkout \in {NoCheckout, WholeCheckout}
  /\ overlapped = {} /\ cancels = {} /\ commands = 0

Command == commands < MaxCommands /\ commands' = commands + 1

-----------------------------------------------------------------------------
(***************************************************************************)
(* Connections, and the commands of a client.                                  *)
(***************************************************************************)

Connect(c) ==
  /\ c \notin online /\ Command /\ online' = online \cup {c}
  /\ UNCHANGED <<record, owner, flow, queue, checkout, overlapped, cancels>>

\* Mutant: whatever the client owns is cleaned up.
CleanedAll(f, c) == owner[f] = c

Cleaned(f, c) == owner[f] = c /\ record[f] \in Terminal

Disconnect(c) ==
  /\ c \in online /\ online' = online \ {c}
  /\ record' = [f \in Flows |-> IF Cleaned(f, c) THEN "none" ELSE record[f]]
  /\ UNCHANGED <<owner, flow, queue, checkout, overlapped, cancels, commands>>

Start(f, c) ==
  /\ flow[f].at = "none" /\ c \in online /\ Command
  /\ record' = [record EXCEPT ![f] = "running"] /\ owner' = [owner EXCEPT ![f] = c]
  /\ flow' = [flow EXCEPT ![f].at = "new", ![f].client = c]
  /\ UNCHANGED <<online, queue, checkout, overlapped, cancels>>

\* No workflow is given its task: a cancel is answered and recorded, and cancels nothing.
Cancel(f, c) ==
  /\ c \in online /\ record[f] # "none" /\ Command
  /\ record' = [record EXCEPT ![f] = "cancelled"] /\ cancels' = cancels \cup {f}
  /\ UNCHANGED <<online, owner, flow, queue, checkout, overlapped>>

\* The owner changes, the client the handler sends to does not.
Reconnect(f, c) ==
  /\ c \in online /\ record[f] \in {"running", "paused"} /\ Command
  /\ owner' = [owner EXCEPT ![f] = c]
  /\ UNCHANGED <<online, record, flow, queue, checkout, overlapped, cancels>>

\* Only the status changes, of a workflow that has ended too.
PauseOrResume(f, c, status) ==
  /\ c \in online /\ record[f] # "none" /\ flow[f].kind = "ingest" /\ Command
  /\ record' = [record EXCEPT ![f] = status]
  /\ UNCHANGED <<online, owner, flow, queue, checkout, overlapped, cancels>>

-----------------------------------------------------------------------------
(***************************************************************************)
(* The ingest handler and its threads.                                         *)
(***************************************************************************)

Goto(f, stage) == flow' = [flow EXCEPT ![f].at = stage]
Quiet == UNCHANGED <<online, record, owner, overlapped, cancels, commands>>

Others(f) == {g \in Flows \ {f} : flow[g].kind = "ingest" /\ flow[g].at \in {"cloning", "partial", "updating", "indexing"}}

\* The checkout is looked at and the thread started without a wait in between.  A
\* partial clone may pass for a repository.
Begin(f) ==
  /\ flow[f].at = "new" /\ flow[f].kind = "ingest"
  /\ \/ checkout # WholeCheckout /\ Goto(f, "cloning")
     \/ checkout # NoCheckout /\ Goto(f, "updating")
  /\ overlapped' = IF Others(f) = {} THEN overlapped ELSE overlapped \cup Others(f) \cup {f}
  /\ UNCHANGED <<online, record, owner, queue, checkout, cancels, commands>>

\* What is there is removed, whoever uses it.
CloneStarts(f) ==
  /\ flow[f].at = "cloning" /\ Goto(f, "partial") /\ checkout' = f
  /\ UNCHANGED queue /\ Quiet

Succeeds(f) == Goto(f, "indexing") /\ UNCHANGED queue

\* Mutant: the consumer is not told to stop.
FinishUnmarked(f) == flow' = [flow EXCEPT ![f].at = "closing"] /\ UNCHANGED queue

\* The handler's own verdict is sent before what is left in the queue.
Finish(f) == flow' = [flow EXCEPT ![f].at = "closing"] /\ queue' = [queue EXCEPT ![f] = Append(@, EndMark)]

CloneDone(f) ==
  /\ flow[f].at = "partial" /\ checkout = f /\ checkout' = WholeCheckout
  /\ Succeeds(f) /\ Quiet

\* The directory is removed; the other default branch is tried once.
CloneFails(f) ==
  /\ flow[f].at = "partial" /\ checkout' = NoCheckout
  /\ \/ Finish(f)
     \/ /\ ~flow[f].retried /\ flow' = [flow EXCEPT ![f].at = "cloning", ![f].retried = TRUE]
        /\ UNCHANGED queue
  /\ Quiet

\* The services are not there or the address is not valid.
BeginFails(f) ==
  /\ flow[f].at = "new" /\ flow[f].kind = "ingest" /\ Finish(f) /\ UNCHANGED checkout /\ Quiet

UpdateDone(f) ==
  /\ flow[f].at = "updating" /\ checkout # NoCheckout /\ Succeeds(f)
  /\ UNCHANGED checkout /\ Quiet

UpdateFails(f) ==
  /\ flow[f].at = "updating" /\ Finish(f) /\ UNCHANGED checkout /\ Quiet

\* The event loop appends what a thread sends it, in order.
Bridge(f) == queue' = [queue EXCEPT ![f] = Append(@, Report)]

\* A thread reports before its result.
Reports(f) ==
  /\ flow[f].at \in {"partial", "indexing"}
  /\ flow[f].reports < (IF flow[f].at = "partial" THEN MaxReports ELSE 2 * MaxReports)
  /\ flow' = [flow EXCEPT ![f].reports = @ + 1]
  /\ Bridge(f) /\ UNCHANGED checkout /\ Quiet

\* Indexing ends, well or not.
IndexEnds(f) ==
  /\ flow[f].at = "indexing" /\ Finish(f) /\ UNCHANGED checkout /\ Quiet

ConsumeReport(f) ==
  /\ queue[f] # <<>> /\ Head(queue[f]) = Report
  /\ queue' = [queue EXCEPT ![f] = Tail(@)]
  /\ UNCHANGED <<flow, checkout>> /\ Quiet

\* The status is written over, a cancelled one too, unless the record is gone.
Complete(f) == /\ flow' = [flow EXCEPT ![f].at = "ended"]
               /\ record' = IF record[f] = "none" THEN record ELSE [record EXCEPT ![f] = "complete"]

CloseIngest(f) ==
  /\ flow[f].at = "closing" /\ queue[f] = <<EndMark>>
  /\ queue' = [queue EXCEPT ![f] = <<>>] /\ Complete(f)
  /\ UNCHANGED <<online, owner, checkout, overlapped, cancels, commands>>

-----------------------------------------------------------------------------
(***************************************************************************)
(* The agents: a stream of steps and a verdict.                                  *)
(***************************************************************************)

AgentStarts(f) ==
  /\ flow[f].at = "new" /\ flow[f].kind = "agent" /\ Goto(f, "streaming")
  /\ UNCHANGED <<queue, checkout>> /\ Quiet

\* The answer, that of the fallback on the retrieval service, or an error.
AgentEnds(f) ==
  /\ flow[f].at = "streaming" /\ Complete(f)
  /\ UNCHANGED <<online, owner, queue, checkout, overlapped, cancels, commands>>

Runs(f) ==
  \/ Begin(f) \/ BeginFails(f) \/ CloneStarts(f) \/ CloneDone(f) \/ CloneFails(f) \/ UpdateDone(f) \/ UpdateFails(f)
  \/ IndexEnds(f) \/ ConsumeReport(f) \/ CloseIngest(f) \/ AgentStarts(f) \/ AgentEnds(f)

WorkflowsNext ==
  \/ \E c \in Clients : \/ Connect(c) \/ Disconnect(c)
                        \/ \E f \in Flows : \/ Start(f, c) \/ Cancel(f, c) \/ Reconnect(f, c)
                                            \/ \E s \in {"paused", "running"} : PauseOrResume(f, c, s)
  \/ \E f \in Flows : Runs(f) \/ Reports(f)

\* A thread comes to its end and the event loop serves what is ready.
WorkflowsFairness == \A f \in Flows : WF_flowVars(Runs(f))

WorkflowsSpec == WorkflowsInit /\ [][WorkflowsNext]_flowVars /\ WorkflowsFairness

-----------------------------------------------------------------------------
(***************************************************************************)
(* Properties.                                                               *)
(***************************************************************************)

\* What is indexed is a whole checkout, whatever earlier clones failed and were
\* retried, as long as no other ingest of the repository runs at the time
\* (clone_repo, update_repo, handle_ingest_workflow).
IndexesWhole == \A f \in Flows : flow[f].at = "indexing" /\ f \notin overlapped => checkout = WholeCheckout

\* The manager forgets a workflow at its client's disconnection only if it has ended or
\* was cancelled: one that runs can be reconnected to (ConnectionManager.disconnect).
RunningIsRemembered == \A f \in Flows : Active(f) /\ record[f] = "none" => f \in cancels

\* A workflow that was started ends, connected or not, cancelled or not.
WorkflowsEnd == \A f \in Flows : flow[f].at = "new" ~> flow[f].at = "ended"

\* What the workflows of the socket leave on disk and in the manager's tables.
WorkflowsInv == WorkflowsTypeOK /\ IndexesWhole /\ RunningIsRemembered

=============================================================================
