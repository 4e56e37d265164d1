------------------------------ MODULE Sessions ------------------------------
(***************************************************************************)
(* One plan session between its pages, the connection manager, the plan        *)
(* dispatcher, the engine's checkpoint and the row of the database             *)
(* (main.py, websocket/manager.py, websocket/handlers/plan_dispatcher.py,       *)
(* database/plan_repositories.py).                                            *)
(*                                                                          *)
(* The endpoint of a socket takes one message at a time; the endpoints of two   *)
(* sockets interleave at every await.  The manager knows a connection by the    *)
(* client id, which all the pages of a browser share.  A page may go away and   *)
(* be noticed late, a row may fail to be written, and the server may restart.   *)
(* The graph is what a handler sees of PlanWorkflow: a run works, and ends with *)
(* a question, a terminal status or an exception.                             *)
(***************************************************************************)
EXTENDS Integers, Sequences, FiniteSets

CONSTANTS
  Sockets,        \* the connections, numbered as they are opened
  Clients,        \* the client ids of the browsers
  none,           \* no socket, no client, no session
  Requests,       \* the messages the user sends, out of Kinds
  MaxQuestions,   \* bound of the model on the questions the graph asks
  Ownerships,     \* the assignments of sockets to clients to start from
  MaxRequests,    \* bound of the model on the messages of the users
  MaxQueued,      \* bound of the model on the messages that wait for an endpoint
  MaxFaults       \* bound of the model on lost pages and rows, exceptions and restarts

Kinds == {"start", "input", "navigate", "look", "resume", "pause", "retry", "step"}

ASSUME SessionsAssumption ==
  /\ Sockets \subseteq Nat /\ none \notin Sockets \cup Clients /\ Requests \subseteq Kinds
  /\ none \notin [client : Clients, user : Clients, task : Sockets \cup {none}]
  /\ Ownerships \subseteq [Sockets -> Clients]
  /\ {MaxQuestions, MaxRequests, MaxQueued, MaxFaults} \subseteq Nat

VARIABLES
  owner,     \* the client id of each socket
  sock,      \* each socket: new, open, gone (not yet noticed) or closed
  page,      \* what each page shows: a question and a status
  inbox,     \* the messages each endpoint has not taken yet
  hand,      \* the message each endpoint is handling, and how far it is
  stored,    \* the clients whose browser has stored the session's id
  active,    \* active_connections
  route,     \* _session_to_client
  cache,     \* _sessions: owner, user of the row and running task, or none
  ckpt,      \* the checkpoint: status and the question that waits, 0 for none
  row,       \* plan_sessions: owner and status, or none
  asked,     \* questions asked so far
  spent,     \* messages and faults so far
  unsaved    \* the row may differ from the checkpoint, and why is known

browser == <<owner, stored, sock, page, inbox>>
server  == <<hand, active, route, cache>>
store   == <<ckpt, row>>
vars    == <<browser, server, store, asked, spent, unsaved>>

Statuses == {"none", "running", "completed", "error", "budget_exhausted"}
Idle     == [at |-> "idle", kind |-> "none", q |-> 0, for |-> none]
Runs     == {s \in Sockets : hand[s].at = "running"}

TypeOK ==
  /\ owner \in [Sockets -> Clients] /\ stored \subseteq Clients
  /\ sock \in [Sockets -> {"new", "open", "gone", "closed"}]
  /\ page \in [Sockets -> [q : 0..MaxQuestions,
                           says : {"nothing", "asking", "working", "completed", "error", "paused"}]]
  /\ \A s \in Sockets : inbox[s] \in Seq([kind : Kinds \cup {"reconnect"}, q : 0..MaxQuestions])
  /\ hand \in [Sockets -> [at : {"idle", "accepted", "resuming", "waiting", "running", "ended", "raised"},
                           kind : Kinds \cup {"none"}, q : 0..MaxQuestions,
                           for : Sockets \cup {none}]]
  /\ active \in [Clients -> Sockets \cup {none}] /\ route \in Clients \cup {none}
  /\ cache = none \/ cache \in [client : Clients, user : Clients, task : Sockets \cup {none}]
  /\ ckpt \in [status : Statuses, q : 0..MaxQuestions]
  /\ row = none \/ row \in [owner : Clients, status : (Statuses \ {"none"}) \cup {"paused"}]
  /\ asked \in 0..MaxQuestions /\ spent \in [sent : 0..MaxRequests, faults : 0..MaxFaults]
  /\ unsaved \in BOOLEAN

Init ==
  /\ owner \in Ownerships /\ stored = {}
  /\ sock = [s \in Sockets |-> "new"]
  /\ page = [s \in Sockets |-> [q |-> 0, says |-> "nothing"]]
  /\ inbox = [s \in Sockets |-> <<>>]
  /\ hand = [s \in Sockets |-> Idle]
  /\ active = [c \in Clients |-> none] /\ route = none /\ cache = none
  /\ ckpt = [status |-> "none", q |-> 0] /\ row = none
  /\ asked = 0 /\ spent = [sent |-> 0, faults |-> 0] /\ unsaved = FALSE

-----------------------------------------------------------------------------
(***************************************************************************)
(* Connections and pages.                                                    *)
(***************************************************************************)

Fault == spent.faults < MaxFaults /\ spent' = [spent EXCEPT !.faults = @ + 1]

\* A page opens: the newest socket of a client id is the client's connection.
\* A page that has the session's id asks for its state at once.
Connect(s) ==
  /\ sock[s] = "new" /\ \A t \in Sockets : t < s => sock[t] # "new"
  /\ sock' = [sock EXCEPT ![s] = "open"]
  /\ active' = [active EXCEPT ![owner[s]] = s]
  /\ inbox' = [inbox EXCEPT ![s] = IF owner[s] \in stored
                                   THEN <<[kind |-> "reconnect", q |-> 0]>> ELSE <<>>]
  /\ UNCHANGED <<owner, stored, page, hand, route, cache, store, asked, spent, unsaved>>

\* The page goes away: reload, lost network, closed tab.
Leave(s) ==
  /\ Fault /\ sock[s] = "open" /\ sock' = [sock EXCEPT ![s] = "gone"]
  /\ page' = [page EXCEPT ![s] = [q |-> 0, says |-> "nothing"]]
  /\ UNCHANGED <<owner, stored, inbox, server, store, asked, unsaved>>

\* Mutant: one client's disconnect clears the table of connections.
DisconnectAll(c) ==
  active' = [h \in Clients |-> none] /\ route' = none

\* disconnect goes by the client id, whichever socket is its connection by now.
Disconnect(c) ==
  /\ active' = [active EXCEPT ![c] = none]
  /\ route' = IF route = c THEN none ELSE route

\* The endpoint asks for the next message and finds the socket closed.
Notice(s) ==
  /\ sock[s] = "gone" /\ hand[s].at = "idle"
  /\ sock' = [sock EXCEPT ![s] = "closed"] /\ inbox' = [inbox EXCEPT ![s] = <<>>]
  /\ Disconnect(owner[s])
  /\ UNCHANGED <<owner, stored, page, hand, cache, store, asked, spent, unsaved>>

\* A send finds the socket closed; the endpoint works on.
FailedSend(s) ==
  /\ sock[s] = "gone" /\ active[owner[s]] = s /\ Runs # {}
  /\ Disconnect(owner[s])
  /\ UNCHANGED <<browser, hand, cache, store, asked, spent, unsaved>>

\* A restart forgets everything but the row and the checkpoint.
Restart ==
  /\ Fault /\ \E s \in Sockets : sock[s] \in {"open", "gone"}
  /\ sock' = [s \in Sockets |-> IF sock[s] = "new" THEN "new" ELSE "closed"]
  /\ inbox' = [s \in Sockets |-> <<>>] /\ hand' = [s \in Sockets |-> Idle]
  /\ active' = [c \in Clients |-> none] /\ route' = none /\ cache' = none
  /\ page' = [s \in Sockets |-> [q |-> 0, says |-> "nothing"]]
  /\ unsaved' = (unsaved \/ \E s \in Sockets : hand[s].at # "idle")
  /\ UNCHANGED <<owner, stored, store, asked>>

\* What a message needs of the page that sends it.
MaySend(s, kind) ==
  CASE kind = "start" -> ckpt.status = "none" /\ \A t \in Sockets : inbox[t] = <<>>
    [] kind = "input" -> page[s].says = "asking"
    [] kind = "pause" -> page[s].says \in {"working", "nothing"} /\ owner[s] \in stored
    [] kind = "retry" -> page[s].says = "error"
    [] kind = "resume" -> row # none /\ page[s].says \notin {"asking", "working"}
    [] OTHER -> owner[s] \in stored

Request(s, kind) ==
  /\ kind \in Requests /\ sock[s] = "open" /\ MaySend(s, kind)
  /\ Len(inbox[s]) < MaxQueued
  /\ spent.sent < MaxRequests /\ spent' = [spent EXCEPT !.sent = @ + 1]
  /\ inbox' = [inbox EXCEPT ![s] = Append(@, [kind |-> kind, q |-> page[s].q])]
  /\ page' = [page EXCEPT ![s].says = IF kind \in {"input", "retry"} THEN "working" ELSE @]
  /\ UNCHANGED <<owner, stored, sock, server, store, asked, unsaved>>

\* send_event: the page behind the client's connection shows it, if it is there.
Show(c, says, q) ==
  LET s == active[c] IN
  /\ page' = IF s # none /\ sock[s] = "open"
             THEN [page EXCEPT ![s] = [q |-> q, says |-> says]] ELSE page
  /\ stored' = IF s # none /\ sock[s] = "open" THEN stored \cup {c} ELSE stored

\* SESSION_NOT_FOUND makes the browser forget the session.
ShowMissing(c) ==
  LET s == active[c] IN
  /\ page' = IF s # none /\ sock[s] = "open"
             THEN [page EXCEPT ![s].says = "nothing"] ELSE page
  /\ stored' = IF s # none /\ sock[s] = "open" THEN stored \ {c} ELSE stored

-----------------------------------------------------------------------------
(***************************************************************************)
(* What the handlers share.                                                  *)
(***************************************************************************)

\* The endpoint of s takes a message of this kind.
Take(s, kind) ==
  /\ sock[s] \in {"open", "gone"} /\ hand[s].at = "idle"
  /\ inbox[s] # <<>> /\ Head(inbox[s]).kind = kind
  /\ inbox' = [inbox EXCEPT ![s] = Tail(@)]

\* _persist_session_to_db: the row is updated, or created if it is not there;
\* an error is swallowed.
Persist(status, user, saved) ==
  \/ /\ row' = IF row = none THEN [owner |-> user, status |-> status]
               ELSE [row EXCEPT !.status = status]
     /\ unsaved' = ~saved /\ UNCHANGED spent
  \/ Fault /\ UNCHANGED row /\ unsaved' = TRUE

HeldByOther(c) == \E h \in Clients \ {c} : route = h /\ active[h] # none
\* Mutant: any session of the process is the client's own.
MineIfAny(c) == cache # none

Mine(c)     == cache # none /\ cache.client = c
Rebind(c)   == cache' = [cache EXCEPT !.client = c] /\ route' = c
Finish(s)   == hand' = [hand EXCEPT ![s] = Idle]
RunFor(s, kind) == hand' = [hand EXCEPT ![s] = [Idle EXCEPT !.at = "running", !.kind = kind]]

\* plan.error for a session the process does not have, or another client's.
Refuse(s, kind) ==
  LET c == owner[s] IN
  /\ Take(s, kind)
  /\ \/ /\ kind \in {"input", "navigate", "look", "retry", "reconnect", "step"} /\ cache = none
        /\ ShowMissing(c)
     \/ /\ kind \in {"input", "reconnect", "resume"} /\ cache # none /\ ~Mine(c)
        /\ Show(c, "error", 0)
     \/ /\ kind = "resume" /\ cache = none /\ row = none /\ ShowMissing(c)
     \/ /\ kind = "resume" /\ cache = none /\ row # none /\ row.owner # c
        /\ HeldByOther(c) /\ Show(c, "error", 0)
  /\ UNCHANGED <<owner, sock, server, store, asked, spent, unsaved>>

\* Mutant: a question is shown, and the row left as it was.
TellUnwritten(c, user, saves) ==
  IF ckpt.status \notin {"completed", "error"} /\ ckpt.q # 0
  THEN Show(c, "asking", ckpt.q) /\ UNCHANGED <<row, spent>> /\ unsaved' = FALSE
  ELSE UNCHANGED <<page, stored, row, spent>> /\ unsaved' = TRUE

\* What a handler tells of a run, by the checkpoint it finds: the terminal status,
\* or the question.  Asking writes the row.
Tell(c, user, saves) ==
  \/ /\ ckpt.status \in {"completed", "error"}
     /\ Show(c, ckpt.status, 0)
     /\ IF saves THEN Persist(ckpt.status, user, TRUE)
        ELSE UNCHANGED <<row, spent>> /\ unsaved' = TRUE
  \/ /\ ckpt.status \notin {"completed", "error"} /\ ckpt.q # 0
     /\ Show(c, "asking", ckpt.q) /\ Persist("paused", user, TRUE)
  \/ /\ ckpt.status \notin {"completed", "error"} /\ ckpt.q = 0
     /\ UNCHANGED <<page, stored>>
     /\ IF saves THEN Persist(ckpt.status, user, TRUE)
        ELSE UNCHANGED <<row, spent>> /\ unsaved' = TRUE

-----------------------------------------------------------------------------
(***************************************************************************)
(* The messages of the plan dispatcher.                                      *)
(***************************************************************************)

\* plan.start: a session, its row, and the first run.
Start(s) ==
  LET c == owner[s] IN
  /\ Take(s, "start") /\ ckpt.status = "none"
  /\ cache' = [client |-> c, user |-> c, task |-> none] /\ route' = c
  /\ ckpt' = [status |-> "running", q |-> 0]
  /\ Persist("running", c, TRUE) /\ RunFor(s, "start")
  /\ UNCHANGED <<owner, stored, sock, page, active, asked>>

\* plan.phase.input while another socket's answer is at work is dropped ...
Overlapping(s) ==
  /\ Take(s, "input") /\ Mine(owner[s]) /\ cache.task \notin {none, s}
  /\ UNCHANGED <<owner, stored, sock, page, server, store, asked, spent, unsaved>>

\* ... and accepted otherwise.  The handler then reads the checkpoint.
Accept(s) ==
  /\ Take(s, "input") /\ Mine(owner[s]) /\ cache.task \in {none, s}
  /\ Rebind(owner[s])
  /\ hand' = [hand EXCEPT ![s] = [Idle EXCEPT !.at = "accepted", !.kind = "input",
                                  !.q = Head(inbox[s]).q]]
  /\ UNCHANGED <<owner, stored, sock, page, active, store, asked, spent, unsaved>>

Accepted(s) == hand[s].at = "accepted"

\* Mutant: a failed session is not one there is nothing to answer in.
AnswerTooLateCompletedOnly(s) ==
  /\ Accepted(s) /\ ckpt.q = 0 /\ ckpt.status = "completed"
  /\ Persist(ckpt.status, cache.user, TRUE) /\ Finish(s)
  /\ UNCHANGED <<browser, active, route, cache, ckpt, asked>>

\* There is nothing to answer any more.
AnswerTooLate(s) ==
  /\ Accepted(s) /\ ckpt.q = 0 /\ ckpt.status \in {"completed", "error"}
  /\ Persist(ckpt.status, cache.user, TRUE) /\ Finish(s)
  /\ UNCHANGED <<browser, active, route, cache, ckpt, asked>>

\* The decision is not among the options of the question that waits now.
AskAgain(s) ==
  /\ Accepted(s) /\ ckpt.q \notin {0, hand[s].q}
  /\ Show(owner[s], "asking", ckpt.q) /\ Persist("paused", cache.user, TRUE) /\ Finish(s)
  /\ UNCHANGED <<owner, sock, inbox, active, route, cache, ckpt, asked>>

\* The question that waits, the one that was answered or another, gets the answer.
ApplyAnswer(s) ==
  /\ Accepted(s) /\ (ckpt.q # 0 \/ ckpt.status \notin {"completed", "error"})
  /\ cache' = [cache EXCEPT !.task = s]
  /\ hand' = [hand EXCEPT ![s].at = "running"]
  /\ UNCHANGED <<browser, active, route, store, asked, spent, unsaved>>

\* plan.retry: whoever sends it gets the session.
Retry(s) ==
  /\ Take(s, "retry") /\ cache # none
  /\ Rebind(owner[s]) /\ RunFor(s, "retry")
  /\ ckpt' = [ckpt EXCEPT !.status = IF @ = "error" THEN "running" ELSE @]
  /\ UNCHANGED <<owner, stored, sock, page, active, row, asked, spent, unsaved>>

\* plan.navigate without confirmation: a preview of the cascade, or at once.
LookAhead(s) ==
  /\ Take(s, "look") /\ cache # none
  /\ UNCHANGED <<owner, stored, sock, page, server, store, asked, spent, unsaved>>
NavigateAtOnce(s) ==
  /\ Take(s, "look") /\ cache # none /\ RunFor(s, "look")
  /\ ckpt' = [status |-> "running", q |-> 0]
  /\ UNCHANGED <<owner, stored, sock, page, active, route, cache, row, asked, spent, unsaved>>

\* With confirmation the running task is cancelled and awaited.  The task is the
\* endpoint of another socket: it drops its run, and goes on taking messages.
CancelRunning(s) ==
  /\ Take(s, "navigate") /\ cache # none /\ cache.task \notin {none, s}
  /\ hand' = [hand EXCEPT ![cache.task] = Idle,
                          ![s] = [Idle EXCEPT !.at = "waiting", !.kind = "navigate",
                                  !.for = cache.task]]
  /\ cache' = [cache EXCEPT !.task = none] /\ unsaved' = TRUE
  /\ UNCHANGED <<owner, stored, sock, page, active, route, store, asked, spent>>

TaskOver(t) == sock[t] = "closed"

Restarted == ckpt' = [status |-> "running", q |-> 0]

Cancelled(s) ==
  /\ hand[s].at = "waiting" /\ TaskOver(hand[s].for)
  /\ RunFor(s, "navigate") /\ Restarted
  /\ UNCHANGED <<browser, active, route, cache, row, asked, spent, unsaved>>

Navigate(s) ==
  /\ Take(s, "navigate") /\ cache # none /\ cache.task \in {none, s}
  /\ RunFor(s, "navigate") /\ Restarted
  /\ UNCHANGED <<owner, stored, sock, page, active, route, cache, row, asked, spent, unsaved>>

\* plan.step.forward: the next phase, if one is left.
StepForward(s) ==
  /\ Take(s, "step") /\ cache # none
  /\ \/ RunFor(s, "step") /\ Restarted /\ UNCHANGED <<page, stored>>
     \/ ckpt.status = "completed" /\ Show(owner[s], "error", 0) /\ UNCHANGED <<hand, ckpt>>
  /\ UNCHANGED <<owner, sock, active, route, cache, row, asked, spent, unsaved>>

\* plan.pause acknowledges, and writes the row of a session the process has.
Pause(s) ==
  /\ Take(s, "pause") /\ Show(owner[s], "paused", page[s].q)
  /\ IF cache = none THEN UNCHANGED <<row, spent, unsaved>>
     ELSE Persist("paused", cache.user, FALSE)
  /\ UNCHANGED <<owner, sock, server, ckpt, asked>>

\* plan.reconnect and plan.resume of a session in memory: the state and the
\* question are shown again.  A finished session is shown as such, not written.
ShowAgain(c, user) ==
  IF ckpt.status \in {"completed", "error"}
  THEN Show(c, ckpt.status, 0) /\ UNCHANGED <<row, spent, unsaved>>
  ELSE IF ckpt.q # 0 THEN Show(c, "asking", ckpt.q) /\ Persist("paused", user, TRUE)
  ELSE Show(c, "working", 0) /\ Persist(ckpt.status, user, TRUE)

Reconnect(s) ==
  /\ Take(s, "reconnect") /\ Mine(owner[s])
  /\ Rebind(owner[s]) /\ ShowAgain(owner[s], cache.user)
  /\ UNCHANGED <<owner, sock, hand, active, ckpt, asked>>

\* plan.resume of a session in memory, or a cold one: its row is there and no other
\* connected client holds it; the session is taken over and rebuilt.
Resuming(s) == hand' = [hand EXCEPT ![s] = [Idle EXCEPT !.at = "resuming", !.kind = "resume"]]

Resume(s) ==
  /\ Take(s, "resume") /\ Mine(owner[s]) /\ Rebind(owner[s]) /\ Resuming(s)
  /\ UNCHANGED <<owner, stored, sock, page, active, store, asked, spent, unsaved>>

ResumeCold(s) ==
  LET c == owner[s] IN
  /\ Take(s, "resume") /\ cache = none /\ row # none
  /\ row.owner = c \/ ~HeldByOther(c)
  /\ row' = [row EXCEPT !.owner = c]
  /\ cache' = [client |-> c, user |-> c, task |-> none] /\ route' = c /\ Resuming(s)
  /\ UNCHANGED <<owner, stored, sock, page, active, ckpt, asked, spent, unsaved>>

\* The state is shown again ...
ResumeShows(s) ==
  /\ hand[s].at = "resuming" /\ ckpt.status # "budget_exhausted"
  /\ ShowAgain(owner[s], cache.user) /\ Finish(s)
  /\ UNCHANGED <<owner, sock, inbox, active, route, cache, ckpt, asked>>

\* ... after an exhausted budget the run goes on, if it has a question to go on from ...
ResumeExhausted(s) ==
  /\ hand[s].at = "resuming" /\ ckpt.status = "budget_exhausted"
  /\ ckpt' = [ckpt EXCEPT !.status = "running"] /\ Show(owner[s], "working", 0)
  /\ IF ckpt.q # 0 THEN RunFor(s, "resume") /\ UNCHANGED unsaved
     ELSE Finish(s) /\ unsaved' = TRUE
  /\ UNCHANGED <<owner, sock, inbox, active, route, cache, row, asked, spent>>

\* ... and with no question, no task and no phase to wait for, the first incomplete
\* phase is started again.
ResumeRestarts(s) ==
  /\ hand[s].at = "resuming" /\ ckpt = [status |-> "running", q |-> 0] /\ cache.task = none
  /\ RunFor(s, "resume") /\ Show(owner[s], "working", 0) /\ Persist("running", cache.user, TRUE)
  /\ UNCHANGED <<owner, sock, inbox, active, route, cache, ckpt, asked>>

-----------------------------------------------------------------------------
(***************************************************************************)
(* The runs of the graph, and what a handler does when its run has ended.     *)
(***************************************************************************)

\* Another superstep is committed (of overlapping runs the last one to commit
\* is the checkpoint); its progress event writes the row.
Work(s) ==
  /\ hand[s].at = "running" /\ cache # none
  /\ ckpt.q # 0 /\ Restarted
  /\ row' = IF row = none THEN row ELSE [row EXCEPT !.status = "running"]
  /\ UNCHANGED <<browser, server, asked, spent, unsaved>>

Ask(s) ==
  /\ hand[s].at = "running" /\ asked < MaxQuestions
  /\ asked' = asked + 1 /\ ckpt' = [status |-> "running", q |-> asked + 1]
  /\ hand' = [hand EXCEPT ![s].at = "ended"]
  /\ UNCHANGED <<browser, active, route, cache, row, spent, unsaved>>

\* The phases are over, a phase has failed, or the results so far are accepted.
EndRun(s, status) ==
  /\ hand[s].at = "running"
  /\ ckpt' = [status |-> status, q |-> 0]
  /\ hand' = [hand EXCEPT ![s].at = "ended"]
  /\ UNCHANGED <<browser, active, route, cache, row, asked, spent, unsaved>>

Raise(s) ==
  /\ hand[s].at = "running" /\ Fault
  /\ \E q \in {0, ckpt.q} : ckpt' = [ckpt EXCEPT !.q = q]
  /\ hand' = [hand EXCEPT ![s].at = "raised"]
  /\ UNCHANGED <<browser, active, route, cache, row, asked, unsaved>>

Saves(kind) == kind \in {"start", "input", "retry", "resume"}

\* The run is over: the task is cleared, the row written and the page told.
Report(s) ==
  /\ hand[s].at = "ended" /\ Finish(s)
  /\ cache' = [cache EXCEPT !.task = none]
  /\ Tell(owner[s], cache.user, Saves(hand[s].kind))
  /\ UNCHANGED <<owner, sock, inbox, active, route, ckpt, asked>>

\* An exception is reported; only some handlers write it, none into the checkpoint.
ReportError(s) ==
  /\ hand[s].at = "raised" /\ Finish(s)
  /\ cache' = [cache EXCEPT !.task = none]
  /\ Show(owner[s], "error", 0)
  /\ IF Saves(hand[s].kind) THEN Persist("error", cache.user, FALSE)
     ELSE UNCHANGED <<row, spent>> /\ unsaved' = TRUE
  /\ UNCHANGED <<owner, sock, inbox, active, route, ckpt, asked>>

Handle(s) ==
  \/ \E kind \in Kinds \cup {"reconnect"} : Refuse(s, kind)
  \/ Start(s) \/ Overlapping(s) \/ Accept(s)
  \/ AnswerTooLate(s) \/ AskAgain(s) \/ ApplyAnswer(s)
  \/ Retry(s) \/ LookAhead(s) \/ NavigateAtOnce(s)
  \/ CancelRunning(s) \/ Cancelled(s) \/ Navigate(s) \/ StepForward(s)
  \/ Pause(s) \/ Reconnect(s) \/ Resume(s) \/ ResumeCold(s)
  \/ ResumeShows(s) \/ ResumeExhausted(s) \/ ResumeRestarts(s)

RunStep(s) ==
  \/ Work(s) \/ Ask(s)
  \/ \E status \in {"completed", "error", "budget_exhausted"} : EndRun(s, status)

Next ==
  \/ \E s \in Sockets :
       \/ Connect(s) \/ Leave(s) \/ Notice(s) \/ FailedSend(s)
       \/ \E kind \in Kinds : Request(s, kind)
       \/ Handle(s) \/ RunStep(s) \/ Raise(s) \/ Report(s) \/ ReportError(s)
  \/ Restart

Spec == Init /\ [][Next]_vars

\* The endpoint of a socket does what it can do; users, networks and crashes owe
\* nothing.
Endpoint(s) == Notice(s) \/ Handle(s) \/ RunStep(s) \/ Report(s) \/ ReportError(s)
FairSpec == Spec /\ \A s \in Sockets : WF_vars(Endpoint(s))

-----------------------------------------------------------------------------
(***************************************************************************)
(* Properties.                                                               *)
(***************************************************************************)

\* What the row of an idle session should say.
RowOf(k) == IF k.q # 0 /\ k.status = "running" THEN "paused" ELSE k.status

\* When no handler is busy the row tells what the checkpoint holds, unless the
\* last write was lost, a pause was acknowledged, a cancelled or crashed run wrote
\* nothing, or a navigation ended without a question (whose handlers write no
\* snapshot): _persist_runtime_snapshot, _emit_phase_prompt.
RowFollowsCheckpoint ==
  (\A s \in Sockets : hand[s].at = "idle") /\ row # none /\ ~unsaved
    => row.status = RowOf(ckpt)

\* An open page is its client's connection, unless the browser has or had another
\* one: a newer page took the connection over, or the late disconnect of an older
\* one took it away (connect, disconnect).
LostOnlyToOwnPages ==
  \A s \in Sockets : sock[s] = "open" /\ active[owner[s]] # s
    => \E t \in Sockets \ {s} : owner[t] = owner[s] /\ sock[t] # "new"

\* A session in memory changes hands by a retry only, whose handler asks for no
\* owner; answers, reconnects and resumes of another client are refused
\* (_ensure_session_owner).
TakenOverByRetryOnly ==
  [][cache # none /\ cache' # none /\ cache'.client # cache.client
       => \E s \in Sockets : hand[s].at = "idle" /\ hand'[s].kind = "retry"]_vars

\* The variables are typed and the row agrees with the checkpoint when nobody is at work.
SessionsInv == TypeOK /\ RowFollowsCheckpoint

\* A handler comes to its end, or waits for the endpoint of another socket to
\* close, which a cancelled run does not bring about (_cancel_running_task).
HandlersFinish ==
  \A s \in Sockets : hand[s].at # "idle" ~>
    hand[s].at = "idle" \/ (hand[s].at = "waiting" /\ sock[hand[s].for] # "closed")

=============================================================================
