----------------------------- MODULE ChatRelay ------------------------------
(***************************************************************************)
(* The dashboard's own chat route (app/api/chat/route.ts): it turns a command or a   *)
(* question into a call of the backend and streams what comes back as server-sent       *)
(* events.  Workflows are relayed from a WebSocket through a small queue between the     *)
(* socket's callbacks and an async generator.                                            *)
(*                                                                          *)
(* A callback of the socket runs alone; the generator then runs up to its next wait.     *)
(* Frames that come in one read of the socket are called back one after the other,       *)
(* before the generator runs: Frame may be taken several times before Resume.            *)
(***************************************************************************)
EXTENDS Naturals, Sequences

CONSTANT MaxFrames   \* bound of the model on the frames of a workflow

ASSUME RelayAssumption == MaxFrames \in Nat

VARIABLES
  at,        \* where the request is: start, fetching, connecting, relaying, over
  ask,       \* the request: its kind, whether it names a repository and its arguments
  out,       \* what became of the request: events written to the page, frames passed over
  socket,    \* the workflow's WebSocket: none, open, failed, shut (by the backend), closed
  frames,    \* what the backend sent over it
  backlog,   \* messageQueue, as indexes of frames
  handed,    \* what the generator's promise was resolved with: nothing, a frame, or the end
  isDone,    \* isDone of the iterator
  gone       \* the page has dropped the request

relayVars == <<at, ask, out, socket, frames, backlog, handed, isDone, gone>>

Lookups  == {"search", "list", "status", "architecture"}
Static   == {"help", "visualize", "stats", "unknown"}
Relayed  == {"ask", "deep", "agent", "ingest", "diff", "question"}
Kinds    == Lookups \cup Static \cup Relayed \cup {"empty"}
FrameTypes == {"progress", "partial", "tool_call", "clarification", "answer", "complete", "error", "other"}
Ending   == {"answer", "complete", "error"}
Nothing  == 0
TheEnd   == MaxFrames + 1

Events == [type : FrameTypes \cup {"content", "sources", "done", "passed over"}, of : 0..MaxFrames]
Event(type, of) == [type |-> type, of |-> of]
Said(type)      == Event(type, 0)

RelayTypeOK ==
  /\ at \in {"start", "fetching", "connecting", "relaying", "over"}
  /\ ask \in [kind : Kinds, repo : BOOLEAN, args : BOOLEAN]
  /\ out \in Seq(Events)
  /\ socket \in {"none", "open", "failed", "shut", "closed"}
  /\ frames \in Seq(FrameTypes) /\ Len(frames) <= MaxFrames
  /\ backlog \in Seq(DOMAIN frames) /\ handed \in Nothing..TheEnd
  /\ isDone \in BOOLEAN /\ gone \in BOOLEAN

RelayInit ==
  /\ at = "start" /\ ask = [kind |-> "empty", repo |-> FALSE, args |-> FALSE] /\ out = <<>>
  /\ socket = "none" /\ frames = <<>> /\ backlog = <<>> /\ handed = Nothing /\ isDone = FALSE /\ gone = FALSE

Socket == <<socket, frames, backlog, handed, isDone>>

-----------------------------------------------------------------------------
(***************************************************************************)
(* The command, up to its first wait.                                              *)
(***************************************************************************)

\* What is answered with the way to use it.
UsageShown(a) ==
  \/ a.kind \in {"ask", "deep", "question"} /\ ~a.repo
  \/ a.kind \in {"ingest", "diff"} /\ ~a.args
  \/ a.kind = "agent" /\ ~(a.args /\ a.repo)
  \/ a.kind \in {"status", "architecture"} /\ ~a.args /\ ~a.repo

\* What is written before the first wait.
Opening(a) ==
  CASE a.kind = "empty"                    -> <<Said("error")>>
    [] a.kind = "question" /\ ~a.repo      -> <<Said("content"), Said("done")>>
    [] a.kind = "unknown" \/ UsageShown(a)    -> <<Said("error"), Said("done")>>
    [] a.kind \in Static                   -> <<Said("content"), Said("done")>>
    [] OTHER                               -> <<Said("progress")>>

RequestChat ==
  /\ at = "start"
  /\ \E a \in [kind : Kinds, repo : BOOLEAN, args : BOOLEAN] :
       /\ ask' = a
       /\ out' = Opening(a)
       /\ at' = IF a.kind \in {"empty"} \cup Static \/ UsageShown(a) THEN "over"
                ELSE IF a.kind \in Lookups THEN "fetching" ELSE "connecting"
  /\ UNCHANGED <<Socket, gone>>

\* Nothing can be written once the page has gone: the write throws and the generator is closed.
Write(events) == out' = IF gone THEN out ELSE out \o events

\* The answer of a REST lookup; search, alone, needs a repository and comes with its sources.
Found(kind) == IF kind \in {"search", "question"} THEN <<Said("sources"), Said("content")>> ELSE <<Said("content")>>

Fetched ==
  /\ at = "fetching"
  /\ \/ (ask.kind = "search" => ask.repo) /\ Write(Found(ask.kind) \o <<Said("done")>>)
     \/ Write(<<Said("error"), Said("done")>>)
  /\ at' = "over"
  /\ UNCHANGED <<ask, Socket, gone>>

-----------------------------------------------------------------------------
(***************************************************************************)
(* A workflow, relayed.                                                          *)
(***************************************************************************)

\* The generator runs up to its first wait at once.
ConnectSocket ==
  /\ at = "connecting" /\ at' = "relaying" /\ socket' = "open"
  /\ UNCHANGED <<ask, out, frames, backlog, handed, isDone, gone>>

\* A question falls back to a search when the socket cannot be made.
ConnectThrows ==
  /\ at = "connecting"
  /\ IF ask.kind = "question"
     THEN at' = (IF gone THEN "over" ELSE "fetching") /\ Write(<<Said("progress")>>)
     ELSE at' = "over" /\ Write(<<Said("error"), Said("done")>>)
  /\ UNCHANGED <<ask, Socket, gone>>

\* Mutant: a frame is handed to the generator without looking whether an earlier one is on its way.
HandleMessageUnqueued(n) == handed' = n /\ UNCHANGED backlog

\* A frame goes to the generator if it waits, or else to the queue.
HandleMessage(n) ==
  IF handed = Nothing THEN handed' = n /\ UNCHANGED backlog
  ELSE backlog' = Append(backlog, n) /\ UNCHANGED handed

\* The end goes to a generator that waits.
HandleComplete == isDone' = TRUE /\ handed' = IF handed = Nothing THEN TheEnd ELSE handed

Frame(type) ==
  /\ at = "relaying" /\ socket = "open" /\ Len(frames) < MaxFrames
  /\ frames' = Append(frames, type)
  /\ HandleMessage(Len(frames) + 1)
  /\ isDone' = (isDone \/ type \in Ending)
  /\ UNCHANGED <<at, ask, out, socket, gone>>

SocketEnds(how) ==
  /\ at = "relaying" /\ socket = "open"
  /\ socket' = how
  /\ HandleComplete
  /\ UNCHANGED <<at, ask, out, frames, backlog, gone>>

\* The types of frame each command passes on; an answer is a completion that carries a text.
Passes(kind) ==
  {"progress", "partial", "answer", "error"}
    \cup (IF kind \in {"ask", "deep", "agent"} THEN {"tool_call", "clarification"} ELSE {})
    \cup (IF kind = "ingest" THEN {"clarification", "complete"} ELSE {})
    \cup (IF kind = "diff" THEN {"complete"} ELSE {})

\* A frame that is not passed on leaves only its place in "out", no event.
Passed(n) == frames[n] \in Passes(ask.kind)
AsEvent(n) == Event(IF ~Passed(n) THEN "passed over"
                    ELSE IF frames[n] \in {"partial", "answer", "complete"} THEN "content" ELSE frames[n], n)
AsEvents(ns) == [i \in DOMAIN ns |-> AsEvent(ns[i])]

\* What the generator takes before it waits again, or stops: the queue is looked at only
\* while the iterator is not done.
Taken == IF handed = TheEnd THEN <<>> ELSE <<handed>> \o (IF isDone THEN <<>> ELSE backlog)

\* The generator runs: the socket is closed when it ends, also because a write threw.
Resume ==
  /\ at = "relaying" /\ handed # Nothing
  /\ LET stops  == isDone
         throws == gone /\ (stops \/ \E i \in DOMAIN Taken : Passed(Taken[i]))
     IN /\ Write(AsEvents(Taken) \o IF stops THEN <<Said("done")>> ELSE <<>>)
        /\ at' = IF stops \/ throws THEN "over" ELSE at
        /\ socket' = IF stops \/ throws THEN "closed" ELSE socket
        /\ isDone' = (isDone \/ throws)
  /\ handed' = Nothing /\ backlog' = <<>>
  /\ UNCHANGED <<ask, frames, gone>>

PageLeaves == at \notin {"start", "over"} /\ ~gone /\ gone' = TRUE /\ UNCHANGED <<at, ask, out, Socket>>

RelayNext ==
  \/ RequestChat \/ Fetched \/ ConnectSocket \/ ConnectThrows
  \/ \E type \in FrameTypes : Frame(type)
  \/ \E how \in {"failed", "shut"} : SocketEnds(how)
  \/ Resume \/ PageLeaves

RelaySpec == RelayInit /\ [][RelayNext]_relayVars

-----------------------------------------------------------------------------
(***************************************************************************)
(* Properties.                                                                  *)
(***************************************************************************)

\* What the page was told of a workflow is a prefix of what the backend sent: the queue of the
\* iterator neither reorders, repeats nor skips a frame, though it may drop the last ones.  After
\* the event that opens a workflow the frames come by their numbers.
RelayIsPrefix ==
  \A i \in DOMAIN out : out[i].of > 0 => i - 1 \in DOMAIN frames /\ out[i] = AsEvent(i - 1)

\* A request that is over has told its page so, exactly once and last; only a request without a
\* message ends with an error alone.
DoneIsLast ==
  (at = "over" /\ ~gone /\ ask.kind # "empty") =>
     \A i \in DOMAIN out : (out[i].type = "done") <=> (i = Len(out))

\* The WebSocket of a workflow does not outlive the request, however the request ends.
SocketIsShut == at = "over" => socket \notin {"open", "failed", "shut"}

\* What a page is told of its request, and what is left of the request when it is over.
RelayInv == RelayTypeOK /\ RelayIsPrefix /\ DoneIsLast /\ SocketIsShut

=============================================================================
