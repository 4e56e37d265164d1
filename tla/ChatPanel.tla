----------------------------- MODULE ChatPanel ------------------------------
(***************************************************************************)
(* The chats of the dashboard (ChatContext.tsx): several chats, one of them active,      *)
(* and answers that arrive in pieces while the user goes from one to another.  The        *)
(* store of the messages (lib/store/chatStore, not in the repository) puts a message       *)
(* into the active chat and changes only messages of the active chat: the code asks for     *)
(* no other, and switches chats to reach one (WebSocketContext.tsx).                         *)
(***************************************************************************)
EXTENDS Naturals, Sequences, FiniteSets

CONSTANTS
  ChatIds,     \* the chats that can exist
  Answers,     \* the questions that are asked, each with the message of its answer
  Notes,       \* the messages that show an ingest
  MaxPieces,   \* bound of the model on the pieces of an answer
  MaxTurns     \* bound of the model on what the user does between chats

ASSUME ChatAssumption ==
  MaxPieces \in Nat \ {0} /\ MaxTurns \in Nat /\ ChatIds # {} /\ Answers \cap Notes = {}

VARIABLES
  chats,        \* the chats there are
  active,       \* activeSessionId
  fresh,        \* those that never had a message: empty and still titled "New Chat"
  planned,      \* those that show a plan
  holds,        \* the answers and notes among the messages of each chat
  stream,       \* each answer's stream: unused, open, done, failed, aborted; its pieces so far
  text,         \* the content of the answer's message
  controller,   \* streamControllerRef: the last stream, or {}
  bound,        \* streams whose callbacks belong to the provider that is mounted
  isStreaming, isLoading,
  ingestActive,
  note,         \* each note: unused, running, settled
  current,      \* progressMsgIdRef: the note of the ingest under way, or {}
  watched,      \* history: answers and notes whose chat stayed active and kept them
  turns

chatVars == <<chats, active, fresh, planned, holds, stream, text, controller, bound, isStreaming,
              isLoading, ingestActive, note, current, watched, turns>>

Places  == <<chats, active, fresh, planned>>
Flags   == <<isStreaming, isLoading>>
Ingest  == <<ingestActive, note, current>>
Streams == <<stream, text, controller, bound>>

StreamRecord == [phase : {"unused", "open", "done", "failed", "aborted"}, sent : 0..MaxPieces]

ChatTypeOK ==
  /\ chats \subseteq ChatIds /\ active \in chats /\ fresh \subseteq chats /\ planned \subseteq chats
  /\ holds \in [ChatIds -> SUBSET (Answers \cup Notes)]
  /\ stream \in [Answers -> StreamRecord]
  /\ text \in [Answers -> Seq(0..MaxPieces)] /\ \A a \in Answers : Len(text[a]) <= MaxPieces
  /\ controller \subseteq Answers /\ bound \subseteq Answers
  /\ isStreaming \in BOOLEAN /\ isLoading \in BOOLEAN /\ ingestActive \in BOOLEAN
  /\ note \in [Notes -> {"unused", "running", "settled"}] /\ current \subseteq Notes
  /\ watched \subseteq Answers \cup Notes /\ turns \in 0..MaxTurns

ChatInit ==
  /\ active \in ChatIds /\ chats = {active} /\ fresh = {active} /\ planned = {}
  /\ holds = [c \in ChatIds |-> {}]
  /\ stream = [a \in Answers |-> [phase |-> "unused", sent |-> 0]] /\ text = [a \in Answers |-> <<>>]
  /\ controller = {} /\ bound = {}
  /\ isStreaming = FALSE /\ isLoading = FALSE
  /\ ingestActive = FALSE /\ note = [n \in Notes |-> "unused"] /\ current = {}
  /\ watched = {} /\ turns = 0

Turn == turns < MaxTurns /\ turns' = turns + 1

\* The messages that stay watched when the active chat becomes c.
Watch(c) == watched' = watched \cap (IF c = active THEN holds[c] ELSE {})

-----------------------------------------------------------------------------
(***************************************************************************)
(* Going from chat to chat.                                                     *)
(***************************************************************************)

\* An empty new chat is used again before another is made.
CreateNewChat ==
  /\ Turn
  /\ \E c \in (IF fresh # {} THEN fresh ELSE ChatIds \ chats) :
       /\ chats' = chats \cup {c} /\ fresh' = fresh \cup {c} /\ active' = c
       /\ holds' = [holds EXCEPT ![c] = {}]
       /\ Watch(c)
  /\ isStreaming' = FALSE /\ isLoading' = FALSE
  /\ UNCHANGED <<planned, Streams, Ingest>>

SwitchChat(c) ==
  /\ Turn /\ c \in chats \ {active}
  /\ active' = c /\ Watch(c)
  /\ isStreaming' = FALSE /\ isLoading' = FALSE
  /\ UNCHANGED <<chats, fresh, planned, holds, Streams, Ingest>>

\* When no chat is active, the provider makes one or takes an empty or the first one.
DeleteChat(c) ==
  /\ Turn /\ c \in chats
  /\ planned' = planned \ {c} /\ holds' = [holds EXCEPT ![c] = {}]
  /\ IF c # active THEN active' = active /\ chats' = chats \ {c} /\ fresh' = fresh \ {c}
     ELSE IF chats = {c} THEN \E d \in ChatIds : active' = d /\ chats' = {d} /\ fresh' = {d}
     ELSE /\ chats' = chats \ {c} /\ fresh' = fresh \ {c}
          /\ active' \in (IF fresh' # {} THEN fresh' ELSE chats')
  /\ watched' = IF c = active THEN {} ELSE watched
  /\ UNCHANGED <<Streams, Flags, Ingest>>

\* By the button, or by /clear, which also resets the flags.
ClearChat ==
  /\ Turn
  /\ holds' = [holds EXCEPT ![active] = {}] /\ planned' = planned \ {active}
  /\ fresh' = fresh \ {active}
  /\ watched' = {}
  /\ \/ UNCHANGED Flags
     \/ isStreaming' = FALSE /\ isLoading' = FALSE
  /\ UNCHANGED <<chats, active, Streams, Ingest>>

\* /plan: the panel of the plan will be a message of the active chat.
StartPlanFlow ==
  /\ planned' = planned \cup {active} /\ fresh' = fresh \ {active}
  /\ planned' # planned
  /\ UNCHANGED <<chats, active, holds, Streams, Flags, Ingest, watched, turns>>

\* An event of a plan makes the chat that shows it the active one.
PlanEvent(c) ==
  /\ Turn /\ c \in planned \ {active}
  /\ active' = c /\ Watch(c)
  /\ UNCHANGED <<chats, fresh, planned, holds, Streams, Flags, Ingest>>

-----------------------------------------------------------------------------
(***************************************************************************)
(* Questions, answered in pieces.  Nothing keeps a second one from being asked while      *)
(* an answer is coming: Enter sends whatever isLoading says.                              *)
(***************************************************************************)

StreamMessage(a) ==
  /\ stream[a].phase = "unused"
  /\ stream' = [stream EXCEPT ![a].phase = "open"]
  /\ holds' = [holds EXCEPT ![active] = @ \cup {a}]
  /\ fresh' = fresh \ {active}
  /\ controller' = {a} /\ bound' = bound \cup {a} /\ watched' = watched \cup {a}
  /\ isStreaming' = TRUE /\ isLoading' = TRUE
  /\ UNCHANGED <<chats, active, planned, text, Ingest, turns>>

\* The message of an answer, as its callbacks find it: in the active chat or not at all.
Visible(m) == m \in holds[active]

\* Mutant: the piece is added to the content the callback saw when the question was sent.
OnChunkStale(a) ==
  /\ stream[a].phase = "open" /\ stream[a].sent < MaxPieces
  /\ stream' = [stream EXCEPT ![a].sent = @ + 1]
  /\ text' = [text EXCEPT ![a] = IF Visible(a) THEN <<stream[a].sent + 1>> ELSE @]
  /\ UNCHANGED <<Places, holds, controller, bound, Flags, Ingest, watched, turns>>

OnChunk(a) ==
  /\ stream[a].phase = "open" /\ stream[a].sent < MaxPieces
  /\ stream' = [stream EXCEPT ![a].sent = @ + 1]
  /\ text' = [text EXCEPT ![a] = IF Visible(a) THEN Append(@, stream[a].sent + 1) ELSE @]
  /\ UNCHANGED <<Places, holds, controller, bound, Flags, Ingest, watched, turns>>

\* The callbacks of a provider that was unmounted change the store and no flag.
StreamEnds(a, how) ==
  /\ stream[a].phase = "open"
  /\ stream' = [stream EXCEPT ![a].phase = how]
  /\ IF a \in bound THEN isStreaming' = FALSE /\ isLoading' = FALSE ELSE UNCHANGED Flags
  /\ UNCHANGED <<Places, holds, controller, bound, Ingest, watched, turns>>

\* The whole answer comes with the end and is used if no piece was shown.
Whole == <<0>>

OnDone(a) ==
  /\ StreamEnds(a, "done")
  /\ text' = [text EXCEPT ![a] = IF Visible(a) /\ @ = <<>> THEN Whole ELSE @]

OnStreamError(a) == StreamEnds(a, "failed") /\ UNCHANGED text

\* The page is left and opened again: the last stream is aborted, an earlier one goes on.
Remount ==
  /\ Turn
  /\ stream' = [a \in Answers |-> IF a \in controller /\ stream[a].phase = "open"
                                  THEN [stream[a] EXCEPT !.phase = "aborted"] ELSE stream[a]]
  /\ controller' = {} /\ bound' = {}
  /\ isStreaming' = FALSE /\ isLoading' = FALSE
  /\ ingestActive' = FALSE /\ current' = {}
  /\ watched' = watched \cap Answers
  /\ UNCHANGED <<Places, holds, text, note>>

-----------------------------------------------------------------------------
(***************************************************************************)
(* An ingest, shown by one note that the events of the socket change.                *)
(***************************************************************************)

\* The note is made when the subscription starts: not for a second ingest during the first.
StartIngest ==
  /\ isLoading' = TRUE /\ ingestActive' = TRUE
  /\ IF ingestActive THEN UNCHANGED <<note, current, holds, watched, fresh>>
     ELSE \E n \in Notes :
            /\ note[n] = "unused" /\ note' = [note EXCEPT ![n] = "running"]
            /\ current' = {n} /\ holds' = [holds EXCEPT ![active] = @ \cup {n}]
            /\ watched' = watched \cup {n} /\ fresh' = fresh \ {active}
  /\ UNCHANGED <<chats, active, planned, Streams, isStreaming, turns>>

\* A completion or an error on the socket, of whatever workflow, ends the ingest shown.
IngestEnds ==
  /\ ingestActive
  /\ note' = [n \in Notes |-> IF n \in current /\ Visible(n) THEN "settled" ELSE note[n]]
  /\ ingestActive' = FALSE /\ current' = {} /\ isLoading' = FALSE
  /\ UNCHANGED <<Places, holds, Streams, isStreaming, watched, turns>>

ChatNext ==
  \/ CreateNewChat \/ ClearChat \/ StartPlanFlow \/ Remount \/ StartIngest \/ IngestEnds
  \/ \E c \in ChatIds : SwitchChat(c) \/ DeleteChat(c) \/ PlanEvent(c)
  \/ \E a \in Answers : StreamMessage(a) \/ OnChunk(a) \/ OnDone(a) \/ OnStreamError(a)

ChatSpec == ChatInit /\ [][ChatNext]_chatVars

-----------------------------------------------------------------------------
(***************************************************************************)
(* Properties.                                                                  *)
(***************************************************************************)

\* An answer whose chat stayed active while it came is shown whole, its pieces in the order they
\* came, whatever other answers came meanwhile; and an ingest that is over is shown as over.
WholeIfWatched ==
  /\ \A a \in Answers \cap watched :
       stream[a].phase \in {"open", "done"} =>
          text[a] = IF stream[a].phase = "done" /\ stream[a].sent = 0 THEN Whole
                    ELSE [i \in 1..stream[a].sent |-> i]
  /\ \A n \in Notes \cap watched : note[n] = "running" => n \in current

\* The page shows that it is busy only while an answer or an ingest can still come to end that.
BusyMeansWork ==
  LET coming == {a \in bound : stream[a].phase = "open"}
  IN (isStreaming => coming # {}) /\ (isLoading => coming # {} \/ ingestActive)

\* What the chats show of answers and ingests, wherever the user goes meanwhile.
ChatInv == ChatTypeOK /\ WholeIfWatched /\ BusyMeansWork

=============================================================================
