--------------------------- MODULE Sessions_proofs ---------------------------
(***************************************************************************)
(* Proofs about Sessions, for any number of sockets, clients, messages,           *)
(* questions and faults.                                                        *)
(*                                                                          *)
(* A handler that is at work has a session in memory, and a session has a         *)
(* checkpoint with a status (Known).  The row agrees with the checkpoint already     *)
(* while handlers are busy that have no run of their own: those write what they      *)
(* find, and a run that begins hands the row over to whoever reports its end          *)
(* (Settled).                                                                  *)
(***************************************************************************)
EXTENDS Sessions, TLAPS

Places   == {"idle", "accepted", "resuming", "waiting", "running", "ended", "raised"}
Says     == {"nothing", "asking", "working", "completed", "error", "paused"}
Messages == [kind : Kinds \cup {"reconnect"}, q : 0..MaxQuestions]
Pages    == [q : 0..MaxQuestions, says : Says]
Hands    == [at : Places, kind : Kinds \cup {"none"}, q : 0..MaxQuestions,
             for : Sockets \cup {none}]
Caches   == [client : Clients, user : Clients, task : Sockets \cup {none}]
RowSays  == (Statuses \ {"none"}) \cup {"paused"}
Rows     == [owner : Clients, status : RowSays]

BrowserOK ==
  /\ owner \in [Sockets -> Clients] /\ stored \subseteq Clients
  /\ sock \in [Sockets -> {"new", "open", "gone", "closed"}]
  /\ page \in [Sockets -> Pages] /\ inbox \in [Sockets -> Seq(Messages)]

ServerOK ==
  /\ hand \in [Sockets -> Hands]
  /\ active \in [Clients -> Sockets \cup {none}] /\ route \in Clients \cup {none}
  /\ cache = none \/ cache \in Caches

StoreOK ==
  /\ ckpt \in [status : Statuses, q : 0..MaxQuestions]
  /\ row = none \/ row \in Rows
  /\ asked \in 0..MaxQuestions /\ spent \in [sent : 0..MaxRequests, faults : 0..MaxFaults]
  /\ unsaved \in BOOLEAN

Types == BrowserOK /\ ServerOK /\ StoreOK

\* A session or a row has a checkpoint that has begun, a busy handler has a session
\* in memory, and a question waits in a session that runs.
Known ==
  /\ cache # none \/ row # none => ckpt.status # "none"
  /\ \A s \in Sockets : hand[s].at # "idle" => cache # none
  /\ ckpt.q # 0 => ckpt.status = "running"

\* A run is under way, or has ended and is not reported yet.
Working(s) == hand[s].at \in {"running", "ended", "raised"}

Settled ==
  (\A s \in Sockets : ~Working(s)) /\ row # none /\ ~unsaved => row.status = RowOf(ckpt)

IInv == Types /\ Known /\ Settled

LEMMA TypesSuffice == Types => TypeOK
  BY DEF Types, BrowserOK, ServerOK, StoreOK, TypeOK, Messages, Pages, Hands, Caches,
         Rows, RowSays, Says, Places

-----------------------------------------------------------------------------
(***************************************************************************)
(* What the handlers share.                                                  *)
(***************************************************************************)

LEMMA TakeTypes ==
  ASSUME BrowserOK, NEW s \in Sockets, NEW kind, Take(s, kind)
  PROVE  inbox' \in [Sockets -> Seq(Messages)] /\ Head(inbox[s]) \in Messages
<1>1. inbox[s] \in Seq(Messages) /\ inbox[s] # <<>>
  BY DEF BrowserOK, Take
<1>2. Head(inbox[s]) \in Messages /\ Tail(inbox[s]) \in Seq(Messages)
  BY <1>1
<1>. QED  BY <1>2 DEF BrowserOK, Take

LEMMA ShowTypes ==
  ASSUME BrowserOK, ServerOK, NEW c \in Clients, NEW says \in Says,
         NEW q \in 0..MaxQuestions, Show(c, says, q)
  PROVE  page' \in [Sockets -> Pages] /\ stored' \subseteq Clients
<1>1. [q |-> q, says |-> says] \in Pages
  BY DEF Pages
<1>. QED  BY <1>1 DEF BrowserOK, ServerOK, Show

LEMMA MissingTypes ==
  ASSUME BrowserOK, ServerOK, NEW c \in Clients, ShowMissing(c)
  PROVE  page' \in [Sockets -> Pages] /\ stored' \subseteq Clients
  BY DEF BrowserOK, ServerOK, ShowMissing, Pages, Says

LEMMA FaultTypes ==
  ASSUME StoreOK, Fault
  PROVE  spent' \in [sent : 0..MaxRequests, faults : 0..MaxFaults]
<1>1. MaxFaults \in Nat
  BY SessionsAssumption DEF SessionsAssumption
<1>2. spent.faults + 1 \in 0..MaxFaults
  BY <1>1 DEF StoreOK, Fault
<1>. QED  BY <1>2 DEF StoreOK, Fault

LEMMA PersistTypes ==
  ASSUME StoreOK, NEW status \in RowSays, NEW user \in Clients,
         NEW saved \in BOOLEAN, Persist(status, user, saved)
  PROVE  /\ row' = none \/ row' \in Rows
         /\ spent' \in [sent : 0..MaxRequests, faults : 0..MaxFaults]
         /\ unsaved' \in BOOLEAN
<1>1. CASE Fault /\ UNCHANGED row /\ unsaved' = TRUE
  BY <1>1, FaultTypes DEF StoreOK
<1>2. CASE /\ row' = IF row = none THEN [owner |-> user, status |-> status]
                     ELSE [row EXCEPT !.status = status]
           /\ unsaved' = ~saved /\ UNCHANGED spent
  <2>1. row = none => row' \in Rows
    BY <1>2 DEF Rows
  <2>2. row # none => row \in Rows /\ row' = [row EXCEPT !.status = status]
    BY <1>2 DEF StoreOK
  <2>3. row # none => row' \in Rows
    BY <2>2 DEF Rows
  <2>. QED  BY <1>2, <2>1, <2>3 DEF StoreOK
<1>. QED  BY <1>1, <1>2 DEF Persist

LEMMA IdleHand ==
  /\ 0 \in 0..MaxQuestions /\ Idle \in Hands
  /\ \A kind \in Kinds : [Idle EXCEPT !.at = "running", !.kind = kind] \in Hands
  /\ [Idle EXCEPT !.at = "resuming", !.kind = "resume"] \in Hands
<1>1. 0 \in 0..MaxQuestions
  BY SessionsAssumption DEF SessionsAssumption
<1>. QED  BY <1>1 DEF Idle, Hands, Places, Kinds

LEMMA HandTypes ==
  ASSUME ServerOK, NEW s \in Sockets
  PROVE  /\ Finish(s) => hand' \in [Sockets -> Hands]
         /\ Resuming(s) => hand' \in [Sockets -> Hands]
         /\ \A kind \in Kinds : RunFor(s, kind) => hand' \in [Sockets -> Hands]
  BY IdleHand DEF ServerOK, Finish, Resuming, RunFor

\* What the handlers of a session in memory leave in the row, the page and the counts.
Shown   == page' \in [Sockets -> Pages] /\ stored' \subseteq Clients
Written == /\ row' = none \/ row' \in Rows
           /\ spent' \in [sent : 0..MaxRequests, faults : 0..MaxFaults]
           /\ unsaved' \in BOOLEAN

LEMMA UnwrittenTypes ==
  ASSUME StoreOK, UNCHANGED <<row, spent>>, unsaved' \in BOOLEAN
  PROVE  Written
  BY DEF StoreOK, Written

LEMMA UnshownTypes ==
  ASSUME BrowserOK, UNCHANGED <<page, stored>>
  PROVE  Shown
  BY DEF BrowserOK, Shown

LEMMA TellTypes ==
  ASSUME Types, NEW c \in Clients, NEW user \in Clients, NEW saves \in BOOLEAN,
         ckpt.status # "none", Tell(c, user, saves)
  PROVE  Shown /\ Written
<1>1. /\ ckpt.status \in RowSays /\ "paused" \in RowSays
      /\ ckpt.q \in 0..MaxQuestions /\ 0 \in 0..MaxQuestions
  BY IdleHand DEF Types, StoreOK, RowSays
<1>2. \A says \in Says, q \in 0..MaxQuestions : Show(c, says, q) => Shown
  BY ShowTypes DEF Types, Shown
<1>3. \A status \in RowSays : Persist(status, user, TRUE) => Written
  BY PersistTypes DEF Types, Written
<1>4. UNCHANGED <<row, spent>> /\ unsaved' = TRUE => Written
  BY UnwrittenTypes DEF Types
<1>5. UNCHANGED <<page, stored>> => Shown
  BY UnshownTypes DEF Types
<1>6. CASE ckpt.status \in {"completed", "error"}
  <2>1. /\ Show(c, ckpt.status, 0)
        /\ \/ Persist(ckpt.status, user, TRUE)
           \/ UNCHANGED <<row, spent>> /\ unsaved' = TRUE
    BY <1>6 DEF Tell
  <2>2. ckpt.status \in Says
    BY <1>6 DEF Says
  <2>. QED  BY <1>1, <1>2, <1>3, <1>4, <2>1, <2>2
<1>7. CASE ckpt.status \notin {"completed", "error"} /\ ckpt.q # 0
  <2>1. Show(c, "asking", ckpt.q) /\ Persist("paused", user, TRUE)
    BY <1>7 DEF Tell
  <2>. QED  BY <1>1, <1>2, <1>3, <2>1 DEF Says
<1>8. CASE ckpt.status \notin {"completed", "error"} /\ ckpt.q = 0
  <2>1. /\ UNCHANGED <<page, stored>>
        /\ \/ Persist(ckpt.status, user, TRUE)
           \/ UNCHANGED <<row, spent>> /\ unsaved' = TRUE
    BY <1>8 DEF Tell
  <2>. QED  BY <1>1, <1>3, <1>4, <1>5, <2>1
<1>. QED  BY <1>6, <1>7, <1>8

LEMMA ShowAgainTypes ==
  ASSUME Types, NEW c \in Clients, NEW user \in Clients,
         ckpt.status # "none", ShowAgain(c, user)
  PROVE  Shown /\ Written
<1>1. /\ ckpt.status \in RowSays /\ "paused" \in RowSays
      /\ ckpt.q \in 0..MaxQuestions /\ 0 \in 0..MaxQuestions
  BY IdleHand DEF Types, StoreOK, RowSays
<1>2. \A says \in Says, q \in 0..MaxQuestions : Show(c, says, q) => Shown
  BY ShowTypes DEF Types, Shown
<1>3. \A status \in RowSays : Persist(status, user, TRUE) => Written
  BY PersistTypes DEF Types, Written
<1>4. UNCHANGED <<row, spent, unsaved>> => Written
  BY DEF Types, StoreOK, Written
<1>5. ckpt.status \in {"completed", "error"} => ckpt.status \in Says
  BY DEF Says
<1>6. "asking" \in Says /\ "working" \in Says
  BY DEF Says
<1>. QED  BY <1>1, <1>2, <1>3, <1>4, <1>5, <1>6 DEF ShowAgain

-----------------------------------------------------------------------------
(***************************************************************************)
(* Types, and what a busy handler can rely on.                                *)
(***************************************************************************)

LEMMA InitTypes == Init => Types /\ Known
<1>. SUFFICES ASSUME Init PROVE Types /\ Known
  OBVIOUS
<1>1. 0 \in 0..MaxQuestions /\ 0 \in 0..MaxRequests /\ 0 \in 0..MaxFaults
  BY SessionsAssumption DEF SessionsAssumption
<1>2. owner \in [Sockets -> Clients]
  BY SessionsAssumption DEF SessionsAssumption, Init
<1>3. page \in [Sockets -> Pages]
  BY <1>1 DEF Init, Pages, Says
<1>4. hand \in [Sockets -> Hands]
  BY IdleHand DEF Init
<1>5. inbox \in [Sockets -> Seq(Messages)]
  BY DEF Init
<1>6. BrowserOK
  BY <1>2, <1>3, <1>5 DEF Init, BrowserOK
<1>7. ServerOK
  BY <1>4 DEF Init, ServerOK
<1>8. StoreOK
  BY <1>1 DEF Init, StoreOK, Statuses
<1>9. Known
  BY DEF Init, Known, Idle
<1>. QED  BY <1>6, <1>7, <1>8, <1>9 DEF Types

LEMMA ConnectionTypes ==
  ASSUME Types, Known, NEW s \in Sockets,
         \/ Connect(s) \/ Leave(s) \/ Notice(s) \/ FailedSend(s)
         \/ \E kind \in Kinds : Request(s, kind)
         \/ Restart
  PROVE  Types' /\ Known'
<1>. USE DEF Types, browser, server, store
<1>0. 0 \in 0..MaxQuestions
  BY IdleHand
<1>1. CASE Connect(s)
  <2>1. <<[kind |-> "reconnect", q |-> 0]>> \in Seq(Messages) /\ <<>> \in Seq(Messages)
    BY <1>0 DEF Messages
  <2>2. BrowserOK'
    BY <1>1, <2>1 DEF Connect, BrowserOK
  <2>3. ServerOK' /\ StoreOK'
    BY <1>1 DEF Connect, BrowserOK, ServerOK, StoreOK
  <2>. QED  BY <1>1, <2>2, <2>3 DEF Connect, Known
<1>2. CASE Leave(s)
  <2>1. [q |-> 0, says |-> "nothing"] \in Pages
    BY <1>0 DEF Pages, Says
  <2>2. BrowserOK' /\ ServerOK'
    BY <1>2, <2>1 DEF Leave, BrowserOK, ServerOK
  <2>3. StoreOK'
    BY <1>2, FaultTypes DEF Leave, StoreOK
  <2>. QED  BY <1>2, <2>2, <2>3 DEF Leave, Known
<1>3. CASE Notice(s)
  <2>1. BrowserOK'
    BY <1>3 DEF Notice, BrowserOK
  <2>2. ServerOK' /\ StoreOK'
    BY <1>3 DEF Notice, Disconnect, BrowserOK, ServerOK, StoreOK
  <2>. QED  BY <1>3, <2>1, <2>2 DEF Notice, Known
<1>4. CASE FailedSend(s)
  <2>1. BrowserOK' /\ StoreOK'
    BY <1>4 DEF FailedSend, BrowserOK, StoreOK
  <2>2. ServerOK'
    BY <1>4 DEF FailedSend, Disconnect, BrowserOK, ServerOK
  <2>. QED  BY <1>4, <2>1, <2>2 DEF FailedSend, Known
<1>5. ASSUME NEW kind \in Kinds, Request(s, kind) PROVE Types' /\ Known'
  <2>1. [kind |-> kind, q |-> page[s].q] \in Messages /\ inbox[s] \in Seq(Messages)
    BY DEF BrowserOK, Pages, Messages
  <2>2. Append(inbox[s], [kind |-> kind, q |-> page[s].q]) \in Seq(Messages)
    BY <2>1
  <2>3. page' \in [Sockets -> Pages]
    BY <1>5 DEF Request, BrowserOK, Pages, Says
  <2>4. BrowserOK'
    BY <1>5, <2>2, <2>3 DEF Request, BrowserOK
  <2>5. MaxRequests \in Nat
    BY SessionsAssumption DEF SessionsAssumption
  <2>6. ServerOK' /\ StoreOK'
    BY <1>5, <2>5 DEF Request, ServerOK, StoreOK
  <2>. QED  BY <1>5, <2>4, <2>6 DEF Request, Known
<1>6. CASE Restart
  <2>1. [q |-> 0, says |-> "nothing"] \in Pages
    BY <1>0 DEF Pages, Says
  <2>2. BrowserOK'
    BY <1>6, <2>1 DEF Restart, BrowserOK
  <2>3. ServerOK'
    BY <1>6, IdleHand DEF Restart, ServerOK
  <2>4. StoreOK'
    BY <1>6, FaultTypes DEF Restart, StoreOK
  <2>5. Known'
    BY <1>6 DEF Restart, Known, Idle
  <2>. QED  BY <2>2, <2>3, <2>4, <2>5
<1>. QED  BY <1>1, <1>2, <1>3, <1>4, <1>5, <1>6

LEMMA MessageTypes ==
  ASSUME Types, Known, NEW s \in Sockets,
         \/ \E kind \in Kinds \cup {"reconnect"} : Refuse(s, kind)
         \/ Start(s) \/ Overlapping(s) \/ Accept(s) \/ Retry(s) \/ LookAhead(s)
         \/ NavigateAtOnce(s) \/ CancelRunning(s) \/ Navigate(s) \/ StepForward(s)
         \/ Pause(s) \/ Reconnect(s) \/ Resume(s) \/ ResumeCold(s)
  PROVE  Types' /\ Known'
<1>. DEFINE c == owner[s]
<1>. USE DEF Types, browser, server, store
<1>0. c \in Clients /\ 0 \in 0..MaxQuestions /\ none \notin Clients /\ none \notin Sockets
  BY IdleHand, SessionsAssumption DEF BrowserOK, SessionsAssumption
<1>1. ASSUME NEW kind, Take(s, kind)
      PROVE  /\ inbox' \in [Sockets -> Seq(Messages)] /\ Head(inbox[s]).q \in 0..MaxQuestions
             /\ hand[s].at = "idle"
  BY <1>1, TakeTypes DEF Messages, Take
<1>2. \A says \in Says, q \in 0..MaxQuestions : Show(c, says, q) => Shown
  BY <1>0, ShowTypes DEF Shown
<1>3. ShowMissing(c) => Shown
  BY <1>0, MissingTypes DEF Shown
<1>4. /\ Shown /\ inbox' \in [Sockets -> Seq(Messages)] /\ UNCHANGED <<owner, sock>> => BrowserOK'
      /\ Written /\ ckpt' \in [status : Statuses, q : 0..MaxQuestions] /\ UNCHANGED asked => StoreOK'
      /\ UNCHANGED <<page, stored>> => Shown
      /\ UNCHANGED <<row, spent, unsaved>> => Written
      /\ UNCHANGED ckpt => ckpt' \in [status : Statuses, q : 0..MaxQuestions]
  BY DEF BrowserOK, StoreOK, Shown, Written
<1>5. Restarted => ckpt' \in [status : Statuses, q : 0..MaxQuestions]
  BY <1>0 DEF Restarted, Statuses
<1>6. \A user \in Clients, status \in RowSays, saved \in BOOLEAN :
        Persist(status, user, saved) => Written
  BY PersistTypes DEF Written
<1>7. "asking" \in Says /\ "error" \in Says /\ "paused" \in Says /\ "working" \in Says
      /\ "running" \in RowSays /\ "paused" \in RowSays
  BY DEF Says, RowSays, Statuses
<1>8. cache # none => /\ [cache EXCEPT !.client = c] \in Caches
                      /\ [cache EXCEPT !.task = none] \in Caches
                      /\ cache.user \in Clients /\ cache.task \in Sockets \cup {none}
  BY <1>0 DEF ServerOK, Caches
<1>10. none \notin Caches /\ [client |-> c, user |-> c, task |-> none] \in Caches
  BY <1>0, SessionsAssumption DEF SessionsAssumption, Caches
<1>9. \A kind \in Kinds : RunFor(s, kind) => hand' \in [Sockets -> Hands]
  BY HandTypes
<1>11. /\ \A q \in 0..MaxQuestions :
            [Idle EXCEPT !.at = "accepted", !.kind = "input", !.q = q] \in Hands
       /\ \A t \in Sockets : [Idle EXCEPT !.at = "waiting", !.kind = "navigate", !.for = t] \in Hands
  BY <1>0 DEF Idle, Hands, Places, Kinds
<1>. HIDE DEF c
<1>12. ASSUME NEW kind \in Kinds \cup {"reconnect"}, Refuse(s, kind) PROVE Types' /\ Known'
  <2>1. Take(s, kind) /\ UNCHANGED <<owner, sock, server, store, asked, spent, unsaved>>
    BY <1>12 DEF Refuse
  <2>2. Shown
    BY <1>12, <1>0, <1>2, <1>3, <1>7 DEF Refuse, c
  <2>3. ServerOK'
    BY <2>1 DEF ServerOK
  <2>4. BrowserOK' /\ StoreOK'
    BY <2>1, <2>2, <1>1, <1>4
  <2>. QED  BY <2>1, <2>3, <2>4 DEF Known
<1>13. CASE Start(s)
  <2>1. /\ Take(s, "start") /\ Persist("running", c, TRUE) /\ RunFor(s, "start")
        /\ cache' = [client |-> c, user |-> c, task |-> none] /\ route' = c
        /\ ckpt' = [status |-> "running", q |-> 0]
        /\ UNCHANGED <<owner, stored, sock, page, active, asked>>
    BY <1>13 DEF Start, c
  <2>2. ServerOK'
    BY <2>1, <1>0, <1>9, <1>10 DEF ServerOK, Kinds
  <2>3. BrowserOK'
    BY <2>1, <1>1, <1>4
  <2>4. StoreOK'
    BY <2>1, <1>0, <1>4, <1>6, <1>7 DEF Statuses
  <2>5. Known'
    BY <2>1, <1>10 DEF Known
  <2>. QED  BY <2>2, <2>3, <2>4, <2>5
<1>14. CASE Overlapping(s) \/ LookAhead(s)
  <2>1. /\ UNCHANGED <<owner, stored, sock, page, server, store, asked, spent, unsaved>>
        /\ inbox' \in [Sockets -> Seq(Messages)]
    BY <1>14, <1>1 DEF Overlapping, LookAhead
  <2>2. ServerOK'
    BY <2>1 DEF ServerOK
  <2>. QED  BY <2>1, <2>2, <1>4 DEF Known
<1>15. CASE Accept(s)
  <2>1. /\ Take(s, "input") /\ cache # none /\ Rebind(c)
        /\ UNCHANGED <<owner, stored, sock, page, active, store, asked, spent, unsaved>>
        /\ hand' = [hand EXCEPT ![s] = [Idle EXCEPT !.at = "accepted", !.kind = "input",
                                         !.q = Head(inbox[s]).q]]
    BY <1>15 DEF Accept, Mine, c
  <2>2. ServerOK'
    BY <2>1, <1>0, <1>1, <1>8, <1>11 DEF ServerOK, Rebind
  <2>3. BrowserOK' /\ StoreOK'
    BY <2>1, <1>1, <1>4
  <2>4. Known'
    BY <2>1, <1>8, <1>10 DEF Known, Rebind
  <2>. QED  BY <2>2, <2>3, <2>4
<1>16. CASE Retry(s)
  <2>1. /\ Take(s, "retry") /\ cache # none /\ Rebind(c) /\ RunFor(s, "retry")
        /\ ckpt' = [ckpt EXCEPT !.status = IF @ = "error" THEN "running" ELSE @]
        /\ UNCHANGED <<owner, stored, sock, page, active, row, asked, spent, unsaved>>
    BY <1>16 DEF Retry, c
  <2>2. ServerOK'
    BY <2>1, <1>0, <1>8, <1>9 DEF ServerOK, Rebind, Kinds
  <2>3. ckpt' \in [status : Statuses, q : 0..MaxQuestions]
    BY <2>1 DEF StoreOK, Statuses
  <2>4. BrowserOK' /\ StoreOK'
    BY <2>1, <2>3, <1>1, <1>4
  <2>5. Known'
    BY <2>1, <1>8, <1>10 DEF Known, Rebind, StoreOK
  <2>. QED  BY <2>2, <2>4, <2>5
<1>17. CASE NavigateAtOnce(s) \/ Navigate(s)
  <2>1. PICK kind \in {"look", "navigate"} : Take(s, kind) /\ RunFor(s, kind)
    BY <1>17 DEF NavigateAtOnce, Navigate
  <2>2. /\ Restarted /\ cache # none
        /\ UNCHANGED <<owner, stored, sock, page, active, route, cache, row, asked, spent, unsaved>>
    BY <1>17 DEF NavigateAtOnce, Navigate, Restarted
  <2>3. ServerOK'
    BY <2>1, <2>2, <1>9 DEF ServerOK, Kinds
  <2>4. BrowserOK' /\ StoreOK'
    BY <2>1, <2>2, <1>1, <1>4, <1>5
  <2>5. Known'
    BY <2>1, <2>2 DEF Known, Restarted
  <2>. QED  BY <2>3, <2>4, <2>5
<1>18. CASE CancelRunning(s)
  <2>1. /\ Take(s, "navigate") /\ cache # none /\ cache.task \in Sockets \ {s}
        /\ hand' = [hand EXCEPT ![cache.task] = Idle,
                          ![s] = [Idle EXCEPT !.at = "waiting", !.kind = "navigate",
                                  !.for = cache.task]]
        /\ cache' = [cache EXCEPT !.task = none] /\ unsaved' = TRUE
        /\ UNCHANGED <<owner, stored, sock, page, active, route, store, asked, spent>>
    BY <1>18, <1>8 DEF CancelRunning
  <2>2. ServerOK'
    BY <2>1, <1>8, <1>11, IdleHand DEF ServerOK
  <2>3. BrowserOK'
    BY <2>1, <1>1, <1>4
  <2>4. StoreOK'
    BY <2>1 DEF StoreOK
  <2>5. Known'
    BY <2>1, <1>8, <1>10 DEF Known
  <2>. QED  BY <2>2, <2>3, <2>4, <2>5
<1>19. CASE StepForward(s)
  <2>1. /\ Take(s, "step") /\ cache # none
        /\ UNCHANGED <<owner, sock, active, route, cache, row, asked, spent, unsaved>>
        /\ \/ RunFor(s, "step") /\ Restarted /\ UNCHANGED <<page, stored>>
           \/ Show(c, "error", 0) /\ UNCHANGED <<hand, ckpt>>
    BY <1>19 DEF StepForward, c
  <2>2. Shown
    BY <2>1, <1>0, <1>2, <1>4, <1>7
  <2>3. ServerOK'
    BY <2>1, <1>9 DEF ServerOK, Kinds
  <2>4. BrowserOK' /\ StoreOK'
    BY <2>1, <2>2, <1>1, <1>4, <1>5
  <2>5. Known'
    BY <2>1 DEF Known, Restarted
  <2>. QED  BY <2>3, <2>4, <2>5
<1>20. CASE Pause(s)
  <2>1. /\ Take(s, "pause") /\ Show(c, "paused", page[s].q)
        /\ UNCHANGED <<owner, sock, server, ckpt, asked>>
        /\ IF cache = none THEN UNCHANGED <<row, spent, unsaved>>
           ELSE Persist("paused", cache.user, FALSE)
    BY <1>20 DEF Pause, c
  <2>2. page[s].q \in 0..MaxQuestions
    BY DEF BrowserOK, Pages
  <2>3. BrowserOK'
    BY <2>1, <2>2, <1>1, <1>2, <1>4, <1>7
  <2>4. Written
    BY <2>1, <1>4, <1>6, <1>7, <1>8
  <2>5. ServerOK' /\ StoreOK'
    BY <2>1, <2>4, <1>4 DEF ServerOK
  <2>6. Known'
    BY <2>1 DEF Known, Persist
  <2>. QED  BY <2>3, <2>5, <2>6
<1>21. CASE Reconnect(s)
  <2>1. /\ Take(s, "reconnect") /\ cache # none /\ Rebind(c) /\ ShowAgain(c, cache.user)
        /\ UNCHANGED <<owner, sock, hand, active, ckpt, asked>>
    BY <1>21 DEF Reconnect, Mine, c
  <2>2. Shown /\ Written
    BY <2>1, <1>0, <1>8, ShowAgainTypes DEF Known
  <2>3. BrowserOK' /\ StoreOK'
    BY <2>1, <2>2, <1>1, <1>4
  <2>4. ServerOK'
    BY <2>1, <1>0, <1>8 DEF ServerOK, Rebind
  <2>5. Known'
    BY <2>1, <1>8, <1>10 DEF Known, Rebind
  <2>. QED  BY <2>3, <2>4, <2>5
<1>22. CASE Resume(s)
  <2>1. /\ Take(s, "resume") /\ cache # none /\ Rebind(c) /\ Resuming(s)
        /\ UNCHANGED <<owner, stored, sock, page, active, store, asked, spent, unsaved>>
    BY <1>22 DEF Resume, Mine, c
  <2>2. ServerOK'
    BY <2>1, <1>0, <1>8, HandTypes DEF ServerOK, Rebind
  <2>3. BrowserOK' /\ StoreOK'
    BY <2>1, <1>1, <1>4
  <2>4. Known'
    BY <2>1, <1>8, <1>10 DEF Known, Rebind
  <2>. QED  BY <2>2, <2>3, <2>4
<1>23. CASE ResumeCold(s)
  <2>1. /\ Take(s, "resume") /\ row # none /\ row' = [row EXCEPT !.owner = c]
        /\ cache' = [client |-> c, user |-> c, task |-> none] /\ route' = c /\ Resuming(s)
        /\ UNCHANGED <<owner, stored, sock, page, active, ckpt, asked, spent, unsaved>>
    BY <1>23 DEF ResumeCold, c
  <2>2. row' \in Rows
    BY <2>1, <1>0 DEF StoreOK, Rows
  <2>3. ServerOK'
    BY <2>1, <1>0, <1>10, HandTypes DEF ServerOK
  <2>4. BrowserOK' /\ StoreOK'
    BY <2>1, <2>2, <1>1, <1>4 DEF StoreOK
  <2>5. Known'
    BY <2>1, <1>10 DEF Known
  <2>. QED  BY <2>3, <2>4, <2>5
<1>. QED  BY <1>12, <1>13, <1>14, <1>15, <1>16, <1>17, <1>18, <1>19, <1>20, <1>21, <1>22, <1>23

LEMMA RunTypes ==
  ASSUME Types, Known, NEW s \in Sockets,
         \/ AnswerTooLate(s) \/ AskAgain(s) \/ ApplyAnswer(s) \/ Cancelled(s)
         \/ ResumeShows(s) \/ ResumeExhausted(s) \/ ResumeRestarts(s)
         \/ RunStep(s) \/ Raise(s) \/ Report(s) \/ ReportError(s)
  PROVE  Types' /\ Known'
<1>. DEFINE c == owner[s]
<1>. USE DEF Types, browser, server, store
<1>0. c \in Clients /\ 0 \in 0..MaxQuestions /\ none \notin Clients /\ none \notin Sockets
  BY IdleHand, SessionsAssumption DEF BrowserOK, SessionsAssumption
<1>1. \A says \in Says, q \in 0..MaxQuestions : Show(c, says, q) => Shown
  BY <1>0, ShowTypes DEF Shown
<1>2. /\ Shown /\ UNCHANGED <<owner, sock, inbox>> => BrowserOK'
      /\ Written /\ ckpt' \in [status : Statuses, q : 0..MaxQuestions] /\ UNCHANGED asked => StoreOK'
      /\ UNCHANGED <<page, stored>> => Shown
      /\ UNCHANGED <<row, spent>> /\ unsaved' \in BOOLEAN => Written
      /\ UNCHANGED ckpt => ckpt' \in [status : Statuses, q : 0..MaxQuestions]
      /\ unsaved \in BOOLEAN
      /\ ckpt.q \in 0..MaxQuestions /\ ckpt.status \in Statuses
  BY DEF BrowserOK, StoreOK, Shown, Written
<1>3. Restarted => ckpt' \in [status : Statuses, q : 0..MaxQuestions]
  BY <1>0 DEF Restarted, Statuses
<1>4. \A user \in Clients, status \in RowSays, saved \in BOOLEAN :
        Persist(status, user, saved) => Written
  BY PersistTypes DEF Written
<1>5. /\ "asking" \in Says /\ "error" \in Says /\ "working" \in Says
      /\ "running" \in RowSays /\ "paused" \in RowSays /\ "error" \in RowSays
      /\ ckpt.status # "none" => ckpt.status \in RowSays
  BY <1>2 DEF Says, RowSays, Statuses
<1>6. /\ none \notin Caches
      /\ cache # none => /\ [cache EXCEPT !.task = none] \in Caches
                         /\ [cache EXCEPT !.task = s] \in Caches
                         /\ cache.user \in Clients
  BY <1>0, SessionsAssumption DEF SessionsAssumption, ServerOK, Caches
<1>7. /\ \A kind \in Kinds : RunFor(s, kind) => hand' \in [Sockets -> Hands]
      /\ Finish(s) => hand' \in [Sockets -> Hands]
      /\ \A at \in Places : hand' = [hand EXCEPT ![s].at = at] => hand' \in [Sockets -> Hands]
  BY HandTypes DEF ServerOK, Hands
<1>8. /\ hand' \in [Sockets -> Hands] /\ UNCHANGED <<active, route>>
           /\ (UNCHANGED cache \/ cache' \in Caches) => ServerOK'
      /\ hand[s].at # "idle" => cache # none /\ ckpt.status # "none"
  BY DEF ServerOK, Known
<1>. HIDE DEF c
<1>9. CASE AnswerTooLate(s)
  <2>1. /\ cache # none /\ ckpt.status # "none" /\ ckpt.q = 0 /\ Finish(s)
        /\ Persist(ckpt.status, cache.user, TRUE)
        /\ UNCHANGED <<browser, active, route, cache, ckpt, asked>>
    BY <1>9, <1>8 DEF AnswerTooLate, Accepted
  <2>2. Written
    BY <2>1, <1>4, <1>5, <1>6
  <2>3. BrowserOK' /\ StoreOK' /\ ServerOK'
    BY <2>1, <2>2, <1>2, <1>7, <1>8
  <2>. QED  BY <2>1, <2>3 DEF Known
<1>10. CASE AskAgain(s)
  <2>1. /\ cache # none /\ ckpt.status # "none" /\ Finish(s)
        /\ Show(c, "asking", ckpt.q) /\ Persist("paused", cache.user, TRUE)
        /\ UNCHANGED <<owner, sock, inbox, active, route, cache, ckpt, asked>>
    BY <1>10, <1>8 DEF AskAgain, Accepted, c
  <2>2. Shown /\ Written
    BY <2>1, <1>1, <1>2, <1>4, <1>5, <1>6
  <2>3. BrowserOK' /\ StoreOK' /\ ServerOK'
    BY <2>1, <2>2, <1>2, <1>7, <1>8
  <2>. QED  BY <2>1, <2>3 DEF Known
<1>11. CASE ApplyAnswer(s)
  <2>1. /\ cache # none /\ cache' = [cache EXCEPT !.task = s]
        /\ hand' = [hand EXCEPT ![s].at = "running"]
        /\ UNCHANGED <<browser, active, route, store, asked, spent, unsaved>>
    BY <1>11, <1>8 DEF ApplyAnswer, Accepted
  <2>2. BrowserOK' /\ StoreOK' /\ ServerOK'
    BY <2>1, <1>2, <1>6, <1>7, <1>8 DEF Places
  <2>. QED  BY <2>1, <2>2, <1>6 DEF Known
<1>12. CASE Cancelled(s)
  <2>1. /\ cache # none /\ RunFor(s, "navigate") /\ Restarted
        /\ UNCHANGED <<browser, active, route, cache, row, asked, spent, unsaved>>
    BY <1>12, <1>8 DEF Cancelled
  <2>2. BrowserOK' /\ StoreOK' /\ ServerOK'
    BY <2>1, <1>2, <1>3, <1>7, <1>8 DEF Kinds
  <2>. QED  BY <2>1, <2>2 DEF Known, Restarted
<1>13. CASE ResumeShows(s)
  <2>1. /\ cache # none /\ ckpt.status # "none" /\ ShowAgain(c, cache.user) /\ Finish(s)
        /\ UNCHANGED <<owner, sock, inbox, active, route, cache, ckpt, asked>>
    BY <1>13, <1>8 DEF ResumeShows, c
  <2>2. Shown /\ Written
    BY <2>1, <1>0, <1>6, ShowAgainTypes
  <2>3. BrowserOK' /\ StoreOK' /\ ServerOK'
    BY <2>1, <2>2, <1>2, <1>7, <1>8
  <2>. QED  BY <2>1, <2>3 DEF Known
<1>14. CASE ResumeExhausted(s)
  <2>1. /\ cache # none /\ ckpt' = [ckpt EXCEPT !.status = "running"]
        /\ Show(c, "working", 0) /\ unsaved' \in {unsaved, TRUE}
        /\ RunFor(s, "resume") \/ Finish(s)
        /\ UNCHANGED <<owner, sock, inbox, active, route, cache, row, asked, spent>>
    BY <1>14, <1>8 DEF ResumeExhausted, c
  <2>2. Shown /\ Written
    BY <2>1, <1>0, <1>1, <1>2, <1>5
  <2>3. ckpt' \in [status : Statuses, q : 0..MaxQuestions] /\ ckpt'.status = "running"
    BY <2>1 DEF StoreOK, Statuses
  <2>4. BrowserOK' /\ StoreOK' /\ ServerOK'
    BY <2>1, <2>2, <2>3, <1>2, <1>7, <1>8 DEF Kinds
  <2>. QED  BY <2>1, <2>3, <2>4 DEF Known
<1>15. CASE ResumeRestarts(s)
  <2>1. /\ cache # none /\ RunFor(s, "resume")
        /\ Show(c, "working", 0) /\ Persist("running", cache.user, TRUE)
        /\ ckpt.status # "none"
        /\ UNCHANGED <<owner, sock, inbox, active, route, cache, ckpt, asked>>
    BY <1>15, <1>8 DEF ResumeRestarts, c
  <2>2. Shown /\ Written
    BY <2>1, <1>0, <1>1, <1>4, <1>5, <1>6
  <2>3. BrowserOK' /\ StoreOK' /\ ServerOK'
    BY <2>1, <2>2, <1>2, <1>7, <1>8 DEF Kinds
  <2>. QED  BY <2>1, <2>3 DEF Known
<1>16. CASE Work(s)
  <2>1. /\ cache # none /\ Restarted /\ UNCHANGED <<browser, server, asked, spent, unsaved>>
        /\ row' = IF row = none THEN row ELSE [row EXCEPT !.status = "running"]
    BY <1>16 DEF Work
  <2>2. row' = none \/ row' \in Rows
    BY <2>1, <1>5 DEF StoreOK, Rows
  <2>3. BrowserOK' /\ StoreOK' /\ ServerOK'
    BY <2>1, <2>2, <1>3 DEF BrowserOK, StoreOK, ServerOK
  <2>. QED  BY <2>1, <2>3 DEF Known, Restarted
<1>17. CASE Ask(s)
  <2>1. /\ cache # none /\ asked < MaxQuestions /\ asked' = asked + 1
        /\ ckpt' = [status |-> "running", q |-> asked + 1]
        /\ hand' = [hand EXCEPT ![s].at = "ended"]
        /\ UNCHANGED <<browser, active, route, cache, row, spent, unsaved>>
    BY <1>17, <1>8 DEF Ask
  <2>2. asked' \in 0..MaxQuestions
    BY <2>1, SessionsAssumption DEF SessionsAssumption, StoreOK
  <2>3. ckpt' \in [status : Statuses, q : 0..MaxQuestions]
    BY <2>1, <2>2 DEF Statuses
  <2>4. BrowserOK' /\ StoreOK' /\ ServerOK'
    BY <2>1, <2>2, <2>3, <1>7, <1>8 DEF BrowserOK, StoreOK, Places
  <2>. QED  BY <2>1, <2>4 DEF Known
<1>18. ASSUME NEW status \in {"completed", "error", "budget_exhausted"}, EndRun(s, status)
       PROVE  Types' /\ Known'
  <2>1. /\ cache # none /\ ckpt' = [status |-> status, q |-> 0]
        /\ hand' = [hand EXCEPT ![s].at = "ended"]
        /\ UNCHANGED <<browser, active, route, cache, row, asked, spent, unsaved>>
    BY <1>18, <1>8 DEF EndRun
  <2>2. ckpt' \in [status : Statuses, q : 0..MaxQuestions]
    BY <2>1, <1>0 DEF Statuses
  <2>3. BrowserOK' /\ StoreOK' /\ ServerOK'
    BY <2>1, <2>2, <1>2, <1>7, <1>8 DEF Places
  <2>. QED  BY <2>1, <2>3 DEF Known
<1>19. CASE Raise(s)
  <2>1. /\ cache # none /\ ckpt.status # "none" /\ Fault
        /\ hand' = [hand EXCEPT ![s].at = "raised"]
        /\ UNCHANGED <<browser, active, route, cache, row, asked, unsaved>>
    BY <1>19, <1>8 DEF Raise
  <2>2. PICK q \in {0, ckpt.q} : ckpt' = [ckpt EXCEPT !.q = q]
    BY <1>19 DEF Raise
  <2>3. /\ ckpt' \in [status : Statuses, q : 0..MaxQuestions]
        /\ ckpt'.status = ckpt.status /\ ckpt'.q \in {0, ckpt.q}
    BY <2>2, <1>0, <1>2 DEF StoreOK
  <2>4. StoreOK'
    BY <2>1, <2>3, FaultTypes DEF StoreOK
  <2>5. BrowserOK' /\ ServerOK'
    BY <2>1, <1>7, <1>8 DEF BrowserOK, Places
  <2>. QED  BY <2>1, <2>3, <2>4, <2>5 DEF Known
<1>20. CASE Report(s)
  <2>1. /\ cache # none /\ ckpt.status # "none" /\ Finish(s)
        /\ cache' = [cache EXCEPT !.task = none]
        /\ Tell(c, cache.user, Saves(hand[s].kind))
        /\ UNCHANGED <<owner, sock, inbox, active, route, ckpt, asked>>
    BY <1>20, <1>8 DEF Report, c
  <2>2. Saves(hand[s].kind) \in BOOLEAN
    BY DEF Saves
  <2>3. Shown /\ Written
    BY <2>1, <2>2, <1>0, <1>6, TellTypes
  <2>4. BrowserOK' /\ StoreOK' /\ ServerOK'
    BY <2>1, <2>3, <1>2, <1>6, <1>7, <1>8
  <2>. QED  BY <2>1, <2>4, <1>6 DEF Known
<1>21. CASE ReportError(s)
  <2>1. /\ cache # none /\ ckpt.status # "none" /\ Finish(s)
        /\ cache' = [cache EXCEPT !.task = none] /\ Show(c, "error", 0)
        /\ \/ Persist("error", cache.user, FALSE)
           \/ UNCHANGED <<row, spent>> /\ unsaved' = TRUE
        /\ UNCHANGED <<owner, sock, inbox, active, route, ckpt, asked>>
    BY <1>21, <1>8 DEF ReportError, c
  <2>2. Shown /\ Written
    BY <2>1, <1>0, <1>1, <1>2, <1>4, <1>5, <1>6
  <2>3. BrowserOK' /\ StoreOK' /\ ServerOK'
    BY <2>1, <2>2, <1>2, <1>6, <1>7, <1>8
  <2>. QED  BY <2>1, <2>3, <1>6 DEF Known
<1>. QED
  BY <1>9, <1>10, <1>11, <1>12, <1>13, <1>14, <1>15, <1>16, <1>17, <1>18, <1>19, <1>20, <1>21
  DEF RunStep

\* Every step keeps the types.
LEMMA StepTypes == Types /\ Known /\ [Next]_vars => Types' /\ Known'
<1>. SUFFICES ASSUME Types, Known, [Next]_vars PROVE Types' /\ Known'
  OBVIOUS
<1>1. ASSUME NEW s \in Sockets,
             \/ Connect(s) \/ Leave(s) \/ Notice(s) \/ FailedSend(s)
             \/ \E kind \in Kinds : Request(s, kind)
      PROVE  Types' /\ Known'
  BY <1>1, ConnectionTypes
<1>2. ASSUME NEW s \in Sockets, Handle(s) PROVE Types' /\ Known'
  BY <1>2, MessageTypes, RunTypes DEF Handle
<1>3. ASSUME NEW s \in Sockets, RunStep(s) \/ Raise(s) \/ Report(s) \/ ReportError(s)
      PROVE  Types' /\ Known'
  BY <1>3, RunTypes
<1>4. CASE Restart
  <2>1. PICK s \in Sockets : sock[s] \in {"open", "gone"}
    BY <1>4 DEF Restart
  <2>. QED  BY <1>4, ConnectionTypes
<1>5. CASE UNCHANGED vars
  BY <1>5 DEF Types, BrowserOK, ServerOK, StoreOK, Known, vars, browser, server, store
<1>. QED  BY <1>1, <1>2, <1>3, <1>4, <1>5 DEF Next

-----------------------------------------------------------------------------
(***************************************************************************)
(* The row follows the checkpoint.                                           *)
(***************************************************************************)

\* A row that is written tells the status; a row that is not is known to differ.
LEMMA PersistTells ==
  ASSUME StoreOK, NEW status, NEW user, Persist(status, user, TRUE)
  PROVE  unsaved' \/ row'.status = status
<1>1. row # none => [row EXCEPT !.status = status].status = status
  BY DEF StoreOK, Rows
<1>2. CASE unsaved' = TRUE
  BY <1>2
<1>3. CASE row' = IF row = none THEN [owner |-> user, status |-> status]
                  ELSE [row EXCEPT !.status = status]
  BY <1>1, <1>3
<1>. QED  BY <1>2, <1>3 DEF Persist

LEMMA ShowAgainSettles ==
  ASSUME Types, Known, NEW c, NEW user, ShowAgain(c, user), UNCHANGED ckpt
  PROVE  \/ UNCHANGED <<row, unsaved>> \/ unsaved' \/ row'.status = RowOf(ckpt)'
<1>1. ckpt.q = 0 => RowOf(ckpt) = ckpt.status
  BY DEF RowOf
<1>2. ckpt.q # 0 => RowOf(ckpt) = "paused"
  BY DEF RowOf, Known
<1>3. RowOf(ckpt)' = RowOf(ckpt)
  BY DEF RowOf
<1>. HIDE DEF RowOf
<1>. QED  BY <1>1, <1>2, <1>3, PersistTells DEF ShowAgain, Types

LEMMA TellSettles ==
  ASSUME Types, Known, NEW c, NEW user, NEW saves, Tell(c, user, saves), UNCHANGED ckpt
  PROVE  unsaved' \/ row'.status = RowOf(ckpt)'
<1>1. ckpt.q = 0 => RowOf(ckpt) = ckpt.status
  BY DEF RowOf
<1>2. ckpt.q # 0 => RowOf(ckpt) = "paused" /\ ckpt.status = "running"
  BY DEF RowOf, Known
<1>3. RowOf(ckpt)' = RowOf(ckpt)
  BY DEF RowOf
<1>. HIDE DEF RowOf
<1>. QED  BY <1>1, <1>2, <1>3, PersistTells DEF Tell, Types

LEMMA StepSettled == IInv /\ [Next]_vars => Settled'
<1>. SUFFICES ASSUME IInv, [Next]_vars PROVE Settled'
  OBVIOUS
<1>0. Types /\ Known /\ Settled /\ Types'
  BY StepTypes DEF IInv
<1>1. ASSUME NEW s \in Sockets, Working(s)' PROVE Settled'
  BY <1>1 DEF Settled
<1>2. ASSUME UNCHANGED <<row, ckpt, unsaved>>,
             \A s \in Sockets : Working(s) => Working(s)'
      PROVE  Settled'
  BY <1>0, <1>2 DEF Settled, RowOf
<1>3. unsaved' \/ row'.status = RowOf(ckpt)' => Settled'
  BY DEF Settled
<1>4. ASSUME NEW s \in Sockets, NEW kind, RunFor(s, kind) PROVE Settled'
  <2>1. Working(s)'
    BY <1>0, <1>4 DEF Types, ServerOK, RunFor, Working
  <2>. QED  BY <2>1, <1>1
<1>. USE DEF browser, server, store
\* No handler is touched, or one that has no run takes a message or is done.
<1>5. ASSUME NEW s \in Sockets,
             \/ Connect(s) \/ Leave(s) \/ Notice(s) \/ FailedSend(s)
             \/ \E kind \in Kinds : Request(s, kind)
             \/ \E kind \in Kinds \cup {"reconnect"} : Refuse(s, kind)
             \/ Overlapping(s) \/ LookAhead(s)
      PROVE  Settled'
  <2>1. UNCHANGED <<row, ckpt, unsaved>> /\ UNCHANGED hand
    BY <1>5 DEF Connect, Leave, Notice, FailedSend, Request, Refuse, Overlapping, LookAhead
  <2>. QED  BY <2>1, <1>2 DEF Working
<1>6. ASSUME NEW s \in Sockets, hand[s].at = "idle", UNCHANGED <<row, ckpt, unsaved>>,
             \A t \in Sockets \ {s} : hand'[t] = hand[t]
      PROVE  Settled'
  BY <1>6, <1>2 DEF Working
<1>7. ASSUME NEW s \in Sockets, Accept(s) \/ Resume(s) PROVE Settled'
  BY <1>0, <1>6, <1>7 DEF Accept, Resume, Resuming, Take, Types, ServerOK
<1>8. ASSUME NEW s \in Sockets, ResumeCold(s) PROVE Settled'
  <2>1. /\ hand[s].at = "idle" /\ UNCHANGED <<ckpt, unsaved>> /\ row # none
        /\ row' = [row EXCEPT !.owner = owner[s]]
        /\ \A t \in Sockets \ {s} : hand'[t] = hand[t]
    BY <1>0, <1>8 DEF ResumeCold, Resuming, Take, Types, ServerOK
  <2>2. row'.status = row.status
    BY <2>1, <1>0 DEF Types, StoreOK, Rows
  <2>3. RowOf(ckpt)' = RowOf(ckpt)
    BY <2>1 DEF RowOf
  <2>. QED  BY <2>1, <2>2, <2>3, <1>0 DEF Settled, Working
\* A run begins.
<1>9. ASSUME NEW s \in Sockets,
             \/ Start(s) \/ Retry(s) \/ NavigateAtOnce(s) \/ Cancelled(s) \/ Navigate(s)
             \/ ResumeRestarts(s)
      PROVE  Settled'
  BY <1>9, <1>4
  DEF Start, Retry, NavigateAtOnce, Cancelled, Navigate, ResumeRestarts
<1>10. ASSUME NEW s \in Sockets, ApplyAnswer(s) PROVE Settled'
  <2>1. Working(s)'
    BY <1>0, <1>10 DEF ApplyAnswer, Types, ServerOK, Hands, Working
  <2>. QED  BY <2>1, <1>1
<1>11. ASSUME NEW s \in Sockets, StepForward(s) PROVE Settled'
  <2>1. CASE RunFor(s, "step")
    BY <2>1, <1>4
  <2>2. CASE UNCHANGED <<hand, ckpt>>
    BY <2>2, <1>11, <1>2 DEF StepForward, Working
  <2>. QED  BY <1>11, <2>1, <2>2 DEF StepForward
<1>12. ASSUME NEW s \in Sockets, CancelRunning(s) PROVE Settled'
  BY <1>12, <1>3 DEF CancelRunning
<1>13. ASSUME NEW s \in Sockets, Pause(s) PROVE Settled'
  <2>1. CASE cache = none
    BY <2>1, <1>13, <1>2 DEF Pause, Working
  <2>2. CASE cache # none
    BY <2>2, <1>13, <1>3 DEF Pause, Persist
  <2>. QED  BY <2>1, <2>2
\* The row is written, or nothing changes that it tells.
<1>14. ASSUME NEW s \in Sockets, Reconnect(s) \/ ResumeShows(s) PROVE Settled'
  <2>1. /\ ShowAgain(owner[s], cache.user) /\ UNCHANGED ckpt
        /\ \A t \in Sockets : Working(t) => Working(t)'
    BY <1>0, <1>14 DEF Reconnect, ResumeShows, Finish, Working, Types, ServerOK
  <2>2. UNCHANGED <<row, unsaved>> \/ unsaved' \/ row'.status = RowOf(ckpt)'
    BY <2>1, <1>0, ShowAgainSettles
  <2>. QED  BY <2>1, <2>2, <1>2, <1>3
<1>15. ASSUME NEW s \in Sockets, AnswerTooLate(s) PROVE Settled'
  <2>1. unsaved' \/ row'.status = ckpt.status
    BY <1>0, <1>15, PersistTells DEF AnswerTooLate, Types
  <2>2. RowOf(ckpt)' = ckpt.status
    BY <1>15 DEF AnswerTooLate, RowOf
  <2>. QED  BY <2>1, <2>2, <1>3
<1>16. ASSUME NEW s \in Sockets, AskAgain(s) PROVE Settled'
  <2>1. unsaved' \/ row'.status = "paused"
    BY <1>0, <1>16, PersistTells DEF AskAgain, Types
  <2>2. RowOf(ckpt)' = "paused"
    BY <1>0, <1>16 DEF AskAgain, RowOf, Known
  <2>. QED  BY <2>1, <2>2, <1>3
<1>17. ASSUME NEW s \in Sockets, ResumeExhausted(s) PROVE Settled'
  BY <1>3, <1>4, <1>17 DEF ResumeExhausted
\* A run works on, or ends and is to be reported.
<1>18. ASSUME NEW s \in Sockets, RunStep(s) \/ Raise(s) PROVE Settled'
  <2>1. Working(s)'
    BY <1>0, <1>18 DEF RunStep, Work, Ask, EndRun, Raise, Types, ServerOK, Hands, Working
  <2>. QED  BY <2>1, <1>1
<1>19. ASSUME NEW s \in Sockets, Report(s) PROVE Settled'
  BY <1>0, <1>3, <1>19, TellSettles DEF Report
<1>20. ASSUME NEW s \in Sockets, ReportError(s) PROVE Settled'
  BY <1>3, <1>20 DEF ReportError, Persist
\* A restart loses no run that is not noted.
<1>21. CASE Restart
  <2>1. \/ unsaved'
        \/ ~unsaved /\ \A s \in Sockets : hand[s].at = "idle"
    BY <1>21 DEF Restart
  <2>2. UNCHANGED <<row, ckpt>> /\ RowOf(ckpt)' = RowOf(ckpt)
    BY <1>21 DEF Restart, RowOf
  <2>. QED  BY <2>1, <2>2, <1>0 DEF Settled, Working
<1>22. CASE UNCHANGED vars
  BY <1>2, <1>22 DEF vars, Working
<1>. QED
  BY <1>5, <1>7, <1>8, <1>9, <1>10, <1>11, <1>12, <1>13, <1>14, <1>15, <1>16, <1>17,
     <1>18, <1>19, <1>20, <1>21, <1>22
  DEF Next, Handle

-----------------------------------------------------------------------------
(***************************************************************************)
(* The theorems.                                                             *)
(***************************************************************************)

\* The inductive invariant holds in every reachable state: the types, what a handler that is
\* at work can rely on, and what the row owes to the checkpoint (plan_dispatcher.py).
THEOREM Invariance == Spec => []IInv
<1>1. Init => IInv
  BY InitTypes DEF IInv, Settled, Init
<1>2. IInv /\ [Next]_vars => IInv'
  BY StepTypes, StepSettled DEF IInv
<1>. QED  BY <1>1, <1>2, PTL DEF Spec

\* The variables are typed, and whenever no handler is busy the row tells what the
\* checkpoint holds, unless it is known why not (_persist_runtime_snapshot,
\* _emit_phase_prompt): for any number of pages, browsers, messages and faults.
THEOREM SessionsSound == Spec => []SessionsInv
<1>1. IInv => SessionsInv
  <2>. SUFFICES ASSUME IInv PROVE SessionsInv
    OBVIOUS
  <2>1. TypeOK
    BY TypesSuffice DEF IInv
  <2>2. RowFollowsCheckpoint
    BY DEF IInv, Settled, Working, RowFollowsCheckpoint
  <2>. QED  BY <2>1, <2>2 DEF SessionsInv
<1>. QED  BY <1>1, Invariance, PTL

\* No page loses its connection but to a page of the same browser (connect, disconnect).
THEOREM ConnectionsKept == Spec => []LostOnlyToOwnPages
<1>1. Init => LostOnlyToOwnPages
  BY DEF Init, LostOnlyToOwnPages
<1>2. LostOnlyToOwnPages /\ IInv /\ [Next]_vars => LostOnlyToOwnPages'
  <2>. SUFFICES ASSUME LostOnlyToOwnPages, IInv, [Next]_vars PROVE LostOnlyToOwnPages'
    OBVIOUS
  <2>. USE DEF browser, server, store
  <2>0. BrowserOK /\ ServerOK
    BY DEF IInv, Types
  <2>1. ASSUME UNCHANGED <<owner, sock, active>> PROVE LostOnlyToOwnPages'
    BY <2>1 DEF LostOnlyToOwnPages
  <2>2. ASSUME NEW s \in Sockets, Connect(s) PROVE LostOnlyToOwnPages'
    BY <2>0, <2>2 DEF Connect, LostOnlyToOwnPages, BrowserOK, ServerOK
  <2>3. ASSUME NEW s \in Sockets, Leave(s) PROVE LostOnlyToOwnPages'
    BY <2>0, <2>3 DEF Leave, LostOnlyToOwnPages, BrowserOK
  <2>4. ASSUME NEW s \in Sockets, Notice(s) \/ FailedSend(s) PROVE LostOnlyToOwnPages'
    <3>1. /\ sock[s] = "gone" /\ UNCHANGED owner
          /\ active' = [active EXCEPT ![owner[s]] = none]
          /\ sock' \in {sock, [sock EXCEPT ![s] = "closed"]}
      BY <2>4 DEF Notice, FailedSend, Disconnect
    <3>. QED  BY <2>0, <3>1 DEF LostOnlyToOwnPages, BrowserOK, ServerOK
  <2>5. ASSUME NEW s \in Sockets, \E kind \in Kinds : Request(s, kind)
        PROVE  LostOnlyToOwnPages'
    BY <2>1, <2>5 DEF Request
  <2>6. ASSUME NEW s \in Sockets, Handle(s) \/ RunStep(s) \/ Raise(s) \/ Report(s) \/ ReportError(s)
        PROVE  LostOnlyToOwnPages'
    <3>1. UNCHANGED <<owner, sock, active>>
      BY <2>6
      DEF Handle, RunStep, Raise, Report, ReportError, Refuse, Start, Overlapping, Accept,
          AnswerTooLate, AskAgain, ApplyAnswer, Retry, LookAhead, NavigateAtOnce,
          CancelRunning, Cancelled, Navigate, StepForward, Pause, Reconnect, Resume,
          ResumeCold, ResumeShows, ResumeExhausted, ResumeRestarts, Work, Ask, EndRun
    <3>. QED  BY <3>1, <2>1
  <2>7. CASE Restart
    BY <2>7 DEF Restart, LostOnlyToOwnPages
  <2>8. CASE UNCHANGED vars
    BY <2>1, <2>8 DEF vars
  <2>. QED  BY <2>2, <2>3, <2>4, <2>5, <2>6, <2>7, <2>8 DEF Next
<1>. QED  BY <1>1, <1>2, Invariance, PTL DEF Spec

\* Only a retry takes a session in memory from another client (_ensure_session_owner).
THEOREM SessionsKept == Spec => TakenOverByRetryOnly
<1>. DEFINE Taken == cache # none /\ cache' # none /\ cache'.client # cache.client
            ByRetry == \E s \in Sockets : hand[s].at = "idle" /\ hand'[s].kind = "retry"
<1>1. IInv /\ [Next]_vars => (Taken => ByRetry)
  <2>. SUFFICES ASSUME IInv, [Next]_vars, cache # none, cache' # none,
                       cache'.client # cache.client
                PROVE  ByRetry
    OBVIOUS
  <2>. USE DEF browser, server, store
  <2>0. ServerOK /\ Known /\ cache \in Caches
    BY DEF IInv, Types, ServerOK
  <2>1. \A s \in Sockets : /\ [cache EXCEPT !.task = s].client = cache.client
                           /\ [cache EXCEPT !.task = none].client = cache.client
    BY <2>0 DEF Caches
  <2>2. \A c : Mine(c) /\ Rebind(c) => cache'.client = cache.client
    BY <2>0 DEF Mine, Rebind, Caches
  <2>3. ASSUME NEW s \in Sockets, Retry(s) PROVE ByRetry
    BY <2>0, <2>3 DEF Retry, Take, RunFor, Idle, ServerOK
  <2>4. ASSUME NEW s \in Sockets, Handle(s) PROVE Retry(s)
    BY <2>0, <2>1, <2>2, <2>4
    DEF Handle, Refuse, Start, Overlapping, Accept, AnswerTooLate, AskAgain, ApplyAnswer,
        LookAhead, NavigateAtOnce, CancelRunning, Cancelled, Navigate, StepForward, Pause,
        Reconnect, Resume, ResumeCold, ResumeShows, ResumeExhausted, ResumeRestarts, Known
  <2>5. ASSUME NEW s \in Sockets,
               RunStep(s) \/ Raise(s) \/ Report(s) \/ ReportError(s)
        PROVE  FALSE
    BY <2>1, <2>5 DEF RunStep, Work, Ask, EndRun, Raise, Report, ReportError
  <2>6. ASSUME NEW s \in Sockets,
               \/ Connect(s) \/ Leave(s) \/ Notice(s) \/ FailedSend(s)
               \/ \E kind \in Kinds : Request(s, kind)
        PROVE  FALSE
    BY <2>6 DEF Connect, Leave, Notice, FailedSend, Request
  <2>7. CASE Restart
    BY <2>7 DEF Restart
  <2>8. CASE UNCHANGED vars
    BY <2>8 DEF vars
  <2>. QED  BY <2>3, <2>4, <2>5, <2>6, <2>7, <2>8 DEF Next
<1>. QED  BY <1>1, Invariance, PTL DEF Spec, TakenOverByRetryOnly
=============================================================================
