------------------------------ MODULE Metadata ------------------------------
(***************************************************************************)
(* The metadata tables of one repository and the settings of the user:         *)
(* database/repositories.py, database/metadata_service.py, routers/settings.py. *)
(*                                                                          *)
(* A call is a transaction of its own: it reads, and later it writes and        *)
(* commits, or fails.  Threads call through SyncMetadataService, which hands    *)
(* the transaction to its event loop and waits; a caller that has waited too    *)
(* long gets an exception, and the transaction goes on without it.             *)
(***************************************************************************)
EXTENDS Integers, FiniteSets

CONSTANTS
  Threads,      \* the callers: worker threads and the thread of the event loop
  Paths,        \* files of the repository
  Pieces,       \* chunks of the repository
  Keys,         \* the settings of a user, the fields of one row
  Menus,        \* the calls the threads make in a run, one menu for each run
  MaxCalls,     \* bound of the model on the calls
  MaxTroubles   \* bound of the model on timeouts and lost transactions

StatusCalls   == [kind : {"status"}, to : {"pending", "indexing", "paused", "ready", "error"}]
RowCalls      == [kind : {"create", "delete"}]
FileCalls     == [kind : {"mark"}, path : Paths, as : {"completed", "failed"}] \cup [kind : {"clear files"}]
PendingCalls  == [kind : {"save pending"}, pieces : SUBSET Pieces] \cup [kind : {"clear pending"}]
FailedCalls   == [kind : {"fail"}, piece : Pieces] \cup [kind : {"clear failed"}]
ProgressCalls == [kind : {"init", "advance", "clear progress", "show", "hide"}]
SettingCalls  == [kind : {"set", "server"}, key : Keys]
Calls == StatusCalls \cup RowCalls \cup FileCalls \cup PendingCalls \cup FailedCalls
           \cup ProgressCalls \cup SettingCalls

ASSUME MetadataAssumption == Menus \subseteq SUBSET Calls /\ {MaxCalls, MaxTroubles} \subseteq Nat

VARIABLES
  menu,      \* the calls of this run
  rows,      \* the tables
  settings,  \* the row of user_preferences
  call,      \* each transaction: its caller, what it is to do and what it has read
  raced,     \* kinds of which two transactions have overlapped
  misread,   \* settings were saved after a load that failed, or by a call given up on
  troubles   \* timeouts and lost transactions so far

metaVars == <<menu, rows, settings, call, raced, misread, troubles>>

Unused == [by |-> "nobody", op |-> [kind |-> "none"], seen |-> {}, at |-> "unused"]
Marks  == {"none", "completed", "failed"}

MetadataTypeOK ==
  /\ menu \in Menus
  /\ rows \in [repo : {"none", "pending", "indexing", "paused", "ready", "error"},
               files : [Paths -> Marks], pending : SUBSET Pieces, failed : [Pieces -> 0..MaxCalls],
               progress : -1..MaxCalls, live : BOOLEAN]
  /\ settings \in [Keys -> 0..MaxCalls]
  /\ \A t \in DOMAIN call : call[t].at \in {"unused", "open", "left", "done", "raised"}
  /\ misread \in BOOLEAN /\ troubles \in 0..MaxTroubles

Fresh == [repo |-> "none", files |-> [p \in Paths |-> "none"], pending |-> {},
          failed |-> [c \in Pieces |-> 0], progress |-> -1, live |-> FALSE]

MetadataInit ==
  /\ menu \in Menus
  /\ rows \in {Fresh, [Fresh EXCEPT !.repo = "indexing"]} /\ settings = [k \in Keys |-> 0]
  /\ call = [t \in 1..MaxCalls |-> Unused]
  /\ raced = {} /\ misread = FALSE /\ troubles = 0

-----------------------------------------------------------------------------
(***************************************************************************)
(* A call begins: what it reads, and when that is enough for it to raise.      *)
(***************************************************************************)

NextStatus(s) ==
  CASE s = "pending"  -> {"indexing"}
    [] s = "indexing" -> {"ready", "error", "paused", "indexing"}
    [] s = "paused"   -> {"indexing", "error"}
    [] s = "ready"    -> {"indexing"}
    [] s = "error"    -> {"pending", "indexing"}
    [] s = "none"     -> {}

\* The rows that hang on the repository's row, and go with it.
Children ==
  {<<"file", p>> : p \in {p \in Paths : rows.files[p] # "none"}}
    \cup {<<"pending", c>> : c \in rows.pending}
    \cup {<<"failed", c>> : c \in {c \in Pieces : rows.failed[c] > 0}}
    \cup (IF rows.progress = -1 THEN {} ELSE {<<"progress", 0>>})
    \cup (IF rows.live THEN {<<"live", 0>>} ELSE {})

Seen(o) ==
  CASE o.kind = "status"       -> rows.repo
    [] o.kind = "delete"       -> Children
    [] o.kind = "mark"         -> rows.files[o.path]
    [] o.kind = "save pending" -> rows.pending
    [] o.kind = "fail"         -> rows.failed[o.piece]
    [] o.kind = "show"         -> rows.live
    [] OTHER                   -> {}

Refused(o) ==
  \/ o.kind = "status" /\ o.to \notin NextStatus(rows.repo)
  \/ o.kind = "delete" /\ rows.repo = "none"

Open(t)     == call[t].at \in {"open", "left"}
Waiting(th) == \E t \in DOMAIN call : call[t].by = th /\ call[t].at = "open"
Rivals(o, p) == o.kind = p.kind \/ {o.kind, p.kind} = {"status", "delete"}
Overlaps(o)  == {o.kind : u \in {u \in DOMAIN call : Open(u) /\ Rivals(o, call[u].op)}}

BeginCall(th, t, o) ==
  /\ call[t].at = "unused" /\ \A u \in DOMAIN call : u < t => call[u].at # "unused"
  /\ ~Waiting(th) /\ o.kind \notin {"set", "server"}
  /\ call' = [call EXCEPT ![t] = [by |-> th, op |-> o, seen |-> Seen(o),
                                  at |-> IF Refused(o) THEN "raised" ELSE "open"]]
  /\ raced' = raced \cup Overlaps(o)
  /\ UNCHANGED <<menu, rows, settings, misread, troubles>>

\* The request's field over the settings that were loaded.
Merged(base, k, t) == [base EXCEPT ![k] = t]

\* An update loads the row, changes a field of it and saves the row.  A load that
\* fails is taken for a row that is not there.
LoadFailed == [k \in Keys |-> 0]

LoadThenSave(th, t, k, base, new) ==
  /\ call[t].at = "unused" /\ \A u \in DOMAIN call : u < t => call[u].at # "unused"
  /\ ~Waiting(th)
  /\ troubles' = (IF base = settings THEN troubles ELSE troubles + 1) /\ troubles' <= MaxTroubles
  /\ misread' = (misread \/ base # settings)
  /\ call' = [call EXCEPT ![t] = [by |-> th, op |-> [kind |-> "set", key |-> k], seen |-> new, at |-> "open"]]
  /\ raced' = raced \cup Overlaps([kind |-> "set"])
  /\ UNCHANGED <<menu, rows, settings>>

UpdateSettings(th, t, k) ==
  /\ [kind |-> "set", key |-> k] \in menu
  /\ \E base \in {settings, LoadFailed} : LoadThenSave(th, t, k, base, Merged(base, k, t))

\* The servers of the tool protocol are such a row: one is added, replaced or removed.
UpdateServers(th, t, k) ==
  /\ [kind |-> "server", key |-> k] \in menu
  /\ \E base \in {settings, LoadFailed} :
       \/ LoadThenSave(th, t, k, base, Merged(base, k, t))
       \/ base[k] # 0 /\ LoadThenSave(th, t, k, base, Merged(base, k, 0))

-----------------------------------------------------------------------------
(***************************************************************************)
(* A call writes and commits.                                                *)
(***************************************************************************)

\* The constraints of the tables: a row has its repository, and a key is there once.
Clashes(o, seen) ==
  \/ o.kind \in {"mark", "fail", "show", "save pending", "init"} /\ rows.repo = "none"
       /\ ~(o.kind = "save pending" /\ o.pieces = {})
  \/ o.kind = "create" /\ rows.repo # "none"
  \/ o.kind = "mark"   /\ seen = "none" /\ rows.files[o.path] # "none"
  \/ o.kind = "fail"   /\ seen = 0 /\ rows.failed[o.piece] > 0
  \/ o.kind = "show"   /\ ~seen /\ rows.live
  \/ o.kind = "init"   /\ rows.progress # -1
  \/ o.kind = "delete" /\ ~(Children \subseteq seen)

Does(t, kind) == Open(t) /\ call[t].op.kind = kind /\ ~Clashes(call[t].op, call[t].seen)

Commit(t, r) ==
  /\ rows' = r /\ call' = [call EXCEPT ![t].at = "done"]
  /\ UNCHANGED <<menu, settings, raced, misread, troubles>>

Op(t)   == call[t].op
Read(t) == call[t].seen

Create(t) == Does(t, "create") /\ Commit(t, [rows EXCEPT !.repo = "pending"])

UpdateStatus(t) ==
  Does(t, "status") /\ Commit(t, [rows EXCEPT !.repo = IF @ = "none" THEN @ ELSE Op(t).to])

Delete(t) == Does(t, "delete") /\ Commit(t, Fresh)

\* upsert: an update touches the row if it is still there.
Mark(t) ==
  /\ Does(t, "mark")
  /\ Commit(t, [rows EXCEPT !.files[Op(t).path] =
                  IF Read(t) # "none" /\ @ = "none" THEN @ ELSE Op(t).as])

ClearFiles(t) == Does(t, "clear files") /\ Commit(t, [rows EXCEPT !.files = Fresh.files])

\* Mutant: the chunks of earlier saves stay.
SavePendingAdds(t) ==
  Does(t, "save pending") /\ Commit(t, [rows EXCEPT !.pending = @ \cup Op(t).pieces])

\* The rows that were there when it began are deleted, its own are inserted.
SavePending(t) ==
  /\ Does(t, "save pending")
  /\ Commit(t, [rows EXCEPT !.pending = (@ \ Read(t)) \cup Op(t).pieces])

ClearPending(t) == Does(t, "clear pending") /\ Commit(t, [rows EXCEPT !.pending = {}])

SaveFailed(t) ==
  /\ Does(t, "fail")
  /\ Commit(t, [rows EXCEPT !.failed[Op(t).piece] =
                  IF Read(t) > 0 /\ @ = 0 THEN @ ELSE Read(t) + 1])

ClearFailed(t) == Does(t, "clear failed") /\ Commit(t, [rows EXCEPT !.failed = Fresh.failed])

InitProgress(t)  == Does(t, "init") /\ Commit(t, [rows EXCEPT !.progress = 0])
UpdateProgress(t) ==
  Does(t, "advance") /\ Commit(t, [rows EXCEPT !.progress = IF @ = -1 THEN @ ELSE t])
ClearProgress(t) == Does(t, "clear progress") /\ Commit(t, [rows EXCEPT !.progress = -1])
SaveLive(t)      == Does(t, "show") /\ Commit(t, [rows EXCEPT !.live = (~Read(t) \/ @)])
DeleteLive(t)    == Does(t, "hide") /\ Commit(t, [rows EXCEPT !.live = FALSE])

SaveSettings(t) ==
  /\ Does(t, "set") /\ settings' = Read(t)
  /\ call' = [call EXCEPT ![t].at = "done"]
  /\ UNCHANGED <<menu, rows, raced, misread, troubles>>

Violates(t) ==
  /\ Open(t) /\ Clashes(Op(t), Read(t))
  /\ call' = [call EXCEPT ![t].at = "raised"]
  /\ UNCHANGED <<menu, rows, settings, raced, misread, troubles>>

\* The connection is lost, or the database refuses.
Fails(t) ==
  /\ Open(t) /\ troubles < MaxTroubles /\ troubles' = troubles + 1
  /\ call' = [call EXCEPT ![t].at = "raised"]
  /\ UNCHANGED <<menu, rows, settings, raced, misread>>

\* future.result(timeout=30): the caller goes on, and so does the transaction.
TimesOut(t) ==
  /\ call[t].at = "open" /\ troubles < MaxTroubles /\ troubles' = troubles + 1
  /\ call' = [call EXCEPT ![t].at = "left"]
  /\ misread' = (misread \/ Op(t).kind = "set")
  /\ UNCHANGED <<menu, rows, settings, raced>>

MetadataNext ==
  \/ \E th \in Threads, t \in DOMAIN call :
       (\E o \in menu : BeginCall(th, t, o)) \/ (\E k \in Keys : UpdateSettings(th, t, k) \/ UpdateServers(th, t, k))
  \/ \E t \in DOMAIN call :
       \/ Create(t) \/ UpdateStatus(t) \/ Delete(t) \/ Mark(t) \/ ClearFiles(t)
       \/ SavePending(t) \/ ClearPending(t) \/ SaveFailed(t) \/ ClearFailed(t)
       \/ InitProgress(t) \/ UpdateProgress(t) \/ ClearProgress(t) \/ SaveLive(t) \/ DeleteLive(t)
       \/ SaveSettings(t) \/ Violates(t) \/ Fails(t) \/ TimesOut(t)

MetadataSpec == MetadataInit /\ [][MetadataNext]_metaVars

-----------------------------------------------------------------------------
(***************************************************************************)
(* Properties.                                                               *)
(***************************************************************************)

\* The stored status moves along the transitions update_status allows, unless two
\* status updates have overlapped, a call that was given up on among them: each has
\* checked the status it had read (update_status, _run).
StatusStepsValid ==
  {"status", "delete"} \cap raced = {} /\ rows'.repo # rows.repo =>
    \/ rows'.repo \in NextStatus(rows.repo) \cup {"none"}
    \/ rows.repo = "none" /\ rows'.repo = "pending"

\* The pending chunks are those of one save, although a save removes what it sees
\* and not what is there, unless two saves have overlapped (PendingChunksRepository.save).
PendingIsOneSave ==
  "save pending" \notin raced =>
    \/ rows.pending = {}
    \/ \E t \in DOMAIN call : call[t].at = "done" /\ Op(t).kind = "save pending" /\ rows.pending = Op(t).pieces

\* An update of the settings changes the field it names and no other, unless a load
\* before it failed or a save was given up on (update_settings, _load_extra_settings).
SettingsKept ==
  ~misread' /\ raced \cap {"set"} = {} =>
    \A k, l \in Keys : settings'[k] # settings[k] /\ settings'[l] # settings[l] => k = l

\* What no step breaks: the types, and what the tables hold after calls that overlap,
\* fail or are given up on.
MetadataKept == [][(MetadataTypeOK /\ PendingIsOneSave)' /\ StatusStepsValid /\ SettingsKept]_metaVars

=============================================================================
