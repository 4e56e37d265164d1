---------------------------- MODULE MCServices ----------------------------
(***************************************************************************)
(* The small instances of the services around the workflows, checked           *)
(* together: a behaviour is one of one part, the others rest in an initial      *)
(* state.  The fairness is that of the part that moves.                          *)
(***************************************************************************)
EXTENDS Metadata, Library, Workflows, PlanPanel, ChatPanel, ChatRelay, Startup

VARIABLE part   \* the part that moves

partVars == <<part, metaVars, libVars, flowVars, panelVars, relayVars, chatVars, startVars>>

\* What the threads call: menus small enough to let every two of their calls overlap.
MCMenus ==
  { {[kind |-> "status", to |-> s] : s \in {"indexing", "ready", "error"}} \cup [kind : {"create", "delete"}],
    {[kind |-> "save pending", pieces |-> {c}] : c \in Pieces} \cup [kind : {"clear pending", "delete"}],
    [kind : {"fail"}, piece : Pieces] \cup [kind : {"clear failed", "delete"}],
    [kind : {"mark"}, path : Paths, as : {"completed", "failed"}] \cup [kind : {"clear files", "delete"}],
    ProgressCalls,
    SettingCalls }

\* Uploads under one name: plain, forced, of a binary file, and one whose search fails.
Upload(isText, forced, searches) == [name |-> "n", text |-> isText, force |-> forced, search |-> searches]
MCFiles == {Upload(TRUE, FALSE, TRUE), Upload(TRUE, TRUE, TRUE), Upload(FALSE, FALSE, TRUE), Upload(TRUE, FALSE, FALSE)}

Init ==
  /\ part \in {"metadata", "library", "workflows", "panel", "relay", "chat", "startup"}
  /\ PanelInit /\ RelayInit /\ StartupInit
  /\ IF part = "metadata" THEN MetadataInit
     ELSE /\ menu = SettingCalls /\ rows = Fresh /\ settings = [k \in Keys |-> 0]
          /\ call = [t \in 1..MaxCalls |-> Unused] /\ raced = {} /\ misread = FALSE /\ troubles = 0
  /\ IF part = "library" THEN LibraryInit
     ELSE /\ index = [u \in Uploads |-> Absent] /\ blobs = {} /\ stored = {} /\ excused = {} /\ mishaps = 0
          /\ upload = [u \in Uploads |-> [file |-> Upload(TRUE, FALSE, TRUE), at |-> "new", blob |-> "none"]]
          /\ erase = [e \in Erasers |-> [at |-> "new", todo |-> {}]] /\ backend = "local"
  /\ IF part = "workflows" THEN WorkflowsInit
     ELSE /\ online = {} /\ record = [f \in Flows |-> "none"] /\ owner = [f \in Flows |-> Nobody]
          /\ flow = [f \in Flows |-> [kind |-> "agent", client |-> Nobody, at |-> "none", reports |-> 0, retried |-> FALSE]]
          /\ queue = [f \in Flows |-> <<>>] /\ checkout = NoCheckout
          /\ overlapped = {} /\ cancels = {} /\ commands = 0
  /\ ChatInit /\ active = CHOOSE c \in ChatIds : TRUE   \* the chats are alike

Next ==
  /\ UNCHANGED part
  /\ \/ part = "metadata"  /\ MetadataNext  /\ UNCHANGED <<libVars, flowVars, panelVars, relayVars, chatVars, startVars>>
     \/ part = "library"   /\ LibraryNext   /\ UNCHANGED <<metaVars, flowVars, panelVars, relayVars, chatVars, startVars>>
     \/ part = "workflows" /\ WorkflowsNext /\ UNCHANGED <<metaVars, libVars, panelVars, relayVars, chatVars, startVars>>
     \/ part = "panel"     /\ PanelNext     /\ UNCHANGED <<metaVars, libVars, flowVars, relayVars, chatVars, startVars>>
     \/ part = "relay"     /\ RelayNext     /\ UNCHANGED <<metaVars, libVars, flowVars, panelVars, chatVars, startVars>>
     \/ part = "chat"      /\ ChatNext      /\ UNCHANGED <<metaVars, libVars, flowVars, panelVars, relayVars, startVars>>
     \/ part = "startup"   /\ StartupNext   /\ UNCHANGED <<metaVars, libVars, flowVars, panelVars, relayVars, chatVars>>

Spec == Init /\ [][Next]_partVars /\ \A f \in Flows : WF_flowVars(part = "workflows" /\ Runs(f))
=============================================================================
