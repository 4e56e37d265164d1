------------------------------ MODULE Startup -------------------------------
(***************************************************************************)
(* The life of the application (main.py) and of the one facade behind which its    *)
(* stores, adapters, services and tools are (graph_kb/facade.py, dependencies.py). *)
(*                                                                          *)
(* The facade is built when the application starts and, when that failed, by any     *)
(* request that needs it: such requests run in threads of a pool, without a lock,    *)
(* and each builds all layers anew.  A layer is written at once here, except that    *)
(* the graph store is there while its health check is awaited.  The singleton itself   *)
(* exists from the first attempt on, before there are threads.                        *)
(***************************************************************************)
EXTENDS Naturals

CONSTANT Requests   \* the requests that need the facade

ASSUME StartupAssumption == {"startup", "shutdown"} \cap Requests = {}

Seekers == Requests \cup {"startup", "shutdown"}
Layers  == {"graph", "stores", "adapters", "services", "tools"}

VARIABLES
  app,      \* the application: starting, running, stopping, closing, stopped
  maker,    \* whether there is a session factory (_async_session_maker)
  layer,    \* for each layer of the facade, the attempts whose stores it rests on
  whole,    \* _initialized
  given,    \* _facade_instance is set
  error,    \* _facade_error is set
  seeker,   \* who needs the facade: where they are, failed tries, attempt, what they found
  attempts, \* attempts to build the facade so far
  mixed     \* two attempts ran at the same time

startVars == <<app, maker, layer, whole, given, error, seeker, attempts, mixed>>

Building == Layers \cup {"flag"}
Tries(s) == IF s = "startup" THEN 1 ELSE 2

StartupTypeOK ==
  /\ app \in {"starting", "running", "stopping", "closing", "stopped"}
  /\ {maker, whole, given, error, mixed} \subseteq BOOLEAN
  /\ layer \in [Layers -> SUBSET Nat]
  /\ seeker \in [Seekers -> [at : {"new", "set", "given", "refused"} \cup Building, failed : 0..2,
                             attempt : Nat, found : SUBSET Nat]]
  /\ attempts \in Nat

StartupInit ==
  /\ app = "starting" /\ maker = FALSE
  /\ layer = [l \in Layers |-> {}] /\ whole = FALSE /\ given = FALSE /\ error = FALSE
  /\ seeker = [s \in Seekers |-> [at |-> "new", failed |-> 0, attempt |-> 0, found |-> {}]]
  /\ attempts = 0 /\ mixed = FALSE

-----------------------------------------------------------------------------
(***************************************************************************)
(* The database.                                                             *)
(***************************************************************************)

MakeFactory == maker' = TRUE

\* The engine and its factory are made before the connection is tried, and stay if
\* that fails; without an address there is neither.
InitDatabase ==
  /\ app = "starting" /\ ~maker /\ MakeFactory
  /\ UNCHANGED <<app, layer, whole, given, error, seeker, attempts, mixed>>

-----------------------------------------------------------------------------
(***************************************************************************)
(* Building the facade, one attempt of one seeker.                                *)
(***************************************************************************)

MayAsk(s) == CASE s = "startup"  -> app = "starting"
               [] s = "shutdown" -> app = "closing"
               [] OTHER          -> app = "running"

Advance(s, where) == seeker' = [seeker EXCEPT ![s].at = where]
Resting        == UNCHANGED <<app, given, error, attempts, mixed>>

\* Everything the facade's layers rest on.
RestsOn == UNION {layer[l] : l \in Layers}

\* Whoever asks gets the facade if it was given before, or builds it if it is not whole.
Ask(s) ==
  /\ seeker[s].at = "new" /\ MayAsk(s)
  /\ \/ /\ given /\ seeker' = [seeker EXCEPT ![s].at = "given", ![s].found = RestsOn]
        /\ UNCHANGED <<attempts, mixed>>
     \/ /\ ~given /\ whole /\ Advance(s, "set")
        /\ UNCHANGED <<attempts, mixed>>
     \/ /\ ~given /\ ~whole /\ attempts' = attempts + 1
        /\ seeker' = [seeker EXCEPT ![s].at = "graph", ![s].attempt = attempts + 1]
        /\ mixed' = (mixed \/ \E o \in Seekers \ {s} : seeker[o].at \in Building)
  /\ UNCHANGED <<app, maker, layer, whole, given, error>>

Build(s, l, on, next) ==
  /\ seeker[s].at = l /\ layer' = [layer EXCEPT ![l] = on] /\ Advance(s, next)
  /\ UNCHANGED whole /\ Resting

\* A failing health check is logged and no more.
BuildGraph(s) == Build(s, "graph", {seeker[s].attempt}, "stores") /\ UNCHANGED maker

\* The factory of the sessions is made here if it is missing.
BuildStores(s) == Build(s, "stores", {seeker[s].attempt}, "adapters") /\ MakeFactory

\* Mutant: adapters that are there are kept.
BuildAdaptersOnce(s) ==
  Build(s, "adapters", IF layer["adapters"] = {} THEN layer["graph"] \cup layer["stores"] ELSE layer["adapters"], "services")
    /\ UNCHANGED maker

\* Each layer is handed what the layers below hold at that moment, whoever built them.
BuildAdapters(s) == Build(s, "adapters", layer["graph"] \cup layer["stores"], "services") /\ UNCHANGED maker

BuildServices(s) ==
  Build(s, "services", layer["graph"] \cup layer["stores"] \cup layer["adapters"], "tools") /\ UNCHANGED maker

BuildTools(s) == Build(s, "tools", layer["services"] \cup layer["adapters"], "flag") /\ UNCHANGED maker

MarkWhole(s) ==
  /\ seeker[s].at = "flag" /\ whole' = TRUE /\ Advance(s, "set")
  /\ UNCHANGED <<maker, layer>> /\ Resting

Give(s) ==
  /\ seeker[s].at = "set" /\ given' = TRUE /\ error' = FALSE
  /\ seeker' = [seeker EXCEPT ![s].at = "given", ![s].found = RestsOn]
  /\ UNCHANGED <<app, maker, layer, whole, attempts, mixed>>

\* What was built stays.  A request and the shutdown try once more.
BuildFails(s) ==
  /\ seeker[s].at \in Layers /\ error' = TRUE
  /\ seeker' = [seeker EXCEPT ![s].failed = @ + 1, ![s].at = IF seeker[s].failed + 1 < Tries(s) THEN "new" ELSE "refused"]
  /\ maker' \in {maker, maker \/ seeker[s].at = "stores"}
  /\ UNCHANGED <<app, layer, whole, given, attempts, mixed>>

-----------------------------------------------------------------------------
(***************************************************************************)
(* The application.                                                           *)
(***************************************************************************)

\* What the health checks call available.
Available == given /\ whole

\* What the dependencies of the requests assert.
Served == \A l \in Layers : layer[l] # {}

Through(s) == seeker[s].at \in {"given", "refused"}

\* It serves requests whether or not the facade was built.
Serve ==
  /\ app = "starting" /\ Through("startup") /\ app' = "running"
  /\ UNCHANGED <<maker, layer, whole, given, error, seeker, attempts, mixed>>

\* The server waits for the requests that it has taken.
Stop ==
  /\ app = "running" /\ \A r \in Requests : Through(r) \/ (seeker[r].at = "new" /\ seeker[r].failed = 0)
  /\ app' = "stopping"
  /\ UNCHANGED <<maker, layer, whole, given, error, seeker, attempts, mixed>>

\* The engine is disposed of; the factory stays, for the name that is reset is a local
\* one.  If this raises, the facade is not asked for.
CloseDatabase ==
  /\ app = "stopping" /\ app' \in {"closing", "stopped"}
  /\ UNCHANGED <<maker, layer, whole, given, error, seeker, attempts, mixed>>

\* The graph store is closed, of a facade that is built for that if there was none.
CloseFacade ==
  /\ app = "closing" /\ Through("shutdown") /\ app' = "stopped"
  /\ UNCHANGED <<maker, layer, whole, given, error, seeker, attempts, mixed>>

StartupNext ==
  \/ InitDatabase \/ Serve \/ Stop \/ CloseDatabase \/ CloseFacade
  \/ \E s \in Seekers : \/ Ask(s) \/ BuildGraph(s) \/ BuildStores(s) \/ BuildAdapters(s) \/ BuildServices(s)
                        \/ BuildTools(s) \/ MarkWhole(s) \/ Give(s) \/ BuildFails(s)

StartupSpec == StartupInit /\ [][StartupNext]_startVars

-----------------------------------------------------------------------------
(***************************************************************************)
(* Properties.                                                               *)
(***************************************************************************)

\* Whoever was given the facade finds every layer and the sessions, also while others still
\* build and whatever of theirs fails: no assertion of the service dependencies fails
\* (GraphKBFacade.initialize, get_graph_kb_facade).
GivenIsWhole == given \/ (\E s \in Seekers : seeker[s].at = "given") => maker /\ Served

\* Without two attempts at the same time all layers rest on one set of stores, whatever earlier
\* attempts left behind, and they are those that everybody found who was given the facade
\* ("ensures all commands and tools share the same service instances", GraphKBFacade).
OneSetOfStores ==
  whole /\ ~mixed =>
    /\ \E n \in 1..attempts : RestsOn = {n}
    /\ \A s \in Seekers : seeker[s].at = "given" => seeker[s].found = RestsOn

\* Without two attempts at the same time no error is reported of a facade that is available
\* (_init_facade, api_health_check).
NoOldError == Available /\ ~mixed => ~error

\* What the facade is for those who ask for it.
StartupInv == StartupTypeOK /\ GivenIsWhole /\ OneSetOfStores /\ NoOldError

=============================================================================
