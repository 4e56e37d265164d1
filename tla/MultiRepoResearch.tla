-------------------------- MODULE MultiRepoResearch --------------------------
(***************************************************************************)
(* Research over several repositories: MultiRepoOrchestrator                  *)
(* (websocket/handlers/multi_repo_orchestrator.py), the runner of one          *)
(* repository, the handler of the user's answers (research_dispatcher.py)      *)
(* and the pause the dashboard shows (useMultiRepoResearch.ts).                *)
(*                                                                          *)
(* The repositories run in levels, at most Limit at a time.  One that fails    *)
(* asks the user and keeps its place while it waits.  All coroutines share     *)
(* one event loop: an action is what runs between two awaits.                  *)
(***************************************************************************)
EXTENDS Integers, SequencesExt

CONSTANTS
  Repos,       \* the repositories of the request, at least two
  Topologies,  \* the sets of dependency edges <<source, target>> to research
  Limit,       \* multi_repo_concurrency_limit
  MaxRetries   \* bound of the model on the user's "retry" answers

None == "none"

HitlChoices == {"continue", "retry", "abort"}

ASSUME ResearchAssumption ==
  /\ IsFiniteSet(Repos) /\ None \notin Repos /\ Limit \in Nat \ {0} /\ MaxRetries \in Nat
  /\ \A deps \in Topologies : deps \subseteq Repos \X Repos

VARIABLES
  deps,        \* the dependency edges; none with the strategy parallel_merge
  placed,      \* the repositories of the levels so far, the one that runs included
  repo,        \* where each repository is
  registered,  \* hitl_events: the waiting repositories in the order of the dict
  isSet,       \* the events that are set
  choice,      \* session["hitl_choice"]
  status,      \* session["status"]
  findings,    \* the repositories with findings
  context,     \* the findings a repository was given
  stage,       \* levels, synthesis or ended
  shown,       \* the pause the dashboard shows
  answers,     \* answers on their way to the server
  retries      \* "retry" answers so far

vars == <<deps, placed, repo, registered, isSet, choice, status, findings, context,
          stage, shown, answers, retries>>

sessionVars == <<deps, placed, context, stage>>
userVars    == <<shown, answers, retries>>

Settled == {"done", "skipped", "aborted"}
Places  == {"idle", "queued", "running", "failed", "paused", "waiting"} \cup Settled

TypeOK ==
  /\ deps \in SUBSET (Repos \X Repos) /\ placed \subseteq Repos
  /\ repo \in [Repos -> Places]
  /\ registered \in Seq(Repos) /\ isSet \subseteq Repos
  /\ choice \in HitlChoices \cup {None}
  /\ status \in {"running", "complete", "error"}
  /\ findings \subseteq Repos /\ context \in [Repos -> SUBSET Repos]
  /\ stage \in {"levels", "synthesis", "ended"}
  /\ shown \in Repos \cup {None}
  /\ answers \in Seq(HitlChoices) /\ retries \in Nat

-----------------------------------------------------------------------------
(* The levels of _topological_levels.                                        *)

Sources(r) == {d \in Repos : <<d, r>> \in deps}

\* Mutant: a repository is ready when one of its sources has been placed.
ReadyEarly(P) == {r \in Repos \ P : Sources(r) = {} \/ Sources(r) \cap P # {}}

\* The level after the repositories P: the in-degree of one is zero when all
\* its sources have been placed.
Ready(P) == {r \in Repos \ P : Sources(r) \subseteq P}

\* Kahn's algorithm visits every repository: no set of repositories feeds itself.
Acyclic == \A S \in SUBSET Repos \ {{}} : \E r \in S : Sources(r) \cap S = {}

\* A cycle falls back to one level of all repositories.
FirstLevel == IF Acyclic THEN Ready({}) ELSE Repos

-----------------------------------------------------------------------------
\* async with self._semaphore: the whole of _run_repo_with_hitl.
Holding == {r \in Repos : repo[r] \in {"running", "failed", "paused", "waiting"}}

Init ==
  /\ deps \in Topologies /\ placed = FirstLevel
  /\ repo = [r \in Repos |-> IF r \in FirstLevel THEN "queued" ELSE "idle"]
  /\ registered = <<>> /\ isSet = {} /\ choice = None
  /\ status = "running" /\ findings = {} /\ context = [r \in Repos |-> {}]
  /\ stage = "levels" /\ shown = None /\ answers = <<>> /\ retries = 0

Moves(r, from, to) == repo[r] = from /\ repo' = [repo EXCEPT ![r] = to]

Acquire(r) ==
  /\ Cardinality(Holding) < Limit
  /\ Moves(r, "queued", "running")
  /\ UNCHANGED <<sessionVars, registered, isSet, choice, status, findings, userVars>>

\* The runner reports the research complete, the orchestrator keeps the findings.
Succeed(r) ==
  /\ Moves(r, "running", "done")
  /\ findings' = findings \cup {r} /\ status' = "complete"
  /\ UNCHANGED <<sessionVars, registered, isSet, choice, userVars>>

Fail(r) ==
  /\ Moves(r, "running", "failed")
  /\ status' = "error"
  /\ UNCHANGED <<sessionVars, registered, isSet, choice, findings, userVars>>

\* emit_hitl_pause: the dashboard shows one pause, the latest.
Pause(r) ==
  /\ Moves(r, "failed", "paused")
  /\ shown' = r
  /\ UNCHANGED <<sessionVars, registered, isSet, choice, status, findings, answers, retries>>

\* _wait_for_hitl puts its event into the session.
Register(r) ==
  /\ Moves(r, "paused", "waiting")
  /\ registered' = Append(registered, r)
  /\ UNCHANGED <<sessionVars, isSet, choice, status, findings, userVars>>

\* The dashboard sends the answer, which does not name the repository.
UserAnswers(c) ==
  /\ shown # None /\ shown' = None
  /\ c = "retry" => retries < MaxRetries
  /\ retries' = IF c = "retry" THEN retries + 1 ELSE retries
  /\ answers' = Append(answers, c)
  /\ UNCHANGED <<sessionVars, repo, registered, isSet, choice, status, findings>>

Unset == {i \in DOMAIN registered : registered[i] \notin isSet}

Signal(r) ==
  /\ isSet' = isSet \cup {r} /\ choice' = Head(answers)

\* handle_research_hitl_response: the first event that is not set is signalled.
HandleAnswer ==
  /\ answers # <<>> /\ answers' = Tail(answers)
  /\ \/ Unset = {} /\ UNCHANGED <<isSet, choice>>
     \/ \E i \in Unset : (\A j \in Unset : i <= j) /\ Signal(registered[i])
  /\ UNCHANGED <<sessionVars, repo, registered, status, findings, shown, retries>>

\* The event is taken out of the session.
Unregister(r) ==
  /\ \E i \in DOMAIN registered : registered[i] = r /\ registered' = RemoveAt(registered, i)
  /\ isSet' = isSet \ {r}

\* The waiting repository wakes up and reads the choice of the session.
Wake(r) ==
  /\ repo[r] = "waiting" /\ r \in isSet
  /\ Unregister(r)
  /\ repo' = [repo EXCEPT ![r] = CASE choice = "retry" -> "running"
                                   [] choice = "abort" -> "aborted"
                                   [] choice = "continue" -> "skipped"]
  /\ status' = IF choice = "abort" THEN "error" ELSE status
  /\ UNCHANGED <<sessionVars, choice, findings, userVars>>

\* Mutant: the timeout counts only while the dashboard shows the pause.
TimeoutOfShown(r) ==
  /\ repo[r] = "waiting" /\ r \notin isSet /\ shown = r
  /\ Unregister(r)
  /\ repo' = [repo EXCEPT ![r] = "skipped"]
  /\ UNCHANGED <<sessionVars, choice, status, findings, userVars>>

\* Nobody answered for half an hour.
Timeout(r) ==
  /\ repo[r] = "waiting" /\ r \notin isSet
  /\ Unregister(r)
  /\ repo' = [repo EXCEPT ![r] = "skipped"]
  /\ UNCHANGED <<sessionVars, choice, status, findings, userVars>>

\* asyncio.gather returns, whatever became of the repositories.
LevelEnded == \A r \in placed : repo[r] \in Settled

NextLevel ==
  /\ stage = "levels" /\ LevelEnded /\ placed # Repos
  /\ placed' = placed \cup Ready(placed)
  /\ repo' = [r \in Repos |-> IF r \in Ready(placed) THEN "queued" ELSE repo[r]]
  /\ context' = [r \in Repos |-> IF r \in Ready(placed) THEN findings ELSE context[r]]
  /\ UNCHANGED <<deps, stage, registered, isSet, choice, status, findings, userVars>>

AllFailed ==
  /\ stage = "levels" /\ LevelEnded /\ placed = Repos /\ findings = {}
  /\ stage' = "ended" /\ status' = "error"
  /\ UNCHANGED <<deps, placed, context, repo, registered, isSet, choice, findings, userVars>>

StartSynthesis ==
  /\ stage = "levels" /\ LevelEnded /\ placed = Repos /\ findings # {}
  /\ stage' = "synthesis"
  /\ UNCHANGED <<deps, placed, context, repo, registered, isSet, choice, status, findings,
                 userVars>>

\* The research completes also when the synthesis raises, or the user aborted.
FinishSynthesis ==
  /\ stage = "synthesis"
  /\ stage' = "ended" /\ status' = "complete"
  /\ UNCHANGED <<deps, placed, context, repo, registered, isSet, choice, findings, userVars>>

RepoStep == \E r \in Repos : \/ Acquire(r) \/ Succeed(r) \/ Fail(r) \/ Pause(r)
                             \/ Register(r) \/ Wake(r) \/ Timeout(r)

ServerStep == \/ RepoStep \/ HandleAnswer \/ NextLevel \/ AllFailed \/ StartSynthesis
              \/ FinishSynthesis

User == \E c \in HitlChoices : UserAnswers(c)

\* The research has ended; the user may still answer a pause that is shown.
Ended == stage = "ended" /\ UNCHANGED vars

Next == ServerStep \/ User \/ Ended

Spec == Init /\ [][Next]_vars

\* The event loop runs what is ready, and a wait times out; nothing obliges the
\* user.
FairSpec == Spec /\ WF_vars(ServerStep)

-----------------------------------------------------------------------------
(* Properties.                                                               *)

Started(r) == repo[r] \notin {"idle", "queued"}

\* With the dependency-aware strategy a repository starts when everything it
\* depends on has been dealt with, and is given what was found there; skips,
\* retries, aborts and timeouts of others included.
DependenciesFirst ==
  Acyclic => \A r \in Repos : Started(r) =>
    \A d \in Sources(r) : repo[d] \in Settled /\ (d \in findings => d \in context[r])

\* At most Limit repositories are researched or wait for the user (_semaphore),
\* and no repository waits without an event the handler can set.
SlotsKept ==
  /\ Cardinality({r \in Repos : repo[r] \in {"running", "failed", "paused", "waiting"}}) <= Limit
  /\ {registered[i] : i \in DOMAIN registered} = {r \in Repos : repo[r] = "waiting"}

\* The status that the runners of all repositories and the orchestrator write in
\* turn is right in the end: complete exactly when there are findings.
EndStatus ==
  /\ stage = "ended" => (status = "complete" <=> findings # {}) /\ status # "running"
  /\ stage # "levels" => \A r \in Repos : repo[r] \in Settled

\* The research ends although the user may never answer, and several
\* repositories may wait with every place taken.
Terminates == <>(stage = "ended")

\* What holds at every moment of a research: typed variables, the order of the levels, the
\* places, and the status of the session.
ResearchInv == TypeOK /\ DependenciesFirst /\ SlotsKept /\ EndStatus

=============================================================================
