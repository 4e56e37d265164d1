----------------------- MODULE MultiRepoResearch_proofs -----------------------
(***************************************************************************)
(* Proofs that research over several repositories keeps its safety           *)
(* invariants, for every set of repositories, every set of dependency edges   *)
(* and every number of places.                                                *)
(***************************************************************************)
EXTENDS MultiRepoResearch, TLAPS, FiniteSetTheorems, SequenceTheorems

-----------------------------------------------------------------------------
(* Type correctness.                                                         *)

LEMMA ConstantTypes ==
  /\ IsFiniteSet(Repos) /\ None \notin Repos /\ Limit \in Nat \ {0} /\ MaxRetries \in Nat
  /\ \A edges \in Topologies : edges \subseteq Repos \X Repos
  BY ResearchAssumption DEF ResearchAssumption

\* Taking the entry i out of a sequence without repetitions leaves the others.
LEMMA RemoveAtOthers ==
  ASSUME NEW s \in Seq(Repos), NEW i \in DOMAIN s,
         \A j, k \in DOMAIN s : s[j] = s[k] => j = k
  PROVE  /\ RemoveAt(s, i) \in Seq(Repos)
         /\ \A r : (\E k \in DOMAIN RemoveAt(s, i) : RemoveAt(s, i)[k] = r)
                   <=> r # s[i] /\ \E k \in DOMAIN s : s[k] = r
         /\ \A j, k \in DOMAIN RemoveAt(s, i) :
               RemoveAt(s, i)[j] = RemoveAt(s, i)[k] => j = k
  <1> DEFINE t == RemoveAt(s, i)
  <1>1. /\ Len(s) \in Nat /\ DOMAIN s = 1 .. Len(s) /\ i \in 1 .. Len(s)
    OBVIOUS
  <1>2. /\ t \in Seq(Repos) /\ Len(t) = Len(s) - 1 /\ DOMAIN t = 1 .. Len(s) - 1
        /\ \A k \in 1 .. Len(s) - 1 : t[k] = IF k < i THEN s[k] ELSE s[k + 1]
    <2> DEFINE u == SubSeq(s, 1, i - 1)
               v == SubSeq(s, i + 1, Len(s))
    <2>1. /\ u \in Seq(Repos) /\ Len(u) = i - 1
          /\ \A k \in 1 .. i - 1 : u[k] = s[k]
      <3>1. \A k \in 1 .. i - 1 : s[k] \in Repos
        BY <1>1
      <3> QED
        BY <1>1, <3>1, SubSeqProperties
    <2>2. /\ v \in Seq(Repos) /\ Len(v) = Len(s) - i
          /\ \A k \in 1 .. Len(s) - i : v[k] = s[i + k]
      <3>1. \A k \in i + 1 .. Len(s) : s[k] \in Repos
        BY <1>1
      <3>2. /\ v \in Seq(Repos) /\ Len(v) = IF i + 1 <= Len(s) THEN Len(s) - (i + 1) + 1 ELSE 0
            /\ \A k \in 1 .. Len(s) - (i + 1) + 1 : v[k] = s[i + 1 + k - 1]
        BY <1>1, <3>1, SubSeqProperties
      <3> QED
        BY <1>1, <3>2
    <2>3. t = u \o v
      BY DEF RemoveAt
    <2> HIDE DEF t, u, v
    <2>4. /\ t \in Seq(Repos) /\ Len(t) = Len(s) - 1 /\ DOMAIN t = 1 .. Len(s) - 1
          /\ \A k \in 1 .. Len(s) - 1 : t[k] = IF k < i THEN u[k] ELSE v[k - (i - 1)]
      <3>1. /\ t \in Seq(Repos) /\ Len(t) = Len(u) + Len(v)
            /\ \A k \in 1 .. Len(u) + Len(v) : t[k] = IF k <= Len(u) THEN u[k] ELSE v[k - Len(u)]
        <4>1. u \in Seq(Repos) /\ v \in Seq(Repos)
          BY <2>1, <2>2
        <4>2. /\ u \o v \in Seq(Repos) /\ Len(u \o v) = Len(u) + Len(v)
              /\ \A k \in 1 .. Len(u) + Len(v) :
                    (u \o v)[k] = IF k <= Len(u) THEN u[k] ELSE v[k - Len(u)]
          BY <4>1, ConcatProperties
        <4> QED
          BY <2>3, <4>2
      <3> QED
        BY <1>1, <2>1, <2>2, <3>1
    <2>5. ASSUME NEW k \in 1 .. Len(s) - 1, ~(k < i)
          PROVE  v[k - (i - 1)] = s[k + 1]
      <3>1. k - (i - 1) \in 1 .. Len(s) - i /\ i + (k - (i - 1)) = k + 1
        BY <1>1, <2>5
      <3> QED
        BY <2>2, <3>1
    <2> QED
      BY <1>1, <2>1, <2>4, <2>5
  <1> HIDE DEF t
  <1>3. ASSUME NEW r
        PROVE  (\E k \in DOMAIN t : t[k] = r) <=> r # s[i] /\ \E k \in DOMAIN s : s[k] = r
    <2>1. ASSUME NEW k \in DOMAIN t, t[k] = r
          PROVE  r # s[i] /\ \E j \in DOMAIN s : s[j] = r
      <3>1. k \in 1 .. Len(s) - 1 /\ k \in DOMAIN s /\ k + 1 \in DOMAIN s
        BY <1>1, <1>2
      <3>2. CASE k < i
        BY <1>1, <1>2, <2>1, <3>1, <3>2
      <3>3. CASE ~(k < i)
        <4>1. s[k + 1] = r /\ k + 1 # i
          BY <1>1, <1>2, <2>1, <3>1, <3>3
        <4> QED
          BY <3>1, <4>1
      <3> QED
        BY <3>2, <3>3
    <2>2. ASSUME r # s[i], NEW k \in DOMAIN s, s[k] = r
          PROVE  \E j \in DOMAIN t : t[j] = r
      <3>1. CASE k < i
        BY <1>1, <1>2, <2>2, <3>1
      <3>2. CASE ~(k < i)
        <4>1. k # i /\ k - 1 \in DOMAIN t /\ ~(k - 1 < i) /\ (k - 1) + 1 = k
          BY <1>1, <1>2, <2>2, <3>2
        <4> QED
          BY <1>2, <2>2, <4>1
      <3> QED
        BY <3>1, <3>2
    <2> QED
      BY <2>1, <2>2
  <1>4. ASSUME NEW j \in DOMAIN t, NEW k \in DOMAIN t, t[j] = t[k]
        PROVE  j = k
    <2> DEFINE at(n) == IF n < i THEN n ELSE n + 1
    <2>0. /\ j \in 1 .. Len(s) - 1 /\ k \in 1 .. Len(s) - 1
          /\ t[j] = s[at(j)] /\ t[k] = s[at(k)]
      BY <1>2
    <2>1. at(j) \in DOMAIN s /\ at(k) \in DOMAIN s
      BY <2>0, <1>1, <1>2
    <2>2. s[at(j)] = s[at(k)]
      BY <2>0, <1>4
    <2>3. at(j) = at(k)
      BY <2>1, <2>2
    <2> QED
      BY <1>1, <2>0, <2>3
  <1> QED
    BY <1>2, <1>3, <1>4 DEF t

\* The choice a waiting repository reads has been made.
Chosen == isSet # {} => choice \in HitlChoices

LEMMA InitTypeOK == Init => TypeOK /\ Chosen
  <1> SUFFICES ASSUME Init PROVE TypeOK /\ Chosen
    OBVIOUS
  <1>1. deps \in SUBSET (Repos \X Repos)
    BY ConstantTypes DEF Init
  <1>2. placed \subseteq Repos
    BY DEF Init, FirstLevel, Ready
  <1> QED
    BY <1>1, <1>2 DEF Init, TypeOK, Places, Chosen

LEMMA StepTypeOK == TypeOK /\ Chosen /\ [Next]_vars => TypeOK' /\ Chosen'
  <1> SUFFICES ASSUME TypeOK, Chosen, [Next]_vars PROVE TypeOK' /\ Chosen'
    OBVIOUS
  <1> USE DEF TypeOK, Chosen, Places, Settled, sessionVars, userVars
  <1>1. CASE \E r \in Repos : Acquire(r)
    BY <1>1 DEF Acquire, Moves
  <1>2. CASE \E r \in Repos : Succeed(r)
    BY <1>2 DEF Succeed, Moves
  <1>3. CASE \E r \in Repos : Fail(r)
    BY <1>3 DEF Fail, Moves
  <1>4. CASE \E r \in Repos : Pause(r)
    BY <1>4 DEF Pause, Moves
  <1>5. CASE \E r \in Repos : Register(r)
    BY <1>5 DEF Register, Moves
  <1>6. ASSUME NEW r \in Repos, Unregister(r)
        PROVE  registered' \in Seq(Repos) /\ isSet' \subseteq Repos /\ isSet' \subseteq isSet
    BY <1>6 DEF Unregister, RemoveAt
  <1>7. ASSUME NEW r \in Repos, Wake(r) PROVE TypeOK' /\ Chosen'
    <2>1. choice \in HitlChoices
      BY <1>7 DEF Wake
    <2>2. repo' \in [Repos -> Places]
      BY <1>7, <2>1 DEF Wake, HitlChoices
    <2> QED
      BY <1>6, <1>7, <2>1, <2>2 DEF Wake
  <1>8. ASSUME NEW r \in Repos, Timeout(r) PROVE TypeOK' /\ Chosen'
    BY <1>6, <1>8 DEF Timeout
  <1>9. CASE HandleAnswer
    <2>1. answers' \in Seq(HitlChoices)
      BY <1>9 DEF HandleAnswer
    <2>2. Head(answers) \in HitlChoices
      BY <1>9, HeadTailProperties DEF HandleAnswer
    <2>3. CASE UNCHANGED <<isSet, choice>>
      BY <1>9, <2>1, <2>3 DEF HandleAnswer
    <2>4. ASSUME NEW i \in Unset, Signal(registered[i])
          PROVE  TypeOK' /\ Chosen'
      <3>1. registered[i] \in Repos
        BY DEF Unset
      <3>2. isSet' \subseteq Repos /\ choice' \in HitlChoices
        BY <2>2, <2>4, <3>1 DEF Signal
      <3> QED
        BY <1>9, <2>1, <3>2 DEF HandleAnswer
    <2> QED
      BY <1>9, <2>3, <2>4 DEF HandleAnswer
  <1>10. CASE NextLevel
    BY <1>10 DEF NextLevel, Ready
  <1>11. CASE AllFailed \/ StartSynthesis \/ FinishSynthesis
    BY <1>11 DEF AllFailed, StartSynthesis, FinishSynthesis
  <1>12. CASE User
    BY <1>12 DEF User, UserAnswers
  <1>13. CASE UNCHANGED vars
    BY <1>13 DEF vars
  <1> QED
    BY <1>1, <1>2, <1>3, <1>4, <1>5, <1>7, <1>8, <1>9, <1>10, <1>11, <1>12, <1>13
    DEF Next, ServerStep, RepoStep, Ended

\* Every variable keeps its type.
THEOREM TypeCorrect == Spec => []TypeOK
  <1>1. Spec => [](TypeOK /\ Chosen)
    BY InitTypeOK, StepTypeOK, PTL DEF Spec
  <1> QED
    BY <1>1, PTL

-----------------------------------------------------------------------------
(* The order of the levels.                                                  *)

\* A repository of no level yet is idle; when one is placed its sources have
\* been dealt with, for good, and it knows what was found there.
Order ==
  /\ \A r \in Repos \ placed : repo[r] = "idle"
  /\ Acyclic => \A r \in placed : \A d \in Sources(r) :
       repo[d] \in Settled /\ (d \in findings => d \in context[r])

LEMMA InitOrder == Init => Order
  BY DEF Init, Order, FirstLevel, Ready

LEMMA StepOrder == TypeOK /\ Chosen /\ Order /\ [Next]_vars => Order'
  <1> SUFFICES ASSUME TypeOK, Chosen, Order, [Next]_vars PROVE Order'
    OBVIOUS
  <1>t. /\ placed \subseteq Repos /\ repo \in [Repos -> Places] /\ findings \subseteq Repos
        /\ context \in [Repos -> SUBSET Repos]
    BY DEF TypeOK
  <1>d. deps' = deps
    BY DEF Next, ServerStep, RepoStep, Acquire, Succeed, Fail, Pause, Register, Wake, Timeout,
           HandleAnswer, NextLevel, AllFailed, StartSynthesis, FinishSynthesis, User,
           UserAnswers, Ended, vars, sessionVars
  <1>a. /\ \A r : Sources(r)' = Sources(r)
        /\ Acyclic' <=> Acyclic
    BY <1>d DEF Sources, Acyclic
  <1> USE DEF Order
  \* A repository on its way is neither idle nor settled; the others keep their place.
  <1>1. ASSUME NEW r \in Repos, repo[r] # "idle", repo[r] \notin Settled,
               NEW to, repo' = [repo EXCEPT ![r] = to],
               findings' = findings \/ findings' = findings \cup {r},
               UNCHANGED <<placed, context>>
        PROVE  Order'
    <2>1. \A q \in Repos \ placed : repo'[q] = "idle"
      BY <1>1, <1>t
    <2>2. ASSUME Acyclic, NEW q \in placed, NEW d \in Sources(q)
          PROVE  repo'[d] \in Settled /\ (d \in findings' => d \in context[q])
      <3>1. d \in Repos /\ repo[d] \in Settled /\ d # r /\ (d \in findings => d \in context[q])
        BY <1>1, <2>2 DEF Sources
      <3> QED
        BY <1>1, <1>t, <3>1
    <2> QED
      BY <1>1, <1>a, <2>1, <2>2
  <1>2. CASE \E r \in Repos : Acquire(r) \/ Succeed(r) \/ Fail(r) \/ Pause(r) \/ Register(r)
    BY <1>1, <1>2 DEF Acquire, Succeed, Fail, Pause, Register, Moves, sessionVars, Settled
  <1>3. CASE \E r \in Repos : Wake(r) \/ Timeout(r)
    BY <1>1, <1>3 DEF Wake, Timeout, sessionVars, Settled
  <1>4. CASE HandleAnswer \/ AllFailed \/ StartSynthesis \/ FinishSynthesis \/ User
             \/ UNCHANGED vars
    <2>1. UNCHANGED <<repo, placed, findings, context>>
      BY <1>4 DEF HandleAnswer, AllFailed, StartSynthesis, FinishSynthesis, User, UserAnswers,
                  vars, sessionVars
    <2> QED
      BY <2>1, <1>a
  <1>5. CASE NextLevel
    <2>1. /\ placed' = placed \cup Ready(placed) /\ findings' = findings
          /\ repo' = [q \in Repos |-> IF q \in Ready(placed) THEN "queued" ELSE repo[q]]
          /\ context' = [q \in Repos |-> IF q \in Ready(placed) THEN findings ELSE context[q]]
          /\ \A q \in placed : repo[q] \in Settled
      BY <1>5 DEF NextLevel, LevelEnded
    <2>2. \A q \in Ready(placed) : q \in Repos \ placed /\ Sources(q) \subseteq placed
      BY DEF Ready
    <2>3. \A q \in placed : q \notin Ready(placed) /\ repo'[q] = repo[q] /\ context'[q] = context[q]
      BY <2>1, <2>2, <1>t
    <2>4. \A q \in Repos \ placed' : repo'[q] = "idle"
      BY <2>1, <1>t
    <2>5. ASSUME Acyclic, NEW q \in placed, NEW d \in Sources(q)
          PROVE  repo'[d] \in Settled /\ (d \in findings => d \in context'[q])
      <3>1. d \in Repos /\ repo[d] \in Settled /\ (d \in findings => d \in context[q])
        BY <2>5 DEF Sources
      <3>2. d \in placed
        BY <3>1 DEF Settled
      <3> QED
        BY <2>3, <3>1, <3>2
    <2>6. ASSUME NEW q \in Ready(placed), NEW d \in Sources(q)
          PROVE  repo'[d] \in Settled /\ (d \in findings => d \in context'[q])
      BY <2>1, <2>2, <2>3
    <2> QED
      BY <1>a, <2>1, <2>4, <2>5, <2>6
  <1> QED
    BY <1>2, <1>3, <1>4, <1>5 DEF Next, ServerStep, RepoStep, Ended

-----------------------------------------------------------------------------
(* The dict of events.                                                       *)

\* The repositories with an event are those that wait, each once, and only they
\* can have been signalled.
Waits ==
  /\ \A r \in Repos : repo[r] = "waiting" <=> \E i \in DOMAIN registered : registered[i] = r
  /\ \A i, j \in DOMAIN registered : registered[i] = registered[j] => i = j

LEMMA InitWaits == Init => Waits
  BY DEF Init, Waits

LEMMA StepWaits == TypeOK /\ Chosen /\ Order /\ Waits /\ [Next]_vars => Waits'
  <1> SUFFICES ASSUME TypeOK, Chosen, Order, Waits, [Next]_vars PROVE Waits'
    OBVIOUS
  <1>t. /\ registered \in Seq(Repos) /\ repo \in [Repos -> Places]
    BY DEF TypeOK
  <1> USE DEF Waits
  <1>1. ASSUME NEW r \in Repos, NEW from, NEW to, Moves(r, from, to), from # "waiting",
               to # "waiting", registered' = registered
        PROVE  Waits'
    BY <1>1, <1>t DEF Moves
  <1>2. CASE \E r \in Repos : Acquire(r) \/ Succeed(r) \/ Fail(r) \/ Pause(r)
    BY <1>1, <1>2 DEF Acquire, Succeed, Fail, Pause
  <1>3. ASSUME NEW r \in Repos, Register(r) PROVE Waits'
    <2>1. /\ repo[r] = "paused" /\ repo' = [repo EXCEPT ![r] = "waiting"]
          /\ registered' = Append(registered, r)
      BY <1>3 DEF Register, Moves
    <2>2. \A i \in DOMAIN registered : registered[i] # r
      BY <2>1
    <2>3. /\ Len(registered) \in Nat /\ DOMAIN registered = 1 .. Len(registered)
          /\ DOMAIN registered' = 1 .. Len(registered) + 1
          /\ \A i \in DOMAIN registered : registered'[i] = registered[i]
          /\ registered'[Len(registered) + 1] = r
      BY <2>1, <1>t
    <2>4. \A q \in Repos : repo'[q] = "waiting" <=> \E i \in DOMAIN registered' : registered'[i] = q
      BY <2>1, <2>3, <1>t
    <2>5. \A i, j \in DOMAIN registered' : registered'[i] = registered'[j] => i = j
      BY <2>2, <2>3
    <2> QED
      BY <2>4, <2>5
  <1>4. ASSUME NEW r \in Repos, Unregister(r), repo[r] = "waiting",
               NEW to \in Places, to # "waiting", repo' = [repo EXCEPT ![r] = to]
        PROVE  Waits'
    <2>1. PICK i \in DOMAIN registered : registered[i] = r /\ registered' = RemoveAt(registered, i)
      BY <1>4 DEF Unregister
    <2>2. /\ \A q : (\E k \in DOMAIN registered' : registered'[k] = q)
                    <=> q # r /\ \E k \in DOMAIN registered : registered[k] = q
          /\ \A j, k \in DOMAIN registered' : registered'[j] = registered'[k] => j = k
      <3>1. /\ \A q : (\E k \in DOMAIN RemoveAt(registered, i) : RemoveAt(registered, i)[k] = q)
                      <=> q # registered[i] /\ \E k \in DOMAIN registered : registered[k] = q
            /\ \A j, k \in DOMAIN RemoveAt(registered, i) :
                  RemoveAt(registered, i)[j] = RemoveAt(registered, i)[k] => j = k
        BY <1>t, RemoveAtOthers
      <3> QED
        BY <2>1, <3>1, Zenon
    <2>3. \A q \in Repos : repo'[q] = "waiting" <=> q # r /\ repo[q] = "waiting"
      BY <1>4, <1>t
    <2> QED
      BY <2>2, <2>3
  <1>5. ASSUME NEW r \in Repos, Wake(r) PROVE Waits'
    <2>1. choice \in HitlChoices /\ repo[r] = "waiting"
      BY <1>5 DEF Wake, Chosen
    <2>2. PICK to \in Places : to # "waiting" /\ repo' = [repo EXCEPT ![r] = to]
      <3>1. CASE choice = "retry"
        BY <1>5, <3>1 DEF Wake, Places
      <3>2. CASE choice = "abort"
        BY <1>5, <3>2 DEF Wake, Places, Settled
      <3>3. CASE choice = "continue"
        BY <1>5, <3>3 DEF Wake, Places, Settled
      <3> QED
        BY <2>1, <3>1, <3>2, <3>3 DEF HitlChoices
    <2>3. Unregister(r)
      BY <1>5 DEF Wake
    <2> QED
      BY <1>4, <2>1, <2>2, <2>3
  <1>6. ASSUME NEW r \in Repos, Timeout(r) PROVE Waits'
    BY <1>4, <1>6 DEF Timeout, Places, Settled
  <1>7. CASE HandleAnswer \/ AllFailed \/ StartSynthesis \/ FinishSynthesis \/ User
             \/ UNCHANGED vars
    <2>1. UNCHANGED <<repo, registered>>
      BY <1>7 DEF HandleAnswer, AllFailed, StartSynthesis, FinishSynthesis, User, UserAnswers, vars
    <2> QED
      BY <2>1
  <1>8. CASE NextLevel
    <2>1. \A r \in Ready(placed) : repo[r] # "waiting"
      BY DEF Ready, Order
    <2> QED
      BY <1>8, <2>1, <1>t DEF NextLevel
  <1> QED
    BY <1>2, <1>3, <1>5, <1>6, <1>7, <1>8 DEF Next, ServerStep, RepoStep, Ended

-----------------------------------------------------------------------------
(* The places.                                                               *)

Slots == Cardinality(Holding) <= Limit

LEMMA HoldingFinite ==
  /\ IsFiniteSet(Holding) /\ Cardinality(Holding) \in Nat
  /\ \A S \in SUBSET Holding : Cardinality(S) \in Nat /\ Cardinality(S) <= Cardinality(Holding)
  <1>1. Holding \subseteq Repos
    BY DEF Holding
  <1>2. IsFiniteSet(Holding)
    BY <1>1, ConstantTypes, FS_Subset
  <1>3. ASSUME NEW S \in SUBSET Holding
        PROVE  Cardinality(S) \in Nat /\ Cardinality(S) <= Cardinality(Holding)
    BY <1>2, FS_Subset, FS_CardinalityType
  <1> QED
    BY <1>2, <1>3, FS_CardinalityType

LEMMA InitSlots == Init => Slots
  <1> SUFFICES ASSUME Init PROVE Slots
    OBVIOUS
  <1>1. Holding = {}
    BY DEF Init, Holding
  <1> QED
    BY <1>1, FS_EmptySet, ConstantTypes DEF Slots

LEMMA StepSlots == TypeOK /\ Chosen /\ Order /\ Slots /\ [Next]_vars => Slots'
  <1> SUFFICES ASSUME TypeOK, Chosen, Order, Slots, [Next]_vars PROVE Slots'
    OBVIOUS
  <1>t. repo \in [Repos -> Places] /\ Limit \in Nat
    BY ConstantTypes DEF TypeOK
  \* A step that lets nobody in takes no place.
  <1>1. ASSUME Holding' \subseteq Holding PROVE Slots'
    <2>1. /\ Cardinality(Holding') \in Nat /\ Cardinality(Holding) \in Nat
          /\ Cardinality(Holding') <= Cardinality(Holding)
      BY <1>1, HoldingFinite
    <2> QED
      BY <2>1, <1>t DEF Slots
  <1>2. ASSUME NEW r \in Repos, Acquire(r) PROVE Slots'
    <2>1. Holding' = Holding \cup {r} /\ Cardinality(Holding) < Limit
      BY <1>2, <1>t DEF Acquire, Moves, Holding
    <2>2. Cardinality(Holding \cup {r}) = IF r \in Holding THEN Cardinality(Holding)
                                          ELSE Cardinality(Holding) + 1
      BY HoldingFinite, FS_AddElement
    <2>3. Cardinality(Holding \cup {r}) <= Limit
      BY <2>1, <2>2, HoldingFinite, <1>t
    <2> QED
      BY <2>1, <2>3 DEF Slots
  <1>3. CASE \E r \in Repos : Succeed(r) \/ Fail(r) \/ Pause(r) \/ Register(r)
    <2>1. Holding' \subseteq Holding
      BY <1>3, <1>t DEF Succeed, Fail, Pause, Register, Moves, Holding
    <2> QED
      BY <1>1, <2>1
  <1>4. CASE \E r \in Repos : Wake(r) \/ Timeout(r)
    <2>1. Holding' \subseteq Holding
      BY <1>4, <1>t DEF Wake, Timeout, Holding
    <2> QED
      BY <1>1, <2>1
  <1>5. CASE HandleAnswer \/ AllFailed \/ StartSynthesis \/ FinishSynthesis \/ User
             \/ UNCHANGED vars
    <2>1. repo' = repo
      BY <1>5 DEF HandleAnswer, AllFailed, StartSynthesis, FinishSynthesis, User, UserAnswers, vars
    <2> QED
      BY <1>1, <2>1 DEF Holding
  <1>6. CASE NextLevel
    <2>1. Holding' \subseteq Holding
      BY <1>6, <1>t DEF NextLevel, Holding
    <2> QED
      BY <1>1, <2>1
  <1> QED
    BY <1>2, <1>3, <1>4, <1>5, <1>6 DEF Next, ServerStep, RepoStep, Ended

-----------------------------------------------------------------------------
(* The status in the end.                                                    *)

\* The synthesis runs when every repository has been dealt with and there is
\* something to put together.
Ending == EndStatus /\ (stage = "synthesis" => findings # {})

LEMMA InitEnd == Init => Ending
  BY DEF Init, EndStatus, Ending

LEMMA StepEnd == TypeOK /\ Ending /\ [Next]_vars => Ending'
  <1> SUFFICES ASSUME TypeOK, Ending, [Next]_vars PROVE Ending'
    OBVIOUS
  <1>t. repo \in [Repos -> Places]
    BY DEF TypeOK
  <1> USE DEF EndStatus, Ending
  <1>1. CASE \E r \in Repos : Acquire(r) \/ Succeed(r) \/ Fail(r) \/ Pause(r) \/ Register(r)
                                \/ Wake(r) \/ Timeout(r)
    <2>1. stage = "levels" /\ stage' = stage
      BY <1>1 DEF Acquire, Succeed, Fail, Pause, Register, Wake, Timeout, Moves, Settled, sessionVars
    <2> QED
      BY <2>1
  <1>2. CASE HandleAnswer \/ User \/ UNCHANGED vars
    <2>1. UNCHANGED <<stage, status, findings, repo>>
      BY <1>2 DEF HandleAnswer, User, UserAnswers, vars, sessionVars
    <2> QED
      BY <2>1
  <1>3. CASE NextLevel
    BY <1>3 DEF NextLevel
  <1>4. CASE AllFailed \/ StartSynthesis
    BY <1>4 DEF AllFailed, StartSynthesis, LevelEnded
  <1>5. CASE FinishSynthesis
    BY <1>5 DEF FinishSynthesis
  <1> QED
    BY <1>1, <1>2, <1>3, <1>4, <1>5 DEF Next, ServerStep, RepoStep, Ended

-----------------------------------------------------------------------------
(* The invariant and the theorems.                                           *)

IInv == TypeOK /\ Chosen /\ Order /\ Waits /\ Slots /\ Ending

LEMMA InductiveInvariant == Spec => []IInv
  <1>1. Init => IInv
    BY InitTypeOK, InitOrder, InitWaits, InitSlots, InitEnd DEF IInv
  <1>2. IInv /\ [Next]_vars => IInv'
    BY StepTypeOK, StepOrder, StepWaits, StepSlots, StepEnd DEF IInv
  <1> QED
    BY <1>1, <1>2, PTL DEF Spec

\* With the dependency-aware strategy a repository starts when its sources have
\* been dealt with, and is given their findings (run_dependency_aware).
THEOREM DependenciesKept == Spec => []DependenciesFirst
  <1>1. IInv => DependenciesFirst
    BY DEF IInv, Order, TypeOK, DependenciesFirst, Started
  <1> QED
    BY <1>1, InductiveInvariant, PTL

\* No more repositories than the semaphore has places are researched or wait,
\* and those that wait are those the answer handler can signal.
THEOREM PlacesKept == Spec => []SlotsKept
  <1>1. IInv => SlotsKept
    <2> SUFFICES ASSUME IInv PROVE SlotsKept
      OBVIOUS
    <2>1. Cardinality({r \in Repos : repo[r] \in {"running", "failed", "paused", "waiting"}}) <= Limit
      BY DEF IInv, Slots, Holding
    <2>2. {registered[i] : i \in DOMAIN registered} = {r \in Repos : repo[r] = "waiting"}
      <3>1. registered \in Seq(Repos)
        BY DEF IInv, TypeOK
      <3>2. \A i \in DOMAIN registered : registered[i] \in Repos
        BY <3>1
      <3> QED
        BY <3>2 DEF IInv, Waits
    <2> QED
      BY <2>1, <2>2 DEF SlotsKept
  <1> QED
    BY <1>1, InductiveInvariant, PTL

\* When the research has ended its status is complete exactly when there are
\* findings, and no repository is left in the middle.
THEOREM StatusKept == Spec => []EndStatus
  <1>1. IInv => EndStatus
    BY DEF IInv, Ending
  <1> QED
    BY <1>1, InductiveInvariant, PTL

\* At every moment of a research: the types, the order of the levels, the places
\* and the status of the session, for every number of repositories and places.
THEOREM ResearchSound == Spec => []ResearchInv
  <1>1. TypeOK /\ DependenciesFirst /\ SlotsKept /\ EndStatus => ResearchInv
    BY DEF ResearchInv
  <1> QED
    BY <1>1, TypeCorrect, DependenciesKept, PlacesKept, StatusKept, PTL
=============================================================================
