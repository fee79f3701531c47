-------------------------- MODULE TenantAgentsProofs --------------------------
(***************************************************************************)
(* Proofs about TenantAgents, for any catalog, instances and services.     *)
(*                                                                         *)
(* IInv says of each instance what the checked invariants say, and more:   *)
(* every version its history names is one the deployment can run, which is *)
(* why a rollback, which does not ask, cannot pin another.                 *)
(***************************************************************************)
EXTENDS TenantAgents, FiniteSetTheorems, TLAPS

\* The history E is complete and ends in version p.
History(E, p) ==
  /\ IsFiniteSet(E) /\ E # {}
  /\ E \subseteq Event
  /\ { e.no : e \in E } = 1 .. Cardinality(E)
  /\ \A e \in E :
       /\ e.no = Cardinality(E) => e.to = p
       /\ e.from # e.to
       /\ e.no = 1 <=> e.from = NoVersion
       /\ e.to \in Runnable /\ e.from \in Runnable \cup {NoVersion}
       /\ \A f \in E : f.no = e.no + 1 => f.from = e.to

Sound(a) ==
  \/ status[a] = "absent" /\ pin[a] = NoVersion /\ events[a] = {}
  \/ /\ status[a] # "absent"
     /\ pin[a] \in Runnable
     /\ History(events[a], pin[a])
     /\ status[a] = "active" => Required[pin[a]] \subseteq bound[a]

\* A request that has begun concerns an instance that is installed.
Known == \A p \in Person : began[p].agent # 0 => status[began[p].agent] # "absent"

IInv ==
  /\ TypeOK
  /\ \A a \in Agent : Sound(a)
  /\ Known

-----------------------------------------------------------------------------
\* The catalog

\* A change of the catalog keeps its types, and no two active rollouts serve a
\* channel.
LEMMA CatalogTypeStep ==
  ASSUME CatalogTypeOK, CatalogStep
  PROVE  CatalogTypeOK'
<1> USE CatalogAssumption DEF CatalogTypeOK
<1>1. ASSUME NEW v \in Version, NEW r \in Release, PublishVersion(v, r) \/ SetVersionRelease(v, r)
      PROVE  CatalogTypeOK'
  <2>1. release' \in [Version -> Release \cup {Unpublished}] /\ changes' \in 0 .. MaxChanges
    BY <1>1 DEF PublishVersion, SetVersionRelease, Change
  <2>2. rollouts' = rollouts /\ listed' = listed
    BY <1>1 DEF PublishVersion, SetVersionRelease
  <2> QED BY <2>1, <2>2 DEF OneActive
<1>2. ASSUME NEW v \in Version, NEW c \in Channels, NEW p \in Percentages, CreateRollout(v, c, p)
      PROVE  CatalogTypeOK'
  <2> DEFINE kept == [i \in DOMAIN rollouts |->
               IF rollouts[i].state = "active" /\ rollouts[i].channel = c
                 THEN [rollouts[i] EXCEPT !.state = "completed"] ELSE rollouts[i]]
             new == [version |-> v, channel |-> c, percentage |-> p, state |-> "active"]
  <2>1. new \in Rollout
    BY DEF Rollout
  <2>2. \A i \in DOMAIN rollouts : kept[i] \in Rollout
    <3> SUFFICES ASSUME NEW i \in DOMAIN rollouts PROVE kept[i] \in Rollout
      OBVIOUS
    <3>1. rollouts[i] \in Rollout
      OBVIOUS
    <3> QED BY <3>1 DEF Rollout
  <2>3. kept \in Seq(Rollout) /\ Len(kept) = Len(rollouts) /\ DOMAIN kept = DOMAIN rollouts
    <3>1. DOMAIN rollouts = 1 .. Len(rollouts) /\ Len(rollouts) \in Nat
      OBVIOUS
    <3> QED BY <2>2, <3>1
  <2>4. rollouts' = Append(kept, new)
    BY <1>2 DEF CreateRollout
  <2>5. rollouts' \in Seq(Rollout)
    BY <2>1, <2>3, <2>4
  <2>6. \A i \in DOMAIN kept : kept[i].state = "active" =>
          rollouts[i].state = "active" /\ rollouts[i].channel # c
                                       /\ kept[i] = rollouts[i]
    <3> SUFFICES ASSUME NEW i \in DOMAIN rollouts, kept[i].state = "active"
                 PROVE  rollouts[i].state = "active" /\ rollouts[i].channel # c
                                                     /\ kept[i] = rollouts[i]
      BY <2>3
    <3>1. rollouts[i] \in Rollout
      OBVIOUS
    <3> QED BY <3>1 DEF Rollout
  <2>7. OneActive(rollouts')
    <3> SUFFICES ASSUME NEW i \in DOMAIN rollouts', NEW j \in DOMAIN rollouts',
                        rollouts'[i].state = "active", rollouts'[j].state = "active",
                        rollouts'[i].channel = rollouts'[j].channel
                 PROVE  i = j
      BY DEF OneActive
    <3> HIDE DEF kept, new
    <3>1. /\ DOMAIN rollouts' = 1 .. Len(kept) + 1
          /\ \A k \in 1 .. Len(kept) : rollouts'[k] = kept[k]
          /\ rollouts'[Len(kept) + 1] = new
          /\ DOMAIN kept = 1 .. Len(kept) /\ Len(kept) \in Nat
      BY <2>1, <2>3, <2>4
    <3>2. new.channel = c
      BY DEF new
    <3>3. CASE i \in DOMAIN kept /\ j \in DOMAIN kept
      BY <2>3, <2>6, <3>1, <3>3 DEF OneActive
    <3>4. CASE i \notin DOMAIN kept \/ j \notin DOMAIN kept
      BY <2>3, <2>6, <3>1, <3>2, <3>4
    <3> QED BY <3>3, <3>4
  <2> QED BY <1>2, <2>5, <2>7 DEF CreateRollout, Change
<1>3. ASSUME NEW i \in DOMAIN rollouts, NEW p \in Percentages,
             NEW s \in {"active", "paused", "completed"}, UpdateRollout(i, p, s)
      PROVE  CatalogTypeOK'
  <2>1. rollouts[i] \in Rollout
    OBVIOUS
  <2>2. [rollouts[i] EXCEPT !.percentage = p, !.state = s] \in Rollout
    BY <2>1 DEF Rollout
  <2>3. rollouts' \in Seq(Rollout)
    BY <1>3, <2>1, <2>2 DEF UpdateRollout
  <2> QED BY <1>3, <2>3 DEF UpdateRollout, Change
<1>4. ASSUME NEW i \in DOMAIN rollouts, RollbackRollout(i)
      PROVE  CatalogTypeOK'
  <2> DEFINE retired == [rollouts EXCEPT ![i].state = "rolled_back"]
  <2>1. rollouts[i] \in Rollout
    OBVIOUS
  <2>2. [rollouts[i] EXCEPT !.state = "rolled_back"] \in Rollout
    BY <2>1 DEF Rollout
  <2>3. retired \in Seq(Rollout)
    BY <2>2
  <2>4. \A j \in Earlier(i) :
          [version |-> rollouts[j].version, channel |-> rollouts[i].channel,
           percentage |-> 100, state |-> "active"] \in Rollout
    <3> SUFFICES ASSUME NEW j \in Earlier(i)
                 PROVE  [version |-> rollouts[j].version, channel |-> rollouts[i].channel,
                         percentage |-> 100, state |-> "active"] \in Rollout
      OBVIOUS
    <3>1. j \in DOMAIN rollouts
      BY DEF Earlier
    <3>2. rollouts[j] \in Rollout
      BY <3>1
    <3> QED BY <2>1, <3>2 DEF Rollout
  <2> HIDE DEF retired
  <2>5. rollouts' \in Seq(Rollout)
    <3>1. CASE Earlier(i) = {} /\ rollouts' = retired
      BY <3>1, <2>3
    <3>2. CASE \E j \in Earlier(i) :
                 rollouts' = Append(retired,
                   [version |-> rollouts[j].version, channel |-> rollouts[i].channel,
                    percentage |-> 100, state |-> "active"])
      BY <3>2, <2>3, <2>4
    <3> QED BY <1>4, <3>1, <3>2 DEF RollbackRollout, retired
  <2> QED BY <1>4, <2>5 DEF RollbackRollout, Change
<1>5. ASSUME SetListed PROVE CatalogTypeOK'
  BY <1>5 DEF SetListed, Change, OneActive
<1> QED BY <1>1, <1>2, <1>3, <1>4, <1>5 DEF CatalogStep

-----------------------------------------------------------------------------
\* Instances

\* An event of no instance begins a history.
LEMMA HistoryBegins ==
  ASSUME NEW v \in Runnable, NEW E,
         E = {[from |-> NoVersion, to |-> v, seen |-> 0, no |-> 1]}
  PROVE  History(E, v)
<1> DEFINE e == [from |-> NoVersion, to |-> v, seen |-> 0, no |-> 1]
<1>1. v \in Version /\ v # NoVersion
  BY AgentsAssumption, CatalogAssumption DEF Version, NoVersion
<1>2. IsFiniteSet(E) /\ Cardinality(E) = 1
  BY FS_Singleton
<1>3. e \in Event
  BY <1>1 DEF Event
<1>4. { x.no : x \in E } = 1 .. 1
  <2>1. { x.no : x \in E } = {1}
    OBVIOUS
  <2>2. 1 .. 1 = {1}
    OBVIOUS
  <2> QED BY <2>1, <2>2
<1>5. \A x \in E : x = e
  OBVIOUS
<1>6. E # {} /\ E \subseteq Event
  BY <1>3
<1> QED BY <1>1, <1>2, <1>4, <1>5, <1>6 DEF History

\* A move to another version extends a history.
LEMMA HistoryExtends ==
  ASSUME NEW E, NEW p \in Runnable, History(E, p),
         NEW v \in Runnable, v # p, NEW seen \in Nat, NEW F,
         F = E \cup {[from |-> p, to |-> v, seen |-> seen, no |-> Cardinality(E) + 1]}
  PROVE  History(F, v)
<1> DEFINE n == Cardinality(E)
           new == [from |-> p, to |-> v, seen |-> seen, no |-> n + 1]
<1>1. p \in Version /\ v \in Version /\ p # NoVersion /\ v # NoVersion
  BY AgentsAssumption, CatalogAssumption DEF Version, NoVersion
<1>2. IsFiniteSet(E) /\ n \in Nat
  BY FS_CardinalityType DEF History
<1> HIDE DEF n
<1>3. \A e \in E : e.no \in 1 .. n
  BY DEF History, n
<1>4. new \notin E
  BY <1>2, <1>3
<1>5. IsFiniteSet(F) /\ Cardinality(F) = n + 1
  BY <1>2, <1>4, FS_AddElement DEF n
<1>6. new \in Event
  BY <1>1, <1>2 DEF Event
<1>7. { e.no : e \in F } = 1 .. n + 1
  <2>1. { e.no : e \in F } = { e.no : e \in E } \cup {new.no}
    <3>1. F = E \cup {new}
      BY DEF n
    <3> HIDE DEF new
    <3> QED BY <3>1
  <2>2. { e.no : e \in E } = 1 .. n
    BY DEF History, n
  <2> QED BY <1>2, <2>1, <2>2
<1>8. n >= 1
  <2>1. CASE n = 0
    <3>1. E = {}
      BY <1>2, <2>1, FS_EmptySet DEF n
    <3> QED BY <3>1 DEF History
  <2> QED BY <1>2, <2>1
<1>9. ASSUME NEW e \in F
      PROVE  /\ e.no = n + 1 => e.to = v
             /\ e.from # e.to
             /\ e.no = 1 <=> e.from = NoVersion
             /\ e.to \in Runnable /\ e.from \in Runnable \cup {NoVersion}
             /\ \A f \in F : f.no = e.no + 1 => f.from = e.to
  <2>1. CASE e = new
    <3>1. \A f \in F : f.no # e.no + 1
      BY <1>2, <1>3, <2>1 DEF n
    <3> QED BY <1>1, <1>2, <1>8, <2>1, <3>1
  <2>2. CASE e \in E
    <3>1. \A f \in E : f.no = e.no + 1 => f.from = e.to
      BY <2>2 DEF History
    <3>2. new.no = e.no + 1 => new.from = e.to
      BY <1>2, <1>3, <2>2 DEF History, n
    <3> QED BY <1>2, <1>3, <2>2, <3>1, <3>2 DEF History, n
  <2> QED BY <2>1, <2>2 DEF n
<1>10. F # {} /\ F \subseteq Event
  <2>1. F = E \cup {new} /\ E \subseteq Event
    BY DEF n, History
  <2> HIDE DEF new
  <2> QED BY <1>6, <2>1
<1> HIDE DEF new
<1> QED BY <1>2, <1>5, <1>7, <1>9, <1>10 DEF History

\* Whatever it settles to, an active instance has what its version requires.
LEMMA SettledFacts ==
  ASSUME TypeOK, NEW a \in Agent, NEW v \in Version, NEW b \in SUBSET Service,
         NEW r, r = Settled(a, v, b)
  PROVE  /\ r.status \in {"active", "paused", "disabled"}
         /\ r.reason \in {"none", "operator", "not_ready"}
         /\ r.status = "paused" <=> r.reason # "none"
         /\ r.status = "active" => Required[v] \subseteq b
<1>1. /\ status[a] \in {"absent", "active", "paused", "disabled"}
      /\ reason[a] \in {"none", "operator", "not_ready"}
      /\ status[a] = "paused" <=> reason[a] # "none"
  BY DEF TypeOK
<1>2. Ready(v, b) => Required[v] \subseteq b
  BY DEF Ready
<1>3. CASE status[a] = "disabled" \/ (Ready(v, b) /\ reason[a] = "operator")
  <2>1. r = [status |-> status[a], reason |-> reason[a]]
    BY <1>3 DEF Settled
  <2> QED BY <1>1, <1>3, <2>1
<1>4. CASE ~(status[a] = "disabled" \/ (Ready(v, b) /\ reason[a] = "operator")) /\ Ready(v, b)
  <2>1. r = [status |-> "active", reason |-> "none"]
    BY <1>4 DEF Settled
  <2> QED BY <1>2, <1>4, <2>1
<1>5. CASE ~(status[a] = "disabled" \/ (Ready(v, b) /\ reason[a] = "operator")) /\ ~Ready(v, b)
  <2>1. r = [status |-> "paused", reason |-> "not_ready"]
    BY <1>5 DEF Settled
  <2> QED BY <2>1
<1> QED BY <1>3, <1>4, <1>5

\* An instance that keeps its version, or gets another it can run with the
\* event that says so, stays sound.
LEMMA Kept ==
  ASSUME NEW x \in Agent, Sound(x),
         pin'[x] = pin[x], events'[x] = events[x],
         status[x] = "absent" => status'[x] = "absent",
         status[x] # "absent" => status'[x] # "absent",
         status'[x] = "active" => Required[pin[x]] \subseteq bound'[x]
  PROVE  Sound(x)'
BY DEF Sound, History

LEMMA Moved ==
  ASSUME TypeOK, NEW x \in Agent, Sound(x),
         NEW v \in Runnable, v # pin[x], NEW seen \in Nat,
         status[x] = "absent" => seen = 0,
         pin'[x] = v, events'[x] = Recorded(x, v, seen),
         status'[x] \in {"active", "paused", "disabled"},
         status'[x] = "active" => Required[v] \subseteq bound'[x]
  PROVE  Sound(x)' /\ events'[x] \in SUBSET Event
<1>1. History(events'[x], v)
  <2>1. CASE status[x] = "absent"
    <3>1. pin[x] = NoVersion /\ events[x] = {} /\ seen = 0
      BY <2>1 DEF Sound
    <3>2. Cardinality(events[x]) = 0
      BY <3>1, FS_EmptySet
    <3>3. events'[x] = {[from |-> NoVersion, to |-> v, seen |-> 0, no |-> 1]}
      BY <3>1, <3>2 DEF Recorded
    <3> QED BY <3>3, HistoryBegins
  <2>2. CASE status[x] # "absent"
    <3>1. pin[x] \in Runnable /\ History(events[x], pin[x])
      BY <2>2 DEF Sound
    <3> QED BY <3>1, HistoryExtends DEF Recorded
  <2> QED BY <2>1, <2>2
<1> QED BY <1>1 DEF Sound, History

\* Settle types the status of every instance and leaves the others alone.
LEMMA SettleFacts ==
  ASSUME TypeOK, NEW a \in Agent, NEW v \in Version, NEW b \in SUBSET Service,
         Settle(a, v, b)
  PROVE  /\ status' \in [Agent -> {"absent", "active", "paused", "disabled"}]
         /\ reason' \in [Agent -> {"none", "operator", "not_ready"}]
         /\ \A x \in Agent : status'[x] = "paused" <=> reason'[x] # "none"
         /\ status'[a] \in {"active", "paused", "disabled"}
         /\ status'[a] = "active" => Required[v] \subseteq b
         /\ \A x \in Agent \ {a} : status'[x] = status[x]
<1> DEFINE r == Settled(a, v, b)
<1>1. /\ r.status \in {"active", "paused", "disabled"}
      /\ r.reason \in {"none", "operator", "not_ready"}
      /\ r.status = "paused" <=> r.reason # "none"
      /\ r.status = "active" => Required[v] \subseteq b
  BY SettledFacts
<1>2. /\ status' = [status EXCEPT ![a] = r.status]
      /\ reason' = [reason EXCEPT ![a] = r.reason]
  BY DEF Settle
<1> HIDE DEF r
<1>3. /\ status \in [Agent -> {"absent", "active", "paused", "disabled"}]
      /\ reason \in [Agent -> {"none", "operator", "not_ready"}]
      /\ \A x \in Agent : status[x] = "paused" <=> reason[x] # "none"
  BY DEF TypeOK
<1>4. status'[a] = r.status /\ reason'[a] = r.reason
  BY <1>2, <1>3
<1>5. \A x \in Agent \ {a} : status'[x] = status[x] /\ reason'[x] = reason[x]
  BY <1>2, <1>3
<1>6. /\ status' \in [Agent -> {"absent", "active", "paused", "disabled"}]
      /\ reason' \in [Agent -> {"none", "operator", "not_ready"}]
  BY <1>1, <1>2, <1>3
<1> QED BY <1>1, <1>3, <1>4, <1>5, <1>6

\* Install, MoveVersion and Rollback.
LEMMA VersionStep ==
  ASSUME IInv, NEW a \in Agent, NEW v \in Runnable, v # pin[a], NEW seen \in Nat,
         NEW b \in SUBSET Service,
         status[a] = "absent" => seen = 0,
         pin' = [pin EXCEPT ![a] = v],
         events' = [events EXCEPT ![a] = Recorded(a, v, seen)],
         bound' = [bound EXCEPT ![a] = b],
         Settle(a, v, b)
  PROVE  /\ pin' \in [Agent -> Version \cup {NoVersion}]
         /\ events' \in [Agent -> SUBSET Event]
         /\ bound' \in [Agent -> SUBSET Service]
         /\ \A x \in Agent : Sound(x)'
<1>1. v \in Version
  BY AgentsAssumption
<1>2. /\ pin \in [Agent -> Version \cup {NoVersion}]
      /\ events \in [Agent -> SUBSET Event]
      /\ bound \in [Agent -> SUBSET Service]
  BY DEF IInv, TypeOK
<1>3. pin'[a] = v /\ events'[a] = Recorded(a, v, seen) /\ bound'[a] = b
  BY <1>2
<1>4. /\ status'[a] \in {"active", "paused", "disabled"}
      /\ status'[a] = "active" => Required[v] \subseteq b
      /\ \A x \in Agent \ {a} : status'[x] = status[x]
  BY <1>1, SettleFacts DEF IInv
<1>5. Sound(a)' /\ events'[a] \in SUBSET Event
  BY <1>3, <1>4, Moved DEF IInv
<1>6. ASSUME NEW x \in Agent \ {a} PROVE Sound(x)'
  <2>1. pin'[x] = pin[x] /\ events'[x] = events[x] /\ bound'[x] = bound[x]
    BY <1>2
  <2>2. Sound(x) /\ status'[x] = status[x]
    BY <1>4 DEF IInv
  <2> QED BY <2>1, <2>2, Kept DEF Sound
<1>7. events' \in [Agent -> SUBSET Event]
  BY <1>2, <1>3, <1>5
<1> QED BY <1>1, <1>2, <1>5, <1>6, <1>7

\* SetBinding and ClearBinding.
LEMMA BoundStep ==
  ASSUME IInv, NEW a \in Agent, status[a] # "absent", NEW b \in SUBSET Service,
         bound' = [bound EXCEPT ![a] = b],
         Settle(a, pin[a], b),
         UNCHANGED <<pin, events>>
  PROVE  bound' \in [Agent -> SUBSET Service] /\ \A x \in Agent : Sound(x)'
<1>1. bound \in [Agent -> SUBSET Service]
  BY DEF IInv, TypeOK
<1>2. Sound(a) /\ pin[a] \in Version
  BY AgentsAssumption DEF IInv, Sound
<1>3. /\ status'[a] \in {"active", "paused", "disabled"}
      /\ status'[a] = "active" => Required[pin[a]] \subseteq b
      /\ \A x \in Agent \ {a} : status'[x] = status[x]
  BY <1>2, SettleFacts DEF IInv
<1>4. Sound(a)'
  BY <1>1, <1>2, <1>3, Kept
<1>5. ASSUME NEW x \in Agent \ {a} PROVE Sound(x)'
  <2>1. Sound(x) /\ status'[x] = status[x] /\ bound'[x] = bound[x]
    BY <1>1, <1>3 DEF IInv
  <2> QED BY <2>1, Kept DEF Sound
<1> QED BY <1>1, <1>4, <1>5

-----------------------------------------------------------------------------
\* The invariant

LEMMA IInit == Init => IInv
<1> SUFFICES ASSUME Init PROVE IInv
  OBVIOUS
<1>1. CatalogTypeOK
  <2>1. CatalogInit
    BY DEF Init
  <2>2. release \in [Version -> Release \cup {Unpublished}]
    BY <2>1, CatalogAssumption DEF CatalogInit, Release, Unpublished
  <2> QED BY <2>1, <2>2, CatalogAssumption DEF CatalogInit, CatalogTypeOK, OneActive
<1>2. TypeOK
  BY <1>1, AgentsAssumption DEF Init, TypeOK, NoRequest, Modes
<1>3. \A a \in Agent : Sound(a)
  BY DEF Init, Sound
<1>4. Known
  BY DEF Init, Known, NoRequest
<1> QED BY <1>2, <1>3, <1>4 DEF IInv

\* Requests end and instances do not vanish.
LEMMA KnownStep ==
  ASSUME TypeOK, Known,
         \A p \in Person : began'[p] \in {began[p], NoRequest},
         \A a \in Agent : status[a] # "absent" => status'[a] # "absent"
  PROVE  Known'
<1> SUFFICES ASSUME NEW p \in Person, began'[p].agent # 0
             PROVE  status'[began'[p].agent] # "absent"
  BY DEF Known
<1>1. began'[p] = began[p]
  BY DEF NoRequest
<1>2. began[p].agent \in Agent
  BY <1>1 DEF TypeOK
<1> QED BY <1>1, <1>2 DEF Known

LEMMA IStep ==
  ASSUME IInv, [Next]_vars
  PROVE  IInv'
<1> USE DEF instanceVars, requestVars
<1>1. TypeOK /\ CatalogTypeOK /\ Known /\ \A a \in Agent : Sound(a)
  BY DEF IInv, TypeOK
<1>2. ASSUME UNCHANGED catalogVars PROVE CatalogTypeOK'
  BY <1>1, <1>2 DEF catalogVars, CatalogTypeOK, OneActive
<1>3. ASSUME UNCHANGED instanceVars, CatalogTypeOK', Known',
             link' \in [Service -> Links],
             began' \in [Person -> [agent : Agent \cup {0}, seen : Nat]],
             cursor' \in Agent \cup {0}, asked' \in 0 .. MaxRequests, held' \subseteq Agent
      PROVE  IInv'
  <2>1. TypeOK'
    BY <1>1, <1>3 DEF TypeOK
  <2>2. \A a \in Agent : Sound(a)'
    BY <1>1, <1>3 DEF Sound, History
  <2> QED BY <1>3, <2>1, <2>2 DEF IInv
<1>4. ASSUME UNCHANGED <<instanceVars, began>> PROVE Known'
  BY <1>1, <1>4, KnownStep
<1>5. ASSUME CatalogStep, UNCHANGED <<instanceVars, link, requestVars, cursor>> PROVE IInv'
  BY <1>1, <1>3, <1>4, <1>5, CatalogTypeStep DEF TypeOK
<1>6. ASSUME NEW p \in Person, NEW a \in Agent, Begin(p, a) PROVE IInv'
  <2>1. Cardinality(events[a]) \in Nat
    BY <1>1, <1>6, FS_CardinalityType DEF Begin, Sound, History
  <2>2. began' \in [Person -> [agent : Agent \cup {0}, seen : Nat]]
    BY <1>1, <1>6, <2>1 DEF Begin, TypeOK
  <2>3. asked' \in 0 .. MaxRequests
    BY <1>1, <1>6, AgentsAssumption DEF Begin, TypeOK
  <2>4. Known'
    BY <1>1, <1>6 DEF Begin, TypeOK, Known
  <2> QED BY <1>1, <1>2, <1>3, <1>6, <2>2, <2>3, <2>4 DEF Begin, TypeOK
<1>7. ASSUME NEW p \in Person, began' = [began EXCEPT ![p] = NoRequest]
      PROVE  /\ began' \in [Person -> [agent : Agent \cup {0}, seen : Nat]]
             /\ \A q \in Person : began'[q] \in {began[q], NoRequest}
  BY <1>1, <1>7 DEF TypeOK, NoRequest
<1>8. ASSUME NEW p \in Person, GiveUp(p) PROVE IInv'
  <2>1. Known'
    BY <1>1, <1>7, <1>8, KnownStep DEF GiveUp
  <2> QED BY <1>1, <1>2, <1>3, <1>7, <1>8, <2>1 DEF GiveUp, TypeOK
<1>9. ASSUME NEW p \in Person, NEW a \in Agent, Serves(p, a)
      PROVE  /\ began' \in [Person -> [agent : Agent \cup {0}, seen : Nat]]
             /\ \A q \in Person : began'[q] \in {began[q], NoRequest}
             /\ asked' = asked
             /\ began[p].seen \in Nat
             /\ status[a] # "absent"
  <2>1. began[p].agent = a /\ a # 0
    BY <1>9 DEF Serves, Agent
  <2>2. began[p].seen \in Nat
    BY <1>1 DEF TypeOK
  <2> QED BY <1>1, <1>7, <1>9, <2>1, <2>2 DEF Serves, Known
<1>10. ASSUME NEW a \in Agent, NEW c \in Channels, NEW m \in Modes, NEW b \in SUBSET Service,
             Install(a, c, m, b)
      PROVE  IInv'
  <2> DEFINE v == Offered(c)
  <2>1. v \in Runnable /\ status[a] = "absent"
    BY <1>10 DEF Install
  <2>2. /\ pin' = [pin EXCEPT ![a] = v]
        /\ events' = [events EXCEPT ![a] = Recorded(a, v, 0)]
        /\ bound' = [bound EXCEPT ![a] = b]
        /\ channel' = [channel EXCEPT ![a] = c] /\ mode' = [mode EXCEPT ![a] = m]
        /\ Settle(a, v, b)
        /\ UNCHANGED <<catalogVars, link, requestVars, cursor>>
    BY <1>10 DEF Install
  <2> HIDE DEF v
  <2>3. v # pin[a]
    BY <1>1, <2>1, AgentsAssumption, CatalogAssumption DEF Sound, Version, NoVersion
  <2>4. v \in Version
    BY <2>1, AgentsAssumption
  <2>5. /\ pin' \in [Agent -> Version \cup {NoVersion}]
        /\ events' \in [Agent -> SUBSET Event]
        /\ bound' \in [Agent -> SUBSET Service]
        /\ \A x \in Agent : Sound(x)'
    BY <2>1, <2>2, <2>3, VersionStep
  <2>6. TypeOK'
    BY <1>1, <1>2, <2>2, <2>4, <2>5, SettleFacts DEF TypeOK
  <2>7. Known'
    BY <1>1, <2>2, <2>4, SettleFacts, KnownStep
  <2> QED BY <2>5, <2>6, <2>7 DEF IInv
<1>11. ASSUME NEW a \in Agent, NEW s \in Service, SetBinding(a, s) \/ ClearBinding(a, s)
      PROVE  IInv'
  <2>1. status[a] # "absent" /\ UNCHANGED <<catalogVars, pin, channel, mode, events, link,
                                           requestVars, cursor>>
    BY <1>11 DEF SetBinding, ClearBinding
  <2>2. pin[a] \in Version /\ bound[a] \in SUBSET Service
    BY <1>1, <2>1, AgentsAssumption DEF Sound, TypeOK
  <2>3. ASSUME NEW b \in SUBSET Service, bound' = [bound EXCEPT ![a] = b],
               Settle(a, pin[a], bound'[a])
        PROVE  IInv'
    <3>1. bound'[a] = b
      BY <1>1, <2>3 DEF TypeOK
    <3>2. Settle(a, pin[a], b)
      BY <2>3, <3>1
    <3>3. bound' \in [Agent -> SUBSET Service] /\ \A x \in Agent : Sound(x)'
      BY <2>1, <2>3, <3>2, BoundStep
    <3>4. TypeOK'
      BY <1>1, <1>2, <2>1, <2>2, <3>2, <3>3, SettleFacts DEF TypeOK
    <3>5. Known'
      BY <1>1, <2>1, <2>2, <3>2, SettleFacts, KnownStep
    <3> QED BY <3>3, <3>4, <3>5 DEF IInv
  <2>4. CASE SetBinding(a, s)
    <3>1. bound' = [bound EXCEPT ![a] = bound[a] \cup {s}] /\ Settle(a, pin[a], bound'[a])
      BY <2>4 DEF SetBinding
    <3> QED BY <2>2, <2>3, <3>1
  <2>5. CASE ClearBinding(a, s)
    <3>1. bound' = [bound EXCEPT ![a] = bound[a] \ {s}] /\ Settle(a, pin[a], bound'[a])
      BY <2>5 DEF ClearBinding
    <3> QED BY <2>2, <2>3, <3>1
  <2> QED BY <1>11, <2>4, <2>5
<1>12. ASSUME NEW p \in Person, NEW a \in Agent,
              NEW s \in {"as it is", "active", "paused", "disabled"},
              NEW c \in Channels, NEW m \in Modes, Update(p, a, s, c, m)
       PROVE  IInv'
  <2>1. /\ Serves(p, a)
        /\ s = "active" => Ready(pin[a], bound[a])
        /\ channel' = [channel EXCEPT ![a] = c] /\ mode' = [mode EXCEPT ![a] = m]
        /\ UNCHANGED <<catalogVars, pin, bound, events, link, cursor>>
    BY <1>12 DEF Update
  <2>2. CASE s = "as it is"
    <3>1. UNCHANGED <<status, reason, held>>
      BY <1>12, <2>2 DEF Update
    <3>2. TypeOK'
      BY <1>1, <1>2, <1>9, <2>1, <3>1 DEF TypeOK
    <3>3. Known'
      BY <1>1, <1>9, <2>1, <3>1, KnownStep
    <3>4. \A x \in Agent : Sound(x)'
      BY <1>1, <2>1, <3>1, Kept DEF Sound
    <3> QED BY <3>2, <3>3, <3>4 DEF IInv
  <2>3. CASE s # "as it is"
    <3> DEFINE r == IF s = "paused" THEN "operator" ELSE "none"
    <3>1. /\ status' = [status EXCEPT ![a] = s]
          /\ reason' = [reason EXCEPT ![a] = r]
          /\ held' = IF s = "paused" THEN held \cup {a} ELSE held \ {a}
      BY <1>12, <2>3 DEF Update
    <3>2. /\ s \in {"active", "paused", "disabled"}
          /\ r \in {"none", "operator"} /\ (s = "paused" <=> r # "none")
      BY <2>3
    <3> HIDE DEF r
    <3>3. /\ status' \in [Agent -> {"absent", "active", "paused", "disabled"}]
          /\ reason' \in [Agent -> {"none", "operator", "not_ready"}]
          /\ \A x \in Agent : status'[x] = "paused" <=> reason'[x] # "none"
          /\ held' \subseteq Agent
      BY <1>1, <3>1, <3>2 DEF TypeOK
    <3>4. TypeOK'
      BY <1>1, <1>2, <1>9, <2>1, <3>3 DEF TypeOK
    <3>5. status'[a] = s /\ \A x \in Agent \ {a} : status'[x] = status[x]
      BY <1>1, <3>1 DEF TypeOK
    <3>6. Known'
      BY <1>1, <1>9, <2>1, <3>2, <3>5, KnownStep
    <3>7. s = "active" => Required[pin[a]] \subseteq bound'[a]
      BY <2>1 DEF Ready
    <3>8. Sound(a)'
      BY <1>1, <1>9, <2>1, <3>2, <3>5, <3>7, Kept
    <3>9. \A x \in Agent \ {a} : Sound(x)'
      BY <1>1, <2>1, <3>5, Kept DEF Sound
    <3> QED BY <3>4, <3>6, <3>8, <3>9 DEF IInv
  <2> QED BY <2>2, <2>3
<1>13. ASSUME NEW p \in Person, NEW a \in Agent, Uninstall(p, a) PROVE IInv'
  <2>1. /\ Serves(p, a)
        /\ status' = [status EXCEPT ![a] = "disabled"]
        /\ reason' = [reason EXCEPT ![a] = "none"]
        /\ bound' = [bound EXCEPT ![a] = {}]
        /\ held' = held \ {a}
        /\ UNCHANGED <<catalogVars, pin, channel, mode, events, link, cursor>>
    BY <1>13 DEF Uninstall
  <2>2. TypeOK'
    BY <1>1, <1>2, <1>9, <2>1 DEF TypeOK
  <2>3. /\ status'[a] = "disabled"
        /\ \A x \in Agent \ {a} : status'[x] = status[x] /\ bound'[x] = bound[x]
    BY <1>1, <2>1 DEF TypeOK
  <2>4. Known'
    BY <1>1, <1>9, <2>1, <2>3, KnownStep
  <2>5. Sound(a)'
    BY <1>1, <1>9, <2>1, <2>3, Kept
  <2>6. \A x \in Agent \ {a} : Sound(x)'
    BY <1>1, <2>1, <2>3, Kept DEF Sound
  <2> QED BY <2>2, <2>4, <2>5, <2>6 DEF IInv
<1>14. ASSUME NEW p \in Person, NEW a \in Agent, Serves(p, a),
              NEW v \in Runnable, v # pin[a], Repin(a, v, began[p].seen),
              UNCHANGED <<catalogVars, link, held, cursor>>
       PROVE  IInv'
  <2>1. /\ pin' = [pin EXCEPT ![a] = v]
        /\ events' = [events EXCEPT ![a] = Recorded(a, v, began[p].seen)]
        /\ Settle(a, v, bound[a])
        /\ UNCHANGED <<channel, mode, bound>>
    BY <1>14 DEF Repin
  <2>2. bound[a] \in SUBSET Service /\ bound' = [bound EXCEPT ![a] = bound[a]]
    BY <1>1, <2>1 DEF TypeOK
  <2>3. v \in Version
    BY AgentsAssumption
  <2>4. /\ pin' \in [Agent -> Version \cup {NoVersion}]
        /\ events' \in [Agent -> SUBSET Event]
        /\ \A x \in Agent : Sound(x)'
    BY <1>9, <1>14, <2>1, <2>2, VersionStep
  <2>5. TypeOK'
    BY <1>1, <1>2, <1>9, <1>14, <2>1, <2>2, <2>3, <2>4, SettleFacts DEF TypeOK
  <2>6. Known'
    BY <1>1, <1>9, <1>14, <2>1, <2>2, <2>3, SettleFacts, KnownStep
  <2> QED BY <2>4, <2>5, <2>6 DEF IInv
<1>15. ASSUME NEW p \in Person, NEW a \in Agent, NEW v \in Version, MoveVersion(p, a, v)
       PROVE  IInv'
  BY <1>14, <1>15 DEF MoveVersion
<1>16. ASSUME NEW p \in Person, NEW a \in Agent, Rollback(p, a) PROVE IInv'
  <2>1. PICK e \in LastMoves(a) : e.from # pin[a] /\ Repin(a, e.from, began[p].seen)
    BY <1>16 DEF Rollback
  <2>2. e \in events[a] /\ e.from # NoVersion
    BY DEF LastMoves
  <2>3. status[a] # "absent" /\ Serves(p, a)
    BY <1>9, <1>16 DEF Rollback
  <2>4. e.from \in Runnable
    BY <1>1, <2>2, <2>3 DEF Sound, History
  <2> QED BY <1>14, <1>16, <2>1, <2>3, <2>4 DEF Rollback
<1>17. ASSUME NEW s \in Service, NEW l \in Links, SetLink(s, l) PROVE IInv'
  <2>1. link' \in [Service -> Links]
    BY <1>1, <1>17 DEF SetLink, TypeOK
  <2> QED BY <1>1, <1>2, <1>3, <1>4, <1>17, <2>1 DEF SetLink, TypeOK
<1>18. ASSUME NEW skipped \in SUBSET Agent, Sweep(skipped) PROVE IInv'
  <2> DEFINE due == Due(Batch(skipped))
             to(a) == Offered(channel[a])
             settled(a) == Settled(a, to(a), bound[a])
  <2>1. /\ pin' = [a \in Agent |-> IF a \in due THEN to(a) ELSE pin[a]]
        /\ events' = [a \in Agent |->
             IF a \in due THEN Recorded(a, to(a), Cardinality(events[a])) ELSE events[a]]
        /\ status' = [a \in Agent |-> IF a \in due THEN settled(a).status ELSE status[a]]
        /\ reason' = [a \in Agent |-> IF a \in due THEN settled(a).reason ELSE reason[a]]
        /\ cursor' \in Agent \cup {0}
        /\ UNCHANGED <<catalogVars, channel, mode, bound, link, requestVars>>
    BY <1>18 DEF Sweep
  <2>2. \A a \in due : /\ a \in Agent /\ status[a] # "absent"
                       /\ to(a) \in Runnable /\ to(a) # pin[a]
    BY DEF Due, Batch, Automatic
  <2> HIDE DEF due, to
  <2>3. ASSUME NEW a \in due
        PROVE  /\ a \in Agent /\ to(a) \in Version
               /\ settled(a).status \in {"active", "paused", "disabled"}
               /\ settled(a).reason \in {"none", "operator", "not_ready"}
               /\ settled(a).status = "paused" <=> settled(a).reason # "none"
               /\ settled(a).status = "active" => Required[to(a)] \subseteq bound[a]
    <3>1. a \in Agent /\ to(a) \in Version /\ bound[a] \in SUBSET Service
      BY <1>1, <2>2, AgentsAssumption DEF TypeOK
    <3> QED BY <1>1, <3>1, SettledFacts
  <2> HIDE DEF settled
  <2>4. ASSUME NEW a \in due
        PROVE  Sound(a)' /\ events'[a] \in SUBSET Event
    <3>1. Cardinality(events[a]) \in Nat
      BY <1>1, <2>2, FS_CardinalityType DEF Sound, History
    <3>2. /\ pin'[a] = to(a) /\ events'[a] = Recorded(a, to(a), Cardinality(events[a]))
          /\ status'[a] = settled(a).status /\ bound'[a] = bound[a]
      BY <2>1, <2>3
    <3> QED BY <1>1, <2>2, <2>3, <3>1, <3>2, Moved
  <2>5. ASSUME NEW a \in Agent \ due
        PROVE  Sound(a)' /\ events'[a] = events[a]
    <3>1. pin'[a] = pin[a] /\ events'[a] = events[a] /\ status'[a] = status[a]
                          /\ bound'[a] = bound[a]
      BY <2>1
    <3> QED BY <1>1, <3>1, Kept DEF Sound
  <2>6. /\ pin' \in [Agent -> Version \cup {NoVersion}]
        /\ status' \in [Agent -> {"absent", "active", "paused", "disabled"}]
        /\ reason' \in [Agent -> {"none", "operator", "not_ready"}]
        /\ \A x \in Agent : status'[x] = "paused" <=> reason'[x] # "none"
    BY <1>1, <2>1, <2>3 DEF TypeOK
  <2>7. events' \in [Agent -> SUBSET Event]
    <3>1. \A a \in Agent : events'[a] \in SUBSET Event
      BY <1>1, <2>4, <2>5 DEF TypeOK
    <3> QED BY <2>1, <3>1
  <2>8. TypeOK'
    BY <1>1, <1>2, <2>1, <2>6, <2>7 DEF TypeOK
  <2>9. \A a \in Agent : status[a] # "absent" => status'[a] # "absent"
    BY <2>1, <2>3
  <2>10. Known'
    BY <1>1, <2>1, <2>9, KnownStep
  <2> QED BY <2>4, <2>5, <2>8, <2>10 DEF IInv
<1>19. ASSUME UNCHANGED vars PROVE IInv'
  BY <1>1, <1>2, <1>3, <1>4, <1>19 DEF vars, TypeOK
<1>20. ASSUME NEW p \in Person, PersonStep(p) PROVE IInv'
  BY <1>6, <1>12, <1>13, <1>15, <1>16, <1>20 DEF PersonStep
<1>21. ASSUME BindingStep PROVE IInv'
  BY <1>10, <1>11, <1>21 DEF BindingStep
<1> QED BY <1>5, <1>8, <1>17, <1>18, <1>19, <1>20, <1>21 DEF Next

\* IInv holds in every reachable state.
THEOREM AgentsInvariant == Spec => []IInv
<1>1. Init => IInv
  BY IInit
<1>2. IInv /\ [Next]_vars => IInv'
  BY IStep
<1> QED BY <1>1, <1>2, PTL DEF Spec

\* The state of the catalog, the instances, the requests and the scheduler is
\* well typed, with one active rollout on a channel at most.
THEOREM AgentsTyped == Spec => []TypeOK
<1>1. IInv => TypeOK
  BY DEF IInv
<1> QED BY <1>1, AgentsInvariant, PTL

\* The events of an instance lead, in the order they commit, from its
\* installation to its pin, through requests, rollbacks and sweeps.
THEOREM HistoryComplete == Spec => []HistoryExplainsPin
<1>1. IInv => HistoryExplainsPin
  BY DEF IInv, Sound, History, HistoryExplainsPin
<1> QED BY <1>1, AgentsInvariant, PTL

\* No sequence of bindings, moves, rollbacks, sweeps and requests leaves an
\* instance active without a binding its version requires.
THEOREM ActiveBound == Spec => []ActiveIsBound
<1>1. IInv => ActiveIsBound
  BY DEF IInv, Sound, ActiveIsBound
<1> QED BY <1>1, AgentsInvariant, PTL

\* No instance is pinned to a version the deployment cannot run, by a rollback
\* either.
THEOREM PinRuns == Spec => []PinIsRunnable
<1>1. IInv => PinIsRunnable
  BY DEF IInv, Sound, PinIsRunnable
<1> QED BY <1>1, AgentsInvariant, PTL
=============================================================================
