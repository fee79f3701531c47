----------------------------- MODULE TenantAgents -----------------------------
(***************************************************************************)
(* The instances of a standard agent that a workspace has installed        *)
(* (tenant_agent_repository.py, tenant_agents.py, worker_service.py,       *)
(* migration 016): their pinned version and its history, their bindings    *)
(* and status, and the scheduler of automatic updates.  The catalog is the *)
(* one of AgentCatalog.                                                    *)
(*                                                                         *)
(* An operation locks the row of its instance before it reads it, so it is *)
(* one step.  But created_at of a version event is the start of its        *)
(* transaction, and a transaction may wait for that lock: a request begins *)
(* (Begin) some time before it acts, and an event remembers how many       *)
(* events of the instance its transaction could already see.               *)
(*                                                                         *)
(* One connection per service; its status is the choice of SetLink.        *)
(***************************************************************************)
EXTENDS AgentCatalog

CONSTANTS
  NumAgents,     \* instances, numbered in the order of their ids
  Service,
  Declared,      \* integrations of each version's manifest
  Required,      \* the required ones
  Runnable,      \* versions whose runtime_minimum this deployment satisfies
  Person,        \* callers of the API with MANAGE_AGENTS
  BatchSize,     \* rows of one sweep of the scheduler
  MaxRequests    \* bound: requests that concern versions or settings

Agent == 1 .. NumAgents

ASSUME AgentsAssumption ==
  /\ NumAgents \in Nat /\ BatchSize \in Nat \ {0} /\ MaxRequests \in Nat
  /\ Runnable \subseteq Version
  /\ Declared \in [Version -> SUBSET Service]
  /\ Required \in [Version -> SUBSET Service]
  /\ \A v \in Version : Required[v] \subseteq Declared[v]

VARIABLES
  status, reason,   \* tenant_agents: status, paused_reason
  pin,              \* version_id
  channel, mode,    \* update_channel, update_mode
  bound,            \* services with a row in agent_integration_bindings
  events,           \* tenant_agent_version_events; .no is their order of commit
  link,             \* status of the connection of each service
  began,            \* of each person's request: its instance and what it can see
  cursor,           \* TenantAgentUpdateScheduler.cursor, 0 for None
  asked,            \* requests so far, for the bound
  held              \* instances whose last status a person asked for is a pause;
                    \* nothing reads it

instanceVars == <<status, reason, pin, channel, mode, bound, events>>
requestVars  == <<began, asked, held>>
vars == <<catalogVars, instanceVars, link, requestVars, cursor>>

Links == {"connected", "error", "disabled"}
Modes == {"manual", "automatic"}
Event == [from : Version \cup {NoVersion}, to : Version, seen : Nat, no : Nat]
NoRequest == [agent |-> 0, seen |-> 0]

Init ==
  /\ CatalogInit
  /\ status = [a \in Agent |-> "absent"]
  /\ reason = [a \in Agent |-> "none"]
  /\ pin = [a \in Agent |-> NoVersion]
  /\ channel = [a \in Agent |-> "none"]
  /\ mode = [a \in Agent |-> "manual"]
  /\ bound = [a \in Agent |-> {}]
  /\ events = [a \in Agent |-> {}]
  /\ link \in [Service -> Links]
  /\ began = [p \in Person |-> NoRequest]
  /\ cursor = 0
  /\ asked = 0
  /\ held = {}

-----------------------------------------------------------------------------
\* Requests

\* The transaction starts; it may now have to wait for the row.
Begin(p, a) ==
  /\ asked < MaxRequests
  /\ began[p] = NoRequest
  /\ status[a] # "absent"
  /\ began' = [began EXCEPT ![p] = [agent |-> a, seen |-> Cardinality(events[a])]]
  /\ asked' = asked + 1
  /\ UNCHANGED <<catalogVars, instanceVars, link, held, cursor>>

\* Any of its checks fails, it has nothing to do, or lock_timeout passes.
GiveUp(p) ==
  /\ began[p] # NoRequest
  /\ began' = [began EXCEPT ![p] = NoRequest]
  /\ UNCHANGED <<catalogVars, instanceVars, link, asked, held, cursor>>

Serves(p, a) ==
  /\ began[p].agent = a
  /\ began' = [began EXCEPT ![p] = NoRequest]
  /\ UNCHANGED asked

-----------------------------------------------------------------------------
\* _readiness
Ready(v, b) == \A s \in Required[v] : s \in b /\ link[s] = "connected"

\* Mutant of Settled: only resumes, never pauses what is active.
SettledUpward(a, v, b) ==
  IF status[a] \in {"active", "disabled"} \/ reason[a] = "operator"
    THEN [status |-> status[a], reason |-> reason[a]]
  ELSE IF Ready(v, b) THEN [status |-> "active", reason |-> "none"]
  ELSE [status |-> "paused", reason |-> "not_ready"]

\* _settle_status of an instance with version v and bindings b
Settled(a, v, b) ==
  IF status[a] = "disabled" \/ (Ready(v, b) /\ reason[a] = "operator")
    THEN [status |-> status[a], reason |-> reason[a]]
  ELSE IF Ready(v, b) THEN [status |-> "active", reason |-> "none"]
  ELSE [status |-> "paused", reason |-> "not_ready"]

Settle(a, v, b) ==
  /\ status' = [status EXCEPT ![a] = Settled(a, v, b).status]
  /\ reason' = [reason EXCEPT ![a] = Settled(a, v, b).reason]

\* Mutant of Recorded: the event names the version the instance was installed with.
RecordedFromFirst(a, v, seen) ==
  events[a] \cup {[from |-> IF pin[a] = NoVersion THEN NoVersion
                            ELSE (CHOOSE e \in events[a] : e.no = 1).to,
                   to |-> v, seen |-> seen, no |-> Cardinality(events[a]) + 1]}

\* _record_version
Recorded(a, v, seen) ==
  events[a] \cup {[from |-> pin[a], to |-> v, seen |-> seen, no |-> Cardinality(events[a]) + 1]}

\* _repin and _settle_status
Repin(a, v, seen) ==
  /\ pin' = [pin EXCEPT ![a] = v]
  /\ events' = [events EXCEPT ![a] = Recorded(a, v, seen)]
  /\ Settle(a, v, bound[a])
  /\ UNCHANGED <<channel, mode, bound>>

-----------------------------------------------------------------------------
\* Operations

\* _write_binding
Bindable(v) == { s \in Declared[v] : link[s] # "disabled" }

\* install: the row is new, nobody waits for it.
Install(a, c, m, b) ==
  LET v == Offered(c) IN
  /\ status[a] = "absent"
  /\ listed
  /\ v # NoVersion /\ v \in Runnable
  /\ b \subseteq Bindable(v)
  /\ pin' = [pin EXCEPT ![a] = v]
  /\ events' = [events EXCEPT ![a] = Recorded(a, v, 0)]
  /\ channel' = [channel EXCEPT ![a] = c]
  /\ mode' = [mode EXCEPT ![a] = m]
  /\ bound' = [bound EXCEPT ![a] = b]
  /\ Settle(a, v, b)
  /\ UNCHANGED <<catalogVars, link, requestVars, cursor>>

SetBinding(a, s) ==
  /\ status[a] # "absent"
  /\ s \in Bindable(pin[a])
  /\ bound' = [bound EXCEPT ![a] = @ \cup {s}]
  /\ Settle(a, pin[a], bound'[a])
  /\ UNCHANGED <<catalogVars, pin, channel, mode, events, link, requestVars, cursor>>

ClearBinding(a, s) ==
  /\ status[a] # "absent"
  /\ bound' = [bound EXCEPT ![a] = @ \ {s}]
  /\ Settle(a, pin[a], bound'[a])
  /\ UNCHANGED <<catalogVars, pin, channel, mode, events, link, requestVars, cursor>>

\* update: any of the status, the channel and the mode
Update(p, a, s, c, m) ==
  /\ Serves(p, a)
  /\ s = "active" => Ready(pin[a], bound[a])
  /\ IF s = "as it is" THEN UNCHANGED <<status, reason, held>> ELSE
       /\ status' = [status EXCEPT ![a] = s]
       /\ reason' = [reason EXCEPT ![a] = IF s = "paused" THEN "operator" ELSE "none"]
       /\ held' = IF s = "paused" THEN held \cup {a} ELSE held \ {a}
  /\ channel' = [channel EXCEPT ![a] = c]
  /\ mode' = [mode EXCEPT ![a] = m]
  /\ UNCHANGED <<catalogVars, pin, bound, events, link, cursor>>

Uninstall(p, a) ==
  /\ Serves(p, a)
  /\ status' = [status EXCEPT ![a] = "disabled"]
  /\ reason' = [reason EXCEPT ![a] = "none"]
  /\ bound' = [bound EXCEPT ![a] = {}]
  /\ held' = held \ {a}
  /\ UNCHANGED <<catalogVars, pin, channel, mode, events, link, cursor>>

\* move_version: to the offer, or to any version that was released
Targets(a) ==
  ({Offered(channel[a])} \ {NoVersion})
    \cup { v \in Published : release[v].status \notin {"draft", "disabled"} }

\* Mutant of MoveVersion: the runtime is not asked.
MoveVersionAnyRuntime(p, a, v) ==
  /\ Serves(p, a)
  /\ v \in Targets(a) \ {pin[a]}
  /\ Repin(a, v, began[p].seen)
  /\ UNCHANGED <<catalogVars, link, held, cursor>>

\* A request that waited while the pin moved goes on if it waited in scoped, and
\* gets a 404 if it waited for the row (its join on the version finds nothing
\* any more).  Both are possible here whatever it waited for: the one is this
\* step, the other GiveUp.  So it is with Rollback.
MoveVersion(p, a, v) ==
  /\ Serves(p, a)
  /\ v \in Targets(a) \ {pin[a]}
  /\ v \in Runnable
  /\ Repin(a, v, began[p].seen)
  /\ UNCHANGED <<catalogVars, link, held, cursor>>

\* The latest move by created_at.  Of two transactions that could see the same
\* events either may have begun first.
LastMoves(a) ==
  LET moves == { e \in events[a] : e.from # NoVersion } IN
  { e \in moves : \A f \in moves : f.seen <= e.seen }

\* rollback: neither the release state nor the runtime is asked.
Rollback(p, a) ==
  /\ Serves(p, a)
  /\ \E e \in LastMoves(a) : e.from # pin[a] /\ Repin(a, e.from, began[p].seen)
  /\ UNCHANGED <<catalogVars, link, held, cursor>>

\* A connection is connected, tested, expires, fails, is disabled or enabled.
SetLink(s, l) ==
  /\ link' = [link EXCEPT ![s] = l]
  /\ UNCHANGED <<catalogVars, instanceVars, requestVars, cursor>>

-----------------------------------------------------------------------------
\* apply_automatic_updates: the next rows after the cursor that no request
\* has locked, each moved to its offer if there is one this runtime can run.

Automatic(a) == mode[a] = "automatic" /\ status[a] \notin {"absent", "disabled"}

Lockable(a) == \E p \in Person : began[p].agent = a

Batch(skipped) ==
  LET after == { a \in Agent : Automatic(a) /\ a > cursor /\ a \notin skipped } IN
  { a \in after : Cardinality({ b \in after : b < a }) < BatchSize }

\* The rows of a batch whose pin moves
Due(rows) ==
  { a \in rows : Offered(channel[a]) \in Runnable \ {pin[a]} }

\* Mutant of NextCursor: the end of the table does not begin a new sweep.
NextCursorKept(rows, c) ==
  IF rows = {} THEN c = cursor ELSE c \in rows /\ \A a \in rows : a <= c

NextCursor(rows, c) ==
  IF Cardinality(rows) = BatchSize THEN c \in rows /\ \A a \in rows : a <= c ELSE c = 0

Sweep(skipped) ==
  LET rows == Batch(skipped)
      due == Due(rows)
  IN
  /\ \A a \in skipped : Lockable(a)
  /\ pin' = [a \in Agent |-> IF a \in due THEN Offered(channel[a]) ELSE pin[a]]
  /\ events' = [a \in Agent |->
       IF a \in due THEN Recorded(a, Offered(channel[a]), Cardinality(events[a])) ELSE events[a]]
  /\ status' = [a \in Agent |->
       IF a \in due THEN Settled(a, Offered(channel[a]), bound[a]).status ELSE status[a]]
  /\ reason' = [a \in Agent |->
       IF a \in due THEN Settled(a, Offered(channel[a]), bound[a]).reason ELSE reason[a]]
  /\ \E c \in Agent \cup {0} : NextCursor(rows, c) /\ cursor' = c
  /\ UNCHANGED <<catalogVars, channel, mode, bound, link, requestVars>>

-----------------------------------------------------------------------------
PersonStep(p) ==
  \E a \in Agent :
    \/ Begin(p, a)
    \/ \E s \in {"as it is", "active", "paused", "disabled"}, c \in Channels, m \in Modes :
         Update(p, a, s, c, m)
    \/ Uninstall(p, a)
    \/ \E v \in Version : MoveVersion(p, a, v)
    \/ Rollback(p, a)

BindingStep ==
  \E a \in Agent :
    \/ \E c \in Channels, m \in Modes, b \in SUBSET Service : Install(a, c, m, b)
    \/ \E s \in Service : SetBinding(a, s) \/ ClearBinding(a, s)

Next ==
  \/ CatalogStep /\ UNCHANGED <<instanceVars, link, requestVars, cursor>>
  \/ \E p \in Person : PersonStep(p) \/ GiveUp(p)
  \/ BindingStep
  \/ \E s \in Service, l \in Links : SetLink(s, l)
  \/ \E skipped \in SUBSET Agent : Sweep(skipped)

Spec == Init /\ [][Next]_vars

\* WorkerRuntime.run keeps sweeping, and a request ends (statement and lock
\* timeouts).
Fairness ==
  /\ WF_vars(\E skipped \in SUBSET Agent : Sweep(skipped))
  /\ \A p \in Person : WF_vars(GiveUp(p))

FairSpec == Spec /\ Fairness

-----------------------------------------------------------------------------
TypeOK ==
  /\ CatalogTypeOK
  /\ status \in [Agent -> {"absent", "active", "paused", "disabled"}]
  /\ reason \in [Agent -> {"none", "operator", "not_ready"}]
  /\ pin \in [Agent -> Version \cup {NoVersion}]
  /\ channel \in [Agent -> Channels \cup {"none"}]
  /\ mode \in [Agent -> Modes]
  /\ bound \in [Agent -> SUBSET Service]
  /\ events \in [Agent -> SUBSET Event]
  /\ link \in [Service -> Links]
  /\ began \in [Person -> [agent : Agent \cup {0}, seen : Nat]]
  /\ cursor \in Agent \cup {0}
  /\ asked \in 0 .. MaxRequests
  /\ held \subseteq Agent
  /\ \A a \in Agent : status[a] = "paused" <=> reason[a] # "none"

\* The history explains the pin (migration 016: "a tenant can see exactly
\* which version ran when"): in the order of commit each event starts from the
\* version the one before led to, is a real move, and the last led to the pin,
\* whoever moved it, people or the scheduler.
HistoryExplainsPin ==
  \A a \in Agent : status[a] # "absent" =>
    /\ { e.no : e \in events[a] } = 1 .. Cardinality(events[a])
    /\ \A e \in events[a] :
         /\ e.no = Cardinality(events[a]) => e.to = pin[a]
         /\ e.from # e.to
         /\ e.no = 1 <=> e.from = NoVersion
         /\ \A f \in events[a] : f.no = e.no + 1 => f.from = e.to

\* An active instance has every integration bound that the manifest of its
\* present version requires, though versions with other requirements are
\* pinned under it, bindings cleared and pauses undone (the module's docstring:
\* "An agent never starts half-configured").
ActiveIsBound ==
  \A a \in Agent : status[a] = "active" => Required[pin[a]] \subseteq bound[a]

\* No instance is pinned to a version this deployment cannot run, although a
\* rollback does not look (move_version, install and apply_automatic_updates
\* do).
PinIsRunnable ==
  \A a \in Agent : status[a] # "absent" => pin[a] \in Runnable

\* An instance in automatic mode gets the version its channel offers, or the
\* offer changes: no batch boundary, skipped lock or unrunnable offer stops the
\* scheduler for good.
Following(a) ==
  \/ ~Automatic(a)
  \/ Offered(channel[a]) \notin Runnable
  \/ pin[a] = Offered(channel[a])

AutomaticFollowsOffer == \A a \in Agent : []<>Following(a)

\* "A pause a person asked for is theirs to undo, and no binding change may
\* quietly resume it" (migration 016; _settle_status says the same of updates
\* and rollbacks): an instance whose last status asked for is a pause is not
\* active, whatever happened to its bindings and its version since.
OperatorPauseStands == \A a \in held : status[a] # "active"
=============================================================================
