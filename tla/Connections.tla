----------------------------- MODULE Connections -----------------------------
(***************************************************************************)
(* The connections of a workspace to outside services                      *)
(* (integration_repository.py, connector_mcp.py, the run contracts of      *)
(* tenant_agent_repository.py, migration 016): their credentials, their    *)
(* authorization flows, the workspace tools made for them, the bindings of *)
(* standard agents to them, and the calls and tests that use them.         *)
(*                                                                         *)
(* A request that waits for no provider is one transaction and one step.   *)
(* A use of a connection (a test, a tool call, the end of an authorization)*)
(* waits for the provider inside its transaction, so it is several steps:  *)
(* what it has written is seen by nobody before it commits, and the row    *)
(* locks it holds until then are the guards of the other steps.  The lock  *)
(* of scoped on the workspaces row is not among them: in the code it keeps *)
(* the requests of the API apart from each other and from a stored refresh,*)
(* here they may overlap, and only the locks on the rows in question count.*)
(*                                                                         *)
(* A connection is the stored row of one account: its id is never used     *)
(* again.  What a credential says is its id.  A standard agent has one     *)
(* required service.                                                       *)
(***************************************************************************)
EXTENDS Naturals, FiniteSets

CONSTANTS
  Conn, Service, Agent, Run, Session,
  Config,             \* what the fields that are not secret may say
  Failure,            \* what a failed test says: "expired", "error"
  ServiceOf,          \* the definition of each connection
  OAuth,              \* services with auth = "oauth2", refreshable
  Needs,              \* the required service of each agent
  NoConn, NoRun,
  MaxCredentials      \* bound: credentials ever stored

NoCred == 0
NoConfig == 0
Cred == 1 .. MaxCredentials

ASSUME ConnectionsAssumption ==
  /\ ServiceOf \in [Conn -> Service] /\ OAuth \subseteq Service
  /\ Needs \in [Agent -> Service]
  /\ NoConn \notin Conn /\ NoRun \notin Run
  /\ MaxCredentials \in Nat /\ Failure \subseteq {"expired", "error"}

VARIABLES
  status, ref, config,   \* tenant_integrations: status, credential_reference, config
  creds,                 \* integration_credentials
  due,                   \* credentials whose access token is about to expire
  states,                \* connections with a row in integration_oauth_states
  binding,               \* agent_integration_bindings of each agent
  tool,                  \* the workspace tool of each service: its target, enabled
  after,                 \* requests between their commit and their call of the provisioner
  stage, snapshot,       \* of each run: how far create_run is, connector_tools
  use,                   \* of each session: what it is doing
  issued                 \* credentials stored so far, for the bound

rowVars  == <<status, ref, config, creds, due, states>>
toolVars == <<tool, after>>
runVars  == <<stage, snapshot>>
vars == <<rowVars, binding, toolVars, runVars, use, issued>>

Credential == [id : Cred, conn : Conn]
Snapshot == [agent : Agent, conn : Conn \cup {NoConn}, cred : Cred \cup {NoCred},
             config : Config \cup {NoConfig}]

Idle == [by |-> "nobody", conn |-> NoConn, run |-> NoRun, cred |-> NoCred,
         prev |-> NoCred, step |-> "idle"]

Init ==
  /\ status = [c \in Conn |-> "absent"]
  /\ ref = [c \in Conn |-> NoCred]
  /\ config = [c \in Conn |-> NoConfig]
  /\ creds = {} /\ due = {} /\ states = {}
  /\ binding = [a \in Agent |-> NoConn]
  /\ tool = [s \in Service |-> [conn |-> NoConn, enabled |-> FALSE]]
  /\ after = {}
  /\ stage = [r \in Run |-> "none"]
  /\ snapshot = [r \in Run |-> NoRun]
  /\ use = [u \in Session |-> Idle]
  /\ issued = 0

Exists(c) == status[c] \notin {"absent", "removed"}
Stored(c) == { k \in creds : k.conn = c }

-----------------------------------------------------------------------------
\* Row locks

Writing(c)    == \E u \in Session : use[u].conn = c /\ use[u].step = "locked"
Inserting(c)  == \E u \in Session : use[u].conn = c /\ use[u].step \in {"inserted", "locked"}
Completing(c) == \E u \in Session : use[u].conn = c /\ use[u].by = "complete"

\* Mutant of Shared: create_run reads the connection without FOR SHARE.
SharedByNobody(c) == FALSE

Shared(c) == \E r \in Run : stage[r] = "checked" /\ snapshot[r].conn = c

\* Mutant of Lockable: an uncommitted credential is not waited for.
LockableUnshared(c) == ~Shared(c)

\* FOR UPDATE waits for an uncommitted credential of the connection too.
Lockable(c) == ~Inserting(c) /\ ~Shared(c)

-----------------------------------------------------------------------------
\* Requests of one transaction

\* _write_credential where nothing runs between its statements
WriteCredential(c) ==
  /\ issued < MaxCredentials
  /\ issued' = issued + 1
  /\ creds' = { k \in creds : k.id # ref[c] } \cup {[id |-> issued + 1, conn |-> c]}
  /\ ref' = [ref EXCEPT ![c] = issued + 1]
  /\ status' = [status EXCEPT ![c] = "connected"]

Connect(c) ==
  /\ ServiceOf[c] \notin OAuth
  /\ status[c] = "absent"
  /\ \E f \in Config : config' = [config EXCEPT ![c] = f]
  /\ WriteCredential(c)
  /\ after' = after \cup {<<"sync", c>>}
  /\ UNCHANGED <<due, states, binding, tool, runVars, use>>

Rotate(c) ==
  /\ ServiceOf[c] \notin OAuth
  /\ Exists(c) /\ Lockable(c)
  /\ \E f \in Config : config' = [config EXCEPT ![c] = f]
  /\ WriteCredential(c)
  /\ UNCHANGED <<due, states, binding, toolVars, runVars, use>>

StartOAuth(c) ==
  /\ ServiceOf[c] \in OAuth
  /\ status[c] = "absent"
  /\ status' = [status EXCEPT ![c] = "pending"]
  /\ states' = states \cup {c}
  /\ UNCHANGED <<ref, config, creds, due, binding, toolVars, runVars, use, issued>>

\* update
SwitchOn(c) ==
  /\ status[c] = "disabled" /\ Lockable(c)
  /\ status' = [status EXCEPT ![c] = IF ref[c] # NoCred THEN "connected" ELSE "pending"]
  /\ UNCHANGED <<ref, config, creds, due, states, binding, toolVars, runVars, use, issued>>

SwitchOff(c) ==
  /\ Exists(c) /\ Lockable(c)
  /\ status' = [status EXCEPT ![c] = "disabled"]
  /\ UNCHANGED <<ref, config, creds, due, states, binding, toolVars, runVars, use, issued>>

\* Deleting an authorization waits for the request that is completing it.
Disconnect(c) ==
  /\ Exists(c) /\ Lockable(c) /\ ~Completing(c)
  /\ \A a \in Agent : binding[a] # c
  /\ status' = [status EXCEPT ![c] = "removed"]
  /\ ref' = [ref EXCEPT ![c] = NoCred]
  /\ creds' = creds \ Stored(c)
  /\ due' = due \ { k.id : k \in Stored(c) }
  /\ states' = states \ {c}
  /\ config' = [config EXCEPT ![c] = NoConfig]
  /\ after' = after \cup {<<"disable", c>>}
  /\ UNCHANGED <<binding, tool, runVars, use, issued>>

-----------------------------------------------------------------------------
\* ConnectorToolProvisioner, in a transaction of its own

Sync(c) ==
  /\ <<"sync", c>> \in after
  /\ tool' = [tool EXCEPT ![ServiceOf[c]] = [conn |-> c, enabled |-> TRUE]]
  /\ after' = after \ {<<"sync", c>>}
  /\ UNCHANGED <<rowVars, binding, runVars, use, issued>>

Disable(c) ==
  /\ <<"disable", c>> \in after
  /\ tool' = [s \in Service |-> [tool[s] EXCEPT !.enabled = @ /\ tool[s].conn # c]]
  /\ after' = after \ {<<"disable", c>>}
  /\ UNCHANGED <<rowVars, binding, runVars, use, issued>>

\* The process dies between the two transactions, or the second one fails.
Forget(c) ==
  /\ \E op \in {"sync", "disable"} : <<op, c>> \in after /\ after' = after \ {<<op, c>>}
  /\ UNCHANGED <<rowVars, binding, tool, runVars, use, issued>>

-----------------------------------------------------------------------------
\* Standard agents

\* The row of the agent is locked.
Queueing(a) == \E r \in Run : stage[r] \in {"ready", "checked"} /\ snapshot[r].agent = a

\* The binding of the agent is locked by a call.
Held(a) == \E u \in Session : use[u].by = "standard" /\ snapshot[use[u].run].agent = a

SetBinding(a, c) ==
  /\ ~Queueing(a) /\ ~Held(a)
  /\ ServiceOf[c] = Needs[a]
  /\ Exists(c) /\ status[c] # "disabled"
  /\ binding' = [binding EXCEPT ![a] = c]
  /\ UNCHANGED <<rowVars, toolVars, runVars, use, issued>>

ClearBinding(a) ==
  /\ ~Queueing(a) /\ ~Held(a)
  /\ binding[a] # NoConn
  /\ binding' = [binding EXCEPT ![a] = NoConn]
  /\ UNCHANGED <<rowVars, toolVars, runVars, use, issued>>

\* create_run: the readiness of the agent, read without a lock on the connection
BeginRun(r, a) ==
  /\ stage[r] = "none"
  /\ ~Queueing(a)
  /\ binding[a] # NoConn /\ status[binding[a]] = "connected"
  /\ stage' = [stage EXCEPT ![r] = "ready"]
  /\ snapshot' = [snapshot EXCEPT ![r] =
                    [agent |-> a, conn |-> NoConn, cred |-> NoCred, config |-> NoConfig]]
  /\ UNCHANGED <<rowVars, binding, toolVars, use, issued>>

\* The credential a run is held to; those of an authorization are renewed under it.
Frozen(c) == IF ServiceOf[c] \in OAuth THEN NoCred ELSE ref[c]

\* _connector_run_contracts: read once more, FOR SHARE
CheckRun(r) ==
  LET a == snapshot[r].agent
      c == binding[a] IN
  /\ stage[r] = "ready"
  /\ ~Writing(c)
  /\ IF status[c] = "connected"
       THEN /\ stage' = [stage EXCEPT ![r] = "checked"]
            /\ snapshot' = [snapshot EXCEPT ![r] =
                 [agent |-> a, conn |-> c, cred |-> Frozen(c), config |-> config[c]]]
       ELSE /\ stage' = [stage EXCEPT ![r] = "none"]
            /\ snapshot' = [snapshot EXCEPT ![r] = NoRun]
  /\ UNCHANGED <<rowVars, binding, toolVars, use, issued>>

CommitRun(r) ==
  /\ stage[r] = "checked"
  /\ stage' = [stage EXCEPT ![r] = "queued"]
  /\ UNCHANGED <<rowVars, binding, toolVars, snapshot, use, issued>>

AbortRun(r) ==
  /\ stage[r] \in {"ready", "checked"}
  /\ stage' = [stage EXCEPT ![r] = "none"]
  /\ snapshot' = [snapshot EXCEPT ![r] = NoRun]
  /\ UNCHANGED <<rowVars, binding, toolVars, use, issued>>

-----------------------------------------------------------------------------
\* Uses

\* resolve: not locked
Usable(c) == Exists(c) /\ status[c] # "disabled" /\ ref[c] # NoCred

Open(u, by, c, r) ==
  /\ use[u] = Idle
  /\ Usable(c)
  /\ use' = [use EXCEPT ![u] = [by |-> by, conn |-> c, run |-> r, cred |-> ref[c],
                                prev |-> NoCred, step |-> "open"]]
  /\ UNCHANGED <<rowVars, binding, toolVars, runVars, issued>>

Test(u, c) == Open(u, "test", c, NoRun)

\* A custom agent calls the tool of the workspace.
CustomCall(u, s) ==
  /\ tool[s].enabled
  /\ Open(u, "custom", tool[s].conn, NoRun)

\* Mutant of AsQueued: the credential is not compared.
AsQueuedButKey(r) ==
  /\ binding[snapshot[r].agent] = snapshot[r].conn
  /\ config[snapshot[r].conn] = snapshot[r].config

\* The binding, then _validate_standard_target
AsQueued(r) ==
  LET s == snapshot[r] IN
  /\ binding[s.agent] = s.conn
  /\ config[s.conn] = s.config
  /\ s.cred # NoCred => ref[s.conn] = s.cred

StandardCall(u, r) ==
  /\ stage[r] = "queued"
  /\ AsQueued(r)
  /\ Open(u, "standard", snapshot[r].conn, r)

\* _refresh_if_needed: the provider issues a token, which is inserted, and
\* the reference is read.  The newest credential tells whether it is time;
\* of several, it is the one whose transaction began last.
Refresh(u) ==
  LET c == use[u].conn IN
  /\ use[u].step = "open" /\ use[u].by # "complete"
  /\ ServiceOf[c] \in OAuth
  /\ Exists(c)
  /\ \E k \in Stored(c) : k.id \in due
  /\ issued < MaxCredentials
  /\ issued' = issued + 1
  /\ use' = [use EXCEPT ![u].cred = issued + 1, ![u].prev = ref[c], ![u].step = "inserted"]
  /\ UNCHANGED <<rowVars, binding, toolVars, runVars>>

\* The row of the connection is updated, once nobody else holds it.
LockRow(u) ==
  /\ use[u].step = "inserted"
  /\ ~Writing(use[u].conn) /\ ~Shared(use[u].conn)
  /\ use' = [use EXCEPT ![u].step = "locked"]
  /\ UNCHANGED <<rowVars, binding, toolVars, runVars, issued>>

\* The credentials once the refresh of u has committed
Renewed(u) ==
  { k \in creds : k.id # use[u].prev } \cup {[id |-> use[u].cred, conn |-> use[u].conn]}

\* u commits, its last status is new.
Finish(u, new) ==
  LET c == use[u].conn IN
  /\ IF use[u].step = "locked"
       THEN /\ creds' = Renewed(u)
            /\ due' = due \ {use[u].prev}
            /\ ref' = [ref EXCEPT ![c] = use[u].cred]
       ELSE UNCHANGED <<creds, due, ref>>
  /\ status' = [status EXCEPT ![c] = IF Exists(c) THEN new ELSE @]
  /\ use' = [use EXCEPT ![u] = Idle]
  /\ UNCHANGED <<config, states, binding, toolVars, runVars, issued>>

\* What the row would say without a word from the test
Current(u) == IF use[u].step = "locked" THEN "connected" ELSE status[use[u].conn]

\* _record_test: it waits for the row like any update.
FinishTest(u) ==
  /\ use[u].by = "test" /\ use[u].step \in {"open", "locked"}
  /\ use[u].step = "open" => ~Writing(use[u].conn) /\ ~Shared(use[u].conn)
  /\ \E new \in {"connected", Current(u)} \cup Failure : Finish(u, new)

\* The provider has answered, well or not.
FinishCall(u) ==
  /\ use[u].by \in {"custom", "standard"} /\ use[u].step \in {"open", "locked"}
  /\ Finish(u, Current(u))

\* complete_oauth locks the authorization and deletes it, which nobody sees yet.
BeginComplete(u, c) ==
  /\ use[u] = Idle
  /\ c \in states /\ ~Completing(c)
  /\ use' = [use EXCEPT ![u] = [Idle EXCEPT !.by = "complete", !.conn = c, !.step = "open"]]
  /\ UNCHANGED <<rowVars, binding, toolVars, runVars, issued>>

FinishComplete(u) ==
  LET c == use[u].conn IN
  /\ use[u].by = "complete"
  /\ WriteCredential(c)
  /\ states' = states \ {c}
  /\ after' = after \cup {<<"sync", c>>}
  /\ use' = [use EXCEPT ![u] = Idle]
  /\ UNCHANGED <<config, due, binding, tool, runVars>>

\* Everything is rolled back: the provider refuses or cannot be reached, the
\* capability cannot be executed, the deadline of the call, a lock timeout, a
\* deadlock, a crash.
Abort(u) ==
  /\ use[u] # Idle
  /\ use' = [use EXCEPT ![u] = Idle]
  /\ UNCHANGED <<rowVars, binding, toolVars, runVars, issued>>

\* Time passes.
Age(k) ==
  /\ ServiceOf[k.conn] \in OAuth
  /\ due' = due \cup {k.id}
  /\ UNCHANGED <<status, ref, config, creds, states, binding, toolVars, runVars, use, issued>>

-----------------------------------------------------------------------------
Request(c) ==
  \/ Connect(c) \/ Rotate(c) \/ StartOAuth(c) \/ SwitchOn(c) \/ SwitchOff(c) \/ Disconnect(c)
  \/ Sync(c) \/ Disable(c) \/ Forget(c)

AgentStep(a) ==
  ClearBinding(a) \/ (\E c \in Conn : SetBinding(a, c)) \/ (\E r \in Run : BeginRun(r, a))

Use(u) ==
  \/ \E c \in Conn : Test(u, c) \/ BeginComplete(u, c)
  \/ \E s \in Service : CustomCall(u, s)
  \/ \E r \in Run : StandardCall(u, r)
  \/ Refresh(u) \/ LockRow(u) \/ FinishTest(u) \/ FinishCall(u) \/ FinishComplete(u) \/ Abort(u)

Next ==
  \/ \E c \in Conn : Request(c)
  \/ \E a \in Agent : AgentStep(a)
  \/ \E r \in Run : CheckRun(r) \/ CommitRun(r) \/ AbortRun(r)
  \/ \E u \in Session : Use(u)
  \/ \E k \in creds : Age(k)

Spec == Init /\ [][Next]_vars

-----------------------------------------------------------------------------
TypeOK ==
  /\ status \in [Conn -> {"absent", "pending", "connected", "disabled", "removed"} \cup Failure]
  /\ ref \in [Conn -> Cred \cup {NoCred}]
  /\ config \in [Conn -> Config \cup {NoConfig}]
  /\ creds \in SUBSET Credential /\ due \in SUBSET Cred /\ states \in SUBSET Conn
  /\ binding \in [Agent -> Conn \cup {NoConn}]
  /\ tool \in [Service -> [conn : Conn \cup {NoConn}, enabled : BOOLEAN]]
  /\ after \in SUBSET ({"sync", "disable"} \X Conn)
  /\ stage \in [Run -> {"none", "ready", "checked", "queued"}]
  /\ snapshot \in [Run -> {NoRun} \cup Snapshot]
  /\ use \in [Session -> [by : {"nobody", "test", "custom", "standard", "complete"},
                          conn : Conn \cup {NoConn}, run : Run \cup {NoRun},
                          cred : Cred \cup {NoCred}, prev : Cred \cup {NoCred},
                          step : {"idle", "open", "inserted", "locked"}]]
  /\ issued \in 0 .. MaxCredentials

\* The vault, whatever tests, calls, rotations, authorizations and removals
\* overlap: a reference names a stored credential of its connection; a
\* connection that is removed leaves no credential, authorization or binding;
\* a replaced secret is destroyed (integration_repository.py:402), except the
\* one of a refresh that another refresh overtook; and an authorization that
\* is still open has connected nothing.
VaultConsistent ==
  /\ \A c \in Conn :
       /\ ref[c] # NoCred => [id |-> ref[c], conn |-> c] \in creds
       /\ ~Exists(c) => Stored(c) = {} /\ c \notin states /\ \A a \in Agent : binding[a] # c
       /\ ServiceOf[c] \notin OAuth => \A k \in Stored(c) : k.id = ref[c]
       /\ c \in states => ref[c] = NoCred
  /\ \A k, l \in creds : k.id = l.id => k = l

\* A call of a standard agent works with what its run was queued with, and as
\* long as it lasts its connection is there and the agent bound to it:
\* neither the binding nor the connection goes while the secret is in use
\* (connector_mcp.py, "prove that the run's immutable snapshot still matches").
\* Its configuration was compared when it began, and may be rotated since.
CallsAsQueued ==
  \A u \in Session : use[u].by = "standard" =>
    LET s == snapshot[use[u].run] IN
    /\ use[u].conn = s.conn /\ binding[s.agent] = s.conn /\ Exists(s.conn)
    /\ s.cred # NoCred => use[u].cred = s.cred

\* A run that is queued was queued on the connection as it is at that moment:
\* bound, connected, with the credential and configuration of the snapshot,
\* although these were read earlier.
QueuedAsConnected ==
  [][\A r \in Run : stage[r] # "queued" /\ stage'[r] = "queued" =>
       LET s == snapshot'[r] IN
       /\ binding[s.agent] = s.conn /\ status[s.conn] = "connected"
       /\ s.cred = Frozen(s.conn) /\ s.config = config[s.conn]]_vars
=============================================================================
