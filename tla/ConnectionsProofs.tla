--------------------------- MODULE ConnectionsProofs ---------------------------
(***************************************************************************)
(* Proofs about Connections, for any connections, agents, runs, sessions.  *)
(*                                                                         *)
(* What the row locks are for is the strengthening: a session that waits   *)
(* for a provider says which rows it keeps as they are (Sessions), a run   *)
(* being created which ones it does (Runs), and no row is written by one   *)
(* while another shares it.                                                *)
(***************************************************************************)
EXTENDS Connections, TLAPS

\* A session holds the credential it has inserted and not yet committed.
Uncommitted(u) == use[u].step \in {"inserted", "locked"}

\* Credential ids are used once, those not yet committed included.
IdsOnce ==
  /\ \A k \in creds : k.id <= issued
  /\ \A u \in Session : Uncommitted(u) =>
       /\ use[u].cred \in 1 .. issued /\ use[u].prev \in 0 .. issued
       /\ \A k \in creds : /\ k.id # use[u].cred
                           /\ k.id = use[u].prev => k.conn = use[u].conn
       /\ \A v \in Session : Uncommitted(v) =>
            /\ use[v].prev # use[u].cred
            /\ v # u => use[v].cred # use[u].cred

\* A connection being authorized for the first time is used by nobody else, and
\* one that is refreshed stays.
Sessions ==
  /\ \A c \in states : ServiceOf[c] \in OAuth
  /\ \A u \in Session :
       /\ use[u].step = "idle" <=> use[u] = Idle
       /\ use[u] # Idle => use[u].by # "nobody" /\ use[u].conn \in Conn
       /\ use[u].by = "complete" =>
            /\ use[u].step = "open" /\ use[u].conn \in states
            /\ \A v \in Session : use[v].by = "complete" /\ use[v].conn = use[u].conn => v = u
       /\ use[u].by \in {"test", "custom", "standard"} =>
            status[use[u].conn] # "absent" /\ use[u].conn \notin states
       /\ Uncommitted(u) => ServiceOf[use[u].conn] \in OAuth /\ Exists(use[u].conn)
       /\ use[u].by = "standard" => use[u].run \in Run /\ stage[use[u].run] = "queued"

\* A run being created keeps its agent bound, and from CheckRun on the
\* connection as its snapshot has it.
Runs ==
  \A r \in Run : stage[r] # "none" =>
    /\ snapshot[r] \in Snapshot
    /\ stage[r] = "ready" => binding[snapshot[r].agent] # NoConn
    /\ stage[r] \in {"checked", "queued"} =>
         /\ snapshot[r].conn \in Conn
         /\ snapshot[r].cred # NoCred => ServiceOf[snapshot[r].conn] \notin OAuth
    /\ stage[r] = "checked" =>
         /\ binding[snapshot[r].agent] = snapshot[r].conn
         /\ status[snapshot[r].conn] = "connected"
         /\ snapshot[r].cred = Frozen(snapshot[r].conn)
         /\ snapshot[r].config = config[snapshot[r].conn]
         /\ ~Writing(snapshot[r].conn)

Tools == \A s \in Service : tool[s].enabled => tool[s].conn \in Conn

ConnectionsInv ==
  TypeOK /\ VaultConsistent /\ CallsAsQueued /\ IdsOnce /\ Sessions /\ Runs /\ Tools

-----------------------------------------------------------------------------
\* The shapes of the states and of the steps

LEMMA InitHolds == Init => ConnectionsInv
<1> SUFFICES ASSUME Init PROVE ConnectionsInv
  OBVIOUS
<1> USE ConnectionsAssumption DEF Init
<1>1. TypeOK
  BY DEF TypeOK, Idle, Cred, NoCred, NoConfig
<1>2. VaultConsistent
  BY DEF VaultConsistent, Exists, Stored, NoCred
<1>3. \A u \in Session : use[u] = Idle /\ Idle.by = "nobody" /\ Idle.step = "idle"
  BY DEF Idle
<1>4. CallsAsQueued /\ IdsOnce /\ Sessions
  BY <1>3 DEF CallsAsQueued, IdsOnce, Sessions, Uncommitted
<1>5. Runs /\ Tools
  BY DEF Runs, Tools
<1> QED BY <1>1, <1>2, <1>4, <1>5 DEF ConnectionsInv

\* The records, by name
Doing == [by : {"nobody", "test", "custom", "standard", "complete"},
          conn : Conn \cup {NoConn}, run : Run \cup {NoRun},
          cred : Cred \cup {NoCred}, prev : Cred \cup {NoCred},
          step : {"idle", "open", "inserted", "locked"}]
Target == [conn : Conn \cup {NoConn}, enabled : BOOLEAN]
States == {"absent", "pending", "connected", "disabled", "removed"} \cup Failure

RowTypes ==
  /\ status \in [Conn -> States]
  /\ ref \in [Conn -> Cred \cup {NoCred}]
  /\ config \in [Conn -> Config \cup {NoConfig}]
  /\ creds \in SUBSET Credential /\ due \in SUBSET Cred /\ states \in SUBSET Conn
  /\ issued \in 0 .. MaxCredentials
OtherTypes ==
  /\ binding \in [Agent -> Conn \cup {NoConn}]
  /\ tool \in [Service -> Target]
  /\ after \in SUBSET ({"sync", "disable"} \X Conn)
  /\ stage \in [Run -> {"none", "ready", "checked", "queued"}]
  /\ snapshot \in [Run -> {NoRun} \cup Snapshot]

LEMMA TypesByName ==
  /\ TypeOK <=> RowTypes /\ OtherTypes /\ use \in [Session -> Doing]
  /\ TypeOK' <=> RowTypes' /\ OtherTypes' /\ use' \in [Session -> Doing]
BY DEF TypeOK, RowTypes, OtherTypes, Doing, Target, States

LEMMA IdleDoing ==
  /\ Idle \in Doing
  /\ Idle.by = "nobody" /\ Idle.conn = NoConn /\ Idle.run = NoRun /\ Idle.cred = NoCred
  /\ Idle.prev = NoCred /\ Idle.step = "idle"
BY DEF Idle, Doing

\* What a session does before and after a step, field by field.
LEMMA DoingFields ==
  ASSUME NEW d \in Doing
  PROVE  /\ d.by \in {"nobody", "test", "custom", "standard", "complete"}
         /\ d.conn \in Conn \cup {NoConn} /\ d.run \in Run \cup {NoRun}
         /\ d.cred \in Cred \cup {NoCred} /\ d.prev \in Cred \cup {NoCred}
         /\ d.step \in {"idle", "open", "inserted", "locked"}
BY DEF Doing

LEMMA Beginning ==
  ASSUME NEW d \in Doing, NEW c \in Conn
  PROVE  LET e == [d EXCEPT !.by = "complete", !.conn = c, !.step = "open"] IN
         /\ e \in Doing /\ e.by = "complete" /\ e.conn = c /\ e.run = d.run
         /\ e.cred = d.cred /\ e.prev = d.prev /\ e.step = "open"
BY DEF Doing

LEMMA Locking ==
  ASSUME NEW d \in Doing
  PROVE  LET e == [d EXCEPT !.step = "locked"] IN
         /\ e \in Doing /\ e.by = d.by /\ e.conn = d.conn /\ e.run = d.run
         /\ e.cred = d.cred /\ e.prev = d.prev /\ e.step = "locked"
BY DEF Doing

LEMMA Opening ==
  ASSUME NEW b \in {"test", "custom", "standard"}, NEW c \in Conn, NEW r \in Run \cup {NoRun},
         NEW k \in Cred \cup {NoCred}
  PROVE  LET e == [by |-> b, conn |-> c, run |-> r, cred |-> k, prev |-> NoCred,
                   step |-> "open"] IN
         /\ e \in Doing /\ e.by = b /\ e.conn = c /\ e.run = r
         /\ e.cred = k /\ e.prev = NoCred /\ e.step = "open"
BY DEF Doing
\* How each step changes what a session is doing, field by field.
Turns(u) == use' \in [Session -> Doing] /\ \A v \in Session \ {u} : use'[v] = use[v]

LEMMA Turning ==
  ASSUME TypeOK, NEW u \in Session, NEW e \in Doing, use' = [use EXCEPT ![u] = e]
  PROVE  Turns(u) /\ use'[u] = e
BY TypesByName DEF Turns

LEMMA Opens ==
  ASSUME TypeOK, NEW u \in Session, NEW b \in {"test", "custom", "standard"}, NEW c \in Conn,
         NEW r \in Run \cup {NoRun}, Open(u, b, c, r)
  PROVE  /\ Turns(u) /\ use[u] = Idle
         /\ use'[u].by = b /\ use'[u].conn = c /\ use'[u].run = r /\ use'[u].cred = ref[c]
         /\ use'[u].step = "open"
         /\ Usable(c) /\ UNCHANGED <<rowVars, binding, toolVars, runVars, issued>>
<1> DEFINE e == [by |-> b, conn |-> c, run |-> r, cred |-> ref[c], prev |-> NoCred,
                 step |-> "open"]
<1>1. use' = [use EXCEPT ![u] = e]
  BY DEF Open
<1>2. ref[c] \in Cred \cup {NoCred}
  BY DEF TypeOK
<1>3. e \in Doing
  BY <1>2, Opening
<1>4. use'[u] = e /\ Turns(u)
  BY <1>1, <1>3, Turning
<1> QED BY <1>4 DEF Open

LEMMA Begins ==
  ASSUME TypeOK, NEW u \in Session, NEW c \in Conn, BeginComplete(u, c)
  PROVE  /\ Turns(u) /\ use[u] = Idle
         /\ use'[u].by = "complete" /\ use'[u].conn = c /\ use'[u].step = "open"
         /\ c \in states /\ UNCHANGED <<rowVars, binding, toolVars, runVars, issued>>
<1> DEFINE e == [Idle EXCEPT !.by = "complete", !.conn = c, !.step = "open"]
<1>1. e \in Doing /\ e.by = "complete" /\ e.conn = c /\ e.step = "open"
  BY IdleDoing, Beginning
<1>2. use' = [use EXCEPT ![u] = e]
  BY DEF BeginComplete
<1> HIDE DEF e
<1> QED BY <1>1, <1>2, Turning DEF BeginComplete

LEMMA Refreshes ==
  ASSUME TypeOK, Sessions, NEW u \in Session, Refresh(u)
  PROVE  /\ Turns(u) /\ use[u].by \in {"test", "custom", "standard"} /\ use[u].conn \in Conn
         /\ use[u].step = "open"
         /\ use'[u].by = use[u].by /\ use'[u].conn = use[u].conn /\ use'[u].run = use[u].run
         /\ use'[u].cred = issued + 1 /\ use'[u].prev = ref[use[u].conn]
         /\ use'[u].step = "inserted"
         /\ ServiceOf[use[u].conn] \in OAuth /\ Exists(use[u].conn)
         /\ issued < MaxCredentials /\ issued' = issued + 1
         /\ UNCHANGED <<rowVars, binding, toolVars, runVars>>
<1>1. /\ use[u].step = "open" /\ use[u].by # "complete" /\ issued < MaxCredentials
      /\ use' = [use EXCEPT ![u].cred = issued + 1, ![u].prev = ref[use[u].conn],
                            ![u].step = "inserted"]
  BY DEF Refresh
<1>2. use[u] \in Doing /\ use[u].conn \in Conn /\ use[u].by \in {"test", "custom", "standard"}
  <2>1. use[u] \in Doing
    BY TypesByName
  <2>2. use[u] # Idle
    BY <1>1, IdleDoing
  <2> QED BY <1>1, <2>1, <2>2, DoingFields DEF Sessions
<1>3. issued + 1 \in Cred /\ ref[use[u].conn] \in Cred \cup {NoCred}
  BY <1>1, <1>2, ConnectionsAssumption DEF TypeOK, Cred
<1> DEFINE e == [use[u] EXCEPT !.cred = issued + 1, !.prev = ref[use[u].conn],
                            !.step = "inserted"]
<1>4. /\ e \in Doing
      /\ e.by = use[u].by /\ e.conn = use[u].conn /\ e.run = use[u].run
      /\ e.cred = issued + 1 /\ e.prev = ref[use[u].conn] /\ e.step = "inserted"
  BY <1>2, <1>3 DEF Doing
<1>5. use' = [use EXCEPT ![u] = e]
  BY <1>1, TypesByName
<1> HIDE DEF e
<1> QED BY <1>1, <1>2, <1>4, <1>5, Turning DEF Refresh

LEMMA Locks ==
  ASSUME TypeOK, NEW u \in Session, LockRow(u)
  PROVE  /\ Turns(u) /\ use[u].step = "inserted"
         /\ use'[u].by = use[u].by /\ use'[u].conn = use[u].conn /\ use'[u].run = use[u].run
         /\ use'[u].cred = use[u].cred /\ use'[u].prev = use[u].prev /\ use'[u].step = "locked"
         /\ ~Writing(use[u].conn) /\ ~Shared(use[u].conn)
         /\ UNCHANGED <<rowVars, binding, toolVars, runVars, issued>>
<1>1. use[u] \in Doing
  BY TypesByName
<1>2. PICK e \in Doing :
        /\ e = [use[u] EXCEPT !.step = "locked"]
        /\ e.by = use[u].by /\ e.conn = use[u].conn /\ e.run = use[u].run
        /\ e.cred = use[u].cred /\ e.prev = use[u].prev /\ e.step = "locked"
  BY <1>1, Locking
<1>3. use' = [use EXCEPT ![u] = e]
  BY <1>2, TypesByName DEF LockRow
<1> QED BY <1>2, <1>3, Turning DEF LockRow

LEMMA Ends ==
  ASSUME TypeOK, NEW u \in Session, use' = [use EXCEPT ![u] = Idle]
  PROVE  Turns(u) /\ use'[u] = Idle
BY IdleDoing, Turning
\* What the uses of connections do, one by one.
LEMMA UseCases ==
  ASSUME ConnectionsInv, NEW u \in Session, Use(u)
  PROVE  \/ \E b \in {"test", "custom", "standard"}, c \in Conn, r \in Run \cup {NoRun} :
              /\ Open(u, b, c, r)
              /\ b = "standard" => r \in Run /\ stage[r] = "queued" /\ AsQueued(r)
                                   /\ c = snapshot[r].conn
         \/ \E c \in Conn : BeginComplete(u, c)
         \/ Refresh(u) \/ LockRow(u) \/ FinishTest(u) \/ FinishCall(u) \/ FinishComplete(u)
         \/ Abort(u)
<1>1. ASSUME NEW s \in Service, CustomCall(u, s)
      PROVE  \E c \in Conn : Open(u, "custom", c, NoRun)
  BY <1>1 DEF CustomCall, ConnectionsInv, Tools
<1>2. ASSUME NEW r \in Run, StandardCall(u, r)
      PROVE  /\ Open(u, "standard", snapshot[r].conn, r) /\ snapshot[r].conn \in Conn
             /\ stage[r] = "queued" /\ AsQueued(r)
  BY <1>2 DEF StandardCall, ConnectionsInv, Runs
<1> QED BY <1>1, <1>2 DEF Use, Test

\* What a test or a call that ends has written
LEMMA Finishes ==
  ASSUME ConnectionsInv, NEW u \in Session, FinishTest(u) \/ FinishCall(u)
  PROVE  /\ Turns(u) /\ use'[u] = Idle /\ use[u].conn \in Conn
         /\ use[u].by \in {"test", "custom", "standard"} /\ use[u].step \in {"open", "locked"}
         /\ \E new \in States \ {"absent", "removed"} : 
              status' = [status EXCEPT ![use[u].conn] = IF Exists(use[u].conn) THEN new ELSE @]
         /\ use[u].step = "open" => UNCHANGED <<creds, due, ref>>
         /\ use[u].step = "locked" =>
              /\ Uncommitted(u)
              /\ creds' = Renewed(u) /\ due' = due \ {use[u].prev}
              /\ ref' = [ref EXCEPT ![use[u].conn] = use[u].cred]
         /\ UNCHANGED <<config, states, binding, toolVars, runVars, issued>>
<1>1. PICK new \in {"connected", Current(u)} \cup Failure : Finish(u, new)
  BY DEF FinishTest, FinishCall
<1>2. use[u].by \in {"test", "custom", "standard"} /\ use[u].step \in {"open", "locked"}
  BY DEF FinishTest, FinishCall
<1>3. use[u].conn \in Conn
  BY <1>2, IdleDoing DEF ConnectionsInv, Sessions
<1>4. use'[u] = Idle /\ Turns(u)
  BY <1>1, Ends DEF Finish, ConnectionsInv
<1>5. Exists(use[u].conn) => new \in States \ {"absent", "removed"}
  <2>1. status[use[u].conn] \in States
    BY <1>3 DEF ConnectionsInv, TypeOK, States
  <2> QED BY <2>1, ConnectionsAssumption DEF Current, Exists, States
<1>6. \E n \in States \ {"absent", "removed"} : 
        status' = [status EXCEPT ![use[u].conn] = IF Exists(use[u].conn) THEN n ELSE @]
  <2>1. status' = [status EXCEPT ![use[u].conn] = IF Exists(use[u].conn) THEN new ELSE @]
    BY <1>1 DEF Finish
  <2>2. CASE Exists(use[u].conn)
    BY <1>5, <2>1, <2>2
  <2>3. CASE ~Exists(use[u].conn)
    <3>1. "connected" \in States \ {"absent", "removed"}
      BY DEF States
    <3> QED BY <2>1, <2>3, <3>1
  <2> QED BY <2>2, <2>3
<1> QED BY <1>1, <1>2, <1>3, <1>4, <1>6 DEF Finish, Uncommitted

LEMMA Writes ==
  ASSUME TypeOK, NEW c \in Conn, WriteCredential(c)
  PROVE  /\ status' \in [Conn -> States] /\ ref' \in [Conn -> Cred \cup {NoCred}]
         /\ creds' \in SUBSET Credential /\ issued' \in 0 .. MaxCredentials
<1>1. issued \in 0 .. MaxCredentials /\ issued < MaxCredentials
  BY DEF TypeOK, WriteCredential
<1>2. issued + 1 \in Cred /\ issued + 1 \in 0 .. MaxCredentials
  BY <1>1, ConnectionsAssumption DEF Cred
<1>3. [id |-> issued + 1, conn |-> c] \in Credential
  BY <1>2 DEF Credential
<1> QED BY <1>2, <1>3 DEF TypeOK, WriteCredential, States

LEMMA TypeStep ==
  ASSUME ConnectionsInv, [Next]_vars
  PROVE  TypeOK'
<1> SUFFICES RowTypes' /\ OtherTypes' /\ use' \in [Session -> Doing]
  BY TypesByName
<1>0. RowTypes /\ OtherTypes /\ use \in [Session -> Doing]
  BY TypesByName DEF ConnectionsInv
<1> USE ConnectionsAssumption DEF RowTypes, OtherTypes, rowVars, toolVars, runVars
<1>1. ASSUME NEW c \in Conn, Connect(c) \/ Rotate(c)
      PROVE RowTypes' /\ OtherTypes' /\ use' \in [Session -> Doing]
  <2>1. WriteCredential(c)
    BY <1>1 DEF Connect, Rotate
  <2>2. config' \in [Conn -> Config \cup {NoConfig}]
    BY <1>0, <1>1 DEF Connect, Rotate
  <2>3. /\ status' \in [Conn -> States] /\ ref' \in [Conn -> Cred \cup {NoCred}]
        /\ creds' \in SUBSET Credential /\ issued' \in 0 .. MaxCredentials
    BY <2>1, Writes DEF ConnectionsInv
  <2>4. after' \in SUBSET ({"sync", "disable"} \X Conn)
    BY <1>0, <1>1 DEF Connect, Rotate
  <2> QED BY <1>0, <1>1, <2>2, <2>3, <2>4 DEF Connect, Rotate
<1>2. ASSUME NEW c \in Conn, StartOAuth(c) \/ SwitchOn(c) \/ SwitchOff(c)
      PROVE RowTypes' /\ OtherTypes' /\ use' \in [Session -> Doing]
  BY <1>0, <1>2 DEF StartOAuth, SwitchOn, SwitchOff, States
<1>3. ASSUME NEW c \in Conn, Disconnect(c)
      PROVE RowTypes' /\ OtherTypes' /\ use' \in [Session -> Doing]
  BY <1>0, <1>3 DEF Disconnect, States, NoCred, NoConfig
<1>4. ASSUME NEW c \in Conn, Sync(c) \/ Disable(c) \/ Forget(c)
      PROVE RowTypes' /\ OtherTypes' /\ use' \in [Session -> Doing]
  <2>1. [conn |-> c, enabled |-> TRUE] \in Target
    BY DEF Target
  <2>2. ASSUME NEW s \in Service
        PROVE  [tool[s] EXCEPT !.enabled = @ /\ tool[s].conn # c] \in Target
    <3>1. \A t \in Target, b \in BOOLEAN : [t EXCEPT !.enabled = b] \in Target
      BY DEF Target
    <3>2. (tool[s].enabled /\ tool[s].conn # c) \in BOOLEAN /\ tool[s] \in Target
      BY <1>0
    <3> QED BY <3>1, <3>2
  <2>3. CASE Disable(c)
    <3>1. tool' = [s \in Service |-> [tool[s] EXCEPT !.enabled = @ /\ tool[s].conn # c]]
      BY <2>3 DEF Disable
    <3>2. tool' \in [Service -> Target]
      BY <2>2, <3>1
    <3> QED BY <1>0, <2>3, <3>2 DEF Disable
  <2>4. CASE Sync(c)
    BY <1>0, <2>1, <2>4 DEF Sync
  <2>5. CASE Forget(c)
    BY <1>0, <2>5 DEF Forget
  <2> QED BY <1>4, <2>3, <2>4, <2>5
<1>5. ASSUME NEW a \in Agent, AgentStep(a)
      PROVE RowTypes' /\ OtherTypes' /\ use' \in [Session -> Doing]
  <2>1. [agent |-> a, conn |-> NoConn, cred |-> NoCred, config |-> NoConfig] \in Snapshot
    BY DEF Snapshot
  <2> QED BY <1>0, <1>5, <2>1 DEF AgentStep, SetBinding, ClearBinding, BeginRun
<1>6. ASSUME NEW r \in Run, CheckRun(r) \/ CommitRun(r) \/ AbortRun(r)
      PROVE RowTypes' /\ OtherTypes' /\ use' \in [Session -> Doing]
  <2>1. ASSUME stage[r] = "ready"
        PROVE  LET a == snapshot[r].agent
                   c == binding[a] IN
               [agent |-> a, conn |-> c, cred |-> Frozen(c), config |-> config[c]] \in Snapshot
    <3>1. snapshot[r].agent \in Agent /\ binding[snapshot[r].agent] \in Conn
      BY <1>0, <2>1 DEF ConnectionsInv, Runs, Snapshot
    <3> QED BY <1>0, <3>1 DEF Snapshot, Frozen
  <2> QED BY <1>0, <1>6, <2>1 DEF CheckRun, CommitRun, AbortRun
<1>7. ASSUME NEW u \in Session, Use(u)
      PROVE RowTypes' /\ OtherTypes' /\ use' \in [Session -> Doing]
  <2> USE DEF ConnectionsInv
  <2>1. ASSUME NEW b \in {"test", "custom", "standard"}, NEW c \in Conn, NEW r \in Run \cup {NoRun},
               Open(u, b, c, r)
        PROVE  RowTypes' /\ OtherTypes' /\ use' \in [Session -> Doing]
    BY <1>0, <2>1, Opens DEF Turns
  <2>2. ASSUME NEW c \in Conn, BeginComplete(u, c)
        PROVE  RowTypes' /\ OtherTypes' /\ use' \in [Session -> Doing]
    BY <1>0, <2>2, Begins DEF Turns
  <2>3. CASE Refresh(u)
    BY <1>0, <2>3, Refreshes DEF Turns
  <2>4. CASE LockRow(u)
    BY <1>0, <2>4, Locks DEF Turns
  <2>5. CASE FinishTest(u) \/ FinishCall(u)
    <3>1. use[u].step = "locked" => creds' \in SUBSET Credential /\ use[u].cred \in Cred
      <4>1. use[u].step = "locked" => use[u].cred \in Cred
        BY <1>0 DEF IdsOnce, Uncommitted, Cred
      <4>2. use[u].conn \in Conn
        BY <2>5, Finishes
      <4>3. use[u].step = "locked" => creds' = Renewed(u)
        BY <2>5, Finishes
      <4> QED BY <1>0, <4>1, <4>2, <4>3 DEF Renewed, Credential
    <3>2. PICK n \in States : 
            status' = [status EXCEPT ![use[u].conn] = IF Exists(use[u].conn) THEN n ELSE @]
      BY <2>5, Finishes
    <3>3. status' \in [Conn -> States]
      BY <1>0, <3>2
    <3>4. /\ ref' \in [Conn -> Cred \cup {NoCred}]
          /\ due' \in SUBSET Cred /\ creds' \in SUBSET Credential
      BY <1>0, <2>5, <3>1, Finishes
    <3> QED BY <1>0, <2>5, <3>3, <3>4, Finishes DEF Turns
  <2>6. CASE FinishComplete(u)
    <3>1. use[u].conn \in Conn
      BY <2>6, IdleDoing DEF FinishComplete, Sessions
    <3>2. use' \in [Session -> Doing]
      BY <2>6, Ends DEF FinishComplete, Turns
    <3> QED BY <1>0, <2>6, <3>1, <3>2 DEF FinishComplete, WriteCredential, Credential, Cred, States
  <2>7. CASE Abort(u)
    BY <1>0, <2>7, Ends DEF Abort, Turns
  <2> QED BY <1>7, <2>1, <2>2, <2>3, <2>4, <2>5, <2>6, <2>7, UseCases
<1>8. ASSUME NEW k \in creds, Age(k)
      PROVE RowTypes' /\ OtherTypes' /\ use' \in [Session -> Doing]
  BY <1>0, <1>8 DEF Age, Credential
<1>9. CASE UNCHANGED vars
  BY <1>0, <1>9 DEF vars
<1> QED BY <1>1, <1>2, <1>3, <1>4, <1>5, <1>6, <1>7, <1>8, <1>9 DEF Next, Request
-----------------------------------------------------------------------------
\* The vault

\* A step that stores and removes no credential, or only inserts one.
Calm ==
  /\ UNCHANGED <<ref, creds, states, issued>>
  /\ \A c \in Conn : Exists(c) => status'[c] \notin {"absent", "removed"}
  /\ \A a \in Agent : \/ binding'[a] \in {binding[a], NoConn}
                      \/ binding'[a] \in Conn /\ Exists(binding'[a])
  /\ \A u \in Session : use'[u].step \in {"inserted", "locked"} =>
       /\ Uncommitted(u)
       /\ use'[u].cred = use[u].cred /\ use'[u].prev = use[u].prev
       /\ use'[u].conn = use[u].conn

LEMMA CalmKeeps ==
  ASSUME ConnectionsInv, Calm
  PROVE  VaultConsistent' /\ IdsOnce'
<1>1. VaultConsistent'
  BY ConnectionsAssumption DEF ConnectionsInv, Calm, VaultConsistent, Exists, Stored
<1>2. IdsOnce'
  BY DEF ConnectionsInv, Calm, IdsOnce, Uncommitted
<1> QED BY <1>1, <1>2

LEMMA WriteKeeps ==
  ASSUME ConnectionsInv, NEW c \in Conn, WriteCredential(c), UNCHANGED binding,
         states' \subseteq states \ {c},
         \A u \in Session : use'[u].step \in {"inserted", "locked"} => use'[u] = use[u]
  PROVE  VaultConsistent' /\ IdsOnce'
<1> DEFINE n == [id |-> issued + 1, conn |-> c]
<1>0. /\ issued \in Nat /\ issued' = issued + 1
      /\ n.id = issued + 1 /\ n.conn = c
      /\ creds' = { k \in creds : k.id # ref[c] } \cup {n}
      /\ ref' = [ref EXCEPT ![c] = issued + 1] /\ status' = [status EXCEPT ![c] = "connected"]
      /\ \A k \in creds : k.id \in 1 .. issued /\ k = [id |-> k.id, conn |-> k.conn]
  BY ConnectionsAssumption DEF WriteCredential, ConnectionsInv, TypeOK, IdsOnce, Credential, Cred
<1> HIDE DEF n
<1>1. ASSUME NEW d \in Conn
      PROVE  /\ ref'[d] # NoCred => [id |-> ref'[d], conn |-> d] \in creds'
             /\ status'[d] \in {"absent", "removed"} =>
                  { k \in creds' : k.conn = d } = {} /\ d \notin states'
                  /\ \A a \in Agent : binding'[a] # d
             /\ ServiceOf[d] \notin OAuth => \A k \in creds' : k.conn = d => k.id = ref'[d]
             /\ d \in states' => ref'[d] = NoCred
  <2>1. CASE d = c
    <3>1. ref'[d] = issued + 1 /\ status'[d] = "connected" /\ d \notin states'
      BY <1>0, <2>1 DEF ConnectionsInv, TypeOK
    <3>2. [id |-> ref'[d], conn |-> d] \in creds'
      BY <1>0, <2>1, <3>1 DEF n
    <3>3. ServiceOf[d] \notin OAuth => \A k \in creds' : k.conn = d => k.id = ref'[d]
      BY <1>0, <2>1, <3>1 DEF ConnectionsInv, VaultConsistent, Stored
    <3> QED BY <3>1, <3>2, <3>3
  <2>2. CASE d # c
    <3>1. ref'[d] = ref[d] /\ status'[d] = status[d]
      BY <1>0, <2>2 DEF ConnectionsInv, TypeOK
    <3>2. { k \in creds' : k.conn = d } \subseteq Stored(d)
      BY <1>0, <2>2 DEF Stored
    <3>3. ref[d] # NoCred => [id |-> ref[d], conn |-> d] \in creds'
      <4>1. SUFFICES ASSUME ref[d] # NoCred PROVE [id |-> ref[d], conn |-> d] \in creds'
        OBVIOUS
      <4>2. [id |-> ref[d], conn |-> d] \in creds
        BY <4>1 DEF ConnectionsInv, VaultConsistent
      <4>3. ref[d] # ref[c]
        <5>1. SUFFICES ASSUME ref[d] = ref[c] PROVE FALSE
          OBVIOUS
        <5>2. [id |-> ref[c], conn |-> c] \in creds
          BY <4>1, <5>1 DEF ConnectionsInv, VaultConsistent
        <5>3. [id |-> ref[c], conn |-> c] = [id |-> ref[d], conn |-> d]
          BY <4>2, <5>1, <5>2 DEF ConnectionsInv, VaultConsistent
        <5> QED BY <2>2, <5>3
      <4> QED BY <1>0, <4>2, <4>3
    <3> QED BY <3>1, <3>2, <3>3 DEF ConnectionsInv, VaultConsistent, Exists, Stored
  <2> QED BY <2>1, <2>2
<1>2. \A k, l \in creds' : k.id = l.id => k = l
  BY <1>0 DEF ConnectionsInv, VaultConsistent
<1>3. VaultConsistent'
  BY <1>1, <1>2 DEF VaultConsistent, Exists, Stored
<1>4. IdsOnce'
  <2>1. \A u \in Session : Uncommitted(u)' => Uncommitted(u) /\ use'[u] = use[u]
    BY DEF Uncommitted
  <2>2. \A k \in creds' : k.id <= issued'
    BY <1>0
  <2>3. \A u \in Session : Uncommitted(u) =>
          /\ use[u].cred \in 1 .. issued' /\ use[u].prev \in 0 .. issued'
          /\ \A k \in creds' : /\ k.id # use[u].cred
                               /\ k.id = use[u].prev => k.conn = use[u].conn
    BY <1>0 DEF ConnectionsInv, IdsOnce
  <2> QED BY <2>1, <2>2, <2>3 DEF ConnectionsInv, IdsOnce
<1> QED BY <1>3, <1>4
LEMMA RefreshKeeps ==
  ASSUME ConnectionsInv, NEW u \in Session, Refresh(u)
  PROVE  VaultConsistent' /\ IdsOnce'
<1> USE DEF ConnectionsInv
<1>1. /\ use'[u].cred = issued + 1 /\ use'[u].prev = ref[use[u].conn]
      /\ use'[u].conn = use[u].conn /\ use[u].conn \in Conn
      /\ issued' = issued + 1 /\ UNCHANGED <<rowVars, binding>>
      /\ \A v \in Session \ {u} : use'[v] = use[v]
  BY Refreshes DEF Turns
<1>2. VaultConsistent'
  BY <1>1 DEF VaultConsistent, Exists, Stored, rowVars
<1>3. /\ issued \in Nat /\ ref[use[u].conn] \in 0 .. issued
      /\ \A k \in creds : k.id = ref[use[u].conn] => k.conn = use[u].conn
      /\ \A v \in Session : Uncommitted(v) => ref[use[u].conn] # use[v].cred
  <2>1. issued \in Nat /\ ref[use[u].conn] \in Nat
    BY <1>1, ConnectionsAssumption DEF TypeOK, Cred, NoCred
  <2>2. CASE ref[use[u].conn] = NoCred
    BY <2>1, <2>2 DEF IdsOnce, TypeOK, Credential, Cred, NoCred
  <2>3. CASE ref[use[u].conn] # NoCred
    <3> DEFINE k == [id |-> ref[use[u].conn], conn |-> use[u].conn]
    <3>1. k \in creds /\ k.id = ref[use[u].conn] /\ k.conn = use[u].conn
      BY <1>1, <2>3 DEF VaultConsistent
    <3> HIDE DEF k
    <3> QED BY <2>1, <3>1 DEF VaultConsistent, IdsOnce
  <2> QED BY <2>2, <2>3
<1>4. IdsOnce'
  <2>1. creds' = creds
    BY <1>1 DEF rowVars
  <2>2. \A v \in Session \ {u} : Uncommitted(v)' => Uncommitted(v) /\ use'[v] = use[v]
    BY <1>1 DEF Uncommitted
  <2>3. \A v \in Session : Uncommitted(v) =>
          use[v].cred \in 1 .. issued /\ use[v].prev \in 0 .. issued
    BY DEF IdsOnce
  <2>4. \A k \in creds' : k.id <= issued'
    BY <1>1, <1>3, <2>1 DEF IdsOnce, TypeOK, Credential, Cred
  <2>5. \A v \in Session : Uncommitted(v)' =>
          /\ use'[v].cred \in 1 .. issued' /\ use'[v].prev \in 0 .. issued'
          /\ \A k \in creds' : /\ k.id # use'[v].cred
                               /\ k.id = use'[v].prev => k.conn = use'[v].conn
    BY <1>1, <1>3, <2>1, <2>2 DEF IdsOnce, TypeOK, Credential, Cred
  <2>6. \A v, w \in Session : Uncommitted(v)' /\ Uncommitted(w)' =>
          /\ use'[w].prev # use'[v].cred
          /\ w # v => use'[w].cred # use'[v].cred
    BY <1>1, <1>3, <2>2, <2>3 DEF IdsOnce
  <2> QED BY <2>4, <2>5, <2>6 DEF IdsOnce
<1> QED BY <1>2, <1>4

\* A refresh that commits destroys the secret it replaces and no other.
LEMMA CommitKeeps ==
  ASSUME ConnectionsInv, NEW u \in Session, FinishTest(u) \/ FinishCall(u), use[u].step = "locked"
  PROVE  VaultConsistent' /\ IdsOnce'
<1> USE DEF ConnectionsInv
<1> DEFINE c == use[u].conn
           n == [id |-> use[u].cred, conn |-> use[u].conn]
<1>1. /\ use'[u] = Idle /\ Uncommitted(u) /\ c \in Conn
      /\ creds' = { k \in creds : k.id # use[u].prev } \cup {n}
      /\ ref' = [ref EXCEPT ![c] = use[u].cred]
      /\ UNCHANGED <<states, binding, issued>>
      /\ \A v \in Session \ {u} : use'[v] = use[v]
  BY Finishes DEF Turns, Renewed
<1>2. /\ n.id = use[u].cred /\ n.conn = c
      /\ Exists(c) /\ ServiceOf[c] \in OAuth /\ c \notin states
  <2>1. use[u].by \in {"test", "custom", "standard"}
    BY Finishes
  <2> QED BY <1>1, <2>1 DEF Sessions
<1>3. /\ use[u].cred \in 1 .. issued /\ use[u].prev \in 0 .. issued
      /\ \A k \in creds : /\ k.id # use[u].cred
                          /\ k.id = use[u].prev => k.conn = c
      /\ \A v \in Session : Uncommitted(v) =>
           /\ use[v].prev # use[u].cred
           /\ v # u => use[v].cred # use[u].cred
  BY <1>1 DEF IdsOnce
<1>4. \A d \in Conn : /\ Exists(d)' <=> Exists(d)
                      /\ d # c => ref'[d] = ref[d]
                      /\ ref'[c] = use[u].cred
  <2>1. PICK new \in States \ {"absent", "removed"} : 
          status' = [status EXCEPT ![c] = IF Exists(c) THEN new ELSE @]
    BY Finishes
  <2> QED BY <1>1, <1>2, <2>1 DEF TypeOK, Exists
<1> HIDE DEF n, c
<1>5. VaultConsistent'
  <2>1. ASSUME NEW d \in Conn, ref'[d] # NoCred PROVE [id |-> ref'[d], conn |-> d] \in creds'
    <3>1. CASE d = c
      BY <1>1, <1>2, <1>4, <3>1 DEF n, c
    <3>2. CASE d # c
      <4> DEFINE k == [id |-> ref[d], conn |-> d]
      <4>1. k \in creds /\ k.id = ref[d] /\ k.conn = d
        BY <1>4, <2>1, <3>2 DEF VaultConsistent
      <4>2. k.id # use[u].prev
        BY <1>3, <3>2, <4>1
      <4> QED BY <1>1, <1>4, <3>2, <4>1, <4>2
    <3> QED BY <3>1, <3>2
  <2>2. \A d \in Conn : d # c => { k \in creds' : k.conn = d } \subseteq Stored(d)
    BY <1>1, <1>2 DEF Stored
  <2>3. \A k, l \in creds' : k.id = l.id => k = l
    BY <1>1, <1>2, <1>3 DEF VaultConsistent
  <2>4. ASSUME NEW d \in Conn
        PROVE  /\ ~Exists(d)' => Stored(d)' = {} /\ d \notin states'
                                 /\ \A a \in Agent : binding'[a] # d
               /\ ServiceOf[d] \notin OAuth => \A k \in Stored(d)' : k.id = ref'[d]
               /\ d \in states' => ref'[d] = NoCred
    <3>1. CASE d = c
      BY <1>1, <1>2, <1>4, <3>1
    <3>2. CASE d # c
      <4>1. Stored(d)' \subseteq Stored(d)
        BY <2>2, <3>2 DEF Stored
      <4> QED BY <1>1, <1>4, <3>2, <4>1 DEF VaultConsistent
    <3> QED BY <3>1, <3>2
  <2> QED BY <2>1, <2>3, <2>4 DEF VaultConsistent
<1>6. IdsOnce'
  <2>1. \A v \in Session : Uncommitted(v)' => v # u /\ Uncommitted(v) /\ use'[v] = use[v]
    BY <1>1, IdleDoing DEF Uncommitted
  <2>2. \A k \in creds' : k.id <= issued'
    BY <1>1, <1>2, <1>3 DEF IdsOnce
  <2>3. \A v \in Session : Uncommitted(v) /\ v # u =>
          \A k \in creds' : /\ k.id # use[v].cred
                            /\ k.id = use[v].prev => k.conn = use[v].conn
    BY <1>1, <1>2, <1>3 DEF IdsOnce
  <2> QED BY <1>1, <2>1, <2>2, <2>3 DEF IdsOnce
<1> QED BY <1>5, <1>6

LEMMA DisconnectKeeps ==
  ASSUME ConnectionsInv, NEW c \in Conn, Disconnect(c)
  PROVE  VaultConsistent' /\ IdsOnce'
<1> USE DEF ConnectionsInv
<1>1. /\ status' = [status EXCEPT ![c] = "removed"] /\ ref' = [ref EXCEPT ![c] = NoCred]
      /\ creds' = creds \ Stored(c) /\ states' = states \ {c}
      /\ UNCHANGED <<binding, use, issued>>
      /\ \A a \in Agent : binding[a] # c
  BY DEF Disconnect
<1>2. \A d \in Conn : d # c => ref'[d] = ref[d] /\ status'[d] = status[d] /\ Stored(d)' = Stored(d)
  BY <1>1 DEF TypeOK, Stored
<1>3. ref'[c] = NoCred /\ status'[c] = "removed" /\ Stored(c)' = {}
  BY <1>1 DEF TypeOK, Stored
<1>4. \A d \in Conn \ {c} : ref[d] # NoCred => [id |-> ref[d], conn |-> d] \in creds'
  BY <1>1 DEF VaultConsistent, Stored
<1>5. VaultConsistent'
  BY <1>1, <1>2, <1>3, <1>4 DEF VaultConsistent, Exists
<1>6. IdsOnce'
  BY <1>1 DEF IdsOnce, Uncommitted
<1> QED BY <1>5, <1>6

LEMMA StartKeeps ==
  ASSUME ConnectionsInv, NEW c \in Conn, StartOAuth(c)
  PROVE  VaultConsistent' /\ IdsOnce'
<1> USE DEF ConnectionsInv
<1>1. /\ status[c] = "absent" /\ status' = [status EXCEPT ![c] = "pending"]
      /\ states' = states \cup {c}
      /\ UNCHANGED <<ref, creds, binding, use, issued>>
  BY DEF StartOAuth
<1>2. ref[c] = NoCred
  BY <1>1 DEF VaultConsistent, Exists, Stored
<1>3. VaultConsistent'
  BY <1>1, <1>2 DEF VaultConsistent, Exists, Stored, TypeOK
<1>4. IdsOnce'
  BY <1>1 DEF IdsOnce, Uncommitted
<1> QED BY <1>3, <1>4
\* Uses that are not about to commit a credential leave the vault alone.
LEMMA CalmUse ==
  ASSUME ConnectionsInv, NEW u \in Session, Use(u), ~Refresh(u), ~FinishComplete(u),
         ~((FinishTest(u) \/ FinishCall(u)) /\ use[u].step = "locked")
  PROVE  Calm
<1> USE DEF ConnectionsInv
<1>1. ASSUME NEW b \in {"test", "custom", "standard"}, NEW c \in Conn, NEW r \in Run \cup {NoRun},
             Open(u, b, c, r)
      PROVE  Calm
  BY <1>1, Opens DEF Turns, Calm, Uncommitted, Exists, rowVars
<1>2. ASSUME NEW c \in Conn, BeginComplete(u, c) PROVE Calm
  BY <1>2, Begins DEF Turns, Calm, Uncommitted, Exists, rowVars
<1>3. CASE LockRow(u)
  BY <1>3, Locks DEF Turns, Calm, Uncommitted, Exists, rowVars
<1>4. CASE Abort(u)
  BY <1>4, Ends, IdleDoing DEF Abort, Turns, Calm, Uncommitted, Exists, rowVars
<1>5. CASE FinishTest(u) \/ FinishCall(u)
  <2>1. /\ Turns(u) /\ use'[u] = Idle
        /\ UNCHANGED <<creds, ref, states, binding, issued>>
    BY <1>5, Finishes
  <2>2. PICK new \in States \ {"absent", "removed"} : 
          status' = [status EXCEPT ![use[u].conn] = IF Exists(use[u].conn) THEN new ELSE @]
    BY <1>5, Finishes
  <2>3. \A c \in Conn : Exists(c) => status'[c] \notin {"absent", "removed"}
    BY <2>2 DEF TypeOK, Exists
  <2> QED BY <2>1, <2>3, IdleDoing DEF Turns, Calm, Uncommitted
<1> QED BY <1>1, <1>2, <1>3, <1>4, <1>5, UseCases

LEMMA VaultStep ==
  ASSUME ConnectionsInv, [Next]_vars
  PROVE  VaultConsistent' /\ IdsOnce'
<1> USE DEF ConnectionsInv
<1>1. ASSUME NEW c \in Conn, Connect(c) PROVE VaultConsistent' /\ IdsOnce'
  <2>1. c \notin states
    BY <1>1 DEF Connect, VaultConsistent, Exists
  <2> QED BY <1>1, <2>1, WriteKeeps DEF Connect
<1>2. ASSUME NEW c \in Conn, Rotate(c) PROVE VaultConsistent' /\ IdsOnce'
  <2>1. c \notin states
    BY <1>2 DEF Rotate, Sessions
  <2> QED BY <1>2, <2>1, WriteKeeps DEF Rotate
<1>3. ASSUME NEW u \in Session, FinishComplete(u) PROVE VaultConsistent' /\ IdsOnce'
  <2>1. use[u].conn \in Conn
    BY <1>3, IdleDoing DEF FinishComplete, Sessions
  <2>2. Turns(u) /\ use'[u] = Idle
    BY <1>3, Ends DEF FinishComplete
  <2>3. \A v \in Session : use'[v].step \in {"inserted", "locked"} => use'[v] = use[v]
    BY <2>2, IdleDoing DEF Turns
  <2> QED BY <1>3, <2>1, <2>3, WriteKeeps DEF FinishComplete
<1>4. ASSUME NEW c \in Conn, SwitchOn(c) \/ SwitchOff(c) PROVE Calm
  BY <1>4 DEF SwitchOn, SwitchOff, Calm, TypeOK, Exists, Uncommitted
<1>5. ASSUME NEW c \in Conn, Sync(c) \/ Disable(c) \/ Forget(c) PROVE Calm
  BY <1>5 DEF Sync, Disable, Forget, Calm, Exists, Uncommitted, rowVars
<1>6. ASSUME NEW a \in Agent, AgentStep(a) PROVE Calm
  BY <1>6 DEF AgentStep, SetBinding, ClearBinding, BeginRun, Calm, TypeOK, Exists, Uncommitted,
     rowVars
<1>7. ASSUME NEW r \in Run, CheckRun(r) \/ CommitRun(r) \/ AbortRun(r) PROVE Calm
  BY <1>7 DEF CheckRun, CommitRun, AbortRun, Calm, Exists, Uncommitted, rowVars
<1>8. ASSUME NEW k \in creds, Age(k) PROVE Calm
  BY <1>8 DEF Age, Calm, Exists, Uncommitted
<1>9. UNCHANGED vars => Calm
  BY DEF vars, Calm, Exists, Uncommitted, rowVars
<1>10. ASSUME NEW u \in Session, Use(u) PROVE VaultConsistent' /\ IdsOnce'
  BY <1>3, <1>10, CalmUse, CalmKeeps, RefreshKeeps, CommitKeeps
<1>11. ASSUME NEW c \in Conn, Request(c) PROVE VaultConsistent' /\ IdsOnce'
  BY <1>1, <1>2, <1>4, <1>5, <1>11, CalmKeeps, DisconnectKeeps, StartKeeps DEF Request
<1> QED BY <1>6, <1>7, <1>8, <1>9, <1>10, <1>11, CalmKeeps DEF Next
-----------------------------------------------------------------------------
\* The sessions and the runs

\* A session keeps what it relies on: the row of a connection that somebody uses,
\* and the run of a call, are taken away by nobody.
LEMMA SessionsStep ==
  ASSUME ConnectionsInv, [Next]_vars
  PROVE  Sessions'
<1> DEFINE S(c) == status'[c] # "absent" /\ c \notin states'
           Q(u) == /\ use'[u].step = "idle" <=> use'[u] = Idle
                   /\ use'[u] # Idle => use'[u].by # "nobody" /\ use'[u].conn \in Conn
                   /\ use'[u].by = "complete" =>
                        /\ use'[u].step = "open" /\ use'[u].conn \in states'
                        /\ \A v \in Session :
                             use'[v].by = "complete" /\ use'[v].conn = use'[u].conn => v = u
                   /\ use'[u].by \in {"test", "custom", "standard"} => S(use'[u].conn)
                   /\ use'[u].step \in {"inserted", "locked"} =>
                        /\ ServiceOf[use'[u].conn] \in OAuth
                        /\ status'[use'[u].conn] \notin {"absent", "removed"}
                   /\ use'[u].by = "standard" =>
                        use'[u].run \in Run /\ stage'[use'[u].run] = "queued"
<1> USE DEF ConnectionsInv
<1>1. (\A c \in states' : ServiceOf[c] \in OAuth) /\ (\A u \in Session : Q(u)) => Sessions'
  BY DEF Sessions, Uncommitted, Exists
\* A session that a step leaves alone, with what it relies on.
<1> DEFINE Keeps(u) ==
             /\ use'[u] = use[u]
             /\ use[u].by = "complete" =>
                  /\ use[u].conn \in states'
                  /\ \A v \in Session :
                       use'[v].by = "complete" /\ use'[v].conn = use[u].conn => v = u
             /\ use[u].by \in {"test", "custom", "standard"} => S(use[u].conn)
             /\ Uncommitted(u) => status'[use[u].conn] \notin {"absent", "removed"}
             /\ use[u].by = "standard" => stage'[use[u].run] = "queued"
<1>2. ASSUME NEW u \in Session, Keeps(u) PROVE Q(u)
  BY <1>2 DEF Sessions, Uncommitted
<1>3. ASSUME NEW u \in Session, use'[u] = Idle PROVE Q(u)
  BY <1>3, IdleDoing
<1> HIDE DEF Q, Keeps
<1>4. ASSUME NEW u \in Session, use[u].by \in {"test", "custom", "standard"}
      PROVE  use[u].conn \in Conn
  BY <1>4, IdleDoing DEF Sessions
<1>5. ASSUME NEW u \in Session, Uncommitted(u) PROVE use[u].conn \in Conn
  BY <1>5, IdleDoing DEF Sessions, Uncommitted
<1>0. ASSUME \A c \in states' : ServiceOf[c] \in OAuth,
             \A u \in Session : Keeps(u) \/ Q(u)
      PROVE  Sessions'
  BY <1>0, <1>1, <1>2
\* Requests
<1>6. ASSUME UNCHANGED <<use, states, stage>>,
             \A c \in Conn : /\ status[c] # "absent" => status'[c] # "absent"
                             /\ Exists(c) /\ (\E u \in Session : Uncommitted(u) /\ use[u].conn = c)
                                  => status'[c] \notin {"absent", "removed"}
      PROVE  Sessions'
  <2>1. \A u \in Session : Keeps(u)
    BY <1>4, <1>5, <1>6 DEF Sessions, Keeps, Exists
  <2> QED BY <1>0, <1>6, <2>1 DEF Sessions
<1>7. ASSUME NEW c \in Conn, Request(c) PROVE Sessions'
  <2>1. CASE Connect(c) \/ Rotate(c) \/ SwitchOn(c) \/ SwitchOff(c)
    BY <1>6, <2>1 DEF Connect, Rotate, SwitchOn, SwitchOff, WriteCredential, TypeOK, Exists, runVars
  <2>2. CASE Sync(c) \/ Disable(c) \/ Forget(c)
    BY <1>6, <2>2 DEF Sync, Disable, Forget, Exists, rowVars, runVars
  <2>3. CASE StartOAuth(c)
    <3>1. \A u \in Session : Keeps(u)
      BY <1>4, <1>5, <2>3 DEF StartOAuth, Sessions, TypeOK, Exists, runVars, Keeps
    <3> QED BY <1>0, <2>3, <3>1 DEF StartOAuth, Sessions
  <2>4. CASE Disconnect(c)
    <3>1. \A u \in Session : Keeps(u)
      BY <1>4, <1>5, <2>4 DEF Disconnect, Sessions, TypeOK, Exists, runVars, Uncommitted,
         Lockable, Inserting, Completing, Keeps
    <3> QED BY <1>0, <2>4, <3>1 DEF Disconnect, Sessions
  <2> QED BY <1>7, <2>1, <2>2, <2>3, <2>4 DEF Request
<1>8. ASSUME NEW a \in Agent, AgentStep(a) PROVE Sessions'
  <2>1. \A u \in Session : Keeps(u)
    BY <1>4, <1>5, <1>8 DEF AgentStep, SetBinding, ClearBinding, BeginRun, Sessions, TypeOK, Exists,
       rowVars, runVars, Keeps
  <2> QED BY <1>0, <1>8, <2>1 DEF AgentStep, SetBinding, ClearBinding, BeginRun, Sessions,
      rowVars
<1>9. ASSUME NEW r \in Run, CheckRun(r) \/ CommitRun(r) \/ AbortRun(r) PROVE Sessions'
  <2>1. \A u \in Session : Keeps(u)
    BY <1>4, <1>5, <1>9 DEF CheckRun, CommitRun, AbortRun, Sessions, TypeOK, Exists, rowVars, Keeps
  <2> QED BY <1>0, <1>9, <2>1 DEF CheckRun, CommitRun, AbortRun, Sessions, rowVars
\* Uses
<1>10. ASSUME NEW u \in Session, Turns(u), Q(u),
              use'[u].by = "complete" => ~Completing(use'[u].conn),
              UNCHANGED <<status, states, stage>>
       PROVE  Sessions'
  <2>1. \A v \in Session \ {u} : Keeps(v)
    BY <1>4, <1>5, <1>10 DEF Sessions, Turns, Exists, Keeps, Completing
  <2> QED BY <1>0, <1>10, <2>1 DEF Sessions
<1>11. ASSUME NEW u \in Session, Use(u) PROVE Sessions'
  <2>1. ASSUME NEW b \in {"test", "custom", "standard"}, NEW c \in Conn,
               NEW r \in Run \cup {NoRun}, Open(u, b, c, r),
               b = "standard" => r \in Run /\ stage[r] = "queued"
        PROVE  Sessions'
    <3>1. /\ Turns(u) /\ use'[u].by = b /\ use'[u].conn = c /\ use'[u].run = r
          /\ use'[u].step = "open" /\ Usable(c) /\ UNCHANGED <<status, states, stage>>
      BY <2>1, Opens DEF rowVars, runVars
    <3>2. Q(u)
      BY <2>1, <3>1, IdleDoing DEF Usable, Exists, VaultConsistent, Q
    <3> QED BY <1>10, <3>1, <3>2
  <2>2. ASSUME NEW c \in Conn, BeginComplete(u, c) PROVE Sessions'
    <3>1. /\ Turns(u) /\ use'[u].by = "complete" /\ use'[u].conn = c
          /\ use'[u].step = "open" /\ c \in states /\ UNCHANGED <<status, states, stage>>
          /\ ~Completing(c)
      BY <2>2, Begins DEF rowVars, runVars, BeginComplete
    <3>2. Q(u)
      BY <3>1, IdleDoing DEF Q, Turns, Completing
    <3> QED BY <1>10, <3>1, <3>2
  <2>3. CASE Refresh(u)
    <3>1. UNCHANGED <<status, states, stage>> /\ Turns(u)
      BY <2>3, Refreshes DEF rowVars, runVars
    <3>2. Q(u)
      BY <2>3, <3>1, Refreshes, IdleDoing DEF Sessions, Exists, Q
    <3>3. use'[u].by # "complete"
      BY <2>3, Refreshes
    <3> QED BY <1>10, <3>1, <3>2, <3>3
  <2>4. CASE LockRow(u)
    <3>1. UNCHANGED <<status, states, stage>> /\ Turns(u)
      BY <2>4, Locks DEF rowVars, runVars
    <3>2. Q(u)
      BY <2>4, <3>1, Locks, IdleDoing DEF Sessions, Exists, Uncommitted, Q
    <3>3. use'[u].by # "complete"
      BY <2>4, Locks DEF Sessions
    <3> QED BY <1>10, <3>1, <3>2, <3>3
  <2>5. CASE Abort(u)
    BY <1>3, <1>10, <2>5, Ends, IdleDoing DEF Abort, rowVars, runVars
  <2>6. CASE FinishTest(u) \/ FinishCall(u)
    <3>1. Turns(u) /\ use'[u] = Idle /\ UNCHANGED <<states, stage>>
      BY <2>6, Finishes DEF runVars
    <3>2. \A c \in Conn : /\ status[c] # "absent" => status'[c] # "absent"
                          /\ Exists(c) => status'[c] \notin {"absent", "removed"}
      <4>1. PICK new \in States \ {"absent", "removed"} : 
              status' = [status EXCEPT ![use[u].conn] = IF Exists(use[u].conn) THEN new ELSE @]
        BY <2>6, Finishes
      <4> QED BY <4>1 DEF TypeOK, Exists
    <3>3. \A v \in Session \ {u} : Keeps(v)
      BY <1>4, <1>5, <3>1, <3>2, IdleDoing DEF Sessions, Turns, Keeps
    <3> QED BY <1>0, <1>3, <3>1, <3>3 DEF Sessions
  <2>7. CASE FinishComplete(u)
    <3>1. /\ use[u].conn \in Conn /\ use[u].by = "complete"
          /\ status' = [status EXCEPT ![use[u].conn] = "connected"]
          /\ states' = states \ {use[u].conn} /\ UNCHANGED stage
      BY <2>7, IdleDoing DEF FinishComplete, WriteCredential, Sessions, runVars
    <3>2. Turns(u) /\ use'[u] = Idle
      BY <2>7, Ends DEF FinishComplete
    <3>3. \A v \in Session \ {u} : Keeps(v)
      BY <1>4, <1>5, <3>1, <3>2, IdleDoing DEF Sessions, Turns, TypeOK, Exists, Keeps
    <3> QED BY <1>0, <1>3, <3>1, <3>2, <3>3 DEF Sessions
  <2> QED BY <1>11, <2>1, <2>2, <2>3, <2>4, <2>5, <2>6, <2>7, UseCases
<1>12. ASSUME NEW k \in creds, Age(k) PROVE Sessions'
  BY <1>6, <1>12 DEF Age, runVars, Exists
<1>13. CASE UNCHANGED vars
  BY <1>6, <1>13 DEF vars, rowVars, runVars, Exists
<1> QED BY <1>7, <1>8, <1>9, <1>11, <1>12, <1>13 DEF Next
LEMMA ToolsStep ==
  ASSUME ConnectionsInv, [Next]_vars
  PROVE  Tools'
<1> USE DEF ConnectionsInv
<1>1. ASSUME NEW c \in Conn, Sync(c) PROVE Tools'
  BY <1>1 DEF Sync, Tools, TypeOK
<1>2. ASSUME NEW c \in Conn, Disable(c) PROVE Tools'
  <2>1. ASSUME NEW s \in Service, tool'[s].enabled PROVE tool'[s].conn \in Conn
    <3> DEFINE b == tool[s].enabled /\ tool[s].conn # c
    <3>1. tool[s] \in Target
      BY TypesByName DEF OtherTypes
    <3>2. tool'[s] = [tool[s] EXCEPT !.enabled = b]
      BY <1>2 DEF Disable
    <3> HIDE DEF b
    <3>3. tool'[s].enabled = b /\ tool'[s].conn = tool[s].conn
      BY <3>1, <3>2 DEF Target
    <3>4. tool[s].enabled
      BY <2>1, <3>3 DEF b
    <3> QED BY <3>3, <3>4 DEF Tools
  <2> QED BY <2>1 DEF Tools
<1>3. ASSUME UNCHANGED tool PROVE Tools'
  BY <1>3 DEF Tools
<1>4. ASSUME NEW c \in Conn, Request(c), ~Sync(c), ~Disable(c) PROVE UNCHANGED tool
  BY <1>4 DEF Request, Connect, Rotate, StartOAuth, SwitchOn, SwitchOff, Disconnect, Forget,
     toolVars
<1>5. ASSUME NEW u \in Session, Use(u) PROVE UNCHANGED tool
  BY <1>5, UseCases DEF Open, BeginComplete, Refresh, LockRow, FinishTest, FinishCall, Finish,
     FinishComplete, Abort, toolVars
<1>6. ASSUME NEW a \in Agent, AgentStep(a) PROVE UNCHANGED tool
  BY <1>6 DEF AgentStep, SetBinding, ClearBinding, BeginRun, toolVars
<1> QED BY <1>1, <1>2, <1>3, <1>4, <1>5, <1>6 DEF Next, CheckRun, CommitRun, AbortRun, Age,
    toolVars, vars

\* A call of a standard agent holds its binding, and its run what it was queued with.
LEMMA CallsStep ==
  ASSUME ConnectionsInv, [Next]_vars
  PROVE  CallsAsQueued'
<1> USE DEF ConnectionsInv
<1> DEFINE C(u) == use'[u].by = "standard" =>
                     LET s == snapshot'[use'[u].run] IN
                     /\ s.agent \in Agent /\ s.conn \in Conn
                     /\ use'[u].conn = s.conn /\ binding'[s.agent] = s.conn
                     /\ s.cred # NoCred => use'[u].cred = s.cred
<1>1. (\A u \in Session : C(u)) => CallsAsQueued'
  <2>1. VaultConsistent'
    BY VaultStep
  <2> QED BY <2>1 DEF VaultConsistent, CallsAsQueued, Exists
<1>2. ASSUME NEW u \in Session, use[u].by = "standard"
      PROVE  LET s == snapshot[use[u].run] IN
             /\ use[u].run \in Run /\ stage[use[u].run] = "queued"
             /\ s.agent \in Agent /\ s.conn \in Conn
             /\ use[u].conn = s.conn /\ binding[s.agent] = s.conn
             /\ s.cred # NoCred => use[u].cred = s.cred /\ ServiceOf[s.conn] \notin OAuth
  BY <1>2 DEF Sessions, CallsAsQueued, Runs, Snapshot
<1> DEFINE Kept(u) == /\ use'[u] = use[u]
                      /\ use[u].by = "standard" =>
                           LET r == use[u].run IN
                           /\ snapshot'[r] = snapshot[r]
                           /\ binding'[snapshot[r].agent] = binding[snapshot[r].agent]
<1>3. ASSUME NEW u \in Session, Kept(u) PROVE C(u)
  BY <1>2, <1>3
<1>4. ASSUME NEW u \in Session, use'[u] = Idle PROVE C(u)
  BY <1>4, IdleDoing
<1> HIDE DEF C, Kept
<1>5. ASSUME UNCHANGED <<use, snapshot, binding>> PROVE \A u \in Session : Kept(u)
  BY <1>5 DEF Kept
<1>6. ASSUME NEW a \in Agent, AgentStep(a), NEW u \in Session PROVE Kept(u)
  <2>1. ASSUME NEW c \in Conn, SetBinding(a, c) \/ ClearBinding(a) PROVE Kept(u)
    BY <1>2, <2>1 DEF SetBinding, ClearBinding, Held, Kept, TypeOK, runVars
  <2>2. ASSUME NEW r \in Run, BeginRun(r, a) PROVE Kept(u)
    BY <1>2, <2>2 DEF BeginRun, Kept, TypeOK
  <2>3. CASE ClearBinding(a)
    BY <1>2, <2>3 DEF ClearBinding, Held, Kept, TypeOK, runVars
  <2> QED BY <1>6, <2>1, <2>2, <2>3 DEF AgentStep
<1>7. ASSUME NEW r \in Run, CheckRun(r) \/ CommitRun(r) \/ AbortRun(r), NEW u \in Session
      PROVE  Kept(u)
  BY <1>2, <1>7 DEF CheckRun, CommitRun, AbortRun, Kept, TypeOK
<1>8. ASSUME NEW u \in Session, Turns(u), C(u), UNCHANGED <<snapshot, binding>>
      PROVE  \A v \in Session : C(v)
  BY <1>3, <1>8 DEF Turns, Kept
<1>9. ASSUME NEW u \in Session, Use(u) PROVE \A v \in Session : C(v)
  <2>1. ASSUME NEW b \in {"test", "custom", "standard"}, NEW c \in Conn,
               NEW r \in Run \cup {NoRun}, Open(u, b, c, r),
               b = "standard" => r \in Run /\ stage[r] = "queued" /\ AsQueued(r)
                                 /\ c = snapshot[r].conn
        PROVE  \A v \in Session : C(v)
    <3>1. /\ Turns(u) /\ use'[u].by = b /\ use'[u].conn = c /\ use'[u].run = r
          /\ use'[u].cred = ref[c] /\ UNCHANGED <<snapshot, binding>>
      BY <2>1, Opens DEF runVars
    <3>2. C(u)
      BY <2>1, <3>1 DEF AsQueued, Runs, Snapshot, C
    <3> QED BY <1>8, <3>1, <3>2
  <2>2. ASSUME NEW c \in Conn, BeginComplete(u, c) PROVE \A v \in Session : C(v)
    BY <1>8, <2>2, Begins DEF runVars, C
  <2>3. CASE Refresh(u)
    <3>1. Turns(u) /\ UNCHANGED <<snapshot, binding>>
      BY <2>3, Refreshes DEF runVars
    <3>2. C(u)
      BY <1>2, <2>3, <3>1, Refreshes DEF C
    <3> QED BY <1>8, <3>1, <3>2
  <2>4. CASE LockRow(u)
    <3>1. Turns(u) /\ UNCHANGED <<snapshot, binding>>
      BY <2>4, Locks DEF runVars
    <3>2. C(u)
      BY <1>2, <2>4, <3>1, Locks DEF C
    <3> QED BY <1>8, <3>1, <3>2
  <2>5. CASE FinishTest(u) \/ FinishCall(u)
    BY <1>4, <1>8, <2>5, Finishes DEF runVars
  <2>6. CASE FinishComplete(u) \/ Abort(u)
    BY <1>4, <1>8, <2>6, Ends DEF FinishComplete, Abort, runVars
  <2> QED BY <1>9, <2>1, <2>2, <2>3, <2>4, <2>5, <2>6, UseCases
<1>10. ASSUME NEW c \in Conn, Request(c) PROVE UNCHANGED <<use, snapshot, binding>>
  BY <1>10 DEF Request, Connect, Rotate, StartOAuth, SwitchOn, SwitchOff, Disconnect, Sync, Disable,
     Forget, runVars
<1>11. ASSUME NEW k \in creds, Age(k) PROVE UNCHANGED <<use, snapshot, binding>>
  BY <1>11 DEF Age, runVars
<1>12. CASE UNCHANGED vars
  BY <1>1, <1>3, <1>5, <1>12 DEF vars, runVars
<1> QED BY <1>1, <1>3, <1>5, <1>6, <1>7, <1>9, <1>10, <1>11, <1>12 DEF Next
\* The row a run shares while it is being created is written by nobody.
LEMMA RunsStep ==
  ASSUME ConnectionsInv, [Next]_vars
  PROVE  Runs'
<1> USE DEF ConnectionsInv
\* What a connection that is shared still has to say
<1> DEFINE Same(c) == /\ status[c] = "connected" => status'[c] = "connected"
                      /\ Frozen(c)' = Frozen(c) /\ config'[c] = config[c]
                      /\ Writing(c)' => Writing(c)
           Kept(r) == /\ stage'[r] = stage[r] /\ snapshot'[r] = snapshot[r]
                      /\ stage[r] \in {"ready", "checked"} =>
                           binding'[snapshot[r].agent] = binding[snapshot[r].agent]
                      /\ stage[r] = "checked" => Same(snapshot[r].conn)
           R(r) == stage'[r] # "none" =>
                     /\ snapshot'[r] \in Snapshot
                     /\ stage'[r] = "ready" => binding'[snapshot'[r].agent] # NoConn
                     /\ stage'[r] \in {"checked", "queued"} =>
                          /\ snapshot'[r].conn \in Conn
                          /\ snapshot'[r].cred # NoCred =>
                               ServiceOf[snapshot'[r].conn] \notin OAuth
                     /\ stage'[r] = "checked" =>
                          /\ binding'[snapshot'[r].agent] = snapshot'[r].conn
                          /\ status'[snapshot'[r].conn] = "connected"
                          /\ snapshot'[r].cred = Frozen(snapshot[r].conn)'
                          /\ snapshot'[r].config = config'[snapshot'[r].conn]
                          /\ ~Writing(snapshot[r].conn)'
<1> HIDE DEF Same
<1>1. (\A r \in Run : R(r)) => Runs'
  BY DEF Runs, Frozen, Writing
<1>2. ASSUME NEW r \in Run, Kept(r) PROVE R(r)
  BY <1>2 DEF Runs, Same
<1> HIDE DEF R, Kept
<1>0. ASSUME \A r \in Run : Kept(r) PROVE Runs'
  BY <1>0, <1>1, <1>2
\* Rows are written where nobody shares them.
<1>3. ASSUME UNCHANGED <<stage, snapshot, binding>>,
             \A c \in Conn : Shared(c) /\ status[c] = "connected" => Same(c)
      PROVE  Runs'
  <2>1. \A r \in Run : stage[r] = "checked" =>
          /\ snapshot[r].conn \in Conn /\ status[snapshot[r].conn] = "connected"
          /\ Shared(snapshot[r].conn)
    BY DEF Runs, Shared
  <2> QED BY <1>0, <1>3, <2>1 DEF Kept
<1>4. ASSUME UNCHANGED <<status, ref, config>>, NEW c \in Conn, Writing(c)' => Writing(c)
      PROVE  Same(c)
  BY <1>4 DEF Same, Frozen
<1>5. ASSUME NEW c \in Conn, Request(c) PROVE Runs'
  <2>1. CASE Connect(c) \/ StartOAuth(c)
    <3>1. \A d \in Conn : status[d] = "connected" => Same(d)
      BY <2>1 DEF Connect, StartOAuth, WriteCredential, TypeOK, Same, Frozen, Writing
    <3> QED BY <1>3, <2>1, <3>1 DEF Connect, StartOAuth, runVars
  <2>2. CASE Rotate(c) \/ SwitchOn(c) \/ SwitchOff(c) \/ Disconnect(c)
    <3>1. \A d \in Conn : Shared(d) => Same(d)
      BY <2>2 DEF Rotate, SwitchOn, SwitchOff, Disconnect, Lockable, WriteCredential, TypeOK, Same,
         Frozen, Writing
    <3> QED BY <1>3, <2>2, <3>1 DEF Rotate, SwitchOn, SwitchOff, Disconnect, runVars
  <2>3. CASE Sync(c) \/ Disable(c) \/ Forget(c)
    <3>1. UNCHANGED <<status, ref, config, use, stage, snapshot, binding>>
      BY <2>3 DEF Sync, Disable, Forget, rowVars, runVars
    <3> QED BY <1>3, <1>4, <3>1 DEF Writing
  <2> QED BY <1>5, <2>1, <2>2, <2>3 DEF Request
\* A session writes only what it has locked, and locks nothing that is shared.
<1>6. ASSUME UNCHANGED <<rowVars, stage, snapshot, binding>>, NEW u \in Session, Turns(u),
             use'[u].step = "locked" => ~Shared(use'[u].conn)
      PROVE  Runs'
  <2>1. \A c \in Conn : Shared(c) /\ Writing(c)' => Writing(c)
    BY <1>6 DEF Writing, Turns
  <2> QED BY <1>3, <1>4, <1>6, <2>1 DEF rowVars
<1>7. ASSUME NEW u \in Session, Use(u) PROVE Runs'
  <2>1. ASSUME NEW b \in {"test", "custom", "standard"}, NEW c \in Conn,
               NEW r \in Run \cup {NoRun}, Open(u, b, c, r)
        PROVE  Runs'
    BY <1>6, <2>1, Opens DEF runVars
  <2>2. ASSUME NEW c \in Conn, BeginComplete(u, c) PROVE Runs'
    BY <1>6, <2>2, Begins DEF runVars
  <2>3. CASE Refresh(u)
    BY <1>6, <2>3, Refreshes DEF runVars
  <2>4. CASE LockRow(u)
    BY <1>6, <2>4, Locks DEF runVars
  <2>5. CASE Abort(u)
    BY <1>6, <2>5, Ends, IdleDoing DEF Abort, runVars
  <2>6. CASE FinishTest(u) \/ FinishCall(u)
    <3>1. /\ Turns(u) /\ use'[u] = Idle /\ use[u].conn \in Conn
          /\ UNCHANGED <<config, binding, stage, snapshot>>
          /\ use[u].step = "open" => UNCHANGED ref
          /\ \E new \in States : 
               status' = [status EXCEPT ![use[u].conn] = IF Exists(use[u].conn) THEN new ELSE @]
          /\ use[u].step = "locked" => ref' = [ref EXCEPT ![use[u].conn] = use[u].cred]
      BY <2>6, Finishes DEF runVars
    <3>2. ASSUME NEW r \in Run, stage[r] = "checked", snapshot[r].conn = use[u].conn
          PROVE  UNCHANGED <<status, ref>>
      <4>1. Shared(use[u].conn) /\ ~Writing(use[u].conn)
        BY <3>2 DEF Shared, Runs
      <4>2. use[u].step = "open" /\ FinishCall(u)
        BY <2>6, <4>1 DEF FinishTest, FinishCall, Writing
      <4>3. status' = [status EXCEPT ![use[u].conn] =
                         IF Exists(use[u].conn) THEN status[use[u].conn] ELSE @]
        BY <4>2 DEF FinishCall, Finish, Current
      <4> QED BY <3>1, <4>2, <4>3 DEF TypeOK
    <3>3. \A c \in Conn : Writing(c)' => Writing(c)
      BY <3>1, IdleDoing DEF Turns, Writing
    <3>4. ASSUME NEW c \in Conn, Shared(c) PROVE Same(c)
      <4>1. CASE c = use[u].conn
        <5>1. UNCHANGED <<status, ref>>
          BY <3>2, <3>4, <4>1 DEF Shared
        <5> QED BY <1>4, <3>1, <3>3, <5>1
      <4>2. CASE c # use[u].conn
        <5>1. status'[c] = status[c] /\ ref'[c] = ref[c]
          BY <2>6, <3>1, <4>2 DEF TypeOK, FinishTest, FinishCall
        <5> QED BY <3>1, <3>3, <5>1 DEF Same, Frozen
      <4> QED BY <4>1, <4>2
    <3> QED BY <1>3, <3>1, <3>4
  <2>7. CASE FinishComplete(u)
    <3>1. /\ use[u].conn \in Conn /\ ServiceOf[use[u].conn] \in OAuth
          /\ ref' = [ref EXCEPT ![use[u].conn] = issued + 1]
          /\ status' = [status EXCEPT ![use[u].conn] = "connected"]
          /\ UNCHANGED <<config, binding, stage, snapshot>>
      BY <2>7, IdleDoing DEF FinishComplete, WriteCredential, Sessions, runVars
    <3>2. \A c \in Conn : Writing(c)' => Writing(c)
      BY <2>7, Ends, IdleDoing DEF FinishComplete, Turns, Writing
    <3>3. \A c \in Conn : Same(c)
      BY <3>1, <3>2 DEF Same, Frozen, TypeOK
    <3> QED BY <1>3, <3>1, <3>3
  <2> QED BY <1>7, <2>1, <2>2, <2>3, <2>4, <2>5, <2>6, <2>7, UseCases
\* Bindings are changed where no run is being created with them.
<1>8. ASSUME NEW a \in Agent, AgentStep(a) PROVE Runs'
  <2>1. \A c \in Conn : Same(c)
    BY <1>4, <1>8 DEF AgentStep, SetBinding, ClearBinding, BeginRun, Writing, rowVars
  <2>2. ASSUME NEW r \in Run, stage[r] # "none"
        PROVE  snapshot[r].agent \in Agent /\ (stage[r] = "checked" => snapshot[r].conn \in Conn)
    BY <2>2 DEF Runs, Snapshot
  <2>3. CASE ClearBinding(a) \/ \E c \in Conn : SetBinding(a, c)
    <3>1. \A r \in Run : Kept(r)
      BY <2>1, <2>2, <2>3 DEF SetBinding, ClearBinding, Queueing, Kept, TypeOK, runVars
    <3> QED BY <1>0, <3>1
  <2>4. ASSUME NEW q \in Run, BeginRun(q, a) PROVE Runs'
    <3>1. \A r \in Run \ {q} : Kept(r)
      BY <2>1, <2>2, <2>4 DEF BeginRun, Kept, TypeOK
    <3>2. [agent |-> a, conn |-> NoConn, cred |-> NoCred, config |-> NoConfig] \in Snapshot
      BY DEF Snapshot
    <3>3. R(q)
      BY <2>4, <3>2 DEF BeginRun, R, TypeOK
    <3> QED BY <1>1, <1>2, <3>1, <3>3
  <2> QED BY <1>8, <2>3, <2>4 DEF AgentStep
<1>9. ASSUME NEW q \in Run, CheckRun(q) \/ CommitRun(q) \/ AbortRun(q) PROVE Runs'
  <2>1. \A c \in Conn : Same(c)
    BY <1>4, <1>9 DEF CheckRun, CommitRun, AbortRun, Writing, rowVars
  <2>2. \A r \in Run \ {q} : Kept(r)
    BY <1>9, <2>1 DEF CheckRun, CommitRun, AbortRun, Kept, TypeOK, Runs
  <2>3. CASE CommitRun(q) \/ AbortRun(q)
    <3>1. R(q)
      BY <2>3 DEF CommitRun, AbortRun, R, TypeOK, Runs
    <3> QED BY <1>1, <1>2, <2>2, <3>1
  <2>4. CASE CheckRun(q)
    <3> DEFINE a == snapshot[q].agent
               c == binding[a]
               s == [agent |-> a, conn |-> c, cred |-> Frozen(c), config |-> config[c]]
    <3>1. stage[q] = "ready" /\ a \in Agent /\ c \in Conn /\ ~Writing(c)
      BY <2>4 DEF CheckRun, Runs, Snapshot, TypeOK
    <3>2. s \in Snapshot
      BY <3>1 DEF Snapshot, Frozen, TypeOK
    <3>3. s.agent = a /\ s.conn = c /\ s.cred = Frozen(c) /\ s.config = config[c]
      OBVIOUS
    <3>4. /\ UNCHANGED <<status, ref, config, binding, use>>
          /\ \/ stage' = [stage EXCEPT ![q] = "none"]
             \/ /\ status[c] = "connected"
                /\ stage' = [stage EXCEPT ![q] = "checked"]
                /\ snapshot' = [snapshot EXCEPT ![q] = s]
      BY <2>4 DEF CheckRun, rowVars
    <3> HIDE DEF s, c, a
    <3>5. CASE stage' = [stage EXCEPT ![q] = "none"]
      <4>1. R(q)
        BY <3>5 DEF R, TypeOK
      <4> QED BY <1>1, <1>2, <2>2, <4>1
    <3>6. CASE /\ status[c] = "connected"
               /\ stage' = [stage EXCEPT ![q] = "checked"]
               /\ snapshot' = [snapshot EXCEPT ![q] = s]
      <4>1. snapshot'[q] = s /\ stage'[q] = "checked"
        BY <3>6 DEF TypeOK
      <4>2. PICK d \in Conn : d = c
        BY <3>1
      <4>3. /\ Frozen(d)' = Frozen(d) /\ (Frozen(d) # NoCred => ServiceOf[d] \notin OAuth)
            /\ Writing(d)' = Writing(d)
        BY <3>4 DEF Frozen, Writing
      <4>4. snapshot'[q].conn = d /\ snapshot'[q].agent = a /\ binding'[a] = d
        BY <3>3, <3>4, <4>1, <4>2 DEF c
      <4>5. /\ Frozen(snapshot[q].conn)' = Frozen(d)' /\ Writing(snapshot[q].conn)' = Writing(d)'
        BY <4>4 DEF Frozen, Writing
      <4>6. R(q)
        BY <3>1, <3>2, <3>3, <3>4, <3>6, <4>1, <4>2, <4>3, <4>4, <4>5 DEF R
      <4> QED BY <1>1, <1>2, <2>2, <4>6
    <3> QED BY <3>4, <3>5, <3>6
  <2> QED BY <1>9, <2>3, <2>4
<1>10. ASSUME NEW k \in creds, Age(k) PROVE Runs'
  BY <1>3, <1>4, <1>10 DEF Age, Writing, runVars
<1>11. CASE UNCHANGED vars
  BY <1>3, <1>4, <1>11 DEF vars, Writing, rowVars, runVars
<1> QED BY <1>5, <1>7, <1>8, <1>9, <1>10, <1>11 DEF Next

-----------------------------------------------------------------------------
LEMMA Inductive == Spec => []ConnectionsInv
<1>1. ConnectionsInv /\ [Next]_vars => ConnectionsInv'
  BY TypeStep, VaultStep, CallsStep, SessionsStep, RunsStep, ToolsStep DEF ConnectionsInv
<1> QED BY InitHolds, <1>1, PTL DEF Spec

\* integration_repository.py, connector_mcp.py: connections, credentials,
\* authorizations, tools, bindings and sessions keep their types.
THEOREM TypeSafe == Spec => []TypeOK
<1>1. ConnectionsInv => TypeOK
  BY DEF ConnectionsInv
<1> QED BY <1>1, Inductive, PTL

\* integration_repository.py:402: whatever overlaps, a reference names a stored
\* credential, what is removed leaves nothing, and a replaced secret is destroyed.
THEOREM VaultIsConsistent == Spec => []VaultConsistent
<1>1. ConnectionsInv => VaultConsistent
  BY DEF ConnectionsInv
<1> QED BY <1>1, Inductive, PTL

\* connector_mcp.py, _validate_standard_target: a call of a standard agent works
\* with what its run was queued with, as long as it lasts.
THEOREM CallsRunAsQueued == Spec => []CallsAsQueued
<1>1. ConnectionsInv => CallsAsQueued
  BY DEF ConnectionsInv
<1> QED BY <1>1, Inductive, PTL

\* tenant_agent_repository.py, _connector_run_contracts: a run is queued on the
\* connection as it is at that moment.
THEOREM RunsQueueAsConnected == Spec => QueuedAsConnected
<1> DEFINE A == \A r \in Run : stage[r] # "queued" /\ stage'[r] = "queued" =>
                  LET s == snapshot'[r] IN
                  /\ binding[s.agent] = s.conn /\ status[s.conn] = "connected"
                  /\ s.cred = Frozen(s.conn) /\ s.config = config[s.conn]
<1>1. ConnectionsInv /\ [Next]_vars => [A]_vars
  <2> SUFFICES ASSUME ConnectionsInv, Next, NEW r \in Run, stage[r] # "queued", stage'[r] = "queued"
               PROVE  LET s == snapshot'[r] IN
                      /\ binding[s.agent] = s.conn /\ status[s.conn] = "connected"
                      /\ s.cred = Frozen(s.conn) /\ s.config = config[s.conn]
    OBVIOUS
  <2> USE DEF ConnectionsInv
  <2>1. CommitRun(r)
    <3>1. ASSUME NEW c \in Conn, Request(c) PROVE UNCHANGED stage
      BY <3>1 DEF Request, Connect, Rotate, StartOAuth, SwitchOn, SwitchOff, Disconnect, Sync,
         Disable, Forget, runVars
    <3>2. ASSUME NEW u \in Session, Use(u) PROVE UNCHANGED stage
      BY <3>2, UseCases DEF Open, BeginComplete, Refresh, LockRow, FinishTest, FinishCall, Finish,
         FinishComplete, Abort, runVars
    <3>3. ASSUME NEW a \in Agent, AgentStep(a) PROVE stage'[r] \in {stage[r], "ready"}
      BY <3>3 DEF AgentStep, SetBinding, ClearBinding, BeginRun, TypeOK, runVars
    <3>4. ASSUME NEW q \in Run, CheckRun(q) \/ AbortRun(q) \/ (CommitRun(q) /\ q # r)
          PROVE  stage'[r] \in {stage[r], "checked", "none"}
      BY <3>4 DEF CheckRun, AbortRun, CommitRun, TypeOK
    <3>5. ASSUME NEW k \in creds, Age(k) PROVE UNCHANGED stage
      BY <3>5 DEF Age, runVars
    <3> QED BY <3>1, <3>2, <3>3, <3>4, <3>5 DEF Next
  <2> QED BY <2>1 DEF CommitRun, Runs
<1> QED BY <1>1, Inductive, PTL DEF Spec, QueuedAsConnected
=============================================================================
