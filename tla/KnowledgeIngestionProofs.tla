----------------------- MODULE KnowledgeIngestionProofs -----------------------
(***************************************************************************)
(* Proofs about KnowledgeIngestion, for any number of jobs, keys, versions *)
(* and workers.                                                            *)
(*                                                                         *)
(* IInv adds to the checked invariants what makes them inductive: a worker *)
(* past its fence owns its job and holds its row, a deletion holds the     *)
(* rows of pending jobs of its key, and a source is named for a job that   *)
(* succeeded, so that a new id is never one that is stored.                *)
(***************************************************************************)
EXTENDS KnowledgeIngestion, TLAPS

Busy ==
  \A w \in Worker :
    /\ stage[w] = "idle" <=> work[w] = NoJob
    /\ stage[w] = "writing" => status[work[w]] = "running" /\ owner[work[w]] = w

LocksHeld ==
  \A k \in Key :
    /\ deleting[k] = "no" => locked[k] = {}
    /\ \A j \in locked[k] :
         /\ KeyOf[j] = k /\ status[j] \in {"queued", "running"}
         /\ \A w \in Worker : ~(stage[w] = "writing" /\ work[w] = j)

NamedForJobs == \A s \in sources : status[s.id] = "succeeded"

\* A job beyond its attempts has been lost, and each loss is a fault.
Earned(j) ==
  /\ attempts[j] <= MAX_INGESTION_ATTEMPTS + faults
  /\ status[j] = "absent" => attempts[j] = 0
  /\ status[j] = "queued" => attempts[j] < MAX_INGESTION_ATTEMPTS
  /\ status[j] = "running" /\ (Orphaned(j) \/ ~live[j])
       => attempts[j] < MAX_INGESTION_ATTEMPTS + faults

AttemptsEarned == \A j \in Job : Earned(j)

IInv ==
  /\ TypeOK
  /\ Busy
  /\ LocksHeld
  /\ SourcesConsistent /\ NamedForJobs
  /\ AttemptsEarned

-----------------------------------------------------------------------------
\* What a job writes

\* The row a job leaves is a source of its own version, under an id that was
\* stored for that version or is its own (index_source).
LEMMA Writes ==
  ASSUME TypeOK, NEW j \in Job
  PROVE  /\ Written(j) \in Source
         /\ Written(j).by = j /\ Written(j).is_current
         /\ Written(j).key = KeyOf[j] /\ Written(j).version = VersionOf[j]
         /\ \/ Existing(j) = {} /\ Written(j).id = j
            \/ \E s \in Existing(j) : Written(j).id = s.id
<1>1. CASE Existing(j) = {}
  BY <1>1, IngestionAssumption DEF Written, Source
<1>2. CASE Existing(j) # {}
  <2>1. (CHOOSE s \in Existing(j) : TRUE) \in Existing(j)
    BY <1>2
  <2>2. (CHOOSE s \in Existing(j) : TRUE).id \in Job
    BY <2>1 DEF Existing, TypeOK, Source
  <2> QED BY <1>2, <2>1, <2>2, IngestionAssumption DEF Written, Source
<1> QED BY <1>1, <1>2

\* s is t, but for being current no more if it is of key k.
After(k, s, t) ==
  /\ s \in Source
  /\ s.id = t.id /\ s.by = t.by /\ s.key = t.key /\ s.version = t.version
  /\ s.is_current = (t.is_current /\ t.key # k)
  /\ t.key # k => s = t

\* What stays beside it is a stored source, retired if it is of the key.
LEMMA Retires ==
  ASSUME TypeOK, NEW j \in Job, NEW s \in Retired(j)
  PROVE  \E t \in sources \ Existing(j) : After(KeyOf[j], s, t)
<1>1. PICK t \in sources \ Existing(j) :
        s = IF t.key = KeyOf[j] THEN [t EXCEPT !.is_current = FALSE] ELSE t
  BY DEF Retired
<1>2. t \in Source
  BY DEF TypeOK
<1>3. CASE t.key = KeyOf[j]
  <2>1. s = [t EXCEPT !.is_current = FALSE]
    BY <1>1, <1>3
  <2> QED BY <1>1, <1>2, <1>3, <2>1 DEF Source, After
<1>4. CASE t.key # KeyOf[j]
  BY <1>1, <1>2, <1>4 DEF Source, After
<1> QED BY <1>3, <1>4

-----------------------------------------------------------------------------
\* Types

LEMMA TypeStep ==
  ASSUME TypeOK, Busy, [Next]_vars
  PROVE  TypeOK'
<1> USE IngestionAssumption DEF TypeOK, jobVars, sourceVars, workerVars, deletionVars, Stages
<1>1. ASSUME NEW j \in Job, Enqueue(j) \/ LeaseExpires(j) \/ Stall(j) PROVE TypeOK'
  <2>1. Enqueue(j) => TypeOK'
    BY DEF Enqueue
  <2>2. LeaseExpires(j) => TypeOK'
    BY DEF LeaseExpires
  <2>3. Stall(j) => TypeOK'
    BY DEF Stall, Fault
  <2> QED BY <1>1, <2>1, <2>2, <2>3
<1>2. ASSUME NEW w \in Worker, NEW j \in Job, Claim(w, j) PROVE TypeOK'
  BY <1>2 DEF Claim, Goto
<1>3. ASSUME NEW w \in Worker, EmbedFails(w) \/ Fence(w) \/ RollBack(w) PROVE TypeOK'
  BY <1>3 DEF EmbedFails, Fence, RollBack, Lose, Goto
<1>4. ASSUME NEW w \in Worker, RecordFailure(w) \/ Crash(w) PROVE TypeOK'
  <2>1. ASSUME RecordFailure(w) PROVE TypeOK'
    <3>1. /\ status' \in [Job -> {"absent", "queued", "running", "succeeded", "failed", "cancelled"}]
          /\ owner' \in [Job -> Worker \cup {NoWorker}] /\ live' \in [Job -> BOOLEAN]
      <4>1. CASE Owns(w)
        BY <2>1, <4>1 DEF RecordFailure
      <4>2. CASE ~Owns(w)
        BY <2>1, <4>2 DEF RecordFailure
      <4> QED BY <4>1, <4>2
    <3> QED BY <2>1, <3>1 DEF RecordFailure, Goto
  <2>2. Crash(w) => TypeOK'
    BY DEF Crash, Fault, Goto
  <2> QED BY <1>4, <2>1, <2>2
<1>5. ASSUME NEW w \in Worker, Commit(w) PROVE TypeOK'
  <2>1. work[w] \in Job
    BY <1>5 DEF Commit, Busy
  <2>2. Indexed(work[w]) \subseteq Source
    BY <2>1, Writes, Retires DEF Indexed, After
  <2>3. Charge(work[w]) \subseteq Job
    BY <2>1, Writes DEF Charge, Source
  <2> QED BY <1>5, <2>2, <2>3 DEF Commit, Goto
<1>6. ASSUME NEW k \in Key, DeleteCheck(k) \/ DeleteCancel(k) \/ DeleteFails(k) PROVE TypeOK'
  BY <1>6 DEF DeleteCheck, DeleteCancel, DeleteFails, Fault, Pending, Cancelled
<1>7. ASSUME NEW k \in Key, DeleteCommit(k) PROVE TypeOK'
  BY <1>7 DEF DeleteCommit
<1>8. ASSUME UNCHANGED vars PROVE TypeOK'
  BY <1>8 DEF vars
<1> QED BY <1>1, <1>2, <1>3, <1>4, <1>5, <1>6, <1>7, <1>8 DEF Next, Work, Deletion

-----------------------------------------------------------------------------
\* Workers and locks

\* A row of a job that another transaction holds is not changed.
LEMMA BusyStep ==
  ASSUME TypeOK, Busy, LocksHeld, [Next]_vars
  PROVE  Busy'
<1> USE IngestionAssumption DEF TypeOK, Busy, jobVars, sourceVars, workerVars, deletionVars, Stages
<1>1. ASSUME NEW j \in Job, Enqueue(j) PROVE Busy'
  BY <1>1 DEF Enqueue
<1>2. ASSUME NEW j \in Job, LeaseExpires(j) \/ Stall(j) PROVE Busy'
  BY <1>2 DEF LeaseExpires, Stall
<1>3. ASSUME NEW w \in Worker, NEW j \in Job, Claim(w, j) PROVE Busy'
  BY <1>3 DEF Claim, Claimable, Free, Goto
<1>4. ASSUME NEW w \in Worker, EmbedFails(w) \/ Fence(w) \/ RollBack(w) PROVE Busy'
  BY <1>4 DEF EmbedFails, Fence, RollBack, Lose, Goto, Owns
<1>5. ASSUME NEW w \in Worker, RecordFailure(w) PROVE Busy'
  <2>1. \A v \in Worker : stage[v] = "writing" => work[v] # work[w]
    BY <1>5 DEF RecordFailure, Reaches, Free
  <2>2. \A j \in Job : j # work[w] => status'[j] = status[j] /\ owner'[j] = owner[j]
    BY <1>5 DEF RecordFailure
  <2> QED BY <1>5, <2>1, <2>2 DEF RecordFailure, Goto
<1>6. ASSUME NEW w \in Worker, Crash(w) PROVE Busy'
  BY <1>6 DEF Crash, Goto
<1>7. ASSUME NEW w \in Worker, Commit(w) PROVE Busy'
  BY <1>7 DEF Commit, Goto
<1>8. ASSUME NEW k \in Key, DeleteCheck(k) \/ DeleteCancel(k) \/ DeleteFails(k) PROVE Busy'
  BY <1>8 DEF DeleteCheck, DeleteCancel, DeleteFails
<1>9. ASSUME NEW k \in Key, DeleteCommit(k) PROVE Busy'
  <2>1. \A w \in Worker : stage[w] = "writing" => work[w] \notin locked[k]
    BY DEF LocksHeld
  <2> QED BY <1>9, <2>1 DEF DeleteCommit
<1>10. ASSUME UNCHANGED vars PROVE Busy'
  BY <1>10 DEF vars
<1> QED
  BY <1>1, <1>2, <1>3, <1>4, <1>5, <1>6, <1>7, <1>8, <1>9, <1>10 DEF Next, Work, Deletion

\* A deletion holds pending jobs of its key, none of which is being written.
LEMMA LockStep ==
  ASSUME TypeOK, Busy, LocksHeld, [Next]_vars
  PROVE  LocksHeld'
<1> USE IngestionAssumption DEF TypeOK, LocksHeld, jobVars, sourceVars, workerVars, deletionVars, Stages
<1>1. ASSUME NEW j \in Job, Enqueue(j) PROVE LocksHeld'
  BY <1>1 DEF Enqueue
<1>2. ASSUME NEW j \in Job, LeaseExpires(j) \/ Stall(j) PROVE LocksHeld'
  BY <1>2 DEF LeaseExpires, Stall
<1>3. ASSUME NEW w \in Worker, NEW j \in Job, Claim(w, j) PROVE LocksHeld'
  BY <1>3 DEF Claim, Claimable, Free, Goto
<1>4. ASSUME NEW w \in Worker, EmbedFails(w) \/ RollBack(w) PROVE LocksHeld'
  BY <1>4 DEF EmbedFails, RollBack, Lose, Goto
<1>5. ASSUME NEW w \in Worker, Fence(w) PROVE LocksHeld'
  BY <1>5 DEF Fence, Reaches, Free, Lose, Goto
<1>6. ASSUME NEW w \in Worker, RecordFailure(w) PROVE LocksHeld'
  <2>1. \A k \in Key : work[w] \notin locked[k]
    BY <1>6 DEF RecordFailure, Reaches, Free
  <2>2. \A j \in Job : j # work[w] => status'[j] = status[j]
    BY <1>6 DEF RecordFailure
  <2> QED BY <1>6, <2>1, <2>2 DEF RecordFailure, Goto
<1>7. ASSUME NEW w \in Worker, Crash(w) PROVE LocksHeld'
  BY <1>7 DEF Crash, Goto
<1>8. ASSUME NEW w \in Worker, Commit(w) PROVE LocksHeld'
  BY <1>8 DEF Commit, Goto
<1>9. ASSUME NEW k \in Key, DeleteCheck(k) PROVE LocksHeld'
  BY <1>9 DEF DeleteCheck, Pending, Free
<1>10. ASSUME NEW k \in Key, DeleteCancel(k) PROVE LocksHeld'
  BY <1>10 DEF DeleteCancel, Cancelled, Pending, Free
<1>11. ASSUME NEW k \in Key, DeleteCommit(k) PROVE LocksHeld'
  <2>1. \A l \in Key, j \in Job : l # k /\ j \in locked[l] => j \notin locked[k]
    OBVIOUS
  <2> QED BY <1>11, <2>1 DEF DeleteCommit
<1>12. ASSUME NEW k \in Key, DeleteFails(k) PROVE LocksHeld'
  BY <1>12 DEF DeleteFails
<1>13. ASSUME UNCHANGED vars PROVE LocksHeld'
  BY <1>13 DEF vars
<1> QED
  BY <1>1, <1>2, <1>3, <1>4, <1>5, <1>6, <1>7, <1>8, <1>9, <1>10, <1>11, <1>12, <1>13
  DEF Next, Work, Deletion

-----------------------------------------------------------------------------
\* Sources

\* A job that succeeded stays so.
LEMMA SucceededStays ==
  ASSUME TypeOK, Busy, LocksHeld, [Next]_vars, NEW j \in Job, status[j] = "succeeded"
  PROVE  status'[j] = "succeeded"
<1> USE IngestionAssumption DEF TypeOK, jobVars, sourceVars, workerVars, deletionVars
<1>1. ASSUME NEW i \in Job, Enqueue(i) \/ LeaseExpires(i) \/ Stall(i) PROVE status'[j] = "succeeded"
  BY <1>1 DEF Enqueue, LeaseExpires, Stall
<1>2. ASSUME NEW w \in Worker, NEW i \in Job, Claim(w, i) PROVE status'[j] = "succeeded"
  BY <1>2 DEF Claim, Claimable
<1>3. ASSUME NEW w \in Worker, EmbedFails(w) \/ Fence(w) \/ RollBack(w) \/ Crash(w)
      PROVE  status'[j] = "succeeded"
  BY <1>3 DEF EmbedFails, Fence, RollBack, Crash
<1>4. ASSUME NEW w \in Worker, RecordFailure(w) PROVE status'[j] = "succeeded"
  BY <1>4 DEF RecordFailure, Owns
<1>5. ASSUME NEW w \in Worker, Commit(w) PROVE status'[j] = "succeeded"
  BY <1>5 DEF Commit
<1>6. ASSUME NEW k \in Key, DeleteCheck(k) \/ DeleteCancel(k) \/ DeleteFails(k)
      PROVE  status'[j] = "succeeded"
  BY <1>6 DEF DeleteCheck, DeleteCancel, DeleteFails
<1>7. ASSUME NEW k \in Key, DeleteCommit(k) PROVE status'[j] = "succeeded"
  BY <1>7 DEF DeleteCommit, LocksHeld
<1>8. ASSUME UNCHANGED vars PROVE status'[j] = "succeeded"
  BY <1>8 DEF vars
<1> QED BY <1>1, <1>2, <1>3, <1>4, <1>5, <1>6, <1>7, <1>8 DEF Next, Work, Deletion

\* Only a commit and a deletion change the sources.
LEMMA SourcesKept ==
  ASSUME [Next]_vars,
         \A w \in Worker : ~Commit(w), \A k \in Key : ~DeleteCommit(k)
  PROVE  sources' = sources /\ charged' = charged
BY DEF Next, Work, Deletion, Enqueue, LeaseExpires, Stall, Claim, EmbedFails, Fence, RollBack,
       RecordFailure, Crash, DeleteCheck, DeleteCancel, DeleteFails, vars, sourceVars

\* A commit is of a running job, so the id it may add is not in use.
LEMMA Committing ==
  ASSUME TypeOK, Busy, NEW w \in Worker, Commit(w)
  PROVE  /\ work[w] \in Job /\ status[work[w]] = "running"
         /\ status' = [status EXCEPT ![work[w]] = "succeeded"]
         /\ sources' = Retired(work[w]) \cup {Written(work[w])}
         /\ charged' = charged \cup {Written(work[w]).id}
BY IngestionAssumption DEF TypeOK, Busy, Commit, Indexed, Charge

LEMMA SourceStep ==
  ASSUME TypeOK, Busy, LocksHeld, SourcesConsistent, NamedForJobs, [Next]_vars
  PROVE  SourcesConsistent' /\ NamedForJobs'
<1> DEFINE Good(s) ==
      /\ s \in Source
      /\ status[s.by] = "succeeded" /\ status[s.id] = "succeeded" /\ s.id \in charged
      /\ s.key = KeyOf[s.by] /\ s.version = VersionOf[s.by]
           Served(s) == \E t \in sources : t.key = s.key /\ t.is_current
           Apart(s, t) ==
             \/ s.key = t.key /\ s.version = t.version
             \/ s.key = t.key /\ s.is_current /\ t.is_current
             \/ s.id = t.id
             => s = t
<1>1. \A s \in sources : Good(s) /\ Served(s)
  BY DEF SourcesConsistent, NamedForJobs, TypeOK
<1>2. \A s, t \in sources : Apart(s, t)
  BY DEF SourcesConsistent
<1>3. SUFFICES /\ \A s \in sources' : Good(s)' /\ Served(s)'
               /\ \A s, t \in sources' : Apart(s, t)'
  BY DEF SourcesConsistent, NamedForJobs
<1>4. ASSUME NEW w \in Worker, Commit(w)
      PROVE  /\ \A s \in sources' : Good(s)' /\ Served(s)'
             /\ \A s, t \in sources' : Apart(s, t)'
  <2>0. PICK j \in Job : j = work[w]
    BY <1>4, Committing
  <2>1. /\ status[j] = "running" /\ status' = [status EXCEPT ![j] = "succeeded"]
        /\ sources' = Retired(j) \cup {Written(j)} /\ charged' = charged \cup {Written(j).id}
    BY <1>4, <2>0, Committing
  <2>2. PICK new \in Source :
          /\ new = Written(j) /\ new.by = j /\ new.is_current
          /\ new.key = KeyOf[j] /\ new.version = VersionOf[j]
          /\ (Existing(j) = {} /\ new.id = j) \/ \E s \in Existing(j) : new.id = s.id
    BY Writes
  <2>3. \A i \in Job : status[i] = "succeeded" => status'[i] = "succeeded"
    BY <2>1 DEF TypeOK
  <2>4. \A s \in Existing(j) : s \in sources /\ s.key = KeyOf[j] /\ s.version = VersionOf[j]
    BY DEF Existing
  <2>5. Good(new)'
    <3>1. status'[j] = "succeeded"
      BY <2>1 DEF TypeOK
    <3>2. new.id \in Job /\ status'[new.id] = "succeeded"
      BY <2>2, <2>3, <2>4, <3>1, <1>1 DEF Source
    <3> QED BY <2>1, <2>2, <3>1, <3>2
  <2>6. ASSUME NEW s \in Retired(j)
        PROVE  /\ Good(s)' /\ (s.key # KeyOf[j] => Served(s)')
               /\ Apart(s, new) /\ Apart(new, s)
    <3>1. PICK t \in sources \ Existing(j) : After(KeyOf[j], s, t)
      BY Retires
    <3>2. Good(t) /\ t.id \in Job /\ t.by \in Job
      BY <1>1 DEF Source
    <3>3. Good(s)'
      BY <3>1, <3>2, <2>1, <2>3 DEF After
    <3>4. ASSUME s.key # KeyOf[j] PROVE Served(s)'
      <4>1. PICK u \in sources : u.key = t.key /\ u.is_current
        BY <1>1
      <4>2. u \in Retired(j)
        BY <4>1, <3>1, <3>4, <2>4 DEF Retired, After
      <4> QED BY <4>1, <4>2, <3>1, <2>1 DEF After
    <3>5. ~(s.key = new.key /\ s.version = new.version)
      BY <3>1, <2>2 DEF Existing, After
    <3>6. ~(s.key = new.key /\ s.is_current)
      BY <3>1, <2>2 DEF After
    <3>7. s.id # new.id
      <4>1. CASE new.id = j
        BY <4>1, <3>1, <3>2, <2>1 DEF After
      <4>2. ASSUME NEW e \in Existing(j), new.id = e.id PROVE s.id # new.id
        BY <4>2, <3>1, <2>4, <1>2 DEF After
      <4> QED BY <4>1, <4>2, <2>2
    <3> QED BY <3>3, <3>4, <3>5, <3>6, <3>7
  <2>7. ASSUME NEW s \in Retired(j), NEW t \in Retired(j) PROVE Apart(s, t)
    <3>1. PICK p \in sources \ Existing(j) : After(KeyOf[j], s, p)
      BY Retires
    <3>2. PICK q \in sources \ Existing(j) : After(KeyOf[j], t, q)
      BY Retires
    <3>3. p = q => s = t
      BY <3>1, <3>2 DEF After, Source
    <3> QED BY <1>2, <3>1, <3>2, <3>3 DEF After
  <2>8. sources' = Retired(j) \cup {new}
    BY <2>1, <2>2
  <2>9. \A s \in sources' : Good(s)'
    BY <2>5, <2>6, <2>8
  <2>10. \A s \in sources' : Served(s)'
    BY <2>2, <2>6, <2>8
  <2>11. \A s, t \in sources' : Apart(s, t)
    BY <2>6, <2>7, <2>8
  <2> QED BY <2>9, <2>10, <2>11
<1>5. ASSUME NEW k \in Key, DeleteCommit(k)
      PROVE  /\ \A s \in sources' : Good(s)' /\ Served(s)'
             /\ \A s, t \in sources' : Apart(s, t)'
  <2>1. sources' = { s \in sources : s.key # k } /\ charged' = charged
    BY <1>5 DEF DeleteCommit
  <2>2. \A s \in sources' : Good(s)'
    BY <1>1, <2>1, SucceededStays DEF Source
  <2>3. \A s \in sources' : Served(s)'
    BY <1>1, <2>1
  <2> QED BY <1>2, <2>1, <2>2, <2>3
<1>6. ASSUME \A w \in Worker : ~Commit(w), \A k \in Key : ~DeleteCommit(k)
      PROVE  /\ \A s \in sources' : Good(s)' /\ Served(s)'
             /\ \A s, t \in sources' : Apart(s, t)'
  <2>1. sources' = sources /\ charged' = charged
    BY <1>6, SourcesKept
  <2>2. \A s \in sources' : Good(s)'
    BY <1>1, <2>1, SucceededStays DEF Source
  <2> QED BY <1>1, <1>2, <2>1, <2>2
<1> QED BY <1>4, <1>5, <1>6

-----------------------------------------------------------------------------
\* Attempts

LEMMA AttemptStep ==
  ASSUME TypeOK, Busy, LocksHeld, AttemptsEarned, [Next]_vars
  PROVE  AttemptsEarned'
<1> SUFFICES ASSUME NEW j \in Job PROVE Earned(j)'
  BY DEF AttemptsEarned
<1>0. /\ Earned(j) /\ attempts[j] \in Nat /\ faults \in Nat /\ live[j] \in BOOLEAN
      /\ MAX_INGESTION_ATTEMPTS \in Nat \ {0}
  BY IngestionAssumption DEF AttemptsEarned, TypeOK
<1> USE IngestionAssumption DEF TypeOK, jobVars, sourceVars, workerVars, deletionVars
<1>1. ASSUME NEW i \in Job, Enqueue(i) PROVE Earned(j)'
  BY <1>0, <1>1 DEF Enqueue, Earned, Orphaned
<1>2. ASSUME NEW i \in Job, LeaseExpires(i) PROVE Earned(j)'
  BY <1>0, <1>2 DEF LeaseExpires, Earned, Orphaned
<1>3. ASSUME NEW i \in Job, Stall(i) PROVE Earned(j)'
  BY <1>0, <1>3 DEF Stall, Fault, Earned
<1>4. ASSUME NEW w \in Worker, NEW i \in Job, Claim(w, i) PROVE Earned(j)'
  <2>1. work[w] = NoJob
    BY <1>4 DEF Claim, Busy
  <2>2. CASE i = j
    <3>1. /\ attempts'[j] = attempts[j] + 1 /\ status'[j] = "running" /\ live'[j]
          /\ faults' = faults /\ owner'[j] = w /\ work'[w] = j
      BY <1>4, <2>2 DEF Claim
    <3>2. status[j] = "queued" \/ (status[j] = "running" /\ ~live[j])
      BY <1>4, <2>2 DEF Claim, Claimable
    <3> QED BY <1>0, <3>1, <3>2 DEF Earned, Orphaned
  <2>3. CASE i # j
    <3>1. /\ attempts'[j] = attempts[j] /\ status'[j] = status[j] /\ live'[j] = live[j]
          /\ faults' = faults /\ owner'[j] = owner[j]
          /\ \A v \in Worker : work[v] = j => work'[v] = j
      BY <1>4, <2>1, <2>3 DEF Claim
    <3>2. Orphaned(j)' => Orphaned(j)
      BY <3>1 DEF Orphaned
    <3> QED BY <1>0, <3>1, <3>2 DEF Earned
  <2> QED BY <2>2, <2>3
<1>5. ASSUME NEW w \in Worker, EmbedFails(w) \/ Fence(w) \/ RollBack(w) PROVE Earned(j)'
  BY <1>0, <1>5 DEF EmbedFails, Fence, RollBack, Earned, Orphaned
<1>6. ASSUME NEW w \in Worker, Commit(w) PROVE Earned(j)'
  <2>1. attempts' = attempts /\ faults' = faults
    BY <1>6 DEF Commit
  <2>2. CASE j = work[w]
    <3>1. status'[j] = "succeeded"
      BY <1>6, <2>2 DEF Commit
    <3> QED BY <1>0, <2>1, <3>1 DEF Earned
  <2>3. CASE j # work[w]
    <3>1. /\ status'[j] = status[j] /\ live'[j] = live[j] /\ owner'[j] = owner[j]
          /\ \A v \in Worker : work[v] = j => work'[v] = j
      BY <1>6, <2>3 DEF Commit
    <3>2. Orphaned(j)' => Orphaned(j)
      BY <3>1 DEF Orphaned
    <3> QED BY <1>0, <2>1, <3>1, <3>2 DEF Earned
  <2> QED BY <2>2, <2>3
<1>7. ASSUME NEW w \in Worker, RecordFailure(w) PROVE Earned(j)'
  <2>1. attempts' = attempts /\ faults' = faults
    BY <1>7 DEF RecordFailure
  <2>2. CASE j = work[w] /\ Owns(w)
    <3>1. status'[j] = IF Retries(w) THEN "queued" ELSE "failed"
      BY <1>7, <2>2 DEF RecordFailure
    <3> QED BY <1>0, <2>1, <2>2, <3>1 DEF Earned, Retries
  <2>3. CASE j = work[w] /\ ~Owns(w)
    <3>1. /\ status'[j] = status[j] /\ live'[j] = live[j] /\ owner'[j] = owner[j]
          /\ \A v \in Worker : v # w /\ work[v] = j => work'[v] = j
      BY <1>7, <2>3 DEF RecordFailure
    <3>2. status[j] = "running" => owner[j] # w \/ ~live[j]
      BY <2>3 DEF Owns
    <3>3. Orphaned(j)' => Orphaned(j) \/ ~live[j]
      BY <3>1, <3>2 DEF Orphaned
    <3> QED BY <1>0, <2>1, <3>1, <3>3 DEF Earned
  <2>4. CASE j # work[w]
    <3>1. /\ status'[j] = status[j] /\ live'[j] = live[j] /\ owner'[j] = owner[j]
          /\ \A v \in Worker : work[v] = j => work'[v] = j
      BY <1>7, <2>4 DEF RecordFailure
    <3>2. Orphaned(j)' => Orphaned(j)
      BY <3>1 DEF Orphaned
    <3> QED BY <1>0, <2>1, <3>1, <3>2 DEF Earned
  <2> QED BY <2>2, <2>3, <2>4
<1>8. ASSUME NEW w \in Worker, Crash(w) PROVE Earned(j)'
  BY <1>0, <1>8 DEF Crash, Fault, Earned
<1>9. ASSUME NEW k \in Key, DeleteCheck(k) \/ DeleteCancel(k) PROVE Earned(j)'
  BY <1>0, <1>9 DEF DeleteCheck, DeleteCancel, Earned, Orphaned
<1>10. ASSUME NEW k \in Key, DeleteFails(k) PROVE Earned(j)'
  BY <1>0, <1>10 DEF DeleteFails, Fault, Earned
<1>11. ASSUME NEW k \in Key, DeleteCommit(k) PROVE Earned(j)'
  <2>1. attempts' = attempts /\ faults' = faults /\ work' = work
    BY <1>11 DEF DeleteCommit
  <2>2. CASE j \in locked[k]
    <3>1. status'[j] = "cancelled"
      BY <1>11, <2>2 DEF DeleteCommit
    <3> QED BY <1>0, <2>1, <3>1 DEF Earned
  <2>3. CASE j \notin locked[k]
    <3>1. status'[j] = status[j] /\ owner'[j] = owner[j] /\ live'[j] = live[j]
      BY <1>11, <2>3 DEF DeleteCommit
    <3> QED BY <1>0, <2>1, <3>1 DEF Earned, Orphaned
  <2> QED BY <2>2, <2>3
<1>12. ASSUME UNCHANGED vars PROVE Earned(j)'
  BY <1>0, <1>12 DEF vars, Earned, Orphaned
<1> QED
  BY <1>1, <1>2, <1>3, <1>4, <1>5, <1>6, <1>7, <1>8, <1>9, <1>10, <1>11, <1>12
  DEF Next, Work, Deletion

-----------------------------------------------------------------------------
LEMMA InitInv == Init => IInv
BY IngestionAssumption
DEF Init, IInv, TypeOK, Stages, Busy, LocksHeld, SourcesConsistent, NamedForJobs, AttemptsEarned,
    Earned

THEOREM Invariance == Spec => []IInv
<1>1. IInv /\ [Next]_vars => IInv'
  BY TypeStep, BusyStep, LockStep, SourceStep, AttemptStep DEF IInv
<1> QED BY <1>1, InitInv, PTL DEF Spec

\* Types of jobs, sources, workers and deletions.
THEOREM TypeSafe == Spec => []TypeOK
<1>1. IInv => TypeOK
  BY DEF IInv
<1> QED BY <1>1, Invariance, PTL

\* However takeovers, late commits and deletions overlap, a key has one current
\* source, each source is paid for and the work of a job that succeeded
\* (index_source, delete_source).
THEOREM SourcesStayConsistent == Spec => []SourcesConsistent
<1>1. IInv => SourcesConsistent
  BY DEF IInv
<1> QED BY <1>1, Invariance, PTL

\* Attempts beyond the limit of _fail are those that crashes and stalls cost.
THEOREM AttemptsAreBounded == Spec => []AttemptsBounded
<1>1. IInv => AttemptsBounded
  BY DEF IInv, AttemptsEarned, Earned, AttemptsBounded
<1> QED BY <1>1, Invariance, PTL

-----------------------------------------------------------------------------
\* The contract

\* What readers of a key see depends on its current sources only.
LEMMA SameShown ==
  ASSUME NEW k \in Key, Current(k)' = Current(k)
  PROVE  Shown(k)' = Shown(k)
BY DEF Shown

LEMMA ShownAfterCommit ==
  ASSUME IInv, NEW w \in Worker, Commit(w), NEW k \in Key
  PROVE  Shown(k)' = IF k = KeyOf[work[w]] THEN work[w] ELSE Shown(k)
<1>0. PICK j \in Job : j = work[w]
  BY Committing DEF IInv
<1>1. sources' = Retired(j) \cup {Written(j)}
  BY <1>0, Committing DEF IInv
<1>2. PICK new \in Source :
        new = Written(j) /\ new.by = j /\ new.is_current /\ new.key = KeyOf[j]
  BY Writes DEF IInv
<1>3. CASE k = KeyOf[j]
  <2>1. ASSUME NEW s \in Retired(j), s.key = k PROVE ~s.is_current
    <3>1. PICK t \in sources \ Existing(j) : After(KeyOf[j], s, t)
      BY Retires DEF IInv
    <3> QED BY <1>3, <2>1, <3>1 DEF After
  <2>2. Current(k)' = {new}
    BY <1>1, <1>2, <1>3, <2>1 DEF Current
  <2> QED BY <1>0, <1>2, <1>3, <2>2 DEF Shown
<1>4. CASE k # KeyOf[j]
  <2>1. \A s : s \in Retired(j) /\ s.key = k <=> s \in sources /\ s.key = k
    <3>1. ASSUME NEW s \in Retired(j), s.key = k PROVE s \in sources
      <4>1. PICK t \in sources \ Existing(j) : After(KeyOf[j], s, t)
        BY Retires DEF IInv
      <4> QED BY <1>4, <3>1, <4>1 DEF After
    <3>2. ASSUME NEW s \in sources, s.key = k PROVE s \in Retired(j)
      BY <1>4, <3>2 DEF Retired, Existing
    <3> QED BY <3>1, <3>2
  <2>2. Current(k)' = Current(k)
    BY <1>1, <1>2, <1>4, <2>1 DEF Current
  <2> QED BY <1>0, <1>4, <2>2, SameShown
<1> QED BY <1>3, <1>4

\* A step that leaves sources, locks and what is said of each job as they are
LEMMA Stutter ==
  ASSUME \A j \in Job : Outcome(j)' = Outcome(j), sources' = sources, locked' = locked
  PROVE  UNCHANGED Contract!vars
<1>1. \A k \in Key : Shown(k)' = Shown(k)
  BY SameShown DEF Current
<1> QED BY <1>1 DEF Contract!vars

LEMMA ContractStep ==
  ASSUME IInv, [Next]_vars
  PROVE  [Contract!Next]_Contract!vars
<1> USE DEF jobVars, sourceVars, workerVars, deletionVars
<1>0. TypeOK /\ Busy /\ LocksHeld
  BY DEF IInv
<1>1. ASSUME NEW j \in Job, Enqueue(j) PROVE Contract!Next
  <2>1. /\ Outcome(j) = "absent" /\ Outcome(j)' = "open"
        /\ \A i \in Job : i # j => Outcome(i)' = Outcome(i)
    BY <1>0, <1>1 DEF Enqueue, Outcome, TypeOK
  <2>2. \A k \in Key : Shown(k)' = Shown(k)
    BY <1>1, SameShown DEF Enqueue, Current
  <2>3. Contract!Request(j)
    BY <1>1, <2>1, <2>2 DEF Enqueue, Contract!Request
  <2> QED BY <2>3 DEF Contract!Next
<1>2. ASSUME NEW j \in Job, LeaseExpires(j) \/ Stall(j) PROVE UNCHANGED Contract!vars
  BY <1>2, Stutter DEF LeaseExpires, Stall, Outcome
<1>3. ASSUME NEW w \in Worker, NEW j \in Job, Claim(w, j) PROVE UNCHANGED Contract!vars
  <2>1. \A i \in Job : Outcome(i)' = Outcome(i)
    BY <1>0, <1>3 DEF Claim, Claimable, Outcome, TypeOK
  <2> QED BY <1>3, <2>1, Stutter DEF Claim
<1>4. ASSUME NEW w \in Worker, EmbedFails(w) \/ Fence(w) \/ RollBack(w) \/ Crash(w)
      PROVE  UNCHANGED Contract!vars
  BY <1>4, Stutter DEF EmbedFails, Fence, RollBack, Crash, Outcome
<1>5. ASSUME NEW w \in Worker, Commit(w) PROVE Contract!Next
  <2>0. PICK j \in Job : j = work[w]
    BY <1>0, <1>5, Committing
  <2>1. /\ Outcome(j) = "open" /\ Outcome(j)' = "published"
        /\ \A i \in Job : i # j => Outcome(i)' = Outcome(i)
    BY <1>0, <1>5, <2>0, Committing DEF Outcome, TypeOK
  <2>2. \A k \in Key : Shown(k)' = IF k = KeyOf[j] THEN j ELSE Shown(k)
    BY <1>5, <2>0, ShownAfterCommit
  <2>3. Contract!Publish(j)
    BY <1>5, <2>1, <2>2 DEF Commit, Contract!Publish
  <2> QED BY <2>3 DEF Contract!Next
<1>6. ASSUME NEW w \in Worker, RecordFailure(w)
      PROVE  Contract!Next \/ UNCHANGED Contract!vars
  <2>1. sources' = sources /\ locked' = locked
    BY <1>6 DEF RecordFailure
  <2>2. CASE Owns(w) /\ ~Retries(w)
    <3>0. PICK j \in Job : j = work[w]
      BY <1>0, <1>6 DEF RecordFailure, Busy, TypeOK
    <3>1. /\ Outcome(j) = "open" /\ Outcome(j)' = "dropped"
          /\ \A i \in Job : i # j => Outcome(i)' = Outcome(i)
      BY <1>0, <1>6, <2>2, <3>0 DEF RecordFailure, Owns, Outcome, TypeOK
    <3>2. \A k \in Key : Shown(k)' = Shown(k)
      BY <2>1, SameShown DEF Current
    <3>3. Contract!Drop(j)
      BY <2>1, <3>1, <3>2 DEF Contract!Drop
    <3> QED BY <3>3 DEF Contract!Next
  <2>3. CASE ~(Owns(w) /\ ~Retries(w))
    <3>1. \A i \in Job : Outcome(i)' = Outcome(i)
      BY <1>0, <1>6, <2>3 DEF RecordFailure, Owns, Outcome, TypeOK
    <3> QED BY <2>1, <3>1, Stutter
  <2> QED BY <2>2, <2>3
<1>7. ASSUME NEW k \in Key, DeleteCheck(k) \/ DeleteCancel(k) PROVE Contract!Next
  <2>1. locked' = [locked EXCEPT ![k] = Pending(k)]
    BY <1>7 DEF DeleteCheck, DeleteCancel, Cancelled
  <2>2. Pending(k) = { j \in Job : KeyOf[j] = k /\ Outcome(j) = "open" }
    BY <1>0 DEF Pending, Outcome, TypeOK
  <2>3. \A j \in Job : Outcome(j)' = Outcome(j)
    BY <1>7 DEF DeleteCheck, DeleteCancel, Outcome
  <2>4. \A l \in Key : Shown(l)' = Shown(l)
    BY <1>7, SameShown DEF DeleteCheck, DeleteCancel, Current
  <2>5. Contract!Doom(k)
    BY <2>1, <2>2, <2>3, <2>4 DEF Contract!Doom
  <2> QED BY <2>5 DEF Contract!Next
<1>8. ASSUME NEW k \in Key, DeleteCommit(k) PROVE Contract!Next
  <2>1. \A j \in Job : Outcome(j)' = IF j \in locked[k] THEN "dropped" ELSE Outcome(j)
    BY <1>0, <1>8 DEF DeleteCommit, Outcome, TypeOK
  <2>2. \A l \in Key : Shown(l)' = IF l = k THEN NoJob ELSE Shown(l)
    <3>1. sources' = { s \in sources : s.key # k }
      BY <1>8 DEF DeleteCommit
    <3>2. Current(k)' = {}
      BY <3>1 DEF Current
    <3>3. Shown(k)' = NoJob
      BY <3>2 DEF Shown
    <3>4. \A l \in Key : l # k => Current(l)' = Current(l)
      BY <3>1 DEF Current
    <3> QED BY <3>3, <3>4, SameShown
  <2>3. locked' = [locked EXCEPT ![k] = {}]
    BY <1>8 DEF DeleteCommit
  <2>4. Contract!Delete(k)
    BY <2>1, <2>2, <2>3 DEF Contract!Delete
  <2> QED BY <2>4 DEF Contract!Next
<1>9. ASSUME NEW k \in Key, DeleteFails(k) PROVE Contract!Next
  <2>1. \A j \in Job : Outcome(j)' = Outcome(j)
    BY <1>9 DEF DeleteFails, Outcome
  <2>2. \A l \in Key : Shown(l)' = Shown(l)
    BY <1>9, SameShown DEF DeleteFails, Current
  <2>3. Contract!Spare(k)
    BY <1>9, <2>1, <2>2 DEF DeleteFails, Contract!Spare
  <2> QED BY <2>3 DEF Contract!Next
<1>10. ASSUME UNCHANGED vars PROVE UNCHANGED Contract!vars
  BY <1>10, Stutter DEF vars, Outcome
<1> QED
  BY <1>1, <1>2, <1>3, <1>4, <1>5, <1>6, <1>7, <1>8, <1>9, <1>10 DEF Next, Work, Deletion

\* Jobs, leases, retries and deletions keep the promises of ADR 0016: published
\* once, and nothing a deletion ended comes back.
THEOREM Implements == Spec => ImplementsContract
<1>1. Init => Contract!Init
  BY DEF Init, Contract!Init, Outcome, Shown, Current
<1>2. IInv /\ [Next]_vars => [Contract!Next]_Contract!vars
  BY ContractStep
<1> QED BY <1>1, <1>2, Invariance, PTL DEF Spec, ImplementsContract, Contract!Spec
=============================================================================
