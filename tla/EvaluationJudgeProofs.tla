------------------------- MODULE EvaluationJudgeProofs -------------------------
(***************************************************************************)
(* Proofs about EvaluationJudge, for any jobs, workers, configurations and *)
(* limits.                                                                 *)
(*                                                                         *)
(* The heart is FreshHolder: whatever a worker missed while it stalled, if *)
(* it is still the lease owner then the case in its hand is the first one  *)
(* without a score.  Only _claim makes a worker an owner, and it does so   *)
(* at the start of process_once, so the owner's view of the scores cannot  *)
(* be older than its lease.                                                *)
(***************************************************************************)
EXTENDS EvaluationJudge, FiniteSetTheorems, TLAPS

Open(j) == status[j] \in {"absent", "queued", "running"}

\* An open job has attempts and cases left.
OpenHasMore ==
  \A j \in Job :
    /\ Open(j) => attempts[j] < MaxJudgeAttempts
    /\ status[j] # "succeeded" => score[j][NumCases] = NoConfig

OnlyRunningOwned == \A j \in Job : status[j] = "running" \/ owner[j] = Nobody

Busy == \A w \in Worker : stage[w] = "idle" <=> job[w] = NoJob

\* Cases are scored in order.
InOrder ==
  \A j \in Job : \A c, d \in Case :
    c <= d /\ score[j][c] = NoConfig => score[j][d] = NoConfig

\* What the lease owner scores is the first case without a score.
FreshHolder ==
  \A w \in Worker :
    stage[w] # "idle" /\ owner[job[w]] = w =>
      /\ stage[w] # "finish"
      /\ stage[w] \in {"candidate", "baseline", "save"} =>
           \A d \in Case : score[job[w]][d] = NoConfig <=> d >= case[w]

Inv == TypeOK /\ OpenHasMore /\ OnlyRunningOwned /\ Busy /\ InOrder /\ FreshHolder /\ OneConfig

-----------------------------------------------------------------------------
\* The effects of the transaction of _claim that the proofs need: it strikes
\* the jobs of E, and takes none or takes k.
Strikes(w, E) ==
  /\ \A j \in E : status[j] = "running" /\ pin[j] = Profile[w]
  /\ attempts' = Struck(E)
  /\ lease' \in [Job -> {"none", "live", "lapsed", "expired"}]
  /\ score' = score

TakesNone(E) ==
  /\ status' = AfterExpiry(E)
  /\ owner' = [j \in Job |-> IF j \in E THEN Nobody ELSE owner[j]]
  /\ UNCHANGED <<pin, workVars, claims>>

Takes(w, E, k) ==
  /\ AfterExpiry(E)[k] = "queued" /\ pin[k] \in {NoConfig, Profile[w]}
  /\ stage[w] = "idle"
  /\ status' = [AfterExpiry(E) EXCEPT ![k] = "running"]
  /\ owner' = [j \in Job |-> IF j = k THEN w
                             ELSE IF j \in E THEN Nobody ELSE owner[j]]
  /\ pin' = [pin EXCEPT ![k] = Profile[w]]
  /\ job' = [job EXCEPT ![w] = k]
  /\ stage' = [stage EXCEPT ![w] = "next"]
  /\ claims' = [claims EXCEPT ![k] = @ + 1]
  /\ case' = case

LEMMA Polling ==
  ASSUME TypeOK, NEW w \in Worker, ExpireOnly(w) \/ Claim(w)
  PROVE  \E E \in SUBSET Job :
           Strikes(w, E) /\ (TakesNone(E) \/ \E k \in Job : Takes(w, E, k))
<1>1. CASE ExpireOnly(w)
  <2>1. PICK E \in ExpiredSets(w) :
          /\ status' = AfterExpiry(E)
          /\ attempts' = Struck(E)
          /\ owner' = [j \in Job |-> IF j \in E THEN Nobody ELSE owner[j]]
          /\ lease' = [j \in Job |-> IF j \in E THEN "none" ELSE lease[j]]
    BY <1>1 DEF ExpireOnly
  <2>2. E \in SUBSET Job /\ Strikes(w, E)
    BY <1>1, <2>1 DEF ExpiredSets, Strikes, ExpireOnly, TypeOK
  <2>3. TakesNone(E)
    BY <1>1, <2>1 DEF TakesNone, ExpireOnly
  <2> QED BY <2>2, <2>3
<1>2. CASE Claim(w)
  <2>1. PICK E \in ExpiredSets(w) : \E k \in Claimable(w, E) :
          /\ status' = [AfterExpiry(E) EXCEPT ![k] = "running"]
          /\ attempts' = Struck(E)
          /\ owner' = [j \in Job |-> IF j = k THEN w
                                     ELSE IF j \in E THEN Nobody ELSE owner[j]]
          /\ lease' = [j \in Job |-> IF j = k THEN "live"
                                     ELSE IF j \in E THEN "none" ELSE lease[j]]
          /\ pin' = [pin EXCEPT ![k] = IF @ = NoConfig THEN Profile[w] ELSE @]
          /\ job' = [job EXCEPT ![w] = k]
          /\ stage' = [stage EXCEPT ![w] = "next"]
          /\ claims' = [claims EXCEPT ![k] = @ + 1]
    BY <1>2 DEF Claim
  <2>2. E \in SUBSET Job /\ Strikes(w, E)
    BY <1>2, <2>1 DEF ExpiredSets, Strikes, Claim, TypeOK
  <2>3. ASSUME NEW k \in Claimable(w, E),
               pin' = [pin EXCEPT ![k] = IF @ = NoConfig THEN Profile[w] ELSE @]
        PROVE  /\ k \in Job /\ AfterExpiry(E)[k] = "queued"
               /\ pin[k] \in {NoConfig, Profile[w]}
               /\ pin' = [pin EXCEPT ![k] = Profile[w]]
    BY <2>3 DEF Claimable
  <2>4. stage[w] = "idle" /\ case' = case
    BY <1>2 DEF Claim
  <2>5. \E k \in Job : Takes(w, E, k)
    BY <2>1, <2>3, <2>4 DEF Takes
  <2> QED BY <2>2, <2>5
<1> QED BY <1>1, <1>2

\* What the strikes do to the counters and the states.
LEMMA Striking ==
  ASSUME Inv, NEW w \in Worker, NEW E \in SUBSET Job, Strikes(w, E)
  PROVE  /\ attempts' \in [Job -> 0..MaxJudgeAttempts]
         /\ AfterExpiry(E) \in [Job -> {"absent", "queued", "running", "succeeded", "failed"}]
         /\ \A j \in Job :
              /\ AfterExpiry(E)[j] \in {"absent", "queued", "running"} =>
                   Open(j) /\ attempts'[j] < MaxJudgeAttempts
              /\ AfterExpiry(E)[j] # "succeeded" => status[j] # "succeeded"
              /\ j \notin E => AfterExpiry(E)[j] = status[j] /\ attempts'[j] = attempts[j]
              /\ j \in E => /\ AfterExpiry(E)[j] \in {"queued", "failed"}
                            /\ attempts'[j] = attempts[j] + 1
                            /\ attempts'[j] >= MaxJudgeAttempts => AfterExpiry(E)[j] = "failed"
BY BoundsAssumption DEF Strikes, Inv, TypeOK, OpenHasMore, Open, Struck, AfterExpiry

\* A save by the lease owner scores the first case without a score.
LEMMA Saving ==
  ASSUME Inv, NEW w \in Worker, SaveCase(w)
  PROVE  /\ job[w] \in Job /\ status[job[w]] = "running" /\ owner[job[w]] = w
         /\ case[w] \in Case /\ pin[job[w]] = Profile[w] /\ stage[w] = "save"
         /\ \A d \in Case : score[job[w]][d] = NoConfig <=> d >= case[w]
         /\ score' = [score EXCEPT ![job[w]] = [@ EXCEPT ![case[w]] = Profile[w]]]
         /\ status' = [status EXCEPT ![job[w]] = IF case[w] = NumCases THEN "succeeded"
                                                                      ELSE "queued"]
<1> DEFINE j == job[w]
<1>1. j \in Job /\ status[j] = "running" /\ owner[j] = w /\ case[w] \in Case
  BY DEF SaveCase, Holds, Inv, Busy, TypeOK
<1>2. pin[j] = Profile[w] /\ Profile[w] \in Config
  BY <1>1, NullAssumption, ProfileAssumption DEF Inv, OneConfig
<1>3. stage[w] = "save" /\ \A d \in Case : score[j][d] = NoConfig <=> d >= case[w]
  BY <1>1 DEF Inv, FreshHolder, SaveCase
<1>4. score[j][case[w]] = NoConfig
  BY <1>1, <1>3, BoundsAssumption DEF Case
<1> DEFINE saved == [score[j] EXCEPT ![case[w]] = Profile[w]]
<1>5. /\ score' = [score EXCEPT ![j] = saved]
      /\ status' = [status EXCEPT ![j] = IF \A c \in Case : saved[c] # NoConfig
                                           THEN "succeeded" ELSE "queued"]
  BY <1>3, <1>4 DEF SaveCase, Release
<1>6. (\A c \in Case : saved[c] # NoConfig) <=> case[w] = NumCases
  <2>1. score[j] \in [Case -> Config \cup {NoConfig}]
    BY <1>1 DEF Inv, TypeOK
  <2>2. ASSUME case[w] = NumCases, NEW c \in Case PROVE saved[c] # NoConfig
    BY <1>1, <1>2, <1>3, <2>1, <2>2, NullAssumption, BoundsAssumption DEF Case
  <2>3. ASSUME case[w] # NumCases PROVE saved[NumCases] = NoConfig /\ NumCases \in Case
    BY <1>1, <1>3, <2>1, <2>3, BoundsAssumption DEF Case
  <2> QED BY <2>2, <2>3
<1> QED BY <1>1, <1>2, <1>3, <1>5, <1>6

-----------------------------------------------------------------------------
\* Types and the counters: every action.
LEMMA TypeStep ==
  Inv /\ [Next]_vars => TypeOK' /\ OpenHasMore' /\ OnlyRunningOwned' /\ Busy'
<1> SUFFICES ASSUME Inv, [Next]_vars
             PROVE  TypeOK' /\ OpenHasMore' /\ OnlyRunningOwned' /\ Busy'
  OBVIOUS
<1> USE BoundsAssumption, ProfileAssumption, NullAssumption
<1>1. ASSUME NEW j \in Job, Create(j)
      PROVE  TypeOK' /\ OpenHasMore' /\ OnlyRunningOwned' /\ Busy'
  BY <1>1 DEF Inv, TypeOK, OpenHasMore, Open, OnlyRunningOwned, Busy, Create, workVars
<1>2. ASSUME NEW j \in Job, Lapse(j)
      PROVE  TypeOK' /\ OpenHasMore' /\ OnlyRunningOwned' /\ Busy'
  BY <1>2 DEF Inv, TypeOK, OpenHasMore, Open, OnlyRunningOwned, Busy, Lapse, workVars
<1>3. ASSUME NEW w \in Worker, ExpireOnly(w) \/ Claim(w)
      PROVE  TypeOK' /\ OpenHasMore' /\ OnlyRunningOwned' /\ Busy'
  <2>1. PICK E \in SUBSET Job :
          Strikes(w, E) /\ (TakesNone(E) \/ \E k \in Job : Takes(w, E, k))
    BY <1>3, Polling DEF Inv
  <2>2. CASE TakesNone(E)
    <3>1. TypeOK'
      BY <2>1, <2>2, Striking DEF Inv, TypeOK, workVars, Strikes, TakesNone
    <3>2. OpenHasMore'
      BY <2>1, <2>2, Striking DEF Inv, OpenHasMore, Open, Strikes, TakesNone
    <3>3. OnlyRunningOwned' /\ Busy'
      BY <2>1, <2>2, Striking DEF Inv, OnlyRunningOwned, Busy, workVars, Strikes, TakesNone
    <3> QED BY <3>1, <3>2, <3>3
  <2>3. ASSUME NEW k \in Job, Takes(w, E, k)
        PROVE  TypeOK' /\ OpenHasMore' /\ OnlyRunningOwned' /\ Busy'
    <3>1. status' \in [Job -> {"absent", "queued", "running", "succeeded", "failed"}]
      BY <2>1, <2>3, Striking DEF Takes
    <3> DEFINE F == [j \in Job |-> IF j = k THEN w
                                  ELSE IF j \in E THEN Nobody ELSE owner[j]]
    <3>a. owner' = F /\ F \in [Job -> Worker \cup {Nobody}]
      BY <2>3 DEF Takes, Inv, TypeOK
    <3>b. Profile[w] \in Config
      OBVIOUS
    <3>c. pin' \in [Job -> Config \cup {NoConfig}]
      BY <2>3, <3>b DEF Takes, Inv, TypeOK
    <3>d. /\ job' \in [Worker -> Job \cup {NoJob}] /\ case' \in [Worker -> Case]
          /\ stage' \in [Worker -> Stage] /\ claims' \in [Job -> Nat]
      BY <2>3 DEF Takes, Inv, TypeOK, Stage
    <3>e. /\ lease' \in [Job -> {"none", "live", "lapsed", "expired"}]
          /\ score' \in [Job -> [Case -> Config \cup {NoConfig}]]
          /\ attempts' \in [Job -> 0..MaxJudgeAttempts]
      BY <2>1, Striking DEF Strikes, Inv, TypeOK
    <3>2. TypeOK'
      BY <3>1, <3>a, <3>c, <3>d, <3>e DEF TypeOK
    <3>3. OpenHasMore'
      BY <2>1, <2>3, Striking DEF Inv, OpenHasMore, Open, Takes, Strikes
    <3>4. OnlyRunningOwned'
      BY <2>1, <2>3, Striking DEF Inv, OnlyRunningOwned, Takes, Strikes
    <3>5. Busy'
      BY <2>3, NullAssumption DEF Inv, Busy, TypeOK, Takes
    <3> QED BY <3>2, <3>3, <3>4, <3>5
  <2> QED BY <2>1, <2>2, <2>3
<1>4. ASSUME NEW w \in Worker, NextCase(w)
      PROVE  TypeOK' /\ OpenHasMore' /\ OnlyRunningOwned' /\ Busy'
  <2>1. TypeOK'
    BY <1>4 DEF Inv, TypeOK, NextCase, Unscored, rowVars, Stage
  <2> QED BY <1>4, <2>1 DEF Inv, TypeOK, OpenHasMore, Open, OnlyRunningOwned, Busy, NextCase, rowVars
<1>5. ASSUME NEW w \in Worker, NEW s \in Stage \ {"idle"}, stage[w] # "idle", GoTo(w, s)
      PROVE  TypeOK' /\ OpenHasMore' /\ OnlyRunningOwned' /\ Busy'
  BY <1>5 DEF Inv, TypeOK, OpenHasMore, Open, OnlyRunningOwned, Busy, GoTo, rowVars
<1>6. ASSUME NEW w \in Worker, SaveCase(w)
      PROVE  TypeOK' /\ OpenHasMore' /\ OnlyRunningOwned' /\ Busy'
  <2>1. /\ job[w] \in Job /\ status[job[w]] = "running" /\ case[w] \in Case
        /\ \A d \in Case : score[job[w]][d] = NoConfig <=> d >= case[w]
        /\ score' = [score EXCEPT ![job[w]] = [@ EXCEPT ![case[w]] = Profile[w]]]
        /\ status' = [status EXCEPT ![job[w]] = IF case[w] = NumCases THEN "succeeded"
                                                                     ELSE "queued"]
    BY <1>6, Saving
  <2>2. TypeOK'
    BY <1>6, <2>1 DEF Inv, TypeOK, SaveCase, Release, Idle, Stage, Case
  <2>3. OpenHasMore'
    BY <1>6, <2>1 DEF Inv, TypeOK, OpenHasMore, Open, SaveCase, Case
  <2> QED BY <1>6, <2>1, <2>2, <2>3 DEF Inv, TypeOK, OnlyRunningOwned, Busy, SaveCase, Release, Idle
<1>7. ASSUME NEW w \in Worker, Fail(w)
      PROVE  TypeOK' /\ OpenHasMore' /\ OnlyRunningOwned' /\ Busy'
  <2>1. job[w] \in Job /\ status[job[w]] = "running"
    BY <1>7 DEF Fail, Holds, Inv, Busy, TypeOK
  <2>2. TypeOK' /\ OpenHasMore'
    BY <1>7, <2>1 DEF Inv, TypeOK, OpenHasMore, Open, Fail, Release, Idle, Stage, Case
  <2> QED BY <1>7, <2>1, <2>2 DEF Inv, TypeOK, OnlyRunningOwned, Busy, Fail, Release, Idle
<1>8. ASSUME NEW w \in Worker, Dropped(w) \/ Crash(w)
      PROVE  TypeOK' /\ OpenHasMore' /\ OnlyRunningOwned' /\ Busy'
  <2>1. Idle(w) /\ UNCHANGED <<rowVars, pin, score, claims>>
    BY <1>8 DEF Dropped, Crash
  <2>2. TypeOK'
    BY <2>1 DEF Inv, TypeOK, Idle, rowVars, Stage, Case
  <2> QED BY <2>1, <2>2 DEF Inv, TypeOK, OpenHasMore, Open, OnlyRunningOwned, Busy, Idle, rowVars
<1>9. ASSUME NEW w \in Worker, Renew(w)
      PROVE  TypeOK' /\ OpenHasMore' /\ OnlyRunningOwned' /\ Busy'
  BY <1>9 DEF Inv, TypeOK, OpenHasMore, Open, OnlyRunningOwned, Busy, Renew, workVars
<1>10. CASE UNCHANGED vars
  BY <1>10 DEF Inv, TypeOK, OpenHasMore, Open, OnlyRunningOwned, Busy, vars, rowVars, workVars
<1> QED BY <1>1, <1>2, <1>3, <1>4, <1>5, <1>6, <1>7, <1>8, <1>9, <1>10
        DEF Next, Process, NoCaseLeft, ScoreCandidate, ScoreBaseline, Break, Stage

\* An action that leaves scores, pins and what workers do alone, and makes
\* nobody an owner, keeps the rest.
LEMMA Quiet ==
  ASSUME Inv, UNCHANGED <<pin, score, workVars>>,
         \A j \in Job : owner'[j] \in {owner[j], Nobody}
  PROVE  InOrder' /\ FreshHolder' /\ OneConfig'
<1>1. InOrder' /\ OneConfig'
  BY DEF Inv, InOrder, OneConfig, Scored, workVars
<1>2. FreshHolder'
  <2> SUFFICES ASSUME NEW w \in Worker, stage'[w] # "idle", owner'[job'[w]] = w
               PROVE  /\ stage'[w] # "finish"
                      /\ stage'[w] \in {"candidate", "baseline", "save"} =>
                           \A d \in Case : score'[job'[w]][d] = NoConfig <=> d >= case'[w]
    BY DEF FreshHolder
  <2>1. job[w] \in Job /\ job' = job /\ stage' = stage
    BY DEF workVars, Inv, Busy, TypeOK
  <2>2. owner[job[w]] = w
    BY <2>1, NullAssumption
  <2> QED BY <2>1, <2>2 DEF Inv, FreshHolder, workVars
<1> QED BY <1>1, <1>2

\* So does the end of a process_once that leaves the scores alone.
LEMMA Ending ==
  ASSUME Inv, NEW w \in Worker, Idle(w), UNCHANGED <<pin, score>>,
         \A j \in Job : owner'[j] \in {owner[j], Nobody}
  PROVE  InOrder' /\ FreshHolder' /\ OneConfig'
<1>1. InOrder'
  BY DEF Inv, InOrder
<1>2. OneConfig'
  BY DEF Inv, OneConfig, Scored, Idle, TypeOK
<1>3. FreshHolder'
  <2> SUFFICES ASSUME NEW v \in Worker, stage'[v] # "idle", owner'[job'[v]] = v
               PROVE  /\ stage'[v] # "finish"
                      /\ stage'[v] \in {"candidate", "baseline", "save"} =>
                           \A d \in Case : score'[job'[v]][d] = NoConfig <=> d >= case'[v]
    BY DEF FreshHolder
  <2>1. v # w
    BY DEF Idle, Inv, TypeOK
  <2>2. job'[v] = job[v] /\ stage'[v] = stage[v] /\ case'[v] = case[v] /\ job[v] \in Job
    BY <2>1 DEF Idle, Inv, TypeOK, Busy
  <2>3. owner[job[v]] = v
    BY <2>2, NullAssumption
  <2> QED BY <2>2, <2>3 DEF Inv, FreshHolder
<1> QED BY <1>1, <1>2, <1>3

\* Scores and what the lease owners know of them: every action.
LEMMA ScoreStep ==
  Inv /\ [Next]_vars => InOrder' /\ FreshHolder' /\ OneConfig'
<1> SUFFICES ASSUME Inv, [Next]_vars
             PROVE  InOrder' /\ FreshHolder' /\ OneConfig'
  OBVIOUS
<1>1. ASSUME NEW j \in Job, Create(j) \/ Lapse(j)
      PROVE  InOrder' /\ FreshHolder' /\ OneConfig'
  BY <1>1, Quiet DEF Create, Lapse
<1>2. ASSUME NEW w \in Worker, ExpireOnly(w) \/ Claim(w)
      PROVE  InOrder' /\ FreshHolder' /\ OneConfig'
  <2>1. PICK E \in SUBSET Job :
          Strikes(w, E) /\ (TakesNone(E) \/ \E k \in Job : Takes(w, E, k))
    BY <1>2, Polling DEF Inv
  <2>2. CASE TakesNone(E)
    BY <2>1, <2>2, Quiet DEF Strikes, TakesNone
  <2>3. ASSUME NEW k \in Job, Takes(w, E, k)
        PROVE  InOrder' /\ FreshHolder' /\ OneConfig'
    <3>1. InOrder'
      BY <2>1 DEF Strikes, Inv, InOrder
    <3>2. pin' = [pin EXCEPT ![k] = Profile[w]] /\ score' = score
      BY <2>1, <2>3 DEF Strikes, Takes
    <3>3. \A c \in Scored(k) : pin[k] # NoConfig
      BY DEF Inv, OneConfig, Scored
    <3>4. ASSUME NEW v \in Worker, job'[v] # NoJob PROVE pin'[job'[v]] = Profile[v]
      <4>1. CASE v = w
        BY <2>3, <4>1 DEF Takes, Inv, TypeOK
      <4>2. CASE v # w
        <5>1. job'[v] = job[v] /\ pin[job[v]] = Profile[v] /\ job[v] \in Job
          BY <2>3, <3>4, <4>2 DEF Takes, Inv, TypeOK, OneConfig
        <5>2. pin[job[v]] # NoConfig
          BY <5>1, NullAssumption, ProfileAssumption
        <5> QED BY <2>3, <5>1, <5>2 DEF Takes, Inv, TypeOK
      <4> QED BY <4>1, <4>2
    <3>5. ASSUME NEW j \in Job, NEW c \in Scored(j)' PROVE score'[j][c] = pin'[j]
      <4>1. c \in Scored(j) /\ score[j][c] = pin[j]
        BY <3>2 DEF Scored, Inv, OneConfig
      <4>2. pin'[j] = pin[j]
        BY <2>3, <3>2, <3>3, <4>1 DEF Takes, Inv, TypeOK
      <4> QED BY <3>2, <4>1, <4>2
    <3>6. OneConfig'
      BY <3>4, <3>5 DEF OneConfig
    <3>7. FreshHolder'
      <4> SUFFICES ASSUME NEW v \in Worker, stage'[v] # "idle", owner'[job'[v]] = v
                   PROVE  /\ stage'[v] # "finish"
                          /\ stage'[v] \in {"candidate", "baseline", "save"} =>
                               \A d \in Case : score'[job'[v]][d] = NoConfig <=> d >= case'[v]
        BY DEF FreshHolder
      <4>1. CASE v = w
        BY <2>3, <4>1 DEF Takes, Inv, TypeOK
      <4>2. CASE v # w
        <5>1. job'[v] = job[v] /\ stage'[v] = stage[v] /\ case' = case /\ job[v] \in Job
          BY <2>3, <4>2 DEF Takes, Inv, TypeOK, Busy
        <5>2. owner[job[v]] = v
          BY <2>3, <4>2, <5>1, NullAssumption DEF Takes
        <5> QED BY <3>2, <5>1, <5>2 DEF Inv, FreshHolder
      <4> QED BY <4>1, <4>2
    <3> QED BY <3>1, <3>6, <3>7
  <2> QED BY <2>1, <2>2, <2>3
<1>3. ASSUME NEW w \in Worker, NextCase(w)
      PROVE  InOrder' /\ FreshHolder' /\ OneConfig'
  <2>1. PICK c \in Unscored(job[w]) :
          /\ \A d \in Unscored(job[w]) : c <= d
          /\ case' = [case EXCEPT ![w] = c]
    BY <1>3 DEF NextCase
  <2>2. job[w] \in Job
    BY <1>3 DEF NextCase, Inv, Busy, TypeOK
  <2>3. \A d \in Case : score[job[w]][d] = NoConfig <=> d >= c
    BY <2>1, <2>2 DEF Unscored, Inv, InOrder, Case
  <2>4. FreshHolder'
    BY <1>3, <2>1, <2>3 DEF Inv, FreshHolder, NextCase, rowVars, TypeOK
  <2> QED BY <1>3, <2>4 DEF Inv, InOrder, OneConfig, Scored, NextCase
<1>4. ASSUME NEW w \in Worker, NoCaseLeft(w)
      PROVE  InOrder' /\ FreshHolder' /\ OneConfig'
  <2>1. job[w] \in Job /\ NumCases \in Case
    BY <1>4, BoundsAssumption DEF NoCaseLeft, Inv, Busy, TypeOK, Case
  <2>2. status[job[w]] = "succeeded" /\ owner[job[w]] = Nobody
    BY <1>4, <2>1 DEF NoCaseLeft, Unscored, Inv, OpenHasMore, OnlyRunningOwned
  <2>3. FreshHolder'
    BY <1>4, <2>2, NullAssumption DEF Inv, FreshHolder, NoCaseLeft, GoTo, rowVars, TypeOK
  <2> QED BY <1>4, <2>3 DEF Inv, InOrder, OneConfig, Scored, NoCaseLeft, GoTo
<1>5. ASSUME NEW w \in Worker, ScoreCandidate(w) \/ ScoreBaseline(w) \/ Break(w)
      PROVE  InOrder' /\ FreshHolder' /\ OneConfig'
  <2>1. PICK s \in {"baseline", "save", "retryable", "final"} :
          /\ GoTo(w, s) /\ stage[w] # "idle"
          /\ s \in {"baseline", "save"} => stage[w] \in {"candidate", "baseline"}
    BY <1>5 DEF ScoreCandidate, ScoreBaseline, Break
  <2>2. FreshHolder'
    BY <2>1 DEF Inv, FreshHolder, GoTo, rowVars, TypeOK
  <2> QED BY <2>1, <2>2 DEF Inv, InOrder, OneConfig, Scored, GoTo
<1>6. ASSUME NEW w \in Worker, SaveCase(w)
      PROVE  InOrder' /\ FreshHolder' /\ OneConfig'
  <2>1. /\ job[w] \in Job /\ owner[job[w]] = w /\ case[w] \in Case
        /\ pin[job[w]] = Profile[w]
        /\ \A d \in Case : score[job[w]][d] = NoConfig <=> d >= case[w]
        /\ score' = [score EXCEPT ![job[w]] = [@ EXCEPT ![case[w]] = Profile[w]]]
    BY <1>6, Saving
  <2>2. Profile[w] # NoConfig
    BY NullAssumption, ProfileAssumption
  <2>3. \A j \in Job, d \in Case :
          score'[j][d] = IF j = job[w] /\ d = case[w] THEN Profile[w] ELSE score[j][d]
    BY <2>1 DEF Inv, TypeOK
  <2>4. InOrder'
    BY <2>1, <2>2, <2>3 DEF Inv, InOrder, Case
  <2>5. pin' = pin /\ Idle(w) /\ owner' = [owner EXCEPT ![job[w]] = Nobody]
    BY <1>6 DEF SaveCase, Release
  <2>6. OneConfig'
    BY <2>1, <2>3, <2>5 DEF Inv, OneConfig, Scored, Idle, TypeOK
  <2>7. FreshHolder'
    <3> SUFFICES ASSUME NEW v \in Worker, stage'[v] # "idle", owner'[job'[v]] = v
                 PROVE  /\ stage'[v] # "finish"
                        /\ stage'[v] \in {"candidate", "baseline", "save"} =>
                             \A d \in Case : score'[job'[v]][d] = NoConfig <=> d >= case'[v]
      BY DEF FreshHolder
    <3>1. v # w
      BY <2>5 DEF Idle, Inv, TypeOK
    <3>2. job'[v] = job[v] /\ stage'[v] = stage[v] /\ case'[v] = case[v] /\ job[v] \in Job
      BY <2>5, <3>1 DEF Idle, Inv, TypeOK, Busy
    <3>3. job[v] # job[w] /\ owner[job[v]] = v
      BY <2>1, <2>5, <3>2, NullAssumption DEF Inv, TypeOK
    <3> QED BY <2>3, <3>2, <3>3 DEF Inv, FreshHolder
  <2> QED BY <2>4, <2>6, <2>7
<1>7. ASSUME NEW w \in Worker, Fail(w) \/ Dropped(w) \/ Crash(w)
      PROVE  InOrder' /\ FreshHolder' /\ OneConfig'
  <2>1. \A j \in Job : owner'[j] \in {owner[j], Nobody}
    BY <1>7 DEF Fail, Dropped, Crash, Release, rowVars, Inv, TypeOK
  <2>2. Idle(w) /\ UNCHANGED <<pin, score>>
    BY <1>7 DEF Fail, Dropped, Crash
  <2> QED BY <2>1, <2>2, Ending
<1>8. ASSUME NEW w \in Worker, Renew(w)
      PROVE  InOrder' /\ FreshHolder' /\ OneConfig'
  BY <1>8, Quiet DEF Renew
<1>9. CASE UNCHANGED vars
  BY <1>9, Quiet DEF vars, rowVars
<1> QED BY <1>1, <1>2, <1>3, <1>4, <1>5, <1>6, <1>7, <1>8, <1>9 DEF Next, Process

LEMMA InvInit == Init => Inv
<1> USE BoundsAssumption, NullAssumption, ProfileAssumption
<1>1. Init => TypeOK /\ OpenHasMore
  BY DEF Init, TypeOK, OpenHasMore, Open, Stage, Case
<1> QED BY <1>1 DEF Init, Inv, OnlyRunningOwned, Busy, InOrder, FreshHolder, OneConfig, Scored

THEOREM Invariance == Spec => []Inv
<1>1. Inv /\ [Next]_vars => Inv'
  BY TypeStep, ScoreStep DEF Inv
<1> QED BY InvInit, <1>1, PTL DEF Spec

-----------------------------------------------------------------------------
(* Types: in particular the attempts of a job never exceed                  *)
(* MAX_JUDGE_ATTEMPTS, whether _claim or _fail counts them.                 *)
THEOREM TypeSafe == Spec => []TypeOK
BY Invariance, PTL DEF Inv

(* Scores are of the pinned configuration (_claim, _save_case).             *)
THEOREM PinnedScores == Spec => []OneConfig
BY Invariance, PTL DEF Inv

-----------------------------------------------------------------------------
\* The scores of a job can be counted.
LEMMA CountScored ==
  ASSUME TypeOK, NEW j \in Job
  PROVE  IsFiniteSet(Scored(j)) /\ Cardinality(Scored(j)) \in Nat
<1>1. IsFiniteSet(Case)
  BY BoundsAssumption, FS_Interval DEF Case
<1>2. IsFiniteSet(Scored(j))
  BY <1>1, FS_Subset DEF Scored
<1> QED BY <1>2, FS_CardinalityType

\* What a job owes its claims, unless it changes.
LEMMA Untouched ==
  ASSUME Inv, ClaimsAccounted, NEW j \in Job,
         score'[j] = score[j], attempts'[j] = attempts[j], claims'[j] = claims[j],
         status'[j] = "running" <=> status[j] = "running"
  PROVE  claims'[j] = Cardinality(Scored(j)') + attempts'[j]
                      + (IF status'[j] = "running" THEN 1 ELSE 0)
<1>1. Scored(j)' = Scored(j)
  BY DEF Scored
<1> QED BY <1>1 DEF ClaimsAccounted

\* Every action keeps the account.
LEMMA AccountStep == Inv /\ ClaimsAccounted /\ [Next]_vars => ClaimsAccounted'
<1> SUFFICES ASSUME Inv, ClaimsAccounted, [Next]_vars, NEW j \in Job
             PROVE  claims'[j] = Cardinality(Scored(j)') + attempts'[j]
                                 + (IF status'[j] = "running" THEN 1 ELSE 0)
  BY DEF ClaimsAccounted
<1> DEFINE Accounted == claims'[j] = Cardinality(Scored(j)') + attempts'[j]
                                     + (IF status'[j] = "running" THEN 1 ELSE 0)
<1>0. /\ claims[j] = Cardinality(Scored(j)) + attempts[j]
                      + (IF status[j] = "running" THEN 1 ELSE 0)
      /\ IsFiniteSet(Scored(j)) /\ Cardinality(Scored(j)) \in Nat
      /\ attempts[j] \in Nat /\ claims[j] \in Nat
  BY CountScored, BoundsAssumption DEF ClaimsAccounted, Inv, TypeOK
<1>1. ASSUME NEW k \in Job, Create(k) \/ Lapse(k) PROVE Accounted
  BY <1>1, Untouched DEF Create, Lapse, Inv, TypeOK
<1>2. ASSUME NEW w \in Worker, ExpireOnly(w) \/ Claim(w) PROVE Accounted
  <2>1. PICK E \in SUBSET Job :
          Strikes(w, E) /\ (TakesNone(E) \/ \E k \in Job : Takes(w, E, k))
    BY <1>2, Polling DEF Inv
  <2>2. /\ Scored(j)' = Scored(j) /\ score'[j] = score[j]
        /\ j \notin E => AfterExpiry(E)[j] = status[j] /\ attempts'[j] = attempts[j]
        /\ j \in E => /\ status[j] = "running" /\ attempts'[j] = attempts[j] + 1
                      /\ AfterExpiry(E)[j] \in {"queued", "failed"}
    BY <2>1, Striking DEF Strikes, Scored
  <2>3. CASE TakesNone(E)
    BY <1>0, <2>2, <2>3 DEF TakesNone
  <2>4. ASSUME NEW k \in Job, Takes(w, E, k) PROVE Accounted
    <3>1. CASE j = k
      <4>1. status'[j] = "running" /\ claims'[j] = claims[j] + 1
        BY <2>1, <2>4, <3>1, Striking DEF Takes, Inv, TypeOK
      <4>2. j \notin E => status[j] = "queued"
        BY <2>2, <2>4, <3>1 DEF Takes
      <4> QED BY <1>0, <2>2, <4>1, <4>2
    <3>2. CASE j # k
      <4>1. status'[j] = AfterExpiry(E)[j] /\ claims'[j] = claims[j]
        BY <2>1, <2>4, <3>2, Striking DEF Takes, Inv, TypeOK
      <4> QED BY <1>0, <2>2, <4>1
    <3> QED BY <3>1, <3>2
  <2> QED BY <2>1, <2>3, <2>4
<1>3. ASSUME NEW w \in Worker, SaveCase(w) PROVE Accounted
  <2>1. /\ job[w] \in Job /\ status[job[w]] = "running" /\ case[w] \in Case
        /\ pin[job[w]] = Profile[w]
        /\ \A d \in Case : score[job[w]][d] = NoConfig <=> d >= case[w]
        /\ score' = [score EXCEPT ![job[w]] = [@ EXCEPT ![case[w]] = Profile[w]]]
        /\ status' = [status EXCEPT ![job[w]] = IF case[w] = NumCases THEN "succeeded"
                                                                     ELSE "queued"]
        /\ attempts' = attempts /\ claims' = claims
    BY <1>3, Saving DEF SaveCase
  <2>2. CASE j = job[w]
    <3>1. Scored(j)' = Scored(j) \cup {case[w]}
      BY <2>1, <2>2, NullAssumption, ProfileAssumption DEF Scored, Inv, TypeOK
    <3>2. case[w] \notin Scored(j)
      BY <2>1, <2>2, BoundsAssumption DEF Scored, Case
    <3>3. Cardinality(Scored(j)') = Cardinality(Scored(j)) + 1
      BY <1>0, <3>1, <3>2, FS_AddElement
    <3>4. status[j] = "running" /\ status'[j] # "running"
      BY <2>1, <2>2 DEF Inv, TypeOK
    <3> QED BY <1>0, <2>1, <3>3, <3>4
  <2>3. CASE j # job[w]
    BY <2>1, <2>3, Untouched DEF Inv, TypeOK
  <2> QED BY <2>2, <2>3
<1>4. ASSUME NEW w \in Worker, Fail(w) PROVE Accounted
  <2>1. /\ job[w] \in Job /\ status[job[w]] = "running"
        /\ attempts' = [attempts EXCEPT ![job[w]] = @ + 1]
        /\ \E s \in {"queued", "failed"} : status' = [status EXCEPT ![job[w]] = s]
        /\ score' = score /\ claims' = claims
    BY <1>4 DEF Fail, Release, Holds, Inv, Busy, TypeOK
  <2>2. CASE j = job[w]
    <3>1. Scored(j)' = Scored(j)
      BY <2>1 DEF Scored
    <3>2. attempts'[j] = attempts[j] + 1 /\ status'[j] # "running"
      BY <2>1, <2>2 DEF Inv, TypeOK
    <3> QED BY <1>0, <2>1, <2>2, <3>1, <3>2
  <2>3. CASE j # job[w]
    BY <2>1, <2>3, Untouched DEF Inv, TypeOK
  <2> QED BY <2>2, <2>3
<1>5. ASSUME UNCHANGED <<status, attempts, score, claims>> PROVE Accounted
  BY <1>5, Untouched
<1> QED
  BY <1>1, <1>2, <1>3, <1>4, <1>5
  DEF Next, Process, NextCase, NoCaseLeft, ScoreCandidate, ScoreBaseline, Break, GoTo,
      Dropped, Crash, Renew, vars, rowVars

(* Every claim is paid for by one new score or one strike, or is under way, *)
(* whoever ends it (_claim, _save_case, _fail).                             *)
THEOREM ClaimsAreAccounted == Spec => []ClaimsAccounted
<1>1. Init => ClaimsAccounted
  <2> SUFFICES ASSUME Init, NEW j \in Job
               PROVE  claims[j] = Cardinality(Scored(j)) + attempts[j]
                                  + (IF status[j] = "running" THEN 1 ELSE 0)
    BY DEF ClaimsAccounted
  <2>1. Cardinality(Scored(j)) = 0
    <3>1. Scored(j) = {}
      BY DEF Init, Scored
    <3> QED BY <3>1, FS_EmptySet
  <2>2. claims[j] = 0 /\ attempts[j] = 0 /\ status[j] # "running"
    BY DEF Init
  <2> QED BY <2>1, <2>2
<1>2. Inv /\ ClaimsAccounted /\ [Next]_vars => ClaimsAccounted'
  BY AccountStep
<1> QED BY <1>1, <1>2, Invariance, PTL DEF Spec

-----------------------------------------------------------------------------
\* Refinement of JudgeContract.

Bar(j) == IF status[j] \in {"queued", "running"} THEN "open" ELSE status[j]

\* The contract's state of a job, and a step of it, spelled out.
LEMMA Barred ==
  ASSUME NEW j \in Job
  PROVE  /\ Contract!Same(j) <=>
              /\ Bar(j)' = Bar(j) /\ attempts'[j] = attempts[j]
              /\ pin'[j] = pin[j] /\ score'[j] = score[j]
         /\ Contract!Queue(j) <=>
              /\ Bar(j) = "absent" /\ Bar(j)' = "open" /\ attempts'[j] = attempts[j]
              /\ pin'[j] = pin[j] /\ score'[j] = score[j]
         /\ Contract!Pin(j) <=>
              /\ Bar(j) = "open" /\ pin[j] = NoConfig /\ pin'[j] \in Config
              /\ Bar(j)' = Bar(j) /\ attempts'[j] = attempts[j] /\ score'[j] = score[j]
         /\ Contract!Score(j) <=>
              /\ Bar(j) = "open" /\ pin[j] # NoConfig
              /\ \E c \in Case :
                   /\ \A d \in Case : score[j][d] = NoConfig <=> d >= c
                   /\ score'[j] = [score[j] EXCEPT ![c] = pin[j]]
                   /\ Bar(j)' = IF c = NumCases THEN "succeeded" ELSE "open"
              /\ attempts'[j] = attempts[j] /\ pin'[j] = pin[j]
         /\ Contract!Strike(j) <=>
              /\ Bar(j) = "open" /\ pin[j] # NoConfig
              /\ attempts'[j] = attempts[j] + 1
              /\ Bar(j)' \in {"open", "failed"}
              /\ attempts'[j] >= MaxJudgeAttempts => Bar(j)' = "failed"
              /\ pin'[j] = pin[j] /\ score'[j] = score[j]
BY DEF Contract!Same, Contract!Queue, Contract!Pin, Contract!Score, Contract!Strike,
       Contract!Case, Case, Bar

\* Every step is, for every job, a step of the contract or none.
LEMMA ContractStep ==
  ASSUME Inv, [Next]_vars, NEW j \in Job
  PROVE  \/ Contract!Same(j) \/ Contract!Queue(j) \/ Contract!Pin(j)
         \/ Contract!Score(j) \/ Contract!Strike(j)
<1> DEFINE Stepped == \/ Contract!Same(j) \/ Contract!Queue(j) \/ Contract!Pin(j)
                      \/ Contract!Score(j) \/ Contract!Strike(j)
<1>1. ASSUME NEW k \in Job, Create(k) PROVE Stepped
  <2>1. \/ /\ status[j] = "absent" /\ status'[j] = "queued"
        \/ status'[j] = status[j]
    BY <1>1 DEF Create, Inv, TypeOK
  <2>2. attempts'[j] = attempts[j] /\ pin'[j] = pin[j] /\ score'[j] = score[j]
    BY <1>1 DEF Create
  <2> QED BY <2>1, <2>2, Barred DEF Bar
<1>2. ASSUME NEW w \in Worker, ExpireOnly(w) \/ Claim(w) PROVE Stepped
  <2>1. PICK E \in SUBSET Job :
          Strikes(w, E) /\ (TakesNone(E) \/ \E k \in Job : Takes(w, E, k))
    BY <1>2, Polling DEF Inv
  <2>2. /\ score'[j] = score[j] /\ Profile[w] \in Config /\ Profile[w] # NoConfig
        /\ j \notin E => AfterExpiry(E)[j] = status[j] /\ attempts'[j] = attempts[j]
        /\ j \in E => /\ status[j] = "running" /\ pin[j] = Profile[w]
                      /\ attempts'[j] = attempts[j] + 1
                      /\ AfterExpiry(E)[j] \in {"queued", "failed"}
                      /\ attempts'[j] >= MaxJudgeAttempts => AfterExpiry(E)[j] = "failed"
    BY <2>1, Striking, ProfileAssumption, NullAssumption DEF Strikes
  <2>3. CASE TakesNone(E)
    <3>1. status'[j] = AfterExpiry(E)[j] /\ pin'[j] = pin[j]
      BY <2>3 DEF TakesNone
    <3> QED BY <2>2, <3>1, Barred DEF Bar
  <2>4. ASSUME NEW k \in Job, Takes(w, E, k) PROVE Stepped
    <3>1. CASE j = k
      <4>1. /\ status'[j] = "running" /\ pin'[j] = Profile[w]
            /\ AfterExpiry(E)[j] = "queued" /\ pin[j] \in {NoConfig, Profile[w]}
        BY <2>1, <2>4, <3>1, Striking DEF Takes, Inv, TypeOK
      <4> QED BY <2>2, <4>1, Barred DEF Bar
    <3>2. CASE j # k
      <4>1. status'[j] = AfterExpiry(E)[j] /\ pin'[j] = pin[j]
        BY <2>1, <2>4, <3>2, Striking DEF Takes, Inv, TypeOK
      <4> QED BY <2>2, <4>1, Barred DEF Bar
    <3> QED BY <3>1, <3>2
  <2> QED BY <2>1, <2>3, <2>4
<1>3. ASSUME NEW w \in Worker, SaveCase(w) PROVE Stepped
  <2>1. /\ job[w] \in Job /\ status[job[w]] = "running" /\ case[w] \in Case
        /\ pin[job[w]] = Profile[w]
        /\ \A d \in Case : score[job[w]][d] = NoConfig <=> d >= case[w]
        /\ score' = [score EXCEPT ![job[w]] = [@ EXCEPT ![case[w]] = Profile[w]]]
        /\ status' = [status EXCEPT ![job[w]] = IF case[w] = NumCases THEN "succeeded"
                                                                     ELSE "queued"]
        /\ attempts' = attempts /\ pin' = pin
    BY <1>3, Saving DEF SaveCase
  <2>2. CASE j = job[w]
    <3>1. /\ score'[j] = [score[j] EXCEPT ![case[w]] = pin[j]]
          /\ status'[j] = IF case[w] = NumCases THEN "succeeded" ELSE "queued"
      BY <2>1, <2>2 DEF Inv, TypeOK
    <3>2. pin[j] # NoConfig
      BY <2>1, <2>2, ProfileAssumption, NullAssumption
    <3>3. /\ Bar(j) = "open" /\ attempts'[j] = attempts[j] /\ pin'[j] = pin[j]
          /\ Bar(j)' = IF case[w] = NumCases THEN "succeeded" ELSE "open"
      BY <2>1, <2>2, <3>1 DEF Bar
    <3>4. \E c \in Case :
             /\ \A d \in Case : score[j][d] = NoConfig <=> d >= c
             /\ score'[j] = [score[j] EXCEPT ![c] = pin[j]]
             /\ Bar(j)' = IF c = NumCases THEN "succeeded" ELSE "open"
      BY <2>1, <2>2, <3>1, <3>3
    <3> QED BY <3>2, <3>3, <3>4, Barred
  <2>3. CASE j # job[w]
    <3>1. status'[j] = status[j] /\ score'[j] = score[j]
      BY <2>1, <2>3 DEF Inv, TypeOK
    <3> QED BY <2>1, <3>1, Barred DEF Bar
  <2> QED BY <2>2, <2>3
<1>4. ASSUME NEW w \in Worker, Fail(w) PROVE Stepped
  <2>1. /\ job[w] \in Job /\ status[job[w]] = "running" /\ pin[job[w]] = Profile[w]
        /\ attempts' = [attempts EXCEPT ![job[w]] = @ + 1]
        /\ \E s \in {"queued", "failed"} :
             /\ status' = [status EXCEPT ![job[w]] = s]
             /\ attempts'[job[w]] >= MaxJudgeAttempts => s = "failed"
        /\ score' = score /\ pin' = pin
    <3>1. job[w] \in Job /\ status[job[w]] = "running" /\ pin[job[w]] = Profile[w]
      BY <1>4, NullAssumption DEF Fail, Holds, Inv, Busy, TypeOK, OneConfig
    <3>2. attempts' = [attempts EXCEPT ![job[w]] = @ + 1] /\ attempts'[job[w]] \in Nat
      BY <1>4, <3>1 DEF Fail, Inv, TypeOK
    <3> DEFINE s == IF stage[w] = "retryable" /\ attempts'[job[w]] < MaxJudgeAttempts
                      THEN "queued" ELSE "failed"
    <3>3. /\ s \in {"queued", "failed"} /\ status' = [status EXCEPT ![job[w]] = s]
          /\ score' = score /\ pin' = pin
      BY <1>4 DEF Fail, Release
    <3>4. attempts'[job[w]] >= MaxJudgeAttempts => s = "failed"
      BY <3>2, BoundsAssumption
    <3> QED BY <3>1, <3>2, <3>3, <3>4
  <2>2. CASE j = job[w]
    <3>1. /\ attempts'[j] = attempts[j] + 1 /\ status'[j] \in {"queued", "failed"}
          /\ attempts'[j] >= MaxJudgeAttempts => status'[j] = "failed"
      BY <2>1, <2>2 DEF Inv, TypeOK
    <3>2. pin[j] # NoConfig
      BY <2>1, <2>2, ProfileAssumption, NullAssumption
    <3> QED BY <2>1, <2>2, <3>1, <3>2, Barred DEF Bar
  <2>3. CASE j # job[w]
    <3>1. status'[j] = status[j] /\ attempts'[j] = attempts[j]
      BY <2>1, <2>3 DEF Inv, TypeOK
    <3> QED BY <2>1, <3>1, Barred DEF Bar
  <2> QED BY <2>2, <2>3
<1>5. ASSUME UNCHANGED <<status, attempts, pin, score>> PROVE Stepped
  BY <1>5, Barred DEF Bar
<1> QED
  BY <1>1, <1>2, <1>3, <1>4, <1>5
  DEF Next, Process, NextCase, NoCaseLeft, ScoreCandidate, ScoreBaseline, Break, GoTo,
      Dropped, Crash, Renew, Lapse, vars, rowVars

(* Leases, take-overs and late saves implement the contract of ADR 0022     *)
(* (_claim, _save_case, _fail).                                             *)
THEOREM Implements == Spec => ImplementsContract
<1>1. Init => Contract!Init
  BY DEF Init, Contract!Init, Contract!Case, Case
<1>2. Inv /\ [Next]_vars => [Contract!Next]_Contract!vars
  BY ContractStep DEF Contract!Next
<1> QED BY <1>1, <1>2, Invariance, PTL DEF Spec, ImplementsContract, Contract!Spec
=============================================================================
