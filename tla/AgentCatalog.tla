----------------------------- MODULE AgentCatalog -----------------------------
(***************************************************************************)
(* One standard agent of the catalog as one workspace sees it              *)
(* (agent_catalog_repository.py, agent_catalog.py, platform_admin.py,      *)
(* migration 016): its published versions and their release state, the     *)
(* staged rollouts of its channels, and the version the workspace is       *)
(* offered.                                                                *)
(*                                                                         *)
(* A version is its place in semantic order.  A manifest never changes, so *)
(* what it says is a constant.  Every operation locks the row of the agent *)
(* or of the version and is one step; created_at orders rollouts as they   *)
(* commit.  The workspace has a fixed bucket (rollout_bucket).             *)
(***************************************************************************)
EXTENDS Naturals, FiniteSets, SequencesExt

CONSTANTS
  NumVersions,
  Statuses,      \* release states in use, some of those of AgentStatus
  Channels,      \* channels in use, some of those of Channel
  Percentages,   \* sizes of rollouts in use
  Bucket,        \* rollout_bucket of the agent and the workspace
  MaxRollouts,   \* bound: rollouts that are ever made
  MaxChanges     \* bound: operations of platform administrators

Version == 1 .. NumVersions
NoVersion == 0

ASSUME CatalogAssumption ==
  /\ NumVersions \in Nat /\ MaxRollouts \in Nat /\ MaxChanges \in Nat
  /\ Statuses \subseteq {"draft", "beta", "stable", "deprecated", "disabled"}
  /\ Channels \subseteq {"stable", "beta", "canary"}
  /\ "stable" \in Statuses \cap Channels
  /\ Percentages \subseteq 0 .. 100
  /\ Bucket \in 0 .. 99

VARIABLES
  release,    \* status and channel of each version, or Unpublished
  rollouts,   \* agent_rollouts, in the order of created_at
  listed,     \* the workspace may see the agent: status, visibility, entitlement
  changes     \* operations so far, for the bound

catalogVars == <<release, rollouts, listed, changes>>

Unpublished == [status |-> "none", channel |-> "none"]
Release == [status : Statuses, channel : Channels]
Rollout == [version : Version, channel : Channels, percentage : 0 .. 100,
            state : {"active", "paused", "completed", "rolled_back"}]

OFFERABLE_STATUSES == {"stable", "beta"}

CHANNEL_SCOPE ==
  [stable |-> {"stable"},
   beta   |-> {"stable", "beta"},
   canary |-> {"stable", "beta", "canary"}]

Published == { v \in Version : release[v] # Unpublished }

\* The catalog begins with one version released to everybody.
CatalogInit ==
  /\ release = [v \in Version |->
       IF v = 1 THEN [status |-> "stable", channel |-> "stable"] ELSE Unpublished]
  /\ rollouts = << >>
  /\ listed = TRUE
  /\ changes = 0

Change == changes < MaxChanges /\ changes' = changes + 1

-----------------------------------------------------------------------------
\* publish_version: only a version above all published ones
PublishVersion(v, r) ==
  /\ Change
  /\ \A u \in Published : u < v
  /\ release' = [release EXCEPT ![v] = r]
  /\ UNCHANGED <<rollouts, listed>>

SetVersionRelease(v, r) ==
  /\ Change
  /\ v \in Published /\ r # release[v]
  /\ release' = [release EXCEPT ![v] = r]
  /\ UNCHANGED <<rollouts, listed>>

\* The unique index agent_rollouts_one_active: a transaction that would leave
\* two active rollouts on a channel fails and changes nothing.
OneActive(rs) ==
  \A i, j \in DOMAIN rs :
    rs[i].state = "active" /\ rs[j].state = "active" /\ rs[i].channel = rs[j].channel => i = j

\* create_rollout: the active rollout of the channel is superseded.
CreateRollout(v, c, p) ==
  /\ Change
  /\ Len(rollouts) < MaxRollouts
  /\ v \in Published /\ release[v].status \in OFFERABLE_STATUSES
  /\ rollouts' = Append(
       [i \in DOMAIN rollouts |->
          IF rollouts[i].state = "active" /\ rollouts[i].channel = c
            THEN [rollouts[i] EXCEPT !.state = "completed"] ELSE rollouts[i]],
       [version |-> v, channel |-> c, percentage |-> p, state |-> "active"])
  /\ UNCHANGED <<release, listed>>

\* update_rollout: widen, narrow, pause, resume or complete
UpdateRollout(i, p, s) ==
  /\ Change
  /\ rollouts[i].state \in {"active", "paused"}
  /\ rollouts' = [rollouts EXCEPT ![i].percentage = p, ![i].state = s]
  /\ OneActive(rollouts')
  /\ UNCHANGED <<release, listed>>

\* Rollouts that served the channel before the i-th, by their commit.  The code
\* compares created_at, the start of the transaction.
Earlier(i) ==
  { j \in 1 .. i - 1 : rollouts[j].channel = rollouts[i].channel
                       /\ rollouts[j].state # "rolled_back" }

\* rollback_rollout: what served the channel before serves all of it again.
RollbackRollout(i) ==
  LET retired == [rollouts EXCEPT ![i].state = "rolled_back"] IN
  /\ Change
  /\ rollouts[i].state # "rolled_back"
  /\ \/ Earlier(i) = {} /\ rollouts' = retired
     \/ \E j \in Earlier(i) :
          /\ \A k \in Earlier(i) : k <= j
          /\ Len(rollouts) < MaxRollouts
          /\ rollouts' = Append(retired,
               [version |-> rollouts[j].version, channel |-> rollouts[i].channel,
                percentage |-> 100, state |-> "active"])
  /\ OneActive(rollouts')
  /\ UNCHANGED <<release, listed>>

\* update_agent, grant_entitlement, revoke_entitlement
SetListed ==
  /\ Change
  /\ listed' = ~listed
  /\ UNCHANGED <<release, rollouts>>

CatalogStep ==
  \/ \E v \in Version, r \in Release : PublishVersion(v, r) \/ SetVersionRelease(v, r)
  \/ \E v \in Version, c \in Channels, p \in Percentages : CreateRollout(v, c, p)
  \/ \E i \in DOMAIN rollouts, p \in Percentages, s \in {"active", "paused", "completed"} :
       UpdateRollout(i, p, s)
  \/ \E i \in DOMAIN rollouts : RollbackRollout(i)
  \/ SetListed

-----------------------------------------------------------------------------
\* offered_version

Serving(channel) ==
  { r \in Range(rollouts) : r.state = "active" /\ r.channel \in CHANNEL_SCOPE[channel] }

Included(channel) == { r.version : r \in { s \in Serving(channel) : Bucket < s.percentage } }
Withheld(channel) == { r.version : r \in { s \in Serving(channel) : Bucket >= s.percentage } }

\* What the channel offers where no rollout includes the workspace
Newest(channel) ==
  { v \in Published : release[v].channel \in CHANNEL_SCOPE[channel]
                      /\ release[v].status \in OFFERABLE_STATUSES
                      /\ v \notin Withheld(channel) }

\* Rollouts and versions are read by two statements in the code, by one here.
Offered(channel) ==
  IF Included(channel) # {} THEN Max(Included(channel))
  ELSE IF Newest(channel) # {} THEN Max(Newest(channel))
  ELSE NoVersion

CatalogTypeOK ==
  /\ release \in [Version -> Release \cup {Unpublished}]
  /\ rollouts \in Seq(Rollout)
  /\ listed \in BOOLEAN
  /\ changes \in 0 .. MaxChanges
  /\ OneActive(rollouts)
=============================================================================
