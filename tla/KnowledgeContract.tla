--------------------------- MODULE KnowledgeContract ---------------------------
(***************************************************************************)
(* What knowledge ingestion promises (ADR 0016), with no worker, lease or  *)
(* retry in sight: a request is published once or dropped; what it         *)
(* publishes is what readers of its key see, until another request of the  *)
(* key is published or the key is deleted; and a deletion ends every       *)
(* request that was open when it began, so that none of them recreates the *)
(* source afterwards.                                                      *)
(***************************************************************************)
EXTENDS Naturals

CONSTANTS
  Job,     \* knowledge_ingestion_jobs
  Key,     \* source_key
  KeyOf,   \* the key of each job
  NoJob

VARIABLES
  outcome,   \* "absent", "open", "published" or "dropped"
  shown,     \* the job whose content readers of a key see, or NoJob
  doomed     \* open jobs that the deletion of a key will end

vars == <<outcome, shown, doomed>>

Init ==
  /\ outcome = [j \in Job |-> "absent"]
  /\ shown = [k \in Key |-> NoJob]
  /\ doomed = [k \in Key |-> {}]

Request(j) ==
  /\ outcome[j] = "absent"
  /\ outcome' = [outcome EXCEPT ![j] = "open"]
  /\ UNCHANGED <<shown, doomed>>

Publish(j) ==
  /\ outcome[j] = "open"
  /\ outcome' = [outcome EXCEPT ![j] = "published"]
  /\ shown' = [shown EXCEPT ![KeyOf[j]] = j]
  /\ UNCHANGED doomed

Drop(j) ==
  /\ outcome[j] = "open"
  /\ outcome' = [outcome EXCEPT ![j] = "dropped"]
  /\ UNCHANGED <<shown, doomed>>

Doom(k) ==
  /\ doomed' = [doomed EXCEPT ![k] = { j \in Job : KeyOf[j] = k /\ outcome[j] = "open" }]
  /\ UNCHANGED <<outcome, shown>>

Delete(k) ==
  /\ outcome' = [j \in Job |-> IF j \in doomed[k] THEN "dropped" ELSE outcome[j]]
  /\ shown' = [shown EXCEPT ![k] = NoJob]
  /\ doomed' = [doomed EXCEPT ![k] = {}]

\* The deletion fails.
Spare(k) ==
  /\ doomed' = [doomed EXCEPT ![k] = {}]
  /\ UNCHANGED <<outcome, shown>>

Next ==
  \/ \E j \in Job : Request(j) \/ Publish(j) \/ Drop(j)
  \/ \E k \in Key : Doom(k) \/ Delete(k) \/ Spare(k)

Spec == Init /\ [][Next]_vars
=============================================================================
