--------------------------- MODULE SpendProofs ---------------------------
(***************************************************************************)
(* Proofs about SpendLedger, for any payers, admins, budgets and costs,    *)
(* and about AlertDelivery, for any alerts, notifiers and bounds.          *)
(*                                                                         *)
(* TypeOK is inductive.  What alerts promise rests on EvaluationCurrent:   *)
(* what a transaction found reached is still what the ledger and budget it *)
(* is about to publish reach.  Two rows keep it so.  The workspaces row    *)
(* (OneScoped) lets no admin overlap a charge or another admin, so a       *)
(* transaction can only be disturbed by one of its own kind.  Charges      *)
(* overlap: with a budget, one holds the budget row (LockHeld) from its    *)
(* evaluation to its end and the others wait; with none, no charge reaches *)
(* anything, and none can appear meanwhile.                                *)
(*                                                                         *)
(* Overshoot is about a sum, so it rests on what a fold over a finite set  *)
(* returns, proved by a smallest counterexample: a ledger with a charge    *)
(* more has consumed that charge more.  OvershootInv then counts the calls *)
(* in flight as already charged.                                           *)
(***************************************************************************)
EXTENDS SpendLedger, AlertDelivery, FiniteSetTheorems, TLAPS

\* Every alert a budget asks for is well formed.
LEMMA ReachedAlerts ==
  ASSUME NEW b \in Budget \cup {NoBudget}, NEW entries \in SUBSET Entry
  PROVE  Contract!Reached(entries, b) \subseteq Alert
<1>1. CASE b = NoBudget
  BY <1>1 DEF Contract!Reached
<1>2. CASE b # NoBudget
  <2>1. b.limit \in Nat /\ b.thresholds \subseteq 1 .. 100
    BY <1>2, BudgetAssumption
  <2> QED BY <1>2, <2>1 DEF Contract!Reached, Alert, Consumed
<1> QED BY <1>1, <1>2

\* What Fresh returns is part of its candidates, and once it is raised
\* nothing is fresh any more.
LEMMA FreshFacts ==
  ASSUME NEW candidates, NEW old
  PROVE  /\ Contract!Fresh(candidates, old) \subseteq candidates
         /\ Contract!Fresh(candidates, old \cup Contract!Fresh(candidates, old)) = {}
BY DEF Contract!Fresh

LEMMA TypeInit == Init => TypeOK
<1> SUFFICES ASSUME Init PROVE TypeOK
  OBVIOUS
<1>1. budget \in Budget \cup {NoBudget}
  BY BudgetAssumption DEF Init
<1>2. alerts \subseteq Alert
  BY <1>1, ReachedAlerts, FreshFacts DEF Init
<1> QED BY <1>1, <1>2 DEF Init, TypeOK, InTransaction

LEMMA TypeStep ==
  ASSUME TypeOK, [Next]_vars
  PROVE  TypeOK'
<1> USE DEF TypeOK, InTransaction, tables, staging
<1>1. ASSUME NEW p \in Payer, NEW s \in Source, ReadBudget(p, s) PROVE TypeOK'
  BY <1>1, ProcessAssumption DEF ReadBudget, Process
<1>2. ASSUME NEW p \in Payer, Decide(p) PROVE TypeOK'
  <2>1. p \in Process /\ pc[p] = "deciding"
    BY <1>2 DEF Decide, Process
  <2>2. ceiling' \in Nat \cup {Unlimited}
    BY <1>2, <2>1, BudgetAssumption DEF Decide, CeilingAfter
  <2> QED BY <1>2, <2>1, <2>2, ProcessAssumption DEF Decide
<1>3. ASSUME NEW p \in Payer, CallFails(p) PROVE TypeOK'
  BY <1>3, ProcessAssumption DEF CallFails, Process
<1>4. ASSUME NEW p \in Payer, NEW cost \in Cost, Record(p, cost) PROVE TypeOK'
  <2>1. p \in Process /\ unit[p] \in Source
    BY <1>4 DEF Record, Process
  <2>2. {[source |-> unit[p], cost |-> cost]} \subseteq Entry
    BY <2>1 DEF Entry
  <2>3. /\ entry' \in [Process -> SUBSET Entry]
        /\ \A q \in Process \ {p} : entry'[q] = entry[q]
    BY <1>4, <2>1, <2>2 DEF Record
  <2>4. /\ pc' \in [Process -> {"idle", "deciding", "calling"} \cup InTransaction]
        /\ pc'[p] \in InTransaction
        /\ \A q \in Process \ {p} : pc'[q] = pc[q]
    BY <1>4, <2>1 DEF Record
  <2>5. lock' # p /\ lock' = lock
    BY <1>4, <2>1, ProcessAssumption DEF Record
  <2> QED BY <1>4, <2>1, <2>3, <2>4, <2>5, ProcessAssumption DEF Record
<1>5. ASSUME NEW a \in Admin, NEW b \in Budget, WriteBudget(a, b) PROVE TypeOK'
  BY <1>5, ProcessAssumption DEF WriteBudget, Process
<1>6. ASSUME NEW p \in Process, LockBudget(p) PROVE TypeOK'
  BY <1>6, ProcessAssumption DEF LockBudget
<1>7. ASSUME NEW p \in Process, Evaluate(p) PROVE TypeOK'
  <2>1. Contract!Reached(SeenLedger(p), SeenBudget(p)) \subseteq Alert
    BY ReachedAlerts DEF SeenLedger, SeenBudget
  <2> QED BY <1>7, <2>1, ProcessAssumption DEF Evaluate
<1>8. ASSUME NEW p \in Process, Insert(p) PROVE TypeOK'
  <2>1. Contract!Fresh(wanted[p], alerts) \subseteq Alert
    BY FreshFacts
  <2> QED BY <1>8, <2>1, ProcessAssumption DEF Insert
<1>9. ASSUME NEW p \in Process, Commit(p) PROVE TypeOK'
  <2>1. ledger' \subseteq Entry /\ alerts' \subseteq Alert
        /\ budget' \in Budget \cup {NoBudget}
    BY <1>9 DEF Commit, SeenLedger, SeenBudget
  <2> QED BY <1>9, <2>1, ProcessAssumption DEF Commit, EndOfTransaction
<1>10. ASSUME NEW p \in Process, Abort(p) PROVE TypeOK'
  BY <1>10, ProcessAssumption DEF Abort, EndOfTransaction
<1>11. ASSUME NEW a \in Admin, Scope(a) PROVE TypeOK'
  BY <1>11, ProcessAssumption DEF Scope, Process
<1>12. CASE UNCHANGED vars
  BY <1>12 DEF vars
<1> QED
  BY <1>1, <1>2, <1>3, <1>4, <1>5, <1>6, <1>7, <1>8, <1>9, <1>10, <1>11, <1>12 DEF Next

\* Every table, lock and staged row of spend_repository.py keeps its type, and
\* a process outside a transaction has staged nothing and holds no lock.
THEOREM TypeSafe == Spec => []TypeOK
BY TypeInit, TypeStep, PTL DEF Spec

-----------------------------------------------------------------------------
\* Who holds what

\* A process has at most one charge staged, of a unit of work that nobody has
\* charged; only payers stage charges and only admins stage budgets.
StagedOnce ==
  /\ \A a \in Admin : entry[a] = {}
  /\ \A p \in Payer : draft[p] = NoBudget
  /\ \A p \in Payer : pc[p] \in {"locking", "evaluating", "inserting"} =>
                        entry[p] # {}
  /\ \A a \in Admin : pc[a] \in InTransaction \ {"scoped"} => draft[a] # NoBudget
  /\ \A p \in Payer : entry[p] # {} =>
       \E s \in Source, c \in Cost : /\ entry[p] = {[source |-> s, cost |-> c]}
                                     /\ ~Contract!Charged(ledger, s)
                                     /\ \A q \in Process \ {p} :
                                          ~Contract!Charged(entry[q], s)

\* The workspaces row: while an admin is in a transaction nobody has a charge
\* staged, and no other admin is in one.
OneScoped ==
  \A a \in Admin : pc[a] \in InTransaction => Charging = {} /\ Scoping = {a}

\* The budget row: an admin holds it from its first write on, and a charge from
\* its evaluation on, unless there is no budget or nothing was charged.
LockHeld ==
  /\ \A p \in Process : draft[p] # NoBudget => lock = p
  /\ \A p \in Payer :
       pc[p] \in {"evaluating", "inserting", "committing"} /\ entry[p] # {} =>
         lock = p \/ budget = NoBudget

\* What a transaction found reached is still what the ledger and the budget it
\* is about to publish reach.
EvaluationCurrent ==
  \A p \in Process :
    /\ pc[p] = "inserting" =>
         wanted[p] = Contract!Reached(SeenLedger(p), SeenBudget(p))
    /\ pc[p] = "committing" =>
         raised[p] = Contract!Fresh(Contract!Reached(SeenLedger(p), SeenBudget(p)),
                                    alerts)

LedgerInv ==
  TypeOK /\ StagedOnce /\ OneScoped /\ LockHeld /\ EvaluationCurrent /\ CrossingsRaised

\* A step that publishes nothing.
Unpublished ==
  \/ \E p \in Payer :
       \/ \E s \in Source : ReadBudget(p, s)
       \/ Decide(p)
       \/ CallFails(p)
       \/ \E cost \in Cost : Record(p, cost)
  \/ \E a \in Admin :
       \/ Scope(a)
       \/ \E b \in Budget : WriteBudget(a, b)
  \/ \E p \in Process : LockBudget(p) \/ Evaluate(p) \/ Insert(p) \/ Abort(p)
  \/ UNCHANGED vars

LEMMA Kinds == [Next]_vars => Unpublished \/ \E p \in Process : Commit(p)
BY DEF Next, Unpublished

LEMMA StagedOnceStep ==
  ASSUME TypeOK, StagedOnce, [Next]_vars
  PROVE  StagedOnce'
<1> USE ProcessAssumption DEF TypeOK, InTransaction, StagedOnce, tables, staging, Process
<1>1. ASSUME NEW p \in Payer, NEW s \in Source, ReadBudget(p, s) PROVE StagedOnce'
  BY <1>1 DEF ReadBudget
<1>2. ASSUME NEW p \in Payer, Decide(p) PROVE StagedOnce'
  BY <1>2 DEF Decide
<1>3. ASSUME NEW p \in Payer, CallFails(p) PROVE StagedOnce'
  BY <1>3 DEF CallFails
<1>4. ASSUME NEW p \in Payer, NEW cost \in Cost, Record(p, cost) PROVE StagedOnce'
  <2>1. p \in Process /\ pc[p] = "calling" /\ unit[p] \in Source /\ entry[p] = {}
    BY <1>4 DEF Record
  <2>2. CASE Contract!Charged(ledger, unit[p])
    BY <1>4, <2>1, <2>2 DEF Record
  <2>3. CASE ~Contract!Charged(ledger, unit[p])
    <3>1. /\ entry' = [entry EXCEPT ![p] = {[source |-> unit[p], cost |-> cost]}]
          /\ pc' = [pc EXCEPT ![p] = "locking"]
          /\ \A q \in Process \ {p} : ~Contract!Charged(entry[q], unit[p])
          /\ UNCHANGED <<ledger, draft>>
      BY <1>4, <2>3 DEF Record
    <3>2. ASSUME NEW r \in Payer, entry'[r] # {}
          PROVE  \E s \in Source, c \in Cost :
                   /\ entry'[r] = {[source |-> s, cost |-> c]}
                   /\ ~Contract!Charged(ledger, s)
                   /\ \A q \in Process \ {r} : ~Contract!Charged(entry'[q], s)
      <4>1. CASE r = p
        BY <2>1, <2>3, <3>1, <4>1
      <4>2. CASE r # p
        <5>1. PICK s \in Source, c \in Cost :
                /\ entry[r] = {[source |-> s, cost |-> c]}
                /\ ~Contract!Charged(ledger, s)
                /\ \A q \in Process \ {r} : ~Contract!Charged(entry[q], s)
          BY <3>1, <3>2, <4>2
        <5>2. s # unit[p]
          <6>1. ~Contract!Charged(entry[r], unit[p])
            BY <3>1, <4>2
          <6>2. \A e \in entry[r] : e.source # unit[p]
            BY <6>1 DEF Contract!Charged
          <6>3. [source |-> s, cost |-> c] \in entry[r]
            BY <5>1
          <6> QED BY <6>2, <6>3
        <5>3. ~Contract!Charged(entry'[p], s)
          <6>1. entry'[p] = {[source |-> unit[p], cost |-> cost]}
            BY <2>1, <3>1
          <6> QED BY <5>2, <6>1 DEF Contract!Charged
        <5>4. entry'[r] = entry[r]
              /\ \A q \in Process \ {p} : entry'[q] = entry[q]
          BY <3>1, <4>2
        <5> QED BY <5>1, <5>3, <5>4
      <4> QED BY <4>1, <4>2
    <3>3. \A r \in Payer : pc'[r] \in {"locking", "evaluating", "inserting"} =>
                           entry'[r] # {}
      BY <2>1, <3>1
    <3>4. /\ \A a \in Admin : entry'[a] = {}
          /\ \A a \in Admin :
               pc'[a] \in InTransaction \ {"scoped"} => draft'[a] # NoBudget
      BY <2>1, <3>1
    <3>5. \A r \in Payer : draft'[r] = NoBudget
      BY <3>1
    <3> QED BY <3>1, <3>2, <3>3, <3>4, <3>5
  <2> QED BY <2>2, <2>3
<1>5. ASSUME NEW a \in Admin, NEW b \in Budget, WriteBudget(a, b) PROVE StagedOnce'
  BY <1>5, BudgetAssumption DEF WriteBudget
<1>6. ASSUME NEW p \in Process, LockBudget(p) \/ Evaluate(p) \/ Insert(p)
      PROVE  StagedOnce'
  BY <1>6 DEF LockBudget, Evaluate, Insert
<1>7. ASSUME NEW p \in Process, Commit(p) PROVE StagedOnce'
  BY <1>7 DEF Commit, EndOfTransaction, SeenLedger, Contract!Charged
<1>8. ASSUME NEW p \in Process, Abort(p) PROVE StagedOnce'
  BY <1>8 DEF Abort, EndOfTransaction, Contract!Charged
<1>9. ASSUME NEW a \in Admin, Scope(a) PROVE StagedOnce'
  BY <1>9 DEF Scope
<1>10. CASE UNCHANGED vars
  BY <1>10 DEF vars
<1> QED BY <1>1, <1>2, <1>3, <1>4, <1>5, <1>6, <1>7, <1>8, <1>9, <1>10 DEF Next

\* Only Scope lets an admin in, and only a Record that found none stages a charge.
LEMMA OneScopedStep ==
  ASSUME TypeOK, OneScoped, [Next]_vars
  PROVE  OneScoped'
<1> USE ProcessAssumption
    DEF TypeOK, InTransaction, OneScoped, Scoping, Charging, tables, staging, Process
<1>1. ASSUME NEW a \in Admin, Scope(a) PROVE OneScoped'
  BY <1>1 DEF Scope
<1>2. ASSUME NEW p \in Payer, NEW cost \in Cost, Record(p, cost) PROVE OneScoped'
  <2>1. CASE UNCHANGED entry
    BY <1>2, <2>1 DEF Record
  <2>2. CASE Scoping = {}
    BY <1>2, <2>2 DEF Record
  <2> QED BY <1>2, <2>1, <2>2 DEF Record
<1>3. ASSUME \A a \in Admin : pc'[a] \in InTransaction => pc[a] \in InTransaction,
             \A p \in Payer : entry'[p] # {} => entry[p] # {}
      PROVE  OneScoped'
  BY <1>3
<1>4. ASSUME NEW p \in Payer,
             (\E s \in Source : ReadBudget(p, s)) \/ Decide(p) \/ CallFails(p)
      PROVE  OneScoped'
  BY <1>3, <1>4 DEF ReadBudget, Decide, CallFails
<1>5. ASSUME NEW a \in Admin, NEW b \in Budget, WriteBudget(a, b) PROVE OneScoped'
  BY <1>3, <1>5 DEF WriteBudget
<1>6. ASSUME NEW p \in Process, LockBudget(p) \/ Evaluate(p) \/ Insert(p)
      PROVE  OneScoped'
  BY <1>3, <1>6 DEF LockBudget, Evaluate, Insert
<1>7. ASSUME NEW p \in Process, Commit(p) \/ Abort(p) PROVE OneScoped'
  BY <1>3, <1>7 DEF Commit, Abort, EndOfTransaction
<1>8. CASE UNCHANGED vars
  BY <1>3, <1>8 DEF vars
<1> QED BY <1>1, <1>2, <1>4, <1>5, <1>6, <1>7, <1>8 DEF Next

LEMMA LockHeldStep ==
  ASSUME TypeOK, StagedOnce, OneScoped, LockHeld, [Next]_vars
  PROVE  LockHeld'
<1> USE ProcessAssumption
    DEF TypeOK, InTransaction, StagedOnce, LockHeld, tables, staging, Process
<1>1. ASSUME NEW p \in Payer, NEW s \in Source, ReadBudget(p, s) PROVE LockHeld'
  BY <1>1 DEF ReadBudget
<1>2. ASSUME NEW p \in Payer, Decide(p) PROVE LockHeld'
  BY <1>2 DEF Decide
<1>3. ASSUME NEW p \in Payer, CallFails(p) PROVE LockHeld'
  BY <1>3 DEF CallFails
<1>4. ASSUME NEW p \in Payer, NEW cost \in Cost, Record(p, cost) PROVE LockHeld'
  BY <1>4 DEF Record
<1>5. ASSUME NEW a \in Admin, Scope(a) PROVE LockHeld'
  BY <1>5 DEF Scope
<1>6. ASSUME NEW a \in Admin, NEW b \in Budget, WriteBudget(a, b) PROVE LockHeld'
  BY <1>6, BudgetAssumption DEF WriteBudget
<1>7. ASSUME NEW p \in Process, LockBudget(p) PROVE LockHeld'
  BY <1>7 DEF LockBudget, SeenBudget
<1>8. ASSUME NEW p \in Process, Evaluate(p) \/ Insert(p) PROVE LockHeld'
  BY <1>8 DEF Evaluate, Insert
\* A new budget is committed by an admin, while nobody has a charge staged.
<1>9. ASSUME NEW p \in Process, Commit(p) PROVE LockHeld'
  <2>1. CASE p \in Admin
    <3>1. \A q \in Payer : entry[q] = {}
      BY <1>9, <2>1 DEF Commit, OneScoped, Charging
    <3> QED BY <1>9, <2>1, <3>1 DEF Commit, EndOfTransaction
  <2>2. CASE p \in Payer
    BY <1>9, <2>2 DEF Commit, EndOfTransaction, SeenBudget
  <2> QED BY <2>1, <2>2
<1>10. ASSUME NEW p \in Process, Abort(p) PROVE LockHeld'
  BY <1>10 DEF Abort, EndOfTransaction
<1>11. CASE UNCHANGED vars
  BY <1>11 DEF vars
<1> QED
  BY <1>1, <1>2, <1>3, <1>4, <1>5, <1>6, <1>7, <1>8, <1>9, <1>10, <1>11 DEF Next

\* A commit publishes what the contract's step would: the new ledger or budget
\* with everything it reaches.
LEMMA Publishes ==
  ASSUME LedgerInv, NEW p \in Process, Commit(p)
  PROVE  alerts' = alerts \cup Contract!Fresh(Contract!Reached(ledger', budget'), alerts)
<1>1. raised[p] = Contract!Fresh(Contract!Reached(SeenLedger(p), SeenBudget(p)), alerts)
  BY DEF LedgerInv, EvaluationCurrent, Commit
<1> QED BY <1>1 DEF Commit

\* A commit of a process that staged neither a charge nor a budget, as after a
\* replay, changes no table.
LEMMA PublishesNothing ==
  ASSUME LedgerInv, NEW p \in Process, Commit(p), entry[p] = {}, draft[p] = NoBudget
  PROVE  UNCHANGED tables
<1>1. ledger' = ledger /\ budget' = budget
  BY DEF Commit, SeenLedger, SeenBudget
<1>2. Contract!Fresh(Contract!Reached(ledger', budget'), alerts) = {}
  BY <1>1 DEF LedgerInv, CrossingsRaised
<1> QED BY <1>1, <1>2, Publishes DEF tables

LEMMA CrossingsStep ==
  ASSUME LedgerInv, [Next]_vars
  PROVE  CrossingsRaised'
<1>1. CASE Unpublished
  <2>1. UNCHANGED tables
    BY <1>1 DEF Unpublished, ReadBudget, Decide, CallFails, Record, Scope, WriteBudget,
       LockBudget, Evaluate, Insert, Abort, vars, tables
  <2> QED BY <2>1 DEF LedgerInv, CrossingsRaised, tables
<1>2. ASSUME NEW p \in Process, Commit(p) PROVE CrossingsRaised'
  BY <1>2, Publishes, FreshFacts DEF CrossingsRaised
<1> QED BY <1>1, <1>2, Kinds

\* What another process has staged is overtaken by no commit that matters: it
\* changes no table, or both are charges in a workspace without a budget.
LEMMA CommitOver ==
  ASSUME LedgerInv, NEW p \in Process, Commit(p), NEW q \in Process \ {p},
         pc[q] \in {"inserting", "committing"}, entry[q] # {} \/ draft[q] # NoBudget
  PROVE  \/ UNCHANGED tables
         \/ budget = NoBudget /\ budget' = NoBudget /\ draft[q] = NoBudget
<1> USE ProcessAssumption DEF LedgerInv, InTransaction, StagedOnce, OneScoped,
        Charging, Scoping, Process
<1>1. pc[p] = "committing"
  BY DEF Commit
<1>2. CASE p \in Admin
  <2>1. entry[q] = {} /\ (q \in Admin => q = p)
    BY <1>1, <1>2
  <2> QED BY <2>1
<1>3. CASE p \in Payer /\ q \in Admin
  <2>1. entry[p] = {} /\ draft[p] = NoBudget
    BY <1>3
  <2> QED BY <2>1, PublishesNothing
<1>4. CASE p \in Payer /\ q \in Payer
  <2>1. draft[p] = NoBudget /\ draft[q] = NoBudget /\ entry[q] # {}
    BY <1>4
  <2>2. CASE entry[p] = {}
    BY <2>1, <2>2, PublishesNothing
  <2>3. CASE entry[p] # {}
    <3>1. budget = NoBudget
      BY <1>1, <1>4, <2>1, <2>3 DEF LockHeld
    <3> QED BY <2>1, <3>1 DEF Commit, SeenBudget
  <2> QED BY <2>2, <2>3
<1> QED BY <1>2, <1>3, <1>4

\* EvaluationCurrent, for one process.
CurrentFor(q) ==
  /\ pc[q] = "inserting" =>
       wanted[q] = Contract!Reached(SeenLedger(q), SeenBudget(q))
  /\ pc[q] = "committing" =>
       raised[q] = Contract!Fresh(Contract!Reached(SeenLedger(q), SeenBudget(q)),
                                  alerts)

LEMMA EvaluationStep ==
  ASSUME LedgerInv, [Next]_vars
  PROVE  EvaluationCurrent'
<1> SUFFICES ASSUME NEW q \in Process PROVE CurrentFor(q)'
  BY DEF EvaluationCurrent, CurrentFor
<1> USE ProcessAssumption
    DEF LedgerInv, TypeOK, InTransaction, tables, staging, Process
<1>1. CurrentFor(q)
  BY DEF EvaluationCurrent, CurrentFor
\* A step that changes neither the tables nor the process leaves it current.
<1>2. ASSUME UNCHANGED tables, pc'[q] = pc[q], entry'[q] = entry[q],
             draft'[q] = draft[q], wanted'[q] = wanted[q], raised'[q] = raised[q]
      PROVE  CurrentFor(q)'
  BY <1>1, <1>2 DEF CurrentFor, SeenLedger, SeenBudget
<1>3. ASSUME NEW p \in Payer,
             (\E s \in Source : ReadBudget(p, s)) \/ Decide(p) \/ CallFails(p)
      PROVE  CurrentFor(q)'
  BY <1>2, <1>3 DEF ReadBudget, Decide, CallFails, CurrentFor
\* A replay finds everything the ledger reaches already raised.
<1>4. ASSUME NEW p \in Payer, NEW cost \in Cost, Record(p, cost) PROVE CurrentFor(q)'
  <2>1. CASE q # p
    BY <1>2, <1>4, <2>1 DEF Record
  <2>2. CASE q = p /\ pc'[q] = "committing"
    <3>1. raised'[q] = {} /\ entry'[q] = {} /\ draft'[q] = NoBudget /\ UNCHANGED tables
      BY <1>4, <2>2 DEF Record
    <3> QED BY <2>2, <3>1 DEF CurrentFor, SeenLedger, SeenBudget, CrossingsRaised
  <2>3. CASE q = p /\ pc'[q] # "committing"
    BY <1>4, <2>3 DEF Record, CurrentFor
  <2> QED BY <2>1, <2>2, <2>3
<1>5. ASSUME NEW a \in Admin, Scope(a) \/ \E b \in Budget : WriteBudget(a, b)
      PROVE  CurrentFor(q)'
  BY <1>2, <1>5 DEF Scope, WriteBudget, CurrentFor
<1>6. ASSUME NEW p \in Process, LockBudget(p) PROVE CurrentFor(q)'
  BY <1>2, <1>6 DEF LockBudget, CurrentFor
<1>7. ASSUME NEW p \in Process, Evaluate(p) PROVE CurrentFor(q)'
  BY <1>2, <1>7 DEF Evaluate, CurrentFor, SeenLedger, SeenBudget
<1>8. ASSUME NEW p \in Process, Insert(p) PROVE CurrentFor(q)'
  BY <1>1, <1>2, <1>8 DEF Insert, CurrentFor, SeenLedger, SeenBudget
<1>9. ASSUME NEW p \in Process, Commit(p) PROVE CurrentFor(q)'
  <2>1. CASE q = p
    BY <1>9, <2>1 DEF Commit, EndOfTransaction, CurrentFor
  <2>2. /\ q # p => /\ pc'[q] = pc[q] /\ entry'[q] = entry[q] /\ draft'[q] = draft[q]
                    /\ wanted'[q] = wanted[q] /\ raised'[q] = raised[q]
    BY <1>9 DEF Commit, EndOfTransaction
  <2>3. CASE q # p /\ UNCHANGED tables
    BY <1>2, <2>2, <2>3
  \* Without a budget nothing is reached, before the commit and after it.
  <2>4. CASE q # p /\ budget = NoBudget /\ budget' = NoBudget /\ draft[q] = NoBudget
    <3>1. Contract!Reached(SeenLedger(q), SeenBudget(q)) = {}
      BY <2>4 DEF SeenBudget, Contract!Reached
    <3>2. Contract!Reached(SeenLedger(q), SeenBudget(q))' = {}
      BY <2>2, <2>4 DEF SeenBudget, Contract!Reached
    <3> QED BY <1>1, <2>2, <2>4, <3>1, <3>2 DEF CurrentFor, Contract!Fresh
  \* A replay raises nothing, and nothing is ever left to raise.
  <2>5. CASE q # p /\ pc[q] = "committing" /\ entry[q] = {} /\ draft[q] = NoBudget
    <3>1. raised[q] = {}
      BY <1>1, <2>5 DEF CurrentFor, SeenLedger, SeenBudget, CrossingsRaised
    <3>2. CrossingsRaised'
      BY CrossingsStep
    <3> QED BY <2>2, <2>5, <3>1, <3>2
            DEF CurrentFor, SeenLedger, SeenBudget, CrossingsRaised
  <2>6. CASE q # p /\ pc[q] \notin {"inserting", "committing"}
    BY <2>2, <2>6 DEF CurrentFor
  <2>7. pc[q] = "inserting" => entry[q] # {} \/ draft[q] # NoBudget
    BY DEF StagedOnce
  <2> QED BY <1>9, <2>1, <2>3, <2>4, <2>5, <2>6, <2>7, CommitOver
<1>10. ASSUME NEW p \in Process, Abort(p) PROVE CurrentFor(q)'
  BY <1>2, <1>10 DEF Abort, EndOfTransaction, CurrentFor
<1>11. CASE UNCHANGED vars
  BY <1>2, <1>11 DEF vars
<1> QED
  BY <1>3, <1>4, <1>5, <1>6, <1>7, <1>8, <1>9, <1>10, <1>11 DEF Next

LEMMA Inductive == Spec => []LedgerInv
<1>1. Init => LedgerInv
  <2> SUFFICES ASSUME Init PROVE LedgerInv
    OBVIOUS
  <2>1. TypeOK
    BY TypeInit
  <2>2. StagedOnce /\ OneScoped /\ LockHeld /\ EvaluationCurrent
    BY DEF Init, StagedOnce, OneScoped, LockHeld, EvaluationCurrent, InTransaction, Process
  <2>3. CrossingsRaised
    BY FreshFacts DEF Init, CrossingsRaised
  <2> QED BY <2>1, <2>2, <2>3 DEF LedgerInv
<1>2. LedgerInv /\ [Next]_vars => LedgerInv'
  BY TypeStep, StagedOnceStep, OneScopedStep, LockHeldStep, EvaluationStep, CrossingsStep
     DEF LedgerInv
<1> QED BY <1>1, <1>2, PTL DEF Spec

\* ADR 0027:38 and spend_repository.py:102-107: no overlap of record_spend and
\* set_budget commits a charge, or a budget, whose crossing is not raised, the
\* first budget of a workspace included.
THEOREM CrossingsAreRaised == Spec => []CrossingsRaised
<1>1. LedgerInv => CrossingsRaised
  BY DEF LedgerInv
<1> QED BY <1>1, Inductive, PTL

LEMMA Refines ==
  ASSUME LedgerInv, [Next]_vars
  PROVE  [Contract!Next]_(Contract!vars)
<1> USE DEF Contract!vars
<1>1. CASE Unpublished
  BY <1>1 DEF Unpublished, ReadBudget, Decide, CallFails, Record, Scope, WriteBudget,
     LockBudget, Evaluate, Insert, Abort, vars, tables
<1>2. ASSUME NEW p \in Process, Commit(p) PROVE [Contract!Next]_(Contract!vars)
  <2>1. /\ ledger' = ledger \cup entry[p]
        /\ budget' = IF draft[p] = NoBudget THEN budget ELSE draft[p]
        /\ alerts' = alerts \cup
                       Contract!Fresh(Contract!Reached(ledger', budget'), alerts)
    BY <1>2, Publishes DEF Commit, SeenLedger, SeenBudget
  <2>2. CASE p \in Payer /\ entry[p] = {}
    BY <1>2, <2>2, PublishesNothing DEF LedgerInv, StagedOnce, tables
  <2>3. CASE p \in Payer /\ entry[p] # {}
    <3>1. PICK s \in Source, c \in Cost :
            /\ entry[p] = {[source |-> s, cost |-> c]}
            /\ ~Contract!Charged(ledger, s)
      BY <2>3 DEF LedgerInv, StagedOnce
    <3>2. UNCHANGED budget
      BY <2>1, <2>3 DEF LedgerInv, StagedOnce
    <3>3. Contract!Charge(s, c)
      BY <2>1, <3>1, <3>2 DEF Contract!Charge
    <3> QED BY <3>3 DEF Contract!Next
  <2>4. CASE p \in Admin
    <3>1. draft[p] \in Budget \ {NoBudget} /\ entry[p] = {}
      BY <1>2, <2>4 DEF LedgerInv, StagedOnce, TypeOK, InTransaction, Commit
    <3>2. Contract!SetBudget(draft[p])
      BY <2>1, <3>1 DEF Contract!SetBudget
    <3> QED BY <3>1, <3>2 DEF Contract!Next
  <2> QED BY <2>2, <2>3, <2>4 DEF Process
<1> QED BY <1>1, <1>2, Kinds

\* The statements, locks, replays and aborts of spend_repository.py implement
\* the contract's one-step charges and budgets, whether or not the month begins
\* with a budget.
THEOREM ImplementsTheContract == Spec => ImplementsContract
<1>1. Init => Contract!Init
  BY DEF Init, Contract!Init
<1>2. LedgerInv /\ [Next]_vars => [Contract!Next]_(Contract!vars)
  BY Refines
<1> QED BY <1>1, <1>2, Inductive, PTL DEF Spec, ImplementsContract, Contract!Spec

-----------------------------------------------------------------------------
\* Sums over finite sets
(***************************************************************************)
(* Consumed is a fold, hence a recursive function on the subsets of the    *)
(* ledger.  SmallestSubset serves as the induction principle: a property   *)
(* that fails somewhere below a finite set fails at a smallest subset.     *)
(***************************************************************************)

\* g gives the sum of the weights of every subset of T, whichever element is
\* taken first.
IsSum(g, T, w) ==
  /\ g \in [SUBSET T -> Nat]
  /\ g[{}] = 0
  /\ \A A \in SUBSET T : \A x \in A : g[A] = w[x] + g[A \ {x}]

\* A nonempty family of subsets of a finite set has a minimal member.
LEMMA SmallestSubset ==
  ASSUME NEW S, IsFiniteSet(S), NEW B \in SUBSET (SUBSET S), B # {}
  PROVE  \E T \in B : \A U \in SUBSET T : U # T => U \notin B
<1> DEFINE R == StrictSubsetOrdering(S)
           F == FiniteSubsetsOf(S)
<1>1. IsWellFoundedOn(R, F) BY FS_StrictSubsetOrderingWellFounded
<1>2. F = SUBSET S BY FS_FiniteSubsetsOfFinite
<1> HIDE DEF R, F
<1>3. \E T \in B : \A U \in B : <<U, T>> \notin R
  BY <1>1, <1>2, WFMin
<1>4. ASSUME NEW T \in SUBSET S, NEW U \in SUBSET T, U # T PROVE <<U, T>> \in R
  BY <1>4 DEF R, StrictSubsetOrdering
<1> QED BY <1>3, <1>4

\* The weights of a finite set have a sum.
LEMMA SumExists ==
  ASSUME NEW S, IsFiniteSet(S), NEW w \in [S -> Nat]
  PROVE  \E g : IsSum(g, S, w)
<1> DEFINE Bad == { T \in SUBSET S : ~ \E g : IsSum(g, T, w) }
<1>1. SUFFICES ASSUME Bad # {} PROVE FALSE
  OBVIOUS
<1>2. PICK T \in Bad : \A U \in SUBSET T : U # T => U \notin Bad
  <2> HIDE DEF Bad
  <2>1. Bad \in SUBSET (SUBSET S) BY DEF Bad
  <2> QED BY <1>1, <2>1, SmallestSubset
<1>3. IsSum([A \in SUBSET {} |-> 0], {}, w)
  BY DEF IsSum
<1>4. PICK x \in T : TRUE
  BY <1>2, <1>3
<1>5. PICK g : IsSum(g, T \ {x}, w)
  BY <1>2, <1>4
<1> DEFINE h == [A \in SUBSET T |-> IF x \in A THEN w[x] + g[A \ {x}] ELSE g[A]]
<1>6. w[x] \in Nat /\ \A y \in T : w[y] \in Nat
  BY <1>2, <1>4
<1>7. \A A \in SUBSET T : A \ {x} \in SUBSET (T \ {x}) /\ (x \notin A => A \ {x} = A)
  OBVIOUS
<1>8. h \in [SUBSET T -> Nat]
  BY <1>5, <1>6, <1>7 DEF IsSum
<1>9. h[{}] = 0
  BY <1>5 DEF IsSum
<1>10. ASSUME NEW A \in SUBSET T, NEW y \in A PROVE h[A] = w[y] + h[A \ {y}]
  <2>1. CASE y = x
    BY <2>1, <1>7
  <2>2. CASE y # x /\ x \notin A
    <3>1. A \in SUBSET (T \ {x}) /\ A \ {y} \in SUBSET T /\ x \notin A \ {y}
      BY <2>2
    <3>2. g[A] = w[y] + g[A \ {y}]
      BY <3>1, <1>5 DEF IsSum
    <3> QED BY <2>2, <3>1, <3>2
  <2>3. CASE y # x /\ x \in A
    <3>1. /\ A \ {x} \in SUBSET (T \ {x}) /\ y \in A \ {x}
          /\ A \ {y} \in SUBSET T /\ x \in A \ {y}
          /\ (A \ {x}) \ {y} = (A \ {y}) \ {x}
          /\ (A \ {x}) \ {y} \in SUBSET (T \ {x})
      BY <2>3
    <3>2. g[A \ {x}] = w[y] + g[(A \ {x}) \ {y}] /\ g[(A \ {x}) \ {y}] \in Nat
      BY <3>1, <1>5 DEF IsSum
    <3>3. h[A] = w[x] + g[A \ {x}] /\ h[A \ {y}] = w[x] + g[(A \ {y}) \ {x}]
      BY <2>3, <3>1
    <3>4. h[A \ {y}] = w[x] + g[(A \ {x}) \ {y}]
      BY <3>1, <3>3
    <3>5. w[x] \in Nat /\ w[y] \in Nat
      BY <1>6
    <3> HIDE DEF h
    <3> QED BY <3>2, <3>3, <3>4, <3>5
  <2> QED BY <2>1, <2>2, <2>3
<1>11. IsSum(h, T, w)
  <2> HIDE DEF h
  <2> QED BY <1>8, <1>9, <1>10 DEF IsSum
<1> QED BY <1>2, <1>11


\* The recursive function by which the fold is defined.
SumStep(it, s) ==
  IF s = {} THEN 0
  ELSE LET x == CHOOSE y \in s : TRUE IN x.cost + it[s \ {x}]
SumFcn(S) == CHOOSE it : it = [s \in SUBSET S |-> SumStep(it, s)]

LEMMA ConsumedIter ==
  ASSUME NEW S
  PROVE  Consumed(S) = SumFcn(S)[S]
BY DEF Consumed, Contract!Consumed, Contract!MapThenSumSet, Contract!MapThenFoldSet, SumFcn, SumStep

\* Whatever element the fold chooses first, it computes the sum.
LEMMA ConsumedIsSum ==
  ASSUME NEW S, IsFiniteSet(S), NEW w, \A e \in S : e.cost = w[e] /\ w[e] \in Nat, 
         NEW g, IsSum(g, S, w)
  PROVE  Consumed(S) = g[S]
<1>1. g = [s \in SUBSET S |-> SumStep(g, s)]
  <2>1. g = [s \in SUBSET S |-> g[s]]
    BY DEF IsSum
  <2>2. ASSUME NEW s \in SUBSET S PROVE g[s] = SumStep(g, s)
    <3>1. CASE s = {}
      BY <3>1 DEF IsSum, SumStep
    <3>2. CASE s # {}
      <4> DEFINE x == CHOOSE y \in s : TRUE
      <4>1. x \in s BY <3>2
      <4> HIDE DEF x
      <4>2. g[s] = w[x] + g[s \ {x}]
        BY <4>1 DEF IsSum
      <4>3. x.cost = w[x] BY <4>1
      <4> QED BY <3>2, <4>2, <4>3 DEF SumStep, x
    <3> QED BY <3>1, <3>2
  <2> QED BY <2>1, <2>2
<1>2. SumFcn(S) = [s \in SUBSET S |-> SumStep(SumFcn(S), s)]
  BY <1>1 DEF SumFcn
<1> DEFINE f == SumFcn(S)
<1> HIDE DEF f
<1>3. f = [s \in SUBSET S |-> SumStep(f, s)]
  BY <1>2 DEF f
<1> DEFINE Bad == { s \in SUBSET S : f[s] # g[s] }
<1>4. Bad = {}
  <2> SUFFICES ASSUME Bad # {} PROVE FALSE
    OBVIOUS
  <2>1. PICK T \in Bad : \A U \in SUBSET T : U # T => U \notin Bad
    <3>1. Bad \in SUBSET (SUBSET S) OBVIOUS
    <3> HIDE DEF Bad
    <3> QED BY <3>1, SmallestSubset
  <2>2. T \in SUBSET S /\ f[T] # g[T] /\ f[T] = SumStep(f, T) /\ g[T] = SumStep(g, T)
    BY <2>1, <1>1, <1>3
  <2>3. T # {}
    BY <2>2 DEF SumStep
  <2> DEFINE x == CHOOSE y \in T : TRUE
  <2>4. x \in T BY <2>3
  <2>5. f[T] = x.cost + f[T \ {x}] /\ g[T] = x.cost + g[T \ {x}]
    BY <2>2, <2>3 DEF SumStep
  <2> HIDE DEF x, Bad
  <2>6. T \ {x} \in SUBSET S /\ T \ {x} \notin Bad
    BY <2>1, <2>2, <2>4
  <2>7. f[T \ {x}] = g[T \ {x}]
    BY <2>6 DEF Bad
  <2> QED BY <2>2, <2>5, <2>7
<1> QED BY <1>4, ConsumedIter DEF f

\* A sum of a set is a sum of its subsets.
LEMMA SumRestricted ==
  ASSUME NEW S, NEW w, NEW g, IsSum(g, S, w), NEW T \in SUBSET S
  PROVE  IsSum([A \in SUBSET T |-> g[A]], T, w)
BY DEF IsSum

\* What the month has cost: nothing at first, and more with every entry.
LEMMA ConsumedFacts ==
  ASSUME NEW S, IsFiniteSet(S), \A e \in S : e.cost \in Nat
  PROVE  /\ Consumed({}) = 0
         /\ \A T \in SUBSET S : Consumed(T) \in Nat
         /\ \A T \in SUBSET S : \A x \in T : Consumed(T) = x.cost + Consumed(T \ {x})
<1> DEFINE w == [e \in S |-> e.cost]
<1>1. w \in [S -> Nat] /\ \A e \in S : w[e] = e.cost
  OBVIOUS
<1> HIDE DEF w
<1>2. PICK g : IsSum(g, S, w)
  BY <1>1, SumExists
<1>3. ASSUME NEW T \in SUBSET S PROVE Consumed(T) = g[T]
  <2> DEFINE h == [A \in SUBSET T |-> g[A]]
  <2>1. IsSum(h, T, w)
    BY <1>2, SumRestricted
  <2>2. IsFiniteSet(T)
    BY FS_Subset
  <2>3. h[T] = g[T]
    OBVIOUS
  <2> HIDE DEF h
  <2>4. \A e \in T : e.cost = w[e] /\ w[e] \in Nat
    BY <1>1
  <2>5. Consumed(T) = h[T]
    BY <2>1, <2>2, <2>4, ConsumedIsSum
  <2> QED BY <2>3, <2>5
<1>4. {} \in SUBSET S /\ \A T \in SUBSET S : \A x \in T : T \ {x} \in SUBSET S /\ x \in S
  OBVIOUS
<1> QED BY <1>1, <1>2, <1>3, <1>4 DEF IsSum

\* A finite set of numbers that is not empty has a greatest.
LEMMA MaxFacts ==
  ASSUME NEW S \in SUBSET Nat, IsFiniteSet(S), S # {}
  PROVE  Max(S) \in S /\ \A y \in S : Max(S) >= y
<1> DEFINE Bounds(T) == { x \in T : \A y \in T : x >= y }
           Bad == { T \in SUBSET S : T # {} /\ Bounds(T) = {} }
<1>1. Bad = {}
  <2> SUFFICES ASSUME Bad # {} PROVE FALSE
    OBVIOUS
  <2>1. Bad \in SUBSET (SUBSET S)
    OBVIOUS
  <2>2. PICK T \in Bad : \A U \in SUBSET T : U # T => U \notin Bad
    <3> HIDE DEF Bad
    <3> QED BY <2>1, SmallestSubset
  <2>3. PICK x \in T : TRUE
    BY <2>2
  <2>4. T \ {x} # {}
    <3> SUFFICES ASSUME T = {x} PROVE FALSE
      BY <2>3
    <3>1. x \in Bounds(T)
      BY <2>2, <2>3
    <3> QED BY <2>2, <3>1
  <2>5. PICK z \in T \ {x} : \A y \in T \ {x} : z >= y
    BY <2>2, <2>3, <2>4
  <2>6. x \in Bounds(T) \/ z \in Bounds(T)
    BY <2>2, <2>3, <2>5
  <2> QED BY <2>2, <2>6
<1>2. \E x \in S : \A y \in S : x >= y
  BY <1>1
<1> QED BY <1>2 DEF Max

\* Monotonicity of multiples.
LEMMA Multiples ==
  ASSUME NEW k \in Nat, NEW n \in Nat, NEW m \in Nat, k <= n
  PROVE  k * m \in Nat /\ n * m \in Nat /\ k * m <= n * m /\ (k + 1) * m = k * m + m
<1>1. (n - k) * m >= 0 /\ n * m = k * m + (n - k) * m
  OBVIOUS
<1> QED BY <1>1

-----------------------------------------------------------------------------
\* How far calls in flight overshoot a limit

\* Payers whose call is out, or whose charge is not committed yet.
InFlight == { p \in Payer : pc[p] = "calling" \/ entry[p] # {} }

\* Whoever is in flight may still add a call to what is committed; whoever was
\* authorised found less than the limit.
Bounded ==
  \/ ceiling = Unlimited
  \/ ledger = {} /\ InFlight = {}
  \/ Consumed(ledger) + Cardinality(InFlight) * Max(Cost)
       < ceiling + Cardinality(Payer) * Max(Cost)

OvershootInv ==
  TypeOK /\ StagedOnce /\ IsFiniteSet(ledger) /\ (Cost # {} => Bounded)

\* What the month's ledger and the payers in flight amount to.
LEMMA Amounts ==
  ASSUME OvershootInv
  PROVE  /\ Consumed(ledger) \in Nat
         /\ Cardinality(InFlight) \in Nat /\ Cardinality(Payer) \in Nat
         /\ Cardinality(InFlight) <= Cardinality(Payer)
         /\ IsFiniteSet(InFlight)
<1>1. \A e \in ledger : e.cost \in Nat
  BY CostAssumption DEF OvershootInv, TypeOK, Entry
<1>2. Consumed(ledger) \in Nat
  BY <1>1, ConsumedFacts DEF OvershootInv
<1>3. InFlight \in SUBSET Payer
  BY DEF InFlight
<1> QED BY <1>2, <1>3, CostAssumption, FS_Subset, FS_CardinalityType

\* A step that lets nobody into flight and commits no charge.
LEMMA BoundedCalm ==
  ASSUME OvershootInv, Cost # {}, Max(Cost) \in Nat, UNCHANGED <<ledger, ceiling>>,
         InFlight' \subseteq InFlight
  PROVE  Bounded'
<1> DEFINE K == Cardinality(InFlight)
           L == Cardinality(InFlight')
           N == Cardinality(Payer)
           M == Max(Cost)
           C == Consumed(ledger)
<1>1. K \in Nat /\ N \in Nat /\ C \in Nat /\ L \in Nat /\ L <= K
  BY Amounts, FS_Subset, FS_CardinalityType
<1>2. L * M <= K * M /\ L * M \in Nat /\ K * M \in Nat /\ N * M \in Nat
  <2> HIDE DEF K, L, M, N
  <2> QED BY <1>1, Multiples DEF M
<1>3. ceiling \in Nat \/ ceiling = Unlimited
  BY DEF OvershootInv, TypeOK
<1>4. CASE C + K * M < ceiling + N * M /\ ceiling \in Nat
  <2>1. C + L * M < ceiling + N * M
    <3> HIDE DEF K, L, M, N, C
    <3> QED BY <1>1, <1>2, <1>4
  <2> QED BY <2>1 DEF Bounded
<1> QED BY <1>3, <1>4 DEF OvershootInv, Bounded

\* A call is authorised by a limit above what was committed by then.
LEMMA BoundedDecide ==
  ASSUME OvershootInv, Cost # {}, Max(Cost) \in Nat, NEW p \in Payer, Decide(p)
  PROVE  Bounded'
<1>1. CASE Allowed(seen[p], Consumed(ledger)) /\ ceiling' # Unlimited
  <2> DEFINE L == Cardinality(InFlight')
             N == Cardinality(Payer)
             M == Max(Cost)
             C == Consumed(ledger)
  <2>1. seen[p] \in Budget /\ seen[p].limit \in Nat /\ seen[p].enforce
    BY <1>1, BudgetAssumption DEF Decide, CeilingAfter, OvershootInv, TypeOK, Process
  <2>2. C < seen[p].limit /\ seen[p].limit <= ceiling' /\ ceiling' \in Nat
    BY <1>1, <2>1, BudgetAssumption, Amounts
       DEF Decide, Allowed, CeilingAfter, OvershootInv, TypeOK
  <2>3. InFlight' \in SUBSET Payer
    BY DEF InFlight
  <2>4. L \in Nat /\ N \in Nat /\ L <= N /\ C \in Nat
    BY <2>3, Amounts, CostAssumption, FS_Subset, FS_CardinalityType
  <2>5. L * M <= N * M /\ L * M \in Nat /\ N * M \in Nat
    <3> HIDE DEF L, M, N
    <3> QED BY <2>4, Multiples DEF M
  <2>6. C + L * M < ceiling' + N * M
    <3> HIDE DEF L, M, N, C
    <3> QED BY <2>1, <2>2, <2>4, <2>5
  <2>7. ledger' = ledger
    BY DEF Decide, tables
  <2> QED BY <2>6, <2>7 DEF Bounded
<1>2. CASE ~Allowed(seen[p], Consumed(ledger))
  <2>1. UNCHANGED <<ledger, entry, ceiling>> /\ pc' = [pc EXCEPT ![p] = "idle"]
    BY <1>2 DEF Decide, tables, staging
  <2>2. InFlight' \subseteq InFlight
    BY <2>1 DEF InFlight, OvershootInv, TypeOK, Process
  <2> QED BY <2>1, <2>2, BoundedCalm
<1> QED BY <1>1, <1>2 DEF Bounded

\* A committed charge counts no longer as in flight.
LEMMA BoundedCommit ==
  ASSUME OvershootInv, Cost # {}, Max(Cost) \in Nat, \A c \in Cost : c <= Max(Cost),
         NEW p \in Payer, Commit(p), entry[p] # {}
  PROVE  Bounded' /\ IsFiniteSet(ledger')
<1> DEFINE K == Cardinality(InFlight)
           L == Cardinality(InFlight')
           N == Cardinality(Payer)
           M == Max(Cost)
           C == Consumed(ledger)
<1> USE DEF OvershootInv
<1>1. PICK s \in Source, c \in Cost :
        entry[p] = {[source |-> s, cost |-> c]} /\ ~Contract!Charged(ledger, s)
  BY DEF StagedOnce
<1> DEFINE e == [source |-> s, cost |-> c]
<1>2. ledger' = ledger \cup {e} /\ e \notin ledger /\ e.cost = c
  BY <1>1 DEF Commit, SeenLedger, Contract!Charged
<1>3. IsFiniteSet(ledger')
  BY <1>2, FS_AddElement
<1>4. Consumed(ledger') = c + C
  <2>1. \A x \in ledger' : x.cost \in Nat
    BY <1>2, CostAssumption DEF TypeOK, Entry
  <2>2. e \in ledger' /\ ledger' \ {e} = ledger
    BY <1>2
  <2> HIDE DEF e
  <2> QED BY <1>2, <1>3, <2>1, <2>2, ConsumedFacts
<1>5. p \in InFlight /\ InFlight' = InFlight \ {p}
  BY <1>1 DEF InFlight, Commit, EndOfTransaction, TypeOK, Process
<1>6. L = K - 1 /\ K \in Nat /\ L \in Nat /\ N \in Nat /\ C \in Nat /\ c \in Nat /\ c <= M
  BY <1>5, Amounts, FS_RemoveElement, FS_CardinalityType, CostAssumption
<1>7. K * M = L * M + M /\ L * M \in Nat /\ N * M \in Nat
  <2>1. L + 1 = K
    BY <1>6
  <2> HIDE DEF K, L, M, N, C
  <2> QED BY <1>6, <2>1, Multiples DEF M
<1>8. CASE C + K * M < ceiling + N * M /\ ceiling \in Nat
  <2>1. (c + C) + L * M < ceiling + N * M
    <3> HIDE DEF K, L, M, N, C
    <3> QED BY <1>6, <1>7, <1>8 DEF M
  <2>2. ceiling' = ceiling
    BY DEF Commit, EndOfTransaction
  <2> QED BY <1>3, <1>4, <2>1, <2>2 DEF Bounded
<1>9. CASE ceiling = Unlimited
  BY <1>3, <1>9 DEF Bounded, Commit, EndOfTransaction
<1> QED BY <1>3, <1>5, <1>8, <1>9 DEF Bounded, TypeOK

LEMMA OvershootStep ==
  ASSUME OvershootInv, [Next]_vars, Cost # {}
  PROVE  Bounded' /\ IsFiniteSet(ledger')
<1> USE DEF OvershootInv
<1>1. Max(Cost) \in Nat /\ \A c \in Cost : c <= Max(Cost)
  <2>1. Max(Cost) \in Cost /\ \A c \in Cost : Max(Cost) >= c
    BY CostAssumption, MaxFacts
  <2> QED BY <2>1, CostAssumption
<1>2. ASSUME UNCHANGED <<ledger, ceiling>>, InFlight' \subseteq InFlight
      PROVE  Bounded' /\ IsFiniteSet(ledger')
  BY <1>1, <1>2, BoundedCalm
<1>3. ASSUME NEW p \in Payer, Decide(p) PROVE Bounded' /\ IsFiniteSet(ledger')
  BY <1>1, <1>3, BoundedDecide DEF Decide, tables
<1>4. ASSUME NEW p \in Process, Commit(p) PROVE Bounded' /\ IsFiniteSet(ledger')
  <2>1. CASE p \in Payer /\ entry[p] # {}
    BY <1>1, <1>4, <2>1, BoundedCommit
  <2>2. CASE entry[p] = {}
    <3>1. UNCHANGED <<ledger, ceiling>> /\ InFlight' \subseteq InFlight
      BY <1>4, <2>2 DEF Commit, SeenLedger, EndOfTransaction, InFlight, TypeOK
    <3> QED BY <1>2, <3>1
  <2> QED BY <2>1, <2>2 DEF Process, StagedOnce
<1>5. CASE Unpublished /\ ~\E p \in Payer : Decide(p)
  <2>1. UNCHANGED <<ledger, ceiling>>
    BY <1>5 DEF Unpublished, ReadBudget, CallFails, Record, Scope, WriteBudget, LockBudget,
       Evaluate, Insert, Abort, EndOfTransaction, vars, tables
  <2>2. \A q \in Payer : pc'[q] = "calling" \/ entry'[q] # {} =>
                           pc[q] = "calling" \/ entry[q] # {}
    BY <1>5 DEF Unpublished, ReadBudget, CallFails, Record, Scope, WriteBudget, LockBudget,
       Evaluate, Insert, Abort, EndOfTransaction, vars, tables, staging, TypeOK,
       Process, InTransaction
  <2> QED BY <1>2, <2>1, <2>2 DEF InFlight
<1> QED BY <1>3, <1>4, <1>5, Kinds

\* evaluate_budget's docstring (spend_repository.py:142-148): however many
\* payers run and whatever they pay, they overshoot the highest limit a call
\* was authorised under by less than one call of each.
THEOREM OvershootIsBounded == Spec => []Overshoot
<1>1. Init => OvershootInv
  <2> SUFFICES ASSUME Init PROVE OvershootInv
    OBVIOUS
  <2>1. TypeOK
    BY TypeInit
  <2>2. StagedOnce /\ Bounded
    BY DEF Init, StagedOnce, InTransaction, Process, Bounded, InFlight
  <2>3. IsFiniteSet(ledger)
    BY FS_EmptySet DEF Init
  <2> QED BY <2>1, <2>2, <2>3 DEF OvershootInv
<1>2. OvershootInv /\ [Next]_vars => OvershootInv'
  <2> SUFFICES ASSUME OvershootInv, [Next]_vars PROVE OvershootInv'
    OBVIOUS
  <2>1. TypeOK' /\ StagedOnce'
    BY TypeStep, StagedOnceStep DEF OvershootInv
  <2>2. CASE Cost = {}
    <3>1. ledger' = {}
      BY <2>1, <2>2 DEF TypeOK, Entry
    <3> QED BY <2>1, <2>2, <3>1, FS_EmptySet DEF OvershootInv
  <2>3. CASE Cost # {}
    BY <2>1, <2>3, OvershootStep DEF OvershootInv
  <2> QED BY <2>2, <2>3
<1>3. OvershootInv => Overshoot
  <2> SUFFICES ASSUME OvershootInv, ledger # {}, ceiling # Unlimited PROVE Overshoot
    BY DEF Overshoot
  <2>1. Cost # {}
    BY DEF OvershootInv, TypeOK, Entry
  <2>2. Max(Cost) \in Nat
    BY <2>1, CostAssumption, MaxFacts
  <2>3. Consumed(ledger) + Cardinality(InFlight) * Max(Cost)
          < ceiling + Cardinality(Payer) * Max(Cost)
    BY <2>1 DEF OvershootInv, Bounded
  <2>4. Cardinality(InFlight) * Max(Cost) \in Nat /\ Cardinality(Payer) * Max(Cost) \in Nat
        /\ ceiling \in Nat /\ Consumed(ledger) \in Nat
    BY <2>2, Amounts, Multiples DEF OvershootInv, TypeOK
  <2> QED BY <2>3, <2>4 DEF Overshoot
<1> QED BY <1>1, <1>2, <1>3, PTL DEF Spec
-----------------------------------------------------------------------------
\* The delivery of the alerts (AlertDelivery), for any notifiers and bounds

\* As long as a notifier is the owner of the row it claimed, nobody has counted
\* an attempt since its claim, and once its post is answered there is one post
\* more than attempts.
HolderCurrent ==
  \A n \in Notifier : job[n] # NoAlert =>
    /\ owner[job[n]] = n =>
         /\ base[n] = attempts[job[n]]
         /\ outcome[n] # "posting" => attempts[job[n]] + 1 <= posts[job[n]]
    /\ outcome[n] = "refused" => refused[job[n]]
    /\ outcome[n] = "ok" => accepted[job[n]]

DeliveryInv ==
  DeliveryTypeOK /\ HolderCurrent /\ AttemptsEarned /\ ClosedForCause

LEMMA DeliveryInitHolds ==
  ASSUME DeliveryInit
  PROVE  DeliveryInv
<1>1. DeliveryTypeOK
  BY BoundsAssumption, NoneAssumption DEF DeliveryInit, DeliveryTypeOK
<1>2. HolderCurrent /\ AttemptsEarned /\ ClosedForCause
  BY BoundsAssumption, NoneAssumption
     DEF DeliveryInit, HolderCurrent, AttemptsEarned, ClosedForCause
<1> QED BY <1>1, <1>2 DEF DeliveryInv

\* A notifier that records an outcome either owned the row, and closes its
\* attempt, or leaves all rows alone.
LEMMA Recorded ==
  ASSUME DeliveryInv, NEW n \in Notifier, Succeed(n) \/ Fail(n)
  PROVE  /\ job[n] \in OutboxAlert
         /\ \/ UNCHANGED rowVars
            \/ /\ status[job[n]] = "queued" /\ owner[job[n]] = n
               /\ \E s \in {"queued", "delivered", "abandoned"} :
                    /\ Close(job[n], s, attempts[job[n]] + 1)
                    /\ s = "delivered" => accepted[job[n]]
                    /\ s = "abandoned" => \/ refused[job[n]]
                                          \/ attempts[job[n]] + 1 = MaxDeliveryAttempts
                    /\ s = "queued" => attempts[job[n]] + 1 < MaxDeliveryAttempts
               /\ attempts[job[n]] + 1 <= posts[job[n]]
<1> USE DEF DeliveryInv
<1>1. job[n] \in OutboxAlert
  BY DEF Succeed, Fail, DeliveryTypeOK
<1>2. CASE ~Owns(n)
  BY <1>1, <1>2 DEF Succeed, Fail
<1>3. CASE Owns(n)
  <2>1. /\ status[job[n]] = "queued" /\ owner[job[n]] = n
        /\ base[n] = attempts[job[n]]
        /\ outcome[n] # "posting" => attempts[job[n]] + 1 <= posts[job[n]]
        /\ outcome[n] = "refused" => refused[job[n]]
        /\ outcome[n] = "ok" => accepted[job[n]]
    BY <1>1, <1>3, NoneAssumption DEF Owns, HolderCurrent
  <2>2. attempts[job[n]] \in Nat /\ attempts[job[n]] < MaxDeliveryAttempts
    BY <1>1, <2>1 DEF DeliveryTypeOK, AttemptsEarned
  <2>3. CASE Succeed(n)
    BY <1>1, <1>3, <2>1, <2>3 DEF Succeed
  <2>4. CASE Fail(n)
    <3>1. attempts[job[n]] + 1 <= posts[job[n]]
      BY <2>1, <2>4 DEF Fail
    <3>2. CASE outcome[n] = "refused"
      BY <1>1, <1>3, <2>1, <2>4, <3>1, <3>2 DEF Fail
    <3>3. CASE outcome[n] = "retryable" /\ base[n] + 1 >= MaxDeliveryAttempts
      BY <1>1, <1>3, <2>1, <2>2, <2>4, <3>1, <3>3, BoundsAssumption DEF Fail
    <3>4. CASE outcome[n] = "retryable" /\ ~(base[n] + 1 >= MaxDeliveryAttempts)
      BY <1>1, <1>3, <2>1, <2>2, <2>4, <3>1, <3>4, BoundsAssumption DEF Fail
    <3> QED BY <2>4, <3>2, <3>3, <3>4 DEF Fail
  <2> QED BY <2>3, <2>4
<1> QED BY <1>1, <1>2, <1>3

LEMMA DeliveryStep ==
  ASSUME DeliveryInv, [DeliveryNext]_deliveryVars
  PROVE  DeliveryInv'
<1> USE BoundsAssumption, NoneAssumption
    DEF DeliveryInv, DeliveryTypeOK, HolderCurrent, AttemptsEarned, ClosedForCause,
        rowVars, notifierVars, history
<1>1. ASSUME NEW n \in Notifier, NEW a \in OutboxAlert, Claim(n, a) PROVE DeliveryInv'
  BY <1>1 DEF Claim
<1>2. ASSUME NEW n \in Notifier, NEW answer \in Answer, NEW taken \in BOOLEAN,
             Post(n, answer, taken)
      PROVE  DeliveryInv'
  <2>1. /\ job[n] \in OutboxAlert
        /\ posts' = [posts EXCEPT ![job[n]] = @ + 1]
        /\ refused' = [refused EXCEPT ![job[n]] = @ \/ answer = "refused"]
        /\ accepted' = [accepted EXCEPT ![job[n]] = @ \/ taken]
        /\ outcome' = [outcome EXCEPT ![n] = answer]
        /\ answer = "ok" => taken
        /\ outcome[n] = "posting"
        /\ UNCHANGED <<rowVars, job, base, faults>>
    BY <1>2 DEF Post
  <2>2. /\ posts' \in [OutboxAlert -> Nat]
        /\ \A a \in OutboxAlert : posts[a] <= posts'[a]
        /\ posts'[job[n]] = posts[job[n]] + 1
    BY <2>1
  <2>3. /\ refused' \in [OutboxAlert -> BOOLEAN] /\ accepted' \in [OutboxAlert -> BOOLEAN]
        /\ \A a \in OutboxAlert : (refused[a] => refused'[a]) /\ (accepted[a] => accepted'[a])
        /\ answer = "refused" => refused'[job[n]]
        /\ answer = "ok" => accepted'[job[n]]
    <3>1. /\ refused \in [OutboxAlert -> BOOLEAN] /\ accepted \in [OutboxAlert -> BOOLEAN]
          /\ (refused[job[n]] \/ answer = "refused") \in BOOLEAN
          /\ (accepted[job[n]] \/ taken) \in BOOLEAN
      OBVIOUS
    <3>2. /\ refused' \in [OutboxAlert -> BOOLEAN] /\ accepted' \in [OutboxAlert -> BOOLEAN]
      BY <2>1, <3>1
    <3>3. /\ refused'[job[n]] = (refused[job[n]] \/ answer = "refused")
          /\ accepted'[job[n]] = (accepted[job[n]] \/ taken)
      BY <2>1, <3>1
    <3>4. \A a \in OutboxAlert \ {job[n]} : refused'[a] = refused[a] /\ accepted'[a] = accepted[a]
      BY <2>1, <3>1
    <3>5. ASSUME NEW a \in OutboxAlert
          PROVE  (refused[a] => refused'[a]) /\ (accepted[a] => accepted'[a])
      <4>1. CASE a = job[n]
        BY ONLY <3>3, <4>1
      <4>2. CASE a # job[n]
        BY ONLY <3>4, <4>2, a \in OutboxAlert
      <4> QED BY <4>1, <4>2
    <3>6. (answer = "refused" => refused'[job[n]]) /\ (answer = "ok" => accepted'[job[n]])
      <4>1. answer = "ok" => taken
        BY <2>1
      <4> QED BY ONLY <3>3, <4>1
    <3> QED BY <3>2, <3>5, <3>6
  <2>4. DeliveryTypeOK'
    BY <2>1, <2>2, <2>3 DEF Answer
  <2>5. AttemptsEarned'
    BY <2>1, <2>2
  <2>6. ClosedForCause'
    BY <2>1, <2>3
  <2>7. HolderCurrent'
    <3>1. ASSUME NEW m \in Notifier \ {n}, job[m] # NoAlert, job[m] \in OutboxAlert
          PROVE  /\ owner[job[m]] = m =>
                      /\ base[m] = attempts[job[m]]
                      /\ outcome[m] # "posting" => attempts[job[m]] + 1 <= posts'[job[m]]
                 /\ outcome[m] = "refused" => refused'[job[m]]
                 /\ outcome[m] = "ok" => accepted'[job[m]]
      BY <2>1, <2>2, <2>3, <3>1
    <3>2. /\ owner[job[n]] = n => base[n] = attempts[job[n]]
          /\ attempts[job[n]] + 1 <= posts'[job[n]]
      BY <2>1, <2>2
    <3> QED BY <2>1, <2>3, <3>1, <3>2
  <2> QED BY <2>4, <2>5, <2>6, <2>7
<1>3. ASSUME NEW n \in Notifier, Succeed(n) \/ Fail(n) PROVE DeliveryInv'
  <2>1. /\ job[n] \in OutboxAlert /\ Free(n)
        /\ UNCHANGED <<history, faults>>
    BY <1>3, Recorded DEF Succeed, Fail
  <2>2. CASE UNCHANGED rowVars
    BY <2>1, <2>2 DEF Free
  <2>3. CASE ~UNCHANGED rowVars
    <3>1. PICK s \in {"queued", "delivered", "abandoned"} :
            /\ Close(job[n], s, attempts[job[n]] + 1)
            /\ s = "delivered" => accepted[job[n]]
            /\ s = "abandoned" => \/ refused[job[n]]
                                  \/ attempts[job[n]] + 1 = MaxDeliveryAttempts
            /\ s = "queued" => attempts[job[n]] + 1 < MaxDeliveryAttempts
      BY <1>3, <2>3, Recorded
    <3>2. /\ status[job[n]] = "queued" /\ owner[job[n]] = n
          /\ attempts[job[n]] + 1 <= posts[job[n]]
          /\ attempts[job[n]] \in Nat /\ attempts[job[n]] < MaxDeliveryAttempts
      BY <1>3, <2>1, <2>3, Recorded
    <3>3. DeliveryTypeOK'
      BY <2>1, <3>1, <3>2 DEF Free, Close
    <3>4. AttemptsEarned'
      BY <2>1, <3>1, <3>2 DEF Close
    <3>5. ClosedForCause'
      BY <2>1, <3>1, <3>2 DEF Close
    <3>6. HolderCurrent'
      BY <2>1, <3>1, <3>2 DEF Free, Close
    <3> QED BY <3>3, <3>4, <3>5, <3>6
  <2> QED BY <2>2, <2>3
<1>4. ASSUME NEW n \in Notifier, Crash(n) PROVE DeliveryInv'
  BY <1>4 DEF Crash, Free
<1>5. ASSUME NEW a \in OutboxAlert, LeaseExpires(a) \/ LeaseOutlasted(a) PROVE DeliveryInv'
  BY <1>5 DEF LeaseExpires, LeaseOutlasted
<1>6. CASE UNCHANGED deliveryVars
  BY <1>6 DEF deliveryVars
<1> QED BY <1>1, <1>2, <1>3, <1>4, <1>5, <1>6 DEF DeliveryNext, Deliver

LEMMA DeliveryInductive == DeliverySpec => []DeliveryInv
BY DeliveryInitHolds, DeliveryStep, PTL DEF DeliverySpec

\* The rows of workspace_spend_alert_outbox and the notifiers keep their types,
\* and a row has an owner exactly while it is open and leased.
THEOREM DeliveryTypeSafe == DeliverySpec => []DeliveryTypeOK
<1>1. DeliveryInv => DeliveryTypeOK
  BY DEF DeliveryInv
<1> QED BY <1>1, DeliveryInductive, PTL

\* spend_alert_worker.py:231-270: no late answer makes a row count an attempt
\* nobody made, and an open row has an attempt left.
THEOREM AttemptsAreEarned == DeliverySpec => []AttemptsEarned
<1>1. DeliveryInv => AttemptsEarned
  BY DEF DeliveryInv
<1> QED BY <1>1, DeliveryInductive, PTL

\* ADR 0032:57-66: given up only after a final refusal or the last attempt,
\* delivered only after the receiver accepted.
THEOREM ClosesForCause == DeliverySpec => []ClosedForCause
<1>1. DeliveryInv => ClosedForCause
  BY DEF DeliveryInv
<1> QED BY <1>1, DeliveryInductive, PTL

\* How a step moves a row.
LEMMA RowSteps ==
  ASSUME DeliveryInv, [DeliveryNext]_deliveryVars, NEW a \in OutboxAlert
  PROVE  /\ attempts'[a] >= attempts[a]
         /\ status[a] # "queued" => status'[a] = status[a] /\ attempts'[a] = attempts[a]
<1>1. ASSUME NEW n \in Notifier, Succeed(n) \/ Fail(n)
      PROVE  /\ attempts'[a] >= attempts[a]
             /\ status[a] # "queued" =>
                  status'[a] = status[a] /\ attempts'[a] = attempts[a]
  BY <1>1, Recorded DEF Close, rowVars, DeliveryInv, DeliveryTypeOK
<1>2. CASE UNCHANGED <<status, attempts>>
  BY <1>2 DEF DeliveryInv, DeliveryTypeOK
<1>3. \/ \E n \in Notifier : Succeed(n) \/ Fail(n)
      \/ UNCHANGED <<status, attempts>>
  BY DEF DeliveryNext, Deliver, Claim, Post, Crash,
     LeaseExpires, LeaseOutlasted, deliveryVars, rowVars
<1> QED BY <1>1, <1>2, <1>3

\* ADR 0032:66-68: delivered and abandoned are final for every step of every
\* notifier, and the attempts of a row never go back, whoever answers late.
THEOREM OutcomesAreFinal == DeliverySpec => OutcomeFinal
<1>1. DeliveryInv /\ [DeliveryNext]_deliveryVars =>
        [\A a \in OutboxAlert :
           /\ attempts'[a] >= attempts[a]
           /\ status[a] # "queued" =>
                status'[a] = status[a] /\ attempts'[a] = attempts[a]]_deliveryVars
  BY RowSteps
<1> QED BY <1>1, DeliveryInductive, PTL DEF DeliverySpec, OutcomeFinal
=============================================================================
