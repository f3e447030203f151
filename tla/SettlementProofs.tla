-------------------------- MODULE SettlementProofs --------------------------
(***************************************************************************)
(* Theorems about the settlement, for every number of grants, budgets,     *)
(* workers, operators and faults, every batch size and every limit of      *)
(* attempts, and that it implements the abstract life of a reward.         *)
(***************************************************************************)
EXTENDS Settlement, RewardAmountsProofs

-----------------------------------------------------------------------------
(* Types of the building blocks.                                           *)

(* The lowest id of a batch that is not empty is in the batch.             *)
LEMMA FirstIsMember ==
  ASSUME NEW todo \in SUBSET Claim, todo # {}
  PROVE  First(todo) \in todo
<1> DEFINE Ids == {c.g : c \in todo}
<1>1. Ids \in SUBSET Nat /\ Ids # {}
  BY GrantsAssumption DEF Claim
<1>2. PICK m \in Ids : \A n \in Ids : m <= n
  BY <1>1, LowestNatural
<1>3. \E c \in todo : \A d \in todo : c.g <= d.g
  BY <1>2
<1>4. QED
  BY <1>3 DEF First

(* Starting a batch gives a well-typed local state.                        *)
LEMMA StartType ==
  ASSUME NEW p \in Procs, NEW todo \in SUBSET Claim
  PROVE  /\ Start(p, todo) \in Local
         /\ Start(p, todo).pc # "idle" => Start(p, todo).g \in Grants
<1>1. CASE todo = {}
  BY <1>1 DEF Start, Idle, Local, Pc, NoGrant
<1>2. CASE todo # {}
  <2>1. First(todo) \in Claim
    BY <1>2, FirstIsMember
  <2>2. First(todo).g \in Grants /\ First(todo).att \in Nat
    BY <2>1 DEF Claim
  <2>3. todo \ {First(todo)} \in SUBSET Claim
    OBVIOUS
  <2>4. QED
    BY <1>2, <2>2, <2>3 DEF Start, Local, Pc
<1>3. QED
  BY <1>1, <1>2

(* Replacing the local state of a process by a well-typed one.             *)
LEMMA LocalType ==
  ASSUME LocalsOK, NEW p \in Procs, NEW l \in Local,
         l.pc # "idle" => l.g \in Grants,
         loc' = [loc EXCEPT ![p] = l]
  PROVE  LocalsOK'
  BY DEF LocalsOK

(* Moving a working process to another place.                              *)
LEMMA GotoType ==
  ASSUME LocalsOK, NEW p \in Procs, NEW pc \in Pc, loc[p].pc # "idle", Goto(p, pc)
  PROVE  LocalsOK'
<1>1. loc' = [loc EXCEPT ![p] = [loc[p] EXCEPT !.pc = pc]]
  BY DEF Goto
<1>2. [loc[p] EXCEPT !.pc = pc] \in Local /\ loc[p].g \in Grants
  BY DEF LocalsOK, Local
<1>3. [loc[p] EXCEPT !.pc = pc].g \in Grants
  BY <1>2 DEF LocalsOK, Local
<1>4. QED
  BY <1>1, <1>2, <1>3, LocalType

(* Starting to work on a grant.                                            *)
LEMMA BeginType ==
  ASSUME LocalsOK, NEW p \in Procs, NEW pc \in Pc, NEW g \in Grants,
         NEW att \in Nat, Begin(p, pc, g, att, {})
  PROVE  LocalsOK'
<1> DEFINE l == [pc |-> pc, g |-> g, att |-> att, todo |-> {}]
<1>1. l \in Local /\ l.g \in Grants
  BY DEF Local
<1>2. loc' = [loc EXCEPT ![p] = l]
  BY DEF Begin
<1>3. QED
  BY <1>1, <1>2, LocalType

(* Going on with the batch.                                                *)
LEMMA NextItemType ==
  ASSUME LocalsOK, NEW p \in Procs, NextItem(p)
  PROVE  LocalsOK'
<1>1. loc[p].todo \in SUBSET Claim
  BY DEF LocalsOK, Local
<1>2. QED
  BY <1>1, StartType, LocalType DEF NextItem

(* Leasing an outbox row.                                                  *)
LEMMA LeasedType ==
  ASSUME NEW row \in Row
  PROVE  Leased(row) \in Row
<1>1. row.attempts + 1 \in Nat /\ "processing" \in OutboxStatus
  BY DEF Row, OutboxStatus
<1>2. QED
  BY <1>1 DEF Row, Leased

(* The rows of a batch, each with a number of attempts.                    *)
LEMMA BatchType ==
  ASSUME NEW S \in SUBSET Grants, NEW att \in [Grants -> Nat]
  PROVE  {[g |-> g, att |-> att[g]] : g \in S} \in SUBSET Claim
<1>1. \A g \in S : [g |-> g, att |-> att[g]] \in Claim
  BY DEF Claim
<1>2. QED
  BY <1>1

(* Writing back an outbox row.                                             *)
LEMMA SaveOutboxType ==
  ASSUME outbox \in [Grants -> Row], NEW p \in Procs, NEW status \in OutboxStatus,
         NEW due \in BOOLEAN, SaveOutbox(p, status, due)
  PROVE  outbox' \in [Grants -> Row]
  BY DEF SaveOutbox, Row

-----------------------------------------------------------------------------
(* Type correctness, one lemma per kind of step.                           *)

(* The initial tables are empty and every process is idle.                 *)
LEMMA InitType == Init => TypeOK
<1> SUFFICES ASSUME Init PROVE TypeOK
  OBVIOUS
<1>1. LocalsOK
  BY DEF Init, LocalsOK, Local, Idle, Pc, NoGrant
<1>2. outbox \in [Grants -> Row]
  BY DEF Init, Row, NoRow, OutboxStatus
<1>3. budget \in [Budgets -> BudgetRow]
  BY DEF Init, BudgetRow, EmptyBudget
<1>4. QED
  BY <1>1, <1>2, <1>3
     DEF Init, TypeOK, GrantStatus, AwardStatus, BenefitStatus

(* A new reward: its amount fits into the types of the budget row.         *)
LEMMA CreateRewardType ==
  ASSUME TypeOK, NEW g \in Grants, NEW status \in {"pending", "shadow"},
         CreateReward(g, status)
  PROVE  TypeOK'
<1> DEFINE b == BudgetOf[g]
<1>1. b \in Budgets /\ Amount[g] \in Nat
  BY AmountsAssumption
<1>2. budget[b] \in BudgetRow
  BY <1>1 DEF TypeOK
<1>3. Reserve(budget[b], Amount[g]) \in BudgetRow
  BY <1>1, <1>2 DEF BudgetRow, Reserve
<1>4. budget' = [budget EXCEPT ![b] = Reserve(budget[b], Amount[g])]
  BY DEF CreateReward
<1>5. budget' \in [Budgets -> BudgetRow]
  BY <1>3, <1>4 DEF TypeOK
<1>6. outbox' \in [Grants -> Row]
  BY DEF CreateReward, TypeOK, Row, OutboxStatus
<1>7. grant' \in [Grants -> GrantStatus] /\ award' \in [Grants -> AwardStatus]
  BY DEF CreateReward, TypeOK, GrantStatus, AwardStatus
<1>8. UNCHANGED <<remote, rejected, loc, faults>>
  BY DEF CreateReward
<1>9. QED
  BY <1>5, <1>6, <1>7, <1>8 DEF TypeOK, LocalsOK, remote

(* A claim of several rows.                                                *)
LEMMA ClaimDueType ==
  ASSUME TypeOK, NEW p \in Settlers, NEW skipped \in SUBSET Grants, ClaimDue(p, skipped)
  PROVE  TypeOK'
<1> DEFINE S == FirstRows(BatchSize, {g \in Grants : Due(g)} \ skipped)
           claimed == {[g |-> g, att |-> outbox[g].attempts + 1] : g \in S}
<1>1. S \in SUBSET Grants
  BY DEF FirstRows
<1>2. \A g \in Grants : outbox[g] \in Row /\ Leased(outbox[g]) \in Row
  BY LeasedType DEF TypeOK
<1>3. claimed \in SUBSET Claim
  <2> DEFINE att == [g \in Grants |-> outbox[g].attempts + 1]
  <2>1. att \in [Grants -> Nat]
    BY <1>2 DEF Row
  <2>2. {[g |-> g, att |-> att[g]] : g \in S} \in SUBSET Claim
    BY <1>1, <2>1, BatchType
  <2>3. \A g \in S : att[g] = outbox[g].attempts + 1
    BY <1>1
  <2>4. QED
    BY <2>2, <2>3
<1>4. outbox' = [g \in Grants |-> IF g \in S THEN Leased(outbox[g]) ELSE outbox[g]]
  BY DEF ClaimDue
<1>5. outbox' \in [Grants -> Row]
  BY <1>2, <1>4
<1>6. loc' = [loc EXCEPT ![p] = Start(p, claimed)]
  BY DEF ClaimDue
<1>7. LocalsOK'
  <2> HIDE DEF claimed
  <2> p \in Procs
    BY DEF Procs
  <2> QED
    BY <1>3, <1>6, StartType, LocalType DEF TypeOK
<1>8. UNCHANGED <<grant, budget, award, remote, rejected, faults>>
  BY DEF ClaimDue
<1>9. QED
  BY <1>5, <1>7, <1>8 DEF TypeOK, remote

(* The operator's claim of a dead row.                                     *)
LEMMA ClaimDeadType ==
  ASSUME TypeOK, NEW p \in Procs, ClaimDead(p)
  PROVE  TypeOK'
<1> DEFINE g == loc[p].g
           fenced == outbox[g].status = "dead" /\ outbox[g].attempts = loc[p].att
<1>1. g \in Grants /\ loc[p].att \in Nat
  BY DEF ClaimDead, At, TypeOK, LocalsOK, Local
<1>2. Leased(outbox[g]) \in Row
  BY <1>1, LeasedType DEF TypeOK
<1>3. outbox' \in [Grants -> Row] /\ LocalsOK'
  <2>1. CASE fenced /\ loc[p].att < AttemptCeiling
    <3>1. outbox' = [outbox EXCEPT ![g] = Leased(outbox[g])]
      BY <2>1 DEF ClaimDead
    <3>2. Begin(p, "load", g, loc[p].att + 1, {})
      BY <2>1 DEF ClaimDead
    <3>3. "load" \in Pc /\ loc[p].att + 1 \in Nat
      BY <1>1 DEF Pc
    <3>4. QED
      BY <1>1, <1>2, <3>1, <3>2, <3>3, BeginType DEF TypeOK
  <2>2. CASE ~ (fenced /\ loc[p].att < AttemptCeiling)
    <3>1. NextItem(p) /\ UNCHANGED outbox
      BY <2>2 DEF ClaimDead
    <3>2. QED
      BY <3>1, NextItemType DEF TypeOK
  <2>3. QED
    BY <2>1, <2>2
<1>4. UNCHANGED <<grant, budget, award, remote, rejected, faults>>
  BY DEF ClaimDead
<1>5. QED
  BY <1>3, <1>4 DEF TypeOK, remote

(* The starts that only read the tables.                                   *)
LEMMA StartsType ==
  ASSUME TypeOK, NEW p \in Procs
  PROVE  /\ StartReconcile(p) => TypeOK'
         /\ \A g \in Grants : StartRetryDead(p, g) \/ StartReversal(p, g) => TypeOK'
<1>1. ASSUME StartReconcile(p) PROVE TypeOK'
  <2> DEFINE S == FirstRows(BatchSize,
                    {g \in Grants : outbox[g].status \in {"processing", "retry", "dead"}})
             listed == {[g |-> g, att |-> outbox[g].attempts] : g \in S}
  <2>1. S \in SUBSET Grants
    BY DEF FirstRows
  <2>2. listed \in SUBSET Claim
    <3> DEFINE att == [g \in Grants |-> outbox[g].attempts]
    <3>1. att \in [Grants -> Nat]
      BY DEF TypeOK, Row
    <3>2. {[g |-> g, att |-> att[g]] : g \in S} \in SUBSET Claim
      BY <2>1, <3>1, BatchType
    <3>3. \A g \in S : att[g] = outbox[g].attempts
      BY <2>1
    <3>4. QED
      BY <3>2, <3>3
  <2>3. loc' = [loc EXCEPT ![p] = Start(p, listed)]
    BY <1>1 DEF StartReconcile
  <2>4. LocalsOK'
    <3> HIDE DEF listed
    <3> QED
      BY <2>2, <2>3, StartType, LocalType DEF TypeOK
  <2>5. UNCHANGED <<tables, remote, rejected, faults>>
    BY <1>1 DEF StartReconcile
  <2>6. QED
    BY <2>4, <2>5 DEF TypeOK, tables, remote
<1>2. ASSUME NEW g \in Grants, StartRetryDead(p, g) PROVE TypeOK'
  <2>1. Begin(p, "recover_load", g, outbox[g].attempts, {})
    BY <1>2 DEF StartRetryDead
  <2>2. "recover_load" \in Pc /\ outbox[g].attempts \in Nat
    BY DEF Pc, TypeOK, Row
  <2>3. LocalsOK'
    BY <2>1, <2>2, BeginType DEF TypeOK
  <2>4. UNCHANGED <<tables, remote, rejected, faults>>
    BY <1>2 DEF StartRetryDead
  <2>5. QED
    BY <2>3, <2>4 DEF TypeOK, tables, remote
<1>3. ASSUME NEW g \in Grants, StartReversal(p, g) PROVE TypeOK'
  <2>1. Begin(p, "rollback_check", g, 0, {})
    BY <1>3 DEF StartReversal
  <2>2. LocalsOK'
    BY <2>1, BeginType DEF TypeOK, Pc
  <2>3. UNCHANGED <<tables, remote, rejected, faults>>
    BY <1>3 DEF StartReversal
  <2>4. QED
    BY <2>2, <2>3 DEF TypeOK, tables, remote
<1>4. QED
  BY <1>1, <1>2, <1>3

(* The steps around a call to new-api write no table.                      *)
LEMMA CallsType ==
  ASSUME TypeOK, NEW p \in Procs,
         \/ Load(p) \/ LoadFails(p) \/ GrantAnswered(p) \/ GrantTimesOut(p)
         \/ Query(p) \/ QueryFails(p) \/ Misrouted(p)
         \/ RollbackCheck(p) \/ RollbackAnswered(p) \/ RollbackTimesOut(p)
         \/ TransactionFails(p) \/ Crash(p)
  PROVE  TypeOK'
<1> USE DEF TypeOK, tables, remote
<1>1. LocalsOK /\ loc[p] \in Local
  BY DEF LocalsOK
<1>2. ASSUME loc[p].pc # "idle" PROVE loc[p].g \in Grants
  BY <1>2 DEF LocalsOK
<1>3. ASSUME NEW pc \in Pc, loc[p].pc # "idle", Goto(p, pc) PROVE LocalsOK'
  BY <1>3, GotoType
<1>4. NextItem(p) => LocalsOK'
  BY NextItemType
<1>5. CASE Load(p)
  <2>1. LocalsOK'
    BY <1>3, <1>5 DEF Load, Pc, At
  <2>2. QED
    BY <1>5, <2>1 DEF Load
<1>6. CASE LoadFails(p)
  <2>1. LocalsOK'
    BY <1>3, <1>6 DEF LoadFails, Pc
  <2>2. QED
    BY <1>6, <2>1 DEF LoadFails, Fault
<1>7. CASE GrantAnswered(p)
  <2>1. loc[p].g \in Grants
    BY <1>2, <1>7 DEF GrantAnswered, At
  <2>2. LocalsOK'
    BY <1>3, <1>7 DEF GrantAnswered, Pc, At
  <2>3. benefit' \in [Grants -> BenefitStatus] /\ rejected' \subseteq Grants
    BY <1>7, <2>1 DEF GrantAnswered, Granted, BenefitStatus
  <2>4. QED
    BY <1>7, <2>2, <2>3 DEF GrantAnswered
<1>8. CASE GrantTimesOut(p)
  <2>1. loc[p].g \in Grants
    BY <1>2, <1>8 DEF GrantTimesOut, At
  <2>2. LocalsOK'
    BY <1>3, <1>8 DEF GrantTimesOut, Pc, At
  <2>3. QED
    BY <1>8, <2>1, <2>2 DEF GrantTimesOut
<1>9. CASE Query(p)
  <2>1. loc[p].g \in Grants /\ loc[p].pc # "idle"
    BY <1>2, <1>9 DEF Query
  <2>2. benefit[loc[p].g] \in BenefitStatus
    BY <2>1
  <2>3. \/ \E pc \in Pc : Goto(p, pc)
        \/ NextItem(p)
    BY <1>9, <2>2 DEF Query, AfterQuery, At, BenefitStatus, Pc
  <2>4. LocalsOK'
    BY <1>3, <1>4, <2>1, <2>3
  <2>5. QED
    BY <1>9, <2>4 DEF Query
<1>10. CASE QueryFails(p)
  <2>1. LocalsOK'
    BY <1>3, <1>4, <1>10 DEF QueryFails, Pc, At
  <2>2. QED
    BY <1>10, <2>1 DEF QueryFails
<1>11. CASE Misrouted(p)
  <2>1. loc[p].g \in Grants
    BY <1>2, <1>11 DEF Misrouted
  <2>2. LocalsOK'
    BY <1>3, <1>11 DEF Misrouted, Pc
  <2>3. inflight' \subseteq Grants \X {"grant", "rollback"}
    BY <1>11, <2>1 DEF Misrouted
  <2>4. QED
    BY <1>11, <2>2, <2>3 DEF Misrouted, Fault
<1>12. CASE RollbackCheck(p)
  <2>1. loc[p].pc # "idle"
    BY <1>12 DEF RollbackCheck, At
  <2>2. \/ \E pc \in Pc : Goto(p, pc)
        \/ NextItem(p)
    BY <1>12 DEF RollbackCheck, Pc
  <2>3. LocalsOK'
    BY <1>3, <1>4, <2>1, <2>2
  <2>4. QED
    BY <1>12, <2>3 DEF RollbackCheck
<1>13. CASE RollbackAnswered(p)
  <2>1. loc[p].g \in Grants /\ loc[p].pc # "idle"
    BY <1>2, <1>13 DEF RollbackAnswered, At
  <2>2. LocalsOK'
    BY <1>3, <1>4, <1>13, <2>1 DEF RollbackAnswered, Pc
  <2>3. benefit' \in [Grants -> BenefitStatus]
    BY <1>13, <2>1 DEF RollbackAnswered, RolledBack, BenefitStatus
  <2>4. QED
    BY <1>13, <2>2, <2>3 DEF RollbackAnswered
<1>14. CASE RollbackTimesOut(p)
  <2>1. loc[p].g \in Grants
    BY <1>2, <1>14 DEF RollbackTimesOut, At
  <2>2. QED
    BY <1>4, <1>14, <2>1 DEF RollbackTimesOut
<1>15. CASE TransactionFails(p)
  BY <1>4, <1>15 DEF TransactionFails, Fault
<1>16. CASE Crash(p)
  <2>1. Idle \in Local /\ Idle.pc = "idle"
    BY DEF Idle, Local, Pc
  <2>2. LocalsOK'
    BY <1>1, <1>16, <2>1, LocalType DEF Crash
  <2>3. QED
    BY <1>16, <2>2 DEF Crash, Fault
<1>17. QED
  BY <1>5, <1>6, <1>7, <1>8, <1>9, <1>10, <1>11, <1>12, <1>13, <1>14, <1>15, <1>16

(* Settling and releasing keep a budget row a row of natural numbers,      *)
(* because their guards compare before they subtract.                      *)
LEMMA BooksType ==
  ASSUME NEW row \in BudgetRow, NEW amount \in Nat
  PROVE  /\ row.reserved >= amount => Settle(row, amount) \in BudgetRow
         /\ row.settled >= amount => Release(row, amount) \in BudgetRow
<1>1. ASSUME row.reserved >= amount PROVE Settle(row, amount) \in BudgetRow
  <2>1. row.reserved - amount \in Nat /\ row.settled + amount \in Nat
    BY <1>1 DEF BudgetRow
  <2>2. QED
    BY <2>1 DEF BudgetRow, Settle
<1>2. ASSUME row.settled >= amount PROVE Release(row, amount) \in BudgetRow
  <2>1. row.settled - amount \in Nat /\ row.released + amount \in Nat
    BY <1>2 DEF BudgetRow
  <2>2. QED
    BY <2>1 DEF BudgetRow, Release
<1>3. QED
  BY <1>1, <1>2

(* The transaction that books a delivered reward.                          *)
LEMMA CompleteType ==
  ASSUME TypeOK, NEW p \in Procs, Complete(p)
  PROVE  TypeOK'
<1> DEFINE g == loc[p].g
           b == BudgetOf[g]
<1>1. g \in Grants
  BY DEF Complete, At, TypeOK, LocalsOK
<1>2. b \in Budgets /\ Amount[g] \in Nat
  BY <1>1, AmountsAssumption
<1>3. budget[b] \in BudgetRow /\ outbox[g] \in Row
  BY <1>1, <1>2 DEF TypeOK
<1>4. LocalsOK'
  BY NextItemType DEF Complete, TypeOK
<1>5. /\ grant' \in [Grants -> GrantStatus]
      /\ budget' \in [Budgets -> BudgetRow]
      /\ award' \in [Grants -> AwardStatus]
      /\ outbox' \in [Grants -> Row]
  <2>1. CASE \/ grant[g] = "settled"
             \/ grant[g] = "pending" /\ Fenced(p) /\ budget[b].reserved >= Amount[g]
    <3>1. grant' = [grant EXCEPT ![g] = "settled"]
      BY <2>1 DEF Complete
    <3>2. award' = IF award[g] = "pending"
                   THEN [award EXCEPT ![g] = "settled"] ELSE award
      BY <2>1 DEF Complete
    <3>3. budget' = IF grant[g] = "pending"
                    THEN [budget EXCEPT ![b] = Settle(budget[b], Amount[g])]
                    ELSE budget
      BY <2>1 DEF Complete
    <3>4. grant[g] = "pending" => Settle(budget[b], Amount[g]) \in BudgetRow
      BY <2>1, <1>2, <1>3, BooksType
    <3>5. budget' \in [Budgets -> BudgetRow]
      BY <1>2, <3>3, <3>4 DEF TypeOK
    <3>6. \/ SaveOutbox(p, "completed", outbox[g].due)
          \/ UNCHANGED outbox
      BY <2>1 DEF Complete
    <3>7. outbox[g].due \in BOOLEAN /\ "completed" \in OutboxStatus
      BY <1>3 DEF Row, OutboxStatus
    <3>8. outbox' \in [Grants -> Row]
      BY <3>6, <3>7, SaveOutboxType DEF TypeOK
    <3>9. QED
      BY <3>1, <3>2, <3>5, <3>8 DEF TypeOK, GrantStatus, AwardStatus
  <2>2. CASE UNCHANGED tables
    BY <2>2 DEF tables, TypeOK
  <2>3. QED
    BY <2>1, <2>2 DEF Complete
<1>6. UNCHANGED <<remote, rejected, faults>>
  BY DEF Complete
<1>7. QED
  BY <1>4, <1>5, <1>6 DEF TypeOK, remote

(* The other writes of an outbox row.                                      *)
LEMMA OutboxWritesType ==
  ASSUME TypeOK, NEW p \in Procs, SaveConflict(p) \/ SaveRetry(p)
  PROVE  TypeOK'
<1>1. LocalsOK'
  BY NextItemType DEF SaveConflict, SaveRetry, TypeOK
<1>2. \/ UNCHANGED outbox
      \/ \E status \in OutboxStatus, due \in BOOLEAN : SaveOutbox(p, status, due)
  <2>1. CASE SaveConflict(p)
    BY <2>1 DEF SaveConflict, OutboxStatus
  <2>2. CASE SaveRetry(p)
    <3>1. CASE loc[p].att >= MaxAttempts
      BY <2>2, <3>1 DEF SaveRetry, OutboxStatus
    <3>2. CASE ~ (loc[p].att >= MaxAttempts)
      <4>1. (loc[p].att >= MaxAttempts) = FALSE
        BY <3>2
      <4>2. SaveOutbox(p, "retry", FALSE) \/ UNCHANGED outbox
        BY <2>2, <4>1 DEF SaveRetry
      <4>3. "retry" \in OutboxStatus /\ FALSE \in BOOLEAN
        BY DEF OutboxStatus
      <4>4. QED
        BY <4>2, <4>3
    <3>3. QED
      BY <3>1, <3>2
  <2>3. QED
    BY <2>1, <2>2
<1>3. outbox' \in [Grants -> Row]
  BY <1>2, SaveOutboxType DEF TypeOK
<1>4. UNCHANGED <<grant, budget, award, remote, rejected, faults>>
  BY DEF SaveConflict, SaveRetry
<1>5. QED
  BY <1>1, <1>3, <1>4 DEF TypeOK, remote

(* The two transactions of a reversal.                                     *)
LEMMA ReversalType ==
  ASSUME TypeOK, NEW p \in Procs, RollbackCommit(p) \/ AwardReversed(p)
  PROVE  TypeOK'
<1> DEFINE g == loc[p].g
           b == BudgetOf[g]
<1>1. g \in Grants /\ loc[p].pc # "idle"
  BY DEF RollbackCommit, AwardReversed, At, TypeOK, LocalsOK
<1>2. b \in Budgets /\ Amount[g] \in Nat
  BY <1>1, AmountsAssumption
<1>3. CASE RollbackCommit(p)
  <2>1. Goto(p, "award") \/ NextItem(p)
    BY <1>3 DEF RollbackCommit
  <2>2. LocalsOK'
    BY <1>1, <2>1, GotoType, NextItemType DEF TypeOK, Pc
  <2>3. \/ UNCHANGED <<grant, budget>>
        \/ /\ grant' = [grant EXCEPT ![g] = "reversed"]
           /\ budget[b].settled >= Amount[g]
           /\ budget' = [budget EXCEPT ![b] = Release(budget[b], Amount[g])]
    BY <1>3 DEF RollbackCommit
  <2>4. budget[b].settled >= Amount[g] => Release(budget[b], Amount[g]) \in BudgetRow
    BY <1>2, BooksType DEF TypeOK
  <2>5. grant' \in [Grants -> GrantStatus] /\ budget' \in [Budgets -> BudgetRow]
    BY <1>1, <1>2, <2>3, <2>4 DEF TypeOK, GrantStatus
  <2>6. UNCHANGED <<outbox, award, remote, rejected, faults>>
    BY <1>3 DEF RollbackCommit
  <2>7. QED
    BY <2>2, <2>5, <2>6 DEF TypeOK, remote
<1>4. CASE AwardReversed(p)
  <2>1. LocalsOK'
    BY <1>4, NextItemType DEF AwardReversed, TypeOK
  <2>2. award' \in [Grants -> AwardStatus]
    BY <1>4 DEF AwardReversed, TypeOK, AwardStatus
  <2>3. UNCHANGED <<grant, outbox, budget, remote, rejected, faults>>
    BY <1>4 DEF AwardReversed
  <2>4. QED
    BY <2>1, <2>2, <2>3 DEF TypeOK, remote
<1>5. QED
  BY <1>3, <1>4

(* Late arrivals at new-api, and the clock.                                *)
LEMMA EnvironmentType ==
  ASSUME TypeOK, NEW g \in Grants, Remote(g) \/ Clock(g)
  PROVE  TypeOK'
<1>1. CASE LateGrant(g)
  BY <1>1 DEF LateGrant, Granted, TypeOK, LocalsOK, BenefitStatus, tables
<1>2. CASE LateRollback(g)
  BY <1>2 DEF LateRollback, RolledBack, TypeOK, LocalsOK, BenefitStatus, tables
<1>3. CASE LeaseExpires(g)
  <2>1. outbox' \in [Grants -> Row]
    BY <1>3 DEF LeaseExpires, TypeOK, Row
  <2>2. faults' \in Nat
    BY <1>3 DEF LeaseExpires, Fault, NoFault, TypeOK
  <2>3. QED
    BY <1>3, <2>1, <2>2 DEF LeaseExpires, TypeOK, LocalsOK, remote
<1>4. CASE BackoffEnds(g)
  <2>1. outbox' \in [Grants -> Row]
    BY <1>4 DEF BackoffEnds, TypeOK, Row
  <2>2. QED
    BY <1>4, <2>1 DEF BackoffEnds, TypeOK, LocalsOK, remote
<1>5. QED
  BY <1>1, <1>2, <1>3, <1>4 DEF Remote, Clock

(* Every reachable state is well typed.                                    *)
THEOREM TypeCorrect == Spec => []TypeOK
<1>1. Init => TypeOK
  BY InitType
<1>2. TypeOK /\ [Next]_vars => TypeOK'
  <2> SUFFICES ASSUME TypeOK, [Next]_vars PROVE TypeOK'
    OBVIOUS
  <2>1. ASSUME NEW g \in Grants, NEW status \in {"pending", "shadow"},
               CreateReward(g, status)
        PROVE  TypeOK'
    BY <2>1, CreateRewardType
  <2>2. ASSUME NEW p \in Settlers, NEW skipped \in SUBSET Grants, ClaimDue(p, skipped)
        PROVE  TypeOK'
    BY <2>2, ClaimDueType
  <2>3. ASSUME NEW p \in Procs, StartReconcile(p) PROVE TypeOK'
    BY <2>3, StartsType
  <2>4. ASSUME NEW p \in Procs, NEW g \in Grants, StartRetryDead(p, g) \/ StartReversal(p, g)
        PROVE  TypeOK'
    BY <2>4, StartsType
  <2>5. ASSUME NEW p \in Procs, Step(p) PROVE TypeOK'
    BY <2>5, CallsType, ClaimDeadType, CompleteType, OutboxWritesType, ReversalType
       DEF Step
  <2>6. ASSUME NEW p \in Procs, Disturb(p) PROVE TypeOK'
    BY <2>6, CallsType DEF Disturb
  <2>7. ASSUME NEW g \in Grants, Remote(g) \/ Clock(g) PROVE TypeOK'
    BY <2>7, EnvironmentType
  <2>8. CASE UNCHANGED vars
    BY <2>8 DEF vars, TypeOK, LocalsOK
  <2>9. QED
    BY <2>1, <2>2, <2>3, <2>4, <2>5, <2>6, <2>7, <2>8 DEF Next, Procs
<1>3. QED
  BY <1>1, <1>2, PTL DEF Spec

-----------------------------------------------------------------------------
(* Money: the books are the sums of the grants, and stay under the cap.    *)

(* The moves of one grant and its money; every step makes at most one.     *)
Moves(g, from, to, row) ==
  /\ grant[g] = from
  /\ grant' = [grant EXCEPT ![g] = to]
  /\ budget' = [budget EXCEPT ![BudgetOf[g]] = row]

MoneyMoves(g) ==
  LET row == budget[BudgetOf[g]] IN
  \/ /\ Moves(g, "none", "pending", Reserve(row, Amount[g]))
     /\ CanReserve(row, HardCap[BudgetOf[g]], Amount[g])
  \/ /\ Moves(g, "pending", "settled", Settle(row, Amount[g]))
     /\ row.reserved >= Amount[g]
  \/ /\ Moves(g, "settled", "reversed", Release(row, Amount[g]))
     /\ row.settled >= Amount[g]

(* A step moves the money of one grant, or leaves grants and budgets alone.*)
LEMMA MoneyStep ==
  ASSUME TypeOK, [Next]_vars
  PROVE  UNCHANGED <<grant, budget>> \/ \E g \in Grants : MoneyMoves(g)
<1>1. ASSUME NEW g \in Grants, NEW status \in {"pending", "shadow"},
             CreateReward(g, status)
      PROVE  MoneyMoves(g)
  BY <1>1 DEF CreateReward, MoneyMoves, Moves
<1>2. ASSUME NEW p \in Procs, Complete(p)
      PROVE  UNCHANGED <<grant, budget>> \/ \E g \in Grants : MoneyMoves(g)
  <2> DEFINE g == loc[p].g
  <2>1. g \in Grants
    BY <1>2 DEF Complete, At, TypeOK, LocalsOK
  <2>2. CASE grant[g] = "settled"
    <3>1. grant' = [grant EXCEPT ![g] = "settled"] /\ budget' = budget
      BY <1>2, <2>2 DEF Complete
    <3>2. grant' = grant
      BY <2>1, <2>2, <3>1 DEF TypeOK
    <3>3. QED
      BY <3>1, <3>2
  <2>3. CASE grant[g] = "pending" /\ Fenced(p) /\ budget[BudgetOf[g]].reserved >= Amount[g]
    <3>1. MoneyMoves(g)
      BY <1>2, <2>3 DEF Complete, MoneyMoves, Moves
    <3>2. QED
      BY <2>1, <3>1
  <2>4. CASE UNCHANGED tables
    BY <2>4 DEF tables
  <2>5. QED
    BY <1>2, <2>2, <2>3, <2>4 DEF Complete
<1>3. ASSUME NEW p \in Procs, RollbackCommit(p)
      PROVE  UNCHANGED <<grant, budget>> \/ \E g \in Grants : MoneyMoves(g)
  <2>1. loc[p].g \in Grants
    BY <1>3 DEF RollbackCommit, At, TypeOK, LocalsOK
  <2>2. UNCHANGED <<grant, budget>> \/ MoneyMoves(loc[p].g)
    BY <1>3 DEF RollbackCommit, MoneyMoves, Moves
  <2>3. QED
    BY <2>1, <2>2
<1>4. ASSUME NEW p \in Procs, Step(p)
      PROVE  UNCHANGED <<grant, budget>> \/ Complete(p) \/ RollbackCommit(p)
  BY <1>4 DEF Step, Load, GrantAnswered, GrantTimesOut, Query, QueryFails, ClaimDead,
     SaveConflict, SaveRetry, RollbackCheck, RollbackAnswered, RollbackTimesOut,
     AwardReversed, tables
<1>5. ASSUME NEW p \in Procs, Disturb(p) PROVE UNCHANGED <<grant, budget>>
  BY <1>5 DEF Disturb, LoadFails, Misrouted, TransactionFails, Crash, tables
<1>6. ASSUME NEW p \in Settlers, NEW skipped \in SUBSET Grants, ClaimDue(p, skipped)
      PROVE  UNCHANGED <<grant, budget>>
  BY <1>6 DEF ClaimDue
<1>7. ASSUME NEW p \in Procs, NEW g \in Grants,
             StartReconcile(p) \/ StartRetryDead(p, g) \/ StartReversal(p, g)
      PROVE  UNCHANGED <<grant, budget>>
  BY <1>7 DEF StartReconcile, StartRetryDead, StartReversal, tables
<1>8. ASSUME NEW p \in Procs, StartReconcile(p)
      PROVE  UNCHANGED <<grant, budget>>
  BY <1>8 DEF StartReconcile, tables
<1>9. ASSUME NEW g \in Grants, Remote(g) \/ Clock(g) PROVE UNCHANGED <<grant, budget>>
  BY <1>9 DEF Remote, Clock, LateGrant, LateRollback, LeaseExpires, BackoffEnds, tables
<1>10. CASE UNCHANGED vars
  BY <1>10 DEF vars
<1>11. QED
  BY <1>1, <1>2, <1>3, <1>4, <1>5, <1>6, <1>7, <1>8, <1>9, <1>10 DEF Next, Procs

(* How the sums of the grants of a status change when one grant moves.     *)
LEMMA TotalMove ==
  ASSUME NEW f \in [Grants -> GrantStatus], NEW g \in Grants, NEW to, f[g] # to,
         NEW h, h = [f EXCEPT ![g] = to]
  PROVE  /\ Total(Charged(h, BudgetOf[g], f[g])) =
              Total(Charged(f, BudgetOf[g], f[g])) - Amount[g]
         /\ Total(Charged(h, BudgetOf[g], to)) =
              Total(Charged(f, BudgetOf[g], to)) + Amount[g]
<1> DEFINE A == Charged(f, BudgetOf[g], f[g])
           B == Charged(f, BudgetOf[g], to)
<1>1. A \in SUBSET Grants /\ B \in SUBSET Grants
  BY DEF Charged
<1>2. /\ g \in A /\ g \notin B
      /\ Charged(h, BudgetOf[g], f[g]) = A \ {g}
      /\ Charged(h, BudgetOf[g], to) = B \cup {g}
  BY DEF Charged
<1>3. Total(A \ {g}) = Total(A) - Amount[g]
  BY <1>1, <1>2, TotalRemove
<1>4. Total(B \cup {g}) = Total(B) + Amount[g]
  BY <1>1, <1>2, TotalAdd
<1>5. QED
  BY <1>2, <1>3, <1>4

(* Conservation is inductive relative to the types.                        *)
LEMMA ConservationStep ==
  ASSUME TypeOK, BudgetConservation, [Next]_vars
  PROVE  BudgetConservation'
<1>1. CASE UNCHANGED <<grant, budget>>
  BY <1>1 DEF BudgetConservation
<1>2. ASSUME NEW g \in Grants, MoneyMoves(g) PROVE BudgetConservation'
  <2> DEFINE b == BudgetOf[g]
  <2>1. b \in Budgets /\ Amount[g] \in Nat
    BY AmountsAssumption
  <2>2. budget \in [Budgets -> BudgetRow]
    BY DEF TypeOK
  <2>3. /\ budget[b].reserved = Total(Charged(grant, b, "pending"))
        /\ budget[b].settled = Total(Charged(grant, b, "settled"))
        /\ budget[b].released = Total(Charged(grant, b, "reversed"))
    BY <2>1 DEF BudgetConservation
  <2>4. ASSUME NEW from, NEW to, NEW STATE row, from # to, Moves(g, from, to, row)
        PROVE  /\ Total(Charged(grant', b, from)) = Total(Charged(grant, b, from)) - Amount[g]
               /\ Total(Charged(grant', b, to)) = Total(Charged(grant, b, to)) + Amount[g]
               /\ \A status : (status # from /\ status # to) =>
                    Total(Charged(grant', b, status)) = Total(Charged(grant, b, status))
    <3>1. grant[g] = from /\ grant' = [grant EXCEPT ![g] = to]
      BY <2>4 DEF Moves
    <3>2. grant \in [Grants -> GrantStatus] /\ grant[g] # to
      BY <2>4, <3>1 DEF TypeOK
    <3>3. /\ Total(Charged(grant', b, grant[g])) = Total(Charged(grant, b, grant[g])) - Amount[g]
          /\ Total(Charged(grant', b, to)) = Total(Charged(grant, b, to)) + Amount[g]
      BY <3>1, <3>2, TotalMove
    <3>4. ASSUME NEW status, status # from, status # to
          PROVE  Total(Charged(grant', b, status)) = Total(Charged(grant, b, status))
      <4>1. Charged(grant', b, status) = Charged(grant, b, status)
        BY <3>1, <3>2, <3>4 DEF Charged
      <4>2. QED
        BY <4>1
    <3>5. QED
      BY <3>1, <3>3, <3>4
  <2>5. ASSUME NEW from, NEW to, NEW STATE row, from # to, Moves(g, from, to, row),
               NEW c \in Budgets, c # b
        PROVE  /\ budget'[c] = budget[c]
               /\ \A status : Total(Charged(grant', c, status)) = Total(Charged(grant, c, status))
    <3>1. budget'[c] = budget[c]
      BY <2>2, <2>5 DEF Moves
    <3>2. grant \in [Grants -> GrantStatus] /\ grant' = [grant EXCEPT ![g] = to]
      BY <2>5 DEF Moves, TypeOK
    <3>3. ASSUME NEW status
          PROVE  Total(Charged(grant', c, status)) = Total(Charged(grant, c, status))
      <4>1. Charged(grant', c, status) = Charged(grant, c, status)
        BY <2>5, <3>2 DEF Charged
      <4>2. QED
        BY <4>1
    <3>4. QED
      BY <3>1, <3>3
  <2>6. ASSUME NEW from, NEW to, NEW STATE row, from # to, Moves(g, from, to, row)
        PROVE  budget'[b] = row
    BY <2>1, <2>2, <2>6 DEF Moves
  <2>7. CASE Moves(g, "none", "pending", Reserve(budget[b], Amount[g]))
    <3>1. budget'[b] = Reserve(budget[b], Amount[g])
      BY <2>6, <2>7
    <3>2. /\ budget'[b].reserved = budget[b].reserved + Amount[g]
          /\ budget'[b].settled = budget[b].settled
          /\ budget'[b].released = budget[b].released
      BY <2>1, <2>2, <3>1 DEF Reserve, BudgetRow
    <3>3. /\ budget'[b].reserved = Total(Charged(grant', b, "pending"))
          /\ budget'[b].settled = Total(Charged(grant', b, "settled"))
          /\ budget'[b].released = Total(Charged(grant', b, "reversed"))
      BY <2>3, <2>4, <2>7, <3>2
    <3>4. QED
      BY <2>5, <2>7, <3>3 DEF BudgetConservation
  <2>8. CASE Moves(g, "pending", "settled", Settle(budget[b], Amount[g]))
    <3>1. budget'[b] = Settle(budget[b], Amount[g])
      BY <2>6, <2>8
    <3>2. /\ budget'[b].reserved = budget[b].reserved - Amount[g]
          /\ budget'[b].settled = budget[b].settled + Amount[g]
          /\ budget'[b].released = budget[b].released
      BY <2>1, <2>2, <3>1 DEF Settle, BudgetRow
    <3>3. /\ budget'[b].reserved = Total(Charged(grant', b, "pending"))
          /\ budget'[b].settled = Total(Charged(grant', b, "settled"))
          /\ budget'[b].released = Total(Charged(grant', b, "reversed"))
      BY <2>3, <2>4, <2>8, <3>2
    <3>4. QED
      BY <2>5, <2>8, <3>3 DEF BudgetConservation
  <2>9. CASE Moves(g, "settled", "reversed", Release(budget[b], Amount[g]))
    <3>1. budget'[b] = Release(budget[b], Amount[g])
      BY <2>6, <2>9
    <3>2. /\ budget'[b].reserved = budget[b].reserved
          /\ budget'[b].settled = budget[b].settled - Amount[g]
          /\ budget'[b].released = budget[b].released + Amount[g]
      BY <2>1, <2>2, <3>1 DEF Release, BudgetRow
    <3>3. /\ budget'[b].reserved = Total(Charged(grant', b, "pending"))
          /\ budget'[b].settled = Total(Charged(grant', b, "settled"))
          /\ budget'[b].released = Total(Charged(grant', b, "reversed"))
      BY <2>3, <2>4, <2>9, <3>2
    <3>4. QED
      BY <2>5, <2>9, <3>3 DEF BudgetConservation
  <2>10. QED
    BY <1>2, <2>7, <2>8, <2>9 DEF MoneyMoves
<1>3. QED
  BY <1>1, <1>2, MoneyStep

(* Under any interleaving of workers, reconcilers and reversals, with any  *)
(* faults, every budget row holds exactly the sums of its grants.          *)
THEOREM ConservationHolds == Spec => []BudgetConservation
<1>1. Init => BudgetConservation
  <2> SUFFICES ASSUME Init, NEW b \in Budgets
               PROVE  /\ budget[b].reserved = Total(Charged(grant, b, "pending"))
                      /\ budget[b].settled = Total(Charged(grant, b, "settled"))
                      /\ budget[b].released = Total(Charged(grant, b, "reversed"))
    BY DEF BudgetConservation
  <2>1. \A status : status # "none" => Charged(grant, b, status) = {}
    BY DEF Init, Charged
  <2>2. QED
    BY <2>1, TotalEmpty DEF Init, EmptyBudget
<1>2. TypeOK /\ BudgetConservation /\ [Next]_vars => BudgetConservation'
  BY ConservationStep
<1>3. QED
  BY <1>1, <1>2, TypeCorrect, PTL DEF Spec

(* The totals that the code compares with the cap stay under it.           *)
THEOREM RowsStayWithinCap == Spec => []RowsWithinCap
<1>1. Init => RowsWithinCap
  BY AmountsAssumption DEF Init, RowsWithinCap, EmptyBudget
<1>2. TypeOK /\ RowsWithinCap /\ [Next]_vars => RowsWithinCap'
  <2> SUFFICES ASSUME TypeOK, RowsWithinCap, [Next]_vars, NEW c \in Budgets
               PROVE  budget'[c].reserved + budget'[c].settled <= HardCap[c]
    BY DEF RowsWithinCap
  <2>1. CASE UNCHANGED <<grant, budget>>
    BY <2>1 DEF RowsWithinCap
  <2>2. ASSUME NEW g \in Grants, MoneyMoves(g)
        PROVE  budget'[c].reserved + budget'[c].settled <= HardCap[c]
    <3> DEFINE row == budget[BudgetOf[g]]
    <3>1. /\ BudgetOf[g] \in Budgets /\ Amount[g] \in Nat
          /\ HardCap \in [Budgets -> Nat]
      BY AmountsAssumption
    <3>2. row \in BudgetRow
      BY <3>1 DEF TypeOK
    <3>3. CASE c # BudgetOf[g]
      <4>1. budget'[c] = budget[c]
        BY <2>2, <3>3 DEF MoneyMoves, Moves, TypeOK
      <4>2. QED
        BY <4>1 DEF RowsWithinCap
    <3>4. CASE c = BudgetOf[g]
      <4>1. row.reserved + row.settled <= HardCap[c]
        BY <3>1, <3>4 DEF RowsWithinCap
      <4>2. \/ /\ budget'[c] = Reserve(row, Amount[g])
               /\ CanReserve(row, HardCap[c], Amount[g])
            \/ budget'[c] = Settle(row, Amount[g])
            \/ budget'[c] = Release(row, Amount[g])
        BY <2>2, <3>4 DEF MoneyMoves, Moves, TypeOK
      <4>3. HardCap[c] \in Nat
        BY <3>1
      <4>4. CASE /\ budget'[c] = Reserve(row, Amount[g])
                 /\ CanReserve(row, HardCap[c], Amount[g])
        <5>1. /\ budget'[c].reserved = row.reserved + Amount[g]
              /\ budget'[c].settled = row.settled
          BY <3>2, <4>4 DEF Reserve, BudgetRow
        <5>2. QED
          BY <3>1, <3>2, <4>3, <4>4, <5>1 DEF CanReserve, BudgetRow
      <4>5. CASE budget'[c] = Settle(row, Amount[g])
        <5>1. /\ budget'[c].reserved = row.reserved - Amount[g]
              /\ budget'[c].settled = row.settled + Amount[g]
          BY <3>2, <4>5 DEF Settle, BudgetRow
        <5>2. QED
          BY <3>1, <3>2, <4>1, <4>3, <5>1 DEF BudgetRow
      <4>6. CASE budget'[c] = Release(row, Amount[g])
        <5>1. /\ budget'[c].reserved = row.reserved
              /\ budget'[c].settled = row.settled - Amount[g]
          BY <3>2, <4>6 DEF Release, BudgetRow
        <5>2. QED
          BY <3>1, <3>2, <4>1, <4>3, <5>1 DEF BudgetRow
      <4>7. QED
        BY <4>2, <4>4, <4>5, <4>6
    <3>5. QED
      BY <3>3, <3>4
  <2>3. QED
    BY <2>1, <2>2, MoneyStep
<1>3. QED
  BY <1>1, <1>2, TypeCorrect, PTL DEF Spec

(* Hence what is owed or paid under a budget never exceeds its hard cap.   *)
THEOREM HardCapHolds == Spec => []HardCapRespected
<1>1. TypeOK /\ BudgetConservation /\ RowsWithinCap => HardCapRespected
  <2> SUFFICES ASSUME TypeOK, BudgetConservation, RowsWithinCap, NEW b \in Budgets
               PROVE  Total(Charged(grant, b, "pending") \cup Charged(grant, b, "settled"))
                        <= HardCap[b]
    BY DEF HardCapRespected
  <2>1. /\ Charged(grant, b, "pending") \in SUBSET Grants
        /\ Charged(grant, b, "settled") \in SUBSET Grants
        /\ Charged(grant, b, "pending") \cap Charged(grant, b, "settled") = {}
    BY DEF Charged
  <2>2. Total(Charged(grant, b, "pending") \cup Charged(grant, b, "settled"))
          = Total(Charged(grant, b, "pending")) + Total(Charged(grant, b, "settled"))
    BY <2>1, TotalDisjoint
  <2>3. QED
    BY <2>2 DEF BudgetConservation, RowsWithinCap
<1>2. QED
  BY <1>1, TypeCorrect, ConservationHolds, RowsStayWithinCap, PTL

-----------------------------------------------------------------------------
(* The two tables agree: a reward is booked if and only if its outbox row  *)
(* is completed.                                                           *)

(* Steps that write no table.                                              *)
LEMMA QuietSteps ==
  ASSUME NEW p \in Procs,
         \/ Load(p) \/ LoadFails(p) \/ GrantAnswered(p) \/ GrantTimesOut(p)
         \/ Query(p) \/ QueryFails(p) \/ Misrouted(p)
         \/ RollbackCheck(p) \/ RollbackAnswered(p) \/ RollbackTimesOut(p)
         \/ TransactionFails(p) \/ Crash(p) \/ StartReconcile(p)
         \/ \E g \in Grants : StartRetryDead(p, g) \/ StartReversal(p, g)
  PROVE  UNCHANGED tables
  BY DEF Load, LoadFails, GrantAnswered, GrantTimesOut, Query, QueryFails, Misrouted,
     RollbackCheck, RollbackAnswered, RollbackTimesOut, TransactionFails, Crash,
     StartReconcile, StartRetryDead, StartReversal

(* The agreement is inductive relative to the types.  A completion that    *)
(* misses the fence is the case that matters: it books nothing.            *)
LEMMA CompletedStep ==
  ASSUME TypeOK, CompletedIffBooked, [Next]_vars
  PROVE  CompletedIffBooked'
<1> SUFFICES ASSUME NEW x \in Grants
             PROVE  grant'[x] \in {"settled", "reversed"} <=> outbox'[x].status = "completed"
  BY DEF CompletedIffBooked
<1> USE DEF TypeOK
<1>1. grant[x] \in {"settled", "reversed"} <=> outbox[x].status = "completed"
  BY DEF CompletedIffBooked
<1>2. CASE UNCHANGED tables
  BY <1>1, <1>2 DEF tables
<1>3. ASSUME NEW g \in Grants, NEW status \in {"pending", "shadow"}, CreateReward(g, status)
      PROVE  grant'[x] \in {"settled", "reversed"} <=> outbox'[x].status = "completed"
  <2>1. /\ grant' = [grant EXCEPT ![g] = "pending"]
        /\ \A y \in Grants : y # g => outbox'[y] = outbox[y]
        /\ outbox'[g].status = status
    BY <1>3 DEF CreateReward
  <2>2. QED
    BY <1>1, <2>1
<1>4. ASSUME NEW p \in Settlers, NEW skipped \in SUBSET Grants, ClaimDue(p, skipped)
      PROVE  grant'[x] \in {"settled", "reversed"} <=> outbox'[x].status = "completed"
  <2>1. grant' = grant
    BY <1>4 DEF ClaimDue
  <2>2. \/ outbox'[x] = outbox[x]
        \/ outbox'[x] = Leased(outbox[x]) /\ Due(x)
    BY <1>4 DEF ClaimDue, FirstRows
  <2>3. Leased(outbox[x]).status = "processing"
    BY DEF Leased, Row
  <2>4. QED
    BY <1>1, <2>1, <2>2, <2>3 DEF Due
<1>5. ASSUME NEW p \in Procs, ClaimDead(p)
      PROVE  grant'[x] \in {"settled", "reversed"} <=> outbox'[x].status = "completed"
  <2>1. grant' = grant
    BY <1>5 DEF ClaimDead
  <2>2. \/ outbox'[x] = outbox[x]
        \/ outbox'[x] = Leased(outbox[x]) /\ outbox[x].status = "dead"
    BY <1>5 DEF ClaimDead
  <2>3. Leased(outbox[x]).status = "processing"
    BY DEF Leased, Row
  <2>4. QED
    BY <1>1, <2>1, <2>2, <2>3
<1>6. ASSUME NEW g \in Grants, Clock(g)
      PROVE  grant'[x] \in {"settled", "reversed"} <=> outbox'[x].status = "completed"
  <2>1. grant' = grant
    BY <1>6 DEF Clock, LeaseExpires, BackoffEnds
  <2>2. outbox'[x].status = outbox[x].status
    BY <1>6 DEF Clock, LeaseExpires, BackoffEnds, Row
  <2>3. QED
    BY <1>1, <2>1, <2>2
<1>7. ASSUME NEW p \in Procs, NEW status \in OutboxStatus, NEW due \in BOOLEAN,
             SaveOutbox(p, status, due)
      PROVE  \A y \in Grants :
               outbox'[y].status = IF y = loc[p].g THEN status ELSE outbox[y].status
  BY <1>7 DEF SaveOutbox, Row
<1>8. ASSUME NEW p \in Procs, SaveConflict(p) \/ SaveRetry(p)
      PROVE  grant'[x] \in {"settled", "reversed"} <=> outbox'[x].status = "completed"
  <2>1. grant' = grant
    BY <1>8 DEF SaveConflict, SaveRetry
  <2>2. outbox'[x].status = outbox[x].status
        \/ /\ outbox'[x].status \in {"conflict", "dead", "retry"}
           /\ outbox[x].status # "completed"
    <3>1. CASE UNCHANGED outbox
      BY <3>1
    <3>2. CASE Fenced(p) /\ SaveOutbox(p, "conflict", TRUE)
      BY <1>7, <3>2 DEF Fenced, OutboxStatus
    <3>3. CASE Fenced(p) /\ SaveRetry(p)
      <4>1. PICK status \in {"dead", "retry"}, due \in BOOLEAN : SaveOutbox(p, status, due)
        <5>1. CASE loc[p].att >= MaxAttempts
          BY <3>3, <5>1 DEF SaveRetry
        <5>2. CASE ~ (loc[p].att >= MaxAttempts)
          <6>1. (loc[p].att >= MaxAttempts) = FALSE
            BY <5>2
          <6>2. QED
            BY <3>3, <6>1 DEF SaveRetry
        <5>3. QED
          BY <5>1, <5>2
      <4>2. QED
        BY <1>7, <3>3, <4>1 DEF Fenced, OutboxStatus
    <3>4. QED
      BY <1>8, <3>1, <3>2, <3>3 DEF SaveConflict, SaveRetry
  <2>3. QED
    BY <1>1, <2>1, <2>2
<1>9. ASSUME NEW p \in Procs, Complete(p)
      PROVE  grant'[x] \in {"settled", "reversed"} <=> outbox'[x].status = "completed"
  <2> DEFINE g == loc[p].g
  <2>1. g \in Grants
    BY <1>9 DEF Complete, At, LocalsOK
  <2>2. CASE grant[g] = "settled"
    <3>1. outbox[g].status = "completed"
      BY <2>1, <2>2 DEF CompletedIffBooked
    <3>2. UNCHANGED outbox
      BY <1>9, <2>2, <3>1 DEF Complete, Fenced
    <3>3. grant' = [grant EXCEPT ![g] = "settled"]
      BY <1>9, <2>2 DEF Complete
    <3>4. QED
      BY <1>1, <2>1, <2>2, <3>2, <3>3
  <2>3. CASE grant[g] = "pending" /\ Fenced(p) /\ budget[BudgetOf[g]].reserved >= Amount[g]
    <3>1. SaveOutbox(p, "completed", outbox[g].due)
      BY <1>9, <2>3 DEF Complete
    <3>2. outbox[g].due \in BOOLEAN /\ "completed" \in OutboxStatus
      BY <2>1 DEF Row, OutboxStatus
    <3>3. outbox'[x].status = IF x = g THEN "completed" ELSE outbox[x].status
      BY <1>7, <3>1, <3>2
    <3>4. grant' = [grant EXCEPT ![g] = "settled"]
      BY <1>9, <2>3 DEF Complete
    <3>5. QED
      BY <1>1, <2>1, <3>3, <3>4
  <2>4. QED
    BY <1>2, <1>9, <2>2, <2>3 DEF Complete
<1>10. ASSUME NEW p \in Procs, RollbackCommit(p) \/ AwardReversed(p)
       PROVE  grant'[x] \in {"settled", "reversed"} <=> outbox'[x].status = "completed"
  <2>1. outbox' = outbox
    BY <1>10 DEF RollbackCommit, AwardReversed
  <2>2. \/ grant' = grant
        \/ /\ grant[loc[p].g] = "settled"
           /\ grant' = [grant EXCEPT ![loc[p].g] = "reversed"]
    BY <1>10 DEF RollbackCommit, AwardReversed
  <2>3. QED
    BY <1>1, <2>1, <2>2
<1>11. ASSUME NEW p \in Procs, Step(p) \/ Disturb(p)
       PROVE  grant'[x] \in {"settled", "reversed"} <=> outbox'[x].status = "completed"
  BY <1>2, <1>5, <1>8, <1>9, <1>10, <1>11, QuietSteps DEF Step, Disturb
<1>12. ASSUME NEW g \in Grants, Remote(g)
       PROVE  grant'[x] \in {"settled", "reversed"} <=> outbox'[x].status = "completed"
  BY <1>2, <1>12 DEF Remote, LateGrant, LateRollback
<1>13. CASE UNCHANGED vars
  BY <1>1, <1>13 DEF vars
<1>14. QED
  BY <1>2, <1>3, <1>4, <1>6, <1>11, <1>12, <1>13, QuietSteps DEF Next, Procs

(* The grant table and the outbox never disagree about a booked reward.    *)
THEOREM TablesAgree == Spec => []CompletedIffBooked
<1>1. Init => CompletedIffBooked
  BY DEF Init, CompletedIffBooked, NoRow
<1>2. TypeOK /\ CompletedIffBooked /\ [Next]_vars => CompletedIffBooked'
  BY CompletedStep
<1>3. QED
  BY <1>1, <1>2, TypeCorrect, PTL DEF Spec

-----------------------------------------------------------------------------
(* Nothing is booked that new-api has not done.                            *)

(* new-api never forgets a benefit, and never gives back what it took.     *)
Remembered ==
  \A g \in Grants :
    /\ benefit[g] # "not_found" => benefit'[g] # "not_found"
    /\ benefit[g] = "rolled_back" => benefit'[g] = "rolled_back"

(* What a step of a process does to benefit, to the late requests and to   *)
(* the knowledge of the processes.                                         *)
LEMMA ProcessStep ==
  ASSUME TypeOK, NEW p \in Procs, Step(p) \/ Disturb(p)
  PROVE  /\ \A q \in Procs : q # p => loc'[q] = loc[q]
         /\ \/ loc'[p].pc \notin {"complete", "rollback_call", "rollback_commit"}
            \/ GrantAnswered(p) \/ Query(p) \/ RollbackCheck(p) \/ RollbackAnswered(p)
         /\ GrantAnswered(p) \/ RollbackAnswered(p) \/ UNCHANGED benefit
         /\ RollbackTimesOut(p) \/ \A g \in Grants :
              <<g, "rollback">> \in inflight' => <<g, "rollback">> \in inflight
         /\ Complete(p) \/ RollbackCommit(p) \/ UNCHANGED grant
<1>1. /\ loc \in [Procs -> Local]
      /\ \A todo : Start(p, todo).pc \in {"idle", "load", "reconcile_query"}
  BY DEF TypeOK, LocalsOK, Start, Idle
<1>2. ASSUME NEW pc \in Pc, Goto(p, pc)
      PROVE  loc'[p].pc = pc /\ \A q \in Procs : q # p => loc'[q] = loc[q]
  BY <1>1, <1>2 DEF Goto, Local
<1>3. ASSUME NextItem(p)
      PROVE  /\ loc'[p].pc \notin {"complete", "rollback_call", "rollback_commit"}
             /\ \A q \in Procs : q # p => loc'[q] = loc[q]
  BY <1>1, <1>3 DEF NextItem
<1> DEFINE Elsewhere == Pc \ {"complete", "rollback_call", "rollback_commit"}
<1>4. CASE \/ Load(p) \/ LoadFails(p) \/ GrantTimesOut(p) \/ Misrouted(p)
  <2>1. PICK pc \in Elsewhere : Goto(p, pc)
    BY <1>4 DEF Load, LoadFails, GrantTimesOut, Misrouted, Pc
  <2>2. UNCHANGED benefit /\ UNCHANGED grant
    BY <1>4 DEF Load, LoadFails, GrantTimesOut, Misrouted, remote, tables
  <2>3. \A g \in Grants : <<g, "rollback">> \in inflight' => <<g, "rollback">> \in inflight
    BY <1>4 DEF Load, LoadFails, GrantTimesOut, Misrouted, remote
  <2>4. QED
    BY <1>2, <2>1, <2>2, <2>3
<1>5. CASE QueryFails(p)
  <2>1. NextItem(p) \/ Goto(p, "retry")
    BY <1>5 DEF QueryFails
  <2>2. "retry" \in Elsewhere
    BY DEF Pc
  <2>3. QED
    BY <1>2, <1>3, <1>5, <2>1, <2>2 DEF QueryFails, remote, tables
<1>6. CASE \/ Complete(p) \/ SaveConflict(p) \/ SaveRetry(p) \/ AwardReversed(p)
           \/ TransactionFails(p) \/ RollbackTimesOut(p)
  <2>1. NextItem(p) /\ UNCHANGED benefit
    BY <1>6 DEF Complete, SaveConflict, SaveRetry, AwardReversed, TransactionFails,
       RollbackTimesOut, remote
  <2>2. RollbackTimesOut(p) \/ UNCHANGED inflight
    BY <1>6 DEF Complete, SaveConflict, SaveRetry, AwardReversed, TransactionFails, remote
  <2>3. Complete(p) \/ UNCHANGED grant
    BY <1>6 DEF SaveConflict, SaveRetry, AwardReversed, TransactionFails,
       RollbackTimesOut, tables
  <2>4. QED
    BY <1>3, <2>1, <2>2, <2>3
<1>7. CASE ClaimDead(p)
  <2>1. NextItem(p) \/ Begin(p, "load", loc[p].g, loc[p].att + 1, {})
    BY <1>7 DEF ClaimDead
  <2>2. /\ loc'[p].pc \notin {"complete", "rollback_call", "rollback_commit"}
        /\ \A q \in Procs : q # p => loc'[q] = loc[q]
    BY <1>1, <1>3, <2>1 DEF Begin
  <2>3. QED
    BY <1>7, <2>2 DEF ClaimDead, remote
<1>8. CASE RollbackCommit(p)
  <2>1. NextItem(p) \/ Goto(p, "award")
    BY <1>8 DEF RollbackCommit
  <2>2. "award" \in Elsewhere
    BY DEF Pc
  <2>3. QED
    BY <1>2, <1>3, <1>8, <2>1, <2>2 DEF RollbackCommit, remote
<1>9. CASE Crash(p)
  BY <1>1, <1>9 DEF Crash, Idle, remote, tables
<1>10. CASE GrantAnswered(p) \/ Query(p) \/ RollbackCheck(p) \/ RollbackAnswered(p)
  <2>1. \A q \in Procs : q # p => loc'[q] = loc[q]
    <3>1. CASE Query(p)
      <4>1. loc[p].g \in Grants
        BY <3>1 DEF Query, TypeOK, LocalsOK
      <4>2. benefit[loc[p].g] \in BenefitStatus
        BY <4>1 DEF TypeOK
      <4>3. NextItem(p) \/ \E pc \in Pc : Goto(p, pc)
        BY <3>1, <4>2 DEF Query, AfterQuery, At, BenefitStatus, Pc
      <4>4. QED
        BY <1>2, <1>3, <4>3
    <3>2. CASE GrantAnswered(p) \/ RollbackCheck(p) \/ RollbackAnswered(p)
      <4>1. NextItem(p) \/ \E pc \in Pc : Goto(p, pc)
        BY <3>2 DEF GrantAnswered, RollbackCheck, RollbackAnswered, Pc
      <4>2. QED
        BY <1>2, <1>3, <4>1
    <3>3. QED
      BY <1>10, <3>1, <3>2
  <2>2. UNCHANGED grant /\ UNCHANGED inflight
    BY <1>10 DEF GrantAnswered, Query, RollbackCheck, RollbackAnswered, tables, remote
  <2>3. GrantAnswered(p) \/ RollbackAnswered(p) \/ UNCHANGED benefit
    BY <1>10 DEF Query, RollbackCheck, remote
  <2>4. QED
    BY <1>10, <2>1, <2>2, <2>3
<1>11. QED
  BY <1>4, <1>5, <1>6, <1>7, <1>8, <1>9, <1>10 DEF Step, Disturb

(* new-api keeps its memory in every step, whoever calls it.               *)
LEMMA RememberedStep ==
  ASSUME TypeOK, [Next]_vars
  PROVE  Remembered
<1>1. benefit \in [Grants -> BenefitStatus]
  BY DEF TypeOK
<1>2. UNCHANGED benefit => Remembered
  BY DEF Remembered
<1>3. ASSUME NEW g, benefit' = [benefit EXCEPT ![g] = Granted(benefit[g])]
      PROVE  Remembered
  BY <1>1, <1>3 DEF Remembered, Granted
<1>4. ASSUME NEW g, benefit' = [benefit EXCEPT ![g] = RolledBack(benefit[g])]
      PROVE  Remembered
  BY <1>1, <1>4 DEF Remembered, RolledBack
<1>5. ASSUME NEW p \in Procs, Step(p) \/ Disturb(p) PROVE Remembered
  <2>1. CASE GrantAnswered(p)
    <3>1. PICK g \in {loc[p].g} : benefit' = [benefit EXCEPT ![g] = Granted(benefit[g])]
      BY <2>1 DEF GrantAnswered
    <3>2. QED
      BY <1>3, <3>1
  <2>2. CASE RollbackAnswered(p)
    <3>1. PICK g \in {loc[p].g} : benefit' = [benefit EXCEPT ![g] = RolledBack(benefit[g])]
      BY <2>2 DEF RollbackAnswered
    <3>2. QED
      BY <1>4, <3>1
  <2>3. QED
    BY <1>2, <1>5, <2>1, <2>2, ProcessStep
<1>6. ASSUME NEW g \in Grants, Remote(g) PROVE Remembered
  BY <1>3, <1>4, <1>6 DEF Remote, LateGrant, LateRollback
<1>7. ASSUME NEW g \in Grants, NEW status, CreateReward(g, status) PROVE Remembered
  BY <1>2, <1>7 DEF CreateReward, remote
<1>8. ASSUME NEW p \in Procs, NEW skipped,
             ClaimDue(p, skipped) \/ StartReconcile(p)
      PROVE  Remembered
  BY <1>2, <1>8 DEF ClaimDue, StartReconcile, remote
<1>9. ASSUME NEW p \in Procs, NEW g \in Grants, StartRetryDead(p, g) \/ StartReversal(p, g)
      PROVE  Remembered
  BY <1>2, <1>9 DEF StartRetryDead, StartReversal, remote
<1>10. ASSUME NEW g \in Grants, Clock(g) PROVE Remembered
  BY <1>2, <1>10 DEF Clock, LeaseExpires, BackoffEnds, remote
<1>11. CASE UNCHANGED vars
  BY <1>2, <1>11 DEF vars
<1>12. QED
  BY <1>5, <1>6, <1>7, <1>8, <1>9, <1>10, <1>11 DEF Next, Procs

(* A booked grant is never pending again.                                  *)
LEMMA BookedForever ==
  ASSUME TypeOK, [Next]_vars, NEW g \in Grants, grant[g] \in {"settled", "reversed"}
  PROVE  grant'[g] \in {"settled", "reversed"}
<1>1. CASE UNCHANGED <<grant, budget>>
  BY <1>1
<1>2. ASSUME NEW h \in Grants, MoneyMoves(h) PROVE grant'[g] \in {"settled", "reversed"}
  BY <1>2 DEF MoneyMoves, Moves, TypeOK
<1>3. QED
  BY <1>1, <1>2, MoneyStep

(* Steps that start a process, create a reward or belong to the            *)
(* environment teach a process nothing.                                    *)
LEMMA OtherSteps ==
  ASSUME TypeOK, [Next]_vars, \A p \in Procs : ~ (Step(p) \/ Disturb(p))
  PROVE  /\ \A q \in Procs :
              \/ loc'[q] = loc[q]
              \/ loc'[q].pc \notin {"complete", "rollback_call", "rollback_commit"}
         /\ \A g \in Grants :
              <<g, "rollback">> \in inflight' => <<g, "rollback">> \in inflight
         /\ \A g \in Grants :
              \/ grant'[g] = grant[g]
              \/ grant[g] = "none" /\ grant'[g] = "pending"
         /\ \A g \in Grants :
              benefit[g] # "rolled_back" /\ benefit'[g] = "rolled_back"
                => <<g, "rollback">> \in inflight
<1>1. /\ loc \in [Procs -> Local]
      /\ \A p, todo : Start(p, todo).pc \in {"idle", "load", "reconcile_query"}
  BY DEF TypeOK, LocalsOK, Start, Idle
<1>2. ASSUME NEW g \in Grants, NEW status, CreateReward(g, status)
      PROVE  /\ UNCHANGED <<loc, inflight, benefit>>
             /\ \A h \in Grants : \/ grant'[h] = grant[h]
                                  \/ grant[h] = "none" /\ grant'[h] = "pending"
  BY <1>2 DEF CreateReward, remote, TypeOK
<1>3. ASSUME NEW p \in Procs, NEW skipped, ClaimDue(p, skipped) \/ StartReconcile(p)
      PROVE  /\ UNCHANGED <<grant, inflight, benefit>>
             /\ \A q \in Procs :
                  \/ loc'[q] = loc[q]
                  \/ loc'[q].pc \notin {"complete", "rollback_call", "rollback_commit"}
  <2>1. \E todo : loc' = [loc EXCEPT ![p] = Start(p, todo)]
    BY <1>3 DEF ClaimDue, StartReconcile
  <2>2. QED
    BY <1>1, <1>3, <2>1 DEF ClaimDue, StartReconcile, remote, tables
<1>4. ASSUME NEW p \in Procs, NEW g \in Grants, StartRetryDead(p, g) \/ StartReversal(p, g)
      PROVE  /\ UNCHANGED <<grant, inflight, benefit>>
             /\ \A q \in Procs :
                  \/ loc'[q] = loc[q]
                  \/ loc'[q].pc \notin {"complete", "rollback_call", "rollback_commit"}
  BY <1>1, <1>4 DEF StartRetryDead, StartReversal, Begin, remote, tables
<1>5. ASSUME NEW g \in Grants, Clock(g)
      PROVE  UNCHANGED <<grant, inflight, benefit, loc>>
  BY <1>5 DEF Clock, LeaseExpires, BackoffEnds, remote
<1>6. ASSUME NEW g \in Grants, Remote(g)
      PROVE  /\ UNCHANGED <<grant, loc>>
             /\ inflight' \subseteq inflight
             /\ \A h \in Grants :
                  benefit[h] # "rolled_back" /\ benefit'[h] = "rolled_back"
                    => <<h, "rollback">> \in inflight
  BY <1>6 DEF Remote, LateGrant, LateRollback, Granted, RolledBack, tables, TypeOK
<1>7. CASE UNCHANGED vars
  BY <1>7 DEF vars
<1>8. QED
  BY <1>2, <1>3, <1>4, <1>5, <1>6, <1>7 DEF Next, Procs

(* What one process knows, the part of KnowledgeHolds about it.            *)
Knows(p) ==
  /\ At(p, "complete") => benefit[loc[p].g] # "not_found"
  /\ At(p, "rollback_call") => grant[loc[p].g] \in {"settled", "reversed"}
  /\ At(p, "rollback_commit") =>
       /\ grant[loc[p].g] \in {"settled", "reversed"}
       /\ benefit[loc[p].g] = "rolled_back"

(* A process that stays where it is keeps its knowledge.                   *)
LEMMA KnowledgeKept ==
  ASSUME TypeOK, [Next]_vars, NEW p \in Procs, Knows(p), loc'[p] = loc[p]
  PROVE  Knows(p)'
<1>1. CASE loc[p].pc \in {"complete", "rollback_call", "rollback_commit"}
  <2>1. loc[p].g \in Grants
    BY <1>1 DEF TypeOK, LocalsOK
  <2>2. /\ benefit[loc[p].g] # "not_found" => benefit'[loc[p].g] # "not_found"
        /\ benefit[loc[p].g] = "rolled_back" => benefit'[loc[p].g] = "rolled_back"
    BY <2>1, RememberedStep DEF Remembered
  <2>3. grant[loc[p].g] \in {"settled", "reversed"}
          => grant'[loc[p].g] \in {"settled", "reversed"}
    BY <2>1, BookedForever
  <2>4. QED
    BY <2>2, <2>3 DEF Knows, At
<1>2. CASE loc[p].pc \notin {"complete", "rollback_call", "rollback_commit"}
  BY <1>2 DEF Knows, At
<1>3. QED
  BY <1>1, <1>2

(* A process that moves learns what it needs from the answer it got.       *)
LEMMA KnowledgeGained ==
  ASSUME TypeOK, [Next]_vars, NEW p \in Procs, Knows(p),
         GrantAnswered(p) \/ Query(p) \/ RollbackCheck(p) \/ RollbackAnswered(p)
  PROVE  Knows(p)'
<1>1. loc[p].g \in Grants /\ loc[p] \in Local /\ loc \in [Procs -> Local]
  BY DEF GrantAnswered, Query, RollbackCheck, RollbackAnswered, At, TypeOK, LocalsOK
<1>2. ASSUME NEW pc \in Pc, Goto(p, pc)
      PROVE  loc'[p].pc = pc /\ loc'[p].g = loc[p].g
  BY <1>1, <1>2 DEF Goto, Local
<1>3. ASSUME NextItem(p) PROVE Knows(p)'
  <2>1. loc'[p].pc \in {"idle", "load", "reconcile_query"}
    BY <1>1, <1>3 DEF NextItem, Start, Idle
  <2>2. QED
    BY <2>1 DEF Knows, At
<1>4. CASE GrantAnswered(p)
  <2>1. CASE Goto(p, "complete") /\ benefit'[loc[p].g] = "applied"
    BY <1>2, <2>1 DEF Knows, At, Pc
  <2>2. CASE Goto(p, "conflict")
    BY <1>2, <2>2 DEF Knows, At, Pc
  <2>3. QED
    BY <1>4, <2>1, <2>2 DEF GrantAnswered
<1>5. CASE Query(p)
  <2>1. benefit' = benefit /\ benefit[loc[p].g] \in BenefitStatus
    BY <1>1, <1>5 DEF Query, remote, TypeOK
  <2>2. \/ Goto(p, "complete") /\ benefit[loc[p].g] # "not_found"
        \/ NextItem(p)
        \/ \E pc \in {"conflict", "retry", "recover_claim"} : Goto(p, pc)
    BY <1>5, <2>1 DEF Query, AfterQuery, At, BenefitStatus
  <2>3. CASE Goto(p, "complete") /\ benefit[loc[p].g] # "not_found"
    BY <1>2, <2>1, <2>3 DEF Knows, At, Pc
  <2>4. ASSUME NEW pc \in {"conflict", "retry", "recover_claim"}, Goto(p, pc)
        PROVE  Knows(p)'
    BY <1>2, <2>4 DEF Knows, At, Pc
  <2>5. QED
    BY <1>3, <2>2, <2>3, <2>4
<1>6. CASE RollbackCheck(p)
  <2>1. grant' = grant
    BY <1>6 DEF RollbackCheck, tables
  <2>2. CASE Goto(p, "award")
    BY <1>2, <2>2 DEF Knows, At, Pc
  <2>3. CASE Goto(p, "rollback_call") /\ grant[loc[p].g] = "settled"
    BY <1>2, <2>1, <2>3 DEF Knows, At, Pc
  <2>4. QED
    BY <1>3, <1>6, <2>2, <2>3 DEF RollbackCheck
<1>7. CASE RollbackAnswered(p)
  <2>1. grant' = grant /\ grant[loc[p].g] \in {"settled", "reversed"}
    BY <1>7 DEF RollbackAnswered, tables, Knows
  <2>2. CASE Goto(p, "rollback_commit") /\ benefit'[loc[p].g] = "rolled_back"
    BY <1>2, <2>1, <2>2 DEF Knows, At, Pc
  <2>3. QED
    BY <1>3, <1>7, <2>2 DEF RollbackAnswered
<1>8. QED
  BY <1>4, <1>5, <1>6, <1>7

(* Knowledge is inductive relative to the types.                           *)
LEMMA KnowledgeStep ==
  ASSUME TypeOK, KnowledgeHolds, [Next]_vars
  PROVE  KnowledgeHolds'
<1>1. \A p \in Procs : Knows(p)
  BY DEF KnowledgeHolds, Knows
<1>2. ASSUME NEW q \in Procs PROVE Knows(q)'
  <2>1. CASE loc'[q] = loc[q]
    BY <1>1, <2>1, KnowledgeKept
  <2>2. CASE loc'[q].pc \notin {"complete", "rollback_call", "rollback_commit"}
    BY <2>2 DEF Knows, At
  <2>3. CASE \E p \in Procs : Step(p) \/ Disturb(p)
    <3>1. PICK p \in Procs : Step(p) \/ Disturb(p)
      BY <2>3
    <3>2. CASE q # p
      BY <2>1, <3>1, <3>2, ProcessStep
    <3>3. CASE q = p
      BY <1>1, <2>2, <3>1, <3>3, ProcessStep, KnowledgeGained
    <3>4. QED
      BY <3>2, <3>3
  <2>4. CASE \A p \in Procs : ~ (Step(p) \/ Disturb(p))
    BY <2>1, <2>2, <2>4, OtherSteps
  <2>5. QED
    BY <2>3, <2>4
<1>3. ASSUME NEW g \in Grants, <<g, "rollback">> \in inflight'
      PROVE  grant'[g] \in {"settled", "reversed"}
  <2>1. CASE <<g, "rollback">> \in inflight
    BY <2>1, BookedForever DEF KnowledgeHolds
  <2>2. CASE <<g, "rollback">> \notin inflight
    <3>1. PICK p \in Procs : RollbackTimesOut(p)
      BY <1>3, <2>2, ProcessStep, OtherSteps
    <3>2. loc[p].g = g /\ At(p, "rollback_call")
      BY <1>3, <2>2, <3>1 DEF RollbackTimesOut
    <3>3. grant[g] \in {"settled", "reversed"}
      BY <3>2 DEF KnowledgeHolds
    <3>4. QED
      BY <3>3, BookedForever
  <2>3. QED
    BY <2>1, <2>2
<1>4. QED
  BY <1>2, <1>3 DEF KnowledgeHolds, Knows

(* The books follow new-api, given what the processes know.                *)
LEMMA BooksFollowStep ==
  ASSUME TypeOK, KnowledgeHolds, BooksFollowBenefit, [Next]_vars
  PROVE  BooksFollowBenefit'
<1> SUFFICES ASSUME NEW g \in Grants
             PROVE  /\ grant'[g] = "settled" => benefit'[g] # "not_found"
                    /\ grant'[g] = "reversed" => benefit'[g] = "rolled_back"
                    /\ benefit'[g] = "rolled_back" => grant'[g] \in {"settled", "reversed"}
  BY DEF BooksFollowBenefit
<1>1. /\ grant[g] = "settled" => benefit[g] # "not_found"
      /\ grant[g] = "reversed" => benefit[g] = "rolled_back"
      /\ benefit[g] = "rolled_back" => grant[g] \in {"settled", "reversed"}
  BY DEF BooksFollowBenefit
<1>2. /\ benefit[g] # "not_found" => benefit'[g] # "not_found"
      /\ benefit[g] = "rolled_back" => benefit'[g] = "rolled_back"
  BY RememberedStep DEF Remembered
<1>3. grant[g] \in {"settled", "reversed"} => grant'[g] \in {"settled", "reversed"}
  BY BookedForever
<1>4. /\ grant'[g] = "settled" => grant[g] = "settled" \/ benefit[g] # "not_found"
      /\ grant'[g] = "reversed" => grant[g] = "reversed" \/ benefit[g] = "rolled_back"
  <2>1. CASE grant'[g] = grant[g] \/ grant'[g] = "pending"
    BY <1>1, <2>1
  <2>2. CASE \E p \in Procs : Complete(p)
    <3>1. PICK p \in Procs : Complete(p)
      BY <2>2
    <3>2. benefit[loc[p].g] # "not_found"
      BY <3>1 DEF Complete, KnowledgeHolds
    <3>3. grant' = grant \/ grant' = [grant EXCEPT ![loc[p].g] = "settled"]
      BY <3>1 DEF Complete, tables
    <3>4. QED
      BY <1>1, <3>2, <3>3 DEF TypeOK
  <2>3. CASE \E p \in Procs : RollbackCommit(p)
    <3>1. PICK p \in Procs : RollbackCommit(p)
      BY <2>3
    <3>2. benefit[loc[p].g] = "rolled_back"
      BY <3>1 DEF RollbackCommit, KnowledgeHolds
    <3>3. grant' = grant \/ grant' = [grant EXCEPT ![loc[p].g] = "reversed"]
      BY <3>1 DEF RollbackCommit
    <3>4. QED
      BY <1>1, <3>2, <3>3 DEF TypeOK
  <2>4. QED
    BY <2>1, <2>2, <2>3, ProcessStep, OtherSteps
<1>5. benefit'[g] = "rolled_back" /\ benefit[g] # "rolled_back"
        => grant[g] \in {"settled", "reversed"}
  <2> SUFFICES ASSUME benefit'[g] = "rolled_back", benefit[g] # "rolled_back"
               PROVE  grant[g] \in {"settled", "reversed"}
    OBVIOUS
  <2>1. ASSUME NEW p \in Procs, Step(p) \/ Disturb(p)
        PROVE  grant[g] \in {"settled", "reversed"}
    <3>1. GrantAnswered(p) \/ RollbackAnswered(p)
      BY <2>1, ProcessStep
    <3>2. ~ GrantAnswered(p)
      BY DEF GrantAnswered, Granted, TypeOK
    <3>3. RollbackAnswered(p)
      BY <3>1, <3>2
    <3>4. loc[p].g = g
      BY <3>3 DEF RollbackAnswered, TypeOK
    <3>5. QED
      BY <3>3, <3>4 DEF RollbackAnswered, KnowledgeHolds
  <2>2. CASE \A p \in Procs : ~ (Step(p) \/ Disturb(p))
    BY <2>2, OtherSteps DEF KnowledgeHolds
  <2>3. QED
    BY <2>1, <2>2
<1>6. QED
  BY <1>1, <1>2, <1>3, <1>4, <1>5

(* A process never acts on knowledge that is out of date.                  *)
THEOREM KnowledgeIsSafe == Spec => []KnowledgeHolds
<1>1. Init => KnowledgeHolds
  BY DEF Init, KnowledgeHolds, At, Idle
<1>2. TypeOK /\ KnowledgeHolds /\ [Next]_vars => KnowledgeHolds'
  BY KnowledgeStep
<1>3. QED
  BY <1>1, <1>2, TypeCorrect, PTL DEF Spec

(* Whatever is lost, late or repeated, Pulse books only what new-api has   *)
(* done, and new-api takes back only what Pulse had booked.                *)
THEOREM BooksAlwaysFollowBenefit == Spec => []BooksFollowBenefit
<1>1. Init => BooksFollowBenefit
  BY DEF Init, BooksFollowBenefit
<1>2. TypeOK /\ KnowledgeHolds /\ BooksFollowBenefit /\ [Next]_vars => BooksFollowBenefit'
  BY BooksFollowStep
<1>3. QED
  BY <1>1, <1>2, TypeCorrect, KnowledgeIsSafe, PTL DEF Spec

-----------------------------------------------------------------------------
(* The rows of the outbox: terminal states, fences and holders.            *)

(* A grant and its outbox row are created together.                        *)
RowWithGrant ==
  \A g \in Grants : grant[g] = "none" => outbox[g] = NoRow

(* What a step may do to one row: the attempts never go back, a terminal   *)
(* status stays, and a row that is taken into work gets a new fence.       *)
RowMoves(g) ==
  /\ outbox'[g].attempts >= outbox[g].attempts
  /\ outbox[g].status \in {"completed", "conflict", "shadow"}
       => outbox'[g].status = outbox[g].status
  /\ outbox[g] = NoRow => outbox'[g] = NoRow \/ grant'[g] # "none"
  /\ outbox'[g].status = "processing"
       => outbox[g].status = "processing" \/ outbox'[g].attempts > outbox[g].attempts

(* A row that a process saves under its fence was open.                    *)
LEMMA SaveOutboxMoves ==
  ASSUME TypeOK, NEW p \in Procs, NEW status \in OutboxStatus \ {"processing"},
         NEW due \in BOOLEAN, Fenced(p), SaveOutbox(p, status, due), NEW g \in Grants
  PROVE  RowMoves(g)
<1>1. outbox[g] \in Row
  BY DEF TypeOK
<1>2. CASE g = loc[p].g
  <2>1. outbox'[g] = [outbox[g] EXCEPT !.status = status, !.leased = FALSE, !.due = due]
    BY <1>2 DEF SaveOutbox, TypeOK
  <2>2. outbox'[g].status = status /\ outbox'[g].attempts = outbox[g].attempts
    BY <1>1, <2>1 DEF Row
  <2>3. outbox[g].status \in {"processing", "retry", "dead"}
    BY <1>2 DEF Fenced
  <2>4. QED
    BY <1>1, <2>2, <2>3 DEF RowMoves, Row, NoRow
<1>3. CASE g # loc[p].g
  <2>1. outbox'[g] = outbox[g]
    BY <1>3 DEF SaveOutbox, TypeOK
  <2>2. QED
    BY <1>1, <2>1 DEF RowMoves, Row
<1>4. QED
  BY <1>2, <1>3

(* Leasing a row that is neither new nor terminal.                         *)
LEMMA LeasedMoves ==
  ASSUME TypeOK, NEW g \in Grants, outbox'[g] = Leased(outbox[g]),
         outbox[g].status \in {"pending", "retry", "processing", "dead"}
  PROVE  RowMoves(g) /\ outbox'[g].attempts = outbox[g].attempts + 1
<1>1. outbox[g] \in Row
  BY DEF TypeOK
<1>2. outbox'[g].status = "processing" /\ outbox'[g].attempts = outbox[g].attempts + 1
  BY <1>1 DEF Leased, Row
<1>3. QED
  BY <1>1, <1>2 DEF RowMoves, Row, NoRow

(* Every row moves forward in every step.                                  *)
LEMMA RowStep ==
  ASSUME TypeOK, RowWithGrant, [Next]_vars, NEW x \in Grants
  PROVE  RowMoves(x)
<1>1. outbox[x] \in Row
  BY DEF TypeOK
<1>2. outbox'[x] = outbox[x] => RowMoves(x)
  BY <1>1 DEF RowMoves, Row
<1>3. ASSUME NEW g \in Grants, NEW status \in {"pending", "shadow"}, CreateReward(g, status)
      PROVE  RowMoves(x)
  <2>1. CASE x = g
    <3>1. outbox[x] = NoRow
      BY <1>3, <2>1 DEF CreateReward, RowWithGrant
    <3>2. /\ outbox'[x] = [status |-> status, attempts |-> 0, leased |-> FALSE, due |-> TRUE]
          /\ grant'[x] = "pending"
      BY <1>3, <2>1 DEF CreateReward, TypeOK
    <3>3. QED
      BY <3>1, <3>2 DEF RowMoves, NoRow
  <2>2. CASE x # g
    BY <1>2, <1>3, <2>2 DEF CreateReward
  <2>3. QED
    BY <2>1, <2>2
<1>4. ASSUME NEW p \in Settlers, NEW skipped \in SUBSET Grants, ClaimDue(p, skipped)
      PROVE  RowMoves(x)
  <2>1. \/ outbox'[x] = outbox[x]
        \/ outbox'[x] = Leased(outbox[x]) /\ Due(x)
    BY <1>4 DEF ClaimDue, FirstRows
  <2>2. QED
    BY <1>2, <2>1, LeasedMoves DEF Due
<1>5. ASSUME NEW p \in Procs, ClaimDead(p) PROVE RowMoves(x)
  <2>1. \/ outbox'[x] = outbox[x]
        \/ outbox'[x] = Leased(outbox[x]) /\ outbox[x].status = "dead"
    BY <1>5 DEF ClaimDead, TypeOK
  <2>2. QED
    BY <1>2, <2>1, LeasedMoves
<1>6. ASSUME NEW g \in Grants, Clock(g) PROVE RowMoves(x)
  <2>1. /\ outbox'[x].status = outbox[x].status
        /\ outbox'[x].attempts = outbox[x].attempts
        /\ outbox'[x] # outbox[x] => outbox[x] # NoRow
    BY <1>1, <1>6 DEF Clock, LeaseExpires, BackoffEnds, Row, NoRow, TypeOK
  <2>2. QED
    BY <1>1, <2>1 DEF RowMoves, Row
<1>7. ASSUME NEW p \in Procs, SaveConflict(p) PROVE RowMoves(x)
  <2>1. UNCHANGED outbox \/ (Fenced(p) /\ SaveOutbox(p, "conflict", TRUE))
    BY <1>7 DEF SaveConflict
  <2>2. QED
    BY <1>2, <2>1, SaveOutboxMoves DEF OutboxStatus
<1>8. ASSUME NEW p \in Procs, SaveRetry(p) PROVE RowMoves(x)
  <2>1. \/ UNCHANGED outbox
        \/ Fenced(p) /\ SaveOutbox(p, "dead", TRUE)
        \/ Fenced(p) /\ SaveOutbox(p, "retry", FALSE)
    <3>1. CASE loc[p].att >= MaxAttempts
      BY <1>8, <3>1 DEF SaveRetry
    <3>2. CASE ~ (loc[p].att >= MaxAttempts)
      <4>1. (loc[p].att >= MaxAttempts) = FALSE
        BY <3>2
      <4>2. QED
        BY <1>8, <4>1 DEF SaveRetry
    <3>3. QED
      BY <3>1, <3>2
  <2>2. QED
    BY <1>2, <2>1, SaveOutboxMoves DEF OutboxStatus
<1>9. ASSUME NEW p \in Procs, Complete(p) PROVE RowMoves(x)
  <2>1. \/ UNCHANGED outbox
        \/ Fenced(p) /\ SaveOutbox(p, "completed", outbox[loc[p].g].due)
    BY <1>9 DEF Complete, tables
  <2>2. outbox[loc[p].g].due \in BOOLEAN
    BY <1>9 DEF Complete, At, TypeOK, LocalsOK, Row
  <2>3. QED
    BY <1>2, <2>1, <2>2, SaveOutboxMoves DEF OutboxStatus
<1>10. ASSUME NEW p \in Procs, RollbackCommit(p) \/ AwardReversed(p) PROVE RowMoves(x)
  BY <1>2, <1>10 DEF RollbackCommit, AwardReversed
<1>11. UNCHANGED tables => RowMoves(x)
  BY <1>2 DEF tables
<1>12. ASSUME NEW p \in Procs, Step(p) \/ Disturb(p) PROVE RowMoves(x)
  BY <1>5, <1>7, <1>8, <1>9, <1>10, <1>11, <1>12, QuietSteps DEF Step, Disturb
<1>13. ASSUME NEW g \in Grants, Remote(g) PROVE RowMoves(x)
  BY <1>11, <1>13 DEF Remote, LateGrant, LateRollback
<1>14. CASE UNCHANGED vars
  BY <1>2, <1>14 DEF vars
<1>15. QED
  BY <1>3, <1>4, <1>6, <1>11, <1>12, <1>13, <1>14, QuietSteps DEF Next, Procs

(* Grants are never taken back, so that the row of a new grant is new.     *)
LEMMA RowWithGrantHolds == Spec => []RowWithGrant
<1>1. Init => RowWithGrant
  BY DEF Init, RowWithGrant
<1>2. TypeOK /\ RowWithGrant /\ [Next]_vars => RowWithGrant'
  <2> SUFFICES ASSUME TypeOK, RowWithGrant, [Next]_vars, NEW x \in Grants,
                      grant'[x] = "none"
               PROVE  outbox'[x] = NoRow
    BY DEF RowWithGrant
  <2>1. grant[x] = "none"
    <3>1. CASE UNCHANGED <<grant, budget>>
      BY <3>1
    <3>2. ASSUME NEW h \in Grants, MoneyMoves(h) PROVE grant[x] = "none"
      BY <3>2 DEF MoneyMoves, Moves, TypeOK
    <3>3. QED
      BY <3>1, <3>2, MoneyStep
  <2>2. QED
    BY <2>1, RowStep DEF RowMoves, RowWithGrant
<1>3. QED
  BY <1>1, <1>2, TypeCorrect, PTL DEF Spec

(* No worker, however late, takes a row out of a terminal state or turns   *)
(* its attempts back.                                                      *)
THEOREM TerminalRowsAreFinal == Spec => TerminalRowsStay
<1>1. TypeOK /\ RowWithGrant /\ [Next]_vars
        => [\A g \in Grants :
              /\ outbox[g].status \in {"completed", "conflict", "shadow"}
                   => outbox'[g].status = outbox[g].status
              /\ outbox'[g].attempts >= outbox[g].attempts]_vars
  BY RowStep DEF RowMoves
<1>2. QED
  BY <1>1, TypeCorrect, RowWithGrantHolds, PTL DEF Spec, TerminalRowsStay

-----------------------------------------------------------------------------
(* The award of a content grant.                                           *)

(* The award has the status of its grant; only a reversal reaches the      *)
(* grant first and the award later.                                        *)
AwardWithGrant(g) ==
  /\ grant[g] \in {"none", "pending", "settled"} => award[g] = grant[g]
  /\ grant[g] = "reversed" => award[g] \in {"settled", "reversed"}

AwardsWithGrants == \A g \in ContentGrants : AwardWithGrant(g)

(* Only four operations write a grant or an award.                         *)
LEMMA AwardWriters ==
  ASSUME [Next]_vars
  PROVE  \/ UNCHANGED <<grant, award>>
         \/ \E g \in Grants, status \in {"pending", "shadow"} : CreateReward(g, status)
         \/ \E p \in Procs : Complete(p) \/ RollbackCommit(p) \/ AwardReversed(p)
<1>1. UNCHANGED tables => UNCHANGED <<grant, award>>
  BY DEF tables
<1>2. ASSUME NEW p \in Settlers, NEW skipped \in SUBSET Grants, ClaimDue(p, skipped)
      PROVE  UNCHANGED <<grant, award>>
  BY <1>2 DEF ClaimDue
<1>3. ASSUME NEW p \in Procs, ClaimDead(p) \/ SaveConflict(p) \/ SaveRetry(p)
      PROVE  UNCHANGED <<grant, award>>
  BY <1>3 DEF ClaimDead, SaveConflict, SaveRetry
<1>4. ASSUME NEW p \in Procs, Step(p) \/ Disturb(p)
      PROVE  \/ UNCHANGED <<grant, award>>
             \/ Complete(p) \/ RollbackCommit(p) \/ AwardReversed(p)
  BY <1>1, <1>3, <1>4, QuietSteps DEF Step, Disturb
<1>5. ASSUME NEW g \in Grants, Remote(g) \/ Clock(g) PROVE UNCHANGED <<grant, award>>
  BY <1>5 DEF Remote, Clock, LateGrant, LateRollback, LeaseExpires, BackoffEnds, tables
<1>6. CASE UNCHANGED vars
  BY <1>6 DEF vars
<1>7. QED
  BY <1>1, <1>2, <1>4, <1>5, <1>6, QuietSteps DEF Next, Procs

(* Grant and award move together.  A settled grant never finds its award   *)
(* waiting, so that a repeated completion has nothing to repair.           *)
LEMMA AwardStep ==
  ASSUME TypeOK, AwardsWithGrants, [Next]_vars
  PROVE  AwardsWithGrants'
<1> SUFFICES ASSUME NEW x \in ContentGrants
             PROVE  AwardWithGrant(x)'
  BY DEF AwardsWithGrants
<1>1. x \in Grants /\ AwardWithGrant(x)
  BY SettlementAssumption DEF AwardsWithGrants
<1>2. grant \in [Grants -> GrantStatus] /\ award \in [Grants -> AwardStatus]
  BY DEF TypeOK
<1>3. CASE UNCHANGED <<grant, award>>
  BY <1>1, <1>3 DEF AwardWithGrant
<1>4. ASSUME NEW g \in Grants, NEW status \in {"pending", "shadow"}, CreateReward(g, status)
      PROVE  AwardWithGrant(x)'
  <2>1. /\ grant' = [grant EXCEPT ![g] = "pending"]
        /\ award' = IF g \in ContentGrants THEN [award EXCEPT ![g] = "pending"] ELSE award
    BY <1>4 DEF CreateReward
  <2>2. QED
    BY <1>1, <1>2, <2>1 DEF AwardWithGrant
<1>5. ASSUME NEW p \in Procs, Complete(p) PROVE AwardWithGrant(x)'
  <2> DEFINE g == loc[p].g
  <2>1. CASE UNCHANGED tables
    BY <1>3, <2>1 DEF tables
  <2>2. CASE /\ grant[g] \in {"pending", "settled"}
             /\ grant' = [grant EXCEPT ![g] = "settled"]
             /\ award' = IF award[g] = "pending" THEN [award EXCEPT ![g] = "settled"] ELSE award
    BY <1>1, <1>2, <2>2 DEF AwardWithGrant
  <2>3. QED
    BY <1>5, <2>1, <2>2 DEF Complete
<1>6. ASSUME NEW p \in Procs, RollbackCommit(p) PROVE AwardWithGrant(x)'
  <2>1. /\ award' = award
        /\ \/ grant' = grant
           \/ /\ grant[loc[p].g] = "settled"
              /\ grant' = [grant EXCEPT ![loc[p].g] = "reversed"]
    BY <1>6 DEF RollbackCommit
  <2>2. QED
    BY <1>1, <1>2, <2>1 DEF AwardWithGrant
<1>7. ASSUME NEW p \in Procs, AwardReversed(p) PROVE AwardWithGrant(x)'
  <2>1. /\ grant' = grant
        /\ \/ award' = award
           \/ /\ grant[loc[p].g] = "reversed"
              /\ award' = [award EXCEPT ![loc[p].g] = "reversed"]
    BY <1>7 DEF AwardReversed
  <2>2. QED
    BY <1>1, <1>2, <2>1 DEF AwardWithGrant
<1>8. QED
  BY <1>3, <1>4, <1>5, <1>6, <1>7, AwardWriters

(* An award is settled with its grant and reversed only after it.          *)
THEOREM AwardsFollowGrants == Spec => []AwardFollowsGrant
<1>1. Init => AwardsWithGrants
  BY SettlementAssumption DEF Init, AwardsWithGrants, AwardWithGrant
<1>2. TypeOK /\ AwardsWithGrants /\ [Next]_vars => AwardsWithGrants'
  BY AwardStep
<1>3. TypeOK /\ AwardsWithGrants => AwardFollowsGrant
  BY SettlementAssumption
     DEF AwardsWithGrants, AwardWithGrant, AwardFollowsGrant, TypeOK, GrantStatus
<1>4. QED
  BY <1>1, <1>2, <1>3, TypeCorrect, PTL DEF Spec

-----------------------------------------------------------------------------
(* Claims: nobody shares the fence of a row in work.                       *)

HoldingPcs    == {"load", "grant", "query", "complete", "conflict", "retry"}
RecoveringPcs == {"recover_load", "recover_query", "recover_claim"}

(* A claim is never ahead of its row.  An operator who has read a dead row *)
(* and not claimed it yet finds the row out of work while its attempts are *)
(* those that were read.                                                   *)
ClaimsAreOld(p) ==
  /\ \A g \in Grants, att \in Nat : HeldBy(p, g, att) => att <= outbox[g].attempts
  /\ loc[p].pc \in RecoveringPcs =>
       /\ loc[p].att <= outbox[loc[p].g].attempts
       /\ loc[p].att = outbox[loc[p].g].attempts => outbox[loc[p].g].status # "processing"
  /\ At(p, "reconcile_query") => p \in Reconcilers

ClaimsAreUnique ==
  \A g \in Grants : outbox[g].status = "processing" =>
    \A p, q \in Procs :
      HeldBy(p, g, outbox[g].attempts) /\ HeldBy(q, g, outbox[g].attempts) => p = q

ClaimsAreSound == ClaimsAreUnique /\ \A p \in Procs : ClaimsAreOld(p)

(* What a process does to its own memory: it moves on with its row, never  *)
(* back into a recovery; it takes the next row it holds; it forgets        *)
(* everything; or it is the operator who claims a dead row.                *)
MovesOn(p, pc) ==
  /\ Goto(p, pc)
  /\ pc \in HoldingPcs => loc[p].pc \in HoldingPcs \cup RecoveringPcs \cup {"reconcile_query"}
  /\ pc \in RecoveringPcs => loc[p].pc \in RecoveringPcs
  /\ pc # "reconcile_query"

(* Every step of a process is one of those.                                *)
LEMMA MemoryStep ==
  ASSUME TypeOK, NEW p \in Procs, Step(p) \/ Disturb(p)
  PROVE  \/ \E pc \in Pc : MovesOn(p, pc)
         \/ NextItem(p)
         \/ loc' = [loc EXCEPT ![p] = Idle]
         \/ /\ outbox[loc[p].g].attempts = loc[p].att
            /\ outbox[loc[p].g].status = "dead"
            /\ outbox' = [outbox EXCEPT ![loc[p].g] = Leased(outbox[loc[p].g])]
            /\ Begin(p, "load", loc[p].g, loc[p].att + 1, {})
            /\ At(p, "recover_claim")
<1> USE DEF MovesOn, Pc, HoldingPcs, RecoveringPcs, At
<1>1. CASE Load(p) \/ LoadFails(p)
  BY <1>1 DEF Load, LoadFails
<1>2. CASE GrantAnswered(p) \/ GrantTimesOut(p)
  BY <1>2 DEF GrantAnswered, GrantTimesOut
<1>3. CASE Query(p)
  <2>1. loc[p].g \in Grants
    BY <1>3 DEF Query, TypeOK, LocalsOK
  <2>2. benefit[loc[p].g] \in BenefitStatus
    BY <2>1 DEF TypeOK
  <2>3. CASE Goto(p, "complete") \/ Goto(p, "conflict")
    BY <1>3, <2>3 DEF Query
  <2>4. CASE benefit[loc[p].g] = "not_found"
    BY <1>3, <2>4 DEF Query, AfterQuery
  <2>5. QED
    BY <1>3, <2>2, <2>3, <2>4 DEF Query, AfterQuery, BenefitStatus
<1>4. CASE QueryFails(p) \/ Misrouted(p)
  BY <1>4 DEF QueryFails, Misrouted
<1>5. CASE \/ Complete(p) \/ SaveConflict(p) \/ SaveRetry(p) \/ RollbackTimesOut(p)
           \/ AwardReversed(p) \/ TransactionFails(p)
  BY <1>5 DEF Complete, SaveConflict, SaveRetry, RollbackTimesOut, AwardReversed,
     TransactionFails
<1>6. CASE RollbackCheck(p) \/ RollbackAnswered(p) \/ RollbackCommit(p)
  BY <1>6 DEF RollbackCheck, RollbackAnswered, RollbackCommit
<1>7. CASE ClaimDead(p)
  BY <1>7 DEF ClaimDead
<1>8. CASE Crash(p)
  BY <1>8 DEF Crash
<1>9. QED
  BY <1>1, <1>2, <1>3, <1>4, <1>5, <1>6, <1>7, <1>8 DEF Step, Disturb

(* A batch that is started holds nothing but the batch.                    *)
LEMMA StartHolds ==
  ASSUME TypeOK, NEW p \in Procs, NEW todo \in SUBSET Claim,
         loc' = [loc EXCEPT ![p] = Start(p, todo)]
  PROVE  /\ \A g \in Grants, att \in Nat : HeldBy(p, g, att)' => [g |-> g, att |-> att] \in todo
         /\ loc'[p].pc \notin RecoveringPcs
         /\ At(p, "reconcile_query")' => p \in Reconcilers
<1>1. loc'[p] = Start(p, todo)
  BY DEF TypeOK, LocalsOK
<1>2. CASE todo = {}
  BY <1>1, <1>2 DEF Start, Idle, HeldBy, RecoveringPcs, At
<1>3. CASE todo # {}
  <2>1. First(todo) \in todo
    BY <1>3, FirstIsMember
  <2>2. First(todo) = [g |-> First(todo).g, att |-> First(todo).att]
    BY <2>1 DEF Claim
  <2>3. /\ loc'[p].pc = IF p \in Reconcilers THEN "reconcile_query" ELSE "load"
        /\ loc'[p].g = First(todo).g
        /\ loc'[p].att = First(todo).att
        /\ loc'[p].todo = todo \ {First(todo)}
    BY <1>1, <1>3 DEF Start
  <2>4. QED
    BY <2>1, <2>2, <2>3 DEF HeldBy, RecoveringPcs, At
<1>4. QED
  BY <1>2, <1>3

(* A step changes the memory of at most one process.                       *)
LEMMA OneProcessMoves ==
  ASSUME TypeOK, [Next]_vars, NEW p \in Procs, loc'[p] # loc[p]
  PROVE  /\ \A q \in Procs : q # p => loc'[q] = loc[q]
         /\ \/ Step(p) \/ Disturb(p)
            \/ \E skipped \in SUBSET Grants : p \in Settlers /\ ClaimDue(p, skipped)
            \/ p \in Reconcilers /\ StartReconcile(p)
            \/ \E g \in Grants : StartRetryDead(p, g) \/ StartReversal(p, g)
<1>1. ASSUME NEW q \in Procs, Step(q) \/ Disturb(q)
      PROVE  q = p /\ \A r \in Procs : r # p => loc'[r] = loc[r]
  BY <1>1, ProcessStep
<1>2. ASSUME NEW q \in Procs, NEW skipped \in SUBSET Grants,
             ClaimDue(q, skipped) \/ StartReconcile(q)
      PROVE  q = p /\ \A r \in Procs : r # p => loc'[r] = loc[r]
  BY <1>2 DEF ClaimDue, StartReconcile, TypeOK, LocalsOK
<1>3. ASSUME NEW q \in Procs, NEW g \in Grants, StartRetryDead(q, g) \/ StartReversal(q, g)
      PROVE  q = p /\ \A r \in Procs : r # p => loc'[r] = loc[r]
  BY <1>3 DEF StartRetryDead, StartReversal, Begin, TypeOK, LocalsOK
<1>4. ASSUME NEW g \in Grants, NEW status, CreateReward(g, status) PROVE FALSE
  BY <1>4 DEF CreateReward
<1>5. ASSUME NEW g \in Grants, Remote(g) \/ Clock(g) PROVE FALSE
  BY <1>5 DEF Remote, Clock, LateGrant, LateRollback, LeaseExpires, BackoffEnds
<1>6. ~ UNCHANGED vars
  BY DEF vars
<1>7. \/ \E q \in Procs : Step(q) \/ Disturb(q)
      \/ \E q \in Settlers, skipped \in SUBSET Grants : ClaimDue(q, skipped)
      \/ \E q \in Reconcilers : StartReconcile(q)
      \/ \E q \in Operators, g \in Grants : StartRetryDead(q, g) \/ StartReversal(q, g)
  BY <1>4, <1>5, <1>6 DEF Next
<1>8. Settlers \subseteq Procs /\ Reconcilers \subseteq Procs /\ Operators \subseteq Procs
  BY DEF Procs
<1>9. QED
  BY <1>1, <1>2, <1>3, <1>7, <1>8

(* What a process holds after a step: what it held before, the dead row it *)
(* was recovering, or a row that it has claimed in this very step.         *)
ClaimsNow(p, g, att) ==
  /\ outbox'[g].attempts = att
  /\ outbox[g].attempts < att
  /\ \A q \in Procs : q # p => loc'[q] = loc[q]

Holds(p, g, att) ==
  \/ HeldBy(p, g, att)
  \/ loc[p].pc \in RecoveringPcs /\ loc[p].g = g /\ loc[p].att = att

(* Nothing else ever comes into the hands of a process.                    *)
LEMMA HoldingStep ==
  ASSUME TypeOK, [Next]_vars, NEW p \in Procs, ClaimsAreOld(p),
         NEW g \in Grants, NEW att \in Nat, HeldBy(p, g, att)'
  PROVE  Holds(p, g, att) \/ ClaimsNow(p, g, att)
<1>1. loc \in [Procs -> Local] /\ outbox \in [Grants -> Row]
  BY DEF TypeOK, LocalsOK
<1>2. loc[p].todo \in SUBSET Claim /\ loc[p] \in Local
  BY <1>1 DEF Local
<1>3. p \notin Reconcilers
  BY DEF HeldBy
<1>4. CASE loc'[p] = loc[p]
  BY <1>4 DEF HeldBy, Holds
<1>5. CASE loc'[p] # loc[p] /\ (Step(p) \/ Disturb(p))
  <2>1. ASSUME NEW pc \in Pc, MovesOn(p, pc) PROVE Holds(p, g, att)
    <3>1. /\ loc'[p].pc = pc /\ loc'[p].g = loc[p].g
          /\ loc'[p].att = loc[p].att /\ loc'[p].todo = loc[p].todo
      BY <1>1, <1>2, <2>1 DEF MovesOn, Goto, Local
    <3>2. CASE [g |-> g, att |-> att] \in loc[p].todo
      BY <1>3, <3>2 DEF HeldBy, Holds
    <3>3. CASE pc \in HoldingPcs /\ loc[p].g = g /\ loc[p].att = att
      <4>1. loc[p].pc \in HoldingPcs \cup RecoveringPcs
        BY <1>3, <2>1, <3>3 DEF MovesOn, ClaimsAreOld, At
      <4>2. QED
        BY <1>3, <3>3, <4>1 DEF HeldBy, Holds, HoldingPcs
    <3>4. QED
      BY <3>1, <3>2, <3>3 DEF HeldBy, HoldingPcs
  <2>2. CASE NextItem(p)
    <3>1. [g |-> g, att |-> att] \in loc[p].todo
      BY <1>2, <2>2, StartHolds DEF NextItem
    <3>2. QED
      BY <1>3, <3>1 DEF HeldBy, Holds
  <2>3. CASE loc' = [loc EXCEPT ![p] = Idle]
    <3>1. loc'[p] = Idle
      BY <1>1, <2>3
    <3>2. QED
      BY <3>1 DEF HeldBy, Idle
  <2>4. CASE /\ outbox[loc[p].g].attempts = loc[p].att
             /\ outbox' = [outbox EXCEPT ![loc[p].g] = Leased(outbox[loc[p].g])]
             /\ Begin(p, "load", loc[p].g, loc[p].att + 1, {})
    <3>1. loc'[p] = [pc |-> "load", g |-> loc[p].g, att |-> loc[p].att + 1, todo |-> {}]
      BY <1>1, <2>4 DEF Begin
    <3>2. loc[p].g = g /\ loc[p].att + 1 = att
      BY <3>1 DEF HeldBy
    <3>3. outbox'[g].attempts = outbox[g].attempts + 1 /\ outbox[g].attempts \in Nat
      BY <1>1, <2>4, <3>2 DEF Leased, Row
    <3>4. QED
      BY <1>5, <2>4, <3>2, <3>3, OneProcessMoves DEF ClaimsNow
  <2>5. QED
    BY <1>5, <2>1, <2>2, <2>3, <2>4, MemoryStep
<1>6. ASSUME loc'[p] # loc[p], NEW skipped \in SUBSET Grants, ClaimDue(p, skipped)
      PROVE  ClaimsNow(p, g, att)
  <2> DEFINE S == FirstRows(BatchSize, {h \in Grants : Due(h)} \ skipped)
             fence == [h \in Grants |-> outbox[h].attempts + 1]
             claimed == {[g |-> h, att |-> outbox[h].attempts + 1] : h \in S}
  <2>1. S \in SUBSET Grants /\ fence \in [Grants -> Nat]
    BY <1>1 DEF FirstRows, Row
  <2>2. claimed = {[g |-> h, att |-> fence[h]] : h \in S}
    BY <2>1
  <2>3. claimed \in SUBSET Claim
    BY <2>1, <2>2, BatchType
  <2>4. loc' = [loc EXCEPT ![p] = Start(p, claimed)]
    BY <1>6 DEF ClaimDue
  <2>5. [g |-> g, att |-> att] \in claimed
    <3> HIDE DEF claimed
    <3> QED
      BY <2>3, <2>4, StartHolds
  <2>6. g \in S /\ att = outbox[g].attempts + 1
    BY <2>5
  <2>7. outbox'[g] = Leased(outbox[g])
    BY <1>6, <2>6 DEF ClaimDue
  <2>8. outbox'[g].attempts = outbox[g].attempts + 1 /\ outbox[g].attempts \in Nat
    BY <1>1, <2>7 DEF Leased, Row
  <2>9. QED
    BY <1>6, <2>6, <2>8, OneProcessMoves DEF ClaimsNow
<1>7. ASSUME NEW h \in Grants, StartRetryDead(p, h) \/ StartReversal(p, h) PROVE FALSE
  BY <1>1, <1>7 DEF StartRetryDead, StartReversal, Begin, HeldBy
<1>8. QED
  BY <1>3, <1>4, <1>5, <1>6, <1>7, OneProcessMoves

(* Claims stay behind their rows.                                          *)
LEMMA OldStep ==
  ASSUME TypeOK, TypeOK', RowWithGrant, [Next]_vars, NEW p \in Procs, ClaimsAreOld(p)
  PROVE  ClaimsAreOld(p)'
<1>1. \A g \in Grants : /\ RowMoves(g)
                        /\ outbox[g].attempts \in Nat /\ outbox'[g].attempts \in Nat
  BY RowStep DEF TypeOK, Row
<1>2. loc \in [Procs -> Local] /\ loc[p] \in Local /\ loc[p].todo \in SUBSET Claim
  BY DEF TypeOK, LocalsOK, Local
<1>3. ASSUME NEW g \in Grants, NEW att \in Nat, HeldBy(p, g, att)'
      PROVE  att <= outbox'[g].attempts
  <2>1. CASE Holds(p, g, att)
    BY <1>1, <2>1 DEF Holds, ClaimsAreOld, RowMoves
  <2>2. CASE ClaimsNow(p, g, att)
    BY <1>1, <2>2 DEF ClaimsNow
  <2>3. QED
    BY <1>3, <2>1, <2>2, HoldingStep
<1> DEFINE Recovers == loc'[p].pc \in RecoveringPcs =>
             /\ loc'[p].att <= outbox'[loc'[p].g].attempts
             /\ loc'[p].att = outbox'[loc'[p].g].attempts
                  => outbox'[loc'[p].g].status # "processing"
           Reconciles == loc'[p].pc = "reconcile_query" => p \in Reconcilers
<1>4. ASSUME loc'[p].pc \in RecoveringPcs, loc[p].pc \in RecoveringPcs,
             loc'[p].g = loc[p].g, loc'[p].att = loc[p].att
      PROVE  Recovers
  <2>1. loc[p].g \in Grants /\ loc[p].att \in Nat
    BY <1>2, <1>4 DEF TypeOK, LocalsOK, Local, RecoveringPcs
  <2>2. /\ loc[p].att <= outbox[loc[p].g].attempts
        /\ loc[p].att = outbox[loc[p].g].attempts => outbox[loc[p].g].status # "processing"
    BY <1>4 DEF ClaimsAreOld
  <2>3. QED
    BY <1>1, <1>4, <2>1, <2>2 DEF RowMoves
<1>5. ASSUME loc'[p] = loc[p] PROVE Recovers /\ Reconciles
  BY <1>4, <1>5 DEF ClaimsAreOld, At
<1>6. ASSUME Step(p) \/ Disturb(p) PROVE Recovers /\ Reconciles
  <2>1. ASSUME NEW pc \in Pc, MovesOn(p, pc) PROVE Recovers /\ Reconciles
    <3>1. loc'[p].pc = pc /\ loc'[p].g = loc[p].g /\ loc'[p].att = loc[p].att
      BY <1>2, <2>1 DEF MovesOn, Goto, Local
    <3>2. QED
      BY <1>4, <2>1, <3>1 DEF MovesOn
  <2>2. CASE NextItem(p)
    <3>1. loc' = [loc EXCEPT ![p] = Start(p, loc[p].todo)]
      BY <2>2 DEF NextItem
    <3>2. QED
      BY <1>2, <3>1, StartHolds DEF At
  <2>3. CASE loc' = [loc EXCEPT ![p] = Idle]
    BY <1>2, <2>3 DEF Idle, RecoveringPcs
  <2>4. CASE Begin(p, "load", loc[p].g, loc[p].att + 1, {})
    BY <1>2, <2>4 DEF Begin, RecoveringPcs
  <2>5. QED
    BY <1>6, <2>1, <2>2, <2>3, <2>4, MemoryStep
<1>7. ASSUME NEW skipped \in SUBSET Grants, ClaimDue(p, skipped) \/ StartReconcile(p)
      PROVE  Recovers /\ (p \in Reconcilers \/ Reconciles)
  <2>1. \E todo : loc' = [loc EXCEPT ![p] = Start(p, todo)]
    BY <1>7 DEF ClaimDue, StartReconcile
  <2>2. QED
    BY <1>2, <2>1 DEF Start, Idle, RecoveringPcs
<1>8. ASSUME NEW g \in Grants, StartRetryDead(p, g) \/ StartReversal(p, g)
      PROVE  Recovers /\ Reconciles
  <2>1. CASE StartRetryDead(p, g)
    <3>1. loc'[p] = [pc |-> "recover_load", g |-> g, att |-> outbox[g].attempts, todo |-> {}]
      BY <1>2, <2>1 DEF StartRetryDead, Begin
    <3>2. outbox' = outbox /\ outbox[g].status = "dead"
      BY <2>1 DEF StartRetryDead, tables
    <3>3. QED
      BY <1>1, <3>1, <3>2 DEF RecoveringPcs
  <2>2. CASE StartReversal(p, g)
    BY <1>2, <2>2 DEF StartReversal, Begin, RecoveringPcs
  <2>3. QED
    BY <1>8, <2>1, <2>2
<1>9. Recovers /\ (p \in Reconcilers \/ Reconciles)
  <2>1. CASE loc'[p] = loc[p]
    BY <1>5, <2>1 DEF ClaimsAreOld, At
  <2>2. CASE loc'[p] # loc[p]
    BY <1>6, <1>7, <1>8, <2>2, OneProcessMoves
  <2>3. QED
    BY <2>1, <2>2
<1>10. QED
  BY <1>3, <1>9 DEF ClaimsAreOld, At

(* A row in work keeps its one holder: whoever claims it anew raises its   *)
(* fence above all the claims there are.                                   *)
LEMMA UniqueStep ==
  ASSUME TypeOK, TypeOK', RowWithGrant, ClaimsAreSound, [Next]_vars
  PROVE  ClaimsAreUnique'
<1> SUFFICES ASSUME NEW g \in Grants, outbox'[g].status = "processing",
                    NEW p \in Procs, NEW q \in Procs,
                    HeldBy(p, g, outbox[g].attempts)', HeldBy(q, g, outbox[g].attempts)',
                    p # q
             PROVE  FALSE
  BY DEF ClaimsAreUnique
<1>0. PICK att \in Nat : outbox'[g].attempts = att
  BY DEF TypeOK, Row
<1>1. outbox[g].attempts \in Nat
  BY DEF TypeOK, Row
<1>2. HeldBy(p, g, att)' /\ HeldBy(q, g, att)'
  BY <1>0 DEF HeldBy
<1>3. RowMoves(g)
  BY RowStep
<1>4. ClaimsAreOld(p) /\ ClaimsAreOld(q)
  BY DEF ClaimsAreSound
<1>5. ASSUME NEW r \in Procs, ClaimsAreOld(r), Holds(r, g, att)
      PROVE  /\ outbox[g].attempts = att
             /\ outbox[g].status = "processing"
             /\ HeldBy(r, g, att)
  <2>1. att <= outbox[g].attempts
    BY <1>1, <1>5 DEF Holds, ClaimsAreOld
  <2>2. outbox[g].attempts = att
    BY <1>0, <1>1, <1>3, <2>1 DEF RowMoves
  <2>3. outbox[g].status = "processing"
    BY <1>0, <1>1, <1>3, <2>2 DEF RowMoves
  <2>4. QED
    BY <1>5, <2>2, <2>3 DEF Holds, ClaimsAreOld
<1>6. CASE Holds(p, g, att) /\ Holds(q, g, att)
  BY <1>4, <1>5, <1>6 DEF ClaimsAreSound, ClaimsAreUnique
<1>7. ASSUME NEW r \in Procs, NEW s \in Procs, r # s, ClaimsNow(r, g, att),
             ClaimsAreOld(s), HeldBy(s, g, att)'
      PROVE  FALSE
  <2>1. loc'[s] = loc[s]
    BY <1>7 DEF ClaimsNow
  <2>2. HeldBy(s, g, att)
    BY <1>7, <2>1 DEF HeldBy
  <2>3. att <= outbox[g].attempts
    BY <1>1, <1>7, <2>2 DEF ClaimsAreOld
  <2>4. QED
    BY <1>1, <1>7, <2>3 DEF ClaimsNow
<1>8. QED
  BY <1>1, <1>2, <1>4, <1>6, <1>7, HoldingStep

(* Claims are sound in every reachable state.                              *)
LEMMA ClaimsAreAlwaysSound == Spec => []ClaimsAreSound
<1>1. Init => ClaimsAreSound
  BY DEF Init, ClaimsAreSound, ClaimsAreUnique, ClaimsAreOld, NoRow, Idle, At, HeldBy,
     RecoveringPcs
<1>2. TypeOK /\ TypeOK' /\ RowWithGrant /\ ClaimsAreSound /\ [Next]_vars => ClaimsAreSound'
  BY UniqueStep, OldStep DEF ClaimsAreSound
<1>3. QED
  BY <1>1, <1>2, TypeCorrect, RowWithGrantHolds, PTL DEF Spec

(* However many leases expire early and however many dead rows operators   *)
(* retry by hand, at most one process works under the fence of a row.      *)
THEOREM ClaimsAreExclusive == Spec => []OneHolderPerClaim
<1>1. ClaimsAreSound => OneHolderPerClaim
  <2> SUFFICES ASSUME ClaimsAreSound, NEW g \in Grants, outbox[g].status = "processing"
               PROVE  Cardinality({p \in Procs : HeldBy(p, g, outbox[g].attempts)}) <= 1
    BY DEF OneHolderPerClaim
  <2> DEFINE Holders == {p \in Procs : HeldBy(p, g, outbox[g].attempts)}
  <2>1. \A p, q \in Holders : p = q
    BY DEF ClaimsAreSound, ClaimsAreUnique
  <2>2. Holders = {} \/ \E p : Holders = {p}
    BY <2>1
  <2>3. Cardinality(Holders) \in {0, 1}
    <3> HIDE DEF Holders
    <3>1. Cardinality({}) = 0 /\ \A p : Cardinality({p}) = 1
      BY FS_EmptySet, FS_Singleton
    <3>2. QED
      BY <2>2, <3>1, Zenon
  <2>4. Cardinality(Holders) <= 1
    BY <2>3
  <2>5. QED
    BY <2>4
<1>2. QED
  BY <1>1, ClaimsAreAlwaysSound, PTL

-----------------------------------------------------------------------------
(* The settlement implements the lifecycle of RewardLifecycle: seen from   *)
(* outside, every grant is reserved, paid, settled, refunded and reversed  *)
(* in that order and at most once, whatever workers, operators, timeouts   *)
(* and faults do, and the books are those of the lifecycle.                *)
(*                                                                         *)
(* The theorem assumes that no source_ref is taken by a foreign benefit.   *)
(* For a foreign one it is false: the applied of a Query then books a      *)
(* reward that new-api has refused (RejectedNeverBooked).                  *)

(* Whoever works on a grant works on one that exists.                      *)

(* Work, requests on their way and benefits belong to created grants.      *)
WorkHasGrant ==
  /\ \A p \in Procs :
       /\ loc[p].pc # "idle" => grant[loc[p].g] # "none"
       /\ \A c \in loc[p].todo : grant[c.g] # "none"
  /\ \A g \in Grants :
       <<g, "grant">> \in inflight \/ benefit[g] = "applied" => grant[g] # "none"

NoForeign == \A g \in Grants : benefit[g] # "foreign"

(* A grant that was created stays.                                         *)
LEMMA GrantStays ==
  ASSUME TypeOK, [Next]_vars, NEW g \in Grants, grant[g] # "none"
  PROVE  grant'[g] # "none"
<1>1. CASE UNCHANGED <<grant, budget>>
  BY <1>1
<1>2. ASSUME NEW h \in Grants, MoneyMoves(h) PROVE grant'[g] # "none"
  BY <1>2 DEF MoneyMoves, Moves, TypeOK
<1>3. QED
  BY <1>1, <1>2, MoneyStep

(* The grants of one process's memory.                                     *)
Created(p) ==
  /\ loc[p].pc # "idle" => grant[loc[p].g] # "none"
  /\ \A c \in loc[p].todo : grant[c.g] # "none"

(* A batch of created grants.                                              *)
LEMMA StartCreated ==
  ASSUME TypeOK, [Next]_vars, NEW p \in Procs, NEW todo \in SUBSET Claim,
         \A c \in todo : grant[c.g] # "none",
         loc' = [loc EXCEPT ![p] = Start(p, todo)]
  PROVE  Created(p)'
<1>1. loc'[p] = Start(p, todo)
  BY DEF TypeOK, LocalsOK
<1>2. \A c \in todo : grant'[c.g] # "none"
  BY GrantStays DEF Claim
<1>3. CASE todo = {}
  BY <1>1, <1>3 DEF Start, Idle, Created
<1>4. CASE todo # {}
  <2>1. First(todo) \in todo
    BY <1>4, FirstIsMember
  <2>2. loc'[p].g = First(todo).g /\ loc'[p].todo = todo \ {First(todo)}
    BY <1>1, <1>4 DEF Start
  <2>3. QED
    BY <1>2, <2>1, <2>2 DEF Created
<1>5. QED
  BY <1>3, <1>4

(* Rows that are in use belong to created grants.                          *)
LEMMA BatchCreated ==
  ASSUME RowWithGrant, NEW S \in SUBSET Grants, NEW att \in [Grants -> Nat],
         \A g \in S : outbox[g].status # "none"
  PROVE  \A c \in {[g |-> g, att |-> att[g]] : g \in S} : grant[c.g] # "none"
<1> SUFFICES ASSUME NEW h \in S PROVE grant[h] # "none"
  OBVIOUS
<1>1. QED
  BY DEF RowWithGrant, NoRow

(* A process keeps to created grants.                                      *)
LEMMA CreatedStep ==
  ASSUME TypeOK, RowWithGrant, [Next]_vars, NEW p \in Procs, Created(p)
  PROVE  Created(p)'
<1>1. loc \in [Procs -> Local] /\ loc[p] \in Local /\ loc[p].todo \in SUBSET Claim
  BY DEF TypeOK, LocalsOK, Local
<1>2. loc[p].pc # "idle" => loc[p].g \in Grants
  BY DEF TypeOK, LocalsOK
<1>3. /\ loc[p].pc # "idle" => grant'[loc[p].g] # "none"
      /\ \A c \in loc[p].todo : grant'[c.g] # "none"
  BY <1>1, <1>2, GrantStays DEF Created, Claim
<1>4. CASE loc'[p] = loc[p]
  BY <1>3, <1>4 DEF Created
<1>5. CASE Step(p) \/ Disturb(p)
  <2>1. loc[p].pc # "idle"
    BY <1>5 DEF Step, Disturb, Load, LoadFails, GrantAnswered, GrantTimesOut, Query,
       QueryFails, Misrouted, ClaimDead, Complete, SaveConflict, SaveRetry,
       RollbackCheck, RollbackAnswered, RollbackTimesOut, RollbackCommit, AwardReversed,
       TransactionFails, Crash, At
  <2>2. ASSUME NEW pc \in Pc, Goto(p, pc) PROVE Created(p)'
    BY <1>1, <1>3, <2>1, <2>2 DEF Goto, Local, Created
  <2>3. CASE NextItem(p)
    BY <1>1, <2>3, StartCreated DEF NextItem, Created
  <2>4. CASE loc' = [loc EXCEPT ![p] = Idle]
    BY <1>1, <2>4 DEF Idle, Created
  <2>5. CASE Begin(p, "load", loc[p].g, loc[p].att + 1, {})
    BY <1>1, <1>3, <2>1, <2>5 DEF Begin, Created
  <2>6. QED
    BY <1>5, <2>2, <2>3, <2>4, <2>5, MemoryStep DEF MovesOn
<1>6. ASSUME NEW skipped \in SUBSET Grants, ClaimDue(p, skipped) PROVE Created(p)'
  <2> DEFINE S == FirstRows(BatchSize, {g \in Grants : Due(g)} \ skipped)
             fence == [g \in Grants |-> outbox[g].attempts + 1]
             claimed == {[g |-> g, att |-> outbox[g].attempts + 1] : g \in S}
  <2>1. /\ S \in SUBSET Grants /\ fence \in [Grants -> Nat]
        /\ claimed = {[g |-> g, att |-> fence[g]] : g \in S}
        /\ \A g \in S : outbox[g].status # "none"
    BY DEF FirstRows, Due, TypeOK, Row
  <2>2. claimed \in SUBSET Claim
    BY <2>1, BatchType
  <2>3. \A c \in claimed : grant[c.g] # "none"
    BY <2>1, BatchCreated
  <2>4. loc' = [loc EXCEPT ![p] = Start(p, claimed)]
    BY <1>6 DEF ClaimDue
  <2>5. QED
    <3> HIDE DEF claimed
    <3> QED
      BY <2>2, <2>3, <2>4, StartCreated
<1>7. CASE StartReconcile(p)
  <2> DEFINE S == FirstRows(BatchSize,
                    {g \in Grants : outbox[g].status \in {"processing", "retry", "dead"}})
             fence == [g \in Grants |-> outbox[g].attempts]
             listed == {[g |-> g, att |-> outbox[g].attempts] : g \in S}
  <2>1. /\ S \in SUBSET Grants /\ fence \in [Grants -> Nat]
        /\ listed = {[g |-> g, att |-> fence[g]] : g \in S}
        /\ \A g \in S : outbox[g].status # "none"
    BY DEF FirstRows, TypeOK, Row
  <2>2. listed \in SUBSET Claim
    BY <2>1, BatchType
  <2>3. \A c \in listed : grant[c.g] # "none"
    BY <2>1, BatchCreated
  <2>4. loc' = [loc EXCEPT ![p] = Start(p, listed)]
    BY <1>7 DEF StartReconcile
  <2>5. QED
    <3> HIDE DEF listed
    <3> QED
      BY <2>2, <2>3, <2>4, StartCreated
<1>8. ASSUME NEW g \in Grants, StartRetryDead(p, g) \/ StartReversal(p, g)
      PROVE  Created(p)'
  BY <1>1, <1>8 DEF StartRetryDead, StartReversal, Begin, Created, tables
<1>9. QED
  BY <1>4, <1>5, <1>6, <1>7, <1>8, OneProcessMoves

-----------------------------------------------------------------------------
(* The steps of new-api.                                                   *)

(* A step leaves new-api alone, or it grants or rolls back one benefit and *)
(* leaves grants and books alone.                                          *)
BenefitMoves(g) ==
  /\ grant[g] # "none"
  /\ UNCHANGED <<grant, budget>>
  /\ \/ benefit' = [benefit EXCEPT ![g] = Granted(benefit[g])]
     \/ /\ grant[g] \in {"settled", "reversed"}
        /\ benefit' = [benefit EXCEPT ![g] = RolledBack(benefit[g])]

(* Every step treats new-api in one of these ways.                         *)
LEMMA BenefitStep ==
  ASSUME TypeOK, KnowledgeHolds, WorkHasGrant, [Next]_vars
  PROVE  UNCHANGED benefit \/ \E g \in Grants : BenefitMoves(g)
<1>1. ASSUME NEW p \in Procs, Step(p) \/ Disturb(p)
      PROVE  UNCHANGED benefit \/ \E g \in Grants : BenefitMoves(g)
  <2>1. CASE GrantAnswered(p)
    <3>1. /\ loc[p].g \in Grants /\ grant[loc[p].g] # "none"
          /\ UNCHANGED <<grant, budget>>
          /\ benefit' = [benefit EXCEPT ![loc[p].g] = Granted(benefit[loc[p].g])]
      BY <2>1 DEF GrantAnswered, At, TypeOK, LocalsOK, WorkHasGrant, tables
    <3>2. QED
      BY <3>1 DEF BenefitMoves
  <2>2. CASE RollbackAnswered(p)
    <3>1. /\ loc[p].g \in Grants /\ grant[loc[p].g] \in {"settled", "reversed"}
          /\ UNCHANGED <<grant, budget>>
          /\ benefit' = [benefit EXCEPT ![loc[p].g] = RolledBack(benefit[loc[p].g])]
      BY <2>2 DEF RollbackAnswered, At, TypeOK, LocalsOK, KnowledgeHolds, tables
    <3>2. QED
      BY <3>1 DEF BenefitMoves
  <2>3. QED
    BY <1>1, <2>1, <2>2, ProcessStep
<1>2. ASSUME NEW g \in Grants, Remote(g) PROVE BenefitMoves(g)
  BY <1>2 DEF Remote, LateGrant, LateRollback, WorkHasGrant, KnowledgeHolds, BenefitMoves,
     tables
<1>3. ASSUME NEW g \in Grants, NEW status, CreateReward(g, status) PROVE UNCHANGED benefit
  BY <1>3 DEF CreateReward, remote
<1>4. ASSUME NEW p \in Procs, NEW skipped, ClaimDue(p, skipped) \/ StartReconcile(p)
      PROVE  UNCHANGED benefit
  BY <1>4 DEF ClaimDue, StartReconcile, remote
<1>5. ASSUME NEW p \in Procs, NEW g \in Grants, StartRetryDead(p, g) \/ StartReversal(p, g)
      PROVE  UNCHANGED benefit
  BY <1>5 DEF StartRetryDead, StartReversal, remote
<1>6. ASSUME NEW g \in Grants, Clock(g) PROVE UNCHANGED benefit
  BY <1>6 DEF Clock, LeaseExpires, BackoffEnds, remote
<1>7. CASE UNCHANGED vars
  BY <1>7 DEF vars
<1>8. QED
  BY <1>1, <1>2, <1>3, <1>4, <1>5, <1>6, <1>7 DEF Next, Procs

(* Work on grants that exist creates only requests and benefits of grants  *)
(* that exist.                                                             *)
LEMMA WorkStep ==
  ASSUME TypeOK, RowWithGrant, KnowledgeHolds, WorkHasGrant, [Next]_vars
  PROVE  WorkHasGrant'
<1>1. \A p \in Procs : Created(p)'
  BY CreatedStep DEF WorkHasGrant, Created
<1>2. ASSUME NEW g \in Grants, <<g, "grant">> \in inflight', <<g, "grant">> \notin inflight
      PROVE  grant[g] # "none"
  <2>1. ASSUME NEW p \in Procs, Step(p) \/ Disturb(p), inflight' # inflight
        PROVE  loc[p].pc # "idle" /\ inflight' \subseteq
                 inflight \cup {<<loc[p].g, "grant">>, <<loc[p].g, "rollback">>}
    BY <2>1 DEF Step, Disturb, Load, LoadFails, GrantAnswered, GrantTimesOut, Query,
       QueryFails, Misrouted, ClaimDead, Complete, SaveConflict, SaveRetry,
       RollbackCheck, RollbackAnswered, RollbackTimesOut, RollbackCommit, AwardReversed,
       TransactionFails, Crash, At, remote
  <2>2. CASE \E p \in Procs : Step(p) \/ Disturb(p)
    BY <1>2, <2>1, <2>2 DEF WorkHasGrant
  <2>3. CASE \A p \in Procs : ~ (Step(p) \/ Disturb(p))
    <3>1. inflight' \subseteq inflight
      BY <2>3 DEF Next, vars, CreateReward, ClaimDue, StartReconcile, StartRetryDead,
         StartReversal, Remote, LateGrant, LateRollback, Clock, LeaseExpires, BackoffEnds,
         remote
    <3>2. QED
      BY <1>2, <3>1
  <2>4. QED
    BY <2>2, <2>3
<1>3. ASSUME NEW g \in Grants, benefit'[g] = "applied" PROVE grant[g] # "none"
  <2>1. CASE UNCHANGED benefit
    BY <1>3, <2>1 DEF WorkHasGrant
  <2>2. ASSUME NEW h \in Grants, BenefitMoves(h) PROVE grant[g] # "none"
    BY <1>3, <2>2 DEF BenefitMoves, WorkHasGrant, TypeOK
  <2>3. QED
    BY <2>1, <2>2, BenefitStep
<1>4. \A g \in Grants :
        <<g, "grant">> \in inflight' \/ benefit'[g] = "applied" => grant[g] # "none"
  BY <1>2, <1>3 DEF WorkHasGrant
<1>5. \A g \in Grants :
        <<g, "grant">> \in inflight' \/ benefit'[g] = "applied" => grant'[g] # "none"
  BY <1>4, GrantStays
<1>6. QED
  BY <1>1, <1>5 DEF WorkHasGrant, Created

(* Nobody ever works on a reward that does not exist.                      *)
LEMMA WorkAlwaysHasGrant == Spec => []WorkHasGrant
<1>1. Init => WorkHasGrant
  BY DEF Init, WorkHasGrant, Idle
<1>2. TypeOK /\ RowWithGrant /\ KnowledgeHolds /\ WorkHasGrant /\ [Next]_vars => WorkHasGrant'
  BY WorkStep
<1>3. QED
  BY <1>1, <1>2, TypeCorrect, RowWithGrantHolds, KnowledgeIsSafe, PTL DEF Spec

(* Without a foreign benefit none ever comes into being.                   *)
LEMMA NoForeignHolds ==
  ASSUME Foreign = {}
  PROVE  Spec => []NoForeign
<1>1. Init => NoForeign
  BY DEF Init, NoForeign
<1>2. TypeOK /\ KnowledgeHolds /\ WorkHasGrant /\ NoForeign /\ [Next]_vars => NoForeign'
  <2> SUFFICES ASSUME TypeOK, KnowledgeHolds, WorkHasGrant, NoForeign, [Next]_vars,
                      NEW g \in Grants
               PROVE  benefit'[g] # "foreign"
    BY DEF NoForeign
  <2>1. CASE UNCHANGED benefit
    BY <2>1 DEF NoForeign
  <2>2. ASSUME NEW h \in Grants, BenefitMoves(h) PROVE benefit'[g] # "foreign"
    BY <2>2 DEF BenefitMoves, NoForeign, Granted, RolledBack, TypeOK
  <2>3. QED
    BY <2>1, <2>2, BenefitStep
<1>3. QED
  BY <1>1, <1>2, TypeCorrect, KnowledgeIsSafe, WorkAlwaysHasGrant, PTL DEF Spec

-----------------------------------------------------------------------------
(* The refinement.                                                         *)

(* What the mapping relies on.                                             *)
RefinementInv ==
  /\ TypeOK
  /\ BudgetConservation
  /\ KnowledgeHolds
  /\ BooksFollowBenefit
  /\ WorkHasGrant
  /\ NoForeign

Phase == [g \in Grants |-> PhaseOf(g)]

(* When only one grant moves, the phase function changes in one place.     *)
LEMMA PhaseMoves ==
  ASSUME NEW g \in Grants, NEW from, NEW to, PhaseOf(g) = from, PhaseOf(g)' = to,
         \A h \in Grants : h # g => grant'[h] = grant[h] /\ benefit'[h] = benefit[h]
  PROVE  Lifecycle!Enter(g, from, to)
<1>1. \A h \in Grants : h # g => PhaseOf(h)' = PhaseOf(h)
  BY DEF PhaseOf
<1>2. QED
  BY <1>1 DEF Lifecycle!Enter

(* The exposure of the lifecycle is what the rows hold as reserved and     *)
(* settled.                                                                *)
LEMMA ExposureIsCharged ==
  ASSUME TypeOK, BudgetConservation, NEW b \in Budgets
  PROVE  Lifecycle!Total(Lifecycle!Exposed(b)) = budget[b].reserved + budget[b].settled
<1> DEFINE pending == Charged(grant, b, "pending")
           settled == Charged(grant, b, "settled")
<1>1. Lifecycle!Exposed(b) = pending \cup settled
  <2>1. \A g \in Grants :
          PhaseOf(g) \in {"reserved", "paid", "settled", "refunded"}
            <=> grant[g] \in {"pending", "settled"}
    BY DEF PhaseOf, TypeOK, GrantStatus
  <2>2. QED
    BY <2>1 DEF Lifecycle!Exposed, Charged
<1>2. Lifecycle!Total(Lifecycle!Exposed(b)) = Total(Lifecycle!Exposed(b))
  BY DEF Lifecycle!Total, Lifecycle!Units, Lifecycle!UnitsOf, Lifecycle!Cardinality,
     Total, Units, UnitsOf, Cardinality
<1>3. Total(pending \cup settled) = Total(pending) + Total(settled)
  <2>1. pending \in SUBSET Grants /\ settled \in SUBSET Grants /\ pending \cap settled = {}
    BY DEF Charged
  <2>2. QED
    <3> HIDE DEF pending, settled
    <3> QED
      BY <2>1, TotalDisjoint
<1>4. QED
  BY <1>1, <1>2, <1>3 DEF BudgetConservation

(* A move of money is a reservation, a settlement or a reversal.           *)
LEMMA MoneyRefines ==
  ASSUME RefinementInv, BooksFollowBenefit', NEW g \in Grants, MoneyMoves(g),
         UNCHANGED benefit
  PROVE  Lifecycle!LifecycleNext
<1> USE DEF RefinementInv
<1> DEFINE b == BudgetOf[g]
<1>1. /\ b \in Budgets /\ Amount[g] \in Nat /\ HardCap[b] \in Nat
      /\ budget[b] \in BudgetRow /\ grant \in [Grants -> GrantStatus]
      /\ benefit[g] \in BenefitStatus
  BY AmountsAssumption DEF TypeOK
<1>2. ASSUME NEW from, NEW to, NEW STATE row, Moves(g, from, to, row)
      PROVE  /\ grant[g] = from /\ grant'[g] = to /\ budget' = [budget EXCEPT ![b] = row]
             /\ \A h \in Grants : h # g => grant'[h] = grant[h] /\ benefit'[h] = benefit[h]
  BY <1>1, <1>2 DEF Moves
<1>3. CASE /\ Moves(g, "none", "pending", Reserve(budget[b], Amount[g]))
           /\ CanReserve(budget[b], HardCap[b], Amount[g])
  <2>1. benefit[g] = "not_found"
    BY <1>1, <1>2, <1>3 DEF WorkHasGrant, NoForeign, BooksFollowBenefit, BenefitStatus
  <2>2. PhaseOf(g) = "none" /\ PhaseOf(g)' = "reserved"
    BY <1>2, <1>3, <2>1 DEF PhaseOf
  <2>3. Lifecycle!Enter(g, "none", "reserved")
    BY <1>2, <1>3, <2>2, PhaseMoves
  <2>4. Lifecycle!Total(Lifecycle!Exposed(b)) + Amount[g] <= HardCap[b]
    BY <1>1, <1>3, ExposureIsCharged DEF CanReserve, BudgetRow
  <2>5. Lifecycle!Book(g, Lifecycle!Reserve(budget[b], Amount[g]))
    BY <1>2, <1>3 DEF Lifecycle!Book, Lifecycle!Reserve, Reserve
  <2>6. QED
    BY <2>3, <2>4, <2>5 DEF Lifecycle!ReserveReward, Lifecycle!LifecycleNext
<1>4. CASE Moves(g, "pending", "settled", Settle(budget[b], Amount[g]))
  <2>1. grant[g] = "pending" /\ grant'[g] = "settled"
    BY <1>2, <1>4
  <2>2. benefit[g] = "applied"
    BY <1>1, <2>1 DEF NoForeign, BooksFollowBenefit, BenefitStatus
  <2>3. PhaseOf(g) = "paid" /\ PhaseOf(g)' = "settled"
    BY <2>1, <2>2 DEF PhaseOf
  <2>4. Lifecycle!Enter(g, "paid", "settled")
    BY <1>2, <1>4, <2>3, PhaseMoves
  <2>5. Lifecycle!Book(g, Lifecycle!Settle(budget[b], Amount[g]))
    BY <1>2, <1>4 DEF Lifecycle!Book, Lifecycle!Settle, Settle
  <2>6. QED
    BY <2>4, <2>5 DEF Lifecycle!SettleReward, Lifecycle!LifecycleNext
<1>5. CASE Moves(g, "settled", "reversed", Release(budget[b], Amount[g]))
  <2>1. grant[g] = "settled" /\ grant'[g] = "reversed"
    BY <1>2, <1>5
  <2>2. benefit[g] = "rolled_back"
    BY <1>1, <2>1 DEF BooksFollowBenefit
  <2>3. PhaseOf(g) = "refunded" /\ PhaseOf(g)' = "reversed"
    BY <2>1, <2>2 DEF PhaseOf
  <2>4. Lifecycle!Enter(g, "refunded", "reversed")
    BY <1>2, <1>5, <2>3, PhaseMoves
  <2>5. Lifecycle!Book(g, Lifecycle!Release(budget[b], Amount[g]))
    BY <1>2, <1>5 DEF Lifecycle!Book, Lifecycle!Release, Release
  <2>6. QED
    BY <2>4, <2>5 DEF Lifecycle!ReverseReward, Lifecycle!LifecycleNext
<1>6. QED
  BY <1>3, <1>4, <1>5 DEF MoneyMoves

(* A move at new-api pays a reserved reward, refunds a settled one, or     *)
(* repeats what was done.                                                  *)
LEMMA BenefitRefines ==
  ASSUME RefinementInv, NEW g \in Grants, BenefitMoves(g)
  PROVE  Lifecycle!LifecycleNext \/ UNCHANGED <<grant, budget, benefit>>
<1> USE DEF RefinementInv
<1>1. /\ benefit \in [Grants -> BenefitStatus] /\ grant \in [Grants -> GrantStatus]
      /\ grant' = grant /\ budget' = budget /\ grant[g] # "none"
  BY DEF TypeOK, BenefitMoves
<1>2. /\ grant[g] = "settled" => benefit[g] # "not_found"
      /\ grant[g] = "reversed" => benefit[g] = "rolled_back"
  BY DEF BooksFollowBenefit
<1>3. CASE benefit' = [benefit EXCEPT ![g] = Granted(benefit[g])]
  <2>1. CASE benefit[g] # "not_found"
    BY <1>1, <1>3, <2>1 DEF Granted
  <2>2. CASE benefit[g] = "not_found"
    <3>1. grant[g] = "pending" /\ benefit'[g] = "applied"
      BY <1>1, <1>2, <1>3, <2>2 DEF Granted, GrantStatus
    <3>2. PhaseOf(g) = "reserved" /\ PhaseOf(g)' = "paid"
      BY <1>1, <2>2, <3>1 DEF PhaseOf
    <3>3. Lifecycle!Enter(g, "reserved", "paid")
      BY <1>1, <1>3, <3>2, PhaseMoves
    <3>4. QED
      BY <1>1, <3>3 DEF Lifecycle!PayReward, Lifecycle!LifecycleNext
  <2>3. QED
    BY <2>1, <2>2
<1>4. CASE /\ grant[g] \in {"settled", "reversed"}
           /\ benefit' = [benefit EXCEPT ![g] = RolledBack(benefit[g])]
  <2>1. CASE benefit[g] = "rolled_back"
    BY <1>1, <1>4, <2>1 DEF RolledBack
  <2>2. CASE benefit[g] # "rolled_back"
    <3>1. /\ grant[g] = "settled" /\ benefit[g] # "not_found"
          /\ benefit'[g] = "rolled_back"
      BY <1>1, <1>2, <1>4, <2>2 DEF RolledBack
    <3>2. PhaseOf(g) = "settled" /\ PhaseOf(g)' = "refunded"
      BY <1>1, <2>2, <3>1 DEF PhaseOf
    <3>3. Lifecycle!Enter(g, "settled", "refunded")
      BY <1>1, <1>4, <3>2, PhaseMoves
    <3>4. QED
      BY <1>1, <3>3 DEF Lifecycle!RefundReward, Lifecycle!LifecycleNext
  <2>3. QED
    BY <2>1, <2>2
<1>5. QED
  BY <1>3, <1>4 DEF BenefitMoves

(* Every step of the settlement is a step of the lifecycle or none.        *)
LEMMA StepRefines ==
  ASSUME RefinementInv, BooksFollowBenefit', [Next]_vars
  PROVE  [Lifecycle!LifecycleNext]_(Lifecycle!lifecycleVars)
<1>1. CASE UNCHANGED <<grant, budget, benefit>>
  BY <1>1 DEF Lifecycle!lifecycleVars, PhaseOf
<1>2. CASE UNCHANGED benefit
  BY <1>1, <1>2, MoneyStep, MoneyRefines DEF RefinementInv
<1>3. ASSUME NEW g \in Grants, BenefitMoves(g)
      PROVE  [Lifecycle!LifecycleNext]_(Lifecycle!lifecycleVars)
  BY <1>1, <1>3, BenefitRefines
<1>4. QED
  BY <1>2, <1>3, BenefitStep DEF RefinementInv

(* Every behaviour of the settlement is, grant by grant, one pass through  *)
(* reserve, pay, settle, refund, reverse, with the books of the lifecycle  *)
(* and under its hard cap, as long as no source_ref is taken by a foreign  *)
(* benefit.                                                                *)
THEOREM SettlementImplementsLifecycle ==
  ASSUME Foreign = {}
  PROVE  Spec => ImplementsLifecycle
<1>1. Init => Lifecycle!LifecycleInit
  BY DEF Init, Lifecycle!LifecycleInit, PhaseOf, EmptyBudget, Lifecycle!EmptyBudget
<1>2. RefinementInv /\ BooksFollowBenefit' /\ [Next]_vars
        => [Lifecycle!LifecycleNext]_(Lifecycle!lifecycleVars)
  BY StepRefines
<1>3. Spec => []RefinementInv
  BY TypeCorrect, ConservationHolds, KnowledgeIsSafe, BooksAlwaysFollowBenefit,
     WorkAlwaysHasGrant, NoForeignHolds, PTL DEF RefinementInv
<1>4. QED
  BY <1>1, <1>2, <1>3, BooksAlwaysFollowBenefit, PTL
     DEF Spec, ImplementsLifecycle, Lifecycle!LifecycleSpec
=============================================================================
