----------------------------- MODULE Settlement -----------------------------
(***************************************************************************)
(* Settlement of reward grants: the transactional outbox between Pulse and *)
(* the Benefit API of new-api.                                             *)
(*                                                                         *)
(* A draw or a content review commits, in one MySQL transaction, a pending *)
(* grant, a reservation in its budget and an outbox row.  The settlement   *)
(* loop of every worker replica claims due rows under a lease, calls       *)
(* new-api, and books the outcome.  Beside it run the reconciliation loop, *)
(* the operator command that retries a dead row, and the reversal of a     *)
(* content award.  A MySQL transaction is one step; a call to new-api is   *)
(* a step of its own, between the transactions, and everything else may    *)
(* happen before and after it.                                             *)
(*                                                                         *)
(* Time is abstracted: a lease may run out and a backoff may end at any    *)
(* moment.  A lease that runs out under a working holder, a crash, a       *)
(* failed transaction and a misrouted reply are faults, bounded by         *)
(* MaxFaults.                                                              *)
(***************************************************************************)
EXTENDS RewardAmounts

CONSTANTS
  ContentGrants,   (* the grants that belong to a content award            *)
  Foreign,         (* grants whose source_ref already carries a benefit    *)
                   (* with a different payload fingerprint at new-api      *)
  Settlers,        (* settlement loops, one per worker replica             *)
  Reconcilers,     (* reconciliation loops                                 *)
  Operators,       (* reward-retry commands and content reversals          *)
  BatchSize,       (* rows per claim and per reconciliation listing        *)
  MaxAttempts,     (* attempts after which a row is parked as dead         *)
  AttemptCeiling,  (* the largest attempts value, 2^32 - 1 in MySQL        *)
  FaultKinds,      (* the kinds of fault a behaviour may contain, among    *)
                   (* "lease", "load", "misroute", "transaction", "crash"  *)
  MaxFaults        (* bound on the number of faults in a behaviour         *)

Procs == Settlers \cup Reconcilers \cup Operators

ASSUME SettlementAssumption ==
  /\ ContentGrants \subseteq Grants
  /\ Foreign \subseteq Grants
  /\ Settlers \cap Reconcilers = {}
  /\ Operators \cap (Settlers \cup Reconcilers) = {}
  /\ BatchSize \in Nat \ {0}
  /\ MaxAttempts \in Nat \ {0}
  /\ AttemptCeiling \in Nat
  /\ MaxFaults \in Nat

VARIABLES
  grant,     (* pulse_reward_grant.status                                  *)
  outbox,    (* pulse_settlement_outbox, one row per grant                 *)
  budget,    (* pulse_reward_budget                                        *)
  award,     (* pulse_content_award.status                                 *)
  benefit,   (* the state of a source_ref at new-api                       *)
  inflight,  (* requests that timed out and may still reach new-api        *)
  rejected,  (* history: grants whose Grant call was answered with 409     *)
  loc,       (* what every process holds in memory                         *)
  faults     (* number of faults so far                                    *)

tables == <<grant, outbox, budget, award>>
remote == <<benefit, inflight>>
vars   == <<grant, outbox, budget, award, benefit, inflight, rejected, loc, faults>>

GrantStatus   == {"none", "pending", "settled", "reversed"}
AwardStatus   == {"none", "pending", "settled", "reversed"}
OutboxStatus  == {"none", "pending", "shadow", "processing", "retry",
                  "completed", "dead", "conflict"}
BenefitStatus == {"not_found", "applied", "foreign", "rolled_back"}

NoGrant == 0
Claim   == [g : Grants, att : Nat]
Row     == [status : OutboxStatus, attempts : Nat, leased : BOOLEAN, due : BOOLEAN]
Pc      == {"idle", "load", "grant", "query", "complete", "conflict", "retry",
            "recover_load", "recover_query", "recover_claim", "reconcile_query",
            "rollback_check", "rollback_call", "rollback_commit", "award"}
Local   == [pc : Pc, g : Grants \cup {NoGrant}, att : Nat, todo : SUBSET Claim]

LocalsOK ==
  /\ loc \in [Procs -> Local]
  /\ \A p \in Procs : loc[p].pc # "idle" => loc[p].g \in Grants

(* Every variable holds values of its table, message or process type, and a*)
(* process that works has a grant to work on.                              *)
TypeOK ==
  /\ grant \in [Grants -> GrantStatus]
  /\ outbox \in [Grants -> Row]
  /\ budget \in [Budgets -> BudgetRow]
  /\ award \in [Grants -> AwardStatus]
  /\ benefit \in [Grants -> BenefitStatus]
  /\ inflight \subseteq Grants \X {"grant", "rollback"}
  /\ rejected \subseteq Grants
  /\ LocalsOK
  /\ faults \in Nat

NoRow == [status |-> "none", attempts |-> 0, leased |-> FALSE, due |-> FALSE]
Idle  == [pc |-> "idle", g |-> NoGrant, att |-> 0, todo |-> {}]

Init ==
  /\ grant = [g \in Grants |-> "none"]
  /\ outbox = [g \in Grants |-> NoRow]
  /\ budget = [b \in Budgets |-> EmptyBudget]
  /\ award = [g \in Grants |-> "none"]
  /\ benefit = [g \in Grants |-> IF g \in Foreign THEN "foreign" ELSE "not_found"]
  /\ inflight = {}
  /\ rejected = {}
  /\ loc = [p \in Procs |-> Idle]
  /\ faults = 0

-----------------------------------------------------------------------------
(* Local control of a process.                                             *)

At(p, pc) == loc[p].pc = pc
Goto(p, pc) == loc' = [loc EXCEPT ![p].pc = pc]
Begin(p, pc, g, att, todo) ==
  loc' = [loc EXCEPT ![p] = [pc |-> pc, g |-> g, att |-> att, todo |-> todo]]

(* The item a batch or a listing continues with: rows are ordered by id.   *)
First(todo) == CHOOSE c \in todo : \A d \in todo : c.g <= d.g

Start(p, todo) ==
  IF todo = {}
  THEN Idle
  ELSE [pc   |-> IF p \in Reconcilers THEN "reconcile_query" ELSE "load",
        g    |-> First(todo).g,
        att  |-> First(todo).att,
        todo |-> todo \ {First(todo)}]

(* The loop over a batch or a listing: errors of one item do not stop it.  *)
NextItem(p) == loc' = [loc EXCEPT ![p] = Start(p, loc[p].todo)]

Fault(kind) ==
  /\ kind \in FaultKinds
  /\ faults < MaxFaults
  /\ faults' = faults + 1
NoFault == UNCHANGED faults

(* The lowest n ids of a set of rows: ORDER BY id ASC LIMIT n.             *)
FirstRows(n, S) == {g \in S : Cardinality({h \in S : h < g}) < n}

-----------------------------------------------------------------------------
(* Creation of a reward: the part of a draw or of a content review that    *)
(* touches grant, budget, outbox and award.                                *)

CreateReward(g, status) ==
  LET b == BudgetOf[g] IN
  /\ grant[g] = "none"
  /\ CanReserve(budget[b], HardCap[b], Amount[g])
  /\ budget' = [budget EXCEPT ![b] = Reserve(@, Amount[g])]
  /\ grant' = [grant EXCEPT ![g] = "pending"]
  /\ outbox' = [outbox EXCEPT ![g] =
                  [status |-> status, attempts |-> 0, leased |-> FALSE, due |-> TRUE]]
  /\ award' = IF g \in ContentGrants THEN [award EXCEPT ![g] = "pending"] ELSE award
  /\ UNCHANGED <<remote, rejected, loc, faults>>

-----------------------------------------------------------------------------
(* Claims.  A claim adds one to the attempts of the row; that number is    *)
(* the fence by which a later write recognises that it is out of date.     *)

Due(g) ==
  /\ outbox[g].status \in {"pending", "retry", "processing"}
  /\ outbox[g].due
  /\ ~outbox[g].leased

Leased(row) == [row EXCEPT !.status = "processing", !.attempts = @ + 1, !.leased = TRUE]

(* SKIP LOCKED leaves out the rows that other transactions hold.  A row at *)
(* the attempts ceiling makes the whole claim fail.                        *)
ClaimDue(p, skipped) ==
  LET S == FirstRows(BatchSize, {g \in Grants : Due(g)} \ skipped)
      claimed == {[g |-> g, att |-> outbox[g].attempts + 1] : g \in S}
  IN
  /\ At(p, "idle")
  /\ S # {}
  /\ \A g \in S : outbox[g].attempts < AttemptCeiling
  /\ outbox' = [g \in Grants |-> IF g \in S THEN Leased(outbox[g]) ELSE outbox[g]]
  /\ loc' = [loc EXCEPT ![p] = Start(p, claimed)]
  /\ UNCHANGED <<grant, budget, award, remote, rejected, faults>>

(* RetryDead reads grant and outbox first, queries new-api, and only then  *)
(* claims the dead row, if it is still the row that was read.              *)
StartRetryDead(p, g) ==
  /\ At(p, "idle")
  /\ grant[g] = "pending" /\ outbox[g].status = "dead"
  /\ Begin(p, "recover_load", g, outbox[g].attempts, {})
  /\ UNCHANGED <<tables, remote, rejected, faults>>

(* Mutant: the claim is an update by id alone.                             *)
ClaimDeadUnfenced(p) ==
  /\ At(p, "recover_claim")
  /\ loc[p].att < AttemptCeiling
  /\ outbox' = [outbox EXCEPT ![loc[p].g] =
                  [Leased(@) EXCEPT !.attempts = loc[p].att + 1]]
  /\ Begin(p, "load", loc[p].g, loc[p].att + 1, {})
  /\ UNCHANGED <<grant, budget, award, remote, rejected, faults>>

ClaimDead(p) ==
  LET g == loc[p].g
      fenced == outbox[g].status = "dead" /\ outbox[g].attempts = loc[p].att
  IN
  /\ At(p, "recover_claim")
  /\ IF fenced /\ loc[p].att < AttemptCeiling
     THEN /\ outbox' = [outbox EXCEPT ![g] = Leased(@)]
          /\ Begin(p, "load", g, loc[p].att + 1, {})
     ELSE /\ NextItem(p)
          /\ UNCHANGED outbox
  /\ UNCHANGED <<grant, budget, award, remote, rejected, faults>>

(* The row of g is in the hands of a process that will still write it.     *)
HeldBy(p, g, att) ==
  \/ /\ loc[p].pc \in {"load", "grant", "query", "complete", "conflict", "retry"}
     /\ p \notin Reconcilers
     /\ loc[p].g = g /\ loc[p].att = att
  \/ p \notin Reconcilers /\ [g |-> g, att |-> att] \in loc[p].todo

LeaseExpires(g) ==
  /\ outbox[g].leased
  /\ outbox' = [outbox EXCEPT ![g].leased = FALSE]
  /\ IF \E p \in Procs : HeldBy(p, g, outbox[g].attempts) THEN Fault("lease") ELSE NoFault
  /\ UNCHANGED <<grant, budget, award, remote, rejected, loc>>

BackoffEnds(g) ==
  /\ outbox[g].status = "retry" /\ ~outbox[g].due
  /\ outbox' = [outbox EXCEPT ![g].due = TRUE]
  /\ UNCHANGED <<grant, budget, award, remote, rejected, loc, faults>>

(* Mutant: dead rows are taken for final.                                  *)
StartReconcileOpenOnly(p) ==
  LET S == FirstRows(BatchSize, {g \in Grants : outbox[g].status \in {"processing", "retry"}})
  IN
  /\ At(p, "idle")
  /\ S # {}
  /\ loc' = [loc EXCEPT ![p] = Start(p, {[g |-> g, att |-> outbox[g].attempts] : g \in S})]
  /\ UNCHANGED <<tables, remote, rejected, faults>>

(* The listing of a reconciliation is a plain read without a cursor.       *)
StartReconcile(p) ==
  LET open == {g \in Grants : outbox[g].status \in {"processing", "retry", "dead"}}
      S    == FirstRows(BatchSize, open)
  IN
  /\ At(p, "idle")
  /\ S # {}
  /\ loc' = [loc EXCEPT ![p] = Start(p, {[g |-> g, att |-> outbox[g].attempts] : g \in S})]
  /\ UNCHANGED <<tables, remote, rejected, faults>>

-----------------------------------------------------------------------------
(* The calls to new-api.  Grant, Query and Rollback are idempotent by      *)
(* source_ref; a call that times out may still arrive later.               *)

(* loadSettlement: the grant must still be pending.  Any error, a failed   *)
(* read included, is handed to failPayload.                                *)
Load(p) ==
  /\ loc[p].pc \in {"load", "recover_load"}
  /\ IF grant[loc[p].g] = "pending"
     THEN Goto(p, IF At(p, "load") THEN "grant" ELSE "recover_query")
     ELSE Goto(p, "conflict")
  /\ UNCHANGED <<tables, remote, rejected, faults>>

LoadFails(p) ==
  /\ loc[p].pc \in {"load", "recover_load"}
  /\ Fault("load")
  /\ Goto(p, "conflict")
  /\ UNCHANGED <<tables, remote, rejected>>

Granted(state) == IF state = "not_found" THEN "applied" ELSE state

(* The reply decides the next step: applied is booked, rolled back and 409 *)
(* are terminal conflicts.                                                 *)
GrantAnswered(p) ==
  LET g == loc[p].g IN
  /\ At(p, "grant")
  /\ benefit' = [benefit EXCEPT ![g] = Granted(@)]
  /\ Goto(p, IF benefit'[g] = "applied" THEN "complete" ELSE "conflict")
  /\ rejected' = IF benefit[g] = "foreign" THEN rejected \cup {g} ELSE rejected
  /\ UNCHANGED <<tables, inflight, faults>>

(* No reply: the request is lost, or it arrives (LateGrant) at any later   *)
(* time, possibly at once.                                                 *)
GrantTimesOut(p) ==
  /\ At(p, "grant")
  /\ inflight' = inflight \cup {<<loc[p].g, "grant">>}
  /\ Goto(p, "query")
  /\ UNCHANGED <<tables, benefit, rejected, faults>>

LateGrant(g) ==
  /\ <<g, "grant">> \in inflight
  /\ inflight' = inflight \ {<<g, "grant">>}
  /\ benefit' = [benefit EXCEPT ![g] = Granted(@)]
  /\ UNCHANGED <<tables, rejected, loc, faults>>

(* Mutant: a settlement loop that finds nothing assumes the best.          *)
AfterQueryOptimistic(p, state) ==
  CASE state \in {"applied", "foreign"} \/ At(p, "query") -> Goto(p, "complete")
    [] state = "rolled_back" /\ ~At(p, "query") -> Goto(p, "conflict")
    [] state = "not_found" /\ At(p, "recover_query")   -> Goto(p, "recover_claim")
    [] state = "not_found" /\ At(p, "reconcile_query") -> NextItem(p)

(* The reply to a Query is the lifecycle state only, never the payload: a  *)
(* foreign benefit looks applied.                                          *)
AfterQuery(p, state) ==
  CASE state \in {"applied", "foreign"} -> Goto(p, "complete")
    [] state = "rolled_back"            -> Goto(p, "conflict")
    [] state = "not_found"              ->
         CASE At(p, "query")           -> Goto(p, "retry")
           [] At(p, "recover_query")   -> Goto(p, "recover_claim")
           [] At(p, "reconcile_query") -> NextItem(p)

Query(p) ==
  /\ loc[p].pc \in {"query", "recover_query", "reconcile_query"}
  /\ AfterQuery(p, benefit[loc[p].g])
  /\ UNCHANGED <<tables, remote, rejected, faults>>

QueryFails(p) ==
  /\ \/ At(p, "query") /\ Goto(p, "retry")
     \/ loc[p].pc \in {"recover_query", "reconcile_query"} /\ NextItem(p)
  /\ UNCHANGED <<tables, remote, rejected, faults>>

(* A reply for another source_ref is an integrity conflict; the request    *)
(* may have been carried out.                                              *)
Misrouted(p) ==
  /\ loc[p].pc \in {"grant", "query", "recover_query", "reconcile_query"}
  /\ Fault("misroute")
  /\ Goto(p, "conflict")
  /\ inflight' = IF At(p, "grant") THEN inflight \cup {<<loc[p].g, "grant">>}
                                   ELSE inflight
  /\ UNCHANGED <<tables, benefit, rejected>>

-----------------------------------------------------------------------------
(* The local transactions that book an outcome.                            *)

(* Mutant: the fence compares the attempts only.                           *)
FencedByAttempts(p) == outbox[loc[p].g].attempts = loc[p].att

(* SaveOutbox writes only the row the process knows: same attempts, and    *)
(* not in a terminal state.                                                *)
Fenced(p) ==
  /\ outbox[loc[p].g].attempts = loc[p].att
  /\ outbox[loc[p].g].status \in {"processing", "retry", "dead"}

SaveOutbox(p, status, due) ==
  outbox' = [outbox EXCEPT ![loc[p].g].status = status,
                           ![loc[p].g].leased = FALSE,
                           ![loc[p].g].due = due]

(* Mutants of Complete: the status of the grant is not read again under    *)
(* its lock; a missed fence does not undo the transaction; a budget that is*)
(* saved outside the transaction; a forgotten award.                       *)
CompleteWithoutRecheck(p) ==
  LET g == loc[p].g IN
  /\ At(p, "complete")
  /\ grant' = [grant EXCEPT ![g] = "settled"]
  /\ budget' = [budget EXCEPT ![BudgetOf[g]] = Settle(@, Amount[g])]
  /\ award' = IF award[g] = "pending" THEN [award EXCEPT ![g] = "settled"] ELSE award
  /\ IF Fenced(p) THEN SaveOutbox(p, "completed", outbox[g].due) ELSE UNCHANGED outbox
  /\ NextItem(p)
  /\ UNCHANGED <<remote, rejected, faults>>

CompleteWithoutUndo(p) ==
  LET g == loc[p].g IN
  /\ At(p, "complete")
  /\ IF grant[g] = "pending"
     THEN /\ grant' = [grant EXCEPT ![g] = "settled"]
          /\ budget' = [budget EXCEPT ![BudgetOf[g]] = Settle(@, Amount[g])]
          /\ award' = IF award[g] = "pending" THEN [award EXCEPT ![g] = "settled"] ELSE award
     ELSE UNCHANGED <<grant, budget, award>>
  /\ IF Fenced(p) THEN SaveOutbox(p, "completed", outbox[g].due) ELSE UNCHANGED outbox
  /\ NextItem(p)
  /\ UNCHANGED <<remote, rejected, faults>>

CompleteBudgetApart(p) ==
  LET g == loc[p].g IN
  /\ At(p, "complete")
  /\ budget' = IF grant[g] = "pending" /\ budget[BudgetOf[g]].reserved >= Amount[g]
               THEN [budget EXCEPT ![BudgetOf[g]] = Settle(@, Amount[g])] ELSE budget
  /\ IF grant[g] = "pending" /\ Fenced(p)
     THEN /\ grant' = [grant EXCEPT ![g] = "settled"]
          /\ award' = IF award[g] = "pending" THEN [award EXCEPT ![g] = "settled"] ELSE award
          /\ SaveOutbox(p, "completed", outbox[g].due)
     ELSE UNCHANGED <<grant, award, outbox>>
  /\ NextItem(p)
  /\ UNCHANGED <<remote, rejected, faults>>

CompleteWithoutAward(p) ==
  LET g == loc[p].g IN
  /\ At(p, "complete")
  /\ IF grant[g] = "pending" /\ Fenced(p)
     THEN /\ grant' = [grant EXCEPT ![g] = "settled"]
          /\ budget' = [budget EXCEPT ![BudgetOf[g]] = Settle(@, Amount[g])]
          /\ SaveOutbox(p, "completed", outbox[g].due)
     ELSE UNCHANGED <<grant, budget, outbox>>
  /\ NextItem(p)
  /\ UNCHANGED <<award, remote, rejected, faults>>

(* Grant, budget, award and outbox move together.  Another completion may  *)
(* have done so before; then only a row that is still open is closed.  A   *)
(* write that misses the fence undoes the whole transaction.               *)
Complete(p) ==
  LET g == loc[p].g
      b == BudgetOf[g]
  IN
  /\ At(p, "complete")
  /\ IF \/ grant[g] = "settled"
        \/ grant[g] = "pending" /\ Fenced(p) /\ budget[b].reserved >= Amount[g]
     THEN /\ grant' = [grant EXCEPT ![g] = "settled"]
          /\ budget' = IF grant[g] = "pending"
                       THEN [budget EXCEPT ![b] = Settle(@, Amount[g])]
                       ELSE budget
          /\ award' = IF award[g] = "pending"
                      THEN [award EXCEPT ![g] = "settled"] ELSE award
          /\ IF Fenced(p) THEN SaveOutbox(p, "completed", outbox[g].due)
                          ELSE UNCHANGED outbox
     ELSE UNCHANGED tables
  /\ NextItem(p)
  /\ UNCHANGED <<remote, rejected, faults>>

SaveConflict(p) ==
  /\ At(p, "conflict")
  /\ IF Fenced(p) THEN SaveOutbox(p, "conflict", TRUE) ELSE UNCHANGED outbox
  /\ NextItem(p)
  /\ UNCHANGED <<grant, budget, award, remote, rejected, faults>>

(* Mutant: an uncertain row is retried for ever.                           *)
SaveRetryForever(p) ==
  /\ At(p, "retry")
  /\ IF Fenced(p) THEN SaveOutbox(p, "retry", FALSE) ELSE UNCHANGED outbox
  /\ NextItem(p)
  /\ UNCHANGED <<grant, budget, award, remote, rejected, faults>>

(* The attempts of a dead row are spent; an operator may still retry it.   *)
SaveRetry(p) ==
  LET dead == loc[p].att >= MaxAttempts IN
  /\ At(p, "retry")
  /\ IF Fenced(p)
     THEN SaveOutbox(p, IF dead THEN "dead" ELSE "retry", dead)
     ELSE UNCHANGED outbox
  /\ NextItem(p)
  /\ UNCHANGED <<grant, budget, award, remote, rejected, faults>>

-----------------------------------------------------------------------------
(* Reversal of a content award: check the award, roll the grant back at    *)
(* new-api and in the budget, then mark the award.                         *)

StartReversal(p, g) ==
  /\ At(p, "idle")
  /\ award[g] = "settled"
  /\ grant[g] \in {"settled", "reversed"}
  /\ Begin(p, "rollback_check", g, 0, {})
  /\ UNCHANGED <<tables, remote, rejected, faults>>

RollbackCheck(p) ==
  /\ At(p, "rollback_check")
  /\ CASE grant[loc[p].g] = "reversed" -> Goto(p, "award")
       [] grant[loc[p].g] = "settled"  -> Goto(p, "rollback_call")
       [] OTHER                        -> NextItem(p)
  /\ UNCHANGED <<tables, remote, rejected, faults>>

RolledBack(state) == IF state = "not_found" THEN state ELSE "rolled_back"

RollbackAnswered(p) ==
  LET g == loc[p].g IN
  /\ At(p, "rollback_call")
  /\ benefit' = [benefit EXCEPT ![g] = RolledBack(@)]
  /\ IF benefit'[g] = "rolled_back" THEN Goto(p, "rollback_commit") ELSE NextItem(p)
  /\ UNCHANGED <<tables, inflight, rejected, faults>>

RollbackTimesOut(p) ==
  /\ At(p, "rollback_call")
  /\ inflight' = inflight \cup {<<loc[p].g, "rollback">>}
  /\ NextItem(p)
  /\ UNCHANGED <<tables, benefit, rejected, faults>>

LateRollback(g) ==
  /\ <<g, "rollback">> \in inflight
  /\ inflight' = inflight \ {<<g, "rollback">>}
  /\ benefit' = [benefit EXCEPT ![g] = RolledBack(@)]
  /\ UNCHANGED <<tables, rejected, loc, faults>>

(* Mutant: the status that was read before the call is trusted after it.   *)
RollbackCommitUnchecked(p) ==
  LET g == loc[p].g IN
  /\ At(p, "rollback_commit")
  /\ grant' = [grant EXCEPT ![g] = "reversed"]
  /\ budget' = [budget EXCEPT ![BudgetOf[g]] = Release(@, Amount[g])]
  /\ Goto(p, "award")
  /\ UNCHANGED <<outbox, award, remote, rejected, faults>>

(* The grant is locked and checked again: a concurrent reversal may have   *)
(* released the amount already.                                            *)
RollbackCommit(p) ==
  LET g == loc[p].g
      b == BudgetOf[g]
  IN
  /\ At(p, "rollback_commit")
  /\ CASE grant[g] = "reversed" -> UNCHANGED <<grant, budget>> /\ Goto(p, "award")
       [] grant[g] = "settled" /\ budget[b].settled >= Amount[g] ->
            /\ grant' = [grant EXCEPT ![g] = "reversed"]
            /\ budget' = [budget EXCEPT ![b] = Release(@, Amount[g])]
            /\ Goto(p, "award")
       [] OTHER -> UNCHANGED <<grant, budget>> /\ NextItem(p)
  /\ UNCHANGED <<outbox, award, remote, rejected, faults>>

AwardReversed(p) ==
  LET g == loc[p].g IN
  /\ At(p, "award")
  /\ IF award[g] = "settled" /\ grant[g] = "reversed"
     THEN award' = [award EXCEPT ![g] = "reversed"]
     ELSE UNCHANGED award
  /\ NextItem(p)
  /\ UNCHANGED <<grant, outbox, budget, remote, rejected, faults>>

-----------------------------------------------------------------------------
(* Faults of Pulse itself: a transaction that fails or is not reached      *)
(* leaves its tables alone and the loop goes on; a crash, or the deadline  *)
(* of the task, loses everything the process held in memory.               *)

TransactionFails(p) ==
  /\ loc[p].pc \in {"complete", "conflict", "retry", "recover_claim",
                    "rollback_check", "rollback_commit", "award"}
  /\ Fault("transaction")
  /\ NextItem(p)
  /\ UNCHANGED <<tables, remote, rejected>>

Crash(p) ==
  /\ ~At(p, "idle")
  /\ Fault("crash")
  /\ loc' = [loc EXCEPT ![p] = Idle]
  /\ UNCHANGED <<tables, remote, rejected>>

-----------------------------------------------------------------------------
(* The call of a process that is not idle, whatever its outcome.           *)
Step(p) ==
  \/ Load(p) \/ GrantAnswered(p) \/ GrantTimesOut(p) \/ Query(p) \/ QueryFails(p)
  \/ ClaimDead(p) \/ Complete(p) \/ SaveConflict(p) \/ SaveRetry(p)
  \/ RollbackCheck(p) \/ RollbackAnswered(p) \/ RollbackTimesOut(p)
  \/ RollbackCommit(p) \/ AwardReversed(p)

Disturb(p) ==
  LoadFails(p) \/ Misrouted(p) \/ TransactionFails(p) \/ Crash(p)

Remote(g) == LateGrant(g) \/ LateRollback(g)

Clock(g) == LeaseExpires(g) \/ BackoffEnds(g)

Next ==
  \/ \E g \in Grants, status \in {"pending", "shadow"} : CreateReward(g, status)
  \/ \E p \in Settlers, skipped \in SUBSET Grants : ClaimDue(p, skipped)
  \/ \E p \in Reconcilers : StartReconcile(p)
  \/ \E p \in Operators, g \in Grants : StartRetryDead(p, g) \/ StartReversal(p, g)
  \/ \E p \in Procs : Step(p) \/ Disturb(p)
  \/ \E g \in Grants : Remote(g) \/ Clock(g)

Spec == Init /\ [][Next]_vars

-----------------------------------------------------------------------------
(* Fairness: the scheduler of the worker starts every loop again and again *)
(* and a started loop takes its steps; leases and backoffs run out.        *)
(* Nothing is assumed of operators, of the network or of new-api.          *)
WorkerFairness ==
  /\ \A p \in Settlers : WF_vars(ClaimDue(p, {})) /\ WF_vars(Step(p))
  /\ \A p \in Reconcilers : WF_vars(StartReconcile(p)) /\ WF_vars(Step(p))
  /\ \A g \in Grants : WF_vars(LeaseExpires(g)) /\ WF_vars(BackoffEnds(g))

(* The network is up often enough: a reconciliation that asks about the    *)
(* same grant for ever gets an answer some time.                           *)
NetworkFairness ==
  \A p \in Reconcilers, g \in Grants : SF_vars(loc[p].g = g /\ Query(p))

FairSpec == Spec /\ WorkerFairness /\ NetworkFairness

-----------------------------------------------------------------------------
(* Properties.                                                             *)

(* The running totals of every budget are the sums of the amounts of its   *)
(* pending, settled and reversed grants, whatever workers, reconcilers and *)
(* reversals do concurrently: no amount is moved twice or forgotten.       *)
BudgetConservation ==
  \A b \in Budgets :
    /\ budget[b].reserved = Total(Charged(grant, b, "pending"))
    /\ budget[b].settled = Total(Charged(grant, b, "settled"))
    /\ budget[b].released = Total(Charged(grant, b, "reversed"))

(* The amounts of the grants that are pending or settled never exceed the  *)
(* hard cap of their budget.                                               *)
HardCapRespected ==
  \A b \in Budgets :
    Total(Charged(grant, b, "pending") \cup Charged(grant, b, "settled")) <= HardCap[b]

(* A grant is booked exactly when its outbox row is completed: the two     *)
(* tables never disagree about whether a reward was delivered.             *)
CompletedIffBooked ==
  \A g \in Grants :
    grant[g] \in {"settled", "reversed"} <=> outbox[g].status = "completed"

(* Pulse never books a reward that new-api has not seen, and never books a *)
(* reversal that new-api has not carried out; new-api takes back only      *)
(* rewards that Pulse had booked.                                          *)
BooksFollowBenefit ==
  \A g \in Grants :
    /\ grant[g] = "settled" => benefit[g] # "not_found"
    /\ grant[g] = "reversed" => benefit[g] = "rolled_back"
    /\ benefit[g] = "rolled_back" => grant[g] \in {"settled", "reversed"}

(* At most one process is working under a given claim of a row: the lease  *)
(* fence is never shared, whatever leases expire early and whatever dead   *)
(* rows are retried by hand.                                               *)
OneHolderPerClaim ==
  \A g \in Grants :
    outbox[g].status = "processing" =>
      Cardinality({p \in Procs : HeldBy(p, g, outbox[g].attempts)}) <= 1

(* The totals of a budget row as the code keeps them stay under the cap.   *)
RowsWithinCap ==
  \A b \in Budgets : budget[b].reserved + budget[b].settled <= HardCap[b]

(* What a process or a late request has learned before it acts on it is    *)
(* still true when it does: new-api never forgets a benefit, and a grant   *)
(* that was booked is never pending again.                                 *)
KnowledgeHolds ==
  /\ \A p \in Procs :
       /\ At(p, "complete") => benefit[loc[p].g] # "not_found"
       /\ At(p, "rollback_call") => grant[loc[p].g] \in {"settled", "reversed"}
       /\ At(p, "rollback_commit") =>
            /\ grant[loc[p].g] \in {"settled", "reversed"}
            /\ benefit[loc[p].g] = "rolled_back"
  /\ \A g \in Grants :
       <<g, "rollback">> \in inflight => grant[g] \in {"settled", "reversed"}

(* A content award is created with its grant and waits as long as it does. *)
AwardWaitsWithGrant ==
  \A g \in ContentGrants : grant[g] = "pending" => award[g] = "pending"

(* A content award follows its grant: settled in the same transaction,     *)
(* reversed only after it, and never revived.                              *)
AwardFollowsGrant ==
  \A g \in ContentGrants :
    /\ award[g] = "reversed" => grant[g] = "reversed"
    /\ grant[g] = "settled" => award[g] = "settled"
    /\ award[g] = "pending" => grant[g] = "pending"

(* A stale worker never takes a row out of a terminal state and never      *)
(* turns the attempts back: completed and conflict rows are final, shadow  *)
(* rows are never sent, and attempts only grow.                            *)
TerminalRowsStay ==
  [][\A g \in Grants :
       /\ outbox[g].status \in {"completed", "conflict", "shadow"}
            => outbox'[g].status = outbox[g].status
       /\ outbox'[g].attempts >= outbox[g].attempts]_vars

(* A grant that was given to the settlement loop is decided some time:     *)
(* completed, parked as dead for an operator, or parked as a conflict.     *)
EventuallyDecided ==
  \A g \in Grants :
    outbox[g].status \in {"pending", "processing", "retry"}
      ~> outbox[g].status \in {"completed", "dead", "conflict"}

(* A row that ran out of attempts although new-api applied the benefit is  *)
(* found by the reconciliation some time (and booked, or parked when the   *)
(* answers do not fit).                                                    *)
DeadRowsConverge ==
  \A g \in Grants :
    (outbox[g].status = "dead" /\ benefit[g] = "applied")
      ~> outbox[g].status \in {"completed", "conflict"}

(* docs/ARCHITECTURE.md, 670: a payload conflict that new-api has answered *)
(* with 409 is settled knowledge and must go to the terminal conflict; the *)
(* applied of a Query must not override it.                                *)
RejectedNeverBooked ==
  \A g \in rejected : grant[g] # "settled"

(* docs/ARCHITECTURE.md, 612: a conflict row stands for an invalid payload,*)
(* a different fingerprint, a benefit that was taken back or a wrong       *)
(* source_ref.  Payloads are valid and no reply is misrouted in the run,   *)
(* so that a conflict row has its reason at new-api.                       *)
ConflictHasEvidence ==
  \A g \in Grants :
    outbox[g].status = "conflict" => benefit[g] \in {"foreign", "rolled_back"}

-----------------------------------------------------------------------------
(* Settlement implements the lifecycle of RewardLifecycle.                 *)

PhaseOf(g) ==
  CASE grant[g] = "none"    -> "none"
    [] grant[g] = "pending" -> IF benefit[g] = "not_found" THEN "reserved" ELSE "paid"
    [] grant[g] = "settled" -> IF benefit[g] = "rolled_back" THEN "refunded" ELSE "settled"
    [] grant[g] = "reversed" -> "reversed"

Lifecycle ==
  INSTANCE RewardLifecycle WITH
    phase <- [g \in Grants |-> PhaseOf(g)],
    books <- budget

(* Every behaviour of the settlement is, grant by grant, one pass through  *)
(* reserve, pay, settle, refund, reverse, with the books of the lifecycle  *)
(* and under its hard cap.                                                 *)
ImplementsLifecycle == Lifecycle!LifecycleSpec
=============================================================================
