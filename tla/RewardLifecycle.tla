-------------------------- MODULE RewardLifecycle --------------------------
(***************************************************************************)
(* What the reward economy promises about one grant, without databases,    *)
(* workers, leases or messages: an amount is reserved under a hard cap,    *)
(* then handed to the member at new-api, then booked as settled; a booked  *)
(* reward may be taken back at new-api and then booked as reversed.  Every *)
(* grant goes through these phases in order and at most once, and what is  *)
(* exposed under a budget never exceeds its cap.                           *)
(***************************************************************************)
EXTENDS RewardAmounts

VARIABLES
  phase,   (* the phase of every grant                                     *)
  books    (* the three totals of every budget                             *)

lifecycleVars == <<phase, books>>

Phases == {"none", "reserved", "paid", "settled", "refunded", "reversed"}

LifecycleTypeOK ==
  /\ phase \in [Grants -> Phases]
  /\ books \in [Budgets -> BudgetRow]

LifecycleInit ==
  /\ phase = [g \in Grants |-> "none"]
  /\ books = [b \in Budgets |-> EmptyBudget]

Exposed(b) ==
  {g \in Grants : BudgetOf[g] = b
                  /\ phase[g] \in {"reserved", "paid", "settled", "refunded"}}

Enter(g, from, to) ==
  /\ phase[g] = from
  /\ phase' = [phase EXCEPT ![g] = to]

Book(g, row) == books' = [books EXCEPT ![BudgetOf[g]] = row]

(* The hard cap is stated over the exposed grants themselves, not over the *)
(* running totals an implementation keeps.                                 *)
ReserveReward(g) ==
  /\ Enter(g, "none", "reserved")
  /\ Total(Exposed(BudgetOf[g])) + Amount[g] <= HardCap[BudgetOf[g]]
  /\ Book(g, Reserve(books[BudgetOf[g]], Amount[g]))

PayReward(g) == Enter(g, "reserved", "paid") /\ UNCHANGED books

SettleReward(g) ==
  /\ Enter(g, "paid", "settled")
  /\ Book(g, Settle(books[BudgetOf[g]], Amount[g]))

RefundReward(g) == Enter(g, "settled", "refunded") /\ UNCHANGED books

ReverseReward(g) ==
  /\ Enter(g, "refunded", "reversed")
  /\ Book(g, Release(books[BudgetOf[g]], Amount[g]))

LifecycleNext ==
  \E g \in Grants :
    \/ ReserveReward(g) \/ PayReward(g) \/ SettleReward(g)
    \/ RefundReward(g) \/ ReverseReward(g)

LifecycleSpec == LifecycleInit /\ [][LifecycleNext]_lifecycleVars
=============================================================================
