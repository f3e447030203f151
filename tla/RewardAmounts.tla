--------------------------- MODULE RewardAmounts ---------------------------
(***************************************************************************)
(* The amounts behind the reward budgets of Pulse.                         *)
(*                                                                         *)
(* A reward grant has a fixed positive amount and is charged to exactly    *)
(* one budget row (pulse_reward_budget).  A budget row keeps three running *)
(* totals; what those totals ought to be is a sum of amounts over a set of *)
(* grants.  The sum is written as the cardinality of a set of "quota       *)
(* units", so that the facts about it can be proved from the library       *)
(* theorems on finite sets.                                                *)
(***************************************************************************)
EXTENDS Integers, FiniteSets

CONSTANTS
  Grants,     (* ids of the reward grants that may be created, a set of    *)
              (* positive numbers: MySQL auto-increment primary keys       *)
  Budgets,    (* the budget rows, one per period and budget type           *)
  BudgetOf,   (* the budget row a grant is charged to                      *)
  Amount,     (* the immutable amount of a grant                           *)
  HardCap     (* the limit of a budget row: hard_cap, or MaxInt64 for an   *)
              (* unlimited loyalty pool                                    *)

ASSUME GrantsAssumption ==
  /\ Grants \subseteq Nat \ {0}
  /\ IsFiniteSet(Grants)

ASSUME AmountsAssumption ==
  /\ BudgetOf \in [Grants -> Budgets]
  /\ Amount \in [Grants -> Nat \ {0}]
  /\ HardCap \in [Budgets -> Nat]

(* The quota units of a set of grants, and how many there are: the sum of  *)
(* the amounts of the grants in S.                                         *)
UnitsOf(g) == {g} \X (1 .. Amount[g])
Units(S)   == UNION {UnitsOf(g) : g \in S}
Total(S)   == Cardinality(Units(S))

(* The grants with a given status that are charged to a budget.            *)
Charged(statusOf, b, status) == {g \in Grants : BudgetOf[g] = b /\ statusOf[g] = status}

(* The three running totals of a budget row.                               *)
BudgetRow == [reserved : Nat, settled : Nat, released : Nat]
EmptyBudget == [reserved |-> 0, settled |-> 0, released |-> 0]

(* Mutant: only what is still reserved counts against the limit.           *)
CanReserveBesideSettled(row, cap, amount) == row.reserved + amount <= cap

(* RewardBudget.CanReserve: the amount still fits under the limit.  What   *)
(* was released by a reversal is free again, it is only reported.          *)
CanReserve(row, cap, amount) == row.reserved + row.settled + amount <= cap

(* The moves of the money of one grant.  An experience grant may also be   *)
(* reversed while it is pending.                                           *)
Reserve(row, amount) == [row EXCEPT !.reserved = @ + amount]
Settle(row, amount) ==
  [row EXCEPT !.reserved = @ - amount, !.settled = @ + amount]
Release(row, amount) ==
  [row EXCEPT !.settled = @ - amount, !.released = @ + amount]
Cancel(row, amount) ==
  [row EXCEPT !.reserved = @ - amount, !.released = @ + amount]
=============================================================================
