------------------------- MODULE ExperienceDelivery -------------------------
(***************************************************************************)
(* Delivery of experience rewards from Pulse to the forum.                 *)
(*                                                                         *)
(* A draw may win community experience.  The grant and its outbox row live *)
(* in the database of Pulse, the experience of a member in the database of *)
(* the forum, so no transaction covers both.  The forum plugin pulls: it   *)
(* lists the open deliveries of a member, applies one (AwardPulse), and    *)
(* acknowledges it; Pulse then settles the grant.  An administrator may    *)
(* reverse a grant at any time, also between the listing and the           *)
(* acknowledgement; the reversal is delivered in the same way.             *)
(*                                                                         *)
(* Two things start a delivery: a request that shows the member's level    *)
(* runs one itself; a draw or a look at the rewards only wakes up one of a *)
(* few background workers through a bounded queue in memory.               *)
(***************************************************************************)
EXTENDS RewardAmounts, Sequences

CONSTANTS
  Users,      (* the forum members, each bound to one Pulse account        *)
  UserOf,     (* the member who may win a grant                            *)
  Shadow,     (* the grants drawn while Pulse runs in shadow mode          *)
  Workers,    (* background workers: two goroutines                        *)
  Refreshers, (* requests that deliver by themselves                       *)
  QueueLimit, (* members the queue keeps in mind: 64                       *)
  Attempts,   (* attempts of a worker before it gives a member up: 3       *)
  PageSize,   (* deliveries in one listing: 20                             *)
  Pages,      (* listings of one attempt: 3                                *)
  MaxFaults   (* bound on failed steps, lost replies and restarts          *)

ASSUME DeliveryAssumption ==
  /\ UserOf \in [Grants -> Users] /\ Shadow \subseteq Grants
  /\ Workers \cap Refreshers = {} /\ Workers # {}
  /\ IsFiniteSet(Workers) /\ IsFiniteSet(Users)
  /\ QueueLimit \in Nat /\ MaxFaults \in Nat
  /\ Attempts \in Nat \ {0} /\ PageSize \in Nat \ {0} /\ Pages \in Nat \ {0}

VARIABLES
  grant,     (* pulse_reward_grant.status; "none" before the draw          *)
  delivery,  (* pulse_settlement_outbox.status of the grant                *)
  budget,    (* pulse_reward_budget                                        *)
  event,     (* metar_exp_event of the grant, in the forum                 *)
  ledger,    (* metar_exp_ledger: the kinds of entries of the event        *)
  exp,       (* metar_exp_account.balance                                  *)
  pending,   (* pulseExperienceDelivery.pending: members on their way      *)
  queue,     (* pulseExperienceDelivery.queue                              *)
  sync,      (* what each worker and each request is doing                 *)
  faults,    (* how many steps have failed                                 *)
  restarted  (* the forum was restarted and has lost its queue             *)

pulse == <<grant, delivery, budget>>
forum == <<event, ledger, exp>>
wakes == <<pending, queue>>
vars  == <<pulse, forum, wakes, sync, faults, restarted>>

Consumers == Workers \cup Refreshers

(* A worker that is not running is "off".  It is "ready" for the next      *)
(* member, lists a page of deliveries, and awards and acknowledges each.   *)
Off  == [pc |-> "off"]
Ready == [pc |-> "ready"]
Item == [g : Grants, status : {"pending", "reversed"}]
Sync == {Off, Ready} \cup
        [pc : {"list", "award", "ack", "failed", "finished"}, user : Users,
         rows : SUBSET Item, page : Nat, attempt : Nat]

(* Every variable holds values of its table or Go type.                    *)
DeliveryTypeOK ==
  /\ grant \in [Grants -> {"none", "pending", "settled", "reversed"}]
  /\ delivery \in [Grants -> {"none", "shadow", "community_pending", "community_delivered"}]
  /\ budget \in [Budgets -> BudgetRow]
  /\ event \in [Grants -> {"none", "awarded", "revoked"}]
  /\ ledger \in [Grants -> SUBSET {"award", "reversal"}]
  /\ exp \in [Users -> Nat]
  /\ pending \in [Users -> {"absent", "once", "again"}]
  /\ queue \in Seq(Users)
  /\ sync \in [Consumers -> Sync]
  /\ faults \in 0 .. MaxFaults /\ restarted \in BOOLEAN

Init ==
  /\ grant = [g \in Grants |-> "none"] /\ delivery = [g \in Grants |-> "none"]
  /\ budget = [b \in Budgets |-> EmptyBudget]
  /\ event = [g \in Grants |-> "none"] /\ ledger = [g \in Grants |-> {}]
  /\ exp = [u \in Users |-> 0]
  /\ pending = [u \in Users |-> "absent"] /\ queue = <<>>
  /\ sync = [c \in Consumers |-> Off]
  /\ faults = 0 /\ restarted = FALSE
-----------------------------------------------------------------------------
(* Pulse.                                                                  *)

(* A draw wins experience.                                                 *)
Win(g) ==
  /\ grant[g] = "none"
  /\ CanReserve(budget[BudgetOf[g]], HardCap[BudgetOf[g]], Amount[g])
  /\ grant' = [grant EXCEPT ![g] = "pending"]
  /\ delivery' = [delivery EXCEPT ![g] = IF g \in Shadow THEN "shadow" ELSE "community_pending"]
  /\ budget' = [budget EXCEPT ![BudgetOf[g]] = Reserve(@, Amount[g])]
  /\ UNCHANGED <<forum, wakes, sync, faults, restarted>>

(* A pending grant gives back its reservation, a settled one its amount.   *)
ReversedBudget(g) ==
  IF grant[g] = "pending" THEN Cancel(budget[BudgetOf[g]], Amount[g])
  ELSE Release(budget[BudgetOf[g]], Amount[g])

(* An administrator reverses a grant; the reversal is to be delivered,     *)
(* whatever was delivered before.                                          *)
ReverseGrant(g) ==
  /\ grant[g] \in {"pending", "settled"}
  /\ budget' = [budget EXCEPT ![BudgetOf[g]] = ReversedBudget(g)]
  /\ grant' = [grant EXCEPT ![g] = "reversed"]
  /\ delivery' = [delivery EXCEPT ![g] = "community_pending"]
  /\ UNCHANGED <<forum, wakes, sync, faults, restarted>>

(* ListPendingExperience: the first open deliveries; the ids of the grants *)
(* stand for those of their outbox rows.                                   *)
Open(u) == {g \in Grants : UserOf[g] = u /\ delivery[g] = "community_pending"
                           /\ grant[g] \in {"pending", "reversed"}}
FirstPage(u) ==
  {[g |-> g, status |-> grant[g]] :
     g \in {h \in Open(u) : Cardinality({k \in Open(u) : k < h}) < PageSize}}

(* Acknowledge: what the forum has applied must still be what Pulse wants. *)
Settled(status) == IF status = "pending" THEN "settled" ELSE "reversed"
Repeated(i) == delivery[i.g] = "community_delivered" /\ grant[i.g] = Settled(i.status)

(* Mutant: only the delivery is compared, not the status of the grant.     *)
AcceptableUnseen(i) == delivery[i.g] = "community_pending"
Acceptable(i) == delivery[i.g] = "community_pending" /\ grant[i.g] = i.status

Acknowledge(i) ==
  \/ /\ Repeated(i)
     /\ UNCHANGED pulse
  \/ /\ ~Repeated(i) /\ Acceptable(i)
     /\ budget' = [budget EXCEPT ![BudgetOf[i.g]] =
                     IF i.status = "pending" THEN Settle(@, Amount[i.g]) ELSE @]
     /\ grant' = [grant EXCEPT ![i.g] = Settled(i.status)]
     /\ delivery' = [delivery EXCEPT ![i.g] = "community_delivered"]
-----------------------------------------------------------------------------
(* The forum.                                                              *)

(* appendLedger: an entry, and the balance of the account with it.         *)
Credit(i) ==
  /\ event' = [event EXCEPT ![i.g] = "awarded"]
  /\ ledger' = [ledger EXCEPT ![i.g] = @ \cup {"award"}]
  /\ exp' = [exp EXCEPT ![UserOf[i.g]] = @ + Amount[i.g]]
Debit(i) ==
  /\ event' = [event EXCEPT ![i.g] = "revoked"]
  /\ ledger' = [ledger EXCEPT ![i.g] = @ \cup {"reversal"}]
  /\ exp' = [exp EXCEPT ![UserOf[i.g]] = @ - Amount[i.g]]

(* A reversal that comes first leaves a tombstone.                         *)
Bury(i) == event' = [event EXCEPT ![i.g] = "revoked"] /\ UNCHANGED <<ledger, exp>>

(* Mutant: a reversal of an unknown event leaves no tombstone.             *)
AwardPulseNoTombstone(i) ==
  \/ i.status = "pending" /\ event[i.g] = "none" /\ Credit(i)
  \/ i.status = "reversed" /\ event[i.g] = "awarded" /\ Debit(i)
  \/ i.status = "pending" /\ event[i.g] # "none" /\ UNCHANGED forum
  \/ i.status = "reversed" /\ event[i.g] # "awarded" /\ UNCHANGED forum

(* Mutant: a reversal is debited whether or not the event was credited.    *)
AwardPulseDebitAlways(i) ==
  \/ i.status = "pending" /\ event[i.g] = "none" /\ Credit(i)
  \/ i.status = "reversed" /\ event[i.g] # "revoked" /\ Debit(i)
  \/ i.status = "pending" /\ event[i.g] # "none" /\ UNCHANGED forum
  \/ i.status = "reversed" /\ event[i.g] = "revoked" /\ UNCHANGED forum

(* AwardPulse, one transaction under the lock of the member's account: the *)
(* event is registered if it is new and then credited once, or revoked for *)
(* good.                                                                   *)
AwardPulse(i) ==
  \/ i.status = "pending" /\ event[i.g] = "none" /\ Credit(i)
  \/ i.status = "reversed" /\ event[i.g] = "awarded" /\ Debit(i)
  \/ i.status = "reversed" /\ event[i.g] = "none" /\ Bury(i)
  \/ i.status = "pending" /\ event[i.g] # "none" /\ UNCHANGED forum
  \/ i.status = "reversed" /\ event[i.g] = "revoked" /\ UNCHANGED forum
-----------------------------------------------------------------------------
(* One delivery run of a member: consumePulseExperience.                   *)

Start(u) == [pc |-> "list", user |-> u, rows |-> {}, page |-> 1, attempt |-> 1]
At(c, pc) == sync[c].pc = pc
Goto(c, pc) == sync' = [sync EXCEPT ![c].pc = pc]

(* A page is worked through in the order of its rows.                      *)
Current(c) == CHOOSE i \in sync[c].rows : \A j \in sync[c].rows : i.g <= j.g

List(c) ==
  /\ At(c, "list")
  /\ LET rows == FirstPage(sync[c].user)
     IN IF sync[c].page > Pages THEN Goto(c, "failed")
        ELSE IF rows = {} THEN Goto(c, "finished")
        ELSE sync' = [sync EXCEPT ![c].pc = "award", ![c].rows = rows]
  /\ UNCHANGED <<pulse, forum, wakes, faults, restarted>>

Award(c) ==
  /\ At(c, "award")
  /\ AwardPulse(Current(c))
  /\ Goto(c, "ack")
  /\ UNCHANGED <<pulse, wakes, faults, restarted>>

(* The next delivery of the page, or the next page.                        *)
NextRow(c) ==
  LET left == sync[c].rows \ {Current(c)} IN
  sync' = [sync EXCEPT ![c] =
    IF left # {} THEN [@ EXCEPT !.pc = "award", !.rows = left]
    ELSE [@ EXCEPT !.pc = "list", !.rows = {}, !.page = sync[c].page + 1]]

Ack(c) ==
  /\ At(c, "ack")
  /\ Acknowledge(Current(c)) /\ NextRow(c)
  /\ UNCHANGED <<forum, wakes, faults, restarted>>

(* 409: the grant has changed since the listing.                           *)
AckRefused(c) ==
  /\ At(c, "ack")
  /\ ~Repeated(Current(c)) /\ ~Acceptable(Current(c))
  /\ Goto(c, "failed")
  /\ UNCHANGED <<pulse, forum, wakes, faults, restarted>>

(* The acknowledgement is accepted but its reply is lost.                  *)
AckLost(c) ==
  /\ At(c, "ack") /\ faults < MaxFaults
  /\ Acknowledge(Current(c))
  /\ Goto(c, "failed")
  /\ faults' = faults + 1
  /\ UNCHANGED <<forum, wakes, restarted>>

(* A listing, a transaction of the forum or an acknowledgement fails.      *)
StepFails(c) ==
  /\ sync[c].pc \in {"list", "award", "ack"} /\ faults < MaxFaults
  /\ Goto(c, "failed")
  /\ faults' = faults + 1
  /\ UNCHANGED <<pulse, forum, wakes, restarted>>

(* A worker tries again, with a new listing, and then gives up.  A request *)
(* tries once.                                                             *)
AfterFailure(c) ==
  /\ At(c, "failed")
  /\ IF c \in Workers /\ sync[c].attempt < Attempts
     THEN sync' = [sync EXCEPT ![c] = [Start(sync[c].user) EXCEPT !.attempt = sync[c].attempt + 1]]
     ELSE Goto(c, "finished")
  /\ UNCHANGED <<pulse, forum, wakes, faults, restarted>>

(* GET of the member's level.                                              *)
Refresh(c, u) ==
  /\ c \in Refreshers /\ At(c, "off")
  /\ sync' = [sync EXCEPT ![c] = Start(u)]
  /\ UNCHANGED <<pulse, forum, wakes, faults, restarted>>

RefreshDone(c) ==
  /\ c \in Refreshers /\ At(c, "finished")
  /\ sync' = [sync EXCEPT ![c] = Off]
  /\ UNCHANGED <<pulse, forum, wakes, faults, restarted>>
-----------------------------------------------------------------------------
(* The queue of wake-ups and its workers.                                  *)

(* A member who is on the way is only marked; a full queue forgets the     *)
(* wake-up; otherwise the member is queued, and a worker is started if one *)
(* is off.                                                                 *)
Enqueue(u) ==
  \/ /\ pending[u] = "once"
     /\ pending' = [pending EXCEPT ![u] = "again"]
     /\ UNCHANGED <<pulse, forum, queue, sync, faults, restarted>>
  \/ /\ pending[u] = "absent"
     /\ Cardinality({v \in Users : pending[v] # "absent"}) < QueueLimit
     /\ pending' = [pending EXCEPT ![u] = "once"]
     /\ queue' = Append(queue, u)
     /\ \/ \E w \in Workers : At(w, "off") /\ sync' = [sync EXCEPT ![w] = Ready]
        \/ (\A w \in Workers : ~At(w, "off")) /\ UNCHANGED sync
     /\ UNCHANGED <<pulse, forum, faults, restarted>>

(* Mutant: the member is forgotten when the job starts.                    *)
TakeAndForget(w) ==
  /\ w \in Workers /\ At(w, "ready") /\ queue # <<>>
  /\ queue' = Tail(queue)
  /\ pending' = [pending EXCEPT ![Head(queue)] = "absent"]
  /\ sync' = [sync EXCEPT ![w] = Start(Head(queue))]
  /\ UNCHANGED <<pulse, forum, faults, restarted>>

Take(w) ==
  /\ w \in Workers /\ At(w, "ready") /\ queue # <<>>
  /\ queue' = Tail(queue)
  /\ pending' = [pending EXCEPT ![Head(queue)] = "once"]
  /\ sync' = [sync EXCEPT ![w] = Start(Head(queue))]
  /\ UNCHANGED <<pulse, forum, faults, restarted>>

Stop(w) ==
  /\ w \in Workers /\ At(w, "ready") /\ queue = <<>>
  /\ sync' = [sync EXCEPT ![w] = Off]
  /\ UNCHANGED <<pulse, forum, wakes, faults, restarted>>

(* Mutant: a wake-up that came during the job is dropped.                  *)
FinishWithoutMark(w) ==
  /\ w \in Workers /\ At(w, "finished")
  /\ pending' = [pending EXCEPT ![sync[w].user] = "absent"]
  /\ sync' = [sync EXCEPT ![w] = Ready]
  /\ UNCHANGED <<pulse, forum, queue, faults, restarted>>

(* A wake-up that came during the job runs the job once more.              *)
Finish(w) ==
  /\ w \in Workers /\ At(w, "finished")
  /\ IF pending[sync[w].user] = "again"
     THEN queue' = Append(queue, sync[w].user) /\ UNCHANGED pending
     ELSE pending' = [pending EXCEPT ![sync[w].user] = "absent"] /\ UNCHANGED queue
  /\ sync' = [sync EXCEPT ![w] = Ready]
  /\ UNCHANGED <<pulse, forum, faults, restarted>>

(* The forum restarts; what is in its memory is gone.                      *)
Restart ==
  /\ faults < MaxFaults /\ faults' = faults + 1
  /\ pending' = [u \in Users |-> "absent"] /\ queue' = <<>>
  /\ sync' = [c \in Consumers |-> Off]
  /\ restarted' = TRUE
  /\ UNCHANGED <<pulse, forum>>
-----------------------------------------------------------------------------
Deliver(c) ==
  List(c) \/ Award(c) \/ Ack(c) \/ AckRefused(c) \/ AfterFailure(c)

Next ==
  \/ \E g \in Grants : Win(g) \/ ReverseGrant(g)
  \/ \E u \in Users : Enqueue(u) \/ \E c \in Refreshers : Refresh(c, u)
  \/ \E c \in Consumers : Deliver(c) \/ AckLost(c) \/ StepFails(c)
  \/ \E c \in Refreshers : RefreshDone(c)
  \/ \E w \in Workers : Take(w) \/ Stop(w) \/ Finish(w)
  \/ Restart

Spec == Init /\ [][Next]_vars

(* The goroutines of the workers run; nobody has to draw, look or wake.    *)
FairSpec ==
  Spec /\ \A w \in Workers : WF_vars(Deliver(w) \/ Take(w) \/ Stop(w) \/ Finish(w))
-----------------------------------------------------------------------------
(* Properties.                                                             *)

(* The two databases agree wherever Pulse takes a delivery for done: a     *)
(* settled grant has been credited, a reversed one has no effect any more  *)
(* and never will have, whatever listing is still on its way.  A grant of  *)
(* the shadow mode is never credited.                                      *)
DeliveredMeansApplied ==
  \A g \in Grants :
    /\ delivery[g] = "community_delivered" =>
         event[g] = IF grant[g] = "settled" THEN "awarded" ELSE "revoked"
    /\ event[g] = "awarded" => grant[g] # "none" /\ g \notin Shadow
    /\ grant[g] = "settled" => delivery[g] = "community_delivered"

(* The balance the forum shows is the sum of what is credited and not      *)
(* revoked, and the entries of the ledger say the same: one award at most, *)
(* and a reversal only after an award.                                     *)
ExperienceAddsUp ==
  /\ \A u \in Users : exp[u] = Total({g \in Grants : UserOf[g] = u /\ event[g] = "awarded"})
  /\ \A g \in Grants :
       /\ (ledger[g] = {"award"}) = (event[g] = "awarded")
       /\ "reversal" \in ledger[g] => "award" \in ledger[g] /\ event[g] = "revoked"

(* The budget of Pulse: what is reserved, settled and released is what the *)
(* pending, settled and reversed grants amount to.                         *)
ExperienceBudget ==
  \A b \in Budgets :
    /\ budget[b].reserved = Total(Charged(grant, b, "pending"))
    /\ budget[b].settled  = Total(Charged(grant, b, "settled"))
    /\ budget[b].released = Total(Charged(grant, b, "reversed"))

(* The queue delivers for a member in one worker at a time, keeps in mind  *)
(* exactly the members that are queued or in work, and never more than its *)
(* limit; while somebody is queued, some worker is up.                     *)
InWork(u) == {w \in Workers : sync[w] \notin {Off, Ready} /\ sync[w].user = u}
Queued(u) == {i \in DOMAIN queue : queue[i] = u}
QueueIsSound ==
  /\ \A u \in Users : Cardinality(InWork(u)) + Cardinality(Queued(u)) =
                        IF pending[u] = "absent" THEN 0 ELSE 1
  /\ Cardinality({u \in Users : pending[u] # "absent"}) <= QueueLimit
  /\ queue # <<>> => \E w \in Workers : ~At(w, "off")

(* A wake-up that the queue has accepted and not yet begun to serve is not *)
(* lost: what was to be delivered to the member then is delivered, unless  *)
(* the forum restarts.  Failures up to the bound are survived by retries.  *)
Owed(g) ==
  /\ delivery[g] = "community_pending"
  /\ \/ pending[UserOf[g]] = "again"
     \/ Queued(UserOf[g]) # {}
WakeupsAreServed ==
  \A g \in Grants : Owed(g) ~> (delivery[g] = "community_delivered" \/ restarted)
=============================================================================
