-------------------------------- MODULE Draw --------------------------------
(***************************************************************************)
(* Draws of one member: POST /v1/actions of the Pulse API.                 *)
(*                                                                         *)
(* A draw spends one ticket and creates one reward grant in one MySQL      *)
(* transaction.  Requests are retried, with the same or with other request *)
(* keys, and run on every API replica at once, while operators publish new *)
(* reward rules, the forum grants tickets, tickets expire and the periodic *)
(* activity is closed.  The transaction takes its locks one by one: the    *)
(* identity of the action, the identity of the request, the rule lock that *)
(* all draws, publications and ticket grants share, and at last ticket,    *)
(* account and budgets.  What it reads without a lock comes from the       *)
(* snapshot that MySQL takes at its first plain read (REPEATABLE READ).    *)
(*                                                                         *)
(* Other members meet the member only at the rule lock and at the budgets; *)
(* for both, another member's draw is like another action of this one.     *)
(***************************************************************************)
EXTENDS Integers, FiniteSets

CONSTANTS
  Requests,      (* HTTP requests, each served by one transaction          *)
  Actions,       (* action ids chosen by the client                        *)
  Keys,          (* request (idempotency) keys chosen by the client        *)
  Historical,    (* actions that were drawn before requests had identities *)
  LegacyKey,     (* the request key each of them was stored under          *)
  Operators,     (* publication requests of operators                      *)
  MaxRules,      (* bound on the ids of published rules                    *)
  Lots,          (* receipts of the forum, each worth one ticket lot       *)
  Validity,      (* ticks a ticket lot is good for all prizes              *)
  PeriodTickets, (* tickets of the member in the periodic activity         *)
  PeriodEnd,     (* the tick at which the periodic activity ends           *)
  MaxTime,       (* bound on the clock                                     *)
  Prizes,        (* the reward definitions of every rule                   *)
  Cap,           (* hard cap of the budget of every kind in every rule     *)
  MayDisable     (* some replica may run with new draws disabled           *)

Kinds    == {"loyalty", "community_exp"}
NoRule   == 0
Periodic == 1               (* id of the periodic (non-continuous) activity *)
Rules    == Periodic .. MaxRules
NoLot    == 0

ASSUME DrawAssumption ==
  /\ Historical \subseteq Actions
  /\ LegacyKey \in [Historical -> Keys]
  /\ MaxRules \in Nat /\ Periodic <= MaxRules
  /\ Lots \subseteq Nat \ {NoLot}
  /\ Validity \in Nat \ {0}
  /\ PeriodTickets \in Nat /\ PeriodEnd \in Nat /\ MaxTime \in Nat
  /\ Prizes \subseteq [kind : Kinds, amount : Nat \ {0}]
  /\ Cap \in [Kinds -> Nat]
  /\ MayDisable \in BOOLEAN

VARIABLES
  clock,     (* the time all servers agree on                              *)
  closed,    (* the periodic activity is closed                            *)
  latest,    (* id of the last published rule; Periodic if there is none   *)
  published, (* pulse_idempotency of publications: the rule of a request   *)
  expected,  (* the current rule an operator saw before publishing         *)
  lot,       (* pulse_ticket_lot                                           *)
  balance,   (* pulse_account: the member's tickets per rule of origin     *)
  grants,    (* pulse_reward_grant, with the ticket each one has spent     *)
  reserved,  (* pulse_reward_budget per rule and kind                      *)
  identity,  (* pulse_idempotency of actions                               *)
  request,   (* pulse_idempotency of requests                              *)
  loc        (* the transaction of every request                           *)

time   == <<clock, closed>>
rules  == <<latest, published, expected>>
wallet == <<lot, balance>>
books  == <<grants, reserved>>
ids    == <<identity, request>>
vars   == <<time, rules, wallet, books, ids, loc>>

(* A signed selection names the rule, the ticket and whether the ticket is *)
(* good for experience only.  Requests of the old protocol have none.      *)
NoChoice == [rule |-> NoRule, lot |-> NoLot, exp |-> FALSE]
Choice   == [rule : {NoRule} \cup Rules, lot : {NoLot} \cup Lots, exp : BOOLEAN]

Codes    == {"granted", "selection_required", "selection_changed",
             "actions_unavailable", "insufficient_tickets", "budget_exceeded"}
Response == [code : Codes, rule : {NoRule} \cup Rules]
Granted(rule) == [code |-> "granted", rule |-> rule]
Refused(code) == [code |-> code, rule |-> NoRule]

(* A committed identity has a payload, whose hash covers the action and    *)
(* the selection, and a response.  A table holds at most one per key.      *)
Absent == {}
Record == [action : Actions, choice : Choice, response : Response]
Row    == {Absent} \cup {{r} : r \in Record}

Grant == [action : Actions, rule : Rules, source : Rules, lot : {NoLot} \cup Lots,
          exp : BOOLEAN, prize : Prizes, at : Nat]
NotMinted == [rule |-> NoRule, left |-> 0, expires |-> 0]
Lot   == {NotMinted} \cup [rule : Rules \ {Periodic}, left : {0, 1}, expires : Nat]

(* A transaction, by what it has locked.                                   *)
Unsent == [pc |-> "unsent"]
View   == [latest : Rules, closed : BOOLEAN]
NoView == [latest |-> Periodic, closed |-> FALSE]
Tx     == [pc : {"sent", "identity", "request", "rule", "done"}, action : Actions,
           key : Keys, choice : Choice, view : View, now : Nat]

(* Every variable holds values of its table.                               *)
DrawTypeOK ==
  /\ clock \in Nat /\ closed \in BOOLEAN /\ latest \in Rules
  /\ published \in [Operators -> {NoRule} \cup Rules]
  /\ expected \in [Operators -> {NoRule} \cup Rules]
  /\ lot \in [Lots -> Lot]
  /\ balance \in [Rules -> Nat]
  /\ grants \subseteq Grant
  /\ reserved \in [Rules -> [Kinds -> Nat]]
  /\ identity \in [Actions -> Row]
  /\ request \in [Keys -> Row]
  /\ loc \in [Requests -> {Unsent} \cup Tx]
-----------------------------------------------------------------------------
(* What the tables mean.                                                   *)

(* ResolveActive: the last continuous rule, or else the periodic activity  *)
(* while it lasts.                                                         *)
PeriodicAt(isClosed, now) == ~isClosed /\ now < PeriodEnd
CurrentOf(last, isClosed, now) ==
  IF last # Periodic THEN last
  ELSE IF PeriodicAt(isClosed, now) THEN Periodic ELSE NoRule
Current == CurrentOf(latest, closed, clock)

Expired(l, now) == now >= lot[l].expires
Source(c) == IF c.lot = NoLot THEN Periodic ELSE lot[c.lot].rule

(* The prizes of a draw; the sub-pool of experience for an expired ticket. *)
Pool(exp) == {z \in Prizes : exp => z.kind = "community_exp"}

(* The selections that GET /v1/me/reward-rules offers now.                 *)
Previews ==
  IF Current = NoRule THEN {}
  ELSE {[rule |-> Current, lot |-> NoLot, exp |-> FALSE] :
          n \in {n \in {Periodic} : balance[n] > 0 /\ PeriodicAt(closed, clock)}}
       \cup {[rule |-> Current, lot |-> l, exp |-> Expired(l, clock)] :
               l \in {l \in Lots : lot[l].left > 0}}

(* A client may also send again what some request had selected before.     *)
Sent  == {q \in Requests : loc[q] # Unsent}
Known == {NoChoice} \cup Previews \cup {loc[q].choice : q \in Sent}

HoldsIdentity(q) == loc[q].pc \in {"identity", "request", "rule"}
HoldsRequest(q)  == loc[q].pc \in {"request", "rule"}
HoldsRule(q)     == loc[q].pc = "rule"
RuleLockFree     == \A q \in Requests : ~HoldsRule(q)

Init ==
  /\ clock = 0 /\ closed = FALSE /\ latest = Periodic
  /\ published = [o \in Operators |-> NoRule]
  /\ expected = [o \in Operators |-> Periodic]
  /\ lot = [l \in Lots |-> NotMinted]
  /\ balance = [r \in Rules |-> IF r = Periodic THEN PeriodTickets ELSE 0]
  /\ \E won \in [Historical -> Prizes] :
       grants = {[action |-> h, rule |-> Periodic, source |-> Periodic, lot |-> NoLot,
                  exp |-> FALSE, prize |-> won[h], at |-> 0] : h \in Historical}
  /\ reserved = [r \in Rules |-> [k \in Kinds |-> 0]]
  /\ identity = [a \in Actions |-> Absent]
  /\ request = [k \in Keys |-> Absent]
  /\ loc = [q \in Requests |-> Unsent]
-----------------------------------------------------------------------------
(* One transaction of Execute.                                             *)

(* The client sends a request.                                             *)
Send(q, a, k, c) ==
  /\ loc[q] = Unsent /\ c \in Known
  /\ loc' = [loc EXCEPT ![q] = [pc |-> "sent", action |-> a, key |-> k, choice |-> c,
                                view |-> NoView, now |-> 0]]
  /\ UNCHANGED <<time, rules, wallet, books, ids>>

Matches(row, q) ==
  \A r \in row : r.action = loc[q].action /\ r.choice = loc[q].choice

(* The first lock.  A request whose payload differs from the stored one is *)
(* not served: it goes on with Fail.                                       *)
LockIdentity(q) ==
  /\ loc[q].pc = "sent"
  /\ \A r \in Requests : HoldsIdentity(r) => loc[r].action # loc[q].action
  /\ Matches(identity[loc[q].action], q)
  /\ loc' = [loc EXCEPT ![q].pc = "identity"]
  /\ UNCHANGED <<time, rules, wallet, books, ids>>

Done(q) == loc' = [loc EXCEPT ![q].pc = "done", ![q].view = NoView, ![q].now = 0]

(* The second lock; both identities are kept until the transaction ends.   *)
LocksRequest(q) ==
  /\ loc[q].pc = "identity"
  /\ \A r \in Requests : HoldsRequest(r) => loc[r].key # loc[q].key
  /\ Matches(request[loc[q].key], q)

(* A stored response is replayed.                                          *)
ReplayRequest(q) ==
  /\ LocksRequest(q)
  /\ request[loc[q].key] # Absent
  /\ Done(q)
  /\ UNCHANGED <<time, rules, wallet, books, ids>>

RecordOf(q, response) ==
  {[action |-> loc[q].action, choice |-> loc[q].choice, response |-> response]}

(* Mutant: a refusal is recorded for the request only.                     *)
SaveRefusalOnce(q, response) ==
  /\ identity' = IF response.code = "granted"
                 THEN [identity EXCEPT ![loc[q].action] = RecordOf(q, response)]
                 ELSE identity
  /\ request' = [request EXCEPT ![loc[q].key] = RecordOf(q, response)]
  /\ Done(q)

(* The response is recorded for both identities and the transaction ends.  *)
(* Both rows are locked, so the fence of the update never misses; a known  *)
(* action is recorded again with the response it has.                      *)
Save(q, response) ==
  /\ identity' = [identity EXCEPT ![loc[q].action] = RecordOf(q, response)]
  /\ request' = [request EXCEPT ![loc[q].key] = RecordOf(q, response)]
  /\ Done(q)

Refuse(q, code) ==
  /\ Save(q, Refused(code))
  /\ UNCHANGED <<time, rules, wallet, books>>

(* Mutant: only the grants under the rule in force are looked up.          *)
DrawnNow(a) == {g \in grants : g.action = a /\ g.rule = Current}

(* The grants of an action, under whatever rule.                           *)
Drawn(a) == {g \in grants : g.action = a}

(* A request key of the old protocol belongs to its action for ever, and   *)
(* cannot be used with a selection.                                        *)
Legacy(k) == {h \in Historical : LegacyKey[h] = k}
NewKey(q) ==
  /\ LocksRequest(q)
  /\ request[loc[q].key] = Absent
  /\ Legacy(loc[q].key) # {} =>
       Legacy(loc[q].key) = {loc[q].action} /\ loc[q].choice = NoChoice

(* The action was answered under another request key.                      *)
KnownAction(q) == identity[loc[q].action] # Absent

ReplayAction(q) ==
  /\ NewKey(q) /\ KnownAction(q)
  /\ \E r \in identity[loc[q].action] :
       /\ Legacy(loc[q].key) # {} => r.response.code = "granted"
       /\ Save(q, r.response)
  /\ UNCHANGED <<time, rules, wallet, books>>

(* A draw of the old protocol gets its identities when it is asked for.    *)
Adopt(q) ==
  /\ NewKey(q) /\ ~KnownAction(q)
  /\ loc[q].choice = NoChoice
  /\ \E g \in Drawn(loc[q].action) : Save(q, Granted(g.rule))
  /\ UNCHANGED <<time, rules, wallet, books>>

NewAction(q) == NewKey(q) /\ ~KnownAction(q) /\ Drawn(loc[q].action) = {}

RefuseOldProtocol(q) ==
  /\ NewAction(q) /\ loc[q].choice = NoChoice
  /\ Refuse(q, "selection_required")

RefuseDisabled(q) ==
  /\ NewAction(q) /\ loc[q].choice # NoChoice /\ MayDisable
  /\ Refuse(q, "actions_unavailable")

(* A new draw.  The lookups above were the first plain reads: the snapshot *)
(* of the transaction is taken.                                            *)
Begin(q) ==
  /\ NewAction(q) /\ loc[q].choice # NoChoice
  /\ loc' = [loc EXCEPT ![q].pc = "request",
                        ![q].view = [latest |-> latest, closed |-> closed]]
  /\ UNCHANGED <<time, rules, wallet, books, ids>>

(* Mutant: the current rule comes from the snapshot.                       *)
RuleInSnapshot(q) ==
  CurrentOf(loc[q].view.latest, loc[q].view.closed, clock) = loc[q].choice.rule

(* FindActiveAtCurrent is a locking read: it sees the rule in force.       *)
RuleStands(q) == Current = loc[q].choice.rule

(* The ticket is there and is as good as the selection says.  The periodic *)
(* activity is read from the snapshot.                                     *)
TicketStands(q) ==
  LET c == loc[q].choice
  IN IF c.lot = NoLot THEN ~c.exp /\ PeriodicAt(loc[q].view.closed, clock)
     ELSE lot[c.lot].left > 0 /\ Expired(c.lot, clock) = c.exp

LockRule(q) ==
  /\ loc[q].pc = "request" /\ RuleLockFree
  /\ RuleStands(q) /\ TicketStands(q)
  /\ loc' = [loc EXCEPT ![q].pc = "rule", ![q].now = clock]
  /\ UNCHANGED <<time, rules, wallet, books, ids>>

RefuseSelection(q) ==
  /\ loc[q].pc = "request" /\ RuleLockFree
  /\ ~(RuleStands(q) /\ TicketStands(q))
  /\ Refuse(q, "selection_changed")

(* Mutant: the ticket is charged to the account of the current rule.       *)
ChargedToCurrent(q) == loc[q].choice.rule

(* A ticket is spent where it was earned, whatever rule it is used under.  *)
ChargedTo(q) == Source(loc[q].choice)

(* Mutant: only the budget of the drawn prize is looked at.                *)
PoolFitsOne(q) ==
  \E z \in Pool(loc[q].choice.exp) :
    reserved[loc[q].choice.rule][z.kind] + z.amount <= Cap[z.kind]

(* The largest prize of either budget still fits.                          *)
PoolFits(q) ==
  \A z \in Pool(loc[q].choice.exp) :
    reserved[loc[q].choice.rule][z.kind] + z.amount <= Cap[z.kind]

(* Mutant: the time is not looked at again after the locks.                *)
StillTimelyUnchecked(q) == TRUE

(* The decision is taken after all locks: rule and ticket must not have    *)
(* run out while the transaction was waiting for them.                     *)
StillTimely(q) ==
  LET c == loc[q].choice
  IN /\ (c.rule = Periodic \/ c.lot = NoLot) => clock < PeriodEnd
     /\ c.lot # NoLot => Expired(c.lot, clock) = c.exp

Deciding(q) == HoldsRule(q) /\ Pool(loc[q].choice.exp) # {}

RefuseTicket(q) ==
  /\ Deciding(q) /\ balance[ChargedTo(q)] < 1
  /\ Refuse(q, "insufficient_tickets")

RefuseBudget(q) ==
  /\ Deciding(q) /\ balance[ChargedTo(q)] >= 1 /\ ~PoolFits(q)
  /\ Refuse(q, "budget_exceeded")

RefuseLate(q) ==
  /\ Deciding(q) /\ balance[ChargedTo(q)] >= 1 /\ PoolFits(q) /\ ~StillTimely(q)
  /\ Refuse(q, "selection_changed")

(* The prize is drawn, the ticket spent, the grant created, the amount     *)
(* reserved and the result recorded.  A grant id is unique for an action   *)
(* under a rule.                                                           *)
Draw(q, z) ==
  LET c == loc[q].choice
  IN /\ Deciding(q) /\ balance[ChargedTo(q)] >= 1 /\ PoolFits(q) /\ StillTimely(q)
     /\ z \in Pool(c.exp) /\ \A g \in Drawn(loc[q].action) : g.rule # c.rule
     /\ reserved[c.rule][z.kind] + z.amount <= Cap[z.kind]
     /\ balance' = [balance EXCEPT ![ChargedTo(q)] = @ - 1]
     /\ lot' = [l \in Lots |-> IF l = c.lot THEN [lot[l] EXCEPT !.left = @ - 1] ELSE lot[l]]
     /\ grants' = grants \cup
          {[action |-> loc[q].action, rule |-> c.rule, source |-> Source(c), lot |-> c.lot,
            exp |-> c.exp, prize |-> z, at |-> clock]}
     /\ reserved' = [reserved EXCEPT ![c.rule][z.kind] = @ + z.amount]
     /\ Save(q, Granted(c.rule))
     /\ UNCHANGED <<time, rules>>

(* A conflict, a failed statement, a timeout or a stopped process: nothing *)
(* of the transaction remains, and the client gets no receipt.             *)
Fail(q) ==
  /\ loc[q].pc \in {"sent", "identity", "request", "rule"}
  /\ Done(q)
  /\ UNCHANGED <<time, rules, wallet, books, ids>>
-----------------------------------------------------------------------------
(* What goes on meanwhile.                                                 *)

Tick ==
  /\ clock < MaxTime
  /\ clock' = clock + 1
  /\ UNCHANGED <<closed, rules, wallet, books, ids, loc>>

(* An operator looks at the current rule before publishing the next one.   *)
Look(o) ==
  /\ published[o] = NoRule /\ expected[o] # Current
  /\ expected' = [expected EXCEPT ![o] = Current]
  /\ UNCHANGED <<time, latest, published, wallet, books, ids, loc>>

(* Mutant: the rule the operator saw is not compared.                      *)
PublishUnseen(o) ==
  /\ published[o] = NoRule /\ RuleLockFree /\ latest < MaxRules
  /\ latest' = latest + 1
  /\ published' = [published EXCEPT ![o] = latest + 1]
  /\ UNCHANGED <<time, expected, wallet, books, ids, loc>>

(* A continuous rule is published if the operator has seen the last one.   *)
(* A publication that is sent again gets its first answer.                 *)
Publish(o) ==
  /\ published[o] = NoRule /\ RuleLockFree /\ latest < MaxRules
  /\ expected[o] = Current
  /\ latest' = latest + 1
  /\ published' = [published EXCEPT ![o] = latest + 1]
  /\ UNCHANGED <<time, expected, wallet, books, ids, loc>>

(* The forum grants a ticket; a receipt that was granted is only repeated. *)
MintTicket(l) ==
  /\ RuleLockFree /\ lot[l] = NotMinted
  /\ Current \notin {NoRule, Periodic}
  /\ lot' = [lot EXCEPT ![l] = [rule |-> Current, left |-> 1, expires |-> clock + Validity]]
  /\ balance' = [balance EXCEPT ![Current] = @ + 1]
  /\ UNCHANGED <<time, rules, books, ids, loc>>

(* The worker closes the periodic activity and expires its tickets.  A     *)
(* draw that read the activity as active holds a share of its row.         *)
ClosePeriod ==
  /\ ~closed /\ clock >= PeriodEnd
  /\ \A q \in Requests : HoldsRule(q) => loc[q].now >= PeriodEnd
  /\ closed' = TRUE
  /\ balance' = [balance EXCEPT ![Periodic] = 0]
  /\ UNCHANGED <<clock, rules, lot, books, ids, loc>>

Recall(q) ==
  \/ ReplayRequest(q) \/ ReplayAction(q) \/ Adopt(q)
  \/ RefuseOldProtocol(q) \/ RefuseDisabled(q) \/ Begin(q)

Decide(q) ==
  \/ RefuseTicket(q) \/ RefuseBudget(q) \/ RefuseLate(q)
  \/ \E z \in Prizes : Draw(q, z)

Execute(q) ==
  \/ \E a \in Actions, k \in Keys, c \in Choice : Send(q, a, k, c)
  \/ LockIdentity(q) \/ Recall(q) \/ LockRule(q) \/ RefuseSelection(q)
  \/ Decide(q) \/ Fail(q)

Next ==
  \/ \E q \in Requests : Execute(q)
  \/ \E o \in Operators : Look(o) \/ Publish(o)
  \/ \E l \in Lots : MintTicket(l)
  \/ Tick \/ ClosePeriod

Spec == Init /\ [][Next]_vars
-----------------------------------------------------------------------------
(* Properties.                                                             *)

(* However often a draw is requested, under whatever request keys and      *)
(* across changes of the rule, the member gets one grant for it: the       *)
(* action id, not the request key, is the identity of a draw.              *)
OneGrantPerAction ==
  \A g, h \in grants : g.action = h.action => g = h

(* Every answer ever given about an action is the same, it says "granted"  *)
(* exactly when there is a grant, and it names the rule of the grant.  So  *)
(* a refused draw is never charged later, and a retry never contradicts a  *)
(* receipt.                                                                *)
Truthful(r) ==
  /\ (r.response.code = "granted") = (\E g \in grants : g.action = r.action)
  /\ \A g \in grants : g.action = r.action => g.rule = r.response.rule
AnswersAgree ==
  /\ \A a \in Actions : \A r \in identity[a] : r.action = a /\ Truthful(r)
  /\ \A k \in Keys : \A r \in request[k] :
       Truthful(r) /\ \E s \in identity[r.action] : s.response = r.response

(* The account, the ticket lots and the grants tell the same story: every  *)
(* draw of the new protocol has spent one ticket, at the account where it  *)
(* was earned, and no ticket twice, also when the rule has changed since.  *)
SpentBy(r) == {g \in grants : g.source = r /\ g.action \notin Historical}
TicketsAddUp ==
  /\ \A l \in Lots : lot[l] # NotMinted => lot[l].left = 1 - Cardinality({g \in grants : g.lot = l})
  /\ balance[Periodic] = IF closed THEN 0 ELSE PeriodTickets - Cardinality(SpentBy(Periodic))
  /\ \A r \in Rules \ {Periodic} :
       balance[r] = Cardinality({l \in Lots : lot[l].rule = r}) - Cardinality(SpentBy(r))

(* A draw is decided on the time after its last lock: the periodic         *)
(* activity and its tickets are not used after their end, and a ticket     *)
(* wins experience only exactly if its validity has run out.               *)
DrawsAreTimely ==
  \A g \in grants : g.action \notin Historical =>
    /\ (g.rule = Periodic \/ g.lot = NoLot) => g.at < PeriodEnd
    /\ g.exp = (g.lot # NoLot /\ g.at >= lot[g.lot].expires)
    /\ g.exp => g.prize.kind = "community_exp"

(* A draw is made under the rule that is in force when it commits, not one *)
(* that was replaced while the draw waited for its locks.                  *)
DrawnUnderCurrentRule ==
  [][\A g \in grants' \ grants : g.rule = Current]_vars

(* The advertised odds: whenever a prize is drawn, every other prize of    *)
(* the pool could have been paid as well, and no budget exceeds its cap.   *)
OddsStand ==
  [][\A g \in grants' \ grants : \A z \in Pool(g.exp) :
       reserved[g.rule][z.kind] + z.amount <= Cap[z.kind]]_vars

(* No publication overwrites one its operator has not seen: each rule was  *)
(* published on the rule in force just before it, and no two on the same.  *)
PublicationsChain ==
  \A o \in Operators : published[o] # NoRule =>
    /\ expected[o] < published[o]
    /\ \A p \in Operators : published[p] # NoRule /\ expected[p] = expected[o] => p = o
    /\ expected[o] # NoRule /\ expected[o] # Periodic => published[o] = expected[o] + 1
=============================================================================
