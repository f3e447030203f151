----------------------------- MODULE DrawProofs -----------------------------
(***************************************************************************)
(* Theorems about the draws of a member, for every number of requests,     *)
(* actions, keys, rules, tickets and prizes, and without bounds on time.   *)
(*                                                                         *)
(* The inductive invariant says what the locks of a transaction buy: who   *)
(* holds a lock finds the world as it was when the lock was taken.         *)
(***************************************************************************)
EXTENDS Draw, FiniteSetTheorems, TLAPS

-----------------------------------------------------------------------------
(* The inductive invariant.                                                *)

(* Locks are exclusive.                                                    *)
LocksExclude ==
  \A p, q \in Requests : p # q =>
    /\ HoldsIdentity(p) /\ HoldsIdentity(q) => loc[p].action # loc[q].action
    /\ HoldsRequest(p) /\ HoldsRequest(q) => loc[p].key # loc[q].key
    /\ ~(HoldsRule(p) /\ HoldsRule(q))

(* While a new draw waits for the rule, nothing is recorded about it.      *)
Fresh(q) ==
  /\ identity[loc[q].action] = Absent
  /\ request[loc[q].key] = Absent
  /\ Drawn(loc[q].action) = {}
NewDrawsAreFresh == \A q \in Requests : HoldsRequest(q) => Fresh(q)

(* A selection names a rule, and only requests with one go for the rule.   *)
ChoicesAreMade ==
  \A q \in Requests :
    /\ loc[q] # Unsent => loc[q].choice = NoChoice \/ loc[q].choice.rule # NoRule
    /\ HoldsRequest(q) => loc[q].choice # NoChoice

(* The rule that was compared under the rule lock stays in force, apart    *)
(* from the end of the periodic activity.                                  *)
RuleIsHeld ==
  \A q \in Requests : HoldsRule(q) =>
    /\ loc[q].choice.rule = latest
    /\ latest = Periodic => closed = FALSE /\ loc[q].now < PeriodEnd

(* The ticket that was seen under the rule lock is still there.            *)
TicketIsHeld ==
  \A q \in Requests : HoldsRule(q) =>
    IF loc[q].choice.lot = NoLot THEN loc[q].choice.exp = FALSE
    ELSE lot[loc[q].choice.lot].left = 1

(* A ticket that was spent had been granted, and is not granted again.     *)
SpentWereMinted == \A g \in grants : g.lot # NoLot => lot[g.lot] # NotMinted

IInv ==
  /\ DrawTypeOK /\ LocksExclude /\ ChoicesAreMade /\ NewDrawsAreFresh
  /\ RuleIsHeld /\ TicketIsHeld
  /\ SpentWereMinted /\ OneGrantPerAction /\ AnswersAgree /\ DrawsAreTimely

-----------------------------------------------------------------------------
(* What a step of a transaction changes.                                   *)

(* A transaction that was sent has all its fields.                         *)
LEMMA SentIsTx ==
  ASSUME DrawTypeOK, NEW q \in Requests, loc[q].pc # "unsent"
  PROVE  loc[q] \in Tx
  BY DEF DrawTypeOK, Unsent

(* A transaction goes on to another place, with another snapshot or time.  *)
LEMMA GoOnType ==
  ASSUME DrawTypeOK, NEW q \in Requests, loc[q].pc # "unsent",
         NEW pc \in {"sent", "identity", "request", "rule", "done"},
         NEW view \in View, NEW now \in Nat,
         loc' = [loc EXCEPT ![q].pc = pc, ![q].view = view, ![q].now = now]
  PROVE  loc' \in [Requests -> {Unsent} \cup Tx]
<1>1. loc[q] \in Tx
  BY SentIsTx
<1>2. [loc[q] EXCEPT !.pc = pc, !.view = view, !.now = now] \in Tx
  BY <1>1 DEF Tx
<1>3. loc' = [loc EXCEPT ![q] = [loc[q] EXCEPT !.pc = pc, !.view = view, !.now = now]]
  BY DEF DrawTypeOK
<1>4. QED
  BY <1>2, <1>3 DEF DrawTypeOK

(* A transaction ends.                                                     *)
LEMMA DoneType ==
  ASSUME DrawTypeOK, NEW q \in Requests, loc[q].pc # "unsent", Done(q)
  PROVE  loc' \in [Requests -> {Unsent} \cup Tx]
<1>1. NoView \in View /\ 0 \in Nat
  BY DrawAssumption DEF NoView, View, Rules, Periodic
<1>2. QED
  BY <1>1, GoOnType DEF Done

(* A recorded response is a row of both tables.                            *)
LEMMA SaveType ==
  ASSUME DrawTypeOK, NEW q \in Requests, loc[q].pc # "unsent",
         NEW response \in Response, Save(q, response)
  PROVE  /\ loc' \in [Requests -> {Unsent} \cup Tx]
         /\ identity' \in [Actions -> Row]
         /\ request' \in [Keys -> Row]
<1>1. loc[q] \in Tx
  BY SentIsTx
<1>2. RecordOf(q, response) \in Row
  BY <1>1 DEF RecordOf, Row, Record, Tx
<1>3. identity' \in [Actions -> Row] /\ request' \in [Keys -> Row]
  BY <1>1, <1>2 DEF Save, DrawTypeOK, Tx
<1>4. loc' \in [Requests -> {Unsent} \cup Tx]
  BY DoneType DEF Save
<1>5. QED
  BY <1>3, <1>4

(* The refusals and grants of the code are responses.                      *)
LEMMA ResponseType ==
  /\ \A code \in Codes : Refused(code) \in Response
  /\ \A rule \in Rules : Granted(rule) \in Response
  BY DEF Refused, Granted, Response, Codes

-----------------------------------------------------------------------------
(* Type correctness.                                                       *)

(* The tables of the first moment, with the draws of the old protocol.     *)
LEMMA DrawInitType == Init => DrawTypeOK
<1> SUFFICES ASSUME Init PROVE DrawTypeOK
  OBVIOUS
<1>1. Periodic \in Rules /\ NoRule \notin Rules
  BY DrawAssumption DEF Rules, Periodic, NoRule
<1>2. grants \subseteq Grant
  <2>1. PICK won \in [Historical -> Prizes] :
          grants = {[action |-> h, rule |-> Periodic, source |-> Periodic, lot |-> NoLot,
                     exp |-> FALSE, prize |-> won[h], at |-> 0] : h \in Historical}
    BY DEF Init
  <2>2. ASSUME NEW h \in Historical
        PROVE  [action |-> h, rule |-> Periodic, source |-> Periodic, lot |-> NoLot,
                exp |-> FALSE, prize |-> won[h], at |-> 0] \in Grant
    <3>1. h \in Actions /\ won[h] \in Prizes
      BY DrawAssumption
    <3>2. QED
      BY <1>1, <3>1 DEF Grant
  <2>3. QED
    BY <2>1, <2>2
<1>3. lot \in [Lots -> Lot]
  BY DEF Init, Lot
<1>4. balance \in [Rules -> Nat] /\ reserved \in [Rules -> [Kinds -> Nat]]
  BY DrawAssumption DEF Init
<1>5. identity \in [Actions -> Row] /\ request \in [Keys -> Row]
  BY DEF Init, Row
<1>6. loc \in [Requests -> {Unsent} \cup Tx]
  BY DEF Init
<1>7. QED
  BY <1>1, <1>2, <1>3, <1>4, <1>5, <1>6 DEF Init, DrawTypeOK

(* A transaction that changes nothing but itself.                          *)
Waits(q) ==
  \/ \E a \in Actions, k \in Keys, c \in Choice : Send(q, a, k, c)
  \/ LockIdentity(q) \/ ReplayRequest(q) \/ Begin(q) \/ LockRule(q) \/ Fail(q)

(* No table changes while a transaction waits.                             *)
LEMMA WaitingLeavesTables ==
  ASSUME NEW q \in Requests, Waits(q)
  PROVE  UNCHANGED <<time, rules, wallet, books, ids>>
  BY DEF Waits, Send, LockIdentity, ReplayRequest, Begin, LockRule, Fail

(* Its own fields keep their types.                                        *)
LEMMA WaitingType ==
  ASSUME DrawTypeOK, NEW q \in Requests, Waits(q)
  PROVE  DrawTypeOK'
<1>1. UNCHANGED <<time, rules, wallet, books, ids>>
  BY WaitingLeavesTables
<1>2. loc' \in [Requests -> {Unsent} \cup Tx]
  <2>1. ASSUME NEW a \in Actions, NEW k \in Keys, NEW c \in Choice, Send(q, a, k, c)
        PROVE  loc' \in [Requests -> {Unsent} \cup Tx]
    <3>1. [pc |-> "sent", action |-> a, key |-> k, choice |-> c,
           view |-> NoView, now |-> 0] \in Tx
      BY DrawAssumption DEF Tx, NoView, View, Rules, Periodic
    <3>2. QED
      BY <2>1, <3>1 DEF Send, DrawTypeOK
  <2>2. CASE LockIdentity(q)
    <3>1. loc[q] \in Tx
      BY <2>2, SentIsTx DEF LockIdentity
    <3>2. loc' = [loc EXCEPT ![q] = [loc[q] EXCEPT !.pc = "identity"]]
          /\ [loc[q] EXCEPT !.pc = "identity"] \in Tx
      BY <2>2, <3>1 DEF LockIdentity, Tx
    <3>3. QED
      BY <3>2 DEF DrawTypeOK
  <2>3. CASE ReplayRequest(q)
    BY <2>3, DoneType DEF ReplayRequest, LocksRequest
  <2>4. CASE Begin(q)
    <3>1. loc[q] \in Tx
      BY <2>4, SentIsTx DEF Begin, NewAction, NewKey, LocksRequest
    <3>2. [latest |-> latest, closed |-> closed] \in View
      BY DEF DrawTypeOK, View
    <3>3. [loc[q] EXCEPT !.pc = "request", !.view = [latest |-> latest, closed |-> closed]] \in Tx
      BY <3>1, <3>2 DEF Tx
    <3>4. QED
      BY <2>4, <3>3 DEF Begin, DrawTypeOK
  <2>5. CASE LockRule(q)
    <3>1. loc[q] \in Tx
      BY <2>5, SentIsTx DEF LockRule
    <3>2. [loc[q] EXCEPT !.pc = "rule", !.now = clock] \in Tx
      BY <3>1 DEF Tx, DrawTypeOK
    <3>3. QED
      BY <2>5, <3>2 DEF LockRule, DrawTypeOK
  <2>6. CASE Fail(q)
    BY <2>6, DoneType DEF Fail
  <2>7. QED
    BY <2>1, <2>2, <2>3, <2>4, <2>5, <2>6 DEF Waits
<1>3. QED
  BY <1>1, <1>2 DEF DrawTypeOK, time, rules, wallet, books, ids

(* A response that charges nothing.                                        *)
Answer(q) ==
  \/ ReplayAction(q) \/ Adopt(q) \/ RefuseOldProtocol(q) \/ RefuseDisabled(q)
  \/ RefuseSelection(q) \/ RefuseTicket(q) \/ RefuseBudget(q) \/ RefuseLate(q)

(* It comes from the table, from an old grant, or is a refusal.            *)
LEMMA AnswerIsSaved ==
  ASSUME DrawTypeOK, NEW q \in Requests, Answer(q)
  PROVE  /\ UNCHANGED <<time, rules, wallet, books>>
         /\ loc[q].pc \in {"identity", "request", "rule"}
         /\ \E response \in Response :
              /\ Save(q, response)
              /\ \/ \E r \in identity[loc[q].action] : r.response = response
                 \/ \E g \in Drawn(loc[q].action) :
                      /\ response = Granted(g.rule)
                      /\ identity[loc[q].action] = Absent /\ request[loc[q].key] = Absent
                 \/ /\ response.code # "granted" /\ Drawn(loc[q].action) = {}
                    /\ identity[loc[q].action] = Absent /\ request[loc[q].key] = Absent
                 \/ /\ response.code # "granted"
                    /\ loc[q].pc \in {"request", "rule"}
         /\ loc[q].pc = "identity" => LocksRequest(q)
<1> DEFINE codes == Codes \ {"granted"}
<1>1. \A code \in codes : Refused(code) \in Response /\ Refused(code).code # "granted"
  BY ResponseType DEF Refused
<1>2. CASE ReplayAction(q)
  <2>1. loc[q].pc = "identity" /\ LocksRequest(q)
    BY <1>2 DEF ReplayAction, NewKey, LocksRequest
  <2>2. loc[q] \in Tx
    BY <2>1, SentIsTx
  <2>3. \A r \in identity[loc[q].action] : r.response \in Response
    BY <2>2 DEF DrawTypeOK, Tx, Row, Record, Absent
  <2>4. QED
    BY <1>2, <2>1, <2>3 DEF ReplayAction
<1>3. CASE Adopt(q)
  <2>1. loc[q].pc = "identity" /\ LocksRequest(q)
    BY <1>3 DEF Adopt, NewKey, LocksRequest
  <2>2. \A g \in Drawn(loc[q].action) : Granted(g.rule) \in Response
    BY ResponseType DEF Drawn, DrawTypeOK, Grant
  <2>3. identity[loc[q].action] = Absent /\ request[loc[q].key] = Absent
    BY <1>3 DEF Adopt, KnownAction, NewKey
  <2>4. QED
    BY <1>3, <2>1, <2>2, <2>3 DEF Adopt
<1>4. ASSUME NEW code \in codes, NewAction(q), Refuse(q, code)
      PROVE  Save(q, Refused(code)) /\ UNCHANGED <<time, rules, wallet, books>>
             /\ loc[q].pc = "identity" /\ LocksRequest(q) /\ Drawn(loc[q].action) = {}
             /\ identity[loc[q].action] = Absent /\ request[loc[q].key] = Absent
  BY <1>4 DEF NewAction, NewKey, KnownAction, LocksRequest, Refuse
<1>5. CASE RefuseOldProtocol(q) \/ RefuseDisabled(q)
  <2>1. "selection_required" \in codes /\ "actions_unavailable" \in codes
    BY DEF Codes
  <2>2. QED
    BY <1>1, <1>4, <1>5, <2>1 DEF RefuseOldProtocol, RefuseDisabled
<1>6. CASE RefuseSelection(q) \/ RefuseTicket(q) \/ RefuseBudget(q) \/ RefuseLate(q)
  <2>1. \E code \in codes : Refuse(q, code)
    BY <1>6 DEF RefuseSelection, RefuseTicket, RefuseBudget, RefuseLate, Codes
  <2>2. loc[q].pc \in {"request", "rule"}
    BY <1>6 DEF RefuseSelection, RefuseTicket, RefuseBudget, RefuseLate, Deciding, HoldsRule
  <2>3. QED
    BY <1>1, <2>1, <2>2 DEF Refuse
<1>7. QED
  BY <1>2, <1>3, <1>5, <1>6 DEF Answer

(* Under the rule lock, a ticket of the forum is a granted one.            *)
LEMMA SourceType ==
  ASSUME DrawTypeOK, TicketIsHeld, NEW q \in Requests, HoldsRule(q)
  PROVE  /\ Source(loc[q].choice) \in Rules
         /\ loc[q].choice.lot \in {NoLot} \cup Lots
         /\ loc[q].choice.lot # NoLot => lot[loc[q].choice.lot] # NotMinted
<1> DEFINE c == loc[q].choice
<1>1. loc[q] \in Tx
  BY SentIsTx DEF HoldsRule
<1>2. c.lot \in {NoLot} \cup Lots
  BY <1>1 DEF Tx, Choice
<1>3. CASE c.lot = NoLot
  BY <1>2, <1>3, DrawAssumption DEF Source, Rules, Periodic
<1>4. CASE c.lot # NoLot
  <2>1. c.lot \in Lots /\ lot[c.lot].left = 1
    BY <1>2, <1>4 DEF TicketIsHeld
  <2>2. lot[c.lot] # NotMinted
    BY <2>1 DEF NotMinted
  <2>3. lot[c.lot].rule \in Rules
    BY <2>1, <2>2 DEF DrawTypeOK, Lot
  <2>4. QED
    BY <1>2, <1>4, <2>2, <2>3 DEF Source
<1>5. QED
  BY <1>3, <1>4

(* The grant that a draw creates.                                          *)
GrantOf(q, z) ==
  [action |-> loc[q].action, rule |-> loc[q].choice.rule, source |-> Source(loc[q].choice),
   lot |-> loc[q].choice.lot, exp |-> loc[q].choice.exp, prize |-> z, at |-> clock]

(* A draw adds exactly this grant.                                         *)
LEMMA DrawAddsGrant ==
  ASSUME NEW q, NEW z, Draw(q, z)
  PROVE  grants' = grants \cup {GrantOf(q, z)}
  BY DEF Draw, GrantOf

(* A draw leaves well-typed tables: what it spends was there.              *)
LEMMA DrawType ==
  ASSUME DrawTypeOK, RuleIsHeld, TicketIsHeld, NEW q \in Requests, NEW z \in Prizes, Draw(q, z)
  PROVE  DrawTypeOK'
<1> DEFINE c == loc[q].choice
<1>1. HoldsRule(q) /\ loc[q] \in Tx
  BY SentIsTx DEF Draw, Deciding, HoldsRule
<1>2. c.rule \in Rules
  BY <1>1 DEF RuleIsHeld, DrawTypeOK
<1>3. Source(c) \in Rules /\ c.lot \in {NoLot} \cup Lots
  BY <1>1, SourceType
<1>4. Save(q, Granted(c.rule)) /\ Granted(c.rule) \in Response
  BY <1>2, ResponseType DEF Draw
<1>5. /\ loc' \in [Requests -> {Unsent} \cup Tx]
      /\ identity' \in [Actions -> Row] /\ request' \in [Keys -> Row]
  BY <1>1, <1>4, SaveType DEF HoldsRule
<1>6. grants' \subseteq Grant
  <2>1. GrantOf(q, z) \in Grant
    BY <1>1, <1>2, <1>3 DEF GrantOf, Grant, Tx, Choice, DrawTypeOK
  <2>2. QED
    BY <2>1 DEF Draw, GrantOf, DrawTypeOK
<1>7. balance' \in [Rules -> Nat]
  <2>1. balance[Source(c)] \in Nat /\ balance[Source(c)] >= 1
    BY <1>3 DEF Draw, ChargedTo, DrawTypeOK
  <2>2. QED
    BY <1>3, <2>1 DEF Draw, ChargedTo, DrawTypeOK
<1>8. lot' \in [Lots -> Lot]
  <2>1. ASSUME NEW l \in Lots, l = c.lot PROVE [lot[l] EXCEPT !.left = @ - 1] \in Lot
    <3>1. lot[l].left = 1 /\ lot[l] # NotMinted
      BY <1>1, <2>1, DrawAssumption DEF TicketIsHeld, NotMinted
    <3>2. QED
      BY <3>1 DEF DrawTypeOK, Lot
  <2>2. lot' = [l \in Lots |-> IF l = c.lot THEN [lot[l] EXCEPT !.left = @ - 1] ELSE lot[l]]
    BY DEF Draw
  <2>3. QED
    BY <2>1, <2>2 DEF DrawTypeOK
<1>9. reserved' \in [Rules -> [Kinds -> Nat]]
  <2>1. z.kind \in Kinds /\ z.amount \in Nat
    BY DrawAssumption
  <2>2. reserved[c.rule] \in [Kinds -> Nat]
    BY <1>2 DEF DrawTypeOK
  <2>3. [reserved[c.rule] EXCEPT ![z.kind] = @ + z.amount] \in [Kinds -> Nat]
    BY <2>1, <2>2
  <2>4. reserved' = [reserved EXCEPT ![c.rule] = [reserved[c.rule] EXCEPT ![z.kind] = @ + z.amount]]
    BY <1>2 DEF Draw, DrawTypeOK
  <2>5. QED
    BY <2>3, <2>4 DEF DrawTypeOK
<1>10. QED
  BY <1>5, <1>6, <1>7, <1>8, <1>9 DEF Draw, DrawTypeOK, time, rules

(* The clock, operators, tickets of the forum, and the end of the activity. *)
Environment ==
  \/ \E o \in Operators : Look(o) \/ Publish(o)
  \/ \E l \in Lots : MintTicket(l)
  \/ Tick \/ ClosePeriod

(* The rule in force is a published one, the activity, or none.            *)
LEMMA CurrentType ==
  ASSUME DrawTypeOK
  PROVE  Current \in {NoRule} \cup Rules
  BY DEF Current, CurrentOf, DrawTypeOK, Rules, Periodic

(* Types are kept by everything outside the transactions.                  *)
LEMMA EnvironmentType ==
  ASSUME DrawTypeOK, Environment
  PROVE  DrawTypeOK'
<1>1. ASSUME NEW o \in Operators, Look(o) PROVE DrawTypeOK'
  BY <1>1, CurrentType DEF Look, DrawTypeOK, time, wallet, books, ids
<1>2. ASSUME NEW o \in Operators, Publish(o) PROVE DrawTypeOK'
  <2>1. latest + 1 \in Rules
    BY <1>2, DrawAssumption DEF Publish, DrawTypeOK, Rules, Periodic
  <2>2. QED
    BY <1>2, <2>1 DEF Publish, DrawTypeOK, time, wallet, books, ids
<1>3. ASSUME NEW l \in Lots, MintTicket(l) PROVE DrawTypeOK'
  <2>1. Current \in Rules \ {Periodic}
    BY <1>3, CurrentType DEF MintTicket
  <2>2. clock + Validity \in Nat
    BY DrawAssumption DEF DrawTypeOK
  <2>3. lot' \in [Lots -> Lot] /\ balance' \in [Rules -> Nat]
    BY <1>3, <2>1, <2>2 DEF MintTicket, DrawTypeOK, Lot
  <2>4. QED
    BY <1>3, <2>3 DEF MintTicket, DrawTypeOK, time, rules, books, ids
<1>4. CASE Tick
  BY <1>4 DEF Tick, DrawTypeOK, rules, wallet, books, ids
<1>5. CASE ClosePeriod
  BY <1>5 DEF ClosePeriod, DrawTypeOK, rules, books, ids
<1>6. QED
  BY <1>1, <1>2, <1>3, <1>4, <1>5 DEF Environment

(* Every step is one of these.                                             *)
LEMMA NextCases ==
  ASSUME Next
  PROVE  \/ \E q \in Requests : Waits(q)
         \/ \E q \in Requests : Answer(q)
         \/ \E q \in Requests, z \in Prizes : Draw(q, z)
         \/ Environment
<1>1. ASSUME NEW q \in Requests, Execute(q)
      PROVE  Waits(q) \/ Answer(q) \/ \E z \in Prizes : Draw(q, z)
  BY <1>1 DEF Execute, Recall, Decide, Waits, Answer
<1>2. QED
  BY <1>1 DEF Next, Environment

(* The types are kept, given that tickets and rules stay under their lock. *)
LEMMA TypeStep ==
  ASSUME DrawTypeOK, RuleIsHeld, TicketIsHeld, Next
  PROVE  DrawTypeOK'
<1>1. ASSUME NEW q \in Requests, Answer(q) PROVE DrawTypeOK'
  <2>1. PICK response \in Response : Save(q, response)
    BY <1>1, AnswerIsSaved
  <2>2. loc[q].pc # "unsent" /\ UNCHANGED <<time, rules, wallet, books>>
    BY <1>1, AnswerIsSaved
  <2>3. /\ loc' \in [Requests -> {Unsent} \cup Tx]
        /\ identity' \in [Actions -> Row] /\ request' \in [Keys -> Row]
    BY <2>1, <2>2, SaveType
  <2>4. QED
    BY <2>2, <2>3 DEF DrawTypeOK, time, rules, wallet, books
<1>2. QED
  BY <1>1, NextCases, WaitingType, DrawType, EnvironmentType

-----------------------------------------------------------------------------
(* Locks.                                                                  *)

(* One transaction moves at a time, and keeps its action, key and choice.  *)
Moves(q) == Waits(q) \/ Answer(q) \/ \E z \in Prizes : Draw(q, z)

(* A transaction that moves waits, gets the next lock, or ends.            *)
LEMMA OneMoves ==
  ASSUME DrawTypeOK, NEW q \in Requests, Moves(q)
  PROVE  /\ \A p \in Requests \ {q} : loc'[p] = loc[p]
         /\ \/ loc'[q].pc \in {"sent", "done"}
            \/ /\ LockIdentity(q) /\ loc'[q].pc = "identity"
            \/ /\ Begin(q) /\ loc'[q].pc = "request"
            \/ /\ LockRule(q) /\ loc'[q].pc = "rule"
         /\ loc[q] # Unsent =>
              /\ loc'[q].action = loc[q].action /\ loc'[q].key = loc[q].key
              /\ loc'[q].choice = loc[q].choice
<1>1. CASE Done(q)
  BY <1>1 DEF Done, DrawTypeOK, Unsent, Tx
<1>2. ASSUME NEW response, Save(q, response) PROVE Done(q)
  BY <1>2 DEF Save
<1>3. CASE Answer(q) \/ \E z \in Prizes : Draw(q, z)
  <2>1. Done(q)
    BY <1>2, <1>3, AnswerIsSaved DEF Draw
  <2>2. QED
    BY <1>1, <2>1
<1>4. CASE ReplayRequest(q) \/ Fail(q)
  BY <1>1, <1>4 DEF ReplayRequest, Fail
<1>5. CASE \E a \in Actions, k \in Keys, c \in Choice : Send(q, a, k, c)
  BY <1>5 DEF Send, DrawTypeOK
<1>6. CASE LockIdentity(q)
  BY <1>6 DEF LockIdentity, DrawTypeOK, Unsent, Tx
<1>7. CASE Begin(q)
  BY <1>7 DEF Begin, NewAction, NewKey, LocksRequest, DrawTypeOK, Unsent, Tx
<1>8. CASE LockRule(q)
  BY <1>8 DEF LockRule, DrawTypeOK, Unsent, Tx
<1>9. QED
  BY <1>3, <1>4, <1>5, <1>6, <1>7, <1>8 DEF Moves, Waits

(* Nobody gets a lock that is held.                                        *)
LEMMA LocksStep ==
  ASSUME DrawTypeOK, LocksExclude, NEW q \in Requests, Moves(q)
  PROVE  LocksExclude'
<1> SUFFICES ASSUME NEW p \in Requests, p # q
             PROVE  /\ HoldsIdentity(p)' /\ HoldsIdentity(q)' =>
                         loc'[p].action # loc'[q].action
                    /\ HoldsRequest(p)' /\ HoldsRequest(q)' => loc'[p].key # loc'[q].key
                    /\ ~(HoldsRule(p)' /\ HoldsRule(q)')
  <2>1. \A p \in Requests \ {q} : loc'[p] = loc[p]
    BY OneMoves
  <2>2. QED
    BY <2>1 DEF LocksExclude, HoldsIdentity, HoldsRequest, HoldsRule
<1>1. loc'[p] = loc[p]
  BY OneMoves
<1>2. CASE loc'[q].pc \in {"sent", "done"}
  BY <1>2 DEF HoldsIdentity, HoldsRequest, HoldsRule
<1>3. CASE LockIdentity(q) /\ loc'[q].pc = "identity"
  <2>1. loc'[q].action = loc[q].action
    BY <1>3, OneMoves DEF LockIdentity, Unsent
  <2>2. QED
    BY <1>1, <1>3, <2>1 DEF LockIdentity, HoldsIdentity, HoldsRequest, HoldsRule
<1>4. CASE Begin(q) /\ loc'[q].pc = "request"
  <2>1. LocksRequest(q)
    BY <1>4 DEF Begin, NewAction, NewKey
  <2>2. loc'[q].action = loc[q].action /\ loc'[q].key = loc[q].key
    BY <2>1, OneMoves DEF LocksRequest, Unsent
  <2>3. QED
    BY <1>1, <1>4, <2>1, <2>2
       DEF LocksExclude, LocksRequest, HoldsIdentity, HoldsRequest, HoldsRule
<1>5. CASE LockRule(q) /\ loc'[q].pc = "rule"
  <2>1. loc'[q].action = loc[q].action /\ loc'[q].key = loc[q].key
    <3>1. loc[q] # Unsent
      BY <1>5 DEF LockRule, Unsent
    <3>2. QED
      BY <3>1, OneMoves
  <2>2. QED
    BY <1>1, <1>5, <2>1
       DEF LocksExclude, LockRule, RuleLockFree, HoldsIdentity, HoldsRequest, HoldsRule
<1>6. QED
  BY <1>2, <1>3, <1>4, <1>5, OneMoves

(* The moves of others, the clock and the tables do not touch a lock.      *)
LEMMA EnvironmentKeepsLocks ==
  ASSUME Environment
  PROVE  UNCHANGED <<books, ids, loc>>
  BY DEF Environment, Look, Publish, MintTicket, Tick, ClosePeriod, books, ids

(* A selection is made when the request is sent, and kept.                 *)
LEMMA ChoicesStep ==
  ASSUME DrawTypeOK, ChoicesAreMade, Next
  PROVE  ChoicesAreMade'
<1>1. ASSUME NEW q \in Requests, Moves(q) PROVE ChoicesAreMade'
  <2> SUFFICES /\ loc'[q] # Unsent =>
                    loc'[q].choice = NoChoice \/ loc'[q].choice.rule # NoRule
               /\ HoldsRequest(q)' => loc'[q].choice # NoChoice
    <3>1. \A p \in Requests \ {q} : loc'[p] = loc[p]
      BY <1>1, OneMoves
    <3>2. QED
      BY <3>1 DEF ChoicesAreMade, HoldsRequest
  <2>1. CASE loc[q] = Unsent
    <3>1. PICK a \in Actions, k \in Keys, c \in Choice : Send(q, a, k, c)
      <4>1. ~Answer(q) /\ \A z \in Prizes : ~Draw(q, z)
        BY <2>1, AnswerIsSaved DEF Unsent, Draw, Deciding, HoldsRule
      <4>2. QED
        BY <1>1, <2>1, <4>1 DEF Moves, Waits, LockIdentity, ReplayRequest, Begin, NewAction,
           NewKey, LocksRequest, LockRule, Fail, Unsent
    <3>2. \A d \in Previews : d.rule # NoRule
      BY DEF Previews
    <3>3. c = NoChoice \/ c.rule # NoRule
      BY <3>1, <3>2 DEF Send, Known, Sent, ChoicesAreMade
    <3>4. loc'[q].pc = "sent" /\ loc'[q].choice = c
      BY <3>1 DEF Send, DrawTypeOK
    <3>5. QED
      BY <3>3, <3>4 DEF HoldsRequest
  <2>2. CASE loc[q] # Unsent
    <3>1. loc'[q].choice = loc[q].choice
      BY <1>1, <2>2, OneMoves
    <3>2. HoldsRequest(q)' => HoldsRequest(q) \/ Begin(q)
      BY <1>1, OneMoves DEF HoldsRequest, LockRule
    <3>3. QED
      BY <2>2, <3>1, <3>2 DEF ChoicesAreMade, Begin
  <2>3. QED
    BY <2>1, <2>2
<1>2. CASE Environment
  BY <1>2, EnvironmentKeepsLocks DEF ChoicesAreMade, HoldsRequest
<1>3. QED
  BY <1>1, <1>2, NextCases DEF Moves

-----------------------------------------------------------------------------
(* What the locks of the identities buy.                                   *)

(* A response is written where the locks are held.                         *)
LEMMA SavedUnderLocks ==
  ASSUME DrawTypeOK, LocksExclude, NEW q \in Requests, Answer(q) \/ \E z \in Prizes : Draw(q, z)
  PROVE  /\ HoldsIdentity(q)
         /\ loc[q] \in Tx
         /\ \A p \in Requests : p # q /\ HoldsRequest(p) =>
              loc[p].action # loc[q].action /\ loc[p].key # loc[q].key
         /\ \E response : Save(q, response)
         /\ \A g \in grants' \ grants : g.action = loc[q].action
<1>1. loc[q].pc \in {"identity", "request", "rule"} /\ (loc[q].pc = "identity" => LocksRequest(q))
  BY AnswerIsSaved DEF Draw, Deciding, HoldsRule
<1>2. HoldsIdentity(q) /\ loc[q] \in Tx
  BY <1>1, SentIsTx DEF HoldsIdentity
<1>3. \A p \in Requests : p # q /\ HoldsRequest(p) =>
        loc[p].action # loc[q].action /\ loc[p].key # loc[q].key
  BY <1>1, <1>2 DEF LocksExclude, HoldsIdentity, HoldsRequest, LocksRequest
<1>4. \E response : Save(q, response)
  BY AnswerIsSaved DEF Draw
<1>5. \A g \in grants' \ grants : g.action = loc[q].action
  <2>1. CASE Answer(q)
    BY <2>1, AnswerIsSaved DEF books
  <2>2. ASSUME NEW z \in Prizes, Draw(q, z)
        PROVE  \A g \in grants' \ grants : g.action = loc[q].action
    BY <2>2, DrawAddsGrant DEF GrantOf
  <2>3. QED
    BY <2>1, <2>2
<1>6. QED
  BY <1>2, <1>3, <1>4, <1>5

(* Nobody records anything about an action or a key that is locked.        *)
LEMMA FreshStep ==
  ASSUME DrawTypeOK, LocksExclude, NewDrawsAreFresh, Next
  PROVE  NewDrawsAreFresh'
<1>1. ASSUME NEW q \in Requests, Waits(q) PROVE NewDrawsAreFresh'
  <2> SUFFICES ASSUME NEW p \in Requests, HoldsRequest(p)' PROVE Fresh(p)'
    BY DEF NewDrawsAreFresh
  <2>1. UNCHANGED <<identity, request, grants>>
    BY <1>1, WaitingLeavesTables DEF ids, books
  <2>2. CASE p # q
    <3>1. loc'[p] = loc[p]
      BY <1>1, <2>2, OneMoves DEF Moves
    <3>2. QED
      BY <2>1, <3>1 DEF NewDrawsAreFresh, HoldsRequest, Fresh, Drawn
  <2>3. CASE p = q
    <3>1. Begin(q) \/ LockRule(q)
      BY <1>1, <2>3, OneMoves DEF Moves, HoldsRequest
    <3>2. Fresh(q) /\ loc[q] # Unsent
      BY <3>1 DEF Begin, NewAction, KnownAction, NewKey, LocksRequest, LockRule, Fresh,
         NewDrawsAreFresh, HoldsRequest, Unsent
    <3>3. loc'[q].action = loc[q].action /\ loc'[q].key = loc[q].key
      BY <1>1, <3>2, OneMoves DEF Moves
    <3>4. QED
      BY <2>1, <2>3, <3>2, <3>3 DEF Fresh, Drawn
  <2>4. QED
    BY <2>2, <2>3
<1>2. ASSUME NEW q \in Requests, Answer(q) \/ \E z \in Prizes : Draw(q, z)
      PROVE  NewDrawsAreFresh'
  <2> SUFFICES ASSUME NEW p \in Requests, HoldsRequest(p)' PROVE Fresh(p)'
    BY DEF NewDrawsAreFresh
  <2>1. PICK response : Save(q, response)
    BY <1>2, SavedUnderLocks
  <2>2. p # q
    BY <2>1 DEF Save, Done, HoldsRequest, DrawTypeOK
  <2>3. loc'[p] = loc[p] /\ HoldsRequest(p) /\ Fresh(p)
    BY <1>2, <2>2, OneMoves DEF Moves, HoldsRequest, NewDrawsAreFresh
  <2>4. loc[p].action # loc[q].action /\ loc[p].key # loc[q].key
    BY <1>2, <2>2, <2>3, SavedUnderLocks
  <2>5. loc[p] \in Tx
    BY <2>3, SentIsTx DEF HoldsRequest
  <2>6. /\ identity'[loc[p].action] = identity[loc[p].action]
        /\ request'[loc[p].key] = request[loc[p].key]
    BY <2>1, <2>4, <2>5 DEF Save, DrawTypeOK, Tx
  <2>7. \A g \in grants' : g.action # loc[p].action
    BY <1>2, <2>3, <2>4, SavedUnderLocks DEF Fresh, Drawn
  <2>8. QED
    BY <2>3, <2>6, <2>7 DEF Fresh, Drawn
<1>3. CASE Environment
  BY <1>3, EnvironmentKeepsLocks DEF NewDrawsAreFresh, HoldsRequest, Fresh, Drawn, ids, books
<1>4. QED
  BY <1>1, <1>2, <1>3, NextCases

-----------------------------------------------------------------------------
(* What the rule lock buys.                                                *)

(* No publication and no close comes between the comparison and the draw.  *)
LEMMA RuleStep ==
  ASSUME DrawTypeOK, LocksExclude, ChoicesAreMade, RuleIsHeld, Next
  PROVE  RuleIsHeld'
<1>1. ASSUME NEW q \in Requests, Moves(q) PROVE RuleIsHeld'
  <2> SUFFICES ASSUME NEW p \in Requests, HoldsRule(p)'
               PROVE  /\ loc'[p].choice.rule = latest'
                      /\ latest' = Periodic => closed' = FALSE /\ loc'[p].now < PeriodEnd
    BY DEF RuleIsHeld
  <2>1. UNCHANGED <<clock, closed, latest>>
    BY <1>1, WaitingLeavesTables, AnswerIsSaved DEF Moves, Draw, time, rules
  <2>2. CASE p # q
    <3>1. loc'[p] = loc[p]
      BY <1>1, <2>2, OneMoves
    <3>2. QED
      BY <2>1, <3>1 DEF RuleIsHeld, HoldsRule
  <2>3. CASE p = q
    <3>1. LockRule(q)
      BY <1>1, <2>3, OneMoves DEF HoldsRule
    <3>2. loc[q] # Unsent /\ HoldsRequest(q) /\ loc[q] \in Tx
      BY <3>1, SentIsTx DEF LockRule, HoldsRequest, Unsent
    <3>3. loc'[q].choice = loc[q].choice /\ loc[q].choice.rule # NoRule
      BY <1>1, <3>2, OneMoves DEF ChoicesAreMade
    <3>4. loc'[q].now = clock
      BY <3>1, <3>2 DEF LockRule, DrawTypeOK, Tx
    <3>5. Current = loc[q].choice.rule
      BY <3>1 DEF LockRule, RuleStands
    <3>6. QED
      BY <2>1, <2>3, <3>3, <3>4, <3>5
         DEF Current, CurrentOf, PeriodicAt, DrawTypeOK
  <2>4. QED
    BY <2>2, <2>3
<1>2. CASE Environment
  <2>1. UNCHANGED loc
    BY <1>2, EnvironmentKeepsLocks
  <2>2. ASSUME NEW o \in Operators, Publish(o) PROVE \A q \in Requests : ~HoldsRule(q)'
    BY <2>2 DEF Publish, RuleLockFree, HoldsRule
  <2>3. CASE ClosePeriod
    <3>1. \A q \in Requests : HoldsRule(q) => loc[q].now >= PeriodEnd /\ loc[q] \in Tx
      BY <2>3, SentIsTx DEF ClosePeriod, HoldsRule
    <3>2. \A q \in Requests : HoldsRule(q) => latest # Periodic
      BY <3>1, DrawAssumption DEF RuleIsHeld, Tx
    <3>3. QED
      BY <2>1, <2>3, <3>2 DEF ClosePeriod, RuleIsHeld, HoldsRule, rules
  <2>4. CASE Tick \/ (\E o \in Operators : Look(o)) \/ (\E l \in Lots : MintTicket(l))
    <3>1. UNCHANGED <<closed, latest>>
      BY <2>4 DEF Tick, Look, MintTicket, rules, time
    <3>2. QED
      BY <2>1, <3>1 DEF RuleIsHeld, HoldsRule
  <2>5. QED
    BY <1>2, <2>2, <2>3, <2>4 DEF Environment, RuleIsHeld
<1>3. QED
  BY <1>1, <1>2, NextCases DEF Moves

(* No other draw spends the ticket in the meantime.                        *)
LEMMA TicketStep ==
  ASSUME DrawTypeOK, LocksExclude, TicketIsHeld, Next
  PROVE  TicketIsHeld'
<1>1. ASSUME NEW q \in Requests, Moves(q) PROVE TicketIsHeld'
  <2> SUFFICES ASSUME NEW p \in Requests, HoldsRule(p)'
               PROVE  IF loc'[p].choice.lot = NoLot THEN loc'[p].choice.exp = FALSE
                      ELSE lot'[loc'[p].choice.lot].left = 1
    BY DEF TicketIsHeld
  <2>1. lot' = lot
    <3>1. ASSUME NEW z \in Prizes, Draw(q, z) PROVE FALSE
      <4>1. HoldsRule(q) /\ Done(q)
        BY <3>1 DEF Draw, Deciding, Save
      <4>2. p # q
        BY <4>1 DEF Done, HoldsRule, DrawTypeOK
      <4>3. HoldsRule(p)
        BY <1>1, <4>2, OneMoves DEF HoldsRule
      <4>4. QED
        BY <4>1, <4>2, <4>3 DEF LocksExclude
    <3>2. QED
      BY <1>1, <3>1, WaitingLeavesTables, AnswerIsSaved DEF Moves, wallet
  <2>2. CASE p # q
    <3>1. loc'[p] = loc[p]
      BY <1>1, <2>2, OneMoves
    <3>2. QED
      BY <2>1, <3>1 DEF TicketIsHeld, HoldsRule
  <2>3. CASE p = q
    <3>1. LockRule(q)
      BY <1>1, <2>3, OneMoves DEF HoldsRule
    <3>2. loc[q] # Unsent /\ loc[q] \in Tx
      BY <3>1, SentIsTx DEF LockRule, Unsent
    <3>3. loc'[q].choice = loc[q].choice /\ loc[q].choice \in Choice
      BY <1>1, <3>2, OneMoves DEF Tx
    <3>4. TicketStands(q)
      BY <3>1 DEF LockRule
    <3>5. ASSUME NEW l \in Lots, lot[l].left > 0 PROVE lot[l].left = 1
      BY <3>5 DEF DrawTypeOK, Lot, NotMinted
    <3>6. QED
      BY <2>1, <2>3, <3>3, <3>4, <3>5 DEF TicketStands, Choice
  <2>4. QED
    BY <2>2, <2>3
<1>2. CASE Environment
  <2>1. UNCHANGED loc
    BY <1>2, EnvironmentKeepsLocks
  <2>2. ASSUME NEW l \in Lots, MintTicket(l) PROVE \A q \in Requests : ~HoldsRule(q)'
    BY <2>2 DEF MintTicket, RuleLockFree, HoldsRule
  <2>3. CASE Tick \/ ClosePeriod \/ \E o \in Operators : Look(o) \/ Publish(o)
    <3>1. UNCHANGED lot
      BY <2>3 DEF Tick, Look, Publish, ClosePeriod, wallet
    <3>2. QED
      BY <2>1, <3>1 DEF TicketIsHeld, HoldsRule
  <2>4. QED
    BY <1>2, <2>2, <2>3 DEF Environment, TicketIsHeld
<1>3. QED
  BY <1>1, <1>2, NextCases DEF Moves

-----------------------------------------------------------------------------
(* Grants and tickets.                                                     *)

(* Only a draw adds a grant; none is ever taken away.                      *)
LEMMA GrantsGrow ==
  ASSUME DrawTypeOK, [Next]_vars
  PROVE  \/ grants' = grants
         \/ \E q \in Requests, z \in Prizes : Draw(q, z) /\ grants' = grants \cup {GrantOf(q, z)}
<1>1. ASSUME NEW q \in Requests, Waits(q) PROVE grants' = grants
  BY <1>1, WaitingLeavesTables DEF books
<1>2. ASSUME NEW q \in Requests, Answer(q) PROVE grants' = grants
  BY <1>2, AnswerIsSaved DEF books
<1>3. CASE Environment
  BY <1>3, EnvironmentKeepsLocks DEF books
<1>4. CASE UNCHANGED vars
  BY <1>4 DEF vars, books
<1>5. QED
  BY <1>1, <1>2, <1>3, <1>4, NextCases, DrawAddsGrant

(* A ticket that was granted keeps its rule and its validity.              *)
LEMMA LotsStay ==
  ASSUME DrawTypeOK, TicketIsHeld, Next, NEW l \in Lots, lot[l] # NotMinted
  PROVE  lot'[l] # NotMinted /\ lot'[l].expires = lot[l].expires
<1>1. lot[l] \in [rule : Rules \ {Periodic}, left : {0, 1}, expires : Nat]
  BY DEF DrawTypeOK, Lot
<1>2. lot[l].rule # NoRule
  BY <1>1 DEF Rules, NoRule, Periodic
<1>3. ASSUME NEW q \in Requests, NEW z \in Prizes, Draw(q, z)
      PROVE  lot'[l].rule = lot[l].rule /\ lot'[l].expires = lot[l].expires
  <2>1. lot'[l] = IF l = loc[q].choice.lot THEN [lot[l] EXCEPT !.left = @ - 1] ELSE lot[l]
    BY <1>3 DEF Draw
  <2>2. QED
    BY <1>1, <2>1
<1>4. ASSUME NEW m \in Lots, MintTicket(m) PROVE lot'[l] = lot[l]
  BY <1>4 DEF MintTicket, DrawTypeOK
<1>5. CASE (\E q \in Requests : Waits(q) \/ Answer(q)) \/ Tick \/ ClosePeriod
           \/ \E o \in Operators : Look(o) \/ Publish(o)
  BY <1>5, WaitingLeavesTables, AnswerIsSaved DEF wallet, Tick, ClosePeriod, Look, Publish
<1>6. QED
  BY <1>2, <1>3, <1>4, <1>5, NextCases DEF Environment, NotMinted

(* Tickets that were spent stay granted.                                   *)
LEMMA SpentStep ==
  ASSUME DrawTypeOK, TicketIsHeld, SpentWereMinted, Next
  PROVE  SpentWereMinted'
<1>1. \A g \in grants : g.lot \in {NoLot} \cup Lots
  BY DEF DrawTypeOK, Grant
<1>2. \A g \in grants : g.lot # NoLot => lot'[g.lot] # NotMinted
  BY <1>1, LotsStay DEF SpentWereMinted
<1>3. ASSUME NEW q \in Requests, NEW z \in Prizes, Draw(q, z), GrantOf(q, z).lot # NoLot
      PROVE  lot'[GrantOf(q, z).lot] # NotMinted
  <2>1. HoldsRule(q) /\ GrantOf(q, z).lot = loc[q].choice.lot
    BY <1>3 DEF Draw, Deciding, GrantOf
  <2>2. QED
    BY <1>3, <2>1, SourceType, LotsStay
<1>4. QED
  BY <1>2, <1>3, GrantsGrow DEF SpentWereMinted

(* A draw is made only for an action that has no grant.                    *)
LEMMA OneGrantStep ==
  ASSUME DrawTypeOK, NewDrawsAreFresh, OneGrantPerAction, Next
  PROVE  OneGrantPerAction'
<1>1. ASSUME NEW q \in Requests, NEW z \in Prizes, Draw(q, z)
      PROVE  \A g \in grants : g.action # GrantOf(q, z).action
  <2>1. HoldsRequest(q)
    BY <1>1 DEF Draw, Deciding, HoldsRule, HoldsRequest
  <2>2. QED
    BY <2>1 DEF NewDrawsAreFresh, Fresh, Drawn, GrantOf
<1>2. QED
  BY <1>1, GrantsGrow DEF OneGrantPerAction

(* The decision looks at the time after the last lock.                     *)
LEMMA TimelyStep ==
  ASSUME DrawTypeOK, TicketIsHeld, SpentWereMinted, DrawsAreTimely, Next
  PROVE  DrawsAreTimely'
<1> DEFINE Timely(g, expires) ==
      /\ (g.rule = Periodic \/ g.lot = NoLot) => g.at < PeriodEnd
      /\ g.exp = (g.lot # NoLot /\ g.at >= expires)
      /\ g.exp => g.prize.kind = "community_exp"
<1>1. ASSUME NEW g \in grants, g.action \notin Historical
      PROVE  Timely(g, lot'[g.lot].expires)
  <2>1. Timely(g, lot[g.lot].expires)
    BY <1>1 DEF DrawsAreTimely
  <2>2. g.lot \in {NoLot} \cup Lots
    BY DEF DrawTypeOK, Grant
  <2>3. g.lot # NoLot => lot'[g.lot].expires = lot[g.lot].expires
    BY <2>2, LotsStay DEF SpentWereMinted
  <2>4. QED
    BY <2>1, <2>3
<1>2. ASSUME NEW q \in Requests, NEW z \in Prizes, Draw(q, z)
      PROVE  Timely(GrantOf(q, z), lot'[GrantOf(q, z).lot].expires)
  <2> DEFINE c == loc[q].choice
  <2>1. HoldsRule(q) /\ StillTimely(q) /\ z \in Pool(c.exp)
    BY <1>2 DEF Draw, Deciding
  <2>2. c.exp \in BOOLEAN
    BY <2>1, SentIsTx DEF HoldsRule, Tx, Choice
  <2>3. CASE c.lot = NoLot
    BY <2>1, <2>2, <2>3 DEF GrantOf, StillTimely, TicketIsHeld, Pool
  <2>4. CASE c.lot # NoLot
    <3>1. lot'[c.lot].expires = lot[c.lot].expires
      BY <1>2, <2>1, <2>4, SourceType, LotsStay
    <3>2. c.exp = (clock >= lot[c.lot].expires)
      BY <2>1, <2>4 DEF StillTimely, Expired
    <3>3. QED
      BY <2>1, <2>2, <2>4, <3>1, <3>2 DEF GrantOf, StillTimely, Pool
  <2>5. QED
    BY <2>3, <2>4
<1>3. QED
  BY <1>1, <1>2, GrantsGrow DEF DrawsAreTimely

-----------------------------------------------------------------------------
(* Answers.                                                                *)

(* AnswersAgree over any grants and rows, for a step from one to another.  *)
TruthIn(G, action, response) ==
  /\ response.code = "granted" <=> \E g \in G : g.action = action
  /\ \A g \in G : g.action = action => g.rule = response.rule

AgreeIn(G, known, asked) ==
  /\ \A a \in Actions : \A r \in known[a] : r.action = a /\ TruthIn(G, a, r.response)
  /\ \A k \in Keys : \A r \in asked[k] :
       /\ TruthIn(G, r.action, r.response)
       /\ \E s \in known[r.action] : s.response = r.response

(* The two forms agree now.                                                *)
LEMMA TruthNow ==
  ASSUME NEW r
  PROVE  Truthful(r) <=> TruthIn(grants, r.action, r.response)
  BY Zenon DEF Truthful, TruthIn

(* The two forms agree in the next state.                                  *)
LEMMA TruthNext ==
  ASSUME NEW r
  PROVE  Truthful(r)' <=> TruthIn(grants', r.action, r.response)
  BY Zenon DEF Truthful, TruthIn

(* AnswersAgree, in the form over grants and rows.                         *)
LEMMA AgreeNow == AnswersAgree => AgreeIn(grants, identity, request)
  BY TruthNow, Zenon DEF AnswersAgree, AgreeIn

(* And back, in the next state.                                            *)
LEMMA AgreeNext ==
  ASSUME AgreeIn(grants', identity', request')
  PROVE  AnswersAgree'
<1>1. ASSUME NEW a \in Actions, NEW r \in identity'[a]
      PROVE  r.action = a /\ Truthful(r)'
  <2>1. r.action = a /\ TruthIn(grants', a, r.response)
    BY <1>1 DEF AgreeIn
  <2>2. QED
    BY <2>1, TruthNext
<1>2. ASSUME NEW k \in Keys, NEW r \in request'[k]
      PROVE  Truthful(r)' /\ \E s \in identity'[r.action] : s.response = r.response
  <2>1. TruthIn(grants', r.action, r.response)
    BY <1>2 DEF AgreeIn
  <2>2. \E s \in identity'[r.action] : s.response = r.response
    BY <1>2 DEF AgreeIn
  <2>3. QED
    BY <2>1, <2>2, TruthNext
<1>3. QED
  BY <1>1, <1>2, Zenon DEF AnswersAgree

(* A true response is recorded for an action and a key, where the action   *)
(* either has this response already, or none.                              *)
LEMMA AgreeOnce ==
  ASSUME NEW G, NEW H, NEW known \in [Actions -> Row], NEW asked \in [Keys -> Row],
         AgreeIn(G, known, asked),
         NEW a \in Actions, NEW k \in Keys, NEW rec \in Record, rec.action = a,
         \A s \in known[a] : s.response = rec.response,
         TruthIn(H, a, rec.response),
         \A b, response : b # a => (TruthIn(G, b, response) => TruthIn(H, b, response))
  PROVE  AgreeIn(H, [known EXCEPT ![a] = {rec}], [asked EXCEPT ![k] = {rec}])
<1> DEFINE known2 == [known EXCEPT ![a] = {rec}]
           asked2 == [asked EXCEPT ![k] = {rec}]
<1>1. ASSUME NEW b \in Actions, NEW r \in known2[b]
      PROVE  r.action = b /\ TruthIn(H, b, r.response)
  <2>1. CASE b = a
    BY <1>1, <2>1
  <2>2. CASE b # a
    <3>1. r \in known[b]
      BY <1>1, <2>2
    <3>2. QED
      BY <2>2, <3>1 DEF AgreeIn
  <2>3. QED
    BY <2>1, <2>2
<1>2. ASSUME NEW h \in Keys, NEW r \in asked2[h]
      PROVE  /\ TruthIn(H, r.action, r.response)
             /\ \E s \in known2[r.action] : s.response = r.response
  <2>1. CASE h = k
    BY <1>2, <2>1
  <2>2. CASE h # k
    <3>1. r \in asked[h]
      BY <1>2, <2>2
    <3>2. r.action \in Actions
      BY <3>1 DEF Row, Absent, Record
    <3>3. TruthIn(G, r.action, r.response)
      BY <3>1 DEF AgreeIn
    <3>4. PICK s \in known[r.action] : s.response = r.response
      BY <3>1 DEF AgreeIn
    <3>5. CASE r.action = a
      <4>1. r.response = rec.response
        BY <3>4, <3>5
      <4>2. QED
        BY <3>5, <4>1
    <3>6. CASE r.action # a
      <4>1. known2[r.action] = known[r.action]
        BY <3>2, <3>6
      <4>2. QED
        BY <3>3, <3>4, <3>6, <4>1
    <3>7. QED
      BY <3>5, <3>6
  <2>3. QED
    BY <2>1, <2>2
<1>3. QED
  BY <1>1, <1>2 DEF AgreeIn

(* An answer that charges nothing repeats what is known.                   *)
LEMMA AnswerStep ==
  ASSUME DrawTypeOK, LocksExclude, NewDrawsAreFresh, OneGrantPerAction, AnswersAgree,
         NEW q \in Requests, Answer(q)
  PROVE  AnswersAgree'
<1> DEFINE a == loc[q].action
           k == loc[q].key
<1>1. a \in Actions /\ k \in Keys /\ loc[q].choice \in Choice
  BY SavedUnderLocks DEF Tx
<1>2. PICK response \in Response :
        /\ Save(q, response)
        /\ \/ \E r \in identity[a] : r.response = response
           \/ /\ identity[a] = Absent
              /\ \/ \E g \in Drawn(a) : response = Granted(g.rule)
                 \/ response.code # "granted" /\ Drawn(a) = {}
  <2>1. loc[q].pc \in {"request", "rule"} => Fresh(q)
    BY DEF NewDrawsAreFresh, HoldsRequest
  <2>2. QED
    BY <2>1, AnswerIsSaved DEF Fresh
<1>3. PICK rec : rec = [action |-> a, choice |-> loc[q].choice, response |-> response]
  OBVIOUS
<1>4. rec \in Record /\ rec.action = a /\ rec.response = response
  BY <1>1, <1>3 DEF Record
<1>5. identity' = [identity EXCEPT ![a] = {rec}] /\ request' = [request EXCEPT ![k] = {rec}]
  BY <1>2, <1>3 DEF Save, RecordOf
<1>6. AgreeIn(grants, identity, request)
  BY AgreeNow
<1>7. TruthIn(grants, a, response)
  <2>1. CASE \E r \in identity[a] : r.response = response
    BY <1>1, <1>6, <2>1 DEF AgreeIn
  <2>2. CASE \E g \in Drawn(a) : response = Granted(g.rule)
    BY <2>2 DEF Drawn, Granted, OneGrantPerAction, TruthIn
  <2>3. CASE response.code # "granted" /\ Drawn(a) = {}
    BY <2>3 DEF Drawn, TruthIn
  <2>4. QED
    BY <1>2, <2>1, <2>2, <2>3
<1>8. \A s \in identity[a] : s.response = response
  <2>1. identity[a] \in Row
    BY <1>1 DEF DrawTypeOK
  <2>2. QED
    BY <1>2, <2>1 DEF Row, Absent
<1>9. grants' = grants
  BY AnswerIsSaved DEF books
<1>10. AgreeIn(grants, [identity EXCEPT ![a] = {rec}], [request EXCEPT ![k] = {rec}])
  <2>1. identity \in [Actions -> Row] /\ request \in [Keys -> Row]
    BY DEF DrawTypeOK
  <2>2. QED
    BY <1>1, <1>4, <1>6, <1>7, <1>8, <2>1, AgreeOnce
<1>11. QED
  BY <1>5, <1>9, <1>10, AgreeNext

(* A new grant is answered as granted, and nothing else is known of it.    *)
LEMMA DrawnAnswerStep ==
  ASSUME DrawTypeOK, LocksExclude, RuleIsHeld, NewDrawsAreFresh, AnswersAgree,
         NEW q \in Requests, NEW z \in Prizes, Draw(q, z)
  PROVE  AnswersAgree'
<1> DEFINE a == loc[q].action
           k == loc[q].key
<1>1. HoldsRule(q) /\ HoldsRequest(q) /\ loc[q] \in Tx
  BY SentIsTx DEF Draw, Deciding, HoldsRule, HoldsRequest
<1>2. a \in Actions /\ k \in Keys /\ loc[q].choice \in Choice
  BY <1>1 DEF Tx
<1>3. PICK g : g = GrantOf(q, z)
  OBVIOUS
<1>4. g.action = a /\ g.rule = loc[q].choice.rule /\ g.rule \in Rules
  BY <1>1, <1>3 DEF GrantOf, RuleIsHeld, DrawTypeOK
<1>5. PICK rec : rec = [action |-> a, choice |-> loc[q].choice, response |-> Granted(g.rule)]
  OBVIOUS
<1>6. rec \in Record /\ rec.action = a /\ rec.response = Granted(g.rule)
  BY <1>2, <1>4, <1>5, ResponseType DEF Record
<1>7. identity' = [identity EXCEPT ![a] = {rec}] /\ request' = [request EXCEPT ![k] = {rec}]
  BY <1>4, <1>5 DEF Draw, Save, RecordOf
<1>8. grants' = grants \cup {g}
  BY <1>3, DrawAddsGrant
<1>9. identity[a] = {} /\ \A f \in grants : f.action # a
  BY <1>1 DEF NewDrawsAreFresh, Fresh, Drawn, Absent
<1>10. TruthIn(grants \cup {g}, a, Granted(g.rule))
  BY <1>4, <1>9 DEF TruthIn, Granted
<1>11. \A b, response : b # a =>
         (TruthIn(grants, b, response) => TruthIn(grants \cup {g}, b, response))
  BY <1>4 DEF TruthIn
<1>12. AgreeIn(grants \cup {g}, [identity EXCEPT ![a] = {rec}], [request EXCEPT ![k] = {rec}])
  <2>1. identity \in [Actions -> Row] /\ request \in [Keys -> Row]
    BY DEF DrawTypeOK
  <2>2. AgreeIn(grants, identity, request)
    BY AgreeNow
  <2>3. QED
    BY <1>2, <1>6, <1>9, <1>10, <1>11, <2>1, <2>2, AgreeOnce
<1>13. QED
  BY <1>7, <1>8, <1>12, AgreeNext

(* Every step keeps the answers in agreement.                              *)
LEMMA AnswersStep ==
  ASSUME DrawTypeOK, LocksExclude, RuleIsHeld, NewDrawsAreFresh, OneGrantPerAction,
         AnswersAgree, Next
  PROVE  AnswersAgree'
<1>1. ASSUME UNCHANGED <<grants, identity, request>> PROVE AnswersAgree'
  BY <1>1, AgreeNow, AgreeNext
<1>2. CASE Environment \/ \E q \in Requests : Waits(q)
  BY <1>1, <1>2, EnvironmentKeepsLocks, WaitingLeavesTables DEF books, ids
<1>3. QED
  BY <1>2, NextCases, AnswerStep, DrawnAnswerStep

-----------------------------------------------------------------------------
(* The theorems.                                                           *)

(* The invariant holds at first.                                           *)
LEMMA IInvInit == Init => IInv
<1> SUFFICES ASSUME Init PROVE IInv
  OBVIOUS
<1>1. DrawTypeOK
  BY DrawInitType
<1>2. \A q \in Requests : loc[q].pc = "unsent"
  BY DEF Init, Unsent
<1>3. LocksExclude /\ NewDrawsAreFresh /\ RuleIsHeld /\ TicketIsHeld
  BY <1>2 DEF LocksExclude, NewDrawsAreFresh, RuleIsHeld, TicketIsHeld, HoldsIdentity,
     HoldsRequest, HoldsRule
<1>4. ChoicesAreMade
  BY <1>2 DEF Init, ChoicesAreMade, HoldsRequest
<1>5. \A g \in grants : g.action \in Historical /\ g.lot = NoLot
  BY DEF Init
<1>6. OneGrantPerAction
  <2>1. PICK won \in [Historical -> Prizes] :
          grants = {[action |-> h, rule |-> Periodic, source |-> Periodic, lot |-> NoLot,
                     exp |-> FALSE, prize |-> won[h], at |-> 0] : h \in Historical}
    BY DEF Init
  <2>2. ASSUME NEW g \in grants, NEW h \in grants, g.action = h.action PROVE g = h
    <3>1. PICK i \in Historical :
            g = [action |-> i, rule |-> Periodic, source |-> Periodic, lot |-> NoLot,
                 exp |-> FALSE, prize |-> won[i], at |-> 0]
      BY <2>1
    <3>2. PICK j \in Historical :
            h = [action |-> j, rule |-> Periodic, source |-> Periodic, lot |-> NoLot,
                 exp |-> FALSE, prize |-> won[j], at |-> 0]
      BY <2>1
    <3>3. i = j
      BY <2>2, <3>1, <3>2
    <3>4. QED
      BY <3>1, <3>2, <3>3
  <2>3. QED
    BY <2>2 DEF OneGrantPerAction
<1>7. AnswersAgree
  BY DEF Init, AnswersAgree, Absent
<1>8. QED
  BY <1>1, <1>3, <1>4, <1>5, <1>6, <1>7 DEF IInv, SpentWereMinted, DrawsAreTimely

(* Every step keeps the invariant.                                         *)
LEMMA IInvStep == IInv /\ [Next]_vars => IInv'
<1> SUFFICES ASSUME IInv, [Next]_vars PROVE IInv'
  OBVIOUS
<1>1. CASE Next
  <2>1. LocksExclude'
    <3>1. CASE Environment
      BY <3>1, EnvironmentKeepsLocks
         DEF IInv, LocksExclude, HoldsIdentity, HoldsRequest, HoldsRule
    <3>2. QED
      BY <1>1, <3>1, NextCases, LocksStep DEF IInv, Moves
  <2>2. QED
    BY <1>1, <2>1, TypeStep, ChoicesStep, FreshStep, RuleStep, TicketStep, SpentStep,
       OneGrantStep, AnswersStep, TimelyStep DEF IInv
<1>2. CASE UNCHANGED vars
  <2>1. UNCHANGED <<clock, closed, latest, published, expected, lot, balance, grants,
                    reserved, identity, request, loc>>
    BY <1>2 DEF vars, time, rules, wallet, books, ids
  <2>2. AnswersAgree'
    BY <2>1, AgreeNow, AgreeNext DEF IInv
  <2>3. QED
    BY <2>1, <2>2 DEF IInv, DrawTypeOK, LocksExclude, ChoicesAreMade, NewDrawsAreFresh,
       RuleIsHeld, TicketIsHeld, SpentWereMinted, OneGrantPerAction, DrawsAreTimely,
       HoldsIdentity, HoldsRequest, HoldsRule, Fresh, Drawn
<1>3. QED
  BY <1>1, <1>2

(* So it holds in every reachable state.                                   *)
LEMMA IInvHolds == Spec => []IInv
  BY IInvInit, IInvStep, PTL DEF Spec

(* Every reachable state has the types of its tables.                      *)
THEOREM DrawTypeCorrect == Spec => []DrawTypeOK
  BY IInvHolds, PTL DEF IInv

(* The action id is the identity of a draw: however often, under whatever  *)
(* request keys and rules it is asked for, there is at most one grant.     *)
THEOREM DrawnAtMostOnce == Spec => []OneGrantPerAction
  BY IInvHolds, PTL DEF IInv

(* No retry contradicts a receipt: all answers about an action agree with  *)
(* each other and with the grants.                                         *)
THEOREM ReceiptsAreTrue == Spec => []AnswersAgree
  BY IInvHolds, PTL DEF IInv

(* A draw that waited for its locks is decided on the time afterwards.     *)
THEOREM DecisionsAreTimely == Spec => []DrawsAreTimely
  BY IInvHolds, PTL DEF IInv

(* A draw is made under the rule in force: what was compared under the     *)
(* rule lock cannot be replaced until the draw has committed.              *)
THEOREM RuleCannotChange == Spec => DrawnUnderCurrentRule
<1>1. IInv /\ [Next]_vars => [\A g \in grants' \ grants : g.rule = Current]_vars
  <2> SUFFICES ASSUME IInv, [Next]_vars PROVE \A g \in grants' \ grants : g.rule = Current
    OBVIOUS
  <2>1. ASSUME NEW q \in Requests, NEW z \in Prizes, Draw(q, z)
        PROVE  GrantOf(q, z).rule = Current
    <3>1. HoldsRule(q) /\ StillTimely(q)
      BY <2>1 DEF Draw, Deciding
    <3>2. loc[q].choice.rule = latest /\ (latest = Periodic => closed = FALSE)
      BY <3>1 DEF IInv, RuleIsHeld
    <3>3. latest = Periodic => clock < PeriodEnd
      BY <3>1, <3>2 DEF StillTimely
    <3>4. QED
      BY <3>2, <3>3 DEF GrantOf, Current, CurrentOf, PeriodicAt
  <2>2. QED
    BY <2>1, GrantsGrow DEF IInv
<1>2. QED
  BY <1>1, IInvHolds, PTL DEF Spec, DrawnUnderCurrentRule

(* The odds do not depend on what is left: a prize is drawn only while     *)
(* every prize of its pool can still be paid.                              *)
THEOREM OddsDoNotBend == Spec => OddsStand
<1>1. IInv /\ [Next]_vars =>
        [\A g \in grants' \ grants : \A z \in Pool(g.exp) :
           reserved[g.rule][z.kind] + z.amount <= Cap[z.kind]]_vars
  <2> SUFFICES ASSUME IInv, [Next]_vars
               PROVE  \A g \in grants' \ grants : \A z \in Pool(g.exp) :
                        reserved[g.rule][z.kind] + z.amount <= Cap[z.kind]
    OBVIOUS
  <2>1. ASSUME NEW q \in Requests, NEW z \in Prizes, Draw(q, z), NEW y \in Pool(GrantOf(q, z).exp)
        PROVE  reserved[GrantOf(q, z).rule][y.kind] + y.amount <= Cap[y.kind]
    BY <2>1 DEF Draw, PoolFits, GrantOf
  <2>2. QED
    BY <2>1, GrantsGrow DEF IInv
<1>2. QED
  BY <1>1, IInvHolds, PTL DEF Spec, OddsStand

-----------------------------------------------------------------------------
(* What the tickets add up to.                                             *)

(* Sets that are counted are finite, the draws of the old protocol stay    *)
(* known, and the activity is not closed before its end.                   *)
CountsAreFinite ==
  /\ \A l \in Lots : IsFiniteSet({g \in grants : g.lot = l})
  /\ \A r \in Rules : IsFiniteSet(SpentBy(r))
  /\ \A r \in Rules \ {Periodic} : IsFiniteSet({l \in Lots : lot[l].rule = r})
OldDrawsStay == \A h \in Historical : \E g \in grants : g.action = h
ClosedAtEnd  == closed => clock >= PeriodEnd
TicketsInv   == CountsAreFinite /\ OldDrawsStay /\ ClosedAtEnd /\ TicketsAddUp

(* One more is counted.                                                    *)
LEMMA OneMore ==
  ASSUME NEW S, IsFiniteSet(S), NEW x, x \notin S
  PROVE  /\ IsFiniteSet(S \cup {x}) /\ Cardinality(S) \in Nat
         /\ Cardinality(S \cup {x}) = Cardinality(S) + 1
  BY FS_AddElement, FS_CardinalityType

(* No ticket was granted and none spent in the beginning.                  *)
LEMMA TicketsInit == Init => TicketsInv
<1> SUFFICES ASSUME Init PROVE TicketsInv
  OBVIOUS
<1>1. IsFiniteSet({}) /\ Cardinality({}) = 0
  BY FS_EmptySet
<1>2. \A g \in grants : g.action \in Historical /\ g.lot = NoLot
  BY DEF Init
<1>3. \A r \in Rules : SpentBy(r) = {}
  BY <1>2 DEF SpentBy
<1>4. \A l \in Lots : {g \in grants : g.lot = l} = {}
  BY <1>2, DrawAssumption
<1>5. \A r \in Rules \ {Periodic} : {l \in Lots : lot[l].rule = r} = {}
  BY DrawAssumption DEF Init, NotMinted, Rules, Periodic, NoRule
<1>6. OldDrawsStay
  <2>1. PICK won \in [Historical -> Prizes] :
          grants = {[action |-> h, rule |-> Periodic, source |-> Periodic, lot |-> NoLot,
                     exp |-> FALSE, prize |-> won[h], at |-> 0] : h \in Historical}
    BY DEF Init
  <2>2. ASSUME NEW h \in Historical PROVE \E g \in grants : g.action = h
    <3>1. [action |-> h, rule |-> Periodic, source |-> Periodic, lot |-> NoLot,
           exp |-> FALSE, prize |-> won[h], at |-> 0] \in grants
      BY <2>1
    <3>2. QED
      BY <3>1
  <2>3. QED
    BY <2>2 DEF OldDrawsStay
<1>7. TicketsAddUp
  <2>1. \A l \in Lots : lot[l] = NotMinted
    BY DEF Init
  <2>2. balance[Periodic] = PeriodTickets /\ closed = FALSE
    BY DrawAssumption DEF Init, Rules, Periodic
  <2>3. \A r \in Rules \ {Periodic} : balance[r] = 0
    BY DEF Init
  <2>4. Periodic \in Rules /\ PeriodTickets \in Nat
    BY DrawAssumption DEF Rules, Periodic
  <2>5. Cardinality(SpentBy(Periodic)) = 0
    BY <1>1, <1>3, <2>4, Zenon
  <2>6. \A r \in Rules \ {Periodic} :
          /\ Cardinality(SpentBy(r)) = 0
          /\ Cardinality({l \in Lots : lot[l].rule = r}) = 0
    BY <1>1, <1>3, <1>5, Zenon
  <2>7. QED
    BY <2>1, <2>2, <2>3, <2>4, <2>5, <2>6 DEF TicketsAddUp
<1>8. CountsAreFinite
  BY <1>1, <1>3, <1>4, <1>5, Zenon DEF CountsAreFinite
<1>9. ClosedAtEnd
  BY DEF Init, ClosedAtEnd
<1>10. QED
  BY <1>6, <1>7, <1>8, <1>9 DEF TicketsInv

(* A draw spends one ticket where it was earned, and one lot if it has one. *)
LEMMA TicketsDraw ==
  ASSUME IInv, TicketsInv, NEW q \in Requests, NEW z \in Prizes, Draw(q, z)
  PROVE  TicketsInv'
<1> DEFINE c == loc[q].choice
           s == Source(c)
<1>1. HoldsRule(q) /\ HoldsRequest(q) /\ DrawTypeOK /\ TicketIsHeld
  BY DEF IInv, Draw, Deciding, HoldsRule, HoldsRequest
<1>2. PICK g0 : g0 = GrantOf(q, z)
  OBVIOUS
<1>3. grants' = grants \cup {g0} /\ g0.lot = c.lot /\ g0.source = s /\ g0.action = loc[q].action
  BY <1>2, DrawAddsGrant DEF GrantOf
<1>4. g0 \notin grants /\ g0.action \notin Historical
  <2>1. \A g \in grants : g.action # loc[q].action
    BY <1>1 DEF IInv, NewDrawsAreFresh, Fresh, Drawn
  <2>2. QED
    BY <1>3, <2>1 DEF TicketsInv, OldDrawsStay
<1>5. s \in Rules /\ c.lot \in {NoLot} \cup Lots /\ (c.lot # NoLot => lot[c.lot] # NotMinted)
  BY <1>1, SourceType
<1>6. closed' = closed /\ clock' = clock
  BY DEF Draw, time
<1>7. \A l \in Lots : /\ lot'[l].rule = lot[l].rule
                      /\ l # c.lot => lot'[l] = lot[l]
                      /\ l = c.lot => lot[l].left = 1 /\ lot'[l].left = 0
  <2>1. \A l \in Lots : lot'[l] = IF l = c.lot THEN [lot[l] EXCEPT !.left = @ - 1] ELSE lot[l]
    BY DEF Draw
  <2>2. \A l \in Lots : l = c.lot => lot[l].left = 1 /\ lot[l] # NotMinted
    BY <1>1, <1>5, DrawAssumption DEF TicketIsHeld
  <2>3. \A l \in Lots : l = c.lot => lot[l] \in [rule : Rules \ {Periodic}, left : {0, 1}, expires : Nat]
    BY <1>1, <2>2 DEF DrawTypeOK, Lot
  <2>4. ASSUME NEW l \in Lots, l = c.lot
        PROVE  lot'[l].rule = lot[l].rule /\ lot[l].left = 1 /\ lot'[l].left = 0
    <3>1. lot'[l] = [lot[l] EXCEPT !.left = @ - 1] /\ lot[l].left = 1
      BY <2>1, <2>2, <2>4
    <3>2. lot[l] \in [rule : Rules \ {Periodic}, left : {0, 1}, expires : Nat]
      BY <2>3, <2>4
    <3>3. QED
      BY <3>1, <3>2
  <2>5. QED
    BY <2>1, <2>4
<1>8. balance \in [Rules -> Nat] /\ balance' = [balance EXCEPT ![s] = @ - 1]
  BY <1>1 DEF Draw, ChargedTo, DrawTypeOK
<1>9. s = Periodic => ~closed
  <2>1. c.lot # NoLot => s # Periodic
    <3>1. c.lot # NoLot => lot[c.lot].rule \in Rules \ {Periodic}
      BY <1>1, <1>5 DEF DrawTypeOK, Lot
    <3>2. QED
      BY <3>1 DEF Source
  <2>2. c.lot = NoLot => clock < PeriodEnd
    BY DEF Draw, StillTimely
  <2>3. QED
    BY <1>1, <2>1, <2>2, DrawAssumption DEF TicketsInv, ClosedAtEnd, DrawTypeOK
<1>10. \A r \in Rules :
         /\ IsFiniteSet(SpentBy(r)') /\ Cardinality(SpentBy(r)) \in Nat
         /\ Cardinality(SpentBy(r)') = Cardinality(SpentBy(r)) + (IF r = s THEN 1 ELSE 0)
  <2> SUFFICES ASSUME NEW r \in Rules
               PROVE  /\ IsFiniteSet(SpentBy(r)') /\ Cardinality(SpentBy(r)) \in Nat
                      /\ Cardinality(SpentBy(r)') = Cardinality(SpentBy(r)) + (IF r = s THEN 1 ELSE 0)
    OBVIOUS
  <2>1. SpentBy(r)' = IF r = s THEN SpentBy(r) \cup {g0} ELSE SpentBy(r)
    BY <1>3, <1>4 DEF SpentBy
  <2>2. IsFiniteSet(SpentBy(r)) /\ g0 \notin SpentBy(r)
    BY <1>4 DEF TicketsInv, CountsAreFinite, SpentBy
  <2>3. Cardinality(SpentBy(r)) \in Nat
    BY <2>2, FS_CardinalityType
  <2>4. QED
    BY <2>1, <2>2, <2>3, OneMore
<1>11. \A l \in Lots :
         /\ IsFiniteSet({g \in grants' : g.lot = l}) /\ Cardinality({g \in grants : g.lot = l}) \in Nat
         /\ l = c.lot => Cardinality({g \in grants' : g.lot = l}) =
                           Cardinality({g \in grants : g.lot = l}) + 1
         /\ l # c.lot => {g \in grants' : g.lot = l} = {g \in grants : g.lot = l}
  <2> SUFFICES ASSUME NEW l \in Lots, NEW S, S = {g \in grants : g.lot = l},
                      NEW T, T = {g \in grants' : g.lot = l}
               PROVE  /\ IsFiniteSet(T) /\ Cardinality(S) \in Nat
                      /\ l = c.lot => Cardinality(T) = Cardinality(S) + 1
                      /\ l # c.lot => T = S
    OBVIOUS
  <2>1. T = IF l = c.lot THEN S \cup {g0} ELSE S
    BY <1>3
  <2>2. IsFiniteSet(S) /\ g0 \notin S
    BY <1>4 DEF TicketsInv, CountsAreFinite
  <2>3. Cardinality(S) \in Nat
    BY <2>2, FS_CardinalityType
  <2>4. CASE l = c.lot
    <3>1. T = S \cup {g0}
      BY <2>1, <2>4
    <3>2. QED
      BY <2>2, <2>4, <3>1, OneMore
  <2>5. CASE l # c.lot
    BY <2>1, <2>2, <2>3, <2>5
  <2>6. QED
    BY <2>4, <2>5
<1>12. \A r \in Rules : {l \in Lots : lot'[l].rule = r} = {l \in Lots : lot[l].rule = r}
  BY <1>7
<1>13. CountsAreFinite'
  BY <1>10, <1>11, <1>12, Zenon DEF CountsAreFinite, TicketsInv
<1>14. OldDrawsStay' /\ ClosedAtEnd'
  BY <1>3, <1>6 DEF TicketsInv, OldDrawsStay, ClosedAtEnd
<1>15. TicketsAddUp'
  <2>1. ASSUME NEW l \in Lots, lot'[l] # NotMinted
        PROVE  lot'[l].left = 1 - Cardinality({g \in grants' : g.lot = l})
    <3>1. lot[l] # NotMinted
      BY <1>5, <1>7, <2>1, DrawAssumption
    <3>2. lot[l].left = 1 - Cardinality({g \in grants : g.lot = l})
      BY <3>1 DEF TicketsInv, TicketsAddUp
    <3>3. CASE l = c.lot
      <4>1. lot[l].left = 1 /\ lot'[l].left = 0
        BY <1>7, <3>3
      <4>2. PICK n, m : n = Cardinality({g \in grants : g.lot = l})
                        /\ m = Cardinality({g \in grants' : g.lot = l})
        OBVIOUS
      <4>3. n \in Nat /\ m = n + 1
        BY <1>11, <3>3, <4>2, Zenon
      <4>4. QED
        BY <3>2, <4>1, <4>2, <4>3
    <3>4. CASE l # c.lot
      <4>1. lot'[l].left = lot[l].left
        BY <1>7, <3>4
      <4>2. QED
        BY <1>11, <3>2, <3>4, <4>1
    <3>5. QED
      BY <3>3, <3>4
  <2>2. balance'[Periodic] = IF closed' THEN 0 ELSE PeriodTickets - Cardinality(SpentBy(Periodic)')
    <3>1. Periodic \in Rules /\ PeriodTickets \in Nat
      BY DrawAssumption DEF Rules, Periodic
    <3>2. balance[Periodic] = IF closed THEN 0 ELSE PeriodTickets - Cardinality(SpentBy(Periodic))
      BY DEF TicketsInv, TicketsAddUp
    <3>3. Cardinality(SpentBy(Periodic)) \in Nat
          /\ Cardinality(SpentBy(Periodic)') = Cardinality(SpentBy(Periodic)) + (IF Periodic = s THEN 1 ELSE 0)
      BY <1>10, <3>1
    <3>4. QED
      BY <1>5, <1>6, <1>8, <1>9, <3>1, <3>2, <3>3
  <2>3. ASSUME NEW r \in Rules \ {Periodic}
        PROVE  balance'[r] = Cardinality({l \in Lots : lot'[l].rule = r}) - Cardinality(SpentBy(r)')
    <3>1. balance[r] = Cardinality({l \in Lots : lot[l].rule = r}) - Cardinality(SpentBy(r))
      BY DEF TicketsInv, TicketsAddUp
    <3>2. {l \in Lots : lot'[l].rule = r} = {l \in Lots : lot[l].rule = r}
      BY <1>12
    <3>3. Cardinality({l \in Lots : lot[l].rule = r}) \in Nat
      BY FS_CardinalityType DEF TicketsInv, CountsAreFinite
    <3>4. Cardinality(SpentBy(r)) \in Nat
          /\ Cardinality(SpentBy(r)') = Cardinality(SpentBy(r)) + (IF r = s THEN 1 ELSE 0)
      BY <1>10
    <3>5. balance'[r] = balance[r] - (IF r = s THEN 1 ELSE 0)
      BY <1>5, <1>8
    <3>6. SUFFICES ASSUME NEW n, n = Cardinality({l \in Lots : lot[l].rule = r})
                   PROVE  balance'[r] = n - Cardinality(SpentBy(r)')
      BY <3>2
    <3>7. QED
      BY <3>1, <3>3, <3>4, <3>5, <3>6
  <2>4. QED
    BY <2>1, <2>2, <2>3 DEF TicketsAddUp
<1>16. QED
  BY <1>13, <1>14, <1>15 DEF TicketsInv

(* A ticket is granted once, unspent, and counted for the rule in force.   *)
LEMMA TicketsMint ==
  ASSUME IInv, TicketsInv, NEW m \in Lots, MintTicket(m)
  PROVE  TicketsInv'
<1> DEFINE r0 == Current
<1>1. DrawTypeOK /\ r0 \in Rules \ {Periodic}
  BY CurrentType DEF IInv, MintTicket
<1>2. UNCHANGED <<clock, closed, grants>> /\ lot[m] = NotMinted
  BY DEF MintTicket, time, books
<1>3. lot' = [lot EXCEPT ![m] = [rule |-> r0, left |-> 1, expires |-> clock + Validity]]
  BY DEF MintTicket
<1>4. \A l \in Lots : lot'[l] = IF l = m THEN [rule |-> r0, left |-> 1, expires |-> clock + Validity]
                                ELSE lot[l]
  BY <1>1, <1>3 DEF DrawTypeOK
<1>5. balance \in [Rules -> Nat] /\ balance' = [balance EXCEPT ![r0] = @ + 1]
  BY <1>1 DEF MintTicket, DrawTypeOK
<1>6. {g \in grants : g.lot = m} = {}
  BY <1>2, DrawAssumption DEF IInv, SpentWereMinted
<1>7. \A r \in Rules : SpentBy(r)' = SpentBy(r)
  BY <1>2 DEF SpentBy
<1>8. \A r \in Rules \ {Periodic} :
        /\ IsFiniteSet({l \in Lots : lot'[l].rule = r}) /\ Cardinality({l \in Lots : lot[l].rule = r}) \in Nat
        /\ r = r0 => Cardinality({l \in Lots : lot'[l].rule = r}) =
                        Cardinality({l \in Lots : lot[l].rule = r}) + 1
        /\ r # r0 => {l \in Lots : lot'[l].rule = r} = {l \in Lots : lot[l].rule = r}
  <2> SUFFICES ASSUME NEW r \in Rules \ {Periodic}, NEW S, S = {l \in Lots : lot[l].rule = r},
                      NEW T, T = {l \in Lots : lot'[l].rule = r}
               PROVE  /\ IsFiniteSet(T) /\ Cardinality(S) \in Nat
                      /\ r = r0 => Cardinality(T) = Cardinality(S) + 1
                      /\ r # r0 => T = S
    OBVIOUS
  <2>1. lot[m].rule = NoRule /\ r # NoRule
    BY <1>2, DrawAssumption DEF NotMinted, Rules, NoRule, Periodic
  <2>2. T = (IF r = r0 THEN S \cup {m} ELSE S) /\ m \notin S
    BY <1>4, <2>1
  <2>3. IsFiniteSet(S)
    BY DEF TicketsInv, CountsAreFinite
  <2>4. Cardinality(S) \in Nat
    BY <2>3, FS_CardinalityType
  <2>5. CASE r = r0
    <3>1. T = S \cup {m}
      BY <2>2, <2>5
    <3>2. QED
      BY <2>2, <2>3, <2>5, <3>1, OneMore
  <2>6. CASE r # r0
    BY <2>2, <2>3, <2>4, <2>6
  <2>7. QED
    BY <2>5, <2>6
<1>9. CountsAreFinite'
  BY <1>2, <1>7, <1>8, Zenon DEF CountsAreFinite, TicketsInv
<1>10. OldDrawsStay' /\ ClosedAtEnd'
  BY <1>2 DEF TicketsInv, OldDrawsStay, ClosedAtEnd
<1>11. TicketsAddUp'
  <2>1. ASSUME NEW l \in Lots, lot'[l] # NotMinted
        PROVE  lot'[l].left = 1 - Cardinality({g \in grants' : g.lot = l})
    <3>1. CASE l = m
      <4>1. Cardinality({g \in grants' : g.lot = l}) = 0
        BY <1>2, <1>6, <3>1, FS_EmptySet, Zenon
      <4>2. QED
        BY <1>4, <3>1, <4>1
    <3>2. CASE l # m
      BY <1>2, <1>4, <2>1, <3>2 DEF TicketsInv, TicketsAddUp
    <3>3. QED
      BY <3>1, <3>2
  <2>2. balance'[Periodic] = IF closed' THEN 0 ELSE PeriodTickets - Cardinality(SpentBy(Periodic)')
    <3>1. Periodic \in Rules
      BY DrawAssumption DEF Rules, Periodic
    <3>2. balance'[Periodic] = balance[Periodic]
      BY <1>1, <1>5, <3>1
    <3>3. SpentBy(Periodic)' = SpentBy(Periodic)
      BY <1>7, <3>1
    <3>4. QED
      BY <1>2, <3>2, <3>3 DEF TicketsInv, TicketsAddUp
  <2>3. ASSUME NEW r \in Rules \ {Periodic}
        PROVE  balance'[r] = Cardinality({l \in Lots : lot'[l].rule = r}) - Cardinality(SpentBy(r)')
    <3>1. balance[r] = Cardinality({l \in Lots : lot[l].rule = r}) - Cardinality(SpentBy(r))
      BY DEF TicketsInv, TicketsAddUp
    <3>2. IsFiniteSet(SpentBy(r)) /\ SpentBy(r)' = SpentBy(r)
      BY <1>7 DEF TicketsInv, CountsAreFinite
    <3>3. Cardinality(SpentBy(r)) \in Nat
      BY <3>2, FS_CardinalityType
    <3>4. balance'[r] = balance[r] + (IF r = r0 THEN 1 ELSE 0) /\ balance[r] \in Nat
      BY <1>5
    <3>5. PICK n, m1 : n = Cardinality({l \in Lots : lot[l].rule = r})
                       /\ m1 = Cardinality({l \in Lots : lot'[l].rule = r})
      OBVIOUS
    <3>6. n \in Nat /\ (r = r0 => m1 = n + 1) /\ (r # r0 => m1 = n)
      BY <1>8, <3>5, Zenon
    <3>7. QED
      BY <3>1, <3>2, <3>3, <3>4, <3>5, <3>6
  <2>4. QED
    BY <2>1, <2>2, <2>3 DEF TicketsAddUp
<1>12. QED
  BY <1>9, <1>10, <1>11 DEF TicketsInv

(* The close expires what is left of the activity, after its end.          *)
LEMMA TicketsClose ==
  ASSUME IInv, TicketsInv, ClosePeriod
  PROVE  TicketsInv'
<1>1. /\ lot' = lot /\ grants' = grants /\ clock' = clock /\ closed' = TRUE
      /\ balance' = [balance EXCEPT ![Periodic] = 0] /\ clock >= PeriodEnd
      /\ balance \in [Rules -> Nat]
  BY DEF ClosePeriod, books, IInv, DrawTypeOK
<1>2. balance'[Periodic] = 0 /\ \A r \in Rules \ {Periodic} : balance'[r] = balance[r]
  BY <1>1, DrawAssumption DEF Rules, Periodic
<1>3. \A r \in Rules : SpentBy(r)' = SpentBy(r)
  BY <1>1 DEF SpentBy
<1>4. TicketsAddUp'
  BY <1>1, <1>2, <1>3 DEF TicketsInv, TicketsAddUp
<1>5. QED
  BY <1>1, <1>3, <1>4 DEF TicketsInv, CountsAreFinite, OldDrawsStay, ClosedAtEnd

(* Nothing else touches tickets, accounts or grants.                       *)
LEMMA TicketsKept ==
  ASSUME IInv, TicketsInv, UNCHANGED <<lot, balance, grants, closed>>, clock' \in {clock, clock + 1}
  PROVE  TicketsInv'
<1>1. \A r \in Rules : SpentBy(r)' = SpentBy(r)
  BY DEF SpentBy
<1>2. TicketsAddUp'
  BY <1>1, DrawAssumption DEF TicketsInv, TicketsAddUp, Rules, Periodic
<1>3. ClosedAtEnd'
  BY DrawAssumption DEF TicketsInv, ClosedAtEnd, IInv, DrawTypeOK
<1>4. QED
  BY <1>1, <1>2, <1>3 DEF TicketsInv, CountsAreFinite, OldDrawsStay

(* Every step keeps the tickets adding up.                                 *)
LEMMA TicketsStep == IInv /\ TicketsInv /\ [Next]_vars => TicketsInv'
<1> SUFFICES ASSUME IInv, TicketsInv, [Next]_vars PROVE TicketsInv'
  OBVIOUS
<1>1. ASSUME NEW q \in Requests, Waits(q) \/ Answer(q) PROVE TicketsInv'
  BY <1>1, WaitingLeavesTables, AnswerIsSaved, TicketsKept DEF IInv, time, wallet, books
<1>2. CASE Environment
  <2>1. ASSUME NEW o \in Operators, Look(o) \/ Publish(o) PROVE TicketsInv'
    BY <2>1, TicketsKept DEF Look, Publish, time, wallet, books
  <2>2. CASE Tick
    BY <2>2, TicketsKept DEF Tick, wallet, books
  <2>3. QED
    BY <1>2, <2>1, <2>2, TicketsMint, TicketsClose DEF Environment
<1>3. CASE UNCHANGED vars
  BY <1>3, TicketsKept DEF vars, time, wallet, books
<1>4. QED
  BY <1>1, <1>2, <1>3, NextCases, TicketsDraw

(* The account, the ticket lots and the grants tell the same story in      *)
(* every reachable state: no ticket is spent twice or charged elsewhere.   *)
THEOREM TicketsBalance == Spec => []TicketsAddUp
<1>1. TicketsInv => TicketsAddUp
  BY DEF TicketsInv
<1>2. QED
  BY <1>1, IInvHolds, TicketsInit, TicketsStep, PTL DEF Spec

-----------------------------------------------------------------------------
(* What the publications add up to.                                        *)

(* Each publication has a rule of its own, which is the one after the rule *)
(* its operator saw; only the first continuous rule has none before it.    *)
PublishedInTurn ==
  \A o \in Operators : published[o] # NoRule =>
    /\ published[o] \in (Periodic + 1) .. latest
    /\ published[o] = Periodic + 1 => expected[o] \in {NoRule, Periodic}
    /\ published[o] # Periodic + 1 => expected[o] = published[o] - 1
    /\ \A p \in Operators : published[p] = published[o] => p = o

(* A new rule is numbered after all others, and is published on the last.  *)
LEMMA PublicationStep ==
  ASSUME DrawTypeOK, PublishedInTurn, NEW o \in Operators, Publish(o)
  PROVE  PublishedInTurn'
<1>1. latest \in Nat /\ latest >= Periodic /\ latest' = latest + 1 /\ expected' = expected
  BY DrawAssumption DEF DrawTypeOK, Rules, Periodic, Publish
<1>2. published \in [Operators -> {NoRule} \cup Rules] /\ published' = [published EXCEPT ![o] = latest + 1]
  BY DEF DrawTypeOK, Publish
<1>3. expected[o] = Current
  BY DEF Publish
<1>4. IF latest = Periodic THEN expected[o] \in {NoRule, Periodic} ELSE expected[o] = latest
  BY <1>3 DEF Current, CurrentOf
<1>5. \A p \in Operators : published[p] # latest + 1
  BY <1>1, <1>2 DEF PublishedInTurn, NoRule, Periodic
<1>6. ASSUME NEW p \in Operators, published'[p] # NoRule
      PROVE  /\ published'[p] \in (Periodic + 1) .. latest'
             /\ published'[p] = Periodic + 1 => expected'[p] \in {NoRule, Periodic}
             /\ published'[p] # Periodic + 1 => expected'[p] = published'[p] - 1
             /\ \A r \in Operators : published'[r] = published'[p] => r = p
  <2>1. CASE p = o
    <3>1. published'[p] = latest + 1 /\ \A r \in Operators \ {o} : published'[r] = published[r]
      BY <1>2, <2>1
    <3>2. \A r \in Operators : published'[r] = published'[p] => r = p
      BY <1>5, <2>1, <3>1
    <3>3. QED
      BY <1>1, <1>4, <2>1, <3>1, <3>2 DEF Periodic
  <2>2. CASE p # o
    <3>1. published'[p] = published[p] /\ published[p] # NoRule
      BY <1>2, <1>6, <2>2
    <3>2. published'[o] = latest + 1 /\ \A r \in Operators \ {o} : published'[r] = published[r]
      BY <1>2
    <3>3. \A r \in Operators : published'[r] = published'[p] => r = p
      BY <1>5, <3>1, <3>2 DEF PublishedInTurn
    <3>4. QED
      BY <1>1, <3>1, <3>3 DEF PublishedInTurn, Periodic
  <2>3. QED
    BY <2>1, <2>2
<1>7. QED
  BY <1>6 DEF PublishedInTurn

(* An operator looks only before publishing.                               *)
LEMMA LookStep ==
  ASSUME DrawTypeOK, PublishedInTurn, NEW o \in Operators, Look(o)
  PROVE  PublishedInTurn'
<1>1. published' = published /\ latest' = latest /\ published[o] = NoRule
  BY DEF Look
<1>2. \A p \in Operators : published[p] # NoRule => expected'[p] = expected[p]
  BY <1>1 DEF Look, DrawTypeOK
<1>3. QED
  BY <1>1, <1>2 DEF PublishedInTurn

(* Every step keeps the publications in turn.                              *)
LEMMA PublishedStep == IInv /\ PublishedInTurn /\ [Next]_vars => PublishedInTurn'
<1> SUFFICES ASSUME IInv, PublishedInTurn, [Next]_vars PROVE PublishedInTurn'
  OBVIOUS
<1>1. CASE UNCHANGED rules
  BY <1>1 DEF PublishedInTurn, rules
<1>2. CASE Environment
  BY <1>1, <1>2, LookStep, PublicationStep
     DEF Environment, MintTicket, Tick, ClosePeriod, IInv
<1>3. QED
  BY <1>1, <1>2, NextCases, WaitingLeavesTables, AnswerIsSaved DEF IInv, Draw, vars

(* In every reachable state the publications form a chain: none overwrites *)
(* a rule that its operator has not seen, and no two replace the same one. *)
THEOREM NoLostPublication == Spec => []PublicationsChain
<1>1. Init => PublishedInTurn
  BY DEF Init, PublishedInTurn
<1>2. IInv /\ PublishedInTurn => PublicationsChain
  <2> SUFFICES ASSUME IInv, PublishedInTurn PROVE PublicationsChain
    OBVIOUS
  <2>1. latest \in Nat
    BY DrawAssumption DEF IInv, DrawTypeOK, Rules, Periodic
  <2>2. ASSUME NEW o \in Operators, published[o] # NoRule
        PROVE  /\ published[o] \in Nat /\ published[o] >= 2
               /\ published[o] = 2 => expected[o] \in {NoRule, Periodic}
               /\ published[o] # 2 => expected[o] = published[o] - 1
    BY <2>1, <2>2 DEF PublishedInTurn, Periodic
  <2>3. ASSUME NEW o \in Operators, published[o] # NoRule,
               NEW p \in Operators, published[p] # NoRule, expected[p] = expected[o]
        PROVE  p = o
    <3>1. published[p] = published[o] \/ (published[p] = 2 /\ published[o] = 2)
      BY <2>2, <2>3 DEF NoRule, Periodic
    <3>2. QED
      BY <2>3, <3>1 DEF PublishedInTurn
  <2>4. QED
    BY <2>2, <2>3 DEF PublicationsChain, NoRule, Periodic
<1>3. QED
  BY <1>1, <1>2, IInvHolds, PublishedStep, PTL DEF Spec
=============================================================================
