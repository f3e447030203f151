-------------------------------- MODULE Growth --------------------------------
(***************************************************************************)
(* Experience that members of the forum earn from what they write, from    *)
(* the votes on it, from checking in, and from administrators.             *)
(*                                                                         *)
(* Every source has one event, and an event awards at most once.  Events   *)
(* come into being when a collector passes the row of their source, wait a *)
(* day, and are settled or revoked by a reconciler that goes around and    *)
(* around.  Each transaction holds the row of the member's account from    *)
(* its first statement on and is one step; the pages, the settings and the *)
(* clock that a batch or a request has read before may be old by then.     *)
(* GET_LOCK, which keeps collectors apart while its connection lives, is   *)
(* left out: collectors may overlap.  So are the week a voter must have    *)
(* been a member and the bonus for a streak of seven days; and so are      *)
(* questions and accepted answers, which are registered, judged and capped *)
(* as answers are (an answer must be accepted besides).  Grants of Pulse   *)
(* are the subject of ExperienceDelivery.                                  *)
(***************************************************************************)
EXTENDS Integers, Sequences, FiniteSets, FiniteSetsExt

CONSTANTS
  Owner,        (* the author of each post                                 *)
  Voters,       (* members who vote for posts                              *)
  Collectors,   (* processes of the forum                                  *)
  RuleSets,     (* rules: cap, and amount, count and total of each kind    *)
  AdminRequests,(* commands of administrators: key, op and what it is about *)
  MinVoter,     (* Levels[1].Minimum: experience that makes a vote count   *)
  PairLimit,    (* votes a day from one member to another that count: 3    *)
  LevelStep,    (* experience from one level to the next                   *)
  GrowthPage,   (* rows in a page: 200                                     *)
  LastDay, MaxFacts, MaxMoves (* bounds                                    *)

Posts  == DOMAIN Owner
People == {Owner[p] : p \in Posts} \cup Voters
Kinds  == {"answer", "like", "checkin", "featured"}

(* Rules as Validate lets them through, those that are to come included.    *)
AllRules == RuleSets \cup {q.set : q \in {a \in AdminRequests : a.op = "rules"}}

ASSUME GrowthAssumption ==
  /\ \A r \in AllRules : r.cap \in Nat /\ \A k \in Kinds : r.amount[k] \in Nat \ {0} /\ r.count[k] \in Nat /\ r.total[k] \in Nat
  /\ \A q \in AdminRequests : /\ q.op = "rules" => q.version \in Nat
                              /\ q.op = "feature" => q.post \in Posts
                              /\ q.op = "adjust" => q.user \in People /\ q.delta \in Int \ {0}
  /\ MinVoter \in Nat /\ PairLimit \in Nat /\ LevelStep \in Nat \ {0} /\ GrowthPage \in Nat \ {0}
  /\ LastDay \in Nat /\ MaxFacts \in Nat /\ MaxMoves \in Nat

VARIABLES
  today,     (* the day in Shanghai                                        *)
  facts,     (* rows of posts and votes in the order of their ids          *)
  shown,     (* the posts that are visible                                 *)
  upvotes,   (* votes that are not withdrawn: <<voter, post>>              *)
  inGood,    (* the members that are not suspended                         *)
  rules,     (* metar_exp_config: version and rules                        *)
  account,   (* metar_exp_account: balance, last check-in and streak       *)
  events,    (* metar_exp_event by source key; order gives their ids       *)
  order,
  history,   (* metar_exp_ledger                                           *)
  notices,   (* metar_exp_notice                                           *)
  place,     (* metar_exp_cursor of the rows and of the reconciler         *)
  work,      (* what each collector has read                               *)
  asked,     (* check-ins that have read the clock and wait for the lock   *)
  audited,   (* metar_exp_audit                                            *)
  moves      (* how much was moderated, asked for, or failed               *)

posted == <<facts, shown, upvotes, inGood>>
books  == <<account, events, order, history, notices>>
growthVars == <<today, posted, rules, books, place, work, asked, audited, moves>>

Idle  == [pc |-> "idle"]
Down  == [pc |-> "down"]
Never == -1

GrowthInit ==
  /\ today = 0 /\ facts = <<>> /\ shown = Posts /\ upvotes = {} /\ inGood = People
  /\ rules \in {[version |-> 1, set |-> r] : r \in RuleSets}
  /\ account = [u \in People |-> [balance |-> 0, last |-> Never, streak |-> 0]]
  /\ events = << >> /\ order = <<>> /\ history = <<>> /\ notices = {}
  /\ place = [rows |-> 0, reconcile |-> 0] /\ work \in [Collectors -> {Idle, Down}]
  /\ asked = {} /\ audited = {} /\ moves \in 0 .. MaxMoves
-----------------------------------------------------------------------------
(* The forum.                                                              *)

Occur(kind, post, actor) ==
  /\ Len(facts) < MaxFacts
  /\ facts' = Append(facts, [kind |-> kind, post |-> post, actor |-> actor, at |-> today])

Write(p) ==
  /\ p \in shown /\ \A i \in DOMAIN facts : facts[i].kind = "answer" => facts[i].post # p
  /\ Occur("answer", p, Owner[p])
  /\ UNCHANGED <<today, shown, upvotes, inGood, rules, books, place, work, asked, audited, moves>>

Vote(v, p) ==
  /\ v # Owner[p] /\ <<v, p>> \notin upvotes /\ Occur("like", p, v) /\ upvotes' = upvotes \cup {<<v, p>>}
  /\ UNCHANGED <<today, shown, inGood, rules, books, place, work, asked, audited, moves>>

Move == moves < MaxMoves /\ moves' = moves + 1
Flip(set, x) == IF x \in set THEN set \ {x} ELSE set \cup {x}

(* A post is hidden or shown, a vote withdrawn, a member suspended or not. *)
Moderate ==
  /\ Move
  /\ \/ \E p \in Posts : shown' = Flip(shown, p) /\ UNCHANGED <<upvotes, inGood>>
     \/ \E x \in upvotes : upvotes' = upvotes \ {x} /\ UNCHANGED <<shown, inGood>>
     \/ \E u \in People : inGood' = Flip(inGood, u) /\ UNCHANGED <<shown, upvotes>>
  /\ UNCHANGED <<today, facts, rules, books, place, work, asked, audited>>

PassDay ==
  /\ today < LastDay /\ today' = today + 1
  /\ UNCHANGED <<posted, rules, books, place, work, asked, audited, moves>>
-----------------------------------------------------------------------------
(* The books.                                                              *)

Event(kind, user, post, actor, due, amount, cap, count, total) ==
  [kind |-> kind, user |-> user, post |-> post, actor |-> actor, due |-> due, status |-> "pending",
   amount |-> amount, cap |-> cap, count |-> count, total |-> total]
Promised(kind, user, post, actor, due, r) ==
  Event(kind, user, post, actor, due, r.amount[kind], r.cap, r.count[kind], r.total[kind])

Level(balance) == IF balance < 0 THEN 0 ELSE balance \div LevelStep

(* What the entries at some positions of a ledger add up to.               *)
Units(amount)  == UNION {{i} \X (1 .. amount[i]) : i \in DOMAIN amount}
TotalOf(es, S) == Cardinality(Units([i \in S |-> es[i].delta])) - Cardinality(Units([i \in S |-> -es[i].delta]))
EntriesOf(u)   == {i \in DOMAIN history : history[i].user = u}

(* The awards of some events, those reversed since included.               *)
Awards(keys) == {i \in DOMAIN history : history[i].kind = "award" /\ history[i].key \in keys}
Ordinary(e)  == e.kind # "featured" /\ e.kind # "adjustment"

(* Events that share a limit: those of a day, those of its kind (a post is *)
(* featured within a limit of its own), votes of one member for another.   *)
DailyKeys(u, d)      == {k \in DOMAIN events : events[k].user = u /\ events[k].due = d /\ Ordinary(events[k])}
KindKeys(u, d, kind) == {k \in DOMAIN events : /\ events[k].user = u /\ events[k].kind = kind
                                               /\ kind = "featured" \/ events[k].due = d}
PairKeys(u, d, v)    == {k \in KindKeys(u, d, "like") : events[k].actor = v}

(* Mutant: each kind has its limit, but not the day.                       *)
CappedByKind(e) == Cardinality(Awards(KindKeys(e.user, e.due, e.kind))) >= e.count

Capped(e) ==
  LET alike == Awards(KindKeys(e.user, e.due, e.kind)) IN
  \/ Cardinality(alike) >= e.count
  \/ (IF e.kind = "featured" THEN 0 ELSE TotalOf(history, alike)) + e.amount > e.total
  \/ e.kind # "featured" /\ TotalOf(history, Awards(DailyKeys(e.user, e.due))) + e.amount > e.cap
  \/ e.kind = "like" /\ Cardinality(Awards(PairKeys(e.user, e.due, e.actor))) >= PairLimit

(* settle: a pending event that is due is awarded, or capped for good.     *)
Settle(e) ==
  IF e.status # "pending" \/ e.due > today THEN [status |-> e.status, kind |-> "none", delta |-> 0]
  ELSE IF Capped(e) THEN [status |-> "capped", kind |-> "none", delta |-> 0]
  ELSE [status |-> "awarded", kind |-> "award", delta |-> e.amount]

Revoke(e) ==
  IF e.status = "awarded" THEN [status |-> "revoked", kind |-> "reversal", delta |-> -e.amount]
  ELSE [status |-> IF e.status = "capped" THEN "capped" ELSE "revoked", kind |-> "none", delta |-> 0]

(* appendLedger: an entry under a key of its own, the balance, and a       *)
(* notice of every level that is new.                                      *)
Book(key, e, change) ==
  LET u == e.user  b == account[u].balance IN
  /\ events' = [k \in DOMAIN events \cup {key} |-> IF k = key THEN [e EXCEPT !.status = change.status] ELSE events[k]]
  /\ IF change.kind = "none" THEN UNCHANGED <<history, notices>>
     ELSE /\ \A i \in DOMAIN history : history[i].key # key \/ history[i].kind # change.kind
          /\ history' = Append(history, [key |-> key, user |-> u, kind |-> change.kind, delta |-> change.delta, at |-> today])
          /\ notices' = notices \cup {<<u, l>> : l \in Level(b) + 1 .. Level(b + change.delta)}
Credit(u, delta) == account' = [account EXCEPT ![u].balance = @ + delta]

(* register: the event of a source is made once; later it stays as it was. *)
Registered(key, new) == IF key \in DOMAIN events THEN events[key] ELSE new
Numbered(key) == order' = IF key \in DOMAIN events THEN order ELSE Append(order, key)

(* The source stands: its post is visible, the vote not withdrawn and from *)
(* a member in good standing with enough experience when it was cast.      *)
SourceValid(e, cast) ==
  LET before == {i \in EntriesOf(e.actor) : history[i].at <= cast} IN
  /\ e.post \in shown
  /\ e.kind = "like" => /\ <<e.actor, e.post>> \in upvotes /\ e.actor \in inGood
                        /\ TotalOf(history, before) >= MinVoter

Judge(key, e) ==
  LET change == IF SourceValid(e, e.due - 1) THEN Settle(e) ELSE Revoke(e)
  IN  Book(key, e, change) /\ Credit(e.user, change.delta)
-----------------------------------------------------------------------------
(* Collect.                                                                *)

(* A page are the first of the ids that match; they are taken in order.    *)
PageOf(ids) == {i \in ids : Cardinality({j \in ids : j < i}) < GrowthPage}
NextOf(c)   == Min(work[c].page)

(* The settings are read once for the whole batch, then a page of rows.    *)
StartCollect(c) ==
  /\ work[c] = Idle /\ place.rows < Len(facts)
  /\ work' = [work EXCEPT ![c] = [pc |-> "row", set |-> rules.set,
                                 page |-> PageOf(place.rows + 1 .. Len(facts))]]
  /\ UNCHANGED <<today, posted, rules, books, place, asked, audited, moves>>

SourceOf(f) == IF f.kind = "like" THEN <<"like", f.post, f.actor>> ELSE <<f.kind, f.post>>

(* A row of a member who is suspended is passed over and never comes back. *)
CollectRow(c) ==
  /\ work[c].pc = "row"
  /\ LET f   == facts[NextOf(c)]
         key == SourceOf(f)
         e   == Registered(key, Promised(f.kind, Owner[f.post], f.post, f.actor, f.at + 1, work[c].set))
     IN IF Owner[f.post] \in inGood
        THEN Numbered(key) /\ Judge(key, e)
        ELSE UNCHANGED books
  /\ work' = [work EXCEPT ![c].pc = "next"]
  /\ UNCHANGED <<today, posted, rules, place, asked, audited, moves>>

(* What remains of a page after its first row.                             *)
Remaining(c, pc) ==
  LET rest == work[c].page \ {NextOf(c)} IN IF rest = {} THEN Idle ELSE [work[c] EXCEPT !.pc = pc, !.page = rest]

(* advance: in a statement of its own.                                     *)
NextRow(c) ==
  /\ work[c].pc = "next"
  /\ place' = [place EXCEPT !.rows = NextOf(c)]
  /\ work' = [work EXCEPT ![c] = Remaining(c, "row")]
  /\ UNCHANGED <<today, posted, rules, books, asked, audited, moves>>

(* reconcile: a page of events that are pending or awarded as it is read.  *)
StartReconcile(c) ==
  LET ids == {i \in DOMAIN order : /\ i > place.reconcile /\ events[order[i]].status \in {"pending", "awarded"}
                                  /\ events[order[i]].kind \in {"answer", "like", "featured"}}
  IN /\ work[c] = Idle /\ order # <<>>
     /\ IF ids = {} THEN place.reconcile # 0 /\ place' = [place EXCEPT !.reconcile = 0] /\ UNCHANGED work
        ELSE /\ work' = [work EXCEPT ![c] = [pc |-> "event", page |-> PageOf(ids)]]
             /\ UNCHANGED place
     /\ UNCHANGED <<today, posted, rules, books, asked, audited, moves>>

(* Under the lock the event is read again; the cursor moves behind it.     *)
ReconcileEvent(c) ==
  /\ work[c].pc = "event"
  /\ LET key == order[NextOf(c)]  e == events[key] IN
     IF e.user \in inGood THEN Judge(key, e) /\ UNCHANGED order ELSE UNCHANGED books
  /\ place' = [place EXCEPT !.reconcile = NextOf(c)]
  /\ work' = [work EXCEPT ![c] = Remaining(c, "event")]
  /\ UNCHANGED <<today, posted, rules, asked, audited, moves>>

(* The process dies or its context expires between two statements.         *)
StopCollect(c) ==
  /\ Move /\ work[c] \notin {Idle, Down} /\ work' = [work EXCEPT ![c] = Idle]
  /\ UNCHANGED <<today, posted, rules, books, place, asked, audited>>
-----------------------------------------------------------------------------
(* Requests.                                                               *)

(* Checkin reads the clock before it waits for the account.                *)
AskCheckin(u) ==
  /\ Move /\ <<u, today>> \notin asked /\ account[u].last # today
  /\ asked' = asked \cup {<<u, today>>}
  /\ UNCHANGED <<today, posted, rules, books, place, work, audited>>

Streak(u, d) == IF account[u].last = d - 1 THEN account[u].streak + 1 ELSE 1

Checkin(u, d) ==
  /\ <<u, d>> \in asked /\ asked' = asked \ {<<u, d>>}
  /\ IF u \in inGood /\ account[u].last # d
     THEN LET key == <<"checkin", u, d>>
              amount == rules.set.amount["checkin"]
              e   == Registered(key, Event("checkin", u, "none", u, d, amount, rules.set.cap, 1, amount))
              change == Settle(e)
          IN /\ Numbered(key) /\ Book(key, e, change)
             /\ account' = [account EXCEPT ![u] = [balance |-> @.balance + change.delta, last |-> d, streak |-> Streak(u, d)]]
     ELSE UNCHANGED books
  /\ UNCHANGED <<today, posted, rules, place, work, audited, moves>>

(* audit: a request of an administrator takes effect once.                 *)
Audited(q) == Move /\ q.key \notin {a.key : a \in audited} /\ audited' = audited \cup {q}

UpdateRules(q) ==
  /\ q.op = "rules" /\ Audited(q) /\ q.version = rules.version
  /\ rules' = [version |-> rules.version + 1, set |-> q.set]
  /\ UNCHANGED <<today, posted, books, place, work, asked>>

Feature(q) ==
  LET key == <<"featured", q.post>>
      e   == Registered(key, Promised("featured", Owner[q.post], q.post, "none", today, rules.set))
  IN /\ q.op = "feature" /\ Audited(q)
     /\ e.user \in inGood /\ SourceValid(e, today) /\ Numbered(key)
     /\ Book(key, e, Settle(e)) /\ Credit(e.user, Settle(e).delta)
     /\ UNCHANGED <<today, posted, rules, place, work, asked>>

Adjust(q) ==
  /\ q.op = "adjust" /\ Audited(q) /\ q.user \in inGood
  /\ q.delta < 0 => account[q.user].balance + q.delta >= 0
  /\ LET key == <<"admin", q.key>>
         e   == Event("adjustment", q.user, "none", "none", today, IF q.delta < 0 THEN -q.delta ELSE q.delta, 0, 0, 0)
     IN Numbered(key) /\ Book(key, e, [status |-> "awarded", kind |-> "adjustment", delta |-> q.delta]) /\ Credit(q.user, q.delta)
  /\ UNCHANGED <<today, posted, rules, place, work, asked>>

GrowthNext ==
  \/ \E p \in Posts : Write(p) \/ \E v \in Voters : Vote(v, p)
  \/ Moderate \/ PassDay
  \/ \E c \in Collectors : StartCollect(c) \/ CollectRow(c) \/ NextRow(c) \/ StartReconcile(c) \/ ReconcileEvent(c) \/ StopCollect(c)
  \/ \E u \in People : AskCheckin(u)
  \/ \E x \in asked : Checkin(x[1], x[2])
  \/ \E q \in AdminRequests : UpdateRules(q) \/ Feature(q) \/ Adjust(q)
-----------------------------------------------------------------------------
GrowthSpec == GrowthInit /\ [][GrowthNext]_growthVars

Count(k, kind) == Cardinality({i \in DOMAIN history : history[i].key = k /\ history[i].kind = kind})

(* Every event is paid once and taken back at most once, as its status has *)
(* it, and the balance is what the history adds up to.                     *)
BooksAgree ==
  /\ \A u \in People : account[u].balance = TotalOf(history, EntriesOf(u))
  /\ \A k \in DOMAIN events : events[k].kind # "adjustment" =>
       /\ Count(k, "award") <= 1 /\ Count(k, "reversal") <= Count(k, "award")
       /\ events[k].status = "awarded" <=> Count(k, "award") = 1 /\ Count(k, "reversal") = 0

(* The awards of a day, of a kind and of one member to another keep within *)
(* the most generous limit they were promised under, whatever the order of *)
(* settlement, reversals and new rules.                                    *)
DayHolds(u, d) ==
  LET day == Awards(DailyKeys(u, d)) IN
  day # {} => \E i \in day : TotalOf(history, day) <= events[history[i].key].cap
KindHolds(u, d, kind) ==
  LET alike == Awards(KindKeys(u, d, kind)) IN
  alike # {} => /\ \E i \in alike : Cardinality(alike) <= events[history[i].key].count
                /\ kind # "featured" => \E i \in alike : TotalOf(history, alike) <= events[history[i].key].total
PairHolds(u, d, v) == Cardinality(Awards(PairKeys(u, d, v))) <= PairLimit
LimitsHold ==
  \A u \in People : \A d \in 0 .. LastDay + 1 :
    DayHolds(u, d) /\ (\A kind \in Kinds : KindHolds(u, d, kind)) /\ (\A v \in Voters : PairHolds(u, d, v))

(* A streak counts days on which the member has really checked in.         *)
StreaksAreReal ==
  \A u \in People : \A back \in 0 .. account[u].streak - 1 :
    <<"checkin", u, account[u].last - back>> \in DOMAIN events

(* Overlapping and interrupted collectors, late check-ins, moderation and  *)
(* new rules in between: experience is paid once, within its limits, and   *)
(* for days that count.                                                    *)
ExperienceIsEarned == BooksAgree /\ LimitsHold /\ StreaksAreReal
=============================================================================
