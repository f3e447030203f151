# Meta-Pulse in TLA+

This directory models the reward economy of Meta-Pulse and the stores around
it: how a member of the forum earns experience and tickets, spends tickets on
draws, and how what was won is paid, booked and, if need be, taken back, across
four parties that share no transaction: the Pulse database (MySQL), the Pulse
worker, new-api (which holds the quota of a member) and the forum plugin (which
holds the experience of a member, his messages, events, projects and identity).

The models are translated from the Go source under `src/`; `PROJECT.json` names
the lines behind every definition. Paths below are relative to
`src/services/pulse/`; `FP/` stands for the forum plugin,
`src/services/forum-plugin/user-center-pulse/`.

## 1. Inventory

| Component | State | Operations | Talks to | Module |
|---|---|---|---|---|
| Draw (`internal/service/action.go`, `action_selection.go`) | `pulse_idempotency`, `pulse_reward_grant`, `pulse_account`, `pulse_ticket_lot`, `pulse_reward_budget`, `pulse_settlement_outbox` | `Execute`: one transaction per request | rule lock, ledger, settlement (through the outbox) | `Draw` |
| Reward rules (`internal/service/period_create.go`, `reward_rules.go`, `period_admin.go`) | `pulse_period`, definitions, budgets | create, publish, preview | draws and ticket grants (rule lock) | `Draw`, `Periods` |
| Ticket ledger (`internal/service/ledger.go`, `admin_adjustment.go`, `internal/store/mysql/ledger_check.go`) | append-only entries, accounts | append, adjust, rebuild, check | draws, close, community tickets | `TicketLedger` |
| Period close (`internal/service/period_close.go`) | `pulse_period.status` | reconcile, expire tickets, close | ledger | `TicketLedger`, `Periods`, `Draw` |
| Settlement (`internal/service/settlement.go`, `internal/adapter/newapi/benefit.go`) | outbox rows with leases, grant, budget, award status | process batch, retry dead, reconcile, roll back | new-api | `Settlement` |
| Content ingestion (`internal/service/content_ingest.go`, `internal/adapter/forum/content_reader.go`) | cursor, `pulse_content_candidate`, `pulse_ingest_conflict` | fetch a page, process one question | forum database | `ContentReview` |
| Content rewards (`internal/service/content_reward.go`) | `pulse_content_award` | review and award, reverse | settlement | `ContentReview`, `Settlement` |
| Experience rewards (`internal/service/experience.go`, `FP/growth_pulse.go`, `FP/growth_pulse_delivery.go`) | grant, outbox; in the forum: event, ledger, account, wake-up queue | list, award, acknowledge, reverse, wake up | Pulse and forum, over HTTP | `ExperienceDelivery` |
| Runtime settings (`internal/runtimeconfig/manager.go`, `internal/store/mysql/runtime_config.go`, `internal/app/runtime.go`) | one row with a revision, sealed secrets, registrations; the cached router | register, update, read, serve, run a job | API and worker processes | `RuntimeSettings` |
| Scheduler (`internal/job/scheduler.go`) | nothing | runs every worker task again and again | all worker tasks | fairness of `Settlement` |
| Community tickets (`FP/communitytickets/store.go`, `FP/community_tickets.go`, `internal/service/community_tickets.go`) | sources, cursors, receipts, outbox; in Pulse: lots, answers | collect, deliver, grant, acknowledge | Pulse, over HTTP | `CommunityTickets` |
| Forum growth (`FP/growth/store.go`, `FP/growth/collector.go`) | experience events, ledger, accounts, rules, cursors | collect, reconcile, check in, adjust, feature, new rules | forum tables | `Growth` |
| Forum chat (`FP/chat/`) | rooms, members, messages, blocks, reports, answers; the browsers' copies | commands; opening, asking for changes and for older messages | forum members | `Chat` |
| Forum events (`FP/events/store.go`) | event, registrations, answers | join, leave, edit, cancel | forum members | `Events` |
| Forum marketplace (`FP/marketplace/`) | item, live entry, audit, answers | draft, submit, publish, archive, availability | posts of the forum | `Marketplace` |
| Identity binding (`FP/binding_guard.go`, `FP/nonce_redis.go`, `FP/pulse_user_center.go`, `FP/ticket.go`, `FP/community_identity.go`) | `user_external_login`, its guard, Redis flows and nonces | install the guard, log in, look up | Answer, Redis, new-api | `Identity` |
| Usage ingest | nothing any more | refuses to run | | |
| Transport, analytics, API routing, user interface, deployment | own stores or none | own operations | outside this logic | |

What is hard in this system:

* **Nothing spans two systems.** A grant is committed in MySQL before new-api or
  the forum hears of it. A call may be lost, answered late, answered twice or
  carried out after its caller gave up; a worker may stop between the answer
  and its own transaction.
* **Leases, fences and named locks.** Several worker replicas claim outbox rows
  under a lease; a holder whose lease has run out still writes, and the number of
  attempts is the fence. The collectors of the forum hold a `GET_LOCK`, which goes
  with its connection while the collector goes on.
* **Identities.** A draw is identified by its action, a request by its key; both
  are retried, and draws of an older protocol had neither.
* **Snapshots.** MySQL's REPEATABLE READ lets one transaction see the locked rows
  as they are and the unlocked ones as they were. Reviews, appends and the close
  all read first and lock later.
* **Time.** Rules, tickets and the activity run out while a request waits for locks;
  a check-in or a registration has read the clock before it waited.
* **Opposite orders.** A reversal may overtake the delivery it reverses; windows,
  reviews and edits come in any order, on versions that are old by then.
* **Statements without a transaction.** The binding guard is installed one DDL
  statement after another while Answer goes on writing.

What makes each component correct:

* *Draw*: one grant and one answer per action; a ticket is spent once, where it
  was earned; a draw is made under the rule in force and within the time of its
  ticket; the odds never depend on what is left in the budget.
* *Settlement*: the books equal the sums of the grants and stay under the hard
  cap; grant, award and outbox row agree; Pulse books only what new-api has
  carried out; every row is decided some time; a stale worker changes nothing.
* *Experience*: the two databases agree on what was delivered; a grant is
  credited once and a reversal is for good; an accepted wake-up is served.
* *Rules*: no publication overwrites one its operator has not seen.
* *Ledger and close*: accounts are what their entries add up to; a key stands for one
  entry; a close takes what it saw and nothing else.
* *Periods*: no instant belongs to two active windows.
* *Content*: limits per author and day hold whoever reviews; the budget and the
  awards agree between the two transactions of a reversal too; the cursor passes no
  question unseen.
* *Settings*: no order of starts and updates locks a role out of its secrets or sends
  quota to a second receiver, and nothing but a missing unit of quota keeps a process
  from using its settings; no request is served with settings revoked before it came.
* *Community tickets*: deeds earn what they should and no more; a receipt is minted
  once; it is delivered some time.
* *Growth*: an event is paid once, within the caps of its day; streaks are real.
* *Chat, events, marketplace*: unread counts, registrations and what is public
  follow from what was done, in any order.
* *Identity*: a member is one account for all time; a flow is accepted once, and a
  ticket once for as long as it is valid.

`PROJECT.json` lists all components with their sources, and every hazard at
the line where it bites.

## 2. Modules

```
RewardAmounts           budgets, and sums of amounts over sets of grants
 |- RewardLifecycle     what is promised about a grant: reserve, pay, settle, refund, reverse
 |- Settlement          the outbox, its workers, new-api          (MCSettlement)
 |    implements RewardLifecycle
 |- ExperienceDelivery  Pulse -> forum, with its queue             (MCExperienceDelivery)
Draw                    the transaction of POST /v1/actions        (MCDraw)
CommunityTickets        forum deeds -> tickets in Pulse            (MCCommunityTickets)
TicketLedger            entries, accounts, the close       \
Periods                 windows and continuous rules        | one part each of
ContentReview           candidates, reviews, limits         | MCPulseRecords
RuntimeSettings         settings of API and worker         /
Growth                  experience earned in the forum     \
Chat                    rooms and browsers                  |
Events                  registrations                       | one part each of
Marketplace             projects and their reviews          | MCForumStores
Identity                logins and the binding guard       /

RewardAmountsProofs, SettlementProofs, ExperienceProofs            \
DrawProofs, CommunityProofs, LedgerProofs                           | theorems
PulseRecordsProofs, ForumStoresProofs                              /
```

The components meet in rows, and the modules cut the system where a row changes
hands:

* `Draw` ends where `Settlement` and `ExperienceDelivery` begin: its last writes,
  a pending grant, a reservation and an outbox row, are `CreateReward` of
  `Settlement` for loyalty prizes and content awards, and `Win` of
  `ExperienceDelivery` for experience. A draw never touches a grant again after its
  commit.
* `FinishReview` of `ContentReview` is what `CreateReward` is for a content award;
  `SettleAward`, `ReleaseGrant` and `ReverseAward` are what `Complete`,
  `RollbackCommit` and `AwardReversed` of `Settlement` do to the same rows.
* `Grant` of `CommunityTickets` mints the lot that `MintTicket` of `Draw` stands for.
* `ClosePeriod` of `Draw` is one step, as the rule lock makes it for a draw;
  `BeginClose` and `FinishClose` of `TicketLedger` are the same transaction as its
  two reads see it, beside transactions that do not take the rule lock.

`MCPulseRecords` and `MCForumStores` put together modules that share no row. A
behaviour picks one part and lets it run while the others keep still; so the
states add up instead of multiplying, and each part is explored completely.

Definitions marked "Mutant" are wrong variants of the definition that follows
them. No specification uses them; they show that each property would notice
the mistake (list `mutants` of `PROJECT.json`).

### Settlement

| State | Code |
|---|---|
| `grant`, `budget`, `award` | `pulse_reward_grant.status`, `pulse_reward_budget`, `pulse_content_award.status` |
| `outbox` | status, attempts, lease and due time of `pulse_settlement_outbox` |
| `benefit`, `inflight` | new-api: the state of a `source_ref`; calls that outlive their caller |
| `loc` | what a settlement loop, a reconciliation or an operator holds in memory |
| `rejected`, `faults` | history and bound |

Every transaction is one action, every call to new-api another. `ClaimDue` is
`ClaimDue` of the repository with `SKIP LOCKED` (the set of skipped rows is any);
`GrantAnswered`, `GrantTimesOut`, `Query`, `QueryFails`, `Misrouted` are the outcomes
of a call; `LateGrant` and `LateRollback` carry out a call whose caller has gone;
`Complete`, `SaveRetry`, `SaveConflict` are the transactions that book the outcome,
each with the fence of `SaveOutbox`; `StartRetryDead`, `ClaimDead` are the operator
command; `StartReversal` ... `AwardReversed` the reversal of a content award in three
transactions and a call. `TransactionFails` and `Crash` may strike at every place.
A `foreign` benefit is one whose `source_ref` carries another payload: new-api
answers a Grant with 409, but a Query only with the state.

Time is abstracted: a lease may run out and a backoff may end at any moment. A
lease that runs out under a working holder counts as a fault.

### Draw

One transaction of `Execute` is a process that takes its locks one by one:
`LockIdentity` (action), `Recall` (request key; replay, adoption of an old draw,
refusals, or `Begin`), `LockRule` or `RefuseSelection`, `Decide` (a refusal or
`Draw`). Lookups before the rule lock fix the snapshot (`view`). `Fail` is any end
without commit. Around it, operators `Look` and `Publish`, the forum grants
tickets (`MintTicket`), time passes, and the worker closes the periodic activity.

A selection names rule, ticket and kind of pool; a client can only send
selections that the server has signed (`Known`), current or outdated. The random
choice is any prize of the pool: the derivation of the random number and
the weights are abstracted, but the guard that makes the odds independent of
the budgets is in the model. Malformed commands are refused before anything is
read and are left out, as is the audit log.

The member is one; other members interfere only by the rule lock and by
budgets, where their draws are like other actions of this member.

### ExperienceDelivery

| State | Code |
|---|---|
| `grant`, `delivery`, `budget` | Pulse: grant, outbox row, budget |
| `event`, `ledger`, `exp` | forum: `metar_exp_event`, `metar_exp_ledger`, `metar_exp_account` |
| `pending`, `queue` | the wake-up queue in the memory of the plugin |
| `sync` | the delivery runs: two background workers, and requests that deliver by themselves |

`Award` is the transaction of the forum, `Ack` the one of Pulse; a reversal
(`ReverseGrant`) may come before, between and after. A page of deliveries is
read once and then worked off, so its rows may be stale.

### CommunityTickets

| State | Code |
|---|---|
| `log`, `bound`, `active`, `day` | the tables of the forum that are read: what members did, bindings, status |
| `cursor`, `sources`, `outbox`, `lock` | the plugin's tables, and `GET_LOCK`; `delivered` are the rows of the outbox with that flag, `fresh` and `deferred` the order in which the others are asked for |
| `batch` | what each replica holds in memory: the rows of its page that are left, its receipts, its call |
| `wire`, `lots` | calls on their way to Pulse; what Pulse has minted under each key |

A batch is `StartBatch`, then for every stream `ReadPage` and for every row
`RecordActor`, `RecordOwner`, `MoveCursor` (three transactions), then for every
receipt `Attempt` and `Ack`, with `Grant` in Pulse in between. `LockLost` leaves the
collector running without its lock; `Timeout` and `Abort` may strike anywhere.
Left out: the stream of answers, which is handled like that of comments; the day
the feature started; the minute a refused receipt waits, which only matters
against the order in which receipts are asked for; a batch that would find nothing.

### TicketLedger, Periods, ContentReview, RuntimeSettings

`TicketLedger`: `BeginAppend` is a transaction up to its plain lookup of the key,
which fixes the snapshot, `FinishAppend` the rest under the account lock. The second
lookup (`ledger.go:52`) reads the same snapshot, so a racing writer of the same key
is stopped by the unique key and its caller gets an error, not a replay. `Adjust`
locks first and is one step. The close and the check read a snapshot (`seen` is how
far the entries went) and act on it later. `Rebuild` is stated without a loop: the replay
succeeds when every entry recorded the balance that its predecessor left, plus its
amount, and then arrives at what the last one recorded (`Balance`), with one version per
entry. That no caller of `Append` writes an operation of the close or of the adjustments
(`Reserved`) is an assumption on `Appends`, and so it is in the code. `Tamper` changes an account from outside,
for which check and rebuild are there. The API wires neither `Append` nor `RebuildAccount`
nor adjustments of its own today (`cmd/` starts none of them); draws and community
tickets append through the same `appendEntry`.

`Periods`: all creations hold `lockRewardRule` throughout, so each is a step; they
compete in order and in what their creators believe to be current. Continuous
periods are never due for a close.

`ContentReview`: a page is fetched outside of any transaction; each of its questions is
one (`ProcessOne`), with the compare-and-set of the cursor. `BeginReview` holds request
and candidate and has its snapshot; `FinishReview` sums the limits with locking reads
and writes; the day is that of a clock read before the locks were waited for. A reversal
is two transactions, as in the code: `ReleaseGrant` (the rollback of the grant, which gives
its amount back to the budget) and `ReverseAward` (which takes the award out of the
limits). The second comes late when a process crashes in between, and never when an
operator rolls the grant itself back; until then the limits count an amount that the
budget does not hold any more. Questions are published in any order of their ids, edited
and hidden.

`RuntimeSettings`: `Register` and `Update` hold the one row and are steps; a request
reads the settings (`ReadCurrent`) and later takes the shared router (`Serve`). Secrets are
pairs of a value and the key that opens it. `Current` is `Manager.Current`: the record is
valid, the process is the one that is registered, its key opens its secrets (`Readable`),
and `Config.Validate` accepts the settings over its own environment (`UnitKnown`: actions
need the unit of quota). A process whose settings are refused at its start has registered
all the same, and ends. The HTTP form of an update is reduced to the receiver, unit,
switches and secrets it sets; retries of an update change nothing and are left out.

### Growth, Chat, Events, Marketplace, Identity

`Growth`: rows of posts and votes (`facts`), `events`, `account`, ledger (`history`), `rules`. A
collector reads a page and the rules (`StartCollect`) and registers row after row
(`CollectRow`); a reconciler settles or revokes events a day later
(`StartReconcile`, `ReconcileEvent`); a check-in reads the clock (`AskCheckin`) before it
waits for the account (`Checkin`). Every transaction holds the account and is a step. A page
is the set of its ids, taken from the smallest on (`NextOf`); what `SUM(l.delta)` adds up is
a number of units (`TotalOf`), and what the limits of `settle` count are the positions
of awards in the ledger (`Awards`).
`GET_LOCK` is left out, so collectors overlap at will; so are the week a voter must
have been a member and the bonus of the seventh day. Of the kinds of events, `question`
and `accepted` are left out: they go through the same registration, judgement and limits
as `answer`, and `accepted` is withdrawn when the acceptance is, as a `like` is with its vote.

`Chat`: one room. `Execute` is a command under its key, `Command` the transaction of
`apply`. The browser is `src/metar-frontend/production/src/chat.js`: `open` loads the newest
page and sets the cursor to the version of the room, `tick` asks for what changed behind
the cursor and merges it (`Merged` is `mergeMessages`), "older" asks for the page before the
first message shown, and a copy that has grown too long loses its oldest messages when
its reader is at the end (`CopyLimit` for 300). A tick does not notice that a membership has
begun anew. Every call is three steps, asked, answered under the room's lock (`Look`), and
received; it may be lost (`Lose`), and a new opening forgets the calls under way. `held` is
what the copy shows, with the version of each message; `from` is a history variable, the
place from which on it was loaded without a gap. Titles, rates a minute, suspended members,
the number of rooms, and a browser that goes from one room to another are left out.

`Events`: `Enter` has the sender's lock, has looked for an old answer and read the clock;
`Commit` holds the event. `Marketplace`: every command is a step on a version loaded
before; whether a reader may see a published item's post is a join at reading time
and no state. `Identity`: `StartEnsure`, `EnsureObject`, `Rescan` are the statements of
`Ensure`; `Put`, `Delete`, `Begin`, `Authenticate`, `Consume`, `Redeem` and the binding are
Answer, the connector and Redis. `Consume` is the part of the process, which reckons how
long the ticket is still valid; `Redeem` is the script, which may run any time later, knows
no expiry but the keys of Redis, and remembers the ticket from then on for as long as it
was told; its answer may be lost. Even where a bad row survives, `CommunityIdentity` refuses
ids that are not canonical and rows that are not unique. One clock; the provider
column is left out.

## 3. What is checked

| Run | Question | Properties |
|---|---|---|
| `SettlementSafety` | two settlement loops, a reconciliation and an operator on a content award and a draw whose `source_ref` is taken, with any single fault | `TypeOK`, `BudgetConservation`, `CompletedIffBooked`, `BooksFollowBenefit`, `AwardFollowsGrant`, `KnowledgeHolds`, `TerminalRowsStay` |
| `SettlementLifecycle` | two operators besides a loop and a reconciliation, grants that fit in their pool one at a time | `HardCapRespected`, `OneHolderPerClaim`, `ImplementsLifecycle` |
| `SettlementLiveness` | fair loops, any single fault | `EventuallyDecided`, `DeadRowsConverge` |
| `DrawIdentity` | three requests, a new and an old action, two keys, a new rule | `OneGrantPerAction`, `AnswersAgree` |
| `DrawTickets` | two draws, two publications, expiry, close | `TicketsAddUp`, `DrawsAreTimely`, `PublicationsChain`, `DrawnUnderCurrentRule`, `OddsStand` |
| `ExperienceDelivery` | two workers and a request, reversals, a lost reply or a restart | `DeliveredMeansApplied`, `ExperienceAddsUp`, `ExperienceBudget`, `QueueIsSound`, `WakeupsAreServed` |
| `CommunityTickets` | two replicas that overlap once a lock is lost, stop halfway or lose a call | `TaskTicketsAreEarned`, `DeliveredMeansMinted`, `ReceiptsAreDelivered` |
| `PulseRecords` | each of the four stores by itself: ledger and close, periods, ingestion and reviews, settings | `AccountsReplay`, `AnswersStand`, `CloseExpiresWhatItSaw`, `NeverAmbiguous`, `AwardLimitsHold`, `QuestionsAreSeen`, `SettingsStayUsable`, `NoStaleSwitch` |
| `ForumStores` | each of the five stores by itself: growth, chat, events, marketplace, identity | `ExperienceIsEarned`, `ConversationsAreSound`, `RegistrationsAreSound`, `PublicIsApproved`, `IdentityHolds` |
| `SettlementRejected`, `SettlementTransient`, `SettlementStarved` | expected to fail: see Findings | one each |

The properties of `ForumStores` are conjunctions: `ExperienceIsEarned` is `BooksAgree`,
`LimitsHold` and `StreaksAreReal`; `ConversationsAreSound` is `UnreadIsExact`, `CopiesCatchUp`,
`RoomIsRuled` and `SentOnce`. What they say in words stands before each definition.

Five of the checked statements are weaker than one might expect, because the code
is.

`CloseExpiresWhatItSaw` says that a close takes the balance of its snapshot and not
the one at its commit. With `AccountsReplay`, what was booked behind the snapshot remains
on the account, and it may be negative, since an adjustment that commits in between may
take away what the close takes as well.

`QuestionsAreSeen` excludes questions that commit after one of a greater id has been passed.

`SettingsStayUsable` excepts a process that lacks the unit of quota (`LacksUnit`), and such a
process is locked out in fact. `Update` validates the settings over the environment of the
API process that serves it (`internal/runtimeconfig/manager.go:272`), while every reader
validates them over its own (`manager.go:132`, `internal/config/config.go:151`). An update that
turns actions on therefore stops a worker whose environment has no `PULSE_QUOTA_PER_UNIT`,
unless the settings carry the unit. `src/docs/REWARDS_ROLLOUT.md:24` lists that variable for the
Pulse API only, and `src/docker-compose.yml:62` passes it on. The property says that this is
the only way in which a registered process, running or to be started again, is locked out.

`CopiesCatchUp` speaks of copies on which calls did not overlap (`state` is "clean"), and of
what lies from the loaded place on. What it leaves out, a browser does show or miss: a
message below the loaded page that is removed comes in as a single row, after which
"older" asks before that row and the gap stays until the room is opened again; a tick or an
older page asked for while an opening is under way may put old rows on the new copy or
move its cursor back; a trim while an older page is under way leaves a gap; and
after a member has left and come back, rows from before stay as they were.

`IdentityHolds` says that a ticket is accepted again only once it has expired, and not that
it is used once, as the comment `FP/nonce_redis.go:20` has it. A callback that has reckoned the
remaining life of its ticket, and whose script is delayed until the ticket and the memory of
its first use have expired, is accepted with another flow that was begun.

### Bounds

* *Grants*: two suffice for what the settlement can get wrong: a row is
  independent of other rows but for the shared budget (two grants in one pool, or
  in two), the batch order, and the listing limit (`BatchSize` 1 and 2).
* *Attempts*: `MaxAttempts` 1 or 2 and `AttemptCeiling` 2 to 4: a row is claimed, dies,
  is claimed again by an operator, and dies again. The ceiling is also a guard of
  the code (MySQL's unsigned 32 bits).
* *Faults*: one per behaviour, of any kind and at any place: a lease that runs out
  under its holder, a failed read, a misrouted reply, a failed transaction, a crash.
  Calls that time out and arrive late are not faults and not bounded by it. The
  invariants of `SettlementSafety`, and `HardCapRespected`, are proved for any number
  of faults.
* *Draw*: three requests on two keys and two actions give every pattern of equal
  and different keys; two tickets (one of each kind), three rules and three
  instants let everything expire before, between and after the locks. The caps
  in `DrawTickets` hold one loyalty prize, so that budgets do run out.
* *ExperienceDelivery*: a queue of one, pages of one and two pages make every limit
  bite with two grants and two members.

* *CommunityTickets*: two members, one of them bound only later, two replicas, two
  deeds, two days, one lost lock, call or batch. Thresholds of 1 and 2 stand for 40, 20
  and 10, a page of two for 200, and a batch of one receipt for 100, so that a receipt
  may be refused and stand in front of others. 458,475 states.
* *PulseRecords*: two open transactions are what one account lock can have; amounts up
  to 3 with `Limit` 3 reach the overflow. Windows of length two that overlap, touch,
  lie apart or repeat, with continuous ones whose creators believe three different
  things. Three questions of two authors with pages of two, two ingesters, two
  reviewers, caps that hold one award and a half. Two processes per role with different
  keys and receivers, one worker without a unit of quota, three updates, five revisions.
  1,078,785 states.
* *ForumStores*: rules whose daily cap of two is reached by two sources; two collectors
  and one move beside them, or one and two. Six commands of two members in a room of
  two seats; for the browser, of one member, pages of one message and a copy of two: once
  with five commands that create the room, send and recall, once with seven of which he is
  invited, joins, leaves and comes back around two changes. Every call it makes overlaps
  every other. Seven requests of two guests and two administrators
  that edit one version. Three entries and five versions of an item, with commands
  of several people on any version they may have loaded. The login twice: one callback with
  one flow while the guard is installed among rows that Answer writes in any order, and two
  callbacks with two flows and two tickets under the guard, over three instants, in which a
  delayed script does accept a ticket that has expired. One installing process is
  enough, as every statement of `Ensure` only adds to the guard and may fail or be cut
  off at every place, which is what a second process would see. 1,167,272 states.

The bounds of the parts are small, but every action fires under them and each property
is violated by its mutant.

`CHECK_DEADLOCK FALSE` is set everywhere: with bounded faults, attempts, time and
requests every behaviour may come to rest, which is what the liveness
properties are about.

### Fairness

* `WorkerFairness` of `Settlement`: `Scheduler.Run` starts every task again and
  again, and a started task takes its steps; leases and backoffs run out by the
  clock. It is weak fairness for each loop. `NetworkFairness` adds, only for
  the reconciliation, that a Query asked for ever is answered some time.
  Nothing is assumed of operators, of Grant calls or of new-api.
* `ExperienceDelivery` assumes weak fairness of the background workers only. Nobody
  has to look at a page or to win again; failures are bounded by `MaxFaults`, below the
  number of attempts.
* `CommunityTickets` assumes weak fairness of "some replica takes a step of its batch" and
  of "Pulse answers one of the calls", nothing of a particular replica, which is what
  the ticker of `startCommunityTickets` gives; troubles are bounded by `MaxTroubles`.
* `Draw`, the parts of `PulseRecords` and of `ForumStores` state safety only.

## 4. What is proved

The theorems hold for all values of the constants that satisfy the stated
assumptions (finite sets of grants where sums are taken, positive amounts).

`SettlementProofs` (on `RewardAmountsProofs`, where sums are cardinalities of unions
of intervals, and the step of one grant from status to status moves its amount):

* `TypeCorrect`: `TypeOK` is inductive by itself.
* `ConservationHolds`, `RowsStayWithinCap`, `HardCapHolds`: every step makes at most one
  move of one grant (`MoneyStep`); a move keeps the sums (`TotalMove`).
* `TablesAgree`: needs `TypeOK` only; the fence and the undone transaction do the work.
* `KnowledgeIsSafe`, `BooksAlwaysFollowBenefit`: not inductive alone. What a process
  has learned before a transaction must still hold when it commits: it does, as new-api
  forgets nothing and booked grants never become pending (`BookedForever`).
* `TerminalRowsAreFinal` is about every step, from `RowWithGrant`: a row is created with its
  grant. `AwardsFollowGrants`: a completion moves both in one transaction, and a reversal
  touches the award only when it finds the grant reversed. `ClaimsAreExclusive` by `ClaimsAreSound`: every claim of a row is a new fence (`RowMoves`), and
  no process holds a fence that the row has not reached yet (`ClaimsAreOld`).

`SettlementImplementsLifecycle` (the last part of the module) goes step by step: each
action of `Settlement` is one move of one grant of `RewardLifecycle` or a stutter. It assumes that no
`source_ref` is taken (`Foreign = {}`), which is not for convenience: with a foreign
benefit the code does leave the lifecycle, as `SettlementRejected` shows.

`DrawProofs`: the inductive invariant `IInv` adds to the properties what the locks buy.
Locks exclude each other (`LocksExclude`); whoever holds both identities finds
nothing recorded about the action and the key (`NewDrawsAreFresh`); whoever
holds the rule lock has the rule in force (`RuleIsHeld`) and an unspent ticket
(`TicketIsHeld`); spent tickets stay granted (`SpentWereMinted`); selections name
a rule (`ChoicesAreMade`). From it: `DrawTypeCorrect`, `DrawnAtMostOnce`,
`ReceiptsAreTrue`, `DecisionsAreTimely`, and for every step `RuleCannotChange` and
`OddsDoNotBend`. `TicketIsHeld` is what keeps the count of a lot from going
below zero; `RuleIsHeld` is why a rule cannot be replaced while a draw commits,
although the snapshot of the transaction is older than the lock. `TicketsBalance` adds
`TicketsInv` (minted = left + spent + gone, as cardinalities), `NoLostPublication`
the order of publications (`PublishedInTurn`).

`ExperienceProofs`: `DeliveryTypeCorrect`; `DeliveriesAreApplied` (what a worker knows about a
row stays true although the row is stale, as the forum forgets no award);
`ExperienceIsExact` and `ExperienceIsBudgeted` with the sums of `RewardAmounts`;
`QueueStaysSound` (whoever is pending is queued once or in work at one worker).

`LedgerProofs` rests on one invariant, `LedgerIsSound`, and on lemmas about prefixes of a
sequence that only grows (`SnapshotStays`, `OneMoreEntry`): what a transaction read up to
entry n is so for ever.

* `AccountsAlwaysReplay`: a row is in step with its entries (`InStep`), or was changed outside
  and has more than its entries add up to (`OutOfStep`). The second half is what makes
  the theorem inductive: without it nothing says that a changed row stays wrong, which a
  check has to find, nor that a rebuild makes it right again. `Tamper` only ever adds to a
  row, so this holds for rows that were changed upwards; a row changed up and
  down again would be repaired without a rebuild.
* `AnswersAlwaysStand`: a key has one entry (`KeysAreUnique`), and an adjustment's entry is where
  its request says (`AdjustmentsRecorded`). It needs `Reserved`: else a caller of `Append`
  could take the key of an adjustment.
* `ClosesTakeWhatTheySaw`: a close is alone with its period (`ClosesAlone`) and its rows are in
  step with its snapshot (`ClosedAt`), because it reconciled them there.

`CommunityProofs` shares the lemmas on sequences and numbers with `LedgerProofs`. Its
invariant, `CommunityIsSound`, says nothing of who holds the lock: no theorem rests on it.

* `TaskTicketsAreAlwaysEarned`: a source has a key of its own and is a deed that counts
  (`SourcesAreEarned`), for ever, although its content may be hidden later (`EarnedForever`);
  receipts never exceed what the sources of the day on record entitle to, live or not
  (`ReceiptsAreCovered`). That is the strengthening: what was live at the time is not
  known afterwards, what is on record only grows (`DueGrows`). The sum over days is an
  induction by a minimal counterexample (`PartsCoverAll`), with
  `a \div k + b \div k <= (a + b) \div k`.
* `ReceiptsAreNeverLost`: the two orders together list what is not delivered once
  (`QueueIsExact`), what waits for a call or an acknowledgement is in the outbox
  (`BatchesAreSound`), and Pulse mints per key (`MintedOnce`).

`PulseRecordsProofs` takes the other three stores of Pulse:

* `PeriodsNeverAmbiguous` by `PeriodsAreSound`: active windows are disjoint because the
  check and the write share one lock.
* `AwardsStayWithinLimits`, `ContentBudgetHolds`, `NoQuestionIsPassed` by `ContentIsSound`: a
  reviewer that has begun holds request and candidate, so no other can finish what it
  judged; the limits are summed under the lock, not from the snapshot. What the budget
  holds is the sum of the awards whose grants are not reversed: a released amount is of a
  settled or reversed award, and is given back once.
* `SettingsAlwaysUsable`, `SwitchesAreNeverStale` by `SettingsAreSound`: what is sealed opens with
  the key that its role registered (`KeysOpen`), the receiver of quota is pinned with the first
  worker and never changes (`ReceiverPinned`). A process whose own
  environment turns actions on has the unit, as `config.Load` validates it, so what keeps one
  from its settings is an update that brings none (`OnlyUnitLacks`). What a request has read
  was in force after it came (`CallsInForce`).

`ForumStoresProofs` does the same for the forum:

* `EverybodyIsHimself` by `IdentityIsSound`. What a process has reckoned reaches, whenever its
  script runs, at least to the expiry of the ticket (`ReckonedInTime`), so an accepted ticket
  is remembered until then (`UsedAreRemembered`); the flow is gone for good. `PublicWasApproved` by `MarketIsSound` (the trail of an
  item is a chain from version to version, so an approval that is published can be
  traced to its review).
* `RegistrationsAreKept` by `EventsAreSound`: seats are counted (`SeatsAreCounted`), a meeting
  follows its registrations (`MeetingFollows`), a request is answered once.
* `ConversationsStaySound` by `ChatIsSound`: the row of the room is the newest message
  (`RoomIsNewest`), what is unread follows from the markers (`UnreadFollows`), a browser's
  clean copy is what the room was up to its cursor, from its loaded place on (`CopiesFollow`).
  The invariant has to say the same of every call on its way, and of an older page that what
  the copy holds may have overtaken it (`OlderSound`). The lemma `LastPosition`
  is induction over positions by a minimal counterexample, the form of induction
  within the prover's reach.
* `ExperienceIsAlwaysEarned` by `GrowthIsSound`. An event has one entry of a kind
  (`UniqueEntries`) and its status says which (`StatusFollows`), so a page read long ago pays
  nothing twice: under the account's lock the status is read again. A balance is
  what the entries of its member add up to (`BalancesAdd`); an entry adds its own units and no
  others (`UnitsMore`, `TotalMoves`). The limits hold with the newest award as the witness: it
  was judged by what it had been promised, against every award before it, those reversed
  since included. What is left of a page still exists and holds no adjustment
  (`BatchIsSound`); the key of an event says what it is about (`KeysTell`), so a
  check-in on record is one of that member.

Only model-checked:

* liveness (`EventuallyDecided`, `DeadRowsConverge`, `WakeupsAreServed`, `ReceiptsAreDelivered`)
  and the three findings: out of the prover's reach, or counterexamples.

Every other property a run checks is stated by a theorem.

## 5. Findings

1. `SettlementRejected`: a grant that new-api has answered with 409 can be booked as
   settled. The 409 is written in a later transaction; until then the
   reconciliation takes the row for an uncertain one, and a Query does not tell
   whose benefit it is.
2. `SettlementTransient`: one failed read of the grant parks a valid reward as a
   terminal conflict.
3. `SettlementStarved`: the reconciliation lists the first rows without a cursor;
   old dead rows that new-api never saw hide a later one that it has applied.

Each is quoted against the documentation in `PROJECT.json`.

## 6. Not modelled

* Usage ingest is retired in the code: it refuses to run.
* The signed transport between the services (`internal/security`, `FP/client.go`): the
  modelled protocols start after a call is authenticated. Its nonces are used up the way
  `Redeem` of `Identity` uses up tickets.
* Analytics, read models, listings, the user interface, deployment and vendored forum code:
  read-only, or outside of this logic. The appearance a member chooses, notices, titles
  of rooms, rates a minute and the audit log change nothing that anything else reads.
* Payload parsing is abstracted to a load that succeeds or fails; the random derivation
  of a prize to any prize of the pool; encryption to the key that opens a secret.
* `PeriodAdminService` (listing and drafts), the delays of the scheduler's loop.
* Rows that commit out of the order of their ids are lost to the cursors of the
  collectors; `QuestionsAreSeen` shows that this is the only way a question is lost, the
  models of growth and community tickets leave such rows out.

Partly modelled components and what is missing in them are in `PROJECT.json`.

## 7. Plan

Every safety and action property of the runs is proved. What could follow is breadth: rows
that commit out of the order of their ids, in `Growth` and `CommunityTickets`, and the
components listed as partly modelled, among them two rooms in one browser.
