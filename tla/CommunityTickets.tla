--------------------------- MODULE CommunityTickets ---------------------------
(***************************************************************************)
(* What members do in the forum earns them tickets, which Pulse mints.     *)
(*                                                                         *)
(* Every replica of the forum runs a batch again and again.  It collects:  *)
(* for each table it reads a page of rows behind a cursor and records each *)
(* row, for the member who acted and for the author of the post, and moves *)
(* the cursor, all in transactions of their own.  A count that reaches a   *)
(* threshold leaves receipts in an outbox.  Then it delivers: it defers    *)
(* each pending receipt, asks Pulse for its ticket and acknowledges it.    *)
(* A named lock keeps collectors apart as long as its connection lives.    *)
(***************************************************************************)
EXTENDS Integers, Sequences, FiniteSets, SequencesExt, FiniteSetsExt

CONSTANTS
  Members,      (* users of the forum                                      *)
  Newcomers,    (* those not bound to an account of Pulse yet              *)
  Deeds,        (* what they may do: stream, actor, owner, object, new post *)
  Replicas,     (* processes of the forum                                  *)
  LikesPer, CommentsPer, ReceivedPer, (* thresholds: 40, 20, 10            *)
  Cap,          (* tickets a day: received 2, participation 3, checkin 1   *)
  CollectLimit, (* rows in a page of sources: 200                          *)
  PendingLimit, (* receipts in a batch: 100                                *)
  MaxDay, MaxDeeds, MaxTroubles (* bounds                                  *)

Streams    == <<"comment", "activity", "checkin">>
Categories == {"received", "participation", "checkin"}

Unbound  == -1
Nobody   == "nobody"
Resting  == [pc |-> "rest"]
Receipts == [user : Members, day : 0 .. MaxDay, category : Categories, ordinal : 1 .. 3]

ASSUME CommunityAssumption ==
  /\ Cap \in [Categories -> 0 .. 3] /\ Newcomers \subseteq Members
  /\ MaxDay \in Nat /\ MaxDeeds \in Nat /\ MaxTroubles \in Nat /\ Nobody \notin Replicas
  /\ LikesPer \in Nat \ {0} /\ CommentsPer \in Nat \ {0} /\ ReceivedPer \in Nat \ {0}
  /\ CollectLimit \in Nat \ {0} /\ PendingLimit \in Nat \ {0}
  /\ \A d \in Deeds : d.stream \in ToSet(Streams) /\ d.actor \in Members /\ d.owner \in Members

VARIABLES
  day,       (* the day in Shanghai                                        *)
  log,       (* the rows of the streams; an index is an id and an instant  *)
  bound,     (* the instant each member was bound to Pulse, or Unbound     *)
  active,    (* the members that are not suspended                         *)
  cursor,    (* metar_ticket_cursor                                        *)
  sources,   (* metar_ticket_source                                        *)
  outbox,    (* metar_ticket_outbox                                        *)
  delivered, (* those of its rows that are delivered                       *)
  fresh,     (* its pending rows that were never tried, by id              *)
  deferred,  (* and those that were, by next_attempt_at                    *)
  lock,      (* the replica that holds the collector's lock                *)
  batch,     (* what each replica has read and not finished                *)
  wire,      (* requests on their way to Pulse                             *)
  lots,      (* tickets that Pulse has minted for each key                 *)
  troubles   (* how many hidings, suspensions and faults there were        *)

forum == <<day, log, bound, active>>
queue == <<delivered, fresh, deferred>>
communityVars == <<forum, cursor, sources, outbox, queue, lock, batch, wire, lots, troubles>>

LogRow  == [stream : ToSet(Streams), actor : Members, owner : Members, object : {d.object : d \in Deeds},
            new : {d.new : d \in Deeds}, day : 0 .. MaxDay, live : BOOLEAN]
Batches ==
  {Resting} \cup [pc : {"collect"}, next : Nat \ {0}]
  \cup [pc : {"record", "owner", "cursor"}, stream : DOMAIN Streams, page : SUBSET Nat, live : SUBSET Nat]
  \cup [pc : {"deliver", "wait", "ack"}, todo : Seq(Receipts)]

CommunityTypeOK ==
  /\ day \in 0 .. MaxDay /\ log \in Seq(LogRow) /\ active \subseteq Members
  /\ bound \in [Members -> {Unbound} \cup Nat] /\ cursor \in [ToSet(Streams) -> Nat]
  /\ outbox \subseteq Receipts /\ delivered \subseteq outbox
  /\ fresh \in Seq(Receipts) /\ deferred \in Seq(Receipts)
  /\ lock \in Replicas \cup {Nobody} /\ batch \in [Replicas -> Batches]
  /\ wire \subseteq [by : Replicas, receipt : Receipts] /\ lots \in [Receipts -> Nat]

CommunityInit ==
  /\ day = 0 /\ log = <<>> /\ active = Members
  /\ bound = [u \in Members |-> IF u \in Newcomers THEN Unbound ELSE 0]
  /\ cursor = [s \in ToSet(Streams) |-> 0] /\ sources = {}
  /\ outbox = {} /\ delivered = {} /\ fresh = <<>> /\ deferred = <<>>
  /\ lock = Nobody /\ batch = [c \in Replicas |-> Resting]
  /\ wire = {} /\ lots = [r \in Receipts |-> 0]
  /\ troubles = 0
-----------------------------------------------------------------------------
(* The forum.                                                              *)

Trouble == troubles < MaxTroubles /\ troubles' = troubles + 1

Act(d) ==
  /\ Len(log) < MaxDeeds /\ d.actor \in active
  /\ log' = Append(log, [stream |-> d.stream, actor |-> d.actor, owner |-> d.owner, object |-> d.object,
                         new |-> d.new, day |-> day, live |-> TRUE])
  /\ UNCHANGED <<day, bound, active, cursor, sources, outbox, queue, lock, batch, wire, lots, troubles>>

(* A post is hidden, a comment removed or a like withdrawn, or restored.   *)
Toggle(i) ==
  /\ Trouble /\ log[i].stream # "checkin"
  /\ log' = [log EXCEPT ![i].live = ~@]
  /\ UNCHANGED <<day, bound, active, cursor, sources, outbox, queue, lock, batch, wire, lots>>

Bind(u) ==
  /\ bound[u] = Unbound
  /\ bound' = [bound EXCEPT ![u] = Len(log)]
  /\ UNCHANGED <<day, log, active, cursor, sources, outbox, queue, lock, batch, wire, lots, troubles>>

Suspend(u) ==
  /\ Trouble /\ u \in active
  /\ active' = active \ {u}
  /\ UNCHANGED <<day, log, bound, cursor, sources, outbox, queue, lock, batch, wire, lots>>

NextDay ==
  /\ day < MaxDay /\ day' = day + 1
  /\ UNCHANGED <<log, bound, active, cursor, sources, outbox, queue, lock, batch, wire, lots, troubles>>
-----------------------------------------------------------------------------
(* Collect.                                                                *)

(* What a batch delivers: receipts never tried come before deferred ones.  *)
PagePending == SubSeq(fresh \o deferred, 1, IF Len(fresh \o deferred) < PendingLimit THEN Len(fresh \o deferred) ELSE PendingLimit)
Delivering == IF PagePending = <<>> THEN Resting ELSE [pc |-> "deliver", todo |-> PagePending]

(* The rows of a stream behind the cursor, and the first of them.          *)
Behind(s) == {i \in 1 .. Len(log) : log[i].stream = s /\ i > cursor[s]}
Page(s)   == {i \in Behind(s) : Cardinality({j \in Behind(s) : j < i}) < CollectLimit}

(* GET_LOCK; a replica that does not get it goes on to deliver.  A batch   *)
(* that would find nothing to do is left out.                              *)
StartBatch(c) ==
  /\ batch[c] = Resting
  /\ PagePending # <<>> \/ \E s \in ToSet(Streams) : Behind(s) # {}
  /\ IF lock = Nobody THEN lock' = c /\ batch' = [batch EXCEPT ![c] = [pc |-> "collect", next |-> 1]]
     ELSE PagePending # <<>> /\ batch' = [batch EXCEPT ![c] = Delivering] /\ UNCHANGED lock
  /\ UNCHANGED <<forum, cursor, sources, outbox, queue, wire, lots, troubles>>

Release(c) == lock' = IF lock = c THEN Nobody ELSE lock

(* The first stream left with rows behind its cursor, and which of its     *)
(* rows are live now; after the last stream, Pending.                      *)
ReadPage(c) ==
  /\ batch[c].pc = "collect"
  /\ LET left == {k \in batch[c].next .. Len(Streams) : Behind(Streams[k]) # {}} IN
     IF left = {}
     THEN batch' = [batch EXCEPT ![c] = Delivering] /\ Release(c)
     ELSE /\ \E k \in left :
               /\ \A l \in left : k <= l
               /\ batch' = [batch EXCEPT ![c] = [pc |-> "record", stream |-> k, page |-> Page(Streams[k]),
                                               live |-> {i \in Page(Streams[k]) : log[i].live}]]
          /\ UNCHANGED lock
  /\ UNCHANGED <<forum, cursor, sources, outbox, queue, wire, lots, troubles>>

Entitlements(likes, comments, received, checkins) ==
  LET least(a, b) == IF a < b THEN a ELSE b
  IN  [participation |-> least(Cap["participation"], likes \div LikesPer + comments \div CommentsPer),
       received      |-> least(Cap["received"], received \div ReceivedPer),
       checkin       |-> least(Cap["checkin"], checkins)]

(* A mutant: a like is known by its row, not by its object.                *)
KeyOfTheRow(kind, u, i) == <<kind, u, i>>

(* A like counts for its object once and for all, anything else once.      *)
SourceKey(kind, u, i) == IF kind = "like" THEN <<kind, u, log[i].object>> ELSE <<kind, u, i>>

(* Only sources whose content is still live count towards a new threshold. *)
CountSources(all, u, d, kind) ==
  Cardinality({s \in all : s.user = u /\ s.day = d /\ s.kind = kind /\ log[s.id].live})

Kind(i) == CASE log[i].stream = "activity" -> "like" [] log[i].stream = "checkin" -> "checkin" [] OTHER -> "comment"

Qualifies(kind, u, i) ==
  /\ bound[u] # Unbound /\ u \in active /\ log[i].actor \in active
  /\ i > bound[u] /\ (kind = "received" => log[i].new)

Source(kind, u, i) == [key |-> SourceKey(kind, u, i), user |-> u, day |-> log[i].day, kind |-> kind, id |-> i]

(* The source and the receipts it entitles to, in one transaction that     *)
(* holds the lock of the member's day.                                     *)
Record(kind, u, i) ==
  LET new  == Source(kind, u, i)
      all  == sources \cup {new}
      n(k) == CountSources(all, u, new.day, k)
      due  == Entitlements(n("like"), n("comment"), n("received"), n("checkin"))
      rows == {r \in Receipts \ outbox : r.user = u /\ r.day = new.day /\ r.ordinal <= due[r.category]}
  IN  IF Qualifies(kind, u, i) /\ \A s \in sources : s.key # new.key
      THEN /\ sources' = all
           /\ outbox' = outbox \cup rows
           /\ fresh' = fresh \o SetToSeq(rows)
      ELSE UNCHANGED <<sources, outbox, fresh>>

(* The row the collector is at: pages are worked off by id.                *)
Current(c) == Min(batch[c].page)

(* A row that was not live when it was read is passed over.                *)
RecordActor(c) ==
  /\ batch[c].pc = "record"
  /\ LET e == log[Current(c)] IN
     IF Current(c) \in batch[c].live /\ (e.stream = "checkin" \/ e.actor # e.owner)
     THEN /\ Record(Kind(Current(c)), e.actor, Current(c))
          /\ batch' = [batch EXCEPT ![c].pc = IF e.stream = "comment" THEN "owner" ELSE "cursor"]
     ELSE /\ batch' = [batch EXCEPT ![c].pc = "cursor"]
          /\ UNCHANGED <<sources, outbox, fresh>>
  /\ UNCHANGED <<forum, cursor, delivered, deferred, lock, wire, lots, troubles>>

RecordOwner(c) ==
  /\ batch[c].pc = "owner"
  /\ Record("received", log[Current(c)].owner, Current(c))
  /\ batch' = [batch EXCEPT ![c].pc = "cursor"]
  /\ UNCHANGED <<forum, cursor, delivered, deferred, lock, wire, lots, troubles>>

MoveCursor(c) ==
  /\ batch[c].pc = "cursor"
  /\ cursor' = [cursor EXCEPT ![Streams[batch[c].stream]] = Current(c)]
  /\ batch' = [batch EXCEPT ![c] = IF @.page = {Current(c)} THEN [pc |-> "collect", next |-> @.stream + 1]
                                   ELSE [@ EXCEPT !.pc = "record", !.page = batch[c].page \ {Current(c)}]]
  /\ UNCHANGED <<forum, sources, outbox, queue, lock, wire, lots, troubles>>
-----------------------------------------------------------------------------
(* Deliver.                                                                *)

Receipt(c) == Head(batch[c].todo)
Following(c) == IF Len(batch[c].todo) > 1 THEN [pc |-> "deliver", todo |-> Tail(batch[c].todo)] ELSE Resting

(* A row leaves its place in an order where it stands at most once.        *)
Without(rows, r) ==
  LET k == CHOOSE k \in 1 .. Len(rows) : rows[k] = r
  IN  IF \E i \in 1 .. Len(rows) : rows[i] = r
      THEN [i \in 1 .. Len(rows) - 1 |-> rows[IF i < k THEN i ELSE i + 1]]
      ELSE rows

(* A mutant: a failed receipt keeps its place.                             *)
KeepInPlace(r) == UNCHANGED queue

(* Persist the retry, so that no receipt can starve those behind it.       *)
Defer(r) == /\ fresh' = Without(fresh, r)
            /\ deferred' = IF r \in delivered THEN deferred ELSE Append(Without(deferred, r), r)
            /\ UNCHANGED delivered

(* Then CommunityIdentity: a receipt of a suspended member has to wait.    *)
Attempt(c) ==
  /\ batch[c].pc = "deliver"
  /\ Defer(Receipt(c))
  /\ IF Receipt(c).user \in active
     THEN /\ batch' = [batch EXCEPT ![c].pc = "wait"]
          /\ wire' = wire \cup {[by |-> c, receipt |-> Receipt(c)]}
     ELSE batch' = [batch EXCEPT ![c] = Following(c)] /\ UNCHANGED wire
  /\ UNCHANGED <<forum, cursor, sources, outbox, lock, lots, troubles>>

(* The key has an answer: the ticket is minted.                            *)
Known(r) == lots[r] > 0

(* CommunityTicketService.Grant, and its answer if the caller still waits. *)
Grant(q) ==
  /\ wire' = wire \ {q}
  /\ lots' = IF Known(q.receipt) THEN lots ELSE [lots EXCEPT ![q.receipt] = @ + 1]
  /\ batch' = [batch EXCEPT ![q.by] = IF @.pc = "wait" /\ Head(@.todo) = q.receipt THEN [@ EXCEPT !.pc = "ack"] ELSE @]
  /\ UNCHANGED <<forum, cursor, sources, outbox, queue, lock, troubles>>

(* A mutant: a receipt is acknowledged while its call is still out.        *)
AckEarly(c) ==
  /\ batch[c].pc \in {"wait", "ack"}
  /\ delivered' = delivered \cup {Receipt(c)}
  /\ fresh' = Without(fresh, Receipt(c)) /\ deferred' = Without(deferred, Receipt(c))
  /\ batch' = [batch EXCEPT ![c] = Following(c)]
  /\ UNCHANGED <<forum, cursor, sources, outbox, lock, wire, lots, troubles>>

Ack(c) ==
  /\ batch[c].pc = "ack"
  /\ delivered' = delivered \cup {Receipt(c)}
  /\ fresh' = Without(fresh, Receipt(c)) /\ deferred' = Without(deferred, Receipt(c))
  /\ batch' = [batch EXCEPT ![c] = Following(c)]
  /\ UNCHANGED <<forum, cursor, sources, outbox, lock, wire, lots, troubles>>
-----------------------------------------------------------------------------
(* What goes wrong with calls, batches and the lock.                       *)

(* A call times out: the request is lost, or late, or its answer is lost.  *)
Timeout(c) ==
  /\ Trouble /\ batch[c].pc \in {"wait", "ack"}
  /\ wire' \in {wire, {q \in wire : q.by # c}}
  /\ batch' = [batch EXCEPT ![c] = Following(c)]
  /\ UNCHANGED <<forum, cursor, sources, outbox, queue, lock, lots>>

(* The collector fails and the batch delivers, or the whole batch ends.    *)
Abort(c) ==
  /\ Trouble /\ batch[c] # Resting
  /\ batch' = [batch EXCEPT ![c] = IF @.pc \in {"collect", "record", "owner", "cursor"} THEN Delivering ELSE Resting]
  /\ Release(c)
  /\ UNCHANGED <<forum, cursor, sources, outbox, queue, wire, lots>>

(* The lock goes with its connection, the collector goes on without.       *)
LockLost ==
  /\ Trouble /\ lock # Nobody /\ lock' = Nobody
  /\ UNCHANGED <<forum, cursor, sources, outbox, queue, batch, wire, lots>>

ForumNext == (\E d \in Deeds : Act(d)) \/ (\E i \in DOMAIN log : Toggle(i)) \/ (\E u \in Members : Bind(u) \/ Suspend(u)) \/ NextDay
BatchStep(c) ==
  \/ StartBatch(c) \/ ReadPage(c) \/ RecordActor(c) \/ RecordOwner(c) \/ MoveCursor(c)
  \/ Attempt(c) \/ Ack(c)
FaultNext == LockLost \/ \E c \in Replicas : Timeout(c) \/ Abort(c)

CommunityNext ==
  \/ ForumNext \/ FaultNext
  \/ \E c \in Replicas : BatchStep(c)
  \/ \E q \in wire : Grant(q)

(* Some replica runs its loop, and Pulse answers: troubles come to an end. *)
CommunitySpec ==
  /\ CommunityInit /\ [][CommunityNext]_communityVars
  /\ WF_communityVars(\E c \in Replicas : BatchStep(c))
  /\ WF_communityVars(\E q \in wire : Grant(q))
-----------------------------------------------------------------------------
(* The things a member did after binding, as the threshold should see them. *)
Done(u, stream) == {i \in 1 .. Len(log) : log[i].stream = stream /\ log[i].actor = u
                                           /\ (stream = "checkin" \/ log[i].owner # u)
                                           /\ bound[u] # Unbound /\ i > bound[u]}
Received(u) == {i \in 1 .. Len(log) : log[i].stream = "comment" /\ log[i].owner = u /\ log[i].actor # u
                                        /\ log[i].new /\ bound[u] # Unbound /\ i > bound[u]}
Issued(u, category, days) == Cardinality({r \in outbox : r.user = u /\ r.category = category /\ r.day \in days})
OnDay(ids, d) == {i \in ids : log[i].day = d}

(* However often collectors overlap, stop halfway and read a row again, a  *)
(* member gets no more tickets than deeds after binding can earn: an object *)
(* liked again, even on another day, earns nothing more, one comment earns *)
(* on one day, and Pulse mints one ticket at most for each receipt issued. *)
TaskTicketsAreEarned ==
  /\ \A u \in Members :
       /\ Issued(u, "participation", 0 .. MaxDay) <=
            Cardinality({log[i].object : i \in Done(u, "activity")}) \div LikesPer
              + Cardinality(Done(u, "comment")) \div CommentsPer
       /\ \A d \in 0 .. MaxDay :
            /\ Issued(u, "received", {d}) <= Cardinality(OnDay(Received(u), d)) \div ReceivedPer
            /\ Issued(u, "checkin", {d}) <= Cardinality(OnDay(Done(u, "checkin"), d))
            /\ \A category \in Categories : Issued(u, category, {d}) <= Cap[category]
  /\ \A r \in Receipts : lots[r] <= (IF r \in outbox THEN 1 ELSE 0)

(* Whatever a call, a batch or a lock does, a receipt counts as delivered  *)
(* only with its ticket minted, and one that is not is still in the queue  *)
(* once: an answer that was lost is asked for again.                       *)
DeliveredMeansMinted ==
  \A r \in outbox :
    /\ r \in delivered => lots[r] = 1
    /\ Cardinality({k \in DOMAIN (fresh \o deferred) : (fresh \o deferred)[k] = r}) = (IF r \in delivered THEN 0 ELSE 1)

(* Again and again nothing is pending for a member who is not suspended:   *)
(* lost answers are asked for again, and receipts of suspended members do  *)
(* not hold up those behind them.                                          *)
ReceiptsAreDelivered ==
  \A u \in Members : []<>(u \in active => \A r \in outbox : r.user = u => r \in delivered)
=============================================================================
