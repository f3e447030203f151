--------------------------- MODULE CommunityProofs ---------------------------
(***************************************************************************)
(* Theorems about the tickets that deeds in the forum earn, for any deeds, *)
(* members, replicas, thresholds and page sizes.                           *)
(*                                                                         *)
(* No collector can trust its lock, so nothing here rests on it: a source  *)
(* is recorded once because its key is unique, and a receipt is issued     *)
(* only for sources that are on record when it is.  Pulse mints a receipt  *)
(* once because it remembers its key.  The lemmas on numbers and lists are *)
(* those of LedgerProofs.                                                  *)
(***************************************************************************)
EXTENDS LedgerProofs, CommunityTickets

-----------------------------------------------------------------------------
(* The inductive invariant.                                                *)

(* What stands in an order, and that nothing stands there twice.           *)
Listed(s, r) == \E i \in 1 .. Len(s) : s[i] = r
Once(s)      == \A i, j \in 1 .. Len(s) : s[i] = s[j] => i = j

(* A receipt that is not delivered is queued, in one of the two orders.    *)
QueueIsExact ==
  /\ Once(fresh) /\ Once(deferred)
  /\ \A r \in Receipts : ~ (Listed(fresh, r) /\ Listed(deferred, r))
  /\ \A r \in Receipts : Listed(fresh, r) \/ Listed(deferred, r) <=> r \in outbox \ delivered

(* What a replica holds in memory is in the tables, and what it is about   *)
(* to acknowledge is minted.                                               *)
Collecting == {"record", "owner", "cursor"}
Delivery   == {"deliver", "wait", "ack"}
BatchIsSound(b) ==
  /\ b.pc \in Collecting => b.page # {} /\ b.page \subseteq 1 .. Len(log)
  /\ b.pc = "owner" => LET e == log[Min(b.page)] IN e.stream = "comment" /\ e.actor # e.owner
  /\ b.pc \in Delivery => b.todo # <<>> /\ \A k \in 1 .. Len(b.todo) : b.todo[k] \in outbox
  /\ b.pc = "ack" => lots[b.todo[1]] = 1
BatchesAreSound == \A c \in Replicas : BatchIsSound(batch[c])

(* Tickets are minted for receipts, once for each.                         *)
MintedOnce ==
  /\ \A r \in Receipts : /\ lots[r] \in {0, 1}
                         /\ lots[r] = 1 => r \in outbox
                         /\ r \in delivered => lots[r] = 1
  /\ \A q \in wire : q.receipt \in outbox

(* A source is a deed that counts, under a key of its own.                 *)
SourceKinds == {"like", "comment", "received", "checkin"}
Earning(kind, u) ==
  IF kind = "received" THEN Received(u) ELSE Done(u, IF kind = "like" THEN "activity" ELSE kind)
IsEarned(s) ==
  /\ s.user \in Members /\ s.kind \in SourceKinds /\ s.id \in Earning(s.kind, s.user)
  /\ s = Source(s.kind, s.user, s.id)
SourcesAreEarned ==
  /\ IsFiniteSet(sources)
  /\ \A s \in sources : IsEarned(s)
  /\ \A s, t \in sources : s.key = t.key => s = t

(* The receipts of a day are entitled to by the sources on record, whether *)
(* or not their content is still live.                                     *)
OfKind(all, u, d, kind) == {s \in all : s.user = u /\ s.day = d /\ s.kind = kind}
Due(all, u, d) ==
  Entitlements(Cardinality(OfKind(all, u, d, "like")), Cardinality(OfKind(all, u, d, "comment")),
               Cardinality(OfKind(all, u, d, "received")), Cardinality(OfKind(all, u, d, "checkin")))
ReceiptsAreCovered ==
  /\ IsFiniteSet(outbox)
  /\ \A r \in outbox : r.ordinal <= Due(sources, r.user, r.day)[r.category]

CommunityIsSound ==
  /\ CommunityTypeOK /\ QueueIsExact /\ BatchesAreSound /\ MintedOnce
  /\ SourcesAreEarned /\ ReceiptsAreCovered

-----------------------------------------------------------------------------
(* Orders, thresholds and tables.                                          *)

(* The streams by name.                                                    *)
LEMMA StreamsAre == ToSet(Streams) = {"comment", "activity", "checkin"} /\ DOMAIN Streams = 1 .. 3
  BY DEF ToSet, Streams

(* The least of finitely many positions is one of them.                    *)
LEMMA LeastPosition ==
  ASSUME NEW S \in SUBSET Nat, S # {}
  PROVE  Min(S) \in S /\ \A l \in S : Min(S) <= l
<1>1. PICK m \in S : \A l \in S : m <= l
  BY LowestNumber
<1>2. QED
  BY <1>1 DEF Min

(* A row that leaves an order leaves the others where they were.           *)
LEMMA WithoutIs ==
  ASSUME NEW S, NEW s \in Seq(S), NEW r, Once(s)
  PROVE  /\ Without(s, r) \in Seq(S) /\ Once(Without(s, r))
         /\ \A x : Listed(Without(s, r), x) => Listed(s, x) /\ x # r
         /\ \A x : Listed(s, x) /\ x # r => Listed(Without(s, r), x)
<1>1. CASE ~ Listed(s, r)
  <2>1. Without(s, r) = s
    BY <1>1, Zenon DEF Without, Listed
  <2>2. QED
    BY <1>1, <2>1, Zenon
<1>2. CASE Listed(s, r)
  <2> DEFINE n == Len(s)
             k == CHOOSE k \in 1 .. Len(s) : s[k] = r
             t == [i \in 1 .. n - 1 |-> s[IF i < k THEN i ELSE i + 1]]
  <2>1. Without(s, r) = t
    BY <1>2, Zenon DEF Without, Listed
  <2>2. k \in 1 .. n /\ s[k] = r /\ n \in Nat
    BY <1>2 DEF Listed
  <2> HIDE DEF k
  <2>3. \A i \in 1 .. n - 1 : (IF i < k THEN i ELSE i + 1) \in 1 .. n
    BY <2>2
  <2>4. t \in Seq(S) /\ Len(t) = n - 1
    <3>1. n - 1 \in Nat
      BY <2>2
    <3>2. t \in [1 .. n - 1 -> S]
      BY <2>2, <2>3
    <3>3. QED
      BY <3>1, <3>2
  <2>5. \A i \in 1 .. n - 1 : t[i] = s[IF i < k THEN i ELSE i + 1]
    OBVIOUS
  <2> HIDE DEF t
  <2>6. Once(t)
    BY <2>2, <2>3, <2>4, <2>5 DEF Once
  <2>7. ASSUME NEW x, Listed(t, x) PROVE Listed(s, x) /\ x # r
    <3>1. PICK i \in 1 .. n - 1 : t[i] = x
      BY <2>4, <2>7 DEF Listed
    <3>2. CASE i < k
      BY <2>2, <2>5, <3>1, <3>2 DEF Once, Listed
    <3>3. CASE ~ (i < k)
      <4>1. i + 1 \in 1 .. n /\ i + 1 # k /\ s[i + 1] = x
        BY <2>2, <2>5, <3>1, <3>3
      <4>2. QED
        BY <2>2, <4>1 DEF Once, Listed
    <3>4. QED
      BY <3>2, <3>3
  <2>8. ASSUME NEW x, Listed(s, x), x # r PROVE Listed(t, x)
    <3>1. PICK i \in 1 .. n : s[i] = x
      BY <2>8 DEF Listed
    <3>2. i # k
      BY <2>2, <2>8, <3>1
    <3>3. CASE i < k
      BY <2>2, <2>4, <2>5, <3>1, <3>3 DEF Listed
    <3>4. CASE i > k
      <4>1. i - 1 \in 1 .. n - 1 /\ ~ (i - 1 < k) /\ (i - 1) + 1 = i
        BY <2>2, <3>4
      <4>2. t[i - 1] = x
        BY <2>5, <3>1, <4>1
      <4>3. QED
        BY <2>4, <4>1, <4>2 DEF Listed
    <3>5. QED
      BY <2>2, <3>2, <3>3, <3>4
  <2>9. QED
    BY <2>1, <2>4, <2>6, <2>7, <2>8
<1>3. QED
  BY <1>1, <1>2

(* What is put behind an order in which it does not stand.                 *)
LEMMA AppendedIs ==
  ASSUME NEW S, NEW s \in Seq(S), NEW r \in S, Once(s), ~ Listed(s, r)
  PROVE  /\ Append(s, r) \in Seq(S) /\ Once(Append(s, r))
         /\ \A x : Listed(Append(s, r), x) => Listed(s, x) \/ x = r
         /\ \A x : Listed(s, x) \/ x = r => Listed(Append(s, r), x)
<1> DEFINE t == Append(s, r)
<1>1. t \in Seq(S) /\ Len(t) = Len(s) + 1 /\ Len(s) \in Nat /\ t[Len(s) + 1] = r
  OBVIOUS
<1>2. \A i \in 1 .. Len(s) : t[i] = s[i]
  OBVIOUS
<1> HIDE DEF t
<1>3. Once(t)
  BY <1>1, <1>2 DEF Once, Listed
<1>4. ASSUME NEW x, Listed(t, x) PROVE Listed(s, x) \/ x = r
  BY <1>1, <1>2, <1>4 DEF Listed
<1>5. ASSUME NEW x, Listed(s, x) \/ x = r PROVE Listed(t, x)
  BY <1>1, <1>2, <1>5 DEF Listed
<1>6. QED
  BY <1>1, <1>3, <1>4, <1>5 DEF t

(* The elements of a set that stand nowhere yet are put behind an order.   *)
LEMMA JoinedOnce ==
  ASSUME NEW S, NEW s \in Seq(S), NEW T \in SUBSET S, IsFiniteSet(T), Once(s), \A x \in T : ~ Listed(s, x)
  PROVE  /\ s \o SetToSeq(T) \in Seq(S) /\ Once(s \o SetToSeq(T))
         /\ \A x : Listed(s \o SetToSeq(T), x) => Listed(s, x) \/ x \in T
         /\ \A x : Listed(s, x) \/ x \in T => Listed(s \o SetToSeq(T), x)
<1> DEFINE q == SetToSeq(T)
           t == s \o q
           n == Cardinality(T)
<1>1. /\ n \in Nat /\ q \in [1 .. n -> T] /\ Len(q) = n
      /\ \A i, j \in 1 .. n : q[i] = q[j] => i = j
      /\ \A x \in T : \E i \in 1 .. n : q[i] = x
  BY ListedOnce
<1> HIDE DEF q, n
<1>2. q \in Seq(S)
  BY <1>1
<1>3. /\ t \in Seq(S) /\ Len(t) = Len(s) + n
      /\ \A i \in 1 .. Len(s) : t[i] = s[i]
      /\ \A i \in 1 .. n : t[Len(s) + i] = q[i]
  BY <1>1, <1>2, JoinedIs
<1> HIDE DEF t
<1>4. \A i \in 1 .. Len(t) : i \notin 1 .. Len(s) => \E j \in 1 .. n : i = Len(s) + j
  <2>1. Len(s) \in Nat
    OBVIOUS
  <2>2. ASSUME NEW i \in 1 .. Len(t), i \notin 1 .. Len(s) PROVE i - Len(s) \in 1 .. n /\ i = Len(s) + (i - Len(s))
    BY <1>1, <1>3, <2>1, <2>2
  <2>3. QED
    BY <2>2
<1>5. Once(t)
  <2>1. SUFFICES ASSUME NEW i \in 1 .. Len(t), NEW j \in 1 .. Len(t), t[i] = t[j] PROVE i = j
    BY DEF Once
  <2>2. CASE i \in 1 .. Len(s) /\ j \in 1 .. Len(s)
    BY <1>3, <2>1, <2>2 DEF Once
  <2>3. CASE i \notin 1 .. Len(s) /\ j \notin 1 .. Len(s)
    <3>1. PICK k \in 1 .. n : i = Len(s) + k
      BY <1>4, <2>3
    <3>2. PICK l \in 1 .. n : j = Len(s) + l
      BY <1>4, <2>3
    <3>3. q[k] = q[l]
      BY <1>3, <2>1, <3>1, <3>2
    <3>4. k = l
      BY <1>1, <3>3
    <3>5. QED
      BY <3>1, <3>2, <3>4
  <2>4. CASE i \in 1 .. Len(s) /\ j \notin 1 .. Len(s)
    <3>1. PICK l \in 1 .. n : j = Len(s) + l
      BY <1>4, <2>4
    <3>2. q[l] \in T /\ s[i] = q[l]
      BY <1>1, <1>3, <2>1, <2>4, <3>1
    <3>3. QED
      BY <2>4, <3>2 DEF Listed
  <2>5. CASE i \notin 1 .. Len(s) /\ j \in 1 .. Len(s)
    <3>1. PICK k \in 1 .. n : i = Len(s) + k
      BY <1>4, <2>5
    <3>2. q[k] \in T /\ s[j] = q[k]
      BY <1>1, <1>3, <2>1, <2>5, <3>1
    <3>3. QED
      BY <2>5, <3>2 DEF Listed
  <2>6. QED
    BY <2>2, <2>3, <2>4, <2>5
<1>6. ASSUME NEW x, Listed(t, x) PROVE Listed(s, x) \/ x \in T
  <2>1. PICK i \in 1 .. Len(t) : t[i] = x
    BY <1>6 DEF Listed
  <2>2. CASE i \in 1 .. Len(s)
    BY <1>3, <2>1, <2>2 DEF Listed
  <2>3. CASE i \notin 1 .. Len(s)
    <3>1. PICK k \in 1 .. n : i = Len(s) + k
      BY <1>4, <2>3
    <3>2. QED
      BY <1>1, <1>3, <2>1, <3>1
  <2>4. QED
    BY <2>2, <2>3
<1>7. ASSUME NEW x \in T PROVE Listed(t, x)
  <2>1. PICK i \in 1 .. n : q[i] = x
    BY <1>1
  <2>2. Len(s) + i \in 1 .. Len(t) /\ t[Len(s) + i] = x
    BY <1>1, <1>3, <2>1
  <2>3. QED
    BY <2>2 DEF Listed
<1>8. ASSUME NEW x, Listed(s, x) PROVE Listed(t, x)
  <2>1. PICK i \in 1 .. Len(s) : s[i] = x
    BY <1>8 DEF Listed
  <2>2. i \in 1 .. Len(t) /\ t[i] = x
    BY <1>1, <1>3, <2>1
  <2>3. QED
    BY <2>2 DEF Listed
<1>9. QED
  BY <1>3, <1>5, <1>6, <1>7, <1>8 DEF t, q

(* More sources entitle to more.                                           *)
LEMMA EntitlementsGrow ==
  ASSUME NEW a \in Nat, NEW b \in Nat, NEW c \in Nat, NEW d \in Nat,
         NEW a2 \in Nat, NEW b2 \in Nat, NEW c2 \in Nat, NEW d2 \in Nat,
         a <= a2, b <= b2, c <= c2, d <= d2, NEW category \in Categories
  PROVE  /\ Entitlements(a, b, c, d)[category] \in Nat
         /\ Entitlements(a, b, c, d)[category] <= Entitlements(a2, b2, c2, d2)[category]
<1>1. Cap[category] \in Nat
  BY CommunityAssumption
<1>2. /\ a \div LikesPer \in Nat /\ a \div LikesPer <= a2 \div LikesPer /\ a2 \div LikesPer \in Nat
      /\ b \div CommentsPer \in Nat /\ b \div CommentsPer <= b2 \div CommentsPer /\ b2 \div CommentsPer \in Nat
      /\ c \div ReceivedPer \in Nat /\ c \div ReceivedPer <= c2 \div ReceivedPer /\ c2 \div ReceivedPer \in Nat
  BY CommunityAssumption
<1>3. CASE category = "participation"
  <2> DEFINE x == a \div LikesPer + b \div CommentsPer
             y == a2 \div LikesPer + b2 \div CommentsPer
  <2>1. x \in Nat /\ y \in Nat /\ x <= y
    BY <1>2
  <2>2. Entitlements(a, b, c, d)[category] = IF Cap[category] < x THEN Cap[category] ELSE x
    BY <1>3 DEF Entitlements
  <2>3. Entitlements(a2, b2, c2, d2)[category] = IF Cap[category] < y THEN Cap[category] ELSE y
    BY <1>3 DEF Entitlements
  <2> HIDE DEF x, y
  <2>4. QED
    BY <1>1, <2>1, <2>2, <2>3
<1>4. CASE category = "received"
  <2> DEFINE x == c \div ReceivedPer
             y == c2 \div ReceivedPer
  <2>1. x \in Nat /\ y \in Nat /\ x <= y
    BY <1>2
  <2>2. Entitlements(a, b, c, d)[category] = IF Cap[category] < x THEN Cap[category] ELSE x
    BY <1>4 DEF Entitlements
  <2>3. Entitlements(a2, b2, c2, d2)[category] = IF Cap[category] < y THEN Cap[category] ELSE y
    BY <1>4 DEF Entitlements
  <2> HIDE DEF x, y
  <2>4. QED
    BY <1>1, <2>1, <2>2, <2>3
<1>5. CASE category = "checkin"
  <2>1. Entitlements(a, b, c, d)[category] = IF Cap[category] < d THEN Cap[category] ELSE d
    BY <1>5 DEF Entitlements
  <2>2. Entitlements(a2, b2, c2, d2)[category] = IF Cap[category] < d2 THEN Cap[category] ELSE d2
    BY <1>5 DEF Entitlements
  <2>3. QED
    BY <1>1, <2>1, <2>2
<1>6. QED
  BY <1>3, <1>4, <1>5 DEF Categories

(* The same for a set of sources that contains another one.                *)
LEMMA DueGrows ==
  ASSUME NEW few, NEW many, few \subseteq many, IsFiniteSet(many), NEW u, NEW d, NEW category \in Categories
  PROVE  /\ Due(few, u, d)[category] \in Nat
         /\ Due(few, u, d)[category] <= Due(many, u, d)[category]
<1>1. ASSUME NEW kind
      PROVE  /\ Cardinality(OfKind(few, u, d, kind)) \in Nat
             /\ Cardinality(OfKind(many, u, d, kind)) \in Nat
             /\ Cardinality(OfKind(few, u, d, kind)) <= Cardinality(OfKind(many, u, d, kind))
  <2>1. OfKind(many, u, d, kind) \in SUBSET many /\ OfKind(few, u, d, kind) \in SUBSET OfKind(many, u, d, kind)
    BY DEF OfKind
  <2>2. IsFiniteSet(OfKind(many, u, d, kind))
    BY <2>1, FS_Subset
  <2>3. IsFiniteSet(OfKind(few, u, d, kind)) /\ Cardinality(OfKind(few, u, d, kind)) <= Cardinality(OfKind(many, u, d, kind))
    BY <2>1, <2>2, FS_Subset
  <2>4. QED
    BY <2>2, <2>3, FS_CardinalityType
<1>2. QED
  BY <1>1, EntitlementsGrow DEF Due

(* What a row of a stream tells, beside whether it is live.                *)
Deed(e) == <<e.stream, e.actor, e.owner, e.object, e.new, e.day>>

(* What no step undoes: rows stay, bindings stay, receipts and minted      *)
(* tickets stay.                                                           *)
Onward ==
  /\ Len(log') \in Nat /\ Len(log) <= Len(log')
  /\ \A i \in 1 .. Len(log) : Deed(log'[i]) = Deed(log[i])
  /\ \A u \in Members : bound[u] # Unbound => bound'[u] = bound[u]
  /\ outbox \subseteq outbox'
  /\ \A r \in Receipts : lots[r] = 1 => lots'[r] = 1

(* The rows and bindings of a step that changes neither.                   *)
LEMMA OnwardIs ==
  ASSUME CommunityTypeOK, UNCHANGED <<log, bound>>, outbox \subseteq outbox',
         \A r \in Receipts : lots[r] = 1 => lots'[r] = 1
  PROVE  Onward
  BY DEF Onward, CommunityTypeOK

(* What was a deed that counts is one for ever.                            *)
LEMMA EarnedForever ==
  ASSUME CommunityTypeOK, Onward, NEW s, IsEarned(s)
  PROVE  IsEarned(s)'
<1> DEFINE i == s.id
<1>1. /\ s.user \in Members /\ s.kind \in SourceKinds /\ i \in Earning(s.kind, s.user)
      /\ s = Source(s.kind, s.user, i)
  BY DEF IsEarned
<1> HIDE DEF i
<1>2. i \in 1 .. Len(log) /\ bound[s.user] # Unbound
  BY <1>1 DEF Earning, Done, Received
<1>3. bound'[s.user] = bound[s.user] /\ Deed(log'[i]) = Deed(log[i])
  BY <1>1, <1>2, Zenon DEF Onward
<1>4. i \in 1 .. Len(log')
  BY <1>2 DEF Onward, CommunityTypeOK
<1>5. /\ log'[i].stream = log[i].stream /\ log'[i].actor = log[i].actor /\ log'[i].owner = log[i].owner
      /\ log'[i].object = log[i].object /\ log'[i].new = log[i].new /\ log'[i].day = log[i].day
  BY <1>3 DEF Deed
<1>6. i \in Earning(s.kind, s.user)'
  <2>1. CASE s.kind = "received"
    BY <1>1, <1>3, <1>4, <1>5, <2>1 DEF Earning, Received
  <2>2. CASE s.kind # "received"
    BY <1>1, <1>3, <1>4, <1>5, <2>2 DEF Earning, Done
  <2>3. QED
    BY <2>1, <2>2
<1>7. Source(s.kind, s.user, i)' = Source(s.kind, s.user, i)
  BY <1>5 DEF Source, SourceKey
<1>8. QED
  BY <1>1, <1>6, <1>7 DEF IsEarned, i

(* What a replica holds stays in the tables.                               *)
LEMMA BatchStaysSound ==
  ASSUME CommunityTypeOK, Onward, NEW b \in Batches, BatchIsSound(b)
  PROVE  BatchIsSound(b)'
<1>1. b.pc \in Collecting => b.page # {} /\ b.page \subseteq 1 .. Len(log')
  BY DEF BatchIsSound, Onward, CommunityTypeOK
<1>2. ASSUME b.pc = "owner"
      PROVE  LET e == log'[Min(b.page)] IN e.stream = "comment" /\ e.actor # e.owner
  <2>1. b.page # {} /\ b.page \in SUBSET (1 .. Len(log))
    BY <1>2 DEF BatchIsSound, Collecting
  <2>2. Min(b.page) \in b.page
    <3>1. b.page \in SUBSET Nat
      BY <2>1
    <3>2. QED
      BY <2>1, <3>1, LeastPosition
  <2>3. Deed(log'[Min(b.page)]) = Deed(log[Min(b.page)])
    BY <2>1, <2>2 DEF Onward
  <2>4. QED
    BY <1>2, <2>3 DEF BatchIsSound, Deed
<1>3. ASSUME b.pc \in Delivery
      PROVE  b.todo # <<>> /\ \A k \in 1 .. Len(b.todo) : b.todo[k] \in outbox'
  BY <1>3 DEF BatchIsSound, Onward
<1>4. ASSUME b.pc = "ack" PROVE lots'[b.todo[1]] = 1
  <2>1. b.todo \in Seq(Receipts) /\ b.todo # <<>>
    BY <1>4 DEF Batches, BatchIsSound, Delivery, Resting
  <2>2. b.todo[1] \in Receipts
    BY <2>1
  <2>3. QED
    BY <1>4, <2>2 DEF BatchIsSound, Onward
<1>5. QED
  BY <1>1, <1>2, <1>3, <1>4 DEF BatchIsSound

-----------------------------------------------------------------------------
(* Steps.                                                                  *)

(* A batch that no one moves stays sound while the tables go on.           *)
LEMMA OthersStaySound ==
  ASSUME CommunityIsSound, Onward, NEW c \in Replicas, batch'[c] = batch[c]
  PROVE  BatchIsSound(batch[c])'
<1>1. PICK b \in Batches : b = batch[c]
  BY DEF CommunityIsSound, CommunityTypeOK
<1>2. BatchIsSound(b)
  BY <1>1 DEF CommunityIsSound, BatchesAreSound
<1>3. BatchIsSound(b)'
  BY <1>2, BatchStaysSound DEF CommunityIsSound
<1>4. QED
  BY <1>1, <1>3 DEF BatchIsSound

(* One replica moves on to a batch that is sound.                          *)
LEMMA BatchMoves ==
  ASSUME CommunityIsSound, Onward, NEW c \in Replicas, NEW b \in Batches, BatchIsSound(b)',
         batch' = [batch EXCEPT ![c] = b]
  PROVE  batch' \in [Replicas -> Batches] /\ BatchesAreSound'
<1>1. batch \in [Replicas -> Batches]
  BY DEF CommunityIsSound, CommunityTypeOK
<1>2. batch' \in [Replicas -> Batches]
  BY <1>1, Zenon
<1>3. ASSUME NEW a \in Replicas PROVE BatchIsSound(batch[a])'
  <2>1. CASE a = c
    <3>1. batch'[a] = b
      BY <1>1, <2>1, Zenon
    <3>2. QED
      BY <3>1 DEF BatchIsSound
  <2>2. CASE a # c
    <3>1. batch'[a] = batch[a]
      BY <1>1, <2>2, Zenon
    <3>2. QED
      BY <3>1, OthersStaySound
  <2>3. QED
    BY <2>1, <2>2
<1>4. QED
  BY <1>2, <1>3, Zenon DEF BatchesAreSound

(* No replica moves.                                                       *)
LEMMA BatchesStay ==
  ASSUME CommunityIsSound, Onward, UNCHANGED batch
  PROVE  batch' \in [Replicas -> Batches] /\ BatchesAreSound'
<1>1. \A c \in Replicas : BatchIsSound(batch[c])'
  <2>1. ASSUME NEW c \in Replicas PROVE BatchIsSound(batch[c])'
    BY OthersStaySound
  <2>2. QED
    BY <2>1, Zenon
<1>2. QED
  BY <1>1, Zenon DEF BatchesAreSound, CommunityIsSound, CommunityTypeOK

(* Sources and receipts that nobody touches stay earned and covered.       *)
LEMMA TablesStay ==
  ASSUME CommunityIsSound, Onward, UNCHANGED <<sources, outbox>>
  PROVE  SourcesAreEarned' /\ ReceiptsAreCovered'
<1>1. ASSUME NEW s \in sources PROVE IsEarned(s)'
  BY EarnedForever DEF CommunityIsSound, SourcesAreEarned
<1>2. SourcesAreEarned'
  BY <1>1 DEF CommunityIsSound, SourcesAreEarned
<1>3. ReceiptsAreCovered'
  BY Zenon DEF CommunityIsSound, ReceiptsAreCovered, Due, OfKind, Entitlements
<1>4. QED
  BY <1>2, <1>3

(* A replica with nothing to do is sound.                                  *)
LEMMA RestIs == Resting \in Batches /\ BatchIsSound(Resting)
  BY DEF Batches, BatchIsSound, Resting, Collecting, Delivery

(* A list of receipts to deliver is sound.                                 *)
LEMMA DeliveryIs ==
  ASSUME NEW t \in Seq(Receipts), t # <<>>, \A k \in 1 .. Len(t) : t[k] \in outbox
  PROVE  [pc |-> "deliver", todo |-> t] \in Batches /\ BatchIsSound([pc |-> "deliver", todo |-> t])
<1>1. [pc |-> "deliver", todo |-> t] \in Batches
  BY DEF Batches
<1>2. QED
  BY <1>1 DEF BatchIsSound, Collecting, Delivery

(* What follows a batch that collects or a receipt is sound.               *)
LEMMA DeliveringIs ==
  ASSUME CommunityIsSound
  PROVE  Delivering \in Batches /\ BatchIsSound(Delivering)
<1> DEFINE q == fresh \o deferred
           m == IF Len(q) < PendingLimit THEN Len(q) ELSE PendingLimit
<1>1. fresh \in Seq(Receipts) /\ deferred \in Seq(Receipts)
  BY DEF CommunityIsSound, CommunityTypeOK
<1>2. /\ q \in Seq(Receipts) /\ Len(q) = Len(fresh) + Len(deferred)
      /\ \A i \in 1 .. Len(fresh) : q[i] = fresh[i]
      /\ \A i \in 1 .. Len(deferred) : q[Len(fresh) + i] = deferred[i]
  BY <1>1, JoinedIs
<1>3. \A i \in 1 .. Len(q) : q[i] \in outbox
  <2>1. SUFFICES ASSUME NEW i \in 1 .. Len(q) PROVE q[i] \in outbox
    OBVIOUS
  <2>2. q[i] \in Receipts
    BY <1>2
  <2>3. CASE i \in 1 .. Len(fresh)
    BY <1>2, <2>2, <2>3 DEF CommunityIsSound, QueueIsExact, Listed
  <2>4. CASE i \notin 1 .. Len(fresh)
    <3>1. PICK j \in 1 .. Len(deferred) : i = Len(fresh) + j
      <4>1. Len(fresh) \in Nat /\ Len(deferred) \in Nat
        BY <1>1
      <4>2. i - Len(fresh) \in 1 .. Len(deferred) /\ i = Len(fresh) + (i - Len(fresh))
        BY <1>2, <2>4, <4>1
      <4>3. QED
        BY <4>2
    <3>2. QED
      BY <1>2, <2>2, <3>1 DEF CommunityIsSound, QueueIsExact, Listed
  <2>5. QED
    BY <2>3, <2>4
<1> HIDE DEF q
<1>4. m \in 0 .. Len(q)
  BY <1>2, CommunityAssumption
<1> HIDE DEF m
<1>5. /\ SubSeq(q, 1, m) \in Seq(Receipts) /\ Len(SubSeq(q, 1, m)) = m
      /\ \A i \in 1 .. m : SubSeq(q, 1, m)[i] = q[i]
  BY <1>2, <1>4
<1>6. PagePending = SubSeq(q, 1, m)
  BY Zenon DEF PagePending, q, m
<1>7. CASE PagePending = <<>>
  <2>1. Delivering = Resting
    BY <1>7 DEF Delivering
  <2>2. QED
    BY <2>1, RestIs
<1>8. CASE PagePending # <<>>
  <2>1. Delivering = [pc |-> "deliver", todo |-> PagePending]
    BY <1>8 DEF Delivering
  <2>2. PagePending \in Seq(Receipts) /\ \A k \in 1 .. Len(PagePending) : PagePending[k] \in outbox
    BY <1>3, <1>4, <1>5, <1>6
  <2>3. QED
    BY <1>8, <2>1, <2>2, DeliveryIs, Zenon
<1>9. QED
  BY <1>7, <1>8

(* The receipt that a batch is at, and what follows it.                    *)
LEMMA FollowingIs ==
  ASSUME CommunityIsSound, NEW c \in Replicas, batch[c].pc \in Delivery
  PROVE  /\ batch[c] = [pc |-> batch[c].pc, todo |-> batch[c].todo]
         /\ batch[c].todo \in Seq(Receipts) /\ batch[c].todo # <<>>
         /\ Receipt(c) = batch[c].todo[1] /\ Receipt(c) \in outbox /\ Receipt(c) \in Receipts
         /\ \A k \in 1 .. Len(batch[c].todo) : batch[c].todo[k] \in outbox
         /\ Following(c) \in Batches /\ BatchIsSound(Following(c))
<1> DEFINE t == batch[c].todo
<1>1. batch[c] \in [pc : Delivery, todo : Seq(Receipts)]
  <2>1. PICK b \in Batches : b = batch[c]
    BY DEF CommunityIsSound, CommunityTypeOK
  <2>2. b \in [pc : Delivery, todo : Seq(Receipts)]
    BY <2>1 DEF Batches, Delivery, Resting
  <2>3. QED
    BY <2>1, <2>2
<1>2. t \in Seq(Receipts) /\ t # <<>> /\ \A k \in 1 .. Len(t) : t[k] \in outbox
  BY <1>1 DEF CommunityIsSound, BatchesAreSound, BatchIsSound
<1> HIDE DEF t
<1>3. Head(t) = t[1] /\ Len(t) \in Nat \ {0} /\ t[1] \in Receipts
  BY <1>2
<1>4. Receipt(c) = t[1] /\ t[1] \in outbox
  BY <1>2, <1>3 DEF Receipt, t
<1>5. Following(c) = IF Len(t) > 1 THEN [pc |-> "deliver", todo |-> Tail(t)] ELSE Resting
  BY DEF Following, t
<1>6. CASE Len(t) > 1
  <2>1. Tail(t) \in Seq(Receipts) /\ Tail(t) # <<>> /\ Len(Tail(t)) = Len(t) - 1
    <3>1. Tail(t) \in Seq(Receipts) /\ Len(Tail(t)) = Len(t) - 1
      BY <1>2
    <3>2. Len(Tail(t)) > 0
      BY <1>3, <1>6, <3>1
    <3>3. ASSUME NEW q \in Seq(Receipts), Len(q) > 0 PROVE q # <<>>
      BY <3>3
    <3>4. Tail(t) # <<>>
      BY <3>1, <3>2, <3>3
    <3>5. QED
      BY <3>1, <3>4
  <2>2. \A k \in 1 .. Len(Tail(t)) : Tail(t)[k] = t[k + 1] /\ k + 1 \in 1 .. Len(t)
    BY <1>2, <1>6
  <2>3. \A k \in 1 .. Len(Tail(t)) : Tail(t)[k] \in outbox
    BY <1>2, <2>2
  <2>4. Following(c) \in Batches /\ BatchIsSound(Following(c))
    BY <1>5, <1>6, <2>1, <2>3, DeliveryIs, Zenon
  <2>5. QED
    BY <1>1, <1>2, <1>3, <1>4, <2>4 DEF t
<1>7. CASE ~ (Len(t) > 1)
  <2>1. Following(c) = Resting
    BY <1>5, <1>7
  <2>2. QED
    BY <1>1, <1>2, <1>3, <1>4, <2>1, RestIs DEF t
<1>8. QED
  BY <1>6, <1>7

(* A step that leaves what is on record, the queue and the mint as they    *)
(* are, and only moves one replica, a lock or a cursor, or loses calls.    *)
LEMMA QuietStep ==
  ASSUME CommunityIsSound, UNCHANGED <<log, bound, sources, outbox, queue, lots>>,
         day' \in 0 .. MaxDay, active' \subseteq Members, cursor' \in [ToSet(Streams) -> Nat],
         lock' \in Replicas \cup {Nobody}, wire' \subseteq wire,
         UNCHANGED batch \/ \E c \in Replicas, b \in Batches : BatchIsSound(b) /\ batch' = [batch EXCEPT ![c] = b]
  PROVE  CommunityIsSound'
<1>1. Onward
  BY OnwardIs DEF CommunityIsSound
<1>2. batch' \in [Replicas -> Batches] /\ BatchesAreSound'
  <2>1. CASE UNCHANGED batch
    BY <1>1, <2>1, BatchesStay
  <2>2. ASSUME NEW c \in Replicas, NEW b \in Batches, BatchIsSound(b), batch' = [batch EXCEPT ![c] = b]
        PROVE  batch' \in [Replicas -> Batches] /\ BatchesAreSound'
    <3>1. BatchIsSound(b)'
      BY <1>1, <2>2, BatchStaysSound DEF CommunityIsSound
    <3>2. QED
      BY <1>1, <2>2, <3>1, BatchMoves
  <2>3. QED
    BY <2>1, <2>2
<1>3. SourcesAreEarned' /\ ReceiptsAreCovered'
  BY <1>1, TablesStay
<1>4. QueueIsExact' /\ MintedOnce'
  BY DEF CommunityIsSound, QueueIsExact, MintedOnce, queue
<1>5. CommunityTypeOK'
  BY <1>2 DEF CommunityIsSound, CommunityTypeOK, queue
<1>6. QED
  BY <1>2, <1>3, <1>4, <1>5 DEF CommunityIsSound

(* A step of the forum that writes to the log or binds a member.           *)
LEMMA ForumStep ==
  ASSUME CommunityIsSound, Onward, log' \in Seq(LogRow), bound' \in [Members -> {Unbound} \cup Nat],
         UNCHANGED <<day, active, cursor, sources, outbox, queue, lock, batch, wire, lots>>
  PROVE  CommunityIsSound'
<1>1. batch' \in [Replicas -> Batches] /\ BatchesAreSound'
  BY BatchesStay
<1>2. SourcesAreEarned' /\ ReceiptsAreCovered'
  BY TablesStay
<1>3. QueueIsExact' /\ MintedOnce'
  BY DEF CommunityIsSound, QueueIsExact, MintedOnce, queue
<1>4. CommunityTypeOK'
  BY <1>1 DEF CommunityIsSound, CommunityTypeOK, queue
<1>5. QED
  BY <1>1, <1>2, <1>3, <1>4 DEF CommunityIsSound

(* A member does something.                                                *)
LEMMA ActStep == ASSUME CommunityIsSound, NEW d \in Deeds, Act(d) PROVE CommunityIsSound'
<1> DEFINE e == [stream |-> d.stream, actor |-> d.actor, owner |-> d.owner, object |-> d.object,
                 new |-> d.new, day |-> day, live |-> TRUE]
<1>1. log \in Seq(LogRow) /\ log' = Append(log, e)
  BY DEF CommunityIsSound, CommunityTypeOK, Act
<1>2. e \in LogRow
  <2>1. d.stream \in ToSet(Streams) /\ d.actor \in Members /\ d.owner \in Members /\ day \in 0 .. MaxDay
    BY CommunityAssumption DEF CommunityIsSound, CommunityTypeOK
  <2>2. QED
    BY <2>1 DEF LogRow
<1> HIDE DEF e
<1>3. /\ log' \in Seq(LogRow) /\ Len(log') = Len(log) + 1 /\ Len(log) \in Nat
      /\ \A i \in 1 .. Len(log) : log'[i] = log[i]
  BY <1>1, <1>2
<1>4. Onward
  BY <1>3 DEF Onward, Act, Deed
<1>5. QED
  BY <1>3, <1>4, ForumStep DEF Act, CommunityIsSound, CommunityTypeOK

(* Content is hidden or shown.                                             *)
LEMMA ToggleStep == ASSUME CommunityIsSound, NEW i \in DOMAIN log, Toggle(i) PROVE CommunityIsSound'
<1>1. /\ log \in Seq(LogRow) /\ i \in 1 .. Len(log) /\ log' = [log EXCEPT ![i].live = ~@]
      /\ UNCHANGED <<day, bound, active, cursor, sources, outbox, queue, lock, batch, wire, lots>>
  BY DEF CommunityIsSound, CommunityTypeOK, Toggle
<1>2. PICK e : e = [log[i] EXCEPT !.live = ~@]
  OBVIOUS
<1>3. log' = [log EXCEPT ![i] = e]
  BY <1>1, <1>2, Zenon
<1>4. e \in LogRow /\ Deed(e) = Deed(log[i])
  <2>1. PICK row \in LogRow : row = log[i]
    BY <1>1
  <2>2. e = [row EXCEPT !.live = ~row.live]
    BY <1>2, <2>1, Zenon
  <2>3. e \in LogRow
    BY <2>2, Zenon DEF LogRow
  <2>4. Deed(e) = Deed(row)
    BY <2>2 DEF LogRow, Deed
  <2>5. QED
    BY <2>1, <2>3, <2>4
<1>5. log' \in Seq(LogRow) /\ Len(log') = Len(log) /\ Len(log) \in Nat
  BY <1>1, <1>3, <1>4
<1>6. \A j \in 1 .. Len(log) : Deed(log'[j]) = Deed(log[j])
  <2>1. ASSUME NEW j \in 1 .. Len(log) PROVE Deed(log'[j]) = Deed(log[j])
    <3>1. CASE j = i
      BY <1>1, <1>3, <1>4, <3>1
    <3>2. CASE j # i
      BY <1>1, <1>3, <3>2
    <3>3. QED
      BY <3>1, <3>2
  <2>2. QED
    BY <2>1
<1>7. Onward
  BY <1>1, <1>5, <1>6 DEF Onward
<1>8. QED
  BY <1>1, <1>5, <1>7, ForumStep DEF CommunityIsSound, CommunityTypeOK

(* A member is bound.                                                      *)
LEMMA BindStep == ASSUME CommunityIsSound, NEW u \in Members, Bind(u) PROVE CommunityIsSound'
<1>1. bound \in [Members -> {Unbound} \cup Nat] /\ log \in Seq(LogRow) /\ Len(log) \in Nat
  BY DEF CommunityIsSound, CommunityTypeOK
<1>2. bound' \in [Members -> {Unbound} \cup Nat] /\ \A v \in Members : bound[v] # Unbound => bound'[v] = bound[v]
  BY <1>1 DEF Bind
<1>3. Onward
  BY <1>1, <1>2 DEF Onward, Bind
<1>4. QED
  BY <1>1, <1>2, <1>3, ForumStep DEF Bind, CommunityIsSound, CommunityTypeOK

(* A member is suspended, a day passes.                                    *)
LEMMA TimeStep ==
  ASSUME CommunityIsSound, NextDay \/ \E u \in Members : Suspend(u)
  PROVE  CommunityIsSound'
<1>1. day' \in 0 .. MaxDay /\ active' \subseteq Members
  BY CommunityAssumption DEF NextDay, Suspend, CommunityIsSound, CommunityTypeOK
<1>2. QED
  BY <1>1, QuietStep DEF NextDay, Suspend, CommunityIsSound, CommunityTypeOK

(* What a collector is at: a row of the log.                               *)
LEMMA CurrentIs ==
  ASSUME CommunityIsSound, NEW c \in Replicas, batch[c].pc \in Collecting
  PROVE  /\ batch[c] \in [pc : Collecting, stream : DOMAIN Streams, page : SUBSET Nat, live : SUBSET Nat]
         /\ Current(c) \in batch[c].page /\ Current(c) \in 1 .. Len(log) /\ batch[c].page \subseteq 1 .. Len(log)
<1>1. PICK b \in Batches : b = batch[c]
  BY DEF CommunityIsSound, CommunityTypeOK
<1>2. b \in [pc : Collecting, stream : DOMAIN Streams, page : SUBSET Nat, live : SUBSET Nat]
  BY <1>1 DEF Batches, Collecting, Resting
<1>3. b.page # {} /\ b.page \subseteq 1 .. Len(log) /\ b.page \in SUBSET Nat
  BY <1>1, <1>2 DEF CommunityIsSound, BatchesAreSound, BatchIsSound
<1>4. Min(b.page) \in b.page
  BY <1>3, LeastPosition
<1>5. QED
  BY <1>1, <1>2, <1>3, <1>4 DEF Current

(* A batch begins.                                                         *)
LEMMA StartStep == ASSUME CommunityIsSound, NEW c \in Replicas, StartBatch(c) PROVE CommunityIsSound'
<1>1. PICK b : /\ b \in {[pc |-> "collect", next |-> 1], Delivering}
               /\ batch' = [batch EXCEPT ![c] = b] /\ lock' \in {lock, c}
  BY DEF StartBatch
<1>2. b \in Batches /\ BatchIsSound(b)
  <2>1. CASE b = [pc |-> "collect", next |-> 1]
    BY <2>1 DEF Batches, BatchIsSound, Collecting, Delivery
  <2>2. CASE b = Delivering
    BY <2>2, DeliveringIs
  <2>3. QED
    BY <1>1, <2>1, <2>2
<1>3. QED
  BY <1>1, <1>2, QuietStep DEF StartBatch, forum, CommunityIsSound, CommunityTypeOK

(* A page has a row if there is one behind the cursor: the first.          *)
LEMMA PageIs ==
  ASSUME log \in Seq(LogRow), NEW s, Behind(s) # {}
  PROVE  Page(s) # {}
<1>1. Behind(s) \in SUBSET Nat
  BY DEF Behind
<1>2. PICK i \in Behind(s) : \A j \in Behind(s) : i <= j
  BY <1>1, LowestNumber
<1>3. {j \in Behind(s) : j < i} = {}
  BY <1>1, <1>2
<1>4. Cardinality({j \in Behind(s) : j < i}) = 0
  BY <1>3, FS_EmptySet
<1>5. i \in Page(s)
  BY <1>4, CommunityAssumption DEF Page
<1>6. QED
  BY <1>5

(* A page is read.                                                         *)
LEMMA PageStep == ASSUME CommunityIsSound, NEW c \in Replicas, ReadPage(c) PROVE CommunityIsSound'
<1> DEFINE left == {k \in batch[c].next .. Len(Streams) : Behind(Streams[k]) # {}}
<1>1. PICK n \in Nat \ {0} : n = batch[c].next
  <2>1. PICK b \in Batches : b = batch[c]
    BY DEF CommunityIsSound, CommunityTypeOK
  <2>2. b.next \in Nat \ {0}
    BY <2>1 DEF ReadPage, Batches, Resting
  <2>3. QED
    BY <2>1, <2>2
<1>2. lock' \in Replicas \cup {Nobody}
  BY DEF ReadPage, Release, CommunityIsSound, CommunityTypeOK
<1>3. \E b \in Batches : BatchIsSound(b) /\ batch' = [batch EXCEPT ![c] = b]
  <2>1. CASE left = {}
    <3>1. batch' = [batch EXCEPT ![c] = Delivering]
      BY <2>1 DEF ReadPage
    <3>2. QED
      BY <3>1, DeliveringIs, Zenon
  <2>2. CASE left # {}
    <3> DEFINE B(k) == [pc |-> "record", stream |-> k, page |-> Page(Streams[k]),
                        live |-> {i \in Page(Streams[k]) : log[i].live}]
    <3>1. PICK k \in left : batch' = [batch EXCEPT ![c] = B(k)]
      BY <2>2 DEF ReadPage
    <3>2. PICK p : p = Page(Streams[k])
      OBVIOUS
    <3>3. Len(Streams) = 3
      BY DEF Streams
    <3>4. k \in DOMAIN Streams
      <4>1. k \in batch[c].next .. Len(Streams)
        OBVIOUS
      <4>2. k \in n .. 3
        BY <1>1, <3>3, <4>1
      <4>3. k \in 1 .. 3
        BY <1>1, <4>2
      <4>4. QED
        BY <4>3, StreamsAre
    <3>5. p \subseteq 1 .. Len(log) /\ p \in SUBSET Nat
      BY <3>2 DEF Page, Behind, CommunityIsSound, CommunityTypeOK
    <3>6. p # {}
      BY <3>1, <3>2, PageIs DEF CommunityIsSound, CommunityTypeOK
    <3>7. PICK l \in SUBSET Nat : l = {i \in p : log[i].live}
      BY <3>5
    <3>8. B(k) = [pc |-> "record", stream |-> k, page |-> p, live |-> l]
      BY <3>2, <3>7, Zenon
    <3>9. B(k) \in Batches
      BY <3>4, <3>5, <3>8 DEF Batches
    <3>10. BatchIsSound(B(k))
      BY <3>5, <3>6, <3>8 DEF BatchIsSound, Collecting, Delivery
    <3>11. QED
      BY <3>1, <3>9, <3>10, Zenon
  <2>3. QED
    BY <2>1, <2>2
<1>4. QED
  BY <1>2, <1>3, QuietStep DEF ReadPage, forum, CommunityIsSound, CommunityTypeOK

(* The cursor moves behind a row.                                          *)
LEMMA CursorStep == ASSUME CommunityIsSound, NEW c \in Replicas, MoveCursor(c) PROVE CommunityIsSound'
<1>1. PICK b : b = batch[c]
  OBVIOUS
<1>2. PICK i : i = Current(c)
  OBVIOUS
<1>3. /\ b \in [pc : Collecting, stream : DOMAIN Streams, page : SUBSET Nat, live : SUBSET Nat]
      /\ i \in b.page /\ b.page \subseteq 1 .. Len(log) /\ i \in Nat
  <2>1. batch[c].pc \in Collecting
    BY DEF MoveCursor, Collecting
  <2>2. QED
    BY <1>1, <1>2, <2>1, CurrentIs
<1>4. cursor' \in [ToSet(Streams) -> Nat]
  <2>1. cursor \in [ToSet(Streams) -> Nat] /\ Streams[b.stream] \in ToSet(Streams)
    BY <1>3 DEF CommunityIsSound, CommunityTypeOK, ToSet
  <2>2. cursor' = [cursor EXCEPT ![Streams[b.stream]] = i]
    BY <1>1, <1>2 DEF MoveCursor
  <2>3. QED
    BY <1>3, <2>1, <2>2
<1>5. PICK n : n = IF b.page = {i} THEN [pc |-> "collect", next |-> b.stream + 1]
                   ELSE [b EXCEPT !.pc = "record", !.page = b.page \ {i}]
  OBVIOUS
<1>6. batch' = [batch EXCEPT ![c] = n]
  <2>1. batch' = [batch EXCEPT ![c] = IF b.page = {i} THEN [pc |-> "collect", next |-> b.stream + 1]
                                      ELSE [b EXCEPT !.pc = "record", !.page = b.page \ {i}]]
    BY <1>1, <1>2, Zenon DEF MoveCursor
  <2>2. QED
    BY <1>5, <2>1
<1>7. n \in Batches /\ BatchIsSound(n)
  <2>1. CASE b.page = {i}
    <3>1. b.stream + 1 \in Nat \ {0}
      BY <1>3, StreamsAre
    <3>2. n = [pc |-> "collect", next |-> b.stream + 1]
      BY <1>5, <2>1
    <3>3. QED
      BY <3>1, <3>2 DEF Batches, BatchIsSound, Collecting, Delivery
  <2>2. CASE b.page # {i}
    <3>1. n = [pc |-> "record", stream |-> b.stream, page |-> b.page \ {i}, live |-> b.live]
      BY <1>3, <1>5, <2>2
    <3>2. b.page \ {i} # {} /\ b.page \ {i} \in SUBSET Nat /\ b.page \ {i} \subseteq 1 .. Len(log)
      BY <1>3, <2>2
    <3>3. n \in Batches
      BY <1>3, <3>1, <3>2 DEF Batches
    <3>4. QED
      BY <3>1, <3>2, <3>3 DEF BatchIsSound, Collecting, Delivery
  <2>3. QED
    BY <2>1, <2>2
<1>8. QED
  BY <1>4, <1>6, <1>7, QuietStep DEF MoveCursor, forum, CommunityIsSound, CommunityTypeOK

(* A batch or its collector ends, a lock or a call is lost.                *)
LEMMA FaultStep == ASSUME CommunityIsSound, FaultNext PROVE CommunityIsSound'
<1>1. CASE LockLost
  BY <1>1, QuietStep DEF LockLost, forum, CommunityIsSound, CommunityTypeOK
<1>2. ASSUME NEW c \in Replicas, Timeout(c) PROVE CommunityIsSound'
  <2>1. batch[c].pc \in Delivery
    BY <1>2 DEF Timeout, Delivery
  <2>2. PICK b \in Batches : b = Following(c) /\ BatchIsSound(Following(c))
    BY <2>1, FollowingIs
  <2>3. BatchIsSound(b) /\ batch' = [batch EXCEPT ![c] = b]
    BY <1>2, <2>2 DEF Timeout
  <2>4. wire' \subseteq wire
    BY <1>2 DEF Timeout
  <2>5. QED
    BY <1>2, <2>3, <2>4, QuietStep DEF Timeout, forum, CommunityIsSound, CommunityTypeOK
<1>3. ASSUME NEW c \in Replicas, Abort(c) PROVE CommunityIsSound'
  <2>1. PICK b \in {Delivering, Resting} : batch' = [batch EXCEPT ![c] = b]
    BY <1>3 DEF Abort
  <2>2. b \in Batches /\ BatchIsSound(b)
    BY <2>1, DeliveringIs, RestIs
  <2>3. lock' \in Replicas \cup {Nobody}
    BY <1>3 DEF Abort, Release, CommunityIsSound, CommunityTypeOK
  <2>4. QED
    BY <1>3, <2>1, <2>2, <2>3, QuietStep DEF Abort, forum, CommunityIsSound, CommunityTypeOK
<1>4. QED
  BY <1>1, <1>2, <1>3 DEF FaultNext

(* A receipt is put at the end of the deferred ones, or taken off the      *)
(* queue: everything else stays where it is.                               *)
LEMMA QueueMoves ==
  ASSUME CommunityIsSound, NEW r \in outbox, delivered' \in {delivered, delivered \cup {r}},
         UNCHANGED outbox, fresh' = Without(fresh, r),
         r \in delivered' => deferred' \in {deferred, Without(deferred, r)},
         r \in delivered' /\ r \notin delivered => deferred' = Without(deferred, r),
         r \notin delivered' => deferred' = Append(Without(deferred, r), r)
  PROVE  QueueIsExact' /\ fresh' \in Seq(Receipts) /\ deferred' \in Seq(Receipts) /\ delivered' \subseteq outbox'
<1>1. /\ fresh \in Seq(Receipts) /\ deferred \in Seq(Receipts) /\ Once(fresh) /\ Once(deferred)
      /\ r \in Receipts /\ delivered \subseteq outbox /\ outbox \subseteq Receipts
  BY DEF CommunityIsSound, CommunityTypeOK, QueueIsExact
<1>2. /\ fresh' \in Seq(Receipts) /\ Once(fresh')
      /\ \A x : Listed(fresh', x) <=> Listed(fresh, x) /\ x # r
  <2>1. /\ Without(fresh, r) \in Seq(Receipts) /\ Once(Without(fresh, r))
        /\ \A x : Listed(Without(fresh, r), x) => Listed(fresh, x) /\ x # r
        /\ \A x : Listed(fresh, x) /\ x # r => Listed(Without(fresh, r), x)
    BY <1>1, WithoutIs
  <2>2. QED
    BY <2>1, Zenon
<1>3. PICK w : w = Without(deferred, r)
  OBVIOUS
<1>4. /\ w \in Seq(Receipts) /\ Once(w)
      /\ \A x : Listed(w, x) => Listed(deferred, x) /\ x # r
      /\ \A x : Listed(deferred, x) /\ x # r => Listed(w, x)
  BY <1>1, <1>3, WithoutIs
<1>5. CASE r \notin delivered'
  <2>1. /\ Append(w, r) \in Seq(Receipts) /\ Once(Append(w, r))
        /\ \A x : Listed(Append(w, r), x) => Listed(w, x) \/ x = r
        /\ \A x : Listed(w, x) \/ x = r => Listed(Append(w, r), x)
    BY <1>1, <1>4, AppendedIs
  <2>2. deferred' = Append(w, r) /\ delivered' = delivered
    BY <1>3, <1>5
  <2>3. deferred' \in Seq(Receipts) /\ Once(deferred')
    BY <2>1, <2>2
  <2>4. \A x : Listed(deferred', x) <=> (Listed(deferred, x) /\ x # r) \/ x = r
    BY <1>4, <2>1, <2>2, Zenon
  <2>5. ASSUME NEW x \in Receipts
        PROVE  /\ ~ (Listed(fresh', x) /\ Listed(deferred', x))
               /\ Listed(fresh', x) \/ Listed(deferred', x) <=> x \in outbox' \ delivered'
    BY <1>2, <1>5, <2>2, <2>4, Zenon DEF CommunityIsSound, QueueIsExact
  <2>6. QED
    BY <1>1, <1>2, <2>2, <2>3, <2>5 DEF QueueIsExact
<1>6. CASE r \in delivered'
  <2>1. deferred' = w \/ (deferred' = deferred /\ r \in delivered)
    BY <1>3, <1>6
  <2>2. ~ Listed(deferred, r) \/ deferred' = w
    BY <2>1, <1>1 DEF CommunityIsSound, QueueIsExact
  <2>3. deferred' \in Seq(Receipts) /\ Once(deferred')
    BY <1>1, <1>4, <2>1
  <2>4. \A x : Listed(deferred', x) <=> Listed(deferred, x) /\ x # r
    BY <1>4, <2>1, <2>2, Zenon
  <2>5. ASSUME NEW x \in Receipts
        PROVE  /\ ~ (Listed(fresh', x) /\ Listed(deferred', x))
               /\ Listed(fresh', x) \/ Listed(deferred', x) <=> x \in outbox' \ delivered'
    <3>1. x \in outbox' \ delivered' <=> x \in outbox \ delivered /\ x # r
      BY <1>6
    <3>2. QED
      BY <1>2, <2>4, <3>1, Zenon DEF CommunityIsSound, QueueIsExact
  <2>6. delivered' \subseteq outbox'
    BY <1>1
  <2>7. QED
    BY <1>2, <2>3, <2>5, <2>6 DEF QueueIsExact
<1>7. QED
  BY <1>5, <1>6

(* A receipt is deferred, and asked for if its member is not suspended.    *)
LEMMA AttemptStep == ASSUME CommunityIsSound, NEW c \in Replicas, Attempt(c) PROVE CommunityIsSound'
<1>1. batch[c].pc \in Delivery
  BY DEF Attempt, Delivery
<1>2. PICK r \in outbox : r = Receipt(c)
  BY <1>1, FollowingIs
<1>3. PICK t \in Seq(Receipts) : t = batch[c].todo
  BY <1>1, FollowingIs
<1>4. /\ batch[c] = [pc |-> "deliver", todo |-> t] /\ t # <<>> /\ r \in Receipts
      /\ \A k \in 1 .. Len(t) : t[k] \in outbox
      /\ Following(c) \in Batches /\ BatchIsSound(Following(c))
  BY <1>1, <1>2, <1>3, FollowingIs DEF Attempt
<1>5. Onward
  BY OnwardIs DEF Attempt, forum, CommunityIsSound
<1>6. QueueIsExact' /\ fresh' \in Seq(Receipts) /\ deferred' \in Seq(Receipts) /\ delivered' \subseteq outbox'
  <2>1. /\ UNCHANGED <<outbox, delivered>> /\ fresh' = Without(fresh, r)
        /\ deferred' = IF r \in delivered THEN deferred ELSE Append(Without(deferred, r), r)
    BY <1>2 DEF Attempt, Defer
  <2>2. QED
    BY <2>1, QueueMoves
<1>7. PICK b \in Batches : /\ BatchIsSound(b) /\ batch' = [batch EXCEPT ![c] = b]
  <2>1. CASE Receipt(c).user \in active
    <3> DEFINE b == [pc |-> "wait", todo |-> t]
    <3>1. batch' = [batch EXCEPT ![c] = b]
      <4>1. batch' = [batch EXCEPT ![c] = [batch[c] EXCEPT !.pc = "wait"]]
        BY <2>1, Zenon DEF Attempt
      <4>2. [batch[c] EXCEPT !.pc = "wait"] = b
        BY <1>4
      <4>3. QED
        BY <4>1, <4>2, Zenon
    <3>2. b \in Batches
      BY DEF Batches
    <3>3. BatchIsSound(b)
      BY <1>4, <3>2 DEF BatchIsSound, Collecting, Delivery
    <3>4. QED
      BY <3>1, <3>2, <3>3
  <2>2. CASE Receipt(c).user \notin active
    BY <1>4, <2>2, Zenon DEF Attempt
  <2>3. QED
    BY <2>1, <2>2
<1>8. batch' \in [Replicas -> Batches] /\ BatchesAreSound'
  <2>1. BatchIsSound(b)'
    BY <1>5, <1>7, BatchStaysSound DEF CommunityIsSound
  <2>2. QED
    BY <1>5, <1>7, <2>1, BatchMoves
<1>9. wire' \subseteq wire \cup {[by |-> c, receipt |-> r]}
  BY <1>2 DEF Attempt
<1>10. SourcesAreEarned' /\ ReceiptsAreCovered'
  BY <1>5, TablesStay DEF Attempt
<1>11. MintedOnce'
  BY <1>9 DEF CommunityIsSound, MintedOnce, Attempt, Defer
<1>12. CommunityTypeOK'
  BY <1>4, <1>6, <1>8, <1>9 DEF CommunityIsSound, CommunityTypeOK, Attempt, forum
<1>13. QED
  BY <1>6, <1>8, <1>10, <1>11, <1>12 DEF CommunityIsSound

(* A receipt is acknowledged.                                              *)
LEMMA AckStep == ASSUME CommunityIsSound, NEW c \in Replicas, Ack(c) PROVE CommunityIsSound'
<1>1. batch[c].pc \in Delivery
  BY DEF Ack, Delivery
<1>2. PICK r \in outbox : r = Receipt(c)
  BY <1>1, FollowingIs
<1>3. /\ lots[r] = 1 /\ r \in Receipts
      /\ Following(c) \in Batches /\ BatchIsSound(Following(c))
  BY <1>1, <1>2, FollowingIs DEF Ack, CommunityIsSound, BatchesAreSound, BatchIsSound
<1>4. Onward
  BY OnwardIs DEF Ack, forum, CommunityIsSound
<1>5. QueueIsExact' /\ fresh' \in Seq(Receipts) /\ deferred' \in Seq(Receipts) /\ delivered' \subseteq outbox'
  <2>1. /\ UNCHANGED outbox /\ delivered' = delivered \cup {r} /\ fresh' = Without(fresh, r)
        /\ deferred' = Without(deferred, r)
    BY <1>2 DEF Ack
  <2>2. QED
    BY <2>1, QueueMoves
<1>6. PICK b \in Batches : BatchIsSound(b) /\ batch' = [batch EXCEPT ![c] = b]
  BY <1>3 DEF Ack
<1>7. batch' \in [Replicas -> Batches] /\ BatchesAreSound'
  <2>1. BatchIsSound(b)'
    BY <1>4, <1>6, BatchStaysSound DEF CommunityIsSound
  <2>2. QED
    BY <1>4, <1>6, <2>1, BatchMoves
<1>8. SourcesAreEarned' /\ ReceiptsAreCovered'
  BY <1>4, TablesStay DEF Ack
<1>9. MintedOnce'
  BY <1>2, <1>3 DEF CommunityIsSound, MintedOnce, Ack
<1>10. CommunityTypeOK'
  BY <1>5, <1>7 DEF CommunityIsSound, CommunityTypeOK, Ack, forum
<1>11. QED
  BY <1>5, <1>7, <1>8, <1>9, <1>10 DEF CommunityIsSound

(* Pulse mints a receipt unless it has, and the caller may hear of it.     *)
LEMMA GrantStep == ASSUME CommunityIsSound, NEW q \in wire, Grant(q) PROVE CommunityIsSound'
<1>1. PICK r : r = q.receipt
  OBVIOUS
<1>2. PICK c : c = q.by
  OBVIOUS
<1>3. /\ r \in outbox /\ r \in Receipts /\ c \in Replicas
      /\ lots \in [Receipts -> Nat] /\ lots[r] \in {0, 1}
  BY <1>1, <1>2 DEF CommunityIsSound, CommunityTypeOK, MintedOnce
<1>4. lots' \in [Receipts -> Nat] /\ lots'[r] = 1 /\ \A x \in Receipts : x # r => lots'[x] = lots[x]
  BY <1>1, <1>3 DEF Grant, Known
<1>5. \A x \in Receipts : lots[x] = 1 => lots'[x] = 1
  BY <1>4
<1>6. Onward
  BY <1>5, OnwardIs DEF Grant, forum, CommunityIsSound
<1>7. batch' \in [Replicas -> Batches] /\ BatchesAreSound'
  <2>1. CASE batch[c].pc = "wait" /\ Head(batch[c].todo) = r
    <3>1. batch[c].pc \in Delivery
      BY <2>1 DEF Delivery
    <3>2. PICK t \in Seq(Receipts) : t = batch[c].todo
      BY <1>3, <3>1, FollowingIs
    <3>3. /\ batch[c] = [pc |-> "wait", todo |-> t] /\ t # <<>>
          /\ \A k \in 1 .. Len(t) : t[k] \in outbox
      BY <1>3, <2>1, <3>1, <3>2, FollowingIs
    <3> DEFINE b == [pc |-> "ack", todo |-> t]
    <3>4. batch' = [batch EXCEPT ![c] = b]
      <4>1. batch' = [batch EXCEPT ![c] = [batch[c] EXCEPT !.pc = "ack"]]
        BY <1>1, <1>2, <2>1, Zenon DEF Grant
      <4>2. [batch[c] EXCEPT !.pc = "ack"] = b
        BY <3>3
      <4>3. QED
        BY <4>1, <4>2, Zenon
    <3>5. b \in Batches
      BY DEF Batches
    <3>6. t[1] = r
      BY <2>1, <3>2, <3>3
    <3>7. BatchIsSound(b)'
      <4>1. b.pc = "ack" /\ b.todo = t
        OBVIOUS
      <4>2. outbox' = outbox
        BY DEF Grant
      <4>3. QED
        BY <1>4, <3>3, <3>6, <4>1, <4>2 DEF BatchIsSound, Collecting, Delivery
    <3>8. QED
      BY <1>3, <1>6, <3>4, <3>5, <3>7, BatchMoves
  <2>2. CASE ~ (batch[c].pc = "wait" /\ Head(batch[c].todo) = r)
    <3>1. batch' = [batch EXCEPT ![c] = batch[c]]
      BY <1>1, <1>2, <2>2, Zenon DEF Grant
    <3>2. batch' = batch
      BY <3>1, Zenon DEF CommunityIsSound, CommunityTypeOK
    <3>3. QED
      BY <1>6, <3>2, BatchesStay
  <2>3. QED
    BY <2>1, <2>2
<1>8. SourcesAreEarned' /\ ReceiptsAreCovered'
  BY <1>6, TablesStay DEF Grant
<1>9. QueueIsExact'
  BY DEF CommunityIsSound, QueueIsExact, Grant, queue
<1>10. wire' \subseteq wire
  BY DEF Grant
<1>11. MintedOnce'
  BY <1>3, <1>4, <1>10 DEF CommunityIsSound, MintedOnce, Grant, queue
<1>12. CommunityTypeOK'
  BY <1>4, <1>7, <1>10 DEF CommunityIsSound, CommunityTypeOK, Grant, queue, forum
<1>13. QED
  BY <1>7, <1>8, <1>9, <1>11, <1>12 DEF CommunityIsSound

(* What can be told apart in a finite set is finite and no larger.         *)
LEMMA NotMoreThan ==
  ASSUME NEW S, NEW T, IsFiniteSet(T), NEW f \in [S -> T], \A a, b \in S : f[a] = f[b] => a = b
  PROVE  IsFiniteSet(S) /\ Cardinality(S) \in Nat /\ Cardinality(T) \in Nat /\ Cardinality(S) <= Cardinality(T)
<1>1. f \in Injection(S, T)
  BY Zenon DEF Injection, IsInjective
<1>2. IsFiniteSet(S) /\ Cardinality(S) <= Cardinality(T)
  BY <1>1, FS_Injection, Zenon
<1>3. QED
  BY <1>2, FS_CardinalityType

(* The row says that i may count for u: what Qualifies does not ask again. *)
Attributed(kind, u, i) ==
  /\ i \in 1 .. Len(log) /\ u \in Members /\ kind \in SourceKinds
  /\ kind = "received" => log[i].stream = "comment" /\ log[i].owner = u /\ log[i].actor # u
  /\ kind # "received" => /\ log[i].stream = (IF kind = "like" THEN "activity" ELSE kind)
                          /\ log[i].actor = u /\ (kind = "checkin" \/ log[i].owner # u)

(* A row that qualifies is a deed that counts.                             *)
LEMMA QualifiesIs ==
  ASSUME NEW kind, NEW u, NEW i, Attributed(kind, u, i), Qualifies(kind, u, i)
  PROVE  IsEarned(Source(kind, u, i))
<1>1. PICK s : s = Source(kind, u, i)
  OBVIOUS
<1>2. s.user = u /\ s.kind = kind /\ s.id = i
  BY <1>1 DEF Source
<1>3. i \in Earning(kind, u)
  <2>1. CASE kind = "received"
    BY <2>1 DEF Earning, Received, Attributed, Qualifies
  <2>2. CASE kind # "received"
    BY <2>2 DEF Earning, Done, Attributed, Qualifies, SourceKinds
  <2>3. QED
    BY <2>1, <2>2
<1>4. QED
  BY <1>1, <1>2, <1>3 DEF IsEarned, Attributed

(* The receipts of one member and day are finite in number.                *)
LEMMA RowsAreFew ==
  ASSUME NEW T \in SUBSET Receipts, NEW u, NEW d, \A r \in T : r.user = u /\ r.day = d
  PROVE  IsFiniteSet(T)
<1> DEFINE P == Categories \X (1 .. 3)
           f == [r \in T |-> <<r.category, r.ordinal>>]
<1>1. IsFiniteSet(P)
  <2>1. IsFiniteSet(Categories)
    <3>1. IsFiniteSet({"received"})
      BY FS_Singleton
    <3>2. IsFiniteSet({"received"} \cup {"participation"})
      BY <3>1, FS_AddElement
    <3>3. IsFiniteSet(({"received"} \cup {"participation"}) \cup {"checkin"})
      BY <3>2, FS_AddElement
    <3>4. Categories = ({"received"} \cup {"participation"}) \cup {"checkin"}
      BY DEF Categories
    <3>5. QED
      BY <3>3, <3>4
  <2>2. IsFiniteSet(1 .. 3)
    <3>1. 1 \in Int /\ 3 \in Int
      OBVIOUS
    <3>2. QED
      BY <3>1, FS_Interval, Zenon
  <2>3. QED
    BY <2>1, <2>2, FS_Product
<1>2. f \in [T -> P]
  BY DEF Receipts
<1>3. ASSUME NEW r \in T, NEW q \in T, f[r] = f[q] PROVE r = q
  <2>1. r \in Receipts /\ q \in Receipts
    OBVIOUS
  <2>2. r.category = q.category /\ r.ordinal = q.ordinal /\ r.user = q.user /\ r.day = q.day
    BY <1>3
  <2>3. QED
    BY <2>1, <2>2 DEF Receipts
<1>4. QED
  BY <1>1, <1>2, <1>3, NotMoreThan

(* A source on record entitles to receipts, which join the queue.          *)
LEMMA RecordIs ==
  ASSUME CommunityIsSound, NEW kind, NEW u, NEW i, Attributed(kind, u, i), Record(kind, u, i),
         UNCHANGED <<log, bound, active, delivered, deferred, lots>>
  PROVE  /\ Onward /\ SourcesAreEarned' /\ ReceiptsAreCovered' /\ QueueIsExact'
         /\ outbox' \subseteq Receipts /\ outbox \subseteq outbox' /\ fresh' \in Seq(Receipts)
<1> DEFINE n == Source(kind, u, i)
           all == sources \cup {n}
           c(k) == CountSources(all, u, n.day, k)
           due == Entitlements(c("like"), c("comment"), c("received"), c("checkin"))
           rows == {r \in Receipts \ outbox : r.user = u /\ r.day = n.day /\ r.ordinal <= due[r.category]}
<1>1. CASE UNCHANGED <<sources, outbox, fresh>>
  <2>1. Onward
    BY <1>1, OnwardIs DEF CommunityIsSound
  <2>2. SourcesAreEarned' /\ ReceiptsAreCovered'
    BY <1>1, <2>1, TablesStay
  <2>3. QED
    BY <1>1, <2>1, <2>2 DEF CommunityIsSound, CommunityTypeOK, QueueIsExact
<1>2. CASE ~ UNCHANGED <<sources, outbox, fresh>>
  <2>1. /\ Qualifies(kind, u, i) /\ \A s \in sources : s.key # n.key
        /\ sources' = all /\ outbox' = outbox \cup rows /\ fresh' = fresh \o SetToSeq(rows)
    BY <1>2, Zenon DEF Record
  <2>2. IsEarned(n)
    BY <2>1, QualifiesIs
  <2>3. Onward
    BY <2>1, OnwardIs DEF CommunityIsSound
  <2>4. SourcesAreEarned'
    <3>1. \A s \in sources : IsEarned(s)'
      <4>1. ASSUME NEW s \in sources PROVE IsEarned(s)'
        BY <2>3, EarnedForever DEF CommunityIsSound, SourcesAreEarned
      <4>2. QED
        BY <4>1, Zenon
    <3>2. PICK s : s = n
      OBVIOUS
    <3>3. IsEarned(s)'
      BY <2>2, <2>3, <3>2, EarnedForever DEF CommunityIsSound
    <3>4. sources' = sources \cup {s}
      BY <2>1, <3>2
    <3>5. IsFiniteSet(sources')
      BY <3>4, FS_AddElement DEF CommunityIsSound, SourcesAreEarned
    <3>6. \A t \in sources : t.key # s.key
      BY <2>1, <3>2
    <3>7. \A a, b \in sources' : a.key = b.key => a = b
      BY <3>4, <3>6 DEF CommunityIsSound, SourcesAreEarned
    <3>8. \A a \in sources' : IsEarned(a)'
      BY <3>1, <3>3, <3>4, Zenon
    <3>9. QED
      BY <3>5, <3>7, <3>8, Zenon DEF SourcesAreEarned
  <2>5. rows \in SUBSET Receipts /\ \A r \in rows : r \notin outbox /\ r.user = u /\ r.day = n.day
    OBVIOUS
  <2>6. IsFiniteSet(rows)
    BY <2>5, RowsAreFew
  <2>7. IsFiniteSet(all)
    BY FS_AddElement DEF CommunityIsSound, SourcesAreEarned
  <2>8. ASSUME NEW category \in Categories
        PROVE  due[category] \in Nat /\ due[category] <= Due(all, u, n.day)[category]
    <3>1. ASSUME NEW k
          PROVE  /\ c(k) \in Nat /\ Cardinality(OfKind(all, u, n.day, k)) \in Nat
                 /\ c(k) <= Cardinality(OfKind(all, u, n.day, k))
      <4> DEFINE L == {s \in all : s.user = u /\ s.day = n.day /\ s.kind = k /\ log[s.id].live}
      <4>1. OfKind(all, u, n.day, k) \in SUBSET all /\ L \in SUBSET OfKind(all, u, n.day, k)
        BY DEF OfKind
      <4>2. IsFiniteSet(OfKind(all, u, n.day, k))
        BY <2>7, <4>1, FS_Subset
      <4> HIDE DEF L
      <4>3. IsFiniteSet(L) /\ Cardinality(L) <= Cardinality(OfKind(all, u, n.day, k))
        BY <4>1, <4>2, FS_Subset
      <4>4. c(k) = Cardinality(L)
        BY DEF CountSources, L
      <4>5. QED
        BY <4>2, <4>3, <4>4, FS_CardinalityType
    <3> HIDE DEF c, all, n
    <3>2. QED
      BY <3>1, EntitlementsGrow DEF Due
  <2>9. ReceiptsAreCovered'
    <3>1. IsFiniteSet(outbox')
      BY <2>1, <2>6, FS_Union DEF CommunityIsSound, ReceiptsAreCovered
    <3>2. PICK many : many = all
      OBVIOUS
    <3>3. sources' = many /\ sources \subseteq many /\ IsFiniteSet(many)
      BY <2>1, <2>7, <3>2
    <3>4. ASSUME NEW r \in outbox' PROVE r.ordinal <= Due(many, r.user, r.day)[r.category]
      <4>1. r \in Receipts
        BY <2>1, <2>5 DEF CommunityIsSound, CommunityTypeOK
      <4>2. r.ordinal \in Nat /\ r.category \in Categories
        BY <4>1 DEF Receipts
      <4>3. CASE r \in outbox
        <5>1. r.ordinal <= Due(sources, r.user, r.day)[r.category]
          BY <4>3 DEF CommunityIsSound, ReceiptsAreCovered
        <5>2. /\ Due(sources, r.user, r.day)[r.category] \in Nat
              /\ Due(sources, r.user, r.day)[r.category] <= Due(many, r.user, r.day)[r.category]
          BY <3>3, <4>2, DueGrows
        <5>3. Due(many, r.user, r.day)[r.category] \in Nat
          BY <3>3, <4>2, DueGrows
        <5>4. QED
          BY <4>2, <5>1, <5>2, <5>3
      <4>4. CASE r \in rows
        <5>1. r.user = u /\ r.day = n.day /\ r.ordinal <= due[r.category]
          BY <4>4
        <5>2. due[r.category] \in Nat /\ due[r.category] <= Due(many, r.user, r.day)[r.category]
          BY <2>8, <3>2, <4>2, <5>1
        <5>3. Due(many, r.user, r.day)[r.category] \in Nat
          BY <3>3, <4>2, DueGrows
        <5> HIDE DEF due
        <5>4. QED
          BY <4>2, <5>1, <5>2, <5>3
      <4>5. QED
        BY <2>1, <4>3, <4>4
    <3>5. \A r \in outbox' : r.ordinal <= Due(sources', r.user, r.day)[r.category]
      BY <3>3, <3>4
    <3>6. QED
      BY <3>1, <3>5, Zenon DEF ReceiptsAreCovered, Due, OfKind, Entitlements
  <2>10. PICK T \in SUBSET Receipts : T = rows
    BY <2>5
  <2>11. /\ outbox' = outbox \cup T /\ fresh' = fresh \o SetToSeq(T) /\ IsFiniteSet(T)
         /\ \A r \in T : r \notin outbox
    BY <2>1, <2>5, <2>6, <2>10
  <2> HIDE DEF rows
  <2>12. /\ fresh' \in Seq(Receipts) /\ Once(fresh')
         /\ \A x : Listed(fresh', x) => Listed(fresh, x) \/ x \in T
         /\ \A x : Listed(fresh, x) \/ x \in T => Listed(fresh', x)
    <3>1. fresh \in Seq(Receipts) /\ Once(fresh) /\ \A x \in T : ~ Listed(fresh, x)
      BY <2>11 DEF CommunityIsSound, CommunityTypeOK, QueueIsExact
    <3>2. /\ fresh \o SetToSeq(T) \in Seq(Receipts) /\ Once(fresh \o SetToSeq(T))
          /\ \A x : Listed(fresh \o SetToSeq(T), x) => Listed(fresh, x) \/ x \in T
          /\ \A x : Listed(fresh, x) \/ x \in T => Listed(fresh \o SetToSeq(T), x)
      BY <2>11, <3>1, JoinedOnce
    <3>3. QED
      BY <2>11, <3>2
  <2>13. QueueIsExact'
    <3>1. delivered \subseteq outbox
      BY DEF CommunityIsSound, CommunityTypeOK
    <3>2. ASSUME NEW x \in Receipts
          PROVE  /\ ~ (Listed(fresh', x) /\ Listed(deferred, x))
                 /\ Listed(fresh', x) \/ Listed(deferred, x) <=> x \in outbox' \ delivered
      <4>1. x \in T => x \in outbox' \ delivered /\ ~ Listed(deferred, x)
        BY <2>11, <3>1 DEF CommunityIsSound, QueueIsExact
      <4>2. x \in outbox' \ delivered => x \in T \/ x \in outbox \ delivered
        BY <2>11
      <4>3. x \in outbox \ delivered => x \in outbox' \ delivered
        BY <2>11
      <4>4. QED
        BY <2>12, <4>1, <4>2, <4>3, Zenon DEF CommunityIsSound, QueueIsExact
    <3>3. Once(deferred)
      BY DEF CommunityIsSound, QueueIsExact
    <3>4. QED
      BY <2>12, <3>2, <3>3 DEF QueueIsExact
  <2>14. outbox' \subseteq Receipts /\ outbox \subseteq outbox'
    BY <2>11 DEF CommunityIsSound, CommunityTypeOK
  <2>15. QED
    BY <2>3, <2>4, <2>9, <2>12, <2>13, <2>14
<1>3. QED
  BY <1>1, <1>2

(* A collector that has recorded a row goes on.                            *)
LEMMA RecordMoves ==
  ASSUME CommunityIsSound, NEW c \in Replicas, batch[c].pc \in {"record", "owner"}, NEW pc \in {"owner", "cursor"},
         pc = "owner" => log[Current(c)].stream = "comment" /\ log[Current(c)].actor # log[Current(c)].owner,
         batch' = [batch EXCEPT ![c].pc = pc],
         Onward, SourcesAreEarned', ReceiptsAreCovered', QueueIsExact',
         outbox' \subseteq Receipts, outbox \subseteq outbox', fresh' \in Seq(Receipts),
         UNCHANGED <<forum, cursor, delivered, deferred, lock, wire, lots>>
  PROVE  CommunityIsSound'
<1>1. PICK b : b = batch[c]
  OBVIOUS
<1>2. /\ b \in [pc : Collecting, stream : DOMAIN Streams, page : SUBSET Nat, live : SUBSET Nat]
      /\ b.page # {} /\ b.page \subseteq 1 .. Len(log) /\ Current(c) = Min(b.page)
  <2>1. batch[c].pc \in Collecting
    BY DEF Collecting
  <2>2. QED
    BY <1>1, <2>1, CurrentIs DEF Current
<1>3. PICK n : n = [b EXCEPT !.pc = pc]
  OBVIOUS
<1>4. n = [pc |-> pc, stream |-> b.stream, page |-> b.page, live |-> b.live]
  BY <1>2, <1>3
<1>5. n \in Batches
  BY <1>2, <1>4 DEF Batches
<1>6. BatchIsSound(n)
  BY <1>2, <1>4 DEF BatchIsSound, Collecting, Delivery
<1>7. batch' = [batch EXCEPT ![c] = n]
  BY <1>1, <1>3, Zenon
<1>8. BatchIsSound(n)'
  BY <1>5, <1>6, BatchStaysSound DEF CommunityIsSound
<1>9. batch' \in [Replicas -> Batches] /\ BatchesAreSound'
  BY <1>5, <1>7, <1>8, BatchMoves
<1>10. MintedOnce'
  BY DEF CommunityIsSound, MintedOnce
<1>11. CommunityTypeOK'
  BY <1>9 DEF CommunityIsSound, CommunityTypeOK, forum
<1>12. QED
  BY <1>9, <1>10, <1>11 DEF CommunityIsSound

(* A row is recorded for the member who acted.                             *)
LEMMA ActorStep == ASSUME CommunityIsSound, NEW c \in Replicas, RecordActor(c) PROVE CommunityIsSound'
<1>1. PICK i : i = Current(c)
  OBVIOUS
<1>2. i \in 1 .. Len(log)
  BY <1>1, CurrentIs DEF RecordActor, Collecting
<1>3. PICK e \in LogRow : e = log[i]
  BY <1>2 DEF CommunityIsSound, CommunityTypeOK
<1>4. CASE i \in batch[c].live /\ (e.stream = "checkin" \/ e.actor # e.owner)
  <2>1. PICK pc : pc = IF e.stream = "comment" THEN "owner" ELSE "cursor"
    OBVIOUS
  <2>2. Record(Kind(i), e.actor, i) /\ batch' = [batch EXCEPT ![c].pc = pc]
    BY <1>1, <1>3, <1>4, <2>1 DEF RecordActor
  <2>3. Attributed(Kind(i), e.actor, i)
    <3>1. e.stream \in {"comment", "activity", "checkin"} /\ e.actor \in Members
      BY StreamsAre DEF LogRow
    <3>2. CASE e.stream = "activity"
      <4>1. Kind(i) = "like"
        BY <1>3, <3>2 DEF Kind
      <4>2. QED
        BY <1>2, <1>3, <1>4, <3>1, <3>2, <4>1 DEF Attributed, SourceKinds
    <3>3. CASE e.stream = "checkin"
      <4>1. Kind(i) = "checkin"
        BY <1>3, <3>3 DEF Kind
      <4>2. QED
        BY <1>2, <1>3, <1>4, <3>1, <3>3, <4>1 DEF Attributed, SourceKinds
    <3>4. CASE e.stream = "comment"
      <4>1. Kind(i) = "comment"
        BY <1>3, <3>4 DEF Kind
      <4>2. QED
        BY <1>2, <1>3, <1>4, <3>1, <3>4, <4>1 DEF Attributed, SourceKinds
    <3>5. QED
      BY <3>1, <3>2, <3>3, <3>4
  <2>4. /\ Onward /\ SourcesAreEarned' /\ ReceiptsAreCovered' /\ QueueIsExact'
        /\ outbox' \subseteq Receipts /\ outbox \subseteq outbox' /\ fresh' \in Seq(Receipts)
    BY <2>2, <2>3, RecordIs DEF RecordActor, forum
  <2>5. pc = "owner" => log[Current(c)].stream = "comment" /\ log[Current(c)].actor # log[Current(c)].owner
    BY <1>1, <1>3, <1>4, <2>1
  <2>6. batch[c].pc \in {"record", "owner"} /\ pc \in {"owner", "cursor"}
    BY <2>1 DEF RecordActor
  <2>7. UNCHANGED <<forum, cursor, delivered, deferred, lock, wire, lots>>
    BY DEF RecordActor
  <2>8. QED
    BY <2>2, <2>4, <2>5, <2>6, <2>7, RecordMoves
<1>5. CASE ~ (i \in batch[c].live /\ (e.stream = "checkin" \/ e.actor # e.owner))
  <2>1. batch' = [batch EXCEPT ![c].pc = "cursor"] /\ UNCHANGED <<sources, outbox, fresh>>
    BY <1>1, <1>3, <1>5 DEF RecordActor
  <2>2. Onward
    BY <2>1, OnwardIs DEF RecordActor, forum, CommunityIsSound
  <2>3. SourcesAreEarned' /\ ReceiptsAreCovered'
    BY <2>1, <2>2, TablesStay
  <2>4. QueueIsExact'
    BY <2>1 DEF RecordActor, CommunityIsSound, QueueIsExact
  <2>5. outbox' \subseteq Receipts /\ outbox \subseteq outbox' /\ fresh' \in Seq(Receipts)
    BY <2>1 DEF CommunityIsSound, CommunityTypeOK
  <2>6. batch[c].pc \in {"record", "owner"} /\ UNCHANGED <<forum, cursor, delivered, deferred, lock, wire, lots>>
    BY DEF RecordActor
  <2>7. QED
    BY <2>1, <2>2, <2>3, <2>4, <2>5, <2>6, RecordMoves
<1>6. QED
  BY <1>4, <1>5

(* A comment is recorded for the author of the post.                       *)
LEMMA OwnerStep == ASSUME CommunityIsSound, NEW c \in Replicas, RecordOwner(c) PROVE CommunityIsSound'
<1>1. PICK i : i = Current(c)
  OBVIOUS
<1>2. i \in 1 .. Len(log)
  BY <1>1, CurrentIs DEF RecordOwner, Collecting
<1>3. log[i].stream = "comment" /\ log[i].actor # log[i].owner /\ log[i].owner \in Members
  <2>1. log[i].owner \in Members
    <3>1. log[i] \in LogRow
      BY <1>2 DEF CommunityIsSound, CommunityTypeOK
    <3>2. QED
      BY <3>1 DEF LogRow
  <2>2. QED
    BY <1>1, <2>1 DEF RecordOwner, Current, CommunityIsSound, BatchesAreSound, BatchIsSound
<1>4. Attributed("received", log[i].owner, i)
  BY <1>2, <1>3 DEF Attributed, SourceKinds
<1>5. Record("received", log[i].owner, i)
  BY <1>1 DEF RecordOwner
<1>6. /\ Onward /\ SourcesAreEarned' /\ ReceiptsAreCovered' /\ QueueIsExact'
      /\ outbox' \subseteq Receipts /\ outbox \subseteq outbox' /\ fresh' \in Seq(Receipts)
  BY <1>4, <1>5, RecordIs DEF RecordOwner, forum
<1>7. /\ batch[c].pc \in {"record", "owner"} /\ batch' = [batch EXCEPT ![c].pc = "cursor"]
      /\ UNCHANGED <<forum, cursor, delivered, deferred, lock, wire, lots>>
  BY DEF RecordOwner
<1>8. QED
  BY <1>6, <1>7, RecordMoves

(* Every step keeps the invariant.                                         *)
LEMMA CommunityStep == CommunityIsSound /\ [CommunityNext]_communityVars => CommunityIsSound'
<1> SUFFICES ASSUME CommunityIsSound, [CommunityNext]_communityVars PROVE CommunityIsSound'
  OBVIOUS
<1>1. CASE ForumNext
  BY <1>1, ActStep, ToggleStep, BindStep, TimeStep DEF ForumNext
<1>2. CASE FaultNext
  BY <1>2, FaultStep
<1>3. ASSUME NEW c \in Replicas, BatchStep(c) PROVE CommunityIsSound'
  BY <1>3, StartStep, PageStep, ActorStep, OwnerStep, CursorStep, AttemptStep, AckStep DEF BatchStep
<1>4. ASSUME NEW q \in wire, Grant(q) PROVE CommunityIsSound'
  BY <1>4, GrantStep
<1>5. CASE UNCHANGED communityVars
  BY <1>5, QuietStep DEF communityVars, forum, queue, CommunityIsSound, CommunityTypeOK
<1>6. QED
  BY <1>1, <1>2, <1>3, <1>4, <1>5 DEF CommunityNext

(* It holds at the start.                                                  *)
LEMMA CommunityStart == CommunityInit => CommunityIsSound
<1> SUFFICES ASSUME CommunityInit PROVE CommunityIsSound
  OBVIOUS
<1>1. CommunityTypeOK
  BY RestIs, CommunityAssumption DEF CommunityInit, CommunityTypeOK, Unbound
<1>2. QueueIsExact
  BY DEF CommunityInit, QueueIsExact, Once, Listed
<1>3. BatchesAreSound
  BY RestIs DEF CommunityInit, BatchesAreSound
<1>4. MintedOnce
  BY DEF CommunityInit, MintedOnce
<1>5. SourcesAreEarned /\ ReceiptsAreCovered
  BY FS_EmptySet DEF CommunityInit, SourcesAreEarned, ReceiptsAreCovered
<1>6. QED
  BY <1>1, <1>2, <1>3, <1>4, <1>5 DEF CommunityIsSound

(* It holds for ever.                                                      *)
LEMMA CommunityIsAlwaysSound == CommunitySpec => []CommunityIsSound
  BY CommunityStep, CommunityStart, PTL DEF CommunitySpec

-----------------------------------------------------------------------------
(* Delivery.                                                               *)

(* What stands in an order once stands there at one place.                 *)
LEMMA OnePlace ==
  ASSUME NEW q \in Seq(Receipts), NEW r, Once(q)
  PROVE  /\ Listed(q, r) => Cardinality({k \in DOMAIN q : q[k] = r}) = 1
         /\ ~ Listed(q, r) => Cardinality({k \in DOMAIN q : q[k] = r}) = 0
<1>1. ASSUME Listed(q, r) PROVE Cardinality({k \in DOMAIN q : q[k] = r}) = 1
  <2>1. PICK k \in 1 .. Len(q) : q[k] = r
    BY <1>1 DEF Listed
  <2>2. {j \in DOMAIN q : q[j] = r} = {k}
    BY <2>1 DEF Once
  <2>3. QED
    BY <2>2, FS_Singleton
<1>2. ASSUME ~ Listed(q, r) PROVE Cardinality({k \in DOMAIN q : q[k] = r}) = 0
  <2>1. {j \in DOMAIN q : q[j] = r} = {}
    BY <1>2 DEF Listed
  <2>2. QED
    BY <2>1, FS_EmptySet
<1>3. QED
  BY <1>1, <1>2

(* The two orders of the queue, one behind the other, are an order.        *)
LEMMA QueueIs ==
  ASSUME CommunityIsSound
  PROVE  /\ fresh \o deferred \in Seq(Receipts) /\ Once(fresh \o deferred)
         /\ \A r \in Receipts : Listed(fresh \o deferred, r) <=> r \in outbox \ delivered
<1> DEFINE q == fresh \o deferred
           n == Len(fresh)
<1>1. fresh \in Seq(Receipts) /\ deferred \in Seq(Receipts) /\ n \in Nat /\ Len(deferred) \in Nat
  BY DEF CommunityIsSound, CommunityTypeOK
<1>2. /\ q \in Seq(Receipts) /\ Len(q) = n + Len(deferred)
      /\ \A i \in 1 .. n : q[i] = fresh[i]
      /\ \A i \in 1 .. Len(deferred) : q[n + i] = deferred[i]
  BY <1>1, JoinedIs
<1>3. \A i \in 1 .. n : fresh[i] \in Receipts
  BY <1>1
<1>4. \A i \in 1 .. Len(deferred) : deferred[i] \in Receipts
  BY <1>1
<1> HIDE DEF q
<1>5. ASSUME NEW i \in 1 .. Len(q), i \notin 1 .. n PROVE \E j \in 1 .. Len(deferred) : i = n + j
  <2>1. i - n \in 1 .. Len(deferred) /\ i = n + (i - n)
    BY <1>1, <1>2, <1>5
  <2>2. QED
    BY <2>1
<1>6. \A r \in Receipts : Listed(q, r) <=> Listed(fresh, r) \/ Listed(deferred, r)
  <2>1. ASSUME NEW r, Listed(q, r) PROVE Listed(fresh, r) \/ Listed(deferred, r)
    <3>1. PICK i \in 1 .. Len(q) : q[i] = r
      BY <2>1 DEF Listed
    <3>2. CASE i \in 1 .. n
      BY <1>2, <3>1, <3>2 DEF Listed
    <3>3. CASE i \notin 1 .. n
      BY <1>2, <1>5, <3>1, <3>3 DEF Listed
    <3>4. QED
      BY <3>2, <3>3
  <2>2. ASSUME NEW r, Listed(fresh, r) PROVE Listed(q, r)
    <3>1. PICK i \in 1 .. n : fresh[i] = r
      BY <2>2 DEF Listed
    <3>2. i \in 1 .. Len(q) /\ q[i] = r
      BY <1>1, <1>2, <3>1
    <3>3. QED
      BY <3>2 DEF Listed
  <2>3. ASSUME NEW r, Listed(deferred, r) PROVE Listed(q, r)
    <3>1. PICK i \in 1 .. Len(deferred) : deferred[i] = r
      BY <2>3 DEF Listed
    <3>2. n + i \in 1 .. Len(q) /\ q[n + i] = r
      BY <1>1, <1>2, <3>1
    <3>3. QED
      BY <3>2 DEF Listed
  <2>4. QED
    BY <2>1, <2>2, <2>3
<1>7. Once(q)
  <2>1. SUFFICES ASSUME NEW i \in 1 .. Len(q), NEW j \in 1 .. Len(q), q[i] = q[j] PROVE i = j
    BY DEF Once
  <2>2. CASE i \in 1 .. n /\ j \in 1 .. n
    BY <1>2, <2>1, <2>2 DEF CommunityIsSound, QueueIsExact, Once
  <2>3. CASE i \notin 1 .. n /\ j \notin 1 .. n
    <3>1. PICK k \in 1 .. Len(deferred) : i = n + k
      BY <1>5, <2>3
    <3>2. PICK l \in 1 .. Len(deferred) : j = n + l
      BY <1>5, <2>3
    <3>3. deferred[k] = deferred[l]
      BY <1>2, <2>1, <3>1, <3>2
    <3>4. k = l
      BY <3>3 DEF CommunityIsSound, QueueIsExact, Once
    <3>5. QED
      BY <3>1, <3>2, <3>4
  <2>4. ASSUME NEW a \in 1 .. n, NEW b \in 1 .. Len(q), b \notin 1 .. n, q[a] = q[b] PROVE FALSE
    <3>1. PICK l \in 1 .. Len(deferred) : b = n + l
      BY <1>5, <2>4
    <3>2. fresh[a] = deferred[l] /\ fresh[a] \in Receipts
      BY <1>2, <1>3, <2>4, <3>1
    <3>3. QED
      BY <3>2 DEF CommunityIsSound, QueueIsExact, Listed
  <2>5. QED
    BY <2>1, <2>2, <2>3, <2>4
<1>8. QED
  BY <1>2, <1>6, <1>7 DEF q, CommunityIsSound, QueueIsExact

(* Pulse's answer decides: whatever calls, batches and locks are lost, a   *)
(* receipt counts as delivered (communitytickets/store.go) only after its  *)
(* ticket is minted, and until then it stands in the queue exactly once.   *)
THEOREM ReceiptsAreNeverLost == CommunitySpec => []DeliveredMeansMinted
<1>1. CommunityIsSound => DeliveredMeansMinted
  <2> SUFFICES ASSUME CommunityIsSound, NEW r \in outbox
               PROVE  /\ r \in delivered => lots[r] = 1
                      /\ Cardinality({k \in DOMAIN (fresh \o deferred) : (fresh \o deferred)[k] = r})
                           = (IF r \in delivered THEN 0 ELSE 1)
    BY Zenon DEF DeliveredMeansMinted
  <2>1. r \in Receipts
    BY DEF CommunityIsSound, CommunityTypeOK
  <2>2. r \in delivered => lots[r] = 1
    BY <2>1 DEF CommunityIsSound, MintedOnce
  <2>3. PICK q \in Seq(Receipts) : q = fresh \o deferred
    BY QueueIs
  <2>4. Once(q) /\ (Listed(q, r) <=> r \notin delivered)
    BY <2>1, <2>3, QueueIs
  <2>5. Cardinality({k \in DOMAIN q : q[k] = r}) = IF r \in delivered THEN 0 ELSE 1
    BY <2>4, OnePlace
  <2>6. QED
    BY <2>2, <2>3, <2>5
<1>2. QED
  BY <1>1, CommunityIsAlwaysSound, PTL

-----------------------------------------------------------------------------
(* Thresholds.                                                             *)

(* Sources of a member and kind, by their day.                             *)
Recorded(u, kind, days) == {s \in sources : s.user = u /\ s.kind = kind /\ s.day \in days}
Given(u, category, days) == {r \in outbox : r.user = u /\ r.category = category /\ r.day \in days}

(* Sources are finitely many, and known apart by their rows: no more than  *)
(* the deeds of a set that has their rows.                                 *)
LEMMA RecordedIs ==
  ASSUME CommunityIsSound, NEW u, NEW kind, NEW days, NEW I, I \subseteq 1 .. Len(log),
         \A s \in Recorded(u, kind, days) : s.id \in I
  PROVE  /\ IsFiniteSet(Recorded(u, kind, days)) /\ Cardinality(Recorded(u, kind, days)) \in Nat
         /\ Cardinality(I) \in Nat /\ Cardinality(Recorded(u, kind, days)) <= Cardinality(I)
<1> DEFINE S == Recorded(u, kind, days)
           f == [s \in S |-> s.id]
<1>1. IsFiniteSet(I)
  <2>1. Len(log) \in Nat
    BY DEF CommunityIsSound, CommunityTypeOK
  <2>2. IsFiniteSet(1 .. Len(log))
    BY <2>1, FS_Interval
  <2>3. QED
    BY <2>2, FS_Subset
<1>2. \A s \in S : s = Source(kind, u, s.id)
  BY DEF Recorded, CommunityIsSound, SourcesAreEarned, IsEarned
<1>3. f \in [S -> I] /\ \A s \in S : f[s] = s.id
  OBVIOUS
<1> HIDE DEF S, f
<1>4. \A a, b \in S : f[a] = f[b] => a = b
  BY <1>2, <1>3
<1>5. QED
  BY <1>1, <1>3, <1>4, NotMoreThan DEF S

(* The deeds a source may be: rows of the log.                             *)
LEMMA DeedsAreRows ==
  /\ \A u, stream : Done(u, stream) \subseteq 1 .. Len(log)
  /\ \A u : Received(u) \subseteq 1 .. Len(log)
  /\ \A I, d : OnDay(I, d) \subseteq I
  BY DEF Done, Received, OnDay

(* A source is on record for a deed of its day.                            *)
LEMMA RecordedEarned ==
  ASSUME CommunityIsSound, NEW u, NEW kind, NEW days, NEW s \in Recorded(u, kind, days)
  PROVE  /\ IsEarned(s) /\ s \in sources /\ s.user = u /\ s.kind = kind /\ s.day \in days
         /\ s.id \in Earning(kind, u) /\ log[s.id].day = s.day
<1>1. IsEarned(s) /\ s \in sources /\ s.user = u /\ s.kind = kind /\ s.day \in days
  BY DEF Recorded, CommunityIsSound, SourcesAreEarned
<1>2. s.id \in Earning(kind, u) /\ s = Source(kind, u, s.id)
  BY <1>1 DEF IsEarned
<1>3. PICK i : i = s.id
  OBVIOUS
<1>4. Source(kind, u, i).day = log[i].day
  BY DEF Source
<1>5. QED
  BY <1>1, <1>2, <1>3, <1>4

(* What a day gives in a category is what its sources entitle to, at most: *)
(* the ordinals of its receipts are different.                             *)
LEMMA GivenIsDue ==
  ASSUME CommunityIsSound, NEW u, NEW d, NEW category \in Categories
  PROVE  /\ IsFiniteSet(Given(u, category, {d})) /\ Cardinality(Given(u, category, {d})) \in Nat
         /\ Due(sources, u, d)[category] \in Nat
         /\ Cardinality(Given(u, category, {d})) <= Due(sources, u, d)[category]
<1> DEFINE G == Given(u, category, {d})
           f == [r \in G |-> r.ordinal]
<1>1. PICK n : n = Due(sources, u, d)[category]
  OBVIOUS
<1>2. n \in Nat
  BY <1>1, DueGrows DEF CommunityIsSound, SourcesAreEarned
<1>3. \A r \in G : r \in Receipts /\ r.user = u /\ r.day = d /\ r.category = category /\ r.ordinal \in 1 .. n
  <2>1. SUFFICES ASSUME NEW r \in G
                 PROVE  r \in Receipts /\ r.user = u /\ r.day = d /\ r.category = category /\ r.ordinal \in 1 .. n
    OBVIOUS
  <2>2. r \in Receipts /\ r \in outbox /\ r.user = u /\ r.day = d /\ r.category = category
    BY DEF Given, CommunityIsSound, CommunityTypeOK
  <2>3. r.ordinal <= n
    BY <1>1, <2>2 DEF CommunityIsSound, ReceiptsAreCovered
  <2>4. r.ordinal \in 1 .. 3
    BY <2>2 DEF Receipts
  <2>5. QED
    BY <1>2, <2>2, <2>3, <2>4
<1>4. f \in [G -> 1 .. n] /\ \A r \in G : f[r] = r.ordinal
  BY <1>3
<1> HIDE DEF G, f
<1>5. \A a, b \in G : f[a] = f[b] => a = b
  BY <1>3, <1>4 DEF Receipts
<1>6. IsFiniteSet(1 .. n) /\ Cardinality(1 .. n) = n
  BY <1>2, FS_Interval
<1>7. IsFiniteSet(G) /\ Cardinality(G) \in Nat /\ Cardinality(G) <= Cardinality(1 .. n)
  BY <1>4, <1>5, <1>6, NotMoreThan
<1>8. QED
  BY <1>1, <1>2, <1>6, <1>7 DEF G

(* What the sources of a day entitle to: no more than the cap, and no more *)
(* than their number reaches.                                              *)
LEMMA DueIs ==
  ASSUME CommunityIsSound, NEW u, NEW d
  PROVE  /\ \A category \in Categories : Due(sources, u, d)[category] <= Cap[category]
         /\ \A kind : Cardinality(Recorded(u, kind, {d})) \in Nat
         /\ Due(sources, u, d)["participation"] <=
              Cardinality(Recorded(u, "like", {d})) \div LikesPer + Cardinality(Recorded(u, "comment", {d})) \div CommentsPer
         /\ Due(sources, u, d)["received"] <= Cardinality(Recorded(u, "received", {d})) \div ReceivedPer
         /\ Due(sources, u, d)["checkin"] <= Cardinality(Recorded(u, "checkin", {d}))
<1>1. \A kind : OfKind(sources, u, d, kind) = Recorded(u, kind, {d})
  BY DEF OfKind, Recorded
<1>2. \A kind : Cardinality(Recorded(u, kind, {d})) \in Nat
  <2>1. ASSUME NEW kind PROVE Cardinality(Recorded(u, kind, {d})) \in Nat
    <3>1. Recorded(u, kind, {d}) \in SUBSET sources
      BY DEF Recorded
    <3>2. IsFiniteSet(Recorded(u, kind, {d}))
      BY <3>1, FS_Subset DEF CommunityIsSound, SourcesAreEarned
    <3>3. QED
      BY <3>2, FS_CardinalityType
  <2>2. QED
    BY <2>1
<1>3. PICK a \in Nat : a = Cardinality(Recorded(u, "like", {d}))
  BY <1>2
<1>4. PICK b \in Nat : b = Cardinality(Recorded(u, "comment", {d}))
  BY <1>2
<1>5. PICK c \in Nat : c = Cardinality(Recorded(u, "received", {d}))
  BY <1>2
<1>6. PICK e \in Nat : e = Cardinality(Recorded(u, "checkin", {d}))
  BY <1>2
<1>7. Due(sources, u, d) = Entitlements(a, b, c, e)
  BY <1>1, <1>3, <1>4, <1>5, <1>6 DEF Due
<1>8. PICK x \in Nat : x = a \div LikesPer + b \div CommentsPer
  BY CommunityAssumption
<1>9. PICK y \in Nat : y = c \div ReceivedPer
  BY CommunityAssumption
<1>10. \A category \in Categories : Cap[category] \in Nat
  BY CommunityAssumption
<1>11. /\ Entitlements(a, b, c, e)["participation"] = IF Cap["participation"] < x THEN Cap["participation"] ELSE x
       /\ Entitlements(a, b, c, e)["received"] = IF Cap["received"] < y THEN Cap["received"] ELSE y
       /\ Entitlements(a, b, c, e)["checkin"] = IF Cap["checkin"] < e THEN Cap["checkin"] ELSE e
  BY <1>8, <1>9 DEF Entitlements
<1>12. /\ Cap["participation"] \in Nat /\ Cap["received"] \in Nat /\ Cap["checkin"] \in Nat
  BY <1>10 DEF Categories
<1>13. /\ \A category \in Categories : Entitlements(a, b, c, e)[category] <= Cap[category]
       /\ Entitlements(a, b, c, e)["participation"] <= x
       /\ Entitlements(a, b, c, e)["received"] <= y
       /\ Entitlements(a, b, c, e)["checkin"] <= e
  BY <1>11, <1>12 DEF Categories
<1>14. QED
  BY <1>2, <1>3, <1>4, <1>5, <1>6, <1>7, <1>8, <1>9, <1>13

(* Parts of two numbers make up no more than the parts of their sum.       *)
LEMMA PartsAdd ==
  ASSUME NEW a \in Nat, NEW b \in Nat, NEW k \in Nat \ {0}
  PROVE  /\ a \div k \in Nat /\ b \div k \in Nat /\ (a + b) \div k \in Nat
         /\ a \div k + b \div k <= (a + b) \div k
  OBVIOUS

(* More deeds make up no fewer parts.                                      *)
LEMMA PartsGrow ==
  ASSUME NEW a \in Nat, NEW b \in Nat, NEW k \in Nat \ {0}, a <= b
  PROVE  a \div k \in Nat /\ b \div k \in Nat /\ a \div k <= b \div k
  OBVIOUS

(* Two days' sources, or receipts, are those of the one and of the other.  *)
LEMMA DaysAdd ==
  ASSUME CommunityIsSound, NEW u, NEW kind, NEW category, NEW m \in Nat \ {0}
  PROVE  /\ Cardinality(Recorded(u, kind, 0 .. m)) = Cardinality(Recorded(u, kind, 0 .. m - 1)) + Cardinality(Recorded(u, kind, {m}))
         /\ Cardinality(Given(u, category, 0 .. m)) = Cardinality(Given(u, category, 0 .. m - 1)) + Cardinality(Given(u, category, {m}))
         /\ Cardinality(Recorded(u, kind, 0 .. m - 1)) \in Nat /\ Cardinality(Recorded(u, kind, {m})) \in Nat
         /\ Cardinality(Given(u, category, 0 .. m - 1)) \in Nat /\ Cardinality(Given(u, category, {m})) \in Nat
<1>1. 0 .. m = (0 .. m - 1) \cup {m} /\ m \notin 0 .. m - 1
  OBVIOUS
<1>2. /\ IsFiniteSet(sources) /\ IsFiniteSet(outbox)
  BY DEF CommunityIsSound, SourcesAreEarned, ReceiptsAreCovered
<1>3. /\ Recorded(u, kind, 0 .. m) = Recorded(u, kind, 0 .. m - 1) \cup Recorded(u, kind, {m})
      /\ Recorded(u, kind, 0 .. m - 1) \cap Recorded(u, kind, {m}) = {}
      /\ Recorded(u, kind, 0 .. m - 1) \in SUBSET sources /\ Recorded(u, kind, {m}) \in SUBSET sources
  BY <1>1 DEF Recorded
<1>4. /\ Given(u, category, 0 .. m) = Given(u, category, 0 .. m - 1) \cup Given(u, category, {m})
      /\ Given(u, category, 0 .. m - 1) \cap Given(u, category, {m}) = {}
      /\ Given(u, category, 0 .. m - 1) \in SUBSET outbox /\ Given(u, category, {m}) \in SUBSET outbox
  BY <1>1 DEF Given
<1>5. ASSUME NEW S, NEW A \in SUBSET S, NEW B \in SUBSET S, IsFiniteSet(S), A \cap B = {}
      PROVE  /\ Cardinality(A \cup B) = Cardinality(A) + Cardinality(B)
             /\ Cardinality(A) \in Nat /\ Cardinality(B) \in Nat
  <2>1. IsFiniteSet(A) /\ IsFiniteSet(B)
    BY <1>5, FS_Subset
  <2>2. Cardinality(A) \in Nat /\ Cardinality(B) \in Nat
    BY <2>1, FS_CardinalityType
  <2>3. Cardinality(A \cup B) = Cardinality(A) + Cardinality(B) - Cardinality(A \cap B)
    BY <2>1, FS_Union
  <2>4. Cardinality(A \cap B) = 0
    BY <1>5, FS_EmptySet
  <2>5. QED
    BY <2>2, <2>3, <2>4
<1>6. /\ Cardinality(Recorded(u, kind, 0 .. m)) = Cardinality(Recorded(u, kind, 0 .. m - 1)) + Cardinality(Recorded(u, kind, {m}))
      /\ Cardinality(Recorded(u, kind, 0 .. m - 1)) \in Nat /\ Cardinality(Recorded(u, kind, {m})) \in Nat
  BY <1>2, <1>3, <1>5
<1>7. /\ Cardinality(Given(u, category, 0 .. m)) = Cardinality(Given(u, category, 0 .. m - 1)) + Cardinality(Given(u, category, {m}))
      /\ Cardinality(Given(u, category, 0 .. m - 1)) \in Nat /\ Cardinality(Given(u, category, {m})) \in Nat
  BY <1>2, <1>4, <1>5
<1>8. QED
  BY <1>6, <1>7

(* By the day: tickets for taking part are no more than the parts that all *)
(* sources up to then make up.                                             *)
PartsCover(u, m) ==
  Cardinality(Given(u, "participation", 0 .. m)) <=
    Cardinality(Recorded(u, "like", 0 .. m)) \div LikesPer + Cardinality(Recorded(u, "comment", 0 .. m)) \div CommentsPer

LEMMA PartsCoverAll ==
  ASSUME CommunityIsSound, NEW u, NEW last \in Nat
  PROVE  PartsCover(u, last)
<1> DEFINE Bad == {m \in Nat : ~ PartsCover(u, m)}
<1>1. Bad \in SUBSET Nat
  OBVIOUS
<1>2. ASSUME Bad # {} PROVE FALSE
  <2>1. PICK m \in Bad : \A k \in Bad : m <= k
    BY <1>1, <1>2, LowestNumber
  <2>2. m \in Nat /\ ~ PartsCover(u, m)
    BY <2>1
  <2>3. /\ Cardinality(Given(u, "participation", {m})) \in Nat
        /\ Due(sources, u, m)["participation"] \in Nat
        /\ Cardinality(Given(u, "participation", {m})) <= Due(sources, u, m)["participation"]
    BY GivenIsDue DEF Categories
  <2>4. PICK a \in Nat : a = Cardinality(Recorded(u, "like", {m}))
    BY DueIs
  <2>5. PICK b \in Nat : b = Cardinality(Recorded(u, "comment", {m}))
    BY DueIs
  <2>6. Due(sources, u, m)["participation"] <= a \div LikesPer + b \div CommentsPer
    BY <2>4, <2>5, DueIs
  <2>7. PICK g \in Nat : g = Cardinality(Given(u, "participation", {m}))
    BY <2>3
  <2>8. a \div LikesPer \in Nat /\ b \div CommentsPer \in Nat
    BY CommunityAssumption
  <2>9. g <= a \div LikesPer + b \div CommentsPer
    BY <2>3, <2>6, <2>7, <2>8
  <2>10. CASE m = 0
    <3>1. 0 .. m = {m}
      BY <2>10
    <3>2. QED
      BY <2>2, <2>4, <2>5, <2>7, <2>9, <3>1 DEF PartsCover
  <2>11. CASE m # 0
    <3>1. m \in Nat \ {0} /\ m - 1 \in Nat /\ ~ (m <= m - 1)
      BY <2>2, <2>11
    <3>2. PartsCover(u, m - 1)
      BY <2>1, <3>1
    <3>3. PICK h \in Nat : h = Cardinality(Given(u, "participation", 0 .. m - 1))
      BY <3>1, DaysAdd
    <3>4. PICK x \in Nat : x = Cardinality(Recorded(u, "like", 0 .. m - 1))
      BY <3>1, DaysAdd
    <3>5. PICK y \in Nat : y = Cardinality(Recorded(u, "comment", 0 .. m - 1))
      BY <3>1, DaysAdd
    <3>6. h <= x \div LikesPer + y \div CommentsPer
      BY <3>2, <3>3, <3>4, <3>5 DEF PartsCover
    <3>7. /\ Cardinality(Given(u, "participation", 0 .. m)) = h + g
          /\ Cardinality(Recorded(u, "like", 0 .. m)) = x + a
          /\ Cardinality(Recorded(u, "comment", 0 .. m)) = y + b
      BY <2>4, <2>5, <2>7, <3>1, <3>3, <3>4, <3>5, DaysAdd
    <3>8. /\ x \div LikesPer + a \div LikesPer <= (x + a) \div LikesPer
          /\ x \div LikesPer \in Nat /\ (x + a) \div LikesPer \in Nat
      BY PartsAdd, CommunityAssumption
    <3>9. /\ y \div CommentsPer + b \div CommentsPer <= (y + b) \div CommentsPer
          /\ y \div CommentsPer \in Nat /\ (y + b) \div CommentsPer \in Nat
      BY PartsAdd, CommunityAssumption
    <3>10. h + g <= (x + a) \div LikesPer + (y + b) \div CommentsPer
      BY <2>8, <2>9, <3>6, <3>8, <3>9
    <3>11. QED
      BY <2>2, <3>7, <3>10 DEF PartsCover
  <2>12. QED
    BY <2>10, <2>11
<1>3. QED
  BY <1>2

(* Likes are known apart by their objects.                                 *)
LEMMA LikesAreApart ==
  ASSUME CommunityIsSound, NEW u, NEW days
  PROVE  /\ Cardinality({log[i].object : i \in Done(u, "activity")}) \in Nat
         /\ Cardinality(Recorded(u, "like", days)) \in Nat
         /\ Cardinality(Recorded(u, "like", days)) <= Cardinality({log[i].object : i \in Done(u, "activity")})
<1> DEFINE S == Recorded(u, "like", days)
           I == Done(u, "activity")
           O == {log[i].object : i \in I}
           g == [i \in I |-> log[i].object]
           f == [s \in S |-> log[s.id].object]
<1>1. IsFiniteSet(I)
  <2>1. Len(log) \in Nat
    BY DEF CommunityIsSound, CommunityTypeOK
  <2>2. IsFiniteSet(1 .. Len(log)) /\ I \in SUBSET (1 .. Len(log))
    BY <2>1, FS_Interval, DeedsAreRows
  <2>3. QED
    BY <2>2, FS_Subset
<1>2. IsFiniteSet(O)
  <2>1. g \in [I -> O] /\ \A o \in O : \E i \in I : g[i] = o
    OBVIOUS
  <2>2. g \in Surjection(I, O)
    BY <2>1, Zenon DEF Surjection
  <2>3. QED
    BY <1>1, <2>2, FS_Surjection, Zenon
<1>3. \A s \in S : /\ s.id \in I /\ s \in sources /\ s = Source("like", u, s.id)
                   /\ s.key = <<"like", u, log[s.id].object>>
  <2>1. SUFFICES ASSUME NEW s \in S
                 PROVE  /\ s.id \in I /\ s \in sources /\ s = Source("like", u, s.id)
                        /\ s.key = <<"like", u, log[s.id].object>>
    OBVIOUS
  <2>2. s \in sources /\ IsEarned(s) /\ s.user = u /\ s.kind = "like" /\ s.id \in Earning("like", u)
    BY RecordedEarned
  <2>3. s = Source("like", u, s.id)
    BY <2>2 DEF IsEarned
  <2>4. PICK i : i = s.id
    OBVIOUS
  <2>5. Source("like", u, i).key = <<"like", u, log[i].object>>
    BY DEF Source, SourceKey
  <2>6. QED
    BY <2>2, <2>3, <2>4, <2>5 DEF Earning
<1>4. f \in [S -> O] /\ \A s \in S : f[s] = log[s.id].object
  BY <1>3
<1> HIDE DEF S, f, O, I
<1>5. \A a, b \in S : f[a] = f[b] => a = b
  <2>1. SUFFICES ASSUME NEW a \in S, NEW b \in S, f[a] = f[b] PROVE a = b
    OBVIOUS
  <2>2. a.key = b.key /\ a \in sources /\ b \in sources
    BY <1>3, <1>4, <2>1
  <2>3. QED
    BY <2>2 DEF CommunityIsSound, SourcesAreEarned
<1>6. QED
  BY <1>2, <1>4, <1>5, NotMoreThan DEF S, O, I

(* A member's tickets for taking part.                                     *)
LEMMA ParticipationIsEarned ==
  ASSUME CommunityIsSound, NEW u
  PROVE  Issued(u, "participation", 0 .. MaxDay) <=
           Cardinality({log[i].object : i \in Done(u, "activity")}) \div LikesPer
             + Cardinality(Done(u, "comment")) \div CommentsPer
<1>1. MaxDay \in Nat
  BY CommunityAssumption
<1>2. PICK x \in Nat : x = Cardinality(Recorded(u, "like", 0 .. MaxDay))
  BY LikesAreApart
<1>3. PICK o \in Nat : o = Cardinality({log[i].object : i \in Done(u, "activity")})
  BY LikesAreApart
<1>4. x <= o
  BY <1>2, <1>3, LikesAreApart
<1>5. /\ Cardinality(Recorded(u, "comment", 0 .. MaxDay)) \in Nat /\ Cardinality(Done(u, "comment")) \in Nat
      /\ Cardinality(Recorded(u, "comment", 0 .. MaxDay)) <= Cardinality(Done(u, "comment"))
  <2>1. \A s \in Recorded(u, "comment", 0 .. MaxDay) : s.id \in Done(u, "comment")
    BY RecordedEarned DEF Earning
  <2>2. QED
    BY <2>1, RecordedIs, DeedsAreRows
<1>6. PICK y \in Nat : y = Cardinality(Recorded(u, "comment", 0 .. MaxDay))
  BY <1>5
<1>7. PICK c \in Nat : c = Cardinality(Done(u, "comment"))
  BY <1>5
<1>8. Cardinality(Given(u, "participation", 0 .. MaxDay)) <= x \div LikesPer + y \div CommentsPer
  BY <1>1, <1>2, <1>6, PartsCoverAll DEF PartsCover
<1>9. PICK g \in Nat : g = Cardinality(Given(u, "participation", 0 .. MaxDay))
  <2>1. Given(u, "participation", 0 .. MaxDay) \in SUBSET outbox /\ IsFiniteSet(outbox)
    BY DEF Given, CommunityIsSound, ReceiptsAreCovered
  <2>2. IsFiniteSet(Given(u, "participation", 0 .. MaxDay))
    BY <2>1, FS_Subset
  <2>3. QED
    BY <2>2, FS_CardinalityType
<1>10. x \div LikesPer <= o \div LikesPer /\ x \div LikesPer \in Nat /\ o \div LikesPer \in Nat
  BY <1>4, PartsGrow, CommunityAssumption
<1>11. y \div CommentsPer <= c \div CommentsPer /\ y \div CommentsPer \in Nat /\ c \div CommentsPer \in Nat
  BY <1>5, <1>6, <1>7, PartsGrow, CommunityAssumption
<1>12. g <= o \div LikesPer + c \div CommentsPer
  BY <1>8, <1>9, <1>10, <1>11
<1>13. Issued(u, "participation", 0 .. MaxDay) = g
  BY <1>9 DEF Issued, Given
<1>14. QED
  BY <1>3, <1>7, <1>12, <1>13

(* A member's tickets of one day.                                          *)
LEMMA DaysAreEarned ==
  ASSUME CommunityIsSound, NEW u, NEW d
  PROVE  /\ Issued(u, "received", {d}) <= Cardinality(OnDay(Received(u), d)) \div ReceivedPer
         /\ Issued(u, "checkin", {d}) <= Cardinality(OnDay(Done(u, "checkin"), d))
         /\ \A category \in Categories : Issued(u, category, {d}) <= Cap[category]
<1>1. \A category \in Categories :
        /\ Issued(u, category, {d}) = Cardinality(Given(u, category, {d})) /\ Issued(u, category, {d}) \in Nat
        /\ Due(sources, u, d)[category] \in Nat
        /\ Issued(u, category, {d}) <= Due(sources, u, d)[category]
  <2>1. ASSUME NEW category \in Categories
        PROVE  /\ Issued(u, category, {d}) = Cardinality(Given(u, category, {d})) /\ Issued(u, category, {d}) \in Nat
               /\ Due(sources, u, d)[category] \in Nat
               /\ Issued(u, category, {d}) <= Due(sources, u, d)[category]
    <3>1. Issued(u, category, {d}) = Cardinality(Given(u, category, {d}))
      BY DEF Issued, Given
    <3>2. QED
      BY <3>1, GivenIsDue
  <2>2. QED
    BY <2>1
<1>2. ASSUME NEW category \in Categories PROVE Issued(u, category, {d}) <= Cap[category]
  <2>1. Due(sources, u, d)[category] <= Cap[category] /\ Cap[category] \in Nat
    <3>1. Due(sources, u, d)[category] <= Cap[category]
      BY DueIs
    <3>2. QED
      BY <3>1, CommunityAssumption
  <2>2. QED
    BY <1>1, <2>1
<1>3. Issued(u, "received", {d}) <= Cardinality(OnDay(Received(u), d)) \div ReceivedPer
  <2>1. \A s \in Recorded(u, "received", {d}) : s.id \in OnDay(Received(u), d)
    BY RecordedEarned DEF Earning, OnDay
  <2>2. OnDay(Received(u), d) \subseteq 1 .. Len(log)
    BY DeedsAreRows
  <2>3. /\ Cardinality(Recorded(u, "received", {d})) \in Nat /\ Cardinality(OnDay(Received(u), d)) \in Nat
        /\ Cardinality(Recorded(u, "received", {d})) <= Cardinality(OnDay(Received(u), d))
    BY <2>1, <2>2, RecordedIs
  <2>4. PICK a \in Nat : a = Cardinality(Recorded(u, "received", {d}))
    BY <2>3
  <2>5. PICK b \in Nat : b = Cardinality(OnDay(Received(u), d))
    BY <2>3
  <2>6. a \div ReceivedPer \in Nat /\ b \div ReceivedPer \in Nat /\ a \div ReceivedPer <= b \div ReceivedPer
    BY <2>3, <2>4, <2>5, PartsGrow, CommunityAssumption
  <2>7. Due(sources, u, d)["received"] <= a \div ReceivedPer
    BY <2>4, DueIs
  <2>8. /\ Issued(u, "received", {d}) \in Nat /\ Due(sources, u, d)["received"] \in Nat
        /\ Issued(u, "received", {d}) <= Due(sources, u, d)["received"]
    BY <1>1 DEF Categories
  <2>9. QED
    BY <2>5, <2>6, <2>7, <2>8
<1>4. Issued(u, "checkin", {d}) <= Cardinality(OnDay(Done(u, "checkin"), d))
  <2>1. \A s \in Recorded(u, "checkin", {d}) : s.id \in OnDay(Done(u, "checkin"), d)
    BY RecordedEarned DEF Earning, OnDay
  <2>2. OnDay(Done(u, "checkin"), d) \subseteq 1 .. Len(log)
    BY DeedsAreRows
  <2>3. /\ Cardinality(Recorded(u, "checkin", {d})) \in Nat /\ Cardinality(OnDay(Done(u, "checkin"), d)) \in Nat
        /\ Cardinality(Recorded(u, "checkin", {d})) <= Cardinality(OnDay(Done(u, "checkin"), d))
    BY <2>1, <2>2, RecordedIs
  <2>4. Due(sources, u, d)["checkin"] <= Cardinality(Recorded(u, "checkin", {d}))
    BY DueIs
  <2>5. /\ Issued(u, "checkin", {d}) \in Nat /\ Due(sources, u, d)["checkin"] \in Nat
        /\ Issued(u, "checkin", {d}) <= Due(sources, u, d)["checkin"]
    BY <1>1 DEF Categories
  <2>6. QED
    BY <2>3, <2>4, <2>5
<1>5. QED
  BY <1>2, <1>3, <1>4

(* However replicas, hidings, suspensions and lost answers interleave, no  *)
(* member gets more tickets than deeds after binding earn                  *)
(* (communitytickets/store.go), nor does Pulse mint a receipt twice.       *)
THEOREM TaskTicketsAreAlwaysEarned == CommunitySpec => []TaskTicketsAreEarned
<1>1. CommunityIsSound => TaskTicketsAreEarned
  <2> SUFFICES ASSUME CommunityIsSound PROVE TaskTicketsAreEarned
    OBVIOUS
  <2>1. \A r \in Receipts : lots[r] <= (IF r \in outbox THEN 1 ELSE 0)
    BY DEF CommunityIsSound, MintedOnce
  <2>2. QED
    BY <2>1, ParticipationIsEarned, DaysAreEarned DEF TaskTicketsAreEarned
<1>2. QED
  BY <1>1, CommunityIsAlwaysSound, PTL

=============================================================================
