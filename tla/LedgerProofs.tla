---------------------------- MODULE LedgerProofs ----------------------------
(***************************************************************************)
(* Theorems about the ledger of tickets and contributions and the account  *)
(* rows beside it, for any accounts, commands, adjustments and workers.    *)
(*                                                                         *)
(* The invariant says of every account which entry made its row: the row   *)
(* is the balance of the last entry and carries as many versions as there  *)
(* are entries, or the row is known to be wrong and was changed behind the *)
(* ledger.  What an audit, a close and an answered command claim about the *)
(* ledger as it was is then a fact about a prefix of it, and a prefix of a *)
(* ledger that only grows stays.                                           *)
(***************************************************************************)
EXTENDS TicketLedger, FiniteSetTheorems, WellFoundedInduction, TLAPS

(* The order of the natural numbers, as a relation.                        *)
Smaller == {p \in Nat \X Nat : p[1] < p[2]}

(* A set of natural numbers that is not empty has a smallest element.      *)
LEMMA LowestNumber ==
  ASSUME NEW S \in SUBSET Nat, S # {}
  PROVE  \E m \in S : \A n \in S : m <= n
<1>1. IsWellFoundedOn(Smaller, Nat)
  BY NatLessThanWellFounded DEF OpToRel, Smaller
<1>2. PICK m \in S : \A n \in S : ~ (<<n, m>> \in Smaller)
  BY <1>1, WFMin
<1>3. ASSUME NEW n \in S PROVE m <= n
  <2>1. n \in Nat /\ m \in Nat
    OBVIOUS
  <2>2. <<n, m>> \in Nat \X Nat /\ <<n, m>>[1] = n /\ <<n, m>>[2] = m
    BY <2>1
  <2>3. ~ (n < m)
    BY <1>2, <2>2 DEF Smaller
  <2>4. QED
    BY <2>1, <2>3
<1>4. QED
  BY <1>3

(* A set of natural numbers below a bound that is not empty has a largest  *)
(* element.                                                                *)
LEMMA HighestNumber ==
  ASSUME NEW B \in Nat, NEW S \in SUBSET (0 .. B), S # {}
  PROVE  \E m \in S : \A n \in S : n <= m
<1> DEFINE D == {B - n : n \in S}
<1>1. D \in SUBSET Nat /\ D # {}
  <2>1. \A n \in S : n \in Int /\ 0 <= n /\ n <= B
    OBVIOUS
  <2>2. \A n \in S : B - n \in Nat
    BY <2>1
  <2>3. QED
    BY <2>2
<1>2. PICK d \in D : \A e \in D : d <= e
  BY <1>1, LowestNumber
<1>3. PICK m \in S : d = B - m
  OBVIOUS
<1>4. ASSUME NEW n \in S PROVE n <= m
  <2>1. B - m <= B - n
    BY <1>2, <1>3
  <2>2. QED
    BY <2>1
<1>5. QED
  BY <1>4

-----------------------------------------------------------------------------
(* Periods.                                                                *)
-----------------------------------------------------------------------------
(* The ledger: the inductive invariant.                                    *)

Span       == -Limit - 1 .. Limit
Operations == {c.op : c \in Appends} \cup Reserved
EntryKeys  == {c.key : c \in Appends} \cup Requests \cup Accounts
EntryRow   == [op : Operations, key : EntryKeys, acct : Accounts, amt : Int, after : Span]
AccountRow == [bal : Span, ver : Nat]
AccountTable == [Accounts -> {Missing} \cup AccountRow]
AppendJob  == [kind : {"append"}, cmd : Appends]
ListedJob  == [kind : {"listed"}, period : Periods]
CloseJob   == [kind : {"close"}, period : Periods, rows : AccountTable, seen : Nat]
CheckJob   == [kind : {"check"}, rows : AccountTable, seen : Nat, dirty : SUBSET Accounts]
Told       == [op : Operations, key : EntryKeys, hash : Accounts \X Int, id : Nat]

LedgerTyped ==
  /\ entries \in Seq(EntryRow) /\ account \in AccountTable
  /\ adjusted \in [Requests -> {None} \cup [cmd : Adjustments, id : Nat]]
  /\ audit \in [Requests -> Nat]
  /\ period \in [Periods -> {"active", "settling", "closed"}]
  /\ closing \in [Periods -> Nat]
  /\ job \in [Workers -> {Idle} \cup AppendJob \cup ListedJob \cup CloseJob \cup CheckJob]
  /\ answers \subseteq Told
  /\ dirty \subseteq Accounts

(* A row that nobody changed is what its entries make it; a row that was   *)
(* changed is not, and has more than they add up to.                       *)
InStep(es, n, a, row) ==
  IF row = Missing THEN ListAccountEntries(es, n, a) = {} ELSE Rebuild(es, n, a) = row
OutOfStep(es, n, a, row) ==
  row # Missing /\ (Replays(es, n, a) => Balance(es, n, a) < row.bal)
Follows(es, n, a, row, wrong) ==
  IF a \in wrong THEN OutOfStep(es, n, a, row) ELSE InStep(es, n, a, row)

AccountsFollow == \A a \in Accounts : Follows(entries, Len(entries), a, account[a], dirty)

(* What a transaction has read was so at its snapshot, and a period that   *)
(* is being closed is locked.                                              *)
ReadBefore(w) == job[w].kind \in {"close", "check"} => job[w].seen <= Len(entries)
CheckedAt(w) ==
  job[w].kind = "check" =>
    \A a \in Accounts : Follows(entries, job[w].seen, a, job[w].rows[a], job[w].dirty)
ClosedAt(w) ==
  job[w].kind = "close" =>
    \A a \in Accounts : PeriodOf(a) = job[w].period => InStep(entries, job[w].seen, a, job[w].rows[a])
ClosesAlone(w) ==
  job[w].kind = "close" =>
    /\ period[job[w].period] # "closed"
    /\ \A v \in Workers : job[v].kind = "close" /\ job[v].period = job[w].period => v = w
JobsAreSound == \A w \in Workers : ReadBefore(w) /\ CheckedAt(w) /\ ClosedAt(w) /\ ClosesAlone(w)

(* A key stands for one entry.                                             *)
KeysAreUnique ==
  \A i, j \in 1 .. Len(entries) :
    entries[i].op = entries[j].op /\ entries[i].key = entries[j].key => i = j

(* An adjustment stands where its request says, and an expiry belongs to a *)
(* closed period.                                                          *)
IsAdjustment(e) == e.op \in {"ticket_adjustment", "contribution_adjustment"}
AdjustmentsRecorded ==
  /\ \A i \in 1 .. Len(entries) : IsAdjustment(entries[i]) =>
       entries[i].key \in Requests /\ adjusted[entries[i].key] # None /\ adjusted[entries[i].key].id = i
  /\ \A r \in Requests : adjusted[r] # None =>
       LET c == adjusted[r].cmd
           i == adjusted[r].id
       IN /\ c.request = r /\ i \in 1 .. Len(entries)
          /\ entries[i] = Entry(AdjustmentEntry(c), entries[i].after)
  /\ \A r \in Requests : audit[r] = IF adjusted[r] = None THEN 0 ELSE 1
ExpiriesAreLate ==
  /\ \A i \in 1 .. Len(entries) : entries[i].op = "ticket_expire" =>
       entries[i].key = entries[i].acct /\ period[PeriodOf(entries[i].acct)] = "closed"
  /\ \A p \in Periods : closing[p] <= Len(entries)

ToldTheTruth ==
  \A x \in answers : /\ x.id \in 1 .. Len(entries)
                     /\ entries[x.id].op = x.op /\ entries[x.id].key = x.key
                     /\ Hash(entries[x.id]) = x.hash

LedgerIsSound ==
  /\ LedgerTyped /\ AccountsFollow /\ JobsAreSound
  /\ KeysAreUnique /\ AdjustmentsRecorded /\ ExpiriesAreLate /\ ToldTheTruth
  /\ CloseExpiresWhatItSaw /\ report.found = report.saw

-----------------------------------------------------------------------------
(* The entries of one account, in a ledger that only grows.                *)

(* A ledger has grown beyond its first n entries; nothing of account a was *)
(* booked behind position n and before k.                                  *)
SamePrefix(es, es2, n) == \A i \in 1 .. n : es2[i] = es[i]
Silent(es, n, k, a)    == \A i \in (n + 1) .. (k - 1) : es[i].acct # a

(* The greatest of finitely many positions is one of them.                 *)
LEMMA GreatestPosition ==
  ASSUME NEW n \in Nat, NEW S \in SUBSET (1 .. n), S # {}
  PROVE  Max(S) \in S /\ \A l \in S : l <= Max(S)
<1>1. S \in SUBSET (0 .. n)
  OBVIOUS
<1>2. PICK m \in S : \A l \in S : l <= m
  BY <1>1, HighestNumber
<1>3. m \in S /\ \A l \in S : m >= l
  <2>1. \A l \in S : l \in Int
    BY <1>1
  <2>2. QED
    BY <1>2, <2>1
<1>4. Max(S) \in S /\ \A l \in S : Max(S) >= l
  BY <1>3 DEF Max
<1>5. \A l \in S : l \in Int
  BY <1>1
<1>6. QED
  BY <1>4, <1>5

(* A position behind all others is the greatest.                           *)
LEMMA GreatestIsNew ==
  ASSUME NEW n \in Nat, NEW S \in SUBSET (1 .. n), NEW k \in Nat, n < k
  PROVE  Max(S \cup {k}) = k
<1>1. PICK T : T = S \cup {k}
  OBVIOUS
<1>2. T \in SUBSET (1 .. k) /\ T # {} /\ k \in T
  BY <1>1
<1>3. Max(T) \in T /\ \A l \in T : l <= Max(T)
  BY <1>2, GreatestPosition
<1>4. Max(T) \in 1 .. k /\ k <= Max(T)
  BY <1>2, <1>3
<1>5. QED
  BY <1>1, <1>4

(* What the first entries say does not depend on later ones.               *)
LEMMA PrefixStays ==
  ASSUME NEW es, NEW es2, NEW n \in Nat, SamePrefix(es, es2, n), NEW a
  PROVE  /\ ListAccountEntries(es2, n, a) = ListAccountEntries(es, n, a)
         /\ Balance(es2, n, a) = Balance(es, n, a)
         /\ Replays(es2, n, a) = Replays(es, n, a)
         /\ Rebuild(es2, n, a) = Rebuild(es, n, a)
<1>1. ASSUME NEW m \in Int, m <= n
      PROVE  /\ ListAccountEntries(es2, m, a) = ListAccountEntries(es, m, a)
             /\ Balance(es2, m, a) = Balance(es, m, a)
  <2>1. \A i \in 1 .. m : es2[i] = es[i]
    BY <1>1 DEF SamePrefix
  <2>2. ListAccountEntries(es2, m, a) = ListAccountEntries(es, m, a)
    BY <2>1 DEF ListAccountEntries
  <2>3. CASE ListAccountEntries(es, m, a) = {}
    BY <2>2, <2>3 DEF Balance
  <2>4. CASE ListAccountEntries(es, m, a) # {}
    <3>1. m \in Nat /\ ListAccountEntries(es, m, a) \in SUBSET (1 .. m)
      <4>1. PICK i \in 1 .. m : TRUE
        BY <2>4 DEF ListAccountEntries
      <4>2. QED
        BY <1>1, <4>1 DEF ListAccountEntries
    <3>2. Max(ListAccountEntries(es, m, a)) \in 1 .. m
      BY <2>4, <3>1, GreatestPosition
    <3>3. QED
      BY <2>1, <2>2, <2>4, <3>2 DEF Balance
  <2>5. QED
    BY <2>2, <2>3, <2>4
<1>2. Replays(es2, n, a) = Replays(es, n, a)
  <2>1. ASSUME NEW i \in ListAccountEntries(es, n, a)
        PROVE  es2[i] = es[i] /\ Balance(es2, i - 1, a) = Balance(es, i - 1, a)
    <3>1. i \in 1 .. n
      BY DEF ListAccountEntries
    <3>2. i - 1 \in Int /\ i - 1 <= n
      BY <3>1
    <3>3. QED
      BY <1>1, <3>1, <3>2 DEF SamePrefix
  <2>2. ListAccountEntries(es2, n, a) = ListAccountEntries(es, n, a)
    BY <1>1
  <2>3. QED
    BY <2>1, <2>2, Zenon DEF Replays
<1>3. QED
  BY <1>1, <1>2 DEF Rebuild

(* So what a snapshot shows stays so.                                      *)
LEMMA SnapshotStays ==
  ASSUME NEW es, NEW es2, NEW n \in Nat, SamePrefix(es, es2, n), NEW a, NEW row
  PROVE  /\ InStep(es, n, a, row) => InStep(es2, n, a, row)
         /\ \A D : Follows(es, n, a, row, D) => Follows(es2, n, a, row, D)
<1>1. /\ ListAccountEntries(es2, n, a) = ListAccountEntries(es, n, a)
      /\ Balance(es2, n, a) = Balance(es, n, a)
      /\ Replays(es2, n, a) = Replays(es, n, a)
      /\ Rebuild(es2, n, a) = Rebuild(es, n, a)
  BY PrefixStays
<1>2. InStep(es2, n, a, row) = InStep(es, n, a, row)
  BY <1>1 DEF InStep
<1>3. OutOfStep(es2, n, a, row) = OutOfStep(es, n, a, row)
  BY <1>1 DEF OutOfStep
<1>4. QED
  BY <1>2, <1>3 DEF Follows

(* Entries of other accounts do not matter either.                         *)
LEMMA OthersDoNotMatter ==
  ASSUME NEW es, NEW n \in Nat, NEW k \in Nat, n <= k, NEW a, Silent(es, n, k + 1, a)
  PROVE  /\ ListAccountEntries(es, k, a) = ListAccountEntries(es, n, a)
         /\ Balance(es, k, a) = Balance(es, n, a)
         /\ Replays(es, k, a) = Replays(es, n, a)
         /\ Rebuild(es, k, a) = Rebuild(es, n, a)
<1>1. ListAccountEntries(es, k, a) = ListAccountEntries(es, n, a)
  <2>1. \A i \in 1 .. k : i \in 1 .. n \/ i \in (n + 1) .. (k + 1 - 1)
    OBVIOUS
  <2>2. \A i \in 1 .. n : i \in 1 .. k
    OBVIOUS
  <2>3. QED
    BY <2>1, <2>2 DEF ListAccountEntries, Silent
<1>2. QED
  BY <1>1 DEF Balance, Replays, Rebuild

(* One more entry is replayed on top of those before.                      *)
LEMMA OneMoreEntry ==
  ASSUME NEW es, NEW n \in Nat, NEW k \in Nat, n < k, NEW a, es[k].acct = a,
         Silent(es, n, k, a)
  PROVE  /\ Cardinality(ListAccountEntries(es, k, a)) = Cardinality(ListAccountEntries(es, n, a)) + 1
         /\ Cardinality(ListAccountEntries(es, n, a)) \in Nat
         /\ Balance(es, k, a) = es[k].after
         /\ Replays(es, k, a) <=>
              (Replays(es, n, a) /\ InRange(es[k].after) /\ es[k].after = Balance(es, n, a) + es[k].amt)
<1> DEFINE Old == ListAccountEntries(es, n, a)
           New == ListAccountEntries(es, k, a)
<1>1. New = Old \cup {k}
  <2>1. \A i \in 1 .. k : i \in 1 .. n \/ i \in (n + 1) .. (k - 1) \/ i = k
    OBVIOUS
  <2>2. k \in 1 .. k /\ \A i \in 1 .. n : i \in 1 .. k
    OBVIOUS
  <2>3. QED
    BY <2>1, <2>2 DEF ListAccountEntries, Silent
<1>2. Old \in SUBSET (1 .. n) /\ k \notin Old
  <2>1. k \notin 1 .. n
    OBVIOUS
  <2>2. QED
    BY <2>1 DEF ListAccountEntries
<1>3. IsFiniteSet(Old) /\ Cardinality(Old) \in Nat
  <2>1. IsFiniteSet(1 .. n)
    BY FS_Interval
  <2>2. QED
    BY <1>2, <2>1, FS_Subset, FS_CardinalityType
<1>4. Cardinality(New) = Cardinality(Old) + 1
  BY <1>1, <1>2, <1>3, FS_AddElement
<1>5. Max(New) = k
  BY <1>1, <1>2, GreatestIsNew
<1>6. Balance(es, k, a) = es[k].after
  BY <1>1, <1>5 DEF Balance
<1>7. Balance(es, k - 1, a) = Balance(es, n, a)
  <2>1. k - 1 \in Nat /\ n <= k - 1 /\ k - 1 + 1 = k
    OBVIOUS
  <2>2. QED
    BY <2>1, OthersDoNotMatter
<1>8. Replays(es, k, a) <=>
        (Replays(es, n, a) /\ InRange(es[k].after) /\ es[k].after = Balance(es, n, a) + es[k].amt)
  BY <1>1, <1>7, Zenon DEF Replays
<1>9. QED
  BY <1>1, <1>3, <1>4, <1>6, <1>8

(* A row that is missing, or broken, can be told from every other.         *)
LEMMA RowsDiffer ==
  ASSUME NEW x \in AccountRow
  PROVE  x # Missing /\ x # Broken
<1>1. x.ver \in Nat
  BY DEF AccountRow
<1>2. Missing.ver = -1 /\ Broken.ver = -2
  BY DEF Missing, Broken
<1>3. QED
  BY <1>1, <1>2

(* An entry written on top of the row, and the row that moved with it,     *)
(* keep each other company: a good row stays good, a bad one stays bad.    *)
LEMMA PostedFollows ==
  ASSUME NEW es, NEW n \in Nat, NEW k \in Nat, n < k, NEW a, es[k].acct = a,
         Silent(es, n, k, a),
         \A i \in 1 .. k : es[i].after \in Int,
         NEW row \in {Missing} \cup AccountRow, NEW base \in AccountRow, NEW D,
         base = (IF row = Missing THEN Fresh ELSE row),
         NEW amt \in Int, es[k].amt = amt, es[k].after = base.bal + amt, InRange(es[k].after),
         Follows(es, n, a, row, D)
  PROVE  Follows(es, k, a, [bal |-> base.bal + amt, ver |-> base.ver + 1], D)
<1>1. /\ Cardinality(ListAccountEntries(es, k, a)) = Cardinality(ListAccountEntries(es, n, a)) + 1
      /\ Cardinality(ListAccountEntries(es, n, a)) \in Nat
      /\ Balance(es, k, a) = es[k].after
      /\ Replays(es, k, a) <=>
           (Replays(es, n, a) /\ InRange(es[k].after) /\ es[k].after = Balance(es, n, a) + es[k].amt)
  BY OneMoreEntry
<1>2. PICK new : new = [bal |-> base.bal + amt, ver |-> base.ver + 1]
  OBVIOUS
<1>3. base.bal \in Int /\ base.ver \in Nat
  BY LedgerAssumption DEF AccountRow, Span
<1>4. new # Missing
  <2>1. new.ver = base.ver + 1 /\ new.ver \in Nat
    BY <1>2, <1>3
  <2>2. Missing.ver = -1
    BY DEF Missing
  <2>3. QED
    BY <2>1, <2>2
<1>5. Balance(es, n, a) \in Int
  <2>1. CASE ListAccountEntries(es, n, a) = {}
    BY <2>1 DEF Balance
  <2>2. CASE ListAccountEntries(es, n, a) # {}
    <3>1. ListAccountEntries(es, n, a) \in SUBSET (1 .. n)
      BY DEF ListAccountEntries
    <3>2. Max(ListAccountEntries(es, n, a)) \in 1 .. n
      BY <2>2, <3>1, GreatestPosition
    <3>3. Max(ListAccountEntries(es, n, a)) \in 1 .. k
      BY <3>2
    <3>4. QED
      BY <2>2, <3>3 DEF Balance
  <2>3. QED
    BY <2>1, <2>2
<1>6. CASE a \in D
  <2>1. row # Missing /\ (Replays(es, n, a) => Balance(es, n, a) < row.bal)
    BY <1>6 DEF Follows, OutOfStep
  <2>2. ~Replays(es, k, a)
    <3>1. SUFFICES ASSUME Replays(es, n, a), es[k].after = Balance(es, n, a) + amt PROVE FALSE
      BY <1>1
    <3>2. Balance(es, n, a) = base.bal
      BY <1>3, <1>5, <3>1
    <3>3. QED
      BY <1>3, <2>1, <3>1, <3>2
  <2>3. QED
    BY <1>2, <1>4, <1>6, <2>2 DEF Follows, OutOfStep
<1>7. CASE a \notin D
  <2>1. InStep(es, n, a, row)
    BY <1>7 DEF Follows
  <2>2. Replays(es, n, a) /\ Balance(es, n, a) = base.bal
        /\ Cardinality(ListAccountEntries(es, n, a)) = base.ver
    <3>1. CASE row = Missing
      <4>1. ListAccountEntries(es, n, a) = {} /\ base.bal = 0 /\ base.ver = 0
        BY <2>1, <3>1 DEF InStep, Fresh
      <4>2. Replays(es, n, a)
        BY <4>1 DEF Replays
      <4>3. QED
        BY <4>1, <4>2, FS_EmptySet DEF Balance
    <3>2. CASE row # Missing
      <4>1. Rebuild(es, n, a) = base /\ base # Broken
        BY <2>1, <3>2, RowsDiffer DEF InStep
      <4>2. Replays(es, n, a)
        BY <4>1 DEF Rebuild
      <4>3. base = [bal |-> Balance(es, n, a), ver |-> Cardinality(ListAccountEntries(es, n, a))]
        BY <4>1, <4>2 DEF Rebuild
      <4>4. QED
        BY <4>2, <4>3
    <3>3. QED
      BY <3>1, <3>2
  <2>3. Replays(es, k, a)
    BY <1>1, <2>2
  <2>4. Rebuild(es, k, a) = new
    BY <1>1, <1>2, <2>2, <2>3 DEF Rebuild
  <2>5. QED
    BY <1>2, <1>4, <1>7, <2>4 DEF Follows, InStep
<1>8. QED
  BY <1>6, <1>7

(* An account with no new entry and the same row follows as before.        *)
LEMMA UndisturbedFollows ==
  ASSUME NEW es, NEW n \in Nat, NEW k \in Nat, n <= k, NEW a, Silent(es, n, k + 1, a),
         NEW row, NEW D, Follows(es, n, a, row, D)
  PROVE  Follows(es, k, a, row, D)
<1>1. ListAccountEntries(es, k, a) = ListAccountEntries(es, n, a)
  BY OthersDoNotMatter
<1>2. Balance(es, k, a) = Balance(es, n, a) /\ Rebuild(es, k, a) = Rebuild(es, n, a)
  BY OthersDoNotMatter
<1>3. Replays(es, k, a) = Replays(es, n, a)
  BY OthersDoNotMatter
<1>4. QED
  BY <1>1, <1>2, <1>3 DEF Follows, InStep, OutOfStep

-----------------------------------------------------------------------------
(* Growth of the ledger, and what it leaves alone.                         *)

LedgerGrows ==
  /\ Len(entries) \in Nat /\ Len(entries') \in Nat /\ Len(entries) <= Len(entries')
  /\ SamePrefix(entries, entries', Len(entries))

(* What the transactions hold.                                             *)
LEMMA JobKinds ==
  ASSUME LedgerTyped, NEW w \in Workers
  PROVE  /\ job[w] # Idle <=> job[w].kind # "idle"
         /\ job[w].kind = "append" => job[w].cmd \in Appends
         /\ job[w].kind \in {"listed", "close"} => job[w].period \in Periods
         /\ job[w].kind \in {"close", "check"} => job[w].rows \in AccountTable /\ job[w].seen \in Nat
         /\ job[w].kind = "check" => job[w].dirty \subseteq Accounts
<1>1. job[w] \in {Idle} \cup AppendJob \cup ListedJob \cup CloseJob \cup CheckJob
  BY DEF LedgerTyped
<1>2. CASE job[w] = Idle
  BY <1>2 DEF Idle
<1>3. CASE job[w] \in AppendJob
  BY <1>3 DEF Idle, AppendJob
<1>4. CASE job[w] \in ListedJob
  BY <1>4 DEF Idle, ListedJob
<1>5. CASE job[w] \in CloseJob
  BY <1>5 DEF Idle, CloseJob
<1>6. CASE job[w] \in CheckJob
  BY <1>6 DEF Idle, CheckJob
<1>7. QED
  BY <1>1, <1>2, <1>3, <1>4, <1>5, <1>6

(* Transactions that stay open keep what they know.                        *)
LEMMA JobsKept ==
  ASSUME LedgerTyped, JobsAreSound, LedgerGrows,
         \A v \in Workers : job'[v] = job[v] \/ job'[v].kind \notin {"close", "check"},
         \A v \in Workers : job'[v].kind = "close" => period'[job[v].period] # "closed"
  PROVE  JobsAreSound'
<1> SUFFICES ASSUME NEW w \in Workers
             PROVE  ReadBefore(w)' /\ CheckedAt(w)' /\ ClosedAt(w)' /\ ClosesAlone(w)'
  BY DEF JobsAreSound
<1>1. CASE job'[w].kind \notin {"close", "check"}
  BY <1>1 DEF ReadBefore, CheckedAt, ClosedAt, ClosesAlone
<1>2. CASE job'[w].kind \in {"close", "check"}
  <2>1. job'[w] = job[w] /\ job[w].kind \in {"close", "check"}
    BY <1>2
  <2>2. ReadBefore(w) /\ CheckedAt(w) /\ ClosedAt(w) /\ ClosesAlone(w)
    BY DEF JobsAreSound
  <2>3. job[w].seen \in Nat /\ job[w].seen <= Len(entries)
    BY <2>1, <2>2, JobKinds DEF ReadBefore
  <2>4. SamePrefix(entries, entries', job[w].seen)
    BY <2>3 DEF LedgerGrows, SamePrefix
  <2>5. ReadBefore(w)'
    BY <2>1, <2>3 DEF ReadBefore, LedgerGrows
  <2>6. ASSUME NEW a, NEW row
        PROVE  /\ InStep(entries, job[w].seen, a, row) => InStep(entries', job[w].seen, a, row)
               /\ \A D : Follows(entries, job[w].seen, a, row, D)
                         => Follows(entries', job[w].seen, a, row, D)
    BY <2>3, <2>4, SnapshotStays
  <2>7. CheckedAt(w)'
    BY <2>1, <2>2, <2>6 DEF CheckedAt
  <2>8. ClosedAt(w)'
    BY <2>1, <2>2, <2>6 DEF ClosedAt
  <2>9. ClosesAlone(w)'
    BY <2>1, <2>2 DEF ClosesAlone
  <2>10. QED
    BY <2>5, <2>7, <2>8, <2>9
<1>3. QED
  BY <1>1, <1>2

(* The lengths, rows and entries that the tables have.                     *)
LEMMA LedgerFacts ==
  ASSUME LedgerTyped
  PROVE  /\ Len(entries) \in Nat
         /\ \A i \in 1 .. Len(entries) :
              /\ entries[i] \in EntryRow /\ entries[i].acct \in Accounts
              /\ entries[i].after \in Int /\ InRange(entries[i].after)
         /\ \A a \in Accounts : account[a] \in {Missing} \cup AccountRow /\ Row(a) \in AccountRow
<1>1. Limit \in Nat
  BY LedgerAssumption
<1>2. Len(entries) \in Nat
  BY DEF LedgerTyped
<1>3. ASSUME NEW i \in 1 .. Len(entries)
      PROVE  /\ entries[i] \in EntryRow /\ entries[i].acct \in Accounts
             /\ entries[i].after \in Int /\ InRange(entries[i].after)
  <2>1. entries[i] \in EntryRow
    BY DEF LedgerTyped
  <2>2. QED
    BY <1>1, <2>1 DEF EntryRow, Span, InRange
<1>4. ASSUME NEW a \in Accounts
      PROVE  account[a] \in {Missing} \cup AccountRow /\ Row(a) \in AccountRow
  <2>1. account[a] \in {Missing} \cup AccountRow
    BY DEF LedgerTyped, AccountTable
  <2>2. Fresh \in AccountRow
    BY <1>1 DEF Fresh, AccountRow, Span
  <2>3. QED
    BY <2>1, <2>2 DEF Row
<1>5. QED
  BY <1>2, <1>3, <1>4

(* A step that books nothing lets the ledger grow by nothing.              *)
LEMMA NothingBooked ==
  ASSUME LedgerTyped, UNCHANGED entries
  PROVE  LedgerGrows
  BY LedgerFacts DEF LedgerGrows, SamePrefix

(* A balance that was recorded is in range, and nothing is.                *)
LEMMA BalanceIsWhole ==
  ASSUME LedgerTyped, NEW a
  PROVE  /\ Balance(entries, Len(entries), a) \in Int
         /\ Balance(entries, Len(entries), a) \in Span
<1>1. Limit \in Nat /\ Len(entries) \in Nat
  BY LedgerAssumption, LedgerFacts
<1>2. Balance(entries, Len(entries), a) \in Span
  <2>1. CASE ListAccountEntries(entries, Len(entries), a) = {}
    BY <1>1, <2>1 DEF Balance, Span
  <2>2. CASE ListAccountEntries(entries, Len(entries), a) # {}
    <3>1. ListAccountEntries(entries, Len(entries), a) \in SUBSET (1 .. Len(entries))
      BY DEF ListAccountEntries
    <3>2. PICK m : m = Max(ListAccountEntries(entries, Len(entries), a))
      OBVIOUS
    <3>3. m \in 1 .. Len(entries)
      BY <1>1, <2>2, <3>1, <3>2, GreatestPosition
    <3>4. entries[m].after \in Span
      BY <3>3, LedgerFacts DEF EntryRow
    <3>5. QED
      BY <2>2, <3>2, <3>4 DEF Balance
  <2>3. QED
    BY <2>1, <2>2
<1>3. QED
  BY <1>1, <1>2 DEF Span

(* Both writes of an entry: the account follows its ledger as before.      *)
LEMMA WriteStep ==
  ASSUME LedgerTyped, AccountsFollow, UNCHANGED dirty,
         NEW c, c.op \in Operations, c.key \in EntryKeys, c.acct \in Accounts, c.amt \in Int,
         NEW w, Applies(Row(c.acct), c.amt), Write(c, NextRow(c, w))
  PROVE  /\ entries' \in Seq(EntryRow) /\ account' \in AccountTable
         /\ LedgerGrows /\ Len(entries') = Len(entries) + 1
         /\ entries'[Len(entries) + 1] = Entry(c, Row(c.acct).bal + c.amt)
         /\ AccountsFollow'
<1>1. PICK base : base = Row(c.acct)
  OBVIOUS
<1>2. PICK k : k = Len(entries) + 1
  OBVIOUS
<1>3. base \in AccountRow /\ base.bal \in Int /\ base.ver \in Nat /\ InRange(base.bal + c.amt)
  BY <1>1, LedgerFacts, LedgerAssumption DEF Applies, AccountRow, Span
<1>4. PICK e : e = Entry(c, base.bal + c.amt)
  OBVIOUS
<1>5. base.bal + c.amt \in Span
  BY <1>3, LedgerAssumption DEF InRange, Span
<1>6. e \in EntryRow
  BY <1>4, <1>5 DEF Entry, EntryRow
<1>7. PICK new : new = [bal |-> base.bal + c.amt, ver |-> base.ver + 1]
  OBVIOUS
<1>8. new \in AccountRow
  BY <1>3, <1>5, <1>7 DEF AccountRow
<1>9. NextRow(c, w) = new /\ new.bal = base.bal + c.amt
  BY <1>1, <1>7 DEF NextRow, Apply
<1>10. entries' = Append(entries, e) /\ account' = [account EXCEPT ![c.acct] = new]
  BY <1>4, <1>9 DEF Write
<1>11. Len(entries) \in Nat /\ entries \in Seq(EntryRow)
  BY LedgerFacts DEF LedgerTyped
<1>12. /\ entries' \in Seq(EntryRow) /\ Len(entries') = k
       /\ entries'[k] = e /\ \A i \in 1 .. Len(entries) : entries'[i] = entries[i]
  BY <1>2, <1>6, <1>10, <1>11
<1>13. account' \in AccountTable
  BY <1>8, <1>10 DEF LedgerTyped, AccountTable
<1>14. LedgerGrows /\ k \in Nat /\ Len(entries) < k
  BY <1>2, <1>11, <1>12 DEF LedgerGrows, SamePrefix
<1>15. AccountsFollow'
  <2> SUFFICES ASSUME NEW a \in Accounts PROVE Follows(entries', k, a, account'[a], dirty)
    BY <1>12 DEF AccountsFollow
  <2>1. Follows(entries, Len(entries), a, account[a], dirty)
    BY DEF AccountsFollow
  <2>2. Follows(entries', Len(entries), a, account[a], dirty)
    <3>1. SamePrefix(entries, entries', Len(entries))
      BY <1>14 DEF LedgerGrows
    <3>2. QED
      BY <1>11, <2>1, <3>1, SnapshotStays
  <2>3. CASE a = c.acct
    <3>1. account'[a] = new
      BY <1>10, <2>3 DEF LedgerTyped, AccountTable
    <3>2. entries'[k].acct = a /\ entries'[k].amt = c.amt /\ entries'[k].after = base.bal + c.amt
      BY <1>4, <1>12, <2>3 DEF Entry
    <3>3. Silent(entries', Len(entries), k, a)
      BY <1>2, <1>11 DEF Silent
    <3>4. \A i \in 1 .. k : entries'[i].after \in Int
      <4>1. \A i \in 1 .. k : i \in 1 .. Len(entries) \/ i = k
        BY <1>2, <1>11
      <4>2. base.bal + c.amt \in Int
        BY <1>3
      <4>3. QED
        BY <1>12, <3>2, <4>1, <4>2, LedgerFacts
    <3>5. base = (IF account[a] = Missing THEN Fresh ELSE account[a])
      BY <1>1, <2>3 DEF Row
    <3>6. account[a] \in {Missing} \cup AccountRow
      BY LedgerFacts
    <3>7. InRange(entries'[k].after)
      BY <1>3, <3>2
    <3>8. Follows(entries', k, a, [bal |-> base.bal + c.amt, ver |-> base.ver + 1], dirty)
      BY <1>3, <1>11, <1>14, <2>2, <3>2, <3>3, <3>4, <3>5, <3>6, <3>7, PostedFollows
    <3>9. QED
      BY <1>7, <3>1, <3>8
  <2>4. CASE a # c.acct
    <3>1. account'[a] = account[a]
      BY <1>10, <2>4 DEF LedgerTyped, AccountTable
    <3>2. entries'[k].acct # a
      BY <1>4, <1>12, <2>4 DEF Entry
    <3>3. Silent(entries', Len(entries), k + 1, a)
      BY <1>2, <1>11, <3>2 DEF Silent
    <3>4. QED
      BY <1>11, <1>14, <2>2, <3>1, <3>3, UndisturbedFollows
  <2>5. QED
    BY <2>3, <2>4
<1>16. QED
  BY <1>1, <1>2, <1>4, <1>12, <1>13, <1>14, <1>15

(* While periods stay as they are and no expiry is booked, what closes     *)
(* took stays what it was.                                                 *)
LEMMA ExpiriesKept ==
  ASSUME LedgerTyped, LedgerGrows, ExpiriesAreLate, CloseExpiresWhatItSaw,
         UNCHANGED <<period, closing>>,
         \A i \in 1 .. Len(entries') : i \in 1 .. Len(entries) \/ entries'[i].op # "ticket_expire"
  PROVE  ExpiriesAreLate' /\ CloseExpiresWhatItSaw'
<1>1. /\ Len(entries) \in Nat /\ Len(entries') \in Nat /\ Len(entries) <= Len(entries')
      /\ \A i \in 1 .. Len(entries) : entries'[i] = entries[i]
  BY DEF LedgerGrows, SamePrefix
<1>2. \A i \in 1 .. Len(entries) : i \in 1 .. Len(entries')
  BY <1>1
<1>3. ExpiriesAreLate'
  <2>1. \A i \in 1 .. Len(entries') : entries'[i].op = "ticket_expire" =>
          i \in 1 .. Len(entries) /\ entries'[i] = entries[i]
    BY <1>1
  <2>2. \A p \in Periods : closing[p] \in Nat
    BY DEF LedgerTyped
  <2>3. \A p \in Periods : closing'[p] <= Len(entries')
    BY <1>1, <2>2 DEF ExpiriesAreLate
  <2>4. QED
    BY <2>1, <2>3 DEF ExpiriesAreLate
<1>4. ASSUME NEW a \in Accounts
      PROVE  /\ Expiries(a)' = Expiries(a)
             /\ Balance(entries', closing[PeriodOf(a)], a) = Balance(entries, closing[PeriodOf(a)], a)
  <2>1. Expiries(a)' = Expiries(a)
    BY <1>1, <1>2 DEF Expiries, ListAccountEntries
  <2>2. PeriodOf(a) \in Periods
    BY DEF Periods
  <2>3. closing[PeriodOf(a)] \in Nat /\ closing[PeriodOf(a)] <= Len(entries)
    BY <2>2 DEF LedgerTyped, ExpiriesAreLate
  <2>4. SamePrefix(entries, entries', closing[PeriodOf(a)])
    BY <1>1, <2>3 DEF SamePrefix
  <2>5. QED
    BY <2>1, <2>3, <2>4, PrefixStays
<1>5. CloseExpiresWhatItSaw'
  <2> SUFFICES ASSUME NEW a \in Accounts
               PROVE  IF period[PeriodOf(a)] = "closed" /\ AssetOf(a) = "ticket"
                         /\ Balance(entries', closing[PeriodOf(a)], a) > 0
                      THEN \E i \in 1 .. Len(entries') :
                             /\ Expiries(a)' = {i}
                             /\ entries'[i].amt = -Balance(entries', closing[PeriodOf(a)], a)
                      ELSE Expiries(a)' = {}
    BY DEF CloseExpiresWhatItSaw
  <2>1. IF period[PeriodOf(a)] = "closed" /\ AssetOf(a) = "ticket"
           /\ Balance(entries, closing[PeriodOf(a)], a) > 0
        THEN \E i \in 1 .. Len(entries) :
               Expiries(a) = {i} /\ entries[i].amt = -Balance(entries, closing[PeriodOf(a)], a)
        ELSE Expiries(a) = {}
    BY DEF CloseExpiresWhatItSaw
  <2>2. QED
    BY <1>1, <1>2, <1>4, <2>1
<1>6. QED
  BY <1>3, <1>5

(* A key that was free is taken once.                                      *)
LEMMA KeyIsTaken ==
  ASSUME LedgerTyped, KeysAreUnique, LedgerGrows, Len(entries') = Len(entries) + 1,
         NEW c, FindByIdempotency(entries, c) = {},
         entries'[Len(entries) + 1].op = c.op, entries'[Len(entries) + 1].key = c.key
  PROVE  KeysAreUnique'
<1>1. \A i \in 1 .. Len(entries) : entries'[i] = entries[i]
  BY DEF LedgerGrows, SamePrefix
<1>2. \A i \in 1 .. Len(entries') : i \in 1 .. Len(entries) \/ i = Len(entries) + 1
  BY DEF LedgerGrows
<1>3. \A i \in 1 .. Len(entries) : ~(entries[i].op = c.op /\ entries[i].key = c.key)
  BY DEF FindByIdempotency
<1>4. QED
  BY <1>1, <1>2, <1>3 DEF KeysAreUnique

(* What was told stays true, and what is told now is.                      *)
LEMMA TruthIsTold ==
  ASSUME LedgerTyped, ToldTheTruth, LedgerGrows,
         NEW x, answers' \in {answers, answers \cup {x}},
         answers' = answers \/
           (/\ x.id \in 1 .. Len(entries')
            /\ entries'[x.id].op = x.op /\ entries'[x.id].key = x.key
            /\ Hash(entries'[x.id]) = x.hash)
  PROVE  ToldTheTruth'
<1>1. /\ \A i \in 1 .. Len(entries) : entries'[i] = entries[i]
      /\ \A i \in 1 .. Len(entries) : i \in 1 .. Len(entries')
  BY DEF LedgerGrows, SamePrefix
<1>2. ASSUME NEW y \in answers
      PROVE  /\ y.id \in 1 .. Len(entries')
             /\ entries'[y.id].op = y.op /\ entries'[y.id].key = y.key
             /\ Hash(entries'[y.id]) = y.hash
  BY <1>1 DEF ToldTheTruth
<1>3. CASE answers' = answers
  BY <1>2, <1>3 DEF ToldTheTruth
<1>4. CASE answers' # answers
  <2>1. answers' = answers \cup {x}
    BY <1>4
  <2>2. QED
    BY <1>2, <1>4, <2>1 DEF ToldTheTruth
<1>5. QED
  BY <1>3, <1>4

(* An adjustment that is recorded stays so while others book.              *)
LEMMA AdjustmentsKept ==
  ASSUME LedgerTyped, AdjustmentsRecorded, LedgerGrows, UNCHANGED <<adjusted, audit>>,
         \A i \in 1 .. Len(entries') : i \in 1 .. Len(entries) \/ ~IsAdjustment(entries'[i])
  PROVE  AdjustmentsRecorded'
<1>1. /\ \A i \in 1 .. Len(entries) : entries'[i] = entries[i]
      /\ \A i \in 1 .. Len(entries) : i \in 1 .. Len(entries')
  BY DEF LedgerGrows, SamePrefix
<1>2. \A i \in 1 .. Len(entries') : IsAdjustment(entries'[i]) =>
        i \in 1 .. Len(entries) /\ entries'[i] = entries[i]
  BY <1>1
<1>3. QED
  BY <1>1, <1>2 DEF AdjustmentsRecorded

-----------------------------------------------------------------------------
(* The steps of the ledger, one by one.                                    *)

(* Steps that only open or end a transaction which has read no accounts.   *)
LEMMA OpenStep ==
  ASSUME LedgerIsSound, UNCHANGED <<ledger, admin, period, answers, closing, dirty, report>>,
         NEW w \in Workers, NEW x \in {Idle} \cup AppendJob \cup ListedJob,
         job' = [job EXCEPT ![w] = x]
  PROVE  LedgerIsSound'
<1> USE DEF ledger, admin
<1>1. LedgerTyped /\ LedgerGrows
  BY NothingBooked DEF LedgerIsSound
<1>2. LedgerTyped'
  BY <1>1 DEF LedgerTyped
<1>3. x.kind \notin {"close", "check"}
  BY DEF Idle, AppendJob, ListedJob
<1>4. \A v \in Workers : job'[v] = job[v] \/ job'[v].kind \notin {"close", "check"}
  BY <1>1, <1>3 DEF LedgerTyped
<1>5. \A v \in Workers : job'[v].kind = "close" => period'[job[v].period] # "closed"
  BY <1>1, <1>4 DEF LedgerIsSound, JobsAreSound, ClosesAlone
<1>6. JobsAreSound'
  BY <1>1, <1>4, <1>5, JobsKept DEF LedgerIsSound
<1>7. ExpiriesAreLate' /\ CloseExpiresWhatItSaw'
  BY <1>1, ExpiriesKept DEF LedgerIsSound
<1>8. QED
  BY <1>2, <1>6, <1>7
     DEF LedgerIsSound, AccountsFollow, KeysAreUnique, AdjustmentsRecorded, ToldTheTruth

(* Answers given from what is stored.                                      *)
LEMMA AgainStep ==
  ASSUME LedgerIsSound, NEW c, NEW i,
         UNCHANGED <<ledger, admin, period, job, closing, dirty, report>>,
         c.op \in Operations, c.key \in EntryKeys, c.acct \in Accounts, c.amt \in Int,
         i \in 1 .. Len(entries), entries[i].op = c.op, entries[i].key = c.key,
         Hash(entries[i]) = Hash(c), answers' = answers \cup {Answer(c, i)}
  PROVE  LedgerIsSound'
<1> USE DEF ledger, admin
<1>1. LedgerTyped /\ LedgerGrows
  BY NothingBooked DEF LedgerIsSound
<1>2. PICK x : x = Answer(c, i)
  OBVIOUS
<1>3. x \in Told /\ x.id = i /\ x.op = c.op /\ x.key = c.key /\ x.hash = Hash(c)
  <2>1. i \in Nat /\ Hash(c) \in Accounts \X Int
    BY <1>1, LedgerFacts DEF Hash
  <2>2. QED
    BY <1>2, <2>1 DEF Answer, Told
<1>4. LedgerTyped'
  BY <1>1, <1>2, <1>3 DEF LedgerTyped
<1>5. ToldTheTruth'
  BY <1>1, <1>2, <1>3, TruthIsTold DEF LedgerIsSound
<1>6. \A v \in Workers : job'[v].kind = "close" => period'[job[v].period] # "closed"
  BY <1>1 DEF LedgerIsSound, JobsAreSound, ClosesAlone
<1>7. JobsAreSound'
  BY <1>1, <1>6, JobsKept DEF LedgerIsSound
<1>8. ExpiriesAreLate' /\ CloseExpiresWhatItSaw'
  BY <1>1, ExpiriesKept DEF LedgerIsSound
<1>9. QED
  BY <1>4, <1>5, <1>7, <1>8
     DEF LedgerIsSound, AccountsFollow, KeysAreUnique, AdjustmentsRecorded

(* One entry under a free key, booked on top of its account.               *)
LEMMA BookStep ==
  ASSUME LedgerIsSound, UNCHANGED <<period, closing, dirty, report>>,
         NEW c, c.op \in Operations, c.key \in EntryKeys, c.acct \in Accounts, c.amt \in Int,
         c.op # "ticket_expire", FindByIdempotency(entries, c) = {},
         NEW w \in Workers, Applies(Row(c.acct), c.amt), Write(c, NextRow(c, w)),
         job' \in {job, [job EXCEPT ![w] = Idle]},
         answers' = answers \cup {Answer(c, Len(entries) + 1)},
         adjusted' \in [Requests -> {None} \cup [cmd : Adjustments, id : Nat]],
         audit' \in [Requests -> Nat], AdjustmentsRecorded'
  PROVE  LedgerIsSound'
<1>1. LedgerTyped /\ AccountsFollow
  BY DEF LedgerIsSound
<1>2. /\ entries' \in Seq(EntryRow) /\ account' \in AccountTable
      /\ LedgerGrows /\ Len(entries') = Len(entries) + 1
      /\ entries'[Len(entries) + 1] = Entry(c, Row(c.acct).bal + c.amt)
      /\ AccountsFollow'
  BY <1>1, WriteStep
<1>3. PICK e : e = Entry(c, Row(c.acct).bal + c.amt)
  OBVIOUS
<1>4. e.op = c.op /\ e.key = c.key /\ e.acct = c.acct /\ e.amt = c.amt
  BY <1>3 DEF Entry
<1>5. /\ Len(entries) \in Nat /\ entries'[Len(entries) + 1] = e
      /\ \A i \in 1 .. Len(entries') : i \in 1 .. Len(entries) \/ i = Len(entries) + 1
  BY <1>2, <1>3 DEF LedgerGrows
<1>6. PICK x : x = Answer(c, Len(entries) + 1)
  OBVIOUS
<1>7. x \in Told /\ x.id = Len(entries) + 1 /\ x.op = c.op /\ x.key = c.key /\ x.hash = Hash(c)
  <2>1. Len(entries) + 1 \in Nat /\ Hash(c) \in Accounts \X Int
    BY <1>5 DEF Hash
  <2>2. QED
    BY <1>6, <2>1 DEF Answer, Told
<1>8. LedgerTyped'
  BY <1>1, <1>2, <1>6, <1>7 DEF LedgerTyped
<1>9. KeysAreUnique'
  BY <1>1, <1>2, <1>4, <1>5, KeyIsTaken DEF LedgerIsSound
<1>10. ToldTheTruth'
  <2>1. x.id \in 1 .. Len(entries')
    BY <1>2, <1>5, <1>7
  <2>2. Hash(e) = Hash(c)
    BY <1>4 DEF Hash
  <2>3. QED
    BY <1>1, <1>2, <1>4, <1>5, <1>6, <1>7, <2>1, <2>2, TruthIsTold DEF LedgerIsSound
<1>11. \A v \in Workers : job'[v] = job[v] \/ job'[v].kind \notin {"close", "check"}
  BY <1>1 DEF LedgerTyped, Idle
<1>12. \A v \in Workers : job'[v].kind = "close" => period'[job[v].period] # "closed"
  BY <1>1, <1>11 DEF LedgerIsSound, JobsAreSound, ClosesAlone
<1>13. JobsAreSound'
  BY <1>1, <1>2, <1>11, <1>12, JobsKept DEF LedgerIsSound
<1>14. ExpiriesAreLate' /\ CloseExpiresWhatItSaw'
  BY <1>1, <1>2, <1>4, <1>5, ExpiriesKept DEF LedgerIsSound
<1>15. QED
  BY <1>2, <1>8, <1>9, <1>10, <1>13, <1>14 DEF LedgerIsSound

(* Append, at its end.                                                     *)
LEMMA FinishAppendStep ==
  ASSUME LedgerIsSound, NEW w \in Workers, FinishAppend(w)
  PROVE  LedgerIsSound'
<1>1. LedgerTyped
  BY DEF LedgerIsSound
<1>2. PICK c : c = job[w].cmd
  OBVIOUS
<1>3. c \in Appends
  BY <1>1, <1>2, JobKinds DEF FinishAppend
<1>4. /\ c.acct \in Accounts /\ c.amt \in Int /\ c.op \notin Reserved
      /\ c.op \in Operations /\ c.key \in EntryKeys
  BY <1>3, LedgerAssumption DEF Operations, EntryKeys
<1>5. /\ FindByIdempotency(entries, c) = {} /\ Applies(Row(c.acct), c.amt)
      /\ Write(c, NextRow(c, w)) /\ answers' = answers \cup {Answer(c, Len(entries) + 1)}
      /\ job' = [job EXCEPT ![w] = Idle]
      /\ UNCHANGED <<admin, period, closing, dirty, report>>
  BY <1>2 DEF FinishAppend
<1>6. UNCHANGED <<adjusted, audit>>
  BY <1>5 DEF admin
<1>7. AdjustmentsRecorded'
  <2>1. /\ LedgerGrows /\ Len(entries') = Len(entries) + 1
        /\ entries'[Len(entries) + 1] = Entry(c, Row(c.acct).bal + c.amt)
    BY <1>1, <1>4, <1>5, WriteStep DEF LedgerIsSound
  <2>2. ~IsAdjustment(entries'[Len(entries) + 1])
    BY <1>4, <2>1 DEF IsAdjustment, Entry, Reserved
  <2>3. \A i \in 1 .. Len(entries') : i \in 1 .. Len(entries) \/ i = Len(entries) + 1
    BY <2>1 DEF LedgerGrows
  <2>4. QED
    BY <1>1, <1>6, <2>1, <2>2, <2>3, AdjustmentsKept DEF LedgerIsSound
<1>8. /\ adjusted' \in [Requests -> {None} \cup [cmd : Adjustments, id : Nat]]
      /\ audit' \in [Requests -> Nat]
  BY <1>1, <1>6 DEF LedgerTyped
<1>9. c.op # "ticket_expire"
  BY <1>4 DEF Reserved
<1>10. QED
  BY <1>4, <1>5, <1>7, <1>8, <1>9, BookStep

(* A known key is answered again.                                          *)
LEMMA ReplayStep ==
  ASSUME LedgerIsSound, NEW c \in Appends, Replay(c)
  PROVE  LedgerIsSound'
<1>1. PICK i \in FindByIdempotency(entries, c) : Reuses(c, entries[i]) /\ answers' = answers \cup {Answer(c, i)}
  BY DEF Replay
<1>2. i \in 1 .. Len(entries) /\ entries[i].op = c.op /\ entries[i].key = c.key /\ Hash(entries[i]) = Hash(c)
  BY <1>1 DEF FindByIdempotency, Reuses
<1>3. c.acct \in Accounts /\ c.amt \in Int /\ c.op \in Operations /\ c.key \in EntryKeys
  BY LedgerAssumption DEF Operations, EntryKeys
<1>4. UNCHANGED <<ledger, admin, period, job, closing, dirty, report>>
  BY DEF Replay
<1>5. QED
  BY <1>1, <1>2, <1>3, <1>4, AgainStep

(* What an adjustment books.                                               *)
LEMMA AdjustmentIs ==
  ASSUME NEW c \in Adjustments
  PROVE  /\ c.request \in Requests /\ c.acct \in Accounts /\ c.amt \in Int
         /\ AdjustmentEntry(c).key = c.request /\ AdjustmentEntry(c).acct = c.acct
         /\ AdjustmentEntry(c).amt = c.amt /\ IsAdjustment(AdjustmentEntry(c))
         /\ AdjustmentEntry(c).op \in Operations /\ AdjustmentEntry(c).key \in EntryKeys
         /\ AdjustmentEntry(c).op # "ticket_expire"
<1>1. c.request \in Requests /\ c.acct \in Accounts /\ c.amt \in Int
  BY LedgerAssumption DEF Requests
<1>2. /\ AdjustmentEntry(c).key = c.request /\ AdjustmentEntry(c).acct = c.acct
      /\ AdjustmentEntry(c).amt = c.amt
      /\ AdjustmentEntry(c).op \in {"ticket_adjustment", "contribution_adjustment"}
  BY DEF AdjustmentEntry
<1>3. QED
  BY <1>1, <1>2 DEF IsAdjustment, Operations, Reserved, EntryKeys

(* A request that was answered is answered again.                          *)
LEMMA AdjustAgainStep ==
  ASSUME LedgerIsSound, NEW c \in Adjustments, AdjustAgain(c)
  PROVE  LedgerIsSound'
<1>1. PICK e : e = AdjustmentEntry(c)
  OBVIOUS
<1>2. PICK i : i = adjusted[c.request].id
  OBVIOUS
<1>3. /\ adjusted[c.request] # None /\ adjusted[c.request].cmd = c
      /\ answers' = answers \cup {Answer(e, i)}
      /\ UNCHANGED <<ledger, admin, period, job, closing, dirty, report>>
  BY <1>1, <1>2 DEF AdjustAgain
<1>4. /\ c.request \in Requests /\ e.op \in Operations /\ e.key \in EntryKeys
      /\ e.acct \in Accounts /\ e.amt \in Int
  BY <1>1, AdjustmentIs
<1>5. i \in 1 .. Len(entries) /\ entries[i] = Entry(e, entries[i].after)
  BY <1>1, <1>2, <1>3, <1>4 DEF LedgerIsSound, AdjustmentsRecorded
<1>6. entries[i].op = e.op /\ entries[i].key = e.key /\ Hash(entries[i]) = Hash(e)
  <2>1. PICK x : x = Entry(e, entries[i].after)
    OBVIOUS
  <2>2. x.op = e.op /\ x.key = e.key /\ x.acct = e.acct /\ x.amt = e.amt
    BY <2>1 DEF Entry
  <2>3. entries[i] = x
    BY <1>5, <2>1
  <2>4. QED
    BY <2>2, <2>3 DEF Hash
<1>7. QED
  BY <1>3, <1>4, <1>5, <1>6, AgainStep

(* An adjustment under a request that was not answered yet.                *)
LEMMA AdjustStep ==
  ASSUME LedgerIsSound, NEW w \in Workers, NEW c \in Adjustments, Adjust(w, c)
  PROVE  LedgerIsSound'
<1>1. LedgerTyped
  BY DEF LedgerIsSound
<1>2. PICK e : e = AdjustmentEntry(c)
  OBVIOUS
<1>3. /\ c.request \in Requests /\ e.op \in Operations /\ e.key \in EntryKeys
      /\ e.acct \in Accounts /\ e.amt \in Int /\ e.key = c.request /\ e.acct = c.acct /\ e.amt = c.amt
      /\ e.op # "ticket_expire" /\ IsAdjustment(e)
  BY <1>2, AdjustmentIs
<1>4. PICK k : k = Len(entries) + 1
  OBVIOUS
<1>5. PICK r : r = c.request
  OBVIOUS
<1>6. PICK known : known = [cmd |-> c, id |-> k]
  OBVIOUS
<1>7. PICK n : n = audit[r] + 1
  OBVIOUS
<1>8. /\ adjusted[r] = None /\ Applies(Row(e.acct), e.amt) /\ Write(e, NextRow(e, w))
      /\ answers' = answers \cup {Answer(e, Len(entries) + 1)}
      /\ audit' = [audit EXCEPT ![r] = n] /\ adjusted' = [adjusted EXCEPT ![r] = known]
      /\ job' = job /\ UNCHANGED <<period, closing, dirty, report>>
  BY <1>2, <1>3, <1>4, <1>5, <1>6, <1>7 DEF Adjust
<1>9. audit[r] = 0 /\ n = 1
  BY <1>3, <1>5, <1>7, <1>8 DEF LedgerIsSound, AdjustmentsRecorded
<1>10. Len(entries) \in Nat /\ k \in Nat
  BY <1>1, <1>4, LedgerFacts
<1>11. known \in [cmd : Adjustments, id : Nat] /\ known.cmd = c /\ known.id = k
  BY <1>6, <1>10
<1>12. known # None
  <2>1. None.id = 0 /\ known.id # 0
    BY <1>4, <1>10, <1>11 DEF None
  <2>2. QED
    BY <2>1
<1>13. /\ adjusted' \in [Requests -> {None} \cup [cmd : Adjustments, id : Nat]]
       /\ audit' \in [Requests -> Nat]
  BY <1>1, <1>8, <1>9, <1>11 DEF LedgerTyped
<1>14. FindByIdempotency(entries, e) = {}
  <2>1. ASSUME NEW i \in 1 .. Len(entries), entries[i].op = e.op, entries[i].key = e.key
        PROVE  FALSE
    <3>1. IsAdjustment(entries[i])
      BY <1>3, <2>1 DEF IsAdjustment
    <3>2. QED
      BY <1>3, <1>5, <1>8, <2>1, <3>1 DEF LedgerIsSound, AdjustmentsRecorded
  <2>2. QED
    BY <2>1 DEF FindByIdempotency
<1>15. AdjustmentsRecorded'
  <2>1. /\ LedgerGrows /\ Len(entries') = k
        /\ entries'[k] = Entry(e, Row(e.acct).bal + e.amt)
    BY <1>1, <1>3, <1>4, <1>8, WriteStep DEF LedgerIsSound
  <2>2. /\ \A i \in 1 .. Len(entries) : i \in 1 .. Len(entries') /\ entries'[i] = entries[i]
        /\ \A i \in 1 .. Len(entries') : i \in 1 .. Len(entries) \/ i = k
        /\ k \in 1 .. Len(entries')
    BY <1>4, <1>10, <2>1 DEF LedgerGrows, SamePrefix
  <2>3. /\ adjusted'[r] = known /\ audit'[r] = 1
        /\ \A s \in Requests : s # r => adjusted'[s] = adjusted[s] /\ audit'[s] = audit[s]
    BY <1>1, <1>3, <1>5, <1>8, <1>9 DEF LedgerTyped
  <2>4. entries'[k].key = r /\ entries'[k] = Entry(AdjustmentEntry(c), entries'[k].after)
    <3>1. PICK x : x = Entry(e, Row(e.acct).bal + e.amt)
      OBVIOUS
    <3>2. x.key = e.key /\ x.after = Row(e.acct).bal + e.amt
      BY <3>1 DEF Entry
    <3>3. QED
      BY <1>2, <1>3, <1>5, <2>1, <3>1, <3>2
  <2>5. ASSUME NEW i \in 1 .. Len(entries'), IsAdjustment(entries'[i])
        PROVE  /\ entries'[i].key \in Requests /\ adjusted'[entries'[i].key] # None
               /\ adjusted'[entries'[i].key].id = i
    <3>1. CASE i = k
      BY <1>3, <1>5, <1>11, <1>12, <2>3, <2>4, <3>1
    <3>2. CASE i \in 1 .. Len(entries)
      <4>1. entries'[i] = entries[i] /\ IsAdjustment(entries[i])
        BY <2>2, <2>5, <3>2
      <4>2. /\ entries[i].key \in Requests /\ adjusted[entries[i].key] # None
            /\ adjusted[entries[i].key].id = i
        BY <3>2, <4>1 DEF LedgerIsSound, AdjustmentsRecorded
      <4>3. entries[i].key # r
        BY <1>8, <4>2
      <4>4. QED
        BY <2>3, <4>1, <4>2, <4>3
    <3>3. QED
      BY <2>2, <3>1, <3>2
  <2>6. ASSUME NEW s \in Requests, adjusted'[s] # None
        PROVE  /\ adjusted'[s].cmd.request = s /\ adjusted'[s].id \in 1 .. Len(entries')
               /\ entries'[adjusted'[s].id]
                    = Entry(AdjustmentEntry(adjusted'[s].cmd), entries'[adjusted'[s].id].after)
    <3>1. CASE s = r
      BY <1>5, <1>11, <2>2, <2>3, <2>4, <3>1
    <3>2. CASE s # r
      <4>1. adjusted'[s] = adjusted[s]
        BY <2>3, <3>2
      <4>2. /\ adjusted[s].cmd.request = s /\ adjusted[s].id \in 1 .. Len(entries)
            /\ entries[adjusted[s].id]
                 = Entry(AdjustmentEntry(adjusted[s].cmd), entries[adjusted[s].id].after)
        BY <2>6, <4>1 DEF LedgerIsSound, AdjustmentsRecorded
      <4>3. QED
        BY <2>2, <4>1, <4>2
    <3>3. QED
      BY <3>1, <3>2
  <2>7. \A s \in Requests : audit'[s] = IF adjusted'[s] = None THEN 0 ELSE 1
    BY <1>12, <2>3 DEF LedgerIsSound, AdjustmentsRecorded
  <2>8. QED
    BY <2>5, <2>6, <2>7 DEF AdjustmentsRecorded
<1>16. QED
  BY <1>3, <1>8, <1>13, <1>14, <1>15, BookStep

(* A snapshot is taken: it shows what is there.                            *)
LEMMA BeginCheckStep ==
  ASSUME LedgerIsSound, NEW w \in Workers, BeginCheck(w)
  PROVE  LedgerIsSound'
<1>1. PICK x : x = [kind |-> "check", rows |-> account, seen |-> Len(entries), dirty |-> dirty]
  OBVIOUS
<1>2. /\ job' = [job EXCEPT ![w] = x]
      /\ UNCHANGED <<entries, account, adjusted, audit, period, answers, closing, dirty, report>>
  BY <1>1 DEF BeginCheck, ledger, admin, notes
<1>3. LedgerTyped /\ LedgerGrows /\ Len(entries) \in Nat
  BY <1>2, NothingBooked, LedgerFacts DEF LedgerIsSound
<1>4. x \in CheckJob
  BY <1>1, <1>3 DEF CheckJob, LedgerTyped
<1>5. x.kind = "check" /\ x.rows = account /\ x.seen = Len(entries) /\ x.dirty = dirty
  BY <1>1
<1>6. job'[w] = x /\ \A v \in Workers : v # w => job'[v] = job[v]
  BY <1>2, <1>3 DEF LedgerTyped
<1>7. LedgerTyped'
  BY <1>2, <1>3, <1>4 DEF LedgerTyped
<1>8. JobsAreSound'
  <2> SUFFICES ASSUME NEW v \in Workers
               PROVE  ReadBefore(v)' /\ CheckedAt(v)' /\ ClosedAt(v)' /\ ClosesAlone(v)'
    BY DEF JobsAreSound
  <2>1. CASE v = w
    <3>1. ReadBefore(v)' /\ ClosedAt(v)' /\ ClosesAlone(v)'
      BY <1>2, <1>3, <1>5, <1>6, <2>1 DEF ReadBefore, ClosedAt, ClosesAlone
    <3>2. CheckedAt(v)'
      BY <1>2, <1>5, <1>6, <2>1 DEF CheckedAt, LedgerIsSound, AccountsFollow
    <3>3. QED
      BY <3>1, <3>2
  <2>2. CASE v # w
    <3>1. ReadBefore(v) /\ CheckedAt(v) /\ ClosedAt(v) /\ ClosesAlone(v)
      BY DEF LedgerIsSound, JobsAreSound
    <3>2. ClosesAlone(v)'
      BY <1>2, <1>5, <1>6, <2>2, <3>1 DEF ClosesAlone
    <3>3. QED
      BY <1>2, <1>6, <2>2, <3>1, <3>2 DEF ReadBefore, CheckedAt, ClosedAt
  <2>3. QED
    BY <2>1, <2>2
<1>9. ExpiriesAreLate' /\ CloseExpiresWhatItSaw'
  BY <1>2, <1>3, ExpiriesKept DEF LedgerIsSound
<1>10. QED
  BY <1>2, <1>7, <1>8, <1>9
     DEF LedgerIsSound, AccountsFollow, KeysAreUnique, AdjustmentsRecorded, ToldTheTruth

(* An account is out of step exactly when it fails the check.              *)
LEMMA OutOfStepFails ==
  ASSUME NEW es, NEW n, NEW a, NEW row \in {Missing} \cup AccountRow
  PROVE  /\ OutOfStep(es, n, a, row) => row # Missing /\ Rebuild(es, n, a) # row
         /\ InStep(es, n, a, row) => row = Missing \/ Rebuild(es, n, a) = row
<1>1. ASSUME OutOfStep(es, n, a, row)
      PROVE  row # Missing /\ Rebuild(es, n, a) # row
  <2>1. row # Missing /\ row \in AccountRow /\ row # Broken
    BY <1>1, RowsDiffer DEF OutOfStep
  <2>2. CASE ~Replays(es, n, a)
    BY <2>1, <2>2 DEF Rebuild
  <2>3. CASE Replays(es, n, a)
    <3>1. Balance(es, n, a) < row.bal
      BY <1>1, <2>3 DEF OutOfStep
    <3>2. row.bal \in Int
      BY <2>1, LedgerAssumption DEF AccountRow, Span
    <3>3. ASSUME Rebuild(es, n, a) = row PROVE FALSE
      <4>1. row = [bal |-> Balance(es, n, a), ver |-> Cardinality(ListAccountEntries(es, n, a))]
        BY <2>3, <3>3 DEF Rebuild
      <4>2. row.bal = Balance(es, n, a)
        BY <4>1
      <4>3. QED
        BY <3>1, <3>2, <4>2
    <3>4. QED
      BY <2>1, <3>3
  <2>4. QED
    BY <2>2, <2>3
<1>2. QED
  BY <1>1 DEF InStep

(* A check reports what was wrong at its snapshot, and nothing else.       *)
LEMMA FinishCheckStep ==
  ASSUME LedgerIsSound, NEW w \in Workers, FinishCheck(w)
  PROVE  LedgerIsSound'
<1>1. LedgerTyped /\ CheckedAt(w) /\ job[w].kind = "check"
  BY DEF LedgerIsSound, JobsAreSound, FinishCheck
<1>2. PICK x : x = job[w]
  OBVIOUS
<1>3. x.rows \in AccountTable /\ x.seen \in Nat /\ x.dirty \subseteq Accounts
  BY <1>1, <1>2, JobKinds
<1>4. /\ report'.saw = x.dirty
      /\ report'.found = {a \in Accounts : x.rows[a] # Missing /\ Rebuild(entries, x.seen, a) # x.rows[a]}
  BY <1>2 DEF FinishCheck, InSync
<1>5. report'.found = report'.saw
  <2>1. ASSUME NEW a \in Accounts
        PROVE  a \in x.dirty <=> x.rows[a] # Missing /\ Rebuild(entries, x.seen, a) # x.rows[a]
    <3>1. Follows(entries, x.seen, a, x.rows[a], x.dirty)
      BY <1>1, <1>2 DEF CheckedAt
    <3>2. x.rows[a] \in {Missing} \cup AccountRow
      BY <1>3 DEF AccountTable
    <3>3. PICK row : row = x.rows[a]
      OBVIOUS
    <3>4. PICK n : n = x.seen
      OBVIOUS
    <3>5. CASE a \in x.dirty
      <4>1. OutOfStep(entries, n, a, row)
        BY <3>1, <3>3, <3>4, <3>5 DEF Follows
      <4>2. row # Missing /\ Rebuild(entries, n, a) # row
        BY <3>2, <3>3, <4>1, OutOfStepFails
      <4>3. QED
        BY <3>3, <3>4, <3>5, <4>2
    <3>6. CASE a \notin x.dirty
      <4>1. InStep(entries, n, a, row)
        BY <3>1, <3>3, <3>4, <3>6 DEF Follows
      <4>2. row = Missing \/ Rebuild(entries, n, a) = row
        BY <3>2, <3>3, <4>1, OutOfStepFails
      <4>3. QED
        BY <3>3, <3>4, <3>6, <4>2
    <3>7. QED
      BY <3>5, <3>6
  <2>2. QED
    BY <1>3, <1>4, <2>1
<1>6. /\ job' = [job EXCEPT ![w] = Idle]
      /\ UNCHANGED <<entries, account, adjusted, audit, period, answers, closing, dirty>>
  BY DEF FinishCheck, ledger, admin
<1>7. LedgerTyped' /\ LedgerGrows
  BY <1>1, <1>6, NothingBooked DEF LedgerTyped
<1>8. \A v \in Workers : job'[v] = job[v] \/ job'[v].kind \notin {"close", "check"}
  BY <1>1, <1>6 DEF LedgerTyped, Idle
<1>9. \A v \in Workers : job'[v].kind = "close" => period'[job[v].period] # "closed"
  BY <1>6, <1>8 DEF LedgerIsSound, JobsAreSound, ClosesAlone
<1>10. JobsAreSound'
  BY <1>1, <1>7, <1>8, <1>9, JobsKept DEF LedgerIsSound
<1>11. ExpiriesAreLate' /\ CloseExpiresWhatItSaw'
  BY <1>1, <1>6, <1>7, ExpiriesKept DEF LedgerIsSound
<1>12. QED
  BY <1>5, <1>6, <1>7, <1>10, <1>11
     DEF LedgerIsSound, AccountsFollow, KeysAreUnique, AdjustmentsRecorded, ToldTheTruth

(* The close takes the lock of its period and a snapshot in which every    *)
(* account of the period is right.                                         *)
LEMMA BeginCloseStep ==
  ASSUME LedgerIsSound, NEW w \in Workers, BeginClose(w)
  PROVE  LedgerIsSound'
<1>1. PICK p : p = job[w].period
  OBVIOUS
<1>2. PICK x : x = [kind |-> "close", period |-> p, rows |-> account, seen |-> Len(entries)]
  OBVIOUS
<1>3. /\ job[w].kind = "listed" /\ period[p] # "closed" /\ ~Locked(p)
      /\ \A a \in Rows(p) : InSync(account, Len(entries), a)
      /\ job' = [job EXCEPT ![w] = x]
      /\ UNCHANGED <<entries, account, adjusted, audit, period, answers, closing, dirty, report>>
  BY <1>1, <1>2 DEF BeginClose, ledger, admin, notes
<1>4. LedgerTyped /\ LedgerGrows /\ Len(entries) \in Nat
  BY <1>3, NothingBooked, LedgerFacts DEF LedgerIsSound
<1>5. p \in Periods
  BY <1>1, <1>3, <1>4, JobKinds
<1>6. x \in CloseJob
  BY <1>2, <1>4, <1>5 DEF CloseJob, LedgerTyped
<1>7. x.kind = "close" /\ x.rows = account /\ x.seen = Len(entries) /\ x.period = p
  BY <1>2
<1>8. job'[w] = x /\ \A v \in Workers : v # w => job'[v] = job[v]
  BY <1>3, <1>4 DEF LedgerTyped
<1>9. LedgerTyped'
  BY <1>3, <1>4, <1>6 DEF LedgerTyped
<1>10. ASSUME NEW a \in Accounts, PeriodOf(a) = p
       PROVE  InStep(entries, Len(entries), a, account[a])
  <2>1. CASE account[a] = Missing
    <3>1. a \notin dirty
      BY <2>1 DEF LedgerIsSound, AccountsFollow, Follows, OutOfStep
    <3>2. QED
      BY <3>1 DEF LedgerIsSound, AccountsFollow, Follows
  <2>2. CASE account[a] # Missing
    <3>1. a \in Rows(p)
      BY <1>10, <2>2 DEF Rows
    <3>2. QED
      BY <1>3, <2>2, <3>1 DEF InSync, InStep
  <2>3. QED
    BY <2>1, <2>2
<1>11. JobsAreSound'
  <2> SUFFICES ASSUME NEW v \in Workers
               PROVE  ReadBefore(v)' /\ CheckedAt(v)' /\ ClosedAt(v)' /\ ClosesAlone(v)'
    BY DEF JobsAreSound
  <2>1. CASE v = w
    <3>1. ReadBefore(v)' /\ CheckedAt(v)'
      BY <1>3, <1>4, <1>7, <1>8, <2>1 DEF ReadBefore, CheckedAt
    <3>2. ClosedAt(v)'
      BY <1>3, <1>7, <1>8, <1>10, <2>1 DEF ClosedAt
    <3>3. ClosesAlone(v)'
      BY <1>3, <1>7, <1>8, <2>1 DEF ClosesAlone, Locked
    <3>4. QED
      BY <3>1, <3>2, <3>3
  <2>2. CASE v # w
    <3>1. ReadBefore(v) /\ CheckedAt(v) /\ ClosedAt(v) /\ ClosesAlone(v)
      BY DEF LedgerIsSound, JobsAreSound
    <3>2. ClosesAlone(v)'
      BY <1>3, <1>7, <1>8, <2>2, <3>1 DEF ClosesAlone, Locked
    <3>3. QED
      BY <1>3, <1>8, <2>2, <3>1, <3>2 DEF ReadBefore, CheckedAt, ClosedAt
  <2>3. QED
    BY <2>1, <2>2
<1>12. ExpiriesAreLate' /\ CloseExpiresWhatItSaw'
  BY <1>3, <1>4, ExpiriesKept DEF LedgerIsSound
<1>13. QED
  BY <1>3, <1>9, <1>11, <1>12
     DEF LedgerIsSound, AccountsFollow, KeysAreUnique, AdjustmentsRecorded, ToldTheTruth

(* An account row that is changed, by whoever has no entry for it.         *)
LEMMA RowStep ==
  ASSUME LedgerIsSound, NEW b \in Accounts, NEW new \in AccountRow,
         account' = [account EXCEPT ![b] = new],
         dirty' \in {dirty \cup {b}, dirty \ {b}},
         Follows(entries, Len(entries), b, new, dirty'),
         UNCHANGED <<entries, adjusted, audit, period, job, answers, closing, report>>
  PROVE  LedgerIsSound'
<1>1. LedgerTyped /\ LedgerGrows
  BY NothingBooked DEF LedgerIsSound
<1>2. LedgerTyped'
  BY <1>1 DEF LedgerTyped, AccountTable
<1>3. AccountsFollow'
  <2> SUFFICES ASSUME NEW a \in Accounts PROVE Follows(entries, Len(entries), a, account'[a], dirty')
    BY DEF AccountsFollow
  <2>1. CASE a = b
    <3>1. account'[a] = new
      BY <1>1, <2>1 DEF LedgerTyped, AccountTable
    <3>2. QED
      BY <2>1, <3>1
  <2>2. CASE a # b
    <3>1. account'[a] = account[a] /\ (a \in dirty' <=> a \in dirty)
      BY <1>1, <2>2 DEF LedgerTyped, AccountTable
    <3>2. Follows(entries, Len(entries), a, account[a], dirty)
      BY DEF LedgerIsSound, AccountsFollow
    <3>3. QED
      BY <3>1, <3>2 DEF Follows
  <2>3. QED
    BY <2>1, <2>2
<1>4. \A v \in Workers : job'[v].kind = "close" => period'[job[v].period] # "closed"
  BY <1>1 DEF LedgerIsSound, JobsAreSound, ClosesAlone
<1>5. JobsAreSound'
  BY <1>1, <1>4, JobsKept DEF LedgerIsSound
<1>6. ExpiriesAreLate' /\ CloseExpiresWhatItSaw'
  BY <1>1, ExpiriesKept DEF LedgerIsSound
<1>7. QED
  BY <1>2, <1>3, <1>5, <1>6
     DEF LedgerIsSound, KeysAreUnique, AdjustmentsRecorded, ToldTheTruth

(* A row that gains what no entry gave it is out of step.                  *)
LEMMA TamperStep ==
  ASSUME LedgerIsSound, NEW a \in Accounts, Tamper(a)
  PROVE  LedgerIsSound'
<1>1. LedgerTyped /\ Limit \in Nat
  BY LedgerAssumption DEF LedgerIsSound
<1>2. PICK row : row = account[a]
  OBVIOUS
<1>3. row \in AccountRow /\ row.bal \in Int /\ row.bal < Limit /\ row # Missing
  BY <1>1, <1>2, LedgerFacts DEF Tamper, AccountRow, Span
<1>4. PICK b : b = row.bal + 1
  OBVIOUS
<1>5. PICK new : new = [row EXCEPT !.bal = b]
  OBVIOUS
<1>6. b \in Span /\ b > row.bal
  BY <1>1, <1>3, <1>4 DEF Span, AccountRow
<1>7. new \in AccountRow
  BY <1>3, <1>5, <1>6, Zenon DEF AccountRow
<1>8. new.bal = b
  BY <1>3, <1>5 DEF AccountRow
<1>9. /\ account' = [account EXCEPT ![a] = new] /\ dirty' = dirty \cup {a}
      /\ UNCHANGED <<entries, adjusted, audit, period, job, answers, closing, report>>
  BY <1>2, <1>4, <1>5 DEF Tamper, admin
<1>10. OutOfStep(entries, Len(entries), a, new)
  <2>1. new # Missing
    BY <1>7, RowsDiffer
  <2>2. ASSUME Replays(entries, Len(entries), a)
        PROVE  Balance(entries, Len(entries), a) < new.bal
    <3>1. Balance(entries, Len(entries), a) <= row.bal
      <4>1. CASE a \in dirty
        <5>1. OutOfStep(entries, Len(entries), a, row)
          BY <1>2, <4>1 DEF LedgerIsSound, AccountsFollow, Follows
        <5>2. Balance(entries, Len(entries), a) < row.bal
          BY <2>2, <5>1 DEF OutOfStep
        <5>3. Balance(entries, Len(entries), a) \in Int
          BY <1>1, BalanceIsWhole
        <5>4. QED
          BY <1>3, <5>2, <5>3
      <4>2. CASE a \notin dirty
        <5>1. Rebuild(entries, Len(entries), a) = row
          BY <1>2, <1>3, <4>2 DEF LedgerIsSound, AccountsFollow, Follows, InStep
        <5>2. row.bal = Balance(entries, Len(entries), a)
          BY <2>2, <5>1 DEF Rebuild
        <5>3. QED
          BY <1>3, <5>2
      <4>3. QED
        BY <4>1, <4>2
    <3>2. Balance(entries, Len(entries), a) \in Int
      BY <1>1, BalanceIsWhole
    <3>3. QED
      BY <1>3, <1>6, <1>8, <3>1, <3>2, <1>4
  <2>3. QED
    BY <2>1, <2>2 DEF OutOfStep
<1>11. Follows(entries, Len(entries), a, new, dirty')
  BY <1>9, <1>10 DEF Follows
<1>12. QED
  BY <1>7, <1>9, <1>11, RowStep

(* A rebuilt account is what its entries make it.                          *)
LEMMA RebuildStep ==
  ASSUME LedgerIsSound, NEW a \in Accounts, RebuildAccount(a)
  PROVE  LedgerIsSound'
<1>1. LedgerTyped /\ Len(entries) \in Nat
  BY LedgerFacts DEF LedgerIsSound
<1>2. PICK new : new = Rebuild(entries, Len(entries), a)
  OBVIOUS
<1>3. /\ new # Broken /\ account' = [account EXCEPT ![a] = new] /\ dirty' = dirty \ {a}
      /\ UNCHANGED <<entries, adjusted, audit, period, job, answers, closing, report>>
  BY <1>2 DEF RebuildAccount, admin
<1>4. new = [bal |-> Balance(entries, Len(entries), a),
             ver |-> Cardinality(ListAccountEntries(entries, Len(entries), a))]
  BY <1>2, <1>3 DEF Rebuild
<1>5. Cardinality(ListAccountEntries(entries, Len(entries), a)) \in Nat
  <2>1. IsFiniteSet(1 .. Len(entries))
    BY <1>1, FS_Interval
  <2>2. ListAccountEntries(entries, Len(entries), a) \in SUBSET (1 .. Len(entries))
    BY DEF ListAccountEntries
  <2>3. QED
    BY <2>1, <2>2, FS_Subset, FS_CardinalityType
<1>6. Balance(entries, Len(entries), a) \in Span
  BY <1>1, BalanceIsWhole
<1>7. new \in AccountRow
  BY <1>4, <1>5, <1>6 DEF AccountRow
<1>8. Follows(entries, Len(entries), a, new, dirty')
  BY <1>2, <1>3, <1>7, RowsDiffer DEF Follows, InStep
<1>9. QED
  BY <1>3, <1>7, <1>8, RowStep

(* What stands where when one sequence is put behind another.              *)
LEMMA JoinedIs ==
  ASSUME NEW S, NEW s \in Seq(S), NEW t \in Seq(S)
  PROVE  /\ s \o t \in Seq(S) /\ Len(s \o t) = Len(s) + Len(t)
         /\ \A i \in 1 .. Len(s) : (s \o t)[i] = s[i]
         /\ \A i \in 1 .. Len(t) : (s \o t)[Len(s) + i] = t[i]
<1>1. s \o t \in Seq(S) /\ Len(s \o t) = Len(s) + Len(t)
  OBVIOUS
<1>2. \A i \in 1 .. Len(s) : (s \o t)[i] = s[i]
  OBVIOUS
<1>3. ASSUME NEW i \in 1 .. Len(t) PROVE (s \o t)[Len(s) + i] = t[i]
  OBVIOUS
<1>4. QED
  BY <1>1, <1>2, <1>3

(* A finite set can be listed, each element once.                          *)
LEMMA ListedOnce ==
  ASSUME NEW S, IsFiniteSet(S)
  PROVE  /\ Cardinality(S) \in Nat
         /\ SetToSeq(S) \in [1 .. Cardinality(S) -> S] /\ Len(SetToSeq(S)) = Cardinality(S)
         /\ \A i, j \in 1 .. Cardinality(S) : SetToSeq(S)[i] = SetToSeq(S)[j] => i = j
         /\ \A x \in S : \E i \in 1 .. Cardinality(S) : SetToSeq(S)[i] = x
<1> DEFINE n == Cardinality(S)
           f == SetToSeq(S)
<1>1. n \in Nat /\ ExistsBijection(1 .. n, S)
  BY FS_CardinalityType
<1>2. PICK g : g \in Bijection(1 .. n, S)
  BY <1>1, Zenon DEF ExistsBijection
<1>3. g \in [1 .. n -> S] /\ IsInjective(g)
  BY <1>2 DEF Bijection, Injection, IsInjective
<1>4. f \in [1 .. n -> S] /\ IsInjective(f)
  BY <1>3, Zenon DEF SetToSeq
<1>5. \A i, j \in 1 .. n : f[i] = f[j] => i = j
  BY <1>4, Zenon DEF IsInjective
<1>6. f \in Injection(1 .. n, S)
  BY <1>4, Zenon DEF Injection
<1>7. Cardinality(1 .. n) = n
  BY <1>1, FS_Interval
<1>8. f \in Surjection(1 .. n, S)
  BY <1>6, <1>7, FS_Injection, Zenon
<1>9. \A x \in S : \E i \in 1 .. n : f[i] = x
  BY <1>8, Zenon DEF Surjection
<1>10. Len(f) = n
  <2> HIDE DEF f
  <2>1. PICK m \in Nat : m = n
    BY <1>1
  <2>2. f \in [1 .. m -> S]
    BY <1>4, <2>1
  <2>3. f \in Seq(S) /\ Len(f) = m
    BY <2>2
  <2>4. QED
    BY <2>1, <2>3
<1>11. QED
  BY <1>1, <1>4, <1>5, <1>9, <1>10

(* What a close writes: one expiry for each account that shows tickets.    *)
LEMMA CloseWrites ==
  ASSUME LedgerIsSound, NEW w \in Workers, FinishClose(w)
  PROVE  /\ \A a \in ToExpire(w) :
              /\ a \in Accounts /\ PeriodOf(a) = job[w].period
              /\ job[w].rows[a].bal \in Int /\ Expiry(w, a).amt = -job[w].rows[a].bal
              /\ Applies(Row(a), Expiry(w, a).amt)
              /\ account'[a] = NextRow(Expiry(w, a), w)
         /\ \A a \in Accounts : a \notin ToExpire(w) => account'[a] = account[a]
         /\ account' \in AccountTable /\ entries' \in Seq(EntryRow) /\ LedgerGrows
         /\ \A k \in 1 .. Len(entries') :
              \/ k \in 1 .. Len(entries)
              \/ \E a \in ToExpire(w) : entries'[k] = Entry(Expiry(w, a), NextRow(Expiry(w, a), w).bal)
         /\ \A k, l \in 1 .. Len(entries') :
              k > Len(entries) /\ l > Len(entries) /\ entries'[k].acct = entries'[l].acct => k = l
         /\ \A a \in ToExpire(w) : \E k \in 1 .. Len(entries') : k > Len(entries) /\ entries'[k].acct = a
<1> DEFINE accts == ToExpire(w)
           new == SetToSeq(accts)
           n == Cardinality(accts)
           After(a) == Entry(Expiry(w, a), NextRow(Expiry(w, a), w).bal)
<1>1. LedgerTyped /\ Len(entries) \in Nat /\ entries \in Seq(EntryRow)
  BY LedgerFacts DEF LedgerIsSound, LedgerTyped
<1>2. job[w].kind = "close" /\ job[w].rows \in AccountTable /\ job[w].period \in Periods
  BY <1>1, JobKinds DEF FinishClose
<1>3. ASSUME NEW a \in accts
      PROVE  /\ a \in Accounts /\ PeriodOf(a) = job[w].period
             /\ job[w].rows[a].bal \in Int /\ Expiry(w, a).amt = -job[w].rows[a].bal
             /\ Expiry(w, a).amt \in Int
             /\ Expiry(w, a).op = "ticket_expire" /\ Expiry(w, a).key = a /\ Expiry(w, a).acct = a
  <2>1. a \in Accounts /\ PeriodOf(a) = job[w].period /\ job[w].rows[a] # Missing
    BY DEF ToExpire
  <2>2. job[w].rows[a] \in AccountRow
    BY <1>2, <2>1 DEF AccountTable
  <2>3. job[w].rows[a].bal \in Int
    BY <2>2, LedgerAssumption DEF AccountRow, Span
  <2>4. QED
    BY <2>1, <2>3 DEF Expiry
<1>4. /\ \A a \in accts : Applies(Row(a), Expiry(w, a).amt)
      /\ entries' = entries \o [i \in 1 .. Len(new) |-> After(new[i])]
      /\ account' = [a \in Accounts |-> IF a \in accts THEN NextRow(Expiry(w, a), w) ELSE account[a]]
  BY DEF FinishClose
<1>5. ASSUME NEW a \in accts
      PROVE  /\ NextRow(Expiry(w, a), w) \in AccountRow
             /\ After(a) \in EntryRow /\ After(a).acct = a
  <2>1. PICK row : row = Row(a)
    OBVIOUS
  <2>2. PICK amt : amt = Expiry(w, a).amt
    OBVIOUS
  <2>3. row \in AccountRow /\ row.bal \in Int /\ row.ver \in Nat /\ amt \in Int
    BY <1>1, <1>3, <2>1, <2>2, LedgerFacts, LedgerAssumption DEF AccountRow, Span
  <2>4. InRange(row.bal + amt)
    BY <1>4, <2>1, <2>2 DEF Applies
  <2>5. row.bal + amt \in Span
    BY <2>3, <2>4, LedgerAssumption DEF InRange, Span
  <2>6. NextRow(Expiry(w, a), w) = [bal |-> row.bal + amt, ver |-> row.ver + 1]
    BY <1>3, <2>1, <2>2 DEF NextRow, Apply
  <2>7. NextRow(Expiry(w, a), w) \in AccountRow /\ NextRow(Expiry(w, a), w).bal \in Span
    BY <2>3, <2>5, <2>6 DEF AccountRow
  <2>8. Expiry(w, a).op \in Operations /\ Expiry(w, a).key \in EntryKeys
    BY <1>3 DEF Operations, Reserved, EntryKeys
  <2>9. PICK e : e = Expiry(w, a)
    OBVIOUS
  <2>10. PICK bal : bal = NextRow(Expiry(w, a), w).bal
    OBVIOUS
  <2>11. After(a) = [op |-> e.op, key |-> e.key, acct |-> e.acct, amt |-> e.amt, after |-> bal]
    BY <2>9, <2>10 DEF Entry
  <2>12. QED
    BY <1>3, <2>7, <2>8, <2>9, <2>10, <2>11 DEF EntryRow
<1>6. IsFiniteSet(accts)
  <2>1. accts \in SUBSET Accounts
    BY DEF ToExpire
  <2>2. QED
    BY <2>1, FS_Subset, LedgerAssumption
<1>7. /\ n \in Nat /\ new \in [1 .. n -> accts] /\ Len(new) = n
      /\ \A i, j \in 1 .. n : new[i] = new[j] => i = j
      /\ \A x \in accts : \E i \in 1 .. n : new[i] = x
  BY <1>6, ListedOnce, Zenon
<1>8. PICK f : f = new
  OBVIOUS
<1>9. PICK m : m = n
  OBVIOUS
<1>10. PICK tail : tail = [i \in 1 .. m |-> After(f[i])]
  OBVIOUS
<1>11. \A i \in 1 .. m : f[i] \in accts /\ tail[i] = After(f[i])
  BY <1>7, <1>8, <1>9, <1>10
<1>12. m \in Nat /\ tail \in Seq(EntryRow) /\ Len(tail) = m
  <2>1. m \in Nat
    BY <1>7, <1>9
  <2>2. \A i \in 1 .. m : tail[i] \in EntryRow
    BY <1>5, <1>11
  <2>3. tail \in [1 .. m -> EntryRow]
    BY <1>10, <2>2
  <2>4. QED
    BY <2>1, <2>3
<1>13. entries' = entries \o tail
  BY <1>4, <1>7, <1>8, <1>9, <1>10
<1>14. /\ entries' \in Seq(EntryRow) /\ Len(entries') = Len(entries) + m
       /\ \A i \in 1 .. Len(entries) : entries'[i] = entries[i]
       /\ \A i \in 1 .. m : entries'[Len(entries) + i] = tail[i]
  <2>1. PICK s : s = entries
    OBVIOUS
  <2>2. s \in Seq(EntryRow) /\ Len(s) = Len(entries) /\ entries' = s \o tail
    BY <1>1, <1>13, <2>1
  <2>3. s \in Seq(EntryRow) /\ tail \in Seq(EntryRow)
    BY <1>12, <2>2
  <2>4. /\ s \o tail \in Seq(EntryRow) /\ Len(s \o tail) = Len(s) + Len(tail)
        /\ \A i \in 1 .. Len(s) : (s \o tail)[i] = s[i]
        /\ \A i \in 1 .. Len(tail) : (s \o tail)[Len(s) + i] = tail[i]
    BY <2>3, JoinedIs
  <2>5. QED
    BY <1>12, <2>1, <2>2, <2>4
<1>15. LedgerGrows
  BY <1>1, <1>12, <1>14 DEF LedgerGrows, SamePrefix
<1>16. account' \in AccountTable
  <2>1. \A a \in Accounts : account[a] \in {Missing} \cup AccountRow
    BY <1>1, LedgerFacts
  <2>2. \A a \in Accounts : account'[a] \in {Missing} \cup AccountRow
    BY <1>4, <1>5, <2>1
  <2>3. PICK t : t = account'
    OBVIOUS
  <2>4. t = [a \in Accounts |-> t[a]] /\ \A a \in Accounts : t[a] \in {Missing} \cup AccountRow
    BY <1>4, <2>2, <2>3
  <2>5. QED
    BY <2>3, <2>4 DEF AccountTable
<1>17. ASSUME NEW k \in 1 .. Len(entries'), k > Len(entries)
       PROVE  /\ k - Len(entries) \in 1 .. m /\ f[k - Len(entries)] \in accts
              /\ entries'[k] = After(f[k - Len(entries)])
              /\ entries'[k].acct = f[k - Len(entries)]
  <2>1. PICK i : i = k - Len(entries)
    OBVIOUS
  <2>2. i \in 1 .. m /\ k = Len(entries) + i
    BY <1>1, <1>12, <1>14, <1>17, <2>1
  <2>3. QED
    BY <1>5, <1>11, <1>14, <2>1, <2>2
<1>18. \A a \in accts : account'[a] = NextRow(Expiry(w, a), w)
  BY <1>3, <1>4
<1>19. \A a \in Accounts : a \notin accts => account'[a] = account[a]
  BY <1>4
<1>20. \A k \in 1 .. Len(entries') : k \in 1 .. Len(entries) \/ \E a \in accts : entries'[k] = After(a)
  <2> SUFFICES ASSUME NEW k \in 1 .. Len(entries')
               PROVE  k \in 1 .. Len(entries) \/ \E a \in accts : entries'[k] = After(a)
    OBVIOUS
  <2>1. CASE k > Len(entries)
    BY <1>17, <2>1
  <2>2. CASE ~(k > Len(entries))
    BY <1>1, <1>14, <2>2
  <2>3. QED
    BY <2>1, <2>2
<1>21. \A k, l \in 1 .. Len(entries') :
         k > Len(entries) /\ l > Len(entries) /\ entries'[k].acct = entries'[l].acct => k = l
  <2> SUFFICES ASSUME NEW k \in 1 .. Len(entries'), NEW l \in 1 .. Len(entries'),
                      k > Len(entries), l > Len(entries), entries'[k].acct = entries'[l].acct
               PROVE  k = l
    OBVIOUS
  <2>1. /\ k - Len(entries) \in 1 .. m /\ l - Len(entries) \in 1 .. m
        /\ f[k - Len(entries)] = f[l - Len(entries)]
    BY <1>17
  <2>2. k - Len(entries) = l - Len(entries)
    BY <1>7, <1>8, <1>9, <2>1
  <2>3. k \in Int /\ l \in Int
    OBVIOUS
  <2>4. QED
    BY <1>1, <2>2, <2>3
<1>22. \A a \in accts : \E k \in 1 .. Len(entries') : k > Len(entries) /\ entries'[k].acct = a
  <2> SUFFICES ASSUME NEW a \in accts
               PROVE  \E k \in 1 .. Len(entries') : k > Len(entries) /\ entries'[k].acct = a
    OBVIOUS
  <2>1. PICK i \in 1 .. m : f[i] = a
    BY <1>7, <1>8, <1>9
  <2>2. PICK k : k = Len(entries) + i
    OBVIOUS
  <2>3. k \in 1 .. Len(entries') /\ k > Len(entries) /\ k - Len(entries) = i
    BY <1>1, <1>12, <1>14, <2>2
  <2>4. QED
    BY <1>17, <2>1, <2>3
<1>23. QED
  BY <1>3, <1>4, <1>14, <1>15, <1>16, <1>18, <1>19, <1>20, <1>21, <1>22

(* After a close every account still follows its ledger.                   *)
LEMMA CloseFollows ==
  ASSUME LedgerIsSound, NEW w \in Workers, FinishClose(w)
  PROVE  AccountsFollow'
<1>1. LedgerTyped /\ dirty' = dirty
  BY DEF LedgerIsSound, FinishClose
<1>2. /\ Len(entries) \in Nat /\ Len(entries') \in Nat /\ Len(entries) <= Len(entries')
      /\ SamePrefix(entries, entries', Len(entries)) /\ entries' \in Seq(EntryRow)
  BY CloseWrites DEF LedgerGrows
<1>3. \A k \in 1 .. Len(entries') : entries'[k].after \in Int /\ InRange(entries'[k].after)
  <2>1. \A k \in 1 .. Len(entries') : entries'[k] \in EntryRow
    BY <1>2
  <2>2. QED
    BY <2>1, LedgerAssumption DEF EntryRow, Span, InRange
<1> SUFFICES ASSUME NEW a \in Accounts
             PROVE  Follows(entries', Len(entries'), a, account'[a], dirty)
  BY <1>1 DEF AccountsFollow
<1>4. Follows(entries', Len(entries), a, account[a], dirty)
  <2>1. Follows(entries, Len(entries), a, account[a], dirty)
    BY DEF LedgerIsSound, AccountsFollow
  <2>2. QED
    BY <1>2, <2>1, SnapshotStays
<1>5. CASE a \notin ToExpire(w)
  <2>1. account'[a] = account[a]
    BY <1>5, CloseWrites
  <2>2. ASSUME NEW k \in 1 .. Len(entries'), k > Len(entries) PROVE entries'[k].acct # a
    <3>1. k \notin 1 .. Len(entries)
      BY <1>2, <2>2
    <3>2. PICK b \in ToExpire(w) : entries'[k] = Entry(Expiry(w, b), NextRow(Expiry(w, b), w).bal)
      BY <3>1, CloseWrites
    <3>3. entries'[k].acct = b
      BY <3>2 DEF Entry, Expiry
    <3>4. QED
      BY <1>5, <3>3
  <2>3. Silent(entries', Len(entries), Len(entries') + 1, a)
    BY <1>2, <2>2 DEF Silent
  <2>4. QED
    BY <1>2, <1>4, <2>1, <2>3, UndisturbedFollows
<1>6. CASE a \in ToExpire(w)
  <2>1. PICK k \in 1 .. Len(entries') : k > Len(entries) /\ entries'[k].acct = a
    BY <1>6, CloseWrites
  <2>2. k \notin 1 .. Len(entries) /\ k \in Nat /\ Len(entries) < k /\ k <= Len(entries')
    BY <1>2, <2>1
  <2>3. PICK b \in ToExpire(w) : entries'[k] = Entry(Expiry(w, b), NextRow(Expiry(w, b), w).bal)
    BY <2>2, CloseWrites
  <2>4. b = a
    BY <2>1, <2>3 DEF Entry, Expiry
  <2>5. PICK amt : amt = -job[w].rows[a].bal
    OBVIOUS
  <2>6. amt \in Int /\ Applies(Row(a), amt) /\ account'[a] = NextRow(Expiry(w, a), w)
        /\ Expiry(w, a).amt = amt /\ Expiry(w, a).acct = a
    BY <1>6, <2>5, CloseWrites DEF Expiry
  <2>7. PICK base : base = Row(a)
    OBVIOUS
  <2>8. NextRow(Expiry(w, a), w) = [bal |-> base.bal + amt, ver |-> base.ver + 1]
    BY <2>6, <2>7 DEF NextRow, Apply
  <2>9. base \in AccountRow /\ base.bal \in Int
    BY <1>1, <2>7, LedgerFacts, LedgerAssumption DEF AccountRow, Span
  <2>10. PICK bal : bal = base.bal + amt
    OBVIOUS
  <2>11. entries'[k] = Entry(Expiry(w, a), bal)
    BY <2>3, <2>4, <2>8, <2>10
  <2>12. entries'[k].amt = amt /\ entries'[k].after = base.bal + amt
    BY <2>6, <2>10, <2>11 DEF Entry
  <2>13. ASSUME NEW l \in 1 .. Len(entries'), l > Len(entries), l # k PROVE entries'[l].acct # a
    BY <2>1, <2>13, CloseWrites
  <2>14. Silent(entries', Len(entries), k, a)
    BY <1>2, <2>1, <2>2, <2>13 DEF Silent
  <2>15. Silent(entries', k, Len(entries') + 1, a)
    BY <1>2, <2>1, <2>2, <2>13 DEF Silent
  <2>16. \A i \in 1 .. k : entries'[i].after \in Int
    BY <1>2, <1>3, <2>2
  <2>17. account[a] \in {Missing} \cup AccountRow
    BY <1>1, LedgerFacts
  <2>18. base = (IF account[a] = Missing THEN Fresh ELSE account[a])
    BY <2>7 DEF Row
  <2>19. InRange(entries'[k].after)
    BY <1>3, <2>1
  <2>20. Follows(entries', k, a, [bal |-> base.bal + amt, ver |-> base.ver + 1], dirty)
    BY <1>2, <1>4, <2>1, <2>2, <2>6, <2>9, <2>12, <2>14, <2>16, <2>17, <2>18, <2>19, PostedFollows
  <2>21. Follows(entries', k, a, account'[a], dirty)
    BY <2>6, <2>8, <2>20
  <2>22. QED
    BY <1>2, <2>2, <2>15, <2>21, UndisturbedFollows
<1>7. QED
  BY <1>5, <1>6

(* A close takes from each account of its period what its snapshot shows.  *)
LEMMA CloseTakes ==
  ASSUME LedgerIsSound, NEW w \in Workers, FinishClose(w)
  PROVE  ExpiriesAreLate' /\ CloseExpiresWhatItSaw'
<1>1. PICK p : p = job[w].period
  OBVIOUS
<1>2. PICK seen : seen = job[w].seen
  OBVIOUS
<1>3. PICK rows : rows = job[w].rows
  OBVIOUS
<1>4. /\ LedgerTyped /\ job[w].kind = "close" /\ ReadBefore(w) /\ ClosedAt(w) /\ ClosesAlone(w)
      /\ period' = [period EXCEPT ![p] = "closed"] /\ closing' = [closing EXCEPT ![p] = seen]
  BY <1>1, <1>2 DEF LedgerIsSound, JobsAreSound, FinishClose
<1>5. /\ p \in Periods /\ seen \in Nat /\ seen <= Len(entries) /\ rows \in AccountTable
      /\ period[p] # "closed"
  BY <1>1, <1>2, <1>3, <1>4, JobKinds DEF ReadBefore, ClosesAlone
<1>6. /\ Len(entries) \in Nat /\ Len(entries') \in Nat /\ Len(entries) <= Len(entries')
      /\ \A i \in 1 .. Len(entries) : i \in 1 .. Len(entries') /\ entries'[i] = entries[i]
  BY CloseWrites DEF LedgerGrows, SamePrefix
<1>7. /\ period'[p] = "closed" /\ closing'[p] = seen
      /\ \A q \in Periods : q # p => period'[q] = period[q] /\ closing'[q] = closing[q]
  BY <1>4, <1>5 DEF LedgerTyped
<1>8. ASSUME NEW k \in 1 .. Len(entries'), k \notin 1 .. Len(entries)
      PROVE  \E b \in ToExpire(w) :
               /\ b \in Accounts /\ PeriodOf(b) = p
               /\ entries'[k].op = "ticket_expire" /\ entries'[k].key = b
               /\ entries'[k].acct = b /\ entries'[k].amt = -rows[b].bal
  <2>1. PICK b \in ToExpire(w) : entries'[k] = Entry(Expiry(w, b), NextRow(Expiry(w, b), w).bal)
    BY <1>8, CloseWrites
  <2>2. b \in Accounts /\ PeriodOf(b) = p
    BY <1>1, CloseWrites
  <2>3. PICK bal : bal = NextRow(Expiry(w, b), w).bal
    OBVIOUS
  <2>4. entries'[k] = Entry(Expiry(w, b), bal)
    BY <2>1, <2>3
  <2>5. QED
    BY <1>3, <2>2, <2>4 DEF Entry, Expiry
<1>9. \A i \in 1 .. Len(entries) : entries[i].op = "ticket_expire" =>
        entries[i].key = entries[i].acct /\ period[PeriodOf(entries[i].acct)] = "closed"
  BY DEF LedgerIsSound, ExpiriesAreLate
<1>10. \A a \in Accounts : PeriodOf(a) \in Periods
  BY DEF Periods
<1>11. ExpiriesAreLate'
  <2>1. ASSUME NEW i \in 1 .. Len(entries'), entries'[i].op = "ticket_expire"
        PROVE  entries'[i].key = entries'[i].acct /\ period'[PeriodOf(entries'[i].acct)] = "closed"
    <3>1. CASE i \in 1 .. Len(entries)
      <4>1. entries'[i] = entries[i] /\ entries[i].acct \in Accounts
        BY <1>4, <1>6, <3>1, LedgerFacts
      <4>2. QED
        BY <1>7, <1>9, <1>10, <2>1, <3>1, <4>1
    <3>2. CASE i \notin 1 .. Len(entries)
      BY <1>7, <1>8, <3>2
    <3>3. QED
      BY <3>1, <3>2
  <2>2. ASSUME NEW q \in Periods PROVE closing'[q] <= Len(entries')
    <3>1. closing[q] \in Nat /\ closing[q] <= Len(entries)
      BY <1>4 DEF LedgerTyped, LedgerIsSound, ExpiriesAreLate
    <3>2. closing'[q] \in Nat /\ closing'[q] <= Len(entries)
      BY <1>5, <1>7, <3>1
    <3>3. QED
      BY <1>6, <3>2
  <2>3. QED
    BY <2>1, <2>2 DEF ExpiriesAreLate
<1>12. CloseExpiresWhatItSaw'
  <2> SUFFICES ASSUME NEW a \in Accounts
               PROVE  IF period'[PeriodOf(a)] = "closed" /\ AssetOf(a) = "ticket"
                         /\ Balance(entries', closing'[PeriodOf(a)], a) > 0
                      THEN \E i \in 1 .. Len(entries') :
                             /\ Expiries(a)' = {i}
                             /\ entries'[i].amt = -Balance(entries', closing'[PeriodOf(a)], a)
                      ELSE Expiries(a)' = {}
    BY DEF CloseExpiresWhatItSaw
  <2>1. PICK q : q = PeriodOf(a)
    OBVIOUS
  <2>2. q \in Periods
    BY <1>10, <2>1
  <2>3. Expiries(a)' = {i \in 1 .. Len(entries') : entries'[i].acct = a /\ entries'[i].op = "ticket_expire"}
    BY DEF Expiries, ListAccountEntries
  <2>4. Expiries(a) = {i \in 1 .. Len(entries) : entries[i].acct = a /\ entries[i].op = "ticket_expire"}
    BY DEF Expiries, ListAccountEntries
  <2>5. closing'[q] \in Nat /\ closing'[q] <= Len(entries)
    BY <1>4, <1>5, <1>7, <2>2 DEF LedgerTyped, LedgerIsSound, ExpiriesAreLate
  <2>6. Balance(entries', closing'[q], a) = Balance(entries, closing'[q], a)
    <3>1. PICK n : n = closing'[q]
      OBVIOUS
    <3>2. n \in Nat /\ SamePrefix(entries, entries', n)
      BY <1>6, <2>5, <3>1 DEF SamePrefix
    <3>3. Balance(entries', n, a) = Balance(entries, n, a)
      BY <3>2, PrefixStays
    <3>4. QED
      BY <3>1, <3>3
  <2>7. CASE q # p
    <3>1. period'[q] = period[q] /\ closing'[q] = closing[q]
      BY <1>7, <2>2, <2>7
    <3>2. Expiries(a)' = Expiries(a)
      <4>1. \A k \in 1 .. Len(entries') : k \notin 1 .. Len(entries) => entries'[k].acct # a
        BY <1>8, <2>1, <2>7
      <4>2. QED
        BY <1>6, <2>3, <2>4, <4>1
    <3>3. IF period[q] = "closed" /\ AssetOf(a) = "ticket" /\ Balance(entries, closing[q], a) > 0
          THEN \E i \in 1 .. Len(entries) :
                 Expiries(a) = {i} /\ entries[i].amt = -Balance(entries, closing[q], a)
          ELSE Expiries(a) = {}
      BY <2>1 DEF LedgerIsSound, CloseExpiresWhatItSaw
    <3>4. QED
      BY <1>6, <2>1, <2>6, <3>1, <3>2, <3>3
  <2>8. CASE q = p
    <3>1. period'[q] = "closed" /\ closing'[q] = seen
      BY <1>7, <2>8
    <3>2. \A k \in 1 .. Len(entries) : ~(entries'[k].acct = a /\ entries'[k].op = "ticket_expire")
      BY <1>5, <1>6, <1>9, <2>1, <2>8
    <3>3. InStep(entries, seen, a, rows[a])
      BY <1>1, <1>2, <1>3, <1>4, <2>1, <2>8 DEF ClosedAt
    <3>4. rows[a] \in {Missing} \cup AccountRow
      BY <1>5 DEF AccountTable
    <3>5. PICK old : old = Balance(entries, seen, a)
      OBVIOUS
    <3>6. rows[a] = Missing => old = 0
      BY <3>3, <3>5 DEF InStep, Balance
    <3>7. rows[a] # Missing => rows[a].bal = old /\ old \in Int
      <4> SUFFICES ASSUME rows[a] # Missing PROVE rows[a].bal = old /\ old \in Int
        OBVIOUS
      <4>1. rows[a] \in AccountRow /\ rows[a] # Broken
        BY <3>4, RowsDiffer
      <4>2. Rebuild(entries, seen, a) = rows[a]
        BY <3>3 DEF InStep
      <4>3. rows[a] = [bal |-> Balance(entries, seen, a),
                       ver |-> Cardinality(ListAccountEntries(entries, seen, a))]
        BY <4>1, <4>2 DEF Rebuild
      <4>4. rows[a].bal \in Int
        BY <4>1, LedgerAssumption DEF AccountRow, Span
      <4>5. QED
        BY <3>5, <4>3, <4>4
    <3>8. a \in ToExpire(w) <=> AssetOf(a) = "ticket" /\ rows[a] # Missing /\ rows[a].bal > 0
      BY <1>1, <1>3, <2>1, <2>8 DEF ToExpire
    <3>9. a \in ToExpire(w) <=> AssetOf(a) = "ticket" /\ old > 0
      BY <3>6, <3>7, <3>8
    <3>10. CASE a \in ToExpire(w)
      <4>1. PICK k \in 1 .. Len(entries') : k > Len(entries) /\ entries'[k].acct = a
        BY <3>10, CloseWrites
      <4>2. k \notin 1 .. Len(entries)
        BY <1>6, <4>1
      <4>3. entries'[k].op = "ticket_expire" /\ entries'[k].amt = -rows[a].bal
        BY <1>8, <4>1, <4>2
      <4>4. \A l \in 1 .. Len(entries') : l > Len(entries) /\ entries'[l].acct = a => l = k
        BY <4>1, CloseWrites
      <4>5. \A l \in 1 .. Len(entries') : l > Len(entries) \/ l \in 1 .. Len(entries)
        BY <1>6
      <4>6. Expiries(a)' = {k}
        BY <2>3, <3>2, <4>1, <4>3, <4>4, <4>5
      <4>7. entries'[k].amt = -old
        BY <3>7, <3>8, <3>10, <4>3
      <4>8. QED
        BY <2>1, <2>6, <3>1, <3>5, <3>9, <3>10, <4>6, <4>7
    <3>11. CASE a \notin ToExpire(w)
      <4>1. \A k \in 1 .. Len(entries') : k \notin 1 .. Len(entries) => entries'[k].acct # a
        BY <1>8, <3>11
      <4>2. Expiries(a)' = {}
        BY <2>3, <3>2, <4>1
      <4>3. QED
        BY <2>1, <2>6, <3>1, <3>5, <3>9, <3>11, <4>2
    <3>12. QED
      BY <3>10, <3>11
  <2>9. QED
    BY <2>7, <2>8
<1>13. QED
  BY <1>11, <1>12

(* The end of a close.                                                     *)
LEMMA FinishCloseStep ==
  ASSUME LedgerIsSound, NEW w \in Workers, FinishClose(w)
  PROVE  LedgerIsSound'
<1>1. PICK p : p = job[w].period
  OBVIOUS
<1>2. /\ LedgerTyped /\ job[w].kind = "close" /\ ClosesAlone(w)
      /\ period' = [period EXCEPT ![p] = "closed"]
      /\ closing' = [closing EXCEPT ![p] = job[w].seen]
      /\ job' = [job EXCEPT ![w] = Idle]
      /\ UNCHANGED <<adjusted, audit, answers, dirty, report>>
  BY <1>1 DEF LedgerIsSound, JobsAreSound, FinishClose, admin
<1>3. p \in Periods /\ job[w].seen \in Nat
  BY <1>1, <1>2, JobKinds
<1>4. account' \in AccountTable /\ entries' \in Seq(EntryRow) /\ LedgerGrows
  BY CloseWrites
<1>5. LedgerTyped'
  BY <1>2, <1>3, <1>4 DEF LedgerTyped
<1>6. \A v \in Workers : job'[v] = job[v] \/ job'[v].kind \notin {"close", "check"}
  BY <1>2 DEF LedgerTyped, Idle
<1>7. ASSUME NEW v \in Workers, job'[v].kind = "close"
      PROVE  period'[job[v].period] # "closed"
  <2>1. v # w /\ job'[v] = job[v] /\ job[v].kind = "close"
    BY <1>2, <1>7 DEF LedgerTyped, Idle
  <2>2. job[v].period # p
    BY <1>1, <1>2, <2>1 DEF ClosesAlone
  <2>3. job[v].period \in Periods /\ period[job[v].period] # "closed"
    BY <1>2, <2>1, JobKinds DEF LedgerIsSound, JobsAreSound, ClosesAlone
  <2>4. QED
    BY <1>2, <2>2, <2>3 DEF LedgerTyped
<1>8. JobsAreSound'
  BY <1>2, <1>4, <1>6, <1>7, JobsKept DEF LedgerIsSound
<1>9. /\ Len(entries) \in Nat /\ Len(entries') \in Nat
      /\ \A i \in 1 .. Len(entries) : entries'[i] = entries[i]
  BY <1>4 DEF LedgerGrows, SamePrefix
<1>10. ASSUME NEW k \in 1 .. Len(entries'), k \notin 1 .. Len(entries)
       PROVE  /\ k > Len(entries) /\ entries'[k].op = "ticket_expire"
              /\ entries'[k].key = entries'[k].acct /\ entries'[k].acct \in Accounts
              /\ PeriodOf(entries'[k].acct) = p
  <2>1. PICK b \in ToExpire(w) : entries'[k] = Entry(Expiry(w, b), NextRow(Expiry(w, b), w).bal)
    BY <1>10, CloseWrites
  <2>2. b \in Accounts /\ PeriodOf(b) = p
    BY <1>1, CloseWrites
  <2>3. QED
    BY <1>9, <1>10, <2>1, <2>2 DEF Entry, Expiry
<1>11. KeysAreUnique'
  <2> SUFFICES ASSUME NEW i \in 1 .. Len(entries'), NEW j \in 1 .. Len(entries'),
                      entries'[i].op = entries'[j].op, entries'[i].key = entries'[j].key
               PROVE  i = j
    BY DEF KeysAreUnique
  <2>1. ASSUME NEW k \in 1 .. Len(entries'), NEW l \in 1 .. Len(entries),
               k \notin 1 .. Len(entries),
               entries'[k].op = entries'[l].op, entries'[k].key = entries'[l].key
        PROVE  FALSE
    <3>1. entries'[l] = entries[l]
      BY <1>9
    <3>2. entries[l].op = "ticket_expire" /\ entries[l].key = entries'[k].acct
      BY <1>10, <2>1, <3>1
    <3>3. period[PeriodOf(entries[l].acct)] = "closed" /\ entries[l].key = entries[l].acct
      BY <3>2 DEF LedgerIsSound, ExpiriesAreLate
    <3>4. period[p] = "closed"
      BY <1>10, <2>1, <3>2, <3>3
    <3>5. QED
      BY <1>1, <1>2, <3>4 DEF ClosesAlone
  <2>2. CASE i \in 1 .. Len(entries) /\ j \in 1 .. Len(entries)
    BY <1>9, <2>2 DEF LedgerIsSound, KeysAreUnique
  <2>3. CASE i \notin 1 .. Len(entries) /\ j \notin 1 .. Len(entries)
    BY <1>10, <2>3, CloseWrites
  <2>4. QED
    BY <2>1, <2>2, <2>3
<1>12. AdjustmentsRecorded'
  <2>1. \A i \in 1 .. Len(entries') : i \in 1 .. Len(entries) \/ ~IsAdjustment(entries'[i])
    BY <1>10 DEF IsAdjustment
  <2>2. QED
    BY <1>2, <1>4, <2>1, AdjustmentsKept DEF LedgerIsSound
<1>13. ToldTheTruth'
  BY <1>2, <1>4, TruthIsTold DEF LedgerIsSound
<1>14. QED
  BY <1>2, <1>5, <1>8, <1>11, <1>12, <1>13, CloseFollows, CloseTakes DEF LedgerIsSound

(* The invariant is kept by every step.                                    *)
LEMMA LedgerStep == LedgerIsSound /\ [LedgerNext]_ledgerVars => LedgerIsSound'
<1> SUFFICES ASSUME LedgerIsSound, [LedgerNext]_ledgerVars PROVE LedgerIsSound'
  OBVIOUS
<1>1. LedgerTyped
  BY DEF LedgerIsSound
<1>2. ASSUME NEW w \in Workers, NEW c \in Appends, BeginAppend(w, c) PROVE LedgerIsSound'
  <2>1. PICK x : x = [kind |-> "append", cmd |-> c]
    OBVIOUS
  <2>2. x \in AppendJob
    BY <2>1 DEF AppendJob
  <2>3. job' = [job EXCEPT ![w] = x] /\ UNCHANGED <<ledger, admin, period, answers, closing, dirty, report>>
    BY <1>2, <2>1 DEF BeginAppend, notes
  <2>4. QED
    BY <2>2, <2>3, OpenStep
<1>3. ASSUME NEW w \in Workers, NEW p \in Periods, ListDue(w, p) PROVE LedgerIsSound'
  <2>1. PICK x : x = [kind |-> "listed", period |-> p]
    OBVIOUS
  <2>2. x \in ListedJob
    BY <2>1 DEF ListedJob
  <2>3. job' = [job EXCEPT ![w] = x] /\ UNCHANGED <<ledger, admin, period, answers, closing, dirty, report>>
    BY <1>3, <2>1 DEF ListDue, notes
  <2>4. QED
    BY <2>2, <2>3, OpenStep
<1>4. ASSUME NEW w \in Workers, RollBack(w) \/ AlreadyClosed(w) PROVE LedgerIsSound'
  <2>1. /\ job' = [job EXCEPT ![w] = Idle]
        /\ UNCHANGED <<ledger, admin, period, answers, closing, dirty, report>>
    BY <1>4 DEF RollBack, AlreadyClosed, notes
  <2>2. QED
    BY <2>1, OpenStep
<1>5. CASE UNCHANGED ledgerVars
  <2>1. UNCHANGED <<entries, account, adjusted, audit, period, job, answers, closing, dirty, report>>
    BY <1>5 DEF ledgerVars, ledger, admin, notes
  <2>2. LedgerTyped' /\ LedgerGrows
    BY <1>1, <2>1, NothingBooked DEF LedgerTyped
  <2>3. \A v \in Workers : job'[v].kind = "close" => period'[job[v].period] # "closed"
    BY <2>1 DEF LedgerIsSound, JobsAreSound, ClosesAlone
  <2>4. JobsAreSound'
    BY <1>1, <2>1, <2>2, <2>3, JobsKept DEF LedgerIsSound
  <2>5. ExpiriesAreLate' /\ CloseExpiresWhatItSaw'
    BY <1>1, <2>1, <2>2, ExpiriesKept DEF LedgerIsSound
  <2>6. QED
    BY <2>1, <2>2, <2>4, <2>5
       DEF LedgerIsSound, AccountsFollow, KeysAreUnique, AdjustmentsRecorded, ToldTheTruth
<1>6. QED
  BY <1>2, <1>3, <1>4, <1>5, FinishAppendStep, ReplayStep, AdjustStep, AdjustAgainStep,
     BeginCloseStep, FinishCloseStep, BeginCheckStep, FinishCheckStep, TamperStep, RebuildStep
     DEF LedgerNext

(* The empty ledger is sound.                                              *)
LEMMA LedgerStart == LedgerInit => LedgerIsSound
<1> SUFFICES ASSUME LedgerInit PROVE LedgerIsSound
  OBVIOUS
<1>1. /\ entries = <<>> /\ Len(entries) = 0 /\ answers = {} /\ dirty = {}
      /\ report.saw = {} /\ report.found = {}
      /\ account = [a \in Accounts |-> Missing] /\ job = [w \in Workers |-> Idle]
      /\ closing = [p \in Periods |-> 0] /\ period = [p \in Periods |-> "active"]
      /\ adjusted = [r \in Requests |-> None] /\ audit = [r \in Requests |-> 0]
  BY DEF LedgerInit
<1>2. LedgerTyped
  BY <1>1 DEF LedgerTyped, AccountTable
<1>3. \A a, n : n \in Int /\ n <= 0 => ListAccountEntries(entries, n, a) = {}
  BY DEF ListAccountEntries
<1>4. AccountsFollow
  BY <1>1, <1>3 DEF AccountsFollow, Follows, InStep
<1>5. JobsAreSound
  BY <1>1 DEF JobsAreSound, ReadBefore, CheckedAt, ClosedAt, ClosesAlone, Idle
<1>6. KeysAreUnique /\ AdjustmentsRecorded /\ ExpiriesAreLate /\ ToldTheTruth
  BY <1>1 DEF KeysAreUnique, AdjustmentsRecorded, ExpiriesAreLate, ToldTheTruth
<1>7. CloseExpiresWhatItSaw
  <2> SUFFICES ASSUME NEW a \in Accounts PROVE Expiries(a) = {} /\ period[PeriodOf(a)] # "closed"
    BY DEF CloseExpiresWhatItSaw
  <2>1. Expiries(a) = {}
    BY <1>1, <1>3 DEF Expiries
  <2>2. PeriodOf(a) \in Periods
    BY DEF Periods
  <2>3. QED
    BY <1>1, <2>1, <2>2
<1>8. QED
  BY <1>1, <1>2, <1>4, <1>5, <1>6, <1>7 DEF LedgerIsSound

(* Hence it holds always.                                                  *)
LEMMA LedgerIsAlwaysSound == LedgerSpec => []LedgerIsSound
  BY LedgerStart, LedgerStep, PTL DEF LedgerSpec

(* Whatever transactions interleave: an account that nobody changed from   *)
(* outside is the replay of its entries, and a check reports the others.   *)
THEOREM AccountsAlwaysReplay == LedgerSpec => []AccountsReplay
<1>1. LedgerIsSound => AccountsReplay
  <2> SUFFICES ASSUME LedgerIsSound, NEW a \in Accounts \ dirty, account[a] # Missing
               PROVE  InSync(account, Len(entries), a)
    BY DEF AccountsReplay, LedgerIsSound
  <2>1. Follows(entries, Len(entries), a, account[a], dirty)
    BY DEF LedgerIsSound, AccountsFollow
  <2>2. QED
    BY <2>1 DEF Follows, InStep, InSync
<1>2. QED
  BY <1>1, LedgerIsAlwaysSound, PTL

(* No race for a key and no repeated request makes two answers contradict  *)
(* each other or the ledger.                                               *)
THEOREM AnswersAlwaysStand == LedgerSpec => []AnswersStand
<1>1. LedgerIsSound => AnswersStand
  <2> SUFFICES ASSUME LedgerIsSound PROVE AnswersStand
    OBVIOUS
  <2>1. ASSUME NEW x \in answers, NEW y \in answers, x.op = y.op, x.key = y.key
        PROVE  x = y
    <3>1. /\ x.id \in 1 .. Len(entries) /\ entries[x.id].op = x.op /\ entries[x.id].key = x.key
          /\ Hash(entries[x.id]) = x.hash
          /\ y.id \in 1 .. Len(entries) /\ entries[y.id].op = y.op /\ entries[y.id].key = y.key
          /\ Hash(entries[y.id]) = y.hash
      BY DEF LedgerIsSound, ToldTheTruth
    <3>2. x.id = y.id
      BY <2>1, <3>1 DEF LedgerIsSound, KeysAreUnique
    <3>3. x.hash = y.hash
      BY <3>1, <3>2
    <3>4. x \in Told /\ y \in Told
      BY DEF LedgerIsSound, LedgerTyped
    <3>5. QED
      BY <2>1, <3>2, <3>3, <3>4 DEF Told
  <2>2. ASSUME NEW r \in Requests PROVE audit[r] = Cardinality(Adjusted(r))
    <3>1. CASE adjusted[r] = None
      <4>1. Adjusted(r) = {}
        BY <3>1 DEF LedgerIsSound, AdjustmentsRecorded, Adjusted, IsAdjustment
      <4>2. QED
        BY <3>1, <4>1, FS_EmptySet DEF LedgerIsSound, AdjustmentsRecorded
    <3>2. CASE adjusted[r] # None
      <4>1. PICK i : i = adjusted[r].id
        OBVIOUS
      <4>2. PICK c : c = adjusted[r].cmd
        OBVIOUS
      <4>3. /\ c.request = r /\ i \in 1 .. Len(entries)
            /\ entries[i] = Entry(AdjustmentEntry(c), entries[i].after)
        BY <3>2, <4>1, <4>2 DEF LedgerIsSound, AdjustmentsRecorded
      <4>4. c \in Adjustments
        BY <3>2, <4>2 DEF LedgerIsSound, LedgerTyped
      <4>5. PICK e : e = AdjustmentEntry(c)
        OBVIOUS
      <4>6. e.key = r /\ IsAdjustment(e)
        BY <4>3, <4>4, <4>5, AdjustmentIs
      <4>7. PICK x : x = Entry(e, entries[i].after)
        OBVIOUS
      <4>8. x.op = e.op /\ x.key = e.key
        BY <4>7 DEF Entry
      <4>9. entries[i].key = r /\ IsAdjustment(entries[i])
        BY <4>3, <4>5, <4>6, <4>7, <4>8 DEF IsAdjustment
      <4>10. Adjusted(r) = {i}
        BY <4>1, <4>3, <4>9 DEF LedgerIsSound, AdjustmentsRecorded, Adjusted, IsAdjustment
      <4>11. Cardinality(Adjusted(r)) = 1
        BY <4>10, FS_Singleton, Zenon
      <4>12. QED
        BY <3>2, <4>11 DEF LedgerIsSound, AdjustmentsRecorded
    <3>3. QED
      BY <3>1, <3>2
  <2>3. QED
    BY <2>1, <2>2 DEF AnswersStand, LedgerIsSound, ToldTheTruth
<1>2. QED
  BY <1>1, LedgerIsAlwaysSound, PTL

(* A close takes exactly the balances of its snapshot, once, whatever is   *)
(* booked while it works.                                                  *)
THEOREM ClosesTakeWhatTheySaw == LedgerSpec => []CloseExpiresWhatItSaw
<1>1. LedgerIsSound => CloseExpiresWhatItSaw
  BY DEF LedgerIsSound
<1>2. QED
  BY <1>1, LedgerIsAlwaysSound, PTL

=============================================================================
