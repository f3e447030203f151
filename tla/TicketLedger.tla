---------------------------- MODULE TicketLedger ----------------------------
(***************************************************************************)
(* The ledger of tickets and contribution, its accounts, and the close of  *)
(* a period.                                                               *)
(*                                                                         *)
(* pulse_ledger_entry only grows; pulse_account is derived from it.  Every *)
(* writer appends an entry and moves the account in one transaction, under *)
(* a lock on the account row.  The transactions run at REPEATABLE READ: a  *)
(* plain SELECT answers from the snapshot of the first plain SELECT of its *)
(* transaction, a locking one from what is committed.  A transaction that  *)
(* reads plainly before it locks is therefore two steps here, and the      *)
(* second one acts on what the first one saw.                              *)
(***************************************************************************)
EXTENDS Integers, Sequences, FiniteSets, SequencesExt

CONSTANTS
  Accounts,    (* <<user, period, asset>>, asset "ticket" or "contribution"*)
  Appends,     (* the entries that callers of Append request               *)
  Adjustments, (* the commands of administrators: request, acct, amt       *)
  Workers,     (* transactions that may be open at once                    *)
  Limit,       (* stands for math.MaxInt64                                 *)
  MaxTampers   (* bound on account rows changed outside of the program     *)

UserOf(a)   == a[1]
PeriodOf(a) == a[2]
AssetOf(a)  == a[3]
Periods     == {PeriodOf(a) : a \in Accounts}
Requests    == {c.request : c \in Adjustments}

(* Operations that only the close and the adjustments write.               *)
Reserved == {"ticket_expire", "ticket_adjustment", "contribution_adjustment"}

ASSUME LedgerAssumption ==
  /\ \A a \in Accounts : AssetOf(a) \in {"ticket", "contribution"}
  /\ \A c \in Appends : c.acct \in Accounts /\ c.amt \in Int /\ c.op \notin Reserved
  /\ \A c \in Adjustments : c.acct \in Accounts /\ c.amt \in Int
  /\ Limit \in Nat /\ MaxTampers \in Nat /\ IsFiniteSet(Accounts)

VARIABLES
  entries,  (* pulse_ledger_entry in the order of their commits            *)
  account,  (* pulse_account; Missing before the first use                 *)
  adjusted, (* pulse_idempotency of admin_adjustment                       *)
  audit,    (* pulse_audit_log: how many ledger_adjustment rows of each    *)
  period,   (* pulse_period.status of the periods that are due for a close *)
  job,      (* what each open transaction has read                         *)
  answers,  (* history: what callers were told                             *)
  closing,  (* history: how many entries the close of a period went by     *)
  dirty,    (* history: accounts changed outside and not repaired yet      *)
  report,   (* history: what the last CheckLedger saw and found            *)
  tampers   (* how many account rows were changed outside                  *)

ledger == <<entries, account>>
admin  == <<adjusted, audit>>
notes  == <<answers, closing, dirty, report, tampers>>
ledgerVars == <<ledger, admin, period, job, notes>>

None    == [id |-> 0]
Missing == [bal |-> 0, ver |-> -1]
Fresh   == [bal |-> 0, ver |-> 0]
Idle    == [kind |-> "idle"]
Row(a)  == IF account[a] = Missing THEN Fresh ELSE account[a]

InRange(n) == -Limit - 1 <= n /\ n <= Limit

LedgerTypeOK ==
  /\ \A i \in 1 .. Len(entries) :
       /\ entries[i].acct \in Accounts /\ entries[i].amt # 0
       /\ InRange(entries[i].after)
  /\ \A a \in Accounts : account[a] = Missing \/ (InRange(account[a].bal) /\ account[a].ver \in Nat)
  /\ adjusted \in [Requests -> {None} \cup {[cmd |-> c, id |-> i] : c \in Adjustments, i \in 1 .. Len(entries)}]
  /\ audit \in [Requests -> Nat]
  /\ period \in [Periods -> {"active", "settling", "closed"}]
  /\ \A w \in Workers : job[w].kind \in {"idle", "append", "listed", "close", "check"}

LedgerInit ==
  /\ entries = <<>> /\ account = [a \in Accounts |-> Missing]
  /\ adjusted = [r \in Requests |-> None] /\ audit = [r \in Requests |-> 0]
  /\ period = [p \in Periods |-> "active"]
  /\ job = [w \in Workers |-> Idle]
  /\ answers = {} /\ closing = [p \in Periods |-> 0]
  /\ dirty = {} /\ report = [saw |-> {}, found |-> {}] /\ tampers = 0
-----------------------------------------------------------------------------
(* The domain of the ledger.                                               *)

Credits == {"contribution_earn", "ticket_mint", "ticket_bonus"}
Debits  == {"ticket_spend", "ticket_expire"}
Of(asset) ==
  IF asset = "ticket"
  THEN {"ticket_mint", "ticket_bonus", "ticket_spend", "ticket_expire", "ticket_adjustment"}
  ELSE {"contribution_earn", "contribution_adjustment"}

(* The sign of an entry follows from its operation, and the operation      *)
(* belongs to the asset.  (Reversals point at the entry they negate; no    *)
(* code writes them since usage is no longer ingested.)                    *)
ValidateEntry(e) ==
  /\ e.amt # 0 /\ e.op \in Of(AssetOf(e.acct))
  /\ e.op \in Credits => e.amt > 0
  /\ e.op \in Debits => e.amt < 0

(* Apply adds up in int64 and refuses to overflow.                         *)
Applies(row, amt) == InRange(row.bal + amt)
Apply(row, amt)   == [bal |-> row.bal + amt, ver |-> row.ver + 1]

(* The entries of an account among the first n, and the balance that the   *)
(* last of them recorded.                                                  *)
ListAccountEntries(es, n, a) == {i \in 1 .. n : es[i].acct = a}
Balance(es, n, a) ==
  LET mine == ListAccountEntries(es, n, a)
  IN IF mine = {} THEN 0 ELSE es[Max(mine)].after

(* Rebuild replays them from nothing and compares every balance that they  *)
(* recorded: it fails, or arrives where the last of them says.             *)
Replays(es, n, a) ==
  \A i \in ListAccountEntries(es, n, a) :
    InRange(es[i].after) /\ es[i].after = Balance(es, i - 1, a) + es[i].amt

Broken == [bal |-> 0, ver |-> -2]
Rebuild(es, n, a) ==
  IF Replays(es, n, a)
  THEN [bal |-> Balance(es, n, a), ver |-> Cardinality(ListAccountEntries(es, n, a))]
  ELSE Broken

(* The unique key (operation, idempotency_key).                            *)
FindByIdempotency(es, c) == {i \in 1 .. Len(es) : es[i].op = c.op /\ es[i].key = c.key}
Hash(c) == <<c.acct, c.amt>>

(* Mutant: a key is answered whatever was asked for under it.              *)
ReusesAnything(c, e) == TRUE
Reuses(c, e) == Hash(c) = Hash(e)
Answer(c, i) == [op |-> c.op, key |-> c.key, hash |-> Hash(c), id |-> i]

(* Mutant: the close moves an account from the row in its snapshot.        *)
NextFromView(c, w) == Apply(IF job[w].kind = "close" THEN job[w].rows[c.acct] ELSE Row(c.acct), c.amt)

(* The account moves from the row that is locked now.                      *)
NextRow(c, w) == Apply(Row(c.acct), c.amt)

Entry(c, after) == [op |-> c.op, key |-> c.key, acct |-> c.acct, amt |-> c.amt, after |-> after]

(* Both writes of appendEntry; the account lock fences its version.        *)
Write(c, next) ==
  /\ entries' = Append(entries, Entry(c, next.bal))
  /\ account' = [account EXCEPT ![c.acct] = next]
-----------------------------------------------------------------------------
(* LedgerService.Append.                                                   *)

(* The first look at the key takes the snapshot.  A key that is known      *)
(* already is answered at once, or refused for another payload.            *)
BeginAppend(w, c) ==
  /\ job[w] = Idle /\ ValidateEntry(c)
  /\ FindByIdempotency(entries, c) = {}
  /\ job' = [job EXCEPT ![w] = [kind |-> "append", cmd |-> c]]
  /\ UNCHANGED <<ledger, admin, period, notes>>

Replay(c) ==
  /\ ValidateEntry(c)
  /\ \E i \in FindByIdempotency(entries, c) :
       /\ Reuses(c, entries[i])
       /\ answers' = answers \cup {Answer(c, i)}
  /\ UNCHANGED <<ledger, admin, period, job, closing, dirty, report, tampers>>

(* After the account is locked the key is looked up again, in the same     *)
(* snapshot, so that the second look finds nothing either.  If another     *)
(* transaction has appended the key meanwhile, the unique index refuses    *)
(* the insert and the whole transaction rolls back.                        *)
FinishAppend(w) ==
  /\ job[w].kind = "append"
  /\ LET c == job[w].cmd
     IN /\ FindByIdempotency(entries, c) = {} /\ Applies(Row(c.acct), c.amt)
        /\ Write(c, NextRow(c, w))
        /\ answers' = answers \cup {Answer(c, Len(entries) + 1)}
  /\ job' = [job EXCEPT ![w] = Idle]
  /\ UNCHANGED <<admin, period, closing, dirty, report, tampers>>

(* A duplicate key, an overflow, an error of the database or a crash.      *)
RollBack(w) ==
  /\ job[w] # Idle
  /\ job' = [job EXCEPT ![w] = Idle]
  /\ UNCHANGED <<ledger, admin, period, notes>>
-----------------------------------------------------------------------------
(* AdminAdjustmentService.Apply: the row of the request serialises all     *)
(* calls for it, and the entry's key belongs to the request, so that the   *)
(* transaction is one step from the account lock on.                       *)

(* A ticket balance cannot be adjusted below zero.                         *)
Covered(c) == c.amt > 0 \/ AssetOf(c.acct) # "ticket" \/ -c.amt <= Row(c.acct).bal

AdjustmentEntry(c) ==
  [op |-> IF AssetOf(c.acct) = "ticket" THEN "ticket_adjustment" ELSE "contribution_adjustment",
   key |-> c.request, acct |-> c.acct, amt |-> c.amt]

Adjust(w, c) ==
  /\ job[w] = Idle /\ adjusted[c.request] = None
  /\ ValidateEntry(AdjustmentEntry(c)) /\ Covered(c) /\ Applies(Row(c.acct), c.amt)
  /\ LET e == AdjustmentEntry(c)
     IN /\ Write(e, NextRow(e, w))
        /\ answers' = answers \cup {Answer(e, Len(entries) + 1)}
  /\ audit' = [audit EXCEPT ![c.request] = @ + 1]
  /\ adjusted' = [adjusted EXCEPT ![c.request] = [cmd |-> c, id |-> Len(entries) + 1]]
  /\ UNCHANGED <<period, job, closing, dirty, report, tampers>>

(* A request that was answered is answered again; with another payload it  *)
(* is refused.                                                             *)
AdjustAgain(c) ==
  /\ adjusted[c.request] # None /\ adjusted[c.request].cmd = c
  /\ answers' = answers \cup {Answer(AdjustmentEntry(c), adjusted[c.request].id)}
  /\ UNCHANGED <<ledger, admin, period, job, closing, dirty, report, tampers>>
-----------------------------------------------------------------------------
(* PeriodCloseService.RunOnce: one transaction lists what is due, another  *)
(* one closes each period.                                                 *)

ListDue(w, p) ==
  /\ job[w] = Idle /\ period[p] \in {"active", "settling"}
  /\ job' = [job EXCEPT ![w] = [kind |-> "listed", period |-> p]]
  /\ UNCHANGED <<ledger, admin, period, notes>>

Locked(p) == \E w \in Workers : job[w].kind = "close" /\ job[w].period = p

(* Another worker has closed the period since the listing.                 *)
AlreadyClosed(w) ==
  /\ job[w].kind = "listed" /\ period[job[w].period] = "closed"
  /\ job' = [job EXCEPT ![w] = Idle]
  /\ UNCHANGED <<ledger, admin, period, notes>>

Rows(p) == {a \in Accounts : PeriodOf(a) = p /\ account[a] # Missing}
InSync(rows, n, a) == Rebuild(entries, n, a) = rows[a]

(* The period is locked and its accounts are listed, which takes the       *)
(* snapshot; every account must be what its entries make it, or the close  *)
(* fails and is tried again on the next tick.                              *)
BeginClose(w) ==
  /\ job[w].kind = "listed"
  /\ LET p == job[w].period
     IN /\ period[p] # "closed" /\ ~Locked(p)
        /\ \A a \in Rows(p) : InSync(account, Len(entries), a)
        /\ job' = [job EXCEPT ![w] = [kind |-> "close", period |-> p, rows |-> account,
                                      seen |-> Len(entries)]]
  /\ UNCHANGED <<ledger, admin, period, notes>>

Expiry(w, a) == [op |-> "ticket_expire", key |-> a, acct |-> a, amt |-> -job[w].rows[a].bal]

(* Mutant: the last ticket of an account stays.                            *)
ToExpireButLast(w) ==
  {a \in Accounts : /\ PeriodOf(a) = job[w].period /\ AssetOf(a) = "ticket"
                    /\ job[w].rows[a] # Missing /\ job[w].rows[a].bal > 1}

(* The accounts with tickets left, as the snapshot lists them.             *)
ToExpire(w) ==
  {a \in Accounts : /\ PeriodOf(a) = job[w].period /\ AssetOf(a) = "ticket"
                    /\ job[w].rows[a] # Missing /\ job[w].rows[a].bal > 0}

(* One entry for each of these accounts, of the balance in the snapshot    *)
(* but on top of the balance that is locked now, and the period is closed. *)
FinishClose(w) ==
  /\ job[w].kind = "close"
  /\ LET accts == ToExpire(w)
         new   == SetToSeq(accts)
     IN /\ \A a \in accts : Applies(Row(a), Expiry(w, a).amt)
        /\ entries' = entries \o [i \in 1 .. Len(new) |->
                                    Entry(Expiry(w, new[i]), NextRow(Expiry(w, new[i]), w).bal)]
        /\ account' = [a \in Accounts |-> IF a \in accts THEN NextRow(Expiry(w, a), w) ELSE account[a]]
  /\ period' = [period EXCEPT ![job[w].period] = "closed"]
  /\ closing' = [closing EXCEPT ![job[w].period] = job[w].seen]
  /\ job' = [job EXCEPT ![w] = Idle]
  /\ UNCHANGED <<admin, answers, dirty, report, tampers>>
-----------------------------------------------------------------------------
(* Repair and diagnosis.                                                   *)

(* A row of pulse_account is changed outside of the program.               *)
Tamper(a) ==
  /\ tampers < MaxTampers /\ account[a] # Missing /\ account[a].bal < Limit
  /\ account' = [account EXCEPT ![a].bal = @ + 1]
  /\ dirty' = dirty \cup {a} /\ tampers' = tampers + 1
  /\ UNCHANGED <<entries, admin, period, job, answers, closing, report>>

(* RebuildAccount locks the account, which creates it if it is missing,    *)
(* before it reads the entries.  Entries that contradict each other leave  *)
(* the row as it is.                                                       *)
RebuildAccount(a) ==
  /\ Rebuild(entries, Len(entries), a) \notin {Broken, account[a]}
  /\ account' = [account EXCEPT ![a] = Rebuild(entries, Len(entries), a)]
  /\ dirty' = dirty \ {a}
  /\ UNCHANGED <<entries, admin, period, job, answers, closing, report, tampers>>

(* CheckLedger lists the accounts, and then the entries of each.           *)
BeginCheck(w) ==
  /\ job[w] = Idle
  /\ job' = [job EXCEPT ![w] = [kind |-> "check", rows |-> account, seen |-> Len(entries),
                                dirty |-> dirty]]
  /\ UNCHANGED <<ledger, admin, period, notes>>

FinishCheck(w) ==
  /\ job[w].kind = "check"
  /\ report' = [saw |-> job[w].dirty,
                found |-> {a \in Accounts : job[w].rows[a] # Missing
                                            /\ ~InSync(job[w].rows, job[w].seen, a)}]
  /\ job' = [job EXCEPT ![w] = Idle]
  /\ UNCHANGED <<ledger, admin, period, answers, closing, dirty, tampers>>
-----------------------------------------------------------------------------
LedgerNext ==
  \/ \E w \in Workers, c \in Appends : BeginAppend(w, c)
  \/ \E c \in Appends : Replay(c)
  \/ \E w \in Workers, c \in Adjustments : Adjust(w, c)
  \/ \E c \in Adjustments : AdjustAgain(c)
  \/ \E w \in Workers, p \in Periods : ListDue(w, p)
  \/ \E w \in Workers : \/ FinishAppend(w) \/ RollBack(w) \/ AlreadyClosed(w)
                        \/ BeginClose(w) \/ FinishClose(w) \/ BeginCheck(w) \/ FinishCheck(w)
  \/ \E a \in Accounts : Tamper(a) \/ RebuildAccount(a)

LedgerSpec == LedgerInit /\ [][LedgerNext]_ledgerVars
-----------------------------------------------------------------------------
(* Whatever transactions interleave, an account row that nobody changed    *)
(* outside is what its entries add up to, one version for each, and every  *)
(* entry recorded the balance that the entries before it left.  CheckLedger*)
(* reports the accounts that were changed and no other: a transaction that *)
(* commits while it reads raises no alarm.                                 *)
AccountsReplay ==
  /\ \A a \in Accounts \ dirty : account[a] # Missing => InSync(account, Len(entries), a)
  /\ report.found = report.saw

(* The entries that the request of an adjustment has written.              *)
Adjusted(r) ==
  {i \in 1 .. Len(entries) :
     entries[i].op \in {"ticket_adjustment", "contribution_adjustment"} /\ entries[i].key = r}

(* A key stands for one entry: all callers that were told of success under *)
(* it asked for the same thing and were given the same entry, which is     *)
(* that thing, also after a race for the key and after a repeated request. *)
(* An adjustment is audited as often as it is written.                     *)
AnswersStand ==
  /\ \A x, y \in answers : x.op = y.op /\ x.key = y.key => x = y
  /\ \A x \in answers : LET e == entries[x.id]
                        IN e.op = x.op /\ e.key = x.key /\ Hash(e) = x.hash
  /\ \A r \in Requests : audit[r] = Cardinality(Adjusted(r))

(* The entries by which closes took tickets from an account.               *)
Expiries(a) == {i \in ListAccountEntries(entries, Len(entries), a) : entries[i].op = "ticket_expire"}

(* A close takes from every account of its period, in one entry, the       *)
(* balance that its snapshot shows, and nothing from an account that shows *)
(* none: what was booked since, before or after the commit of the close,   *)
(* is kept, and nothing is taken before the close or twice.                *)
CloseExpiresWhatItSaw ==
  \A a \in Accounts :
    LET seen == Balance(entries, closing[PeriodOf(a)], a)
    IN IF period[PeriodOf(a)] = "closed" /\ AssetOf(a) = "ticket" /\ seen > 0
       THEN \E i \in 1 .. Len(entries) : Expiries(a) = {i} /\ entries[i].amt = -seen
       ELSE Expiries(a) = {}
=============================================================================
