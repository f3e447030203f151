---------------------------- MODULE ContentReview ----------------------------
(***************************************************************************)
(* Content of the forum becomes candidates for a reward, and reviewers     *)
(* award it.                                                               *)
(*                                                                         *)
(* Ingestion reads a page of questions behind a cursor, outside of any     *)
(* transaction, and then stores one question and moves the cursor in one   *)
(* transaction each.  Several workers may do so at once, with pages that   *)
(* were read at different times.                                           *)
(*                                                                         *)
(* A review locks its request and its candidate, and reads the award of    *)
(* its action, which takes the snapshot of the transaction.  Only then it  *)
(* waits for the one guard row of all limits, and sums up what the limits  *)
(* are about with locking reads.                                           *)
(*                                                                         *)
(* A reversal takes the quota back in new-api and then runs two            *)
(* transactions: the first reverses the grant and returns its amount to    *)
(* the budget, the second reverses the award, which is what the limits     *)
(* count.  The second may come late, or never.                             *)
(***************************************************************************)
EXTENDS Integers, FiniteSets, FiniteSetsExt

CONSTANTS
  Questions,     (* ids of questions of the forum: positive numbers         *)
  Author,        (* their authors                                           *)
  Ingesters,     (* workers that ingest                                     *)
  Reviews,       (* commands: request, q, version, amount                   *)
  Reviewers,     (* transactions of reviewers                               *)
  PageLimit,     (* BatchSize                                               *)
  MaxUser,       (* MaxUserPeriodAmount                                     *)
  MaxDaily,      (* MaxDailyAmount                                          *)
  ContentCap,    (* hard cap of the content budget                          *)
  MaxDay,        (* bound on the days                                       *)
  MaxEdits       (* bound on edits of titles and of visibility              *)

ASSUME ContentAssumption ==
  /\ Questions \subseteq Nat \ {0} /\ IsFiniteSet(Questions) /\ IsFiniteSet(Reviews)
  /\ \A c \in Reviews : c.q \in Questions /\ c.amount \in Nat \ {0} /\ c.version \in Nat
  /\ PageLimit \in Nat \ {0} /\ MaxEdits \in Nat /\ MaxDay \in Nat
  /\ MaxUser \in Nat /\ MaxDaily \in Nat /\ ContentCap \in Nat

VARIABLES
  question,   (* the forum: hash of what is rewarded, visible or not        *)
  candidate,  (* pulse_content_candidate                                    *)
  cursor,     (* pulse_worker_cursor of forum_content                       *)
  conflicts,  (* pulse_ingest_conflict                                      *)
  page,       (* what each ingester has fetched and not processed           *)
  award,      (* pulse_content_award by action                              *)
  reviewed,   (* pulse_idempotency of content_award                         *)
  reserved,   (* reserved and settled amount of the content budget          *)
  released,   (* actions whose grant is reversed, its amount given back     *)
  review,     (* what each review transaction has read                      *)
  today,      (* the business day                                           *)
  edits,      (* how often the forum has changed a question                 *)
  late,       (* history: questions committed after one of a greater id     *)
  ineligible  (* history: questions that were not visible when fetched      *)

ingestVars == <<question, candidate, cursor, conflicts, page, edits, late, ineligible>>
reviewVars == <<award, reviewed, reserved, released, review, today>>
contentVars == <<ingestVars, reviewVars>>

Unpublished == [hash |-> 0, show |-> FALSE]
NoCandidate == [status |-> "none"]
NoAward     == [status |-> "none", user |-> "none", amount |-> 0, day |-> 0]
NotReviewing == [pc |-> "none"]
NoPage      == [from |-> 0, rows |-> {}]
Actions     == {<<c.q, c.version>> : c \in Reviews}

(* Questions up to some id may have been ingested before.                  *)
ContentInit ==
  \E n \in {0} \cup Questions :
    /\ question = [q \in Questions |-> IF q <= n THEN [hash |-> 1, show |-> TRUE] ELSE Unpublished]
    /\ candidate = [q \in Questions |-> IF q <= n THEN [status |-> "pending", hash |-> 1] ELSE NoCandidate]
    /\ cursor = n /\ conflicts = {} /\ page = [w \in Ingesters |-> NoPage]
    /\ award = [a \in Actions |-> NoAward] /\ reviewed = {}
    /\ reserved = 0 /\ released = {}
    /\ review = [r \in Reviewers |-> NotReviewing]
    /\ today = 0 /\ edits = 0 /\ late = {} /\ ineligible = {}
-----------------------------------------------------------------------------
(* The forum.  Questions commit in any order of their ids.                 *)

Published == {q \in Questions : question[q] # Unpublished}

Publish(q) ==
  /\ q \notin Published
  /\ question' = [question EXCEPT ![q] = [hash |-> 1, show |-> TRUE]]
  /\ late' = IF \E p \in Published : q < p THEN late \cup {q} ELSE late
  /\ UNCHANGED <<candidate, cursor, conflicts, page, edits, ineligible, reviewVars>>

Edit(q) ==
  /\ q \in Published /\ edits < MaxEdits /\ edits' = edits + 1
  /\ \/ question' = [question EXCEPT ![q].hash = @ + 1]
     \/ question' = [question EXCEPT ![q].show = ~@]
  /\ UNCHANGED <<candidate, cursor, conflicts, page, late, ineligible, reviewVars>>
-----------------------------------------------------------------------------
(* IngestBatch.                                                            *)

(* The first PageLimit questions behind the cursor, eligible or not.       *)
Behind(c) ==
  {q \in Published : q > c /\ Cardinality({p \in Published : c < p /\ p < q}) < PageLimit}

Fetch(w) ==
  /\ page[w].rows = {} /\ Behind(cursor) # {}
  /\ page' = [page EXCEPT ![w] =
                [from |-> cursor,
                 rows |-> {[id |-> q, hash |-> question[q].hash, skip |-> ~question[q].show] :
                             q \in Behind(cursor)}]]
  /\ UNCHANGED <<question, candidate, cursor, conflicts, edits, late, ineligible, reviewVars>>

HeadRow(w) == CHOOSE r \in page[w].rows : \A s \in page[w].rows : r.id <= s.id

(* cursorAdvanced: another worker has moved the cursor, and not just to    *)
(* the question at hand.                                                   *)
Advanced(w, r) == cursor # page[w].from /\ cursor # r.id

(* The page is dropped: the cursor was moved by another worker, or an      *)
(* error or a crash ends the batch.                                        *)
DropPage(w) ==
  /\ page[w].rows # {}
  /\ page' = [page EXCEPT ![w] = NoPage]
  /\ UNCHANGED <<question, candidate, cursor, conflicts, edits, late, ineligible, reviewVars>>

(* A new question becomes a candidate, a known one is compared, an         *)
(* ineligible one is skipped.                                              *)
Ingested(r) ==
  IF r.skip \/ candidate[r.id] # NoCandidate THEN candidate
  ELSE [candidate EXCEPT ![r.id] = [status |-> "pending", hash |-> r.hash]]

Conflicting(r) ==
  IF ~r.skip /\ candidate[r.id] # NoCandidate /\ candidate[r.id].hash # r.hash
  THEN conflicts \cup {<<r.id, r.hash>>} ELSE conflicts

(* Mutant: the cursor moves to the end of the page at once.                *)
PageEnd(w, r) == Max({s.id : s \in page[w].rows})
NextCursor(w, r) == r.id

ProcessOne(w) ==
  /\ page[w].rows # {}
  /\ LET r == HeadRow(w)
     IN /\ ~Advanced(w, r)
        /\ candidate' = Ingested(r) /\ conflicts' = Conflicting(r)
        /\ cursor' = NextCursor(w, r)
        /\ ineligible' = IF r.skip THEN ineligible \cup {r.id} ELSE ineligible
        /\ page' = [page EXCEPT ![w] = [from |-> r.id, rows |-> @.rows \ {r}]]
  /\ UNCHANGED <<question, edits, late, reviewVars>>
-----------------------------------------------------------------------------
(* ReviewAndAward.                                                         *)

ActionOf(c)  == <<c.q, c.version>>
CandidateLocked(q) == \E r \in Reviewers : review[r] # NotReviewing /\ review[r].cmd.q = q
RequestLocked(n)   == \E r \in Reviewers : review[r] # NotReviewing /\ review[r].cmd.request = n

(* The request and the candidate are locked; the action is new.  The       *)
(* plain read of its award is the snapshot of the transaction.  The clock  *)
(* was read before the locks were waited for, so its day may be over.      *)
BeginReview(r, c) ==
  /\ review[r] = NotReviewing
  /\ ~CandidateLocked(c.q) /\ ~RequestLocked(c.request)
  /\ \A d \in reviewed : d.request # c.request
  /\ candidate[c.q].status \in {"pending", "approved"}
  /\ award[ActionOf(c)] = NoAward
  /\ \E day \in 0 .. today :
       review' = [review EXCEPT ![r] = [pc |-> "limits", cmd |-> c, day |-> day, awards |-> award]]
  /\ UNCHANGED <<ingestVars, award, reviewed, reserved, released, today>>

(* An award of the same action with the same content is answered again.    *)
KnownAward(c) ==
  /\ \A d \in reviewed : d.request # c.request
  /\ ~CandidateLocked(c.q) /\ ~RequestLocked(c.request)
  /\ award[ActionOf(c)] # NoAward /\ award[ActionOf(c)].amount = c.amount
  /\ reviewed' = reviewed \cup {c}
  /\ UNCHANGED <<ingestVars, award, reserved, released, review, today>>

(* Mutant: the sums are plain reads.                                       *)
AwardsInSnapshot(r) == review[r].awards

(* The sums are locking reads: they see what is committed.                 *)
AwardsNow(r) == award

ActiveAwards(as) == {a \in Actions : as[a].status \in {"pending", "settled"}}

(* The sum of the amounts of the awards of S, as a number of quota units.  *)
UnitsOf(as, S) == UNION {{a} \X (1 .. as[a].amount) : a \in S}
SumOf(as, S)   == Cardinality(UnitsOf(as, S))

SumUserActive(as, u)  == SumOf(as, {a \in ActiveAwards(as) : as[a].user = u})
SumDailyActive(as, d) == SumOf(as, {a \in ActiveAwards(as) : as[a].day = d})

WithinLimits(r) ==
  LET c == review[r].cmd
  IN /\ SumUserActive(AwardsNow(r), Author[c.q]) + c.amount <= MaxUser
     /\ SumDailyActive(AwardsNow(r), review[r].day) + c.amount <= MaxDaily

(* Under the guard row the award is granted, or kept as limited; either    *)
(* approves the candidate and answers the request.  A budget that cannot   *)
(* reserve the amount fails the transaction.                               *)
FinishReview(r) ==
  /\ review[r] # NotReviewing
  /\ LET c  == review[r].cmd
         ok == WithinLimits(r)
     IN /\ ok => reserved + c.amount <= ContentCap
        /\ award' = [award EXCEPT ![ActionOf(c)] =
                       [status |-> IF ok THEN "pending" ELSE "limited", user |-> Author[c.q],
                        amount |-> c.amount, day |-> review[r].day]]
        /\ reserved' = IF ok THEN reserved + c.amount ELSE reserved
        /\ candidate' = [candidate EXCEPT ![c.q].status = "approved"]
        /\ reviewed' = reviewed \cup {c}
  /\ review' = [review EXCEPT ![r] = NotReviewing]
  /\ UNCHANGED <<question, cursor, conflicts, page, edits, late, ineligible, released, today>>

AbortReview(r) ==
  /\ review[r] # NotReviewing
  /\ review' = [review EXCEPT ![r] = NotReviewing]
  /\ UNCHANGED <<ingestVars, award, reviewed, reserved, released, today>>

(* The settlement of the grant marks the award in its own transaction.     *)
SettleAward(a) ==
  /\ award[a].status = "pending"
  /\ award' = [award EXCEPT ![a].status = "settled"]
  /\ UNCHANGED <<ingestVars, reviewed, reserved, released, review, today>>

(* The rollback of a settled grant, which new-api has taken back, gives    *)
(* its amount back to the budget, once.  An operator who rolls back the    *)
(* grant itself does just this.                                            *)
ReleaseGrant(a) ==
  /\ award[a].status = "settled" /\ a \notin released
  /\ released' = released \cup {a}
  /\ reserved' = reserved - award[a].amount
  /\ UNCHANGED <<ingestVars, award, reviewed, review, today>>

(* The award is reversed only when its grant is.                           *)
ReverseAward(a) ==
  /\ award[a].status = "settled" /\ a \in released
  /\ award' = [award EXCEPT ![a].status = "reversed"]
  /\ UNCHANGED <<ingestVars, reviewed, reserved, released, review, today>>

NextDay == today < MaxDay /\ today' = today + 1 /\ UNCHANGED <<ingestVars, award, reviewed, reserved, released, review>>

IngestNext ==
  \/ \E q \in Questions : Publish(q) \/ Edit(q)
  \/ \E w \in Ingesters : Fetch(w) \/ DropPage(w) \/ ProcessOne(w)

ReviewNext ==
  \/ \E r \in Reviewers, c \in Reviews : BeginReview(r, c)
  \/ \E c \in Reviews : KnownAward(c)
  \/ \E r \in Reviewers : FinishReview(r) \/ AbortReview(r)
  \/ \E a \in Actions : SettleAward(a) \/ ReleaseGrant(a) \/ ReverseAward(a)
  \/ NextDay

ContentNext == IngestNext \/ ReviewNext

ContentSpec == ContentInit /\ [][ContentNext]_contentVars
-----------------------------------------------------------------------------
(* The awards whose amount the budget still holds.                         *)
HeldAwards == ActiveAwards(award) \ released

(* No two reviewers together award an author more than a period allows, or *)
(* a day more than it allows, although neither sees the other's award      *)
(* before it commits.  The budget holds what the awards add up to whose    *)
(* grants are not reversed, between the two transactions of a reversal     *)
(* too; and an award leaves the limits only when its amount has been given *)
(* back.                                                                   *)
AwardLimitsHold ==
  /\ \A q \in Questions : SumUserActive(award, Author[q]) <= MaxUser
  /\ \A d \in 0 .. today : SumDailyActive(award, d) <= MaxDaily
  /\ reserved = SumOf(award, HeldAwards)
  /\ \A a \in Actions : award[a].status = "reversed" => a \in released

(* Whatever pages the workers hold, and whenever one stops, the cursor     *)
(* passes a question only by looking at it: the question is a candidate,   *)
(* or was not visible when it was fetched.  Only a question that committed *)
(* after one of a greater id can be passed unseen.                         *)
QuestionsAreSeen ==
  \A q \in Published \ (late \cup ineligible) : q <= cursor => candidate[q] # NoCandidate
=============================================================================
