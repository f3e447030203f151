-------------------------- MODULE ExperienceProofs --------------------------
(***************************************************************************)
(* Theorems about the delivery of experience, for every number of members, *)
(* grants, workers, requests and faults, every page size, every limit of   *)
(* attempts and every length of the queue.                                 *)
(***************************************************************************)
EXTENDS ExperienceDelivery, RewardAmountsProofs

-----------------------------------------------------------------------------
(* Types.  The balances and the rows of the budget are first only known to *)
(* be integers; that they are sums of amounts makes them natural numbers.  *)

Job == [pc : {"list", "award", "ack", "failed", "finished"}, user : Users,
        rows : SUBSET Item, page : Nat, attempt : Nat]

PulseTyped ==
  /\ grant \in [Grants -> {"none", "pending", "settled", "reversed"}]
  /\ delivery \in [Grants -> {"none", "shadow", "community_pending", "community_delivered"}]
  /\ budget \in [Budgets -> [reserved : Int, settled : Int, released : Int]]

ForumTyped ==
  /\ event \in [Grants -> {"none", "awarded", "revoked"}]
  /\ ledger \in [Grants -> SUBSET {"award", "reversal"}]
  /\ exp \in [Users -> Int]

WakesTyped ==
  /\ pending \in [Users -> {"absent", "once", "again"}]
  /\ queue \in Seq(Users)

SyncTyped ==
  /\ sync \in [Consumers -> Sync]
  /\ \A c \in Consumers : sync[c].pc \in {"award", "ack"} => sync[c].rows # {}

MostlyTyped ==
  /\ PulseTyped /\ ForumTyped /\ WakesTyped /\ SyncTyped
  /\ faults \in 0 .. MaxFaults /\ restarted \in BOOLEAN

(* A consumer at a place of a job has a job.                               *)
LEMMA JobAt ==
  ASSUME SyncTyped, NEW c \in Consumers, sync[c].pc \notin {"off", "ready"}
  PROVE  sync[c] \in Job /\ sync[c] \notin {Off, Ready}
<1>1. sync[c] \in {Off, Ready} \cup Job
  BY DEF SyncTyped, Sync, Job
<1>2. Off.pc = "off" /\ Ready.pc = "ready"
  BY DEF Off, Ready
<1>3. QED
  BY <1>1, <1>2

(* A job is neither off nor ready.                                         *)
LEMMA JobIsWork ==
  ASSUME NEW l \in Job
  PROVE  l \in Sync /\ l \notin {Off, Ready} /\ l.pc \notin {"off", "ready"}
<1>1. l.pc \in {"list", "award", "ack", "failed", "finished"}
  BY DEF Job
<1>2. Off.pc = "off" /\ Ready.pc = "ready"
  BY DEF Off, Ready
<1>3. QED
  BY <1>1, <1>2 DEF Sync, Job

(* The row of a page with the lowest id.                                   *)
Lowest(S) == CHOOSE i \in S : \A j \in S : i.g <= j.g

(* It is a row of the page.                                                *)
LEMMA LowestIsRow ==
  ASSUME NEW S \in SUBSET Item, S # {}
  PROVE  Lowest(S) \in S /\ Lowest(S) \in Item
<1> DEFINE Ids == {i.g : i \in S}
<1>1. Ids \in SUBSET Nat /\ Ids # {}
  BY GrantsAssumption DEF Item
<1>2. PICK m \in Ids : \A n \in Ids : m <= n
  BY <1>1, LowestNatural
<1>3. \E i \in S : \A j \in S : i.g <= j.g
  BY <1>2
<1>4. QED
  BY <1>3 DEF Lowest

(* The current row of a consumer in the middle of a page.                  *)
LEMMA CurrentIsRow ==
  ASSUME SyncTyped, NEW c \in Consumers, sync[c].pc \in {"award", "ack"}
  PROVE  /\ Current(c) = Lowest(sync[c].rows)
         /\ Current(c) \in sync[c].rows
         /\ Current(c).g \in Grants /\ Current(c).status \in {"pending", "reversed"}
<1>1. Current(c) = Lowest(sync[c].rows)
  BY DEF Current, Lowest
<1>2. sync[c].rows \in SUBSET Item /\ sync[c].rows # {}
  BY JobAt DEF SyncTyped, Job
<1>3. Current(c) \in sync[c].rows /\ Current(c) \in Item
  BY <1>1, <1>2, LowestIsRow
<1>4. QED
  BY <1>1, <1>3 DEF Item

(* Putting a job, or nothing, in the place of what a consumer is doing.    *)
LEMMA PutSync ==
  ASSUME SyncTyped, NEW c \in Consumers,
         NEW l \in Sync, l.pc \in {"award", "ack"} => l.rows # {},
         sync' = [sync EXCEPT ![c] = l]
  PROVE  SyncTyped'
  BY DEF SyncTyped

(* Moving a job to another place.                                          *)
LEMMA GotoSync ==
  ASSUME SyncTyped, NEW c \in Consumers, sync[c].pc \notin {"off", "ready"},
         NEW pc \in {"list", "award", "ack", "failed", "finished"},
         pc \in {"award", "ack"} => sync[c].pc \in {"award", "ack"},
         Goto(c, pc)
  PROVE  /\ SyncTyped'
         /\ sync' = [sync EXCEPT ![c] = [sync[c] EXCEPT !.pc = pc]]
         /\ [sync[c] EXCEPT !.pc = pc] \in Job
<1> DEFINE l == [sync[c] EXCEPT !.pc = pc]
<1>1. sync[c] \in Job
  BY JobAt
<1>2. l \in Job /\ l.pc = pc /\ l.rows = sync[c].rows
  BY <1>1 DEF Job
<1>3. sync' = [sync EXCEPT ![c] = l]
  BY DEF Goto
<1>4. l.pc \in {"award", "ack"} => l.rows # {}
  BY <1>2 DEF SyncTyped
<1>5. SyncTyped'
  <2> HIDE DEF l
  <2> QED
    BY <1>2, <1>3, <1>4, PutSync, JobIsWork
<1>6. QED
  BY <1>2, <1>3, <1>5

(* A new run, of attempt n, starts with a listing.                         *)
Run(u, n) == [Start(u) EXCEPT !.attempt = n]

(* It is a job.                                                            *)
LEMMA StartSync ==
  ASSUME SyncTyped, NEW c \in Consumers, NEW u \in Users, NEW n \in Nat,
         sync' = [sync EXCEPT ![c] = Run(u, n)]
  PROVE  /\ SyncTyped' /\ Run(u, n) \in Job
         /\ Run(u, n).pc = "list" /\ Run(u, n).user = u
<1>1. Run(u, n) \in Job /\ Run(u, n).pc = "list" /\ Run(u, n).user = u
  BY DEF Run, Start, Job
<1>2. QED
  BY <1>1, JobIsWork, PutSync

(* Going on with the page, or to the next page.                            *)
LEMMA NextRowSync ==
  ASSUME SyncTyped, NEW c \in Consumers, At(c, "ack"), NextRow(c)
  PROVE  /\ SyncTyped'
         /\ \E l \in Job :
              /\ sync' = [sync EXCEPT ![c] = l] /\ l.user = sync[c].user
              /\ \/ l.pc = "list"
                 \/ l.pc = "award" /\ l.rows \subseteq sync[c].rows
<1> DEFINE left == sync[c].rows \ {Current(c)}
           l == IF left # {} THEN [sync[c] EXCEPT !.pc = "award", !.rows = left]
                ELSE [sync[c] EXCEPT !.pc = "list", !.rows = {}, !.page = sync[c].page + 1]
<1>1. sync[c] \in Job
  BY JobAt DEF At
<1>2. sync[c].rows \in SUBSET Item /\ sync[c].page \in Nat
  BY <1>1 DEF Job
<1>3. sync' = [sync EXCEPT ![c] = l]
  <2>1. CASE left # {}
    BY <2>1 DEF NextRow
  <2>2. CASE left = {}
    BY <2>2 DEF NextRow
  <2>3. QED
    BY <2>1, <2>2
<1>4. /\ l \in Job /\ l.user = sync[c].user
      /\ l.pc \in {"award", "ack"} => l.rows # {}
      /\ \/ l.pc = "list"
         \/ l.pc = "award" /\ l.rows \subseteq sync[c].rows
  <2>1. CASE left # {}
    <3>1. l = [sync[c] EXCEPT !.pc = "award", !.rows = left]
      BY <2>1
    <3>2. left \in SUBSET Item /\ left \subseteq sync[c].rows
      BY <1>2
    <3>3. QED
      BY <1>1, <2>1, <3>1, <3>2 DEF Job
  <2>2. CASE left = {}
    <3>1. l = [sync[c] EXCEPT !.pc = "list", !.rows = {}, !.page = sync[c].page + 1]
      BY <2>2
    <3>2. sync[c].page + 1 \in Nat
      BY <1>2
    <3>3. QED
      BY <1>1, <3>1, <3>2 DEF Job
  <2>3. QED
    BY <2>1, <2>2
<1>5. SyncTyped'
  <2> HIDE DEF l
  <2> QED
    BY <1>3, <1>4, JobIsWork, PutSync
<1>6. QED
  <2> HIDE DEF l
  <2> QED
    BY <1>3, <1>4, <1>5

-----------------------------------------------------------------------------
(* The steps, sorted by what they write.                                   *)

(* Only a draw, a reversal and an acknowledgement write in Pulse.          *)
LEMMA PulseWriters ==
  ASSUME SyncTyped, [Next]_vars
  PROVE  \/ UNCHANGED pulse
         \/ \E g \in Grants : Win(g) \/ ReverseGrant(g)
         \/ \E c \in Consumers : At(c, "ack") /\ Acknowledge(Current(c))
<1>1. ASSUME NEW u \in Users, NEW c \in Consumers, Enqueue(u) \/ Refresh(c, u)
      PROVE  UNCHANGED pulse
  BY <1>1 DEF Enqueue, Refresh
<1>2. ASSUME NEW u \in Users, Enqueue(u)
      PROVE  UNCHANGED pulse
  BY <1>2 DEF Enqueue
<1>3. ASSUME NEW c \in Consumers, Deliver(c) \/ AckLost(c) \/ StepFails(c)
      PROVE  UNCHANGED pulse \/ (At(c, "ack") /\ Acknowledge(Current(c)))
  BY <1>3 DEF Deliver, List, Award, Ack, AckRefused, AfterFailure, AckLost, StepFails
<1>4. ASSUME NEW c \in Consumers, RefreshDone(c) \/ Take(c) \/ Stop(c) \/ Finish(c)
      PROVE  UNCHANGED pulse
  BY <1>4 DEF RefreshDone, Take, Stop, Finish, wakes
<1>5. CASE Restart \/ UNCHANGED vars
  BY <1>5 DEF Restart, vars
<1>6. Refreshers \subseteq Consumers /\ Workers \subseteq Consumers
  BY DEF Consumers
<1>7. QED
  BY <1>1, <1>2, <1>3, <1>4, <1>5, <1>6 DEF Next

(* Only AwardPulse writes in the tables of the forum.                      *)
LEMMA ForumWriters ==
  ASSUME SyncTyped, [Next]_vars
  PROVE  UNCHANGED forum \/ \E c \in Consumers : Award(c)
<1>1. ASSUME NEW g \in Grants, Win(g) \/ ReverseGrant(g) PROVE UNCHANGED forum
  BY <1>1 DEF Win, ReverseGrant
<1>2. ASSUME NEW u \in Users, NEW c \in Consumers, Enqueue(u) \/ Refresh(c, u)
      PROVE  UNCHANGED forum
  BY <1>2 DEF Enqueue, Refresh
<1>3. ASSUME NEW u \in Users, Enqueue(u)
      PROVE  UNCHANGED forum
  BY <1>3 DEF Enqueue
<1>4. ASSUME NEW c \in Consumers, Deliver(c) \/ AckLost(c) \/ StepFails(c)
      PROVE  UNCHANGED forum \/ Award(c)
  BY <1>4 DEF Deliver, List, Ack, AckRefused, AfterFailure, AckLost, StepFails
<1>5. ASSUME NEW c \in Consumers, RefreshDone(c) \/ Take(c) \/ Stop(c) \/ Finish(c)
      PROVE  UNCHANGED forum
  BY <1>5 DEF RefreshDone, Take, Stop, Finish, wakes
<1>6. CASE Restart \/ UNCHANGED vars
  BY <1>6 DEF Restart, vars
<1>7. Refreshers \subseteq Consumers /\ Workers \subseteq Consumers
  BY DEF Consumers
<1>8. QED
  BY <1>1, <1>2, <1>3, <1>4, <1>5, <1>6, <1>7 DEF Next

(* What a step may make of one consumer.                                   *)
Serves(c, l) ==
  \/ l = Off \/ l = Ready
  \/ l \in Job /\ l.pc = "list"
  \/ l \in Job /\ l.pc = "finished"
  \/ l \in Job /\ l.pc = "failed"
  \/ /\ List(c) /\ l \in Job /\ l.pc = "award"
     /\ l.rows = FirstPage(sync[c].user) /\ l.rows # {}
  \/ /\ Award(c) /\ l \in Job /\ l.pc = "ack" /\ l.rows = sync[c].rows
  \/ /\ Ack(c) /\ l \in Job /\ l.pc = "award"
     /\ l.rows \subseteq sync[c].rows

(* A page consists of deliveries.                                          *)
LEMMA PageIsRows ==
  ASSUME PulseTyped, NEW u
  PROVE  /\ FirstPage(u) \subseteq Item
         /\ \A i \in FirstPage(u) : i.g \in Open(u) /\ i.status = grant[i.g]
<1>1. \A i \in FirstPage(u) : \E g \in Open(u) : i = [g |-> g, status |-> grant[g]]
  BY DEF FirstPage
<1>2. \A g \in Open(u) : g \in Grants /\ grant[g] \in {"pending", "reversed"}
  BY DEF Open
<1>3. QED
  BY <1>1, <1>2 DEF Item

(* A step of a delivery run moves the consumer that takes it.              *)
LEMMA DeliveryMoves ==
  ASSUME PulseTyped, SyncTyped, NEW c \in Consumers,
         Deliver(c) \/ AckLost(c) \/ StepFails(c)
  PROVE  /\ SyncTyped' /\ sync[c] \in Job
         /\ \E l \in Job : /\ sync' = [sync EXCEPT ![c] = l]
                         /\ Serves(c, l) /\ l.user = sync[c].user
<1>0. sync[c] \in Job
  <2>1. sync[c].pc \notin {"off", "ready"}
    BY DEF Deliver, List, Award, Ack, AckRefused, AfterFailure, AckLost, StepFails, At
  <2>2. QED
    BY <2>1, JobAt
<1>1. ASSUME NEW pc \in {"failed", "finished"}, Goto(c, pc),
             sync[c].pc \notin {"off", "ready"}
      PROVE  /\ SyncTyped'
             /\ \E l \in Job : /\ sync' = [sync EXCEPT ![c] = l]
                             /\ Serves(c, l) /\ l.user = sync[c].user
  <2> DEFINE l == [sync[c] EXCEPT !.pc = pc]
  <2>1. SyncTyped' /\ sync' = [sync EXCEPT ![c] = l] /\ l \in Job
    BY <1>1, GotoSync
  <2>2. l.pc = pc /\ l.user = sync[c].user
    BY <1>0, <1>1 DEF Job
  <2>3. Serves(c, l)
    BY <2>1, <2>2 DEF Serves
  <2>4. QED
    BY <2>1, <2>2, <2>3
<1>2. CASE List(c)
  <2> DEFINE page == FirstPage(sync[c].user)
  <2>1. sync[c].pc = "list" /\ sync[c] \in Job
    BY <1>2, JobAt DEF List, At
  <2>2. CASE Goto(c, "failed") \/ Goto(c, "finished")
    BY <1>0, <1>1, <2>1, <2>2
  <2>3. CASE page # {} /\ sync' = [sync EXCEPT ![c].pc = "award", ![c].rows = page]
    <3> DEFINE l == [sync[c] EXCEPT !.pc = "award", !.rows = page]
    <3>1. page \in SUBSET Item
      BY PageIsRows
    <3>2. l \in Job /\ l.pc = "award" /\ l.rows = page /\ l.user = sync[c].user
      BY <2>1, <3>1 DEF Job
    <3>3. sync' = [sync EXCEPT ![c] = l]
      BY <2>3 DEF SyncTyped
    <3>4. Serves(c, l)
      BY <1>2, <2>3, <3>2 DEF Serves
    <3>5. SyncTyped'
      <4> HIDE DEF l
      <4> QED
        BY <2>3, <3>2, <3>3, JobIsWork, PutSync
    <3>6. QED
      BY <1>0, <3>2, <3>3, <3>4, <3>5
  <2>4. QED
    BY <1>2, <2>2, <2>3 DEF List
<1>3. CASE Award(c)
  <2> DEFINE l == [sync[c] EXCEPT !.pc = "ack"]
  <2>1. sync[c].pc = "award" /\ Goto(c, "ack")
    BY <1>3 DEF Award, At
  <2>2. SyncTyped' /\ sync' = [sync EXCEPT ![c] = l] /\ l \in Job
    BY <2>1, GotoSync
  <2>3. l.pc = "ack" /\ l.rows = sync[c].rows /\ l.user = sync[c].user
    BY <1>0 DEF Job
  <2>4. Serves(c, l)
    BY <1>3, <2>2, <2>3 DEF Serves
  <2>5. QED
    BY <1>0, <2>2, <2>3, <2>4
<1>4. CASE Ack(c)
  <2>1. SyncTyped'
    BY <1>4, NextRowSync DEF Ack
  <2>2. PICK l \in Job : /\ sync' = [sync EXCEPT ![c] = l] /\ l.user = sync[c].user
                         /\ \/ l.pc = "list"
                            \/ l.pc = "award" /\ l.rows \subseteq sync[c].rows
    BY <1>4, NextRowSync DEF Ack
  <2>3. Serves(c, l)
    BY <1>4, <2>2 DEF Serves
  <2>4. QED
    BY <1>0, <2>1, <2>2, <2>3
<1>5. CASE AckRefused(c) \/ AckLost(c) \/ StepFails(c)
  BY <1>0, <1>1, <1>5 DEF AckRefused, AckLost, StepFails, At
<1>6. CASE AfterFailure(c)
  <2>1. sync[c].pc = "failed" /\ sync[c] \in Job
    BY <1>6, JobAt DEF AfterFailure, At
  <2>2. CASE Goto(c, "finished")
    BY <1>0, <1>1, <2>1, <2>2
  <2>3. CASE sync' = [sync EXCEPT ![c] = [Start(sync[c].user) EXCEPT !.attempt = sync[c].attempt + 1]]
    <3> DEFINE l == Run(sync[c].user, sync[c].attempt + 1)
    <3>1. sync[c].user \in Users /\ sync[c].attempt + 1 \in Nat
      BY <2>1 DEF Job
    <3>2. sync' = [sync EXCEPT ![c] = l]
      BY <2>3 DEF Run
    <3>3. SyncTyped' /\ l \in Job /\ l.pc = "list" /\ l.user = sync[c].user
      BY <3>1, <3>2, StartSync
    <3>4. Serves(c, l)
      BY <3>3 DEF Serves
    <3>5. QED
      BY <1>0, <3>2, <3>3, <3>4
  <2>4. QED
    BY <1>6, <2>2, <2>3 DEF AfterFailure
<1>7. QED
  BY <1>2, <1>3, <1>4, <1>5, <1>6 DEF Deliver

(* The first job of a member has the first attempt.                        *)
LEMMA FirstRun ==
  ASSUME NEW u \in Users
  PROVE  /\ Start(u) \in Job /\ Start(u).pc = "list" /\ Start(u).user = u
         /\ Start(u) \in Sync
<1>1. Start(u) \in Job /\ Start(u).pc = "list" /\ Start(u).user = u
  BY DEF Start, Job
<1>2. QED
  BY <1>1, JobIsWork

(* The steps of the queue and of the requests.                             *)
LEMMA QueueMoves ==
  ASSUME SyncTyped, WakesTyped, NEW c \in Consumers,
         Take(c) \/ Stop(c) \/ Finish(c) \/ RefreshDone(c) \/ \E u \in Users : Refresh(c, u)
  PROVE  /\ SyncTyped' /\ WakesTyped'
         /\ \E l \in Sync : sync' = [sync EXCEPT ![c] = l] /\ Serves(c, l)
<1>1. Off \in Sync /\ Ready \in Sync /\ Off.pc = "off" /\ Ready.pc = "ready"
  BY DEF Off, Ready, Sync
<1>2. ASSUME NEW l \in Sync, sync' = [sync EXCEPT ![c] = l],
             l \in {Off, Ready} \/ (l \in Job /\ l.pc = "list")
      PROVE  SyncTyped' /\ Serves(c, l)
  <2>1. l.pc \notin {"award", "ack"}
    BY <1>1, <1>2
  <2>2. QED
    BY <1>2, <2>1, PutSync DEF Serves
<1>3. CASE Take(c)
  <2>1. queue \in Seq(Users) /\ queue # <<>>
    BY <1>3 DEF Take, WakesTyped
  <2>2. Head(queue) \in Users /\ Tail(queue) \in Seq(Users)
    BY <2>1
  <2>3. sync' = [sync EXCEPT ![c] = Start(Head(queue))]
    BY <1>3 DEF Take
  <2>4. SyncTyped' /\ Serves(c, Start(Head(queue))) /\ Start(Head(queue)) \in Sync
    BY <1>2, <2>2, <2>3, FirstRun
  <2>5. WakesTyped'
    BY <1>3, <2>2 DEF Take, WakesTyped
  <2>6. QED
    BY <2>3, <2>4, <2>5
<1>4. CASE Stop(c)
  <2>1. sync' = [sync EXCEPT ![c] = Off] /\ UNCHANGED wakes
    BY <1>4 DEF Stop
  <2>2. QED
    BY <1>1, <1>2, <2>1 DEF WakesTyped, wakes
<1>5. CASE Finish(c)
  <2>1. sync[c].user \in Users
    BY <1>5, JobAt DEF Finish, At, Job
  <2>2. sync' = [sync EXCEPT ![c] = Ready]
    BY <1>5 DEF Finish
  <2>3. WakesTyped'
    <3>1. CASE pending[sync[c].user] = "again"
      <4>1. queue' = Append(queue, sync[c].user) /\ pending' = pending
        BY <1>5, <3>1 DEF Finish
      <4>2. QED
        BY <2>1, <4>1 DEF WakesTyped
    <3>2. CASE pending[sync[c].user] # "again"
      <4>1. queue' = queue /\ pending' = [pending EXCEPT ![sync[c].user] = "absent"]
        BY <1>5, <3>2 DEF Finish
      <4>2. QED
        BY <2>1, <4>1 DEF WakesTyped
    <3>3. QED
      BY <3>1, <3>2
  <2>4. QED
    BY <1>1, <1>2, <2>2, <2>3
<1>6. CASE RefreshDone(c)
  <2>1. sync' = [sync EXCEPT ![c] = Off] /\ UNCHANGED wakes
    BY <1>6 DEF RefreshDone
  <2>2. QED
    BY <1>1, <1>2, <2>1 DEF WakesTyped, wakes
<1>7. ASSUME NEW u \in Users, Refresh(c, u)
      PROVE  /\ SyncTyped' /\ WakesTyped'
             /\ \E l \in Sync : sync' = [sync EXCEPT ![c] = l] /\ Serves(c, l)
  <2>1. sync' = [sync EXCEPT ![c] = Start(u)] /\ UNCHANGED wakes
    BY <1>7 DEF Refresh
  <2>2. SyncTyped' /\ Serves(c, Start(u)) /\ Start(u) \in Sync
    BY <1>2, <2>1, FirstRun
  <2>3. WakesTyped'
    BY <2>1 DEF WakesTyped, wakes
  <2>4. QED
    BY <2>1, <2>2, <2>3
<1>8. QED
  BY <1>3, <1>4, <1>5, <1>6, <1>7

(* A wake-up starts a worker at most.                                      *)
LEMMA EnqueueMoves ==
  ASSUME SyncTyped, WakesTyped, NEW u \in Users, Enqueue(u)
  PROVE  /\ SyncTyped' /\ WakesTyped'
         /\ \/ UNCHANGED sync
            \/ \E c \in Consumers : sync' = [sync EXCEPT ![c] = Ready]
<1>1. WakesTyped'
  BY DEF Enqueue, WakesTyped
<1>2. Ready \in Sync /\ Ready.pc = "ready" /\ Workers \subseteq Consumers
  BY DEF Ready, Sync, Consumers
<1>3. \/ UNCHANGED sync
      \/ \E c \in Consumers : sync' = [sync EXCEPT ![c] = Ready]
  BY <1>2 DEF Enqueue
<1>4. ASSUME NEW c \in Consumers, sync' = [sync EXCEPT ![c] = Ready] PROVE SyncTyped'
  BY <1>2, <1>4, PutSync
<1>5. CASE UNCHANGED sync
  BY <1>1, <1>5 DEF SyncTyped
<1>6. QED
  BY <1>1, <1>3, <1>4, <1>5

(* After a restart nothing is on its way.                                  *)
LEMMA RestartMoves ==
  ASSUME Restart
  PROVE  /\ SyncTyped' /\ WakesTyped'
         /\ sync' = [c \in Consumers |-> Off]
<1>1. Off \in Sync /\ Off.pc = "off"
  BY DEF Off, Sync
<1>2. QED
  BY <1>1 DEF Restart, SyncTyped, WakesTyped

(* A step moves one consumer, or none, or the forum restarts.              *)
LEMMA SyncWriters ==
  ASSUME PulseTyped, SyncTyped, WakesTyped, [Next]_vars
  PROVE  /\ SyncTyped' /\ WakesTyped'
         /\ \/ UNCHANGED sync
            \/ sync' = [c \in Consumers |-> Off]
            \/ \E c \in Consumers, l \in Sync :
                 sync' = [sync EXCEPT ![c] = l] /\ Serves(c, l)
<1>1. ASSUME NEW g \in Grants, Win(g) \/ ReverseGrant(g)
      PROVE  SyncTyped' /\ WakesTyped' /\ UNCHANGED sync
  BY <1>1 DEF Win, ReverseGrant, SyncTyped, WakesTyped, wakes
<1>2. ASSUME NEW u \in Users, Enqueue(u)
      PROVE  /\ SyncTyped' /\ WakesTyped'
             /\ \/ UNCHANGED sync
                \/ \E c \in Consumers, l \in Sync :
                     sync' = [sync EXCEPT ![c] = l] /\ Serves(c, l)
  <2>1. Ready \in Sync
    BY DEF Ready, Sync
  <2>2. QED
    BY <1>2, <2>1, EnqueueMoves DEF Serves
<1>3. ASSUME NEW c \in Consumers, Deliver(c) \/ AckLost(c) \/ StepFails(c)
      PROVE  /\ SyncTyped' /\ WakesTyped'
             /\ \E l \in Sync : sync' = [sync EXCEPT ![c] = l] /\ Serves(c, l)
  <2>1. WakesTyped'
    BY <1>3 DEF Deliver, List, Award, Ack, AckRefused, AfterFailure, AckLost, StepFails,
       WakesTyped, wakes
  <2>2. QED
    BY <1>3, <2>1, DeliveryMoves, JobIsWork
<1>4. CASE UNCHANGED vars
  BY <1>4 DEF vars, SyncTyped, WakesTyped, wakes
<1>5. Refreshers \subseteq Consumers /\ Workers \subseteq Consumers
  BY DEF Consumers
<1>6. QED
  BY <1>1, <1>2, <1>3, <1>4, <1>5, QueueMoves, RestartMoves DEF Next

-----------------------------------------------------------------------------
(* Types, continued.                                                       *)

(* What an acknowledgement does, read as a move of a grant.                *)
LEMMA AcknowledgeMoves ==
  ASSUME PulseTyped, NEW i \in Item, Acknowledge(i), ~ UNCHANGED pulse
  PROVE  /\ grant[i.g] = i.status
         /\ delivery[i.g] = "community_pending"
         /\ delivery' = [delivery EXCEPT ![i.g] = "community_delivered"]
         /\ \/ /\ i.status = "pending"
               /\ grant' = [grant EXCEPT ![i.g] = "settled"]
               /\ budget' = [budget EXCEPT ![BudgetOf[i.g]] =
                               Settle(budget[BudgetOf[i.g]], Amount[i.g])]
            \/ i.status = "reversed" /\ grant' = grant /\ budget' = budget
<1>1. i.g \in Grants /\ i.status \in {"pending", "reversed"}
  BY DEF Item
<1>2. Acceptable(i)
  BY DEF Acknowledge
<1>3. /\ delivery' = [delivery EXCEPT ![i.g] = "community_delivered"]
      /\ grant' = [grant EXCEPT ![i.g] = Settled(i.status)]
      /\ budget' = [budget EXCEPT ![BudgetOf[i.g]] =
                      IF i.status = "pending" THEN Settle(budget[BudgetOf[i.g]], Amount[i.g])
                      ELSE budget[BudgetOf[i.g]]]
  BY DEF Acknowledge
<1>4. CASE i.status = "pending"
  BY <1>2, <1>3, <1>4 DEF Acceptable, Settled
<1>5. CASE i.status = "reversed"
  <2>1. grant' = [grant EXCEPT ![i.g] = "reversed"] /\ grant[i.g] = "reversed"
    BY <1>2, <1>3, <1>5 DEF Acceptable, Settled
  <2>2. grant' = grant
    BY <1>1, <2>1 DEF PulseTyped
  <2>3. budget' = [budget EXCEPT ![BudgetOf[i.g]] = budget[BudgetOf[i.g]]]
    BY <1>3, <1>5
  <2>4. budget' = budget
    BY <2>3 DEF PulseTyped
  <2>5. QED
    BY <1>2, <1>3, <1>5, <2>2, <2>4 DEF Acceptable
<1>6. QED
  BY <1>1, <1>4, <1>5

(* The moves of the money of a grant.                                      *)
Moves(g, from, to, row) ==
  /\ grant[g] = from
  /\ grant' = [grant EXCEPT ![g] = to]
  /\ budget' = [budget EXCEPT ![BudgetOf[g]] = row]

MoneyMoves(g) ==
  LET row == budget[BudgetOf[g]] IN
  \/ Moves(g, "none", "pending", Reserve(row, Amount[g]))
  \/ Moves(g, "pending", "settled", Settle(row, Amount[g]))
  \/ Moves(g, "pending", "reversed", Cancel(row, Amount[g]))
  \/ Moves(g, "settled", "reversed", Release(row, Amount[g]))

(* A step moves the money of one grant, or leaves grants and budgets alone.*)
LEMMA MoneyStep ==
  ASSUME PulseTyped, SyncTyped, [Next]_vars
  PROVE  UNCHANGED <<grant, budget>> \/ \E g \in Grants : MoneyMoves(g)
<1>1. ASSUME NEW g \in Grants, Win(g) PROVE MoneyMoves(g)
  BY <1>1 DEF Win, MoneyMoves, Moves
<1>2. ASSUME NEW g \in Grants, ReverseGrant(g) PROVE MoneyMoves(g)
  <2>1. CASE grant[g] = "pending"
    BY <1>2, <2>1 DEF ReverseGrant, ReversedBudget, MoneyMoves, Moves
  <2>2. CASE grant[g] = "settled"
    BY <1>2, <2>2 DEF ReverseGrant, ReversedBudget, MoneyMoves, Moves
  <2>3. QED
    BY <1>2, <2>1, <2>2 DEF ReverseGrant
<1>3. ASSUME NEW c \in Consumers, At(c, "ack"), Acknowledge(Current(c))
      PROVE  UNCHANGED <<grant, budget>> \/ \E g \in Grants : MoneyMoves(g)
  <2> DEFINE i == Current(c)
  <2>1. i \in Item /\ i.g \in Grants
    <3>1. sync[c].rows \in SUBSET Item /\ i \in sync[c].rows /\ i.g \in Grants
      BY <1>3, JobAt, CurrentIsRow DEF At, Job
    <3>2. QED
      BY <3>1
  <2>2. CASE UNCHANGED pulse
    BY <2>2 DEF pulse
  <2>3. CASE ~ UNCHANGED pulse
    <3> HIDE DEF i
    <3>1. UNCHANGED <<grant, budget>> \/ MoneyMoves(i.g)
      BY <1>3, <2>1, <2>3, AcknowledgeMoves DEF MoneyMoves, Moves, i
    <3>2. QED
      BY <2>1, <3>1
  <2>4. QED
    BY <2>2, <2>3
<1>4. QED
  BY <1>1, <1>2, <1>3, PulseWriters DEF pulse

(* A move of the money keeps the types and the sums.                       *)
LEMMA BudgetStep ==
  ASSUME PulseTyped, ExperienceBudget, NEW g \in Grants, MoneyMoves(g)
  PROVE  /\ grant' \in [Grants -> {"none", "pending", "settled", "reversed"}]
         /\ budget' \in [Budgets -> [reserved : Int, settled : Int, released : Int]]
         /\ ExperienceBudget'
<1> DEFINE b == BudgetOf[g]
           Status == {"none", "pending", "settled", "reversed"}
           Row == [reserved : Int, settled : Int, released : Int]
<1>1. b \in Budgets /\ Amount[g] \in Nat /\ grant \in [Grants -> Status] /\ budget[b] \in Row
  BY AmountsAssumption DEF PulseTyped
<1> DEFINE Delta(from, to, status) ==
             IF status = to THEN Amount[g] ELSE IF status = from THEN 0 - Amount[g] ELSE 0
           Goal == /\ grant' \in [Grants -> Status]
                   /\ budget' \in [Budgets -> Row]
                   /\ ExperienceBudget'
<1>2. ASSUME NEW from \in Status, NEW to \in Status, from # to,
             NEW STATE row, row \in Row, Moves(g, from, to, row),
             row.reserved = budget[b].reserved + Delta(from, to, "pending"),
             row.settled = budget[b].settled + Delta(from, to, "settled"),
             row.released = budget[b].released + Delta(from, to, "reversed")
      PROVE  Goal
  <2>1. grant[g] = from /\ grant' = [grant EXCEPT ![g] = to]
    BY <1>2 DEF Moves
  <2>2. budget' = [budget EXCEPT ![b] = row]
    BY <1>2 DEF Moves
  <2>3. grant' \in [Grants -> Status]
    BY <1>1, <1>2, <2>1
  <2>4. budget' \in [Budgets -> Row]
    BY <1>2, <2>2 DEF PulseTyped
  <2>5. ASSUME NEW c, NEW status
        PROVE  Total(Charged(grant', c, status)) =
                 Total(Charged(grant, c, status)) +
                   (IF c # b THEN 0 ELSE Delta(from, to, status))
    <3>0. grant'[g] = to /\ grant[g] = from
      BY <1>1, <2>1
    <3>1. grant'[g] # grant[g] /\ \A x \in Grants : x # g => grant'[x] = grant[x]
      BY <1>1, <1>2, <2>1
    <3>2. /\ c = BudgetOf[g] /\ status = grant'[g] =>
               Total(Charged(grant', c, status)) = Total(Charged(grant, c, status)) + Amount[g]
          /\ c = BudgetOf[g] /\ status = grant[g] =>
               Total(Charged(grant', c, status)) = Total(Charged(grant, c, status)) - Amount[g]
          /\ c # BudgetOf[g] \/ (status # grant'[g] /\ status # grant[g]) =>
               Total(Charged(grant', c, status)) = Total(Charged(grant, c, status))
      BY <3>1, ChargedMove
    <3>3. Total(Charged(grant, c, status)) \in Nat /\ Amount[g] \in Nat
      BY <1>1, TotalType DEF Charged
    <3>4. QED
      BY <1>2, <3>0, <3>2, <3>3
  <2>6. ASSUME NEW c \in Budgets
        PROVE  /\ budget'[c].reserved = Total(Charged(grant', c, "pending"))
               /\ budget'[c].settled = Total(Charged(grant', c, "settled"))
               /\ budget'[c].released = Total(Charged(grant', c, "reversed"))
    <3>1. /\ budget[c].reserved = Total(Charged(grant, c, "pending"))
          /\ budget[c].settled = Total(Charged(grant, c, "settled"))
          /\ budget[c].released = Total(Charged(grant, c, "reversed"))
          /\ budget[c] \in Row
      BY DEF ExperienceBudget, PulseTyped
    <3>2. /\ budget[c].reserved \in Int /\ budget[c].settled \in Int /\ budget[c].released \in Int
      BY <3>1
    <3>3. CASE c = b
      <4>1. budget'[c] = row
        BY <1>1, <2>2, <3>3 DEF PulseTyped
      <4>2. \A status : Total(Charged(grant', c, status)) =
                          Total(Charged(grant, c, status)) + Delta(from, to, status)
        BY <2>5, <3>3
      <4>3. /\ row.reserved = budget[c].reserved + Delta(from, to, "pending")
            /\ row.settled = budget[c].settled + Delta(from, to, "settled")
            /\ row.released = budget[c].released + Delta(from, to, "reversed")
        BY <1>2, <3>3
      <4> HIDE DEF Delta
      <4>4. QED
        BY <3>1, <4>1, <4>2, <4>3
    <3>4. CASE c # b
      <4>1. budget'[c] = budget[c]
        BY <2>2, <3>4 DEF PulseTyped
      <4>2. \A status : Total(Charged(grant', c, status)) = Total(Charged(grant, c, status)) + 0
        BY <2>5, <3>4
      <4>3. QED
        BY <3>1, <3>2, <4>1, <4>2
    <3>5. QED
      BY <3>3, <3>4
  <2>7. QED
    BY <2>3, <2>4, <2>6 DEF ExperienceBudget
<1>3. /\ budget[b].reserved \in Int /\ budget[b].settled \in Int /\ budget[b].released \in Int
      /\ budget[b] = [reserved |-> budget[b].reserved, settled |-> budget[b].settled,
                      released |-> budget[b].released]
  BY <1>1
<1>4. CASE Moves(g, "none", "pending", Reserve(budget[b], Amount[g]))
  <2> DEFINE row == Reserve(budget[b], Amount[g])
  <2>1. /\ row \in Row
        /\ row.reserved = budget[b].reserved + Amount[g]
        /\ row.settled = budget[b].settled /\ row.released = budget[b].released
    BY <1>1, <1>3 DEF Reserve
  <2> HIDE DEF row
  <2>2. Goal
    BY <1>2, <1>3, <1>4, <2>1 DEF row
  <2>3. QED
    BY <2>2
<1>5. CASE Moves(g, "pending", "settled", Settle(budget[b], Amount[g]))
  <2> DEFINE row == Settle(budget[b], Amount[g])
  <2>1. /\ row \in Row
        /\ row.reserved = budget[b].reserved + (0 - Amount[g])
        /\ row.settled = budget[b].settled + Amount[g] /\ row.released = budget[b].released
    <3>1. budget[b] \in Row /\ Amount[g] \in Int
      BY <1>1
    <3>2. row.reserved \in Int /\ row.settled \in Int /\ row.released \in Int
      BY <3>1 DEF Settle
    <3>3. row \in Row
      BY <3>1, <3>2 DEF Settle
    <3>4. QED
      BY <3>1, <3>3 DEF Settle
  <2> HIDE DEF row
  <2>2. Goal
    BY <1>2, <1>3, <1>5, <2>1 DEF row
  <2>3. QED
    BY <2>2
<1>6. CASE Moves(g, "pending", "reversed", Cancel(budget[b], Amount[g]))
  <2> DEFINE row == Cancel(budget[b], Amount[g])
  <2>1. /\ row \in Row
        /\ row.reserved = budget[b].reserved + (0 - Amount[g])
        /\ row.settled = budget[b].settled /\ row.released = budget[b].released + Amount[g]
    <3>1. budget[b] \in Row /\ Amount[g] \in Int
      BY <1>1
    <3>2. row.reserved \in Int /\ row.settled \in Int /\ row.released \in Int
      BY <3>1 DEF Cancel
    <3>3. row \in Row
      BY <3>1, <3>2 DEF Cancel
    <3>4. QED
      BY <3>1, <3>3 DEF Cancel
  <2> HIDE DEF row
  <2>2. Goal
    BY <1>2, <1>3, <1>6, <2>1 DEF row
  <2>3. QED
    BY <2>2
<1>7. CASE Moves(g, "settled", "reversed", Release(budget[b], Amount[g]))
  <2> DEFINE row == Release(budget[b], Amount[g])
  <2>1. /\ row \in Row
        /\ row.reserved = budget[b].reserved
        /\ row.settled = budget[b].settled + (0 - Amount[g])
        /\ row.released = budget[b].released + Amount[g]
    <3>1. budget[b] \in Row /\ Amount[g] \in Int
      BY <1>1
    <3>2. row.reserved \in Int /\ row.settled \in Int /\ row.released \in Int
      BY <3>1 DEF Release
    <3>3. row \in Row
      BY <3>1, <3>2 DEF Release
    <3>4. QED
      BY <3>1, <3>3 DEF Release
  <2> HIDE DEF row
  <2>2. Goal
    BY <1>2, <1>3, <1>7, <2>1 DEF row
  <2>3. QED
    BY <2>2
<1>8. QED
  BY <1>4, <1>5, <1>6, <1>7 DEF MoneyMoves

(* A step keeps the types of the tables of Pulse, and the budget.          *)
LEMMA PulseStep ==
  ASSUME PulseTyped, SyncTyped, ExperienceBudget, [Next]_vars
  PROVE  PulseTyped' /\ ExperienceBudget'
<1> DEFINE Deliveries == {"none", "shadow", "community_pending", "community_delivered"}
<1>1. delivery' \in [Grants -> Deliveries]
  <2>1. ASSUME NEW g \in Grants, Win(g) \/ ReverseGrant(g)
        PROVE  delivery' \in [Grants -> Deliveries]
    BY <2>1 DEF Win, ReverseGrant, PulseTyped
  <2>2. ASSUME NEW c \in Consumers, At(c, "ack"), Acknowledge(Current(c))
        PROVE  delivery' \in [Grants -> Deliveries]
    BY <2>2 DEF Acknowledge, PulseTyped, pulse
  <2>3. CASE UNCHANGED pulse
    BY <2>3 DEF pulse, PulseTyped
  <2>4. QED
    BY <2>1, <2>2, <2>3, PulseWriters
<1>2. CASE UNCHANGED <<grant, budget>>
  BY <1>1, <1>2 DEF PulseTyped, ExperienceBudget
<1>3. ASSUME NEW g \in Grants, MoneyMoves(g)
      PROVE  PulseTyped' /\ ExperienceBudget'
  BY <1>1, <1>3, BudgetStep DEF PulseTyped
<1>4. QED
  BY <1>2, <1>3, MoneyStep

(* The grants of a member that are credited.                               *)
Credited(u) == {g \in Grants : UserOf[g] = u /\ event[g] = "awarded"}

(* An event that is credited adds its amount to what is credited to its    *)
(* member; one that is revoked takes it out.                               *)
LEMMA CreditedMoves ==
  ASSUME ForumTyped, NEW g \in Grants, NEW to \in {"awarded", "revoked"},
         event' = [event EXCEPT ![g] = to], NEW u \in Users
  PROVE  /\ u # UserOf[g] => Credited(u)' = Credited(u)
         /\ u = UserOf[g] /\ event[g] # "awarded" /\ to = "awarded" =>
              Total(Credited(u)') = Total(Credited(u)) + Amount[g]
         /\ u = UserOf[g] /\ event[g] = "awarded" /\ to = "revoked" =>
              Total(Credited(u)') = Total(Credited(u)) - Amount[g]
         /\ event[g] # "awarded" /\ to = "revoked" => Credited(u)' = Credited(u)
<1> DEFINE A == Credited(u)
           B == {h \in Grants : UserOf[h] = u /\ event'[h] = "awarded"}
<1>1. A \in SUBSET Grants /\ Credited(u)' = B
  BY DEF Credited
<1>2. event'[g] = to /\ \A h \in Grants : h # g => event'[h] = event[h]
  BY DEF ForumTyped
<1>3. u # UserOf[g] \/ (event[g] # "awarded" /\ to = "revoked") => B = A
  BY <1>2 DEF Credited
<1>4. ASSUME u = UserOf[g], event[g] # "awarded", to = "awarded"
      PROVE  Total(B) = Total(A) + Amount[g]
  <2>1. B = A \cup {g} /\ g \notin A
    BY <1>2, <1>4 DEF Credited
  <2>2. QED
    BY <1>1, <2>1, TotalAdd
<1>5. ASSUME u = UserOf[g], event[g] = "awarded", to = "revoked"
      PROVE  Total(B) = Total(A) - Amount[g]
  <2>1. B = A \ {g} /\ g \in A
    BY <1>2, <1>5 DEF Credited
  <2>2. QED
    BY <1>1, <2>1, TotalRemove
<1>6. QED
  BY <1>1, <1>3, <1>4, <1>5

(* One transaction of the forum keeps the balances and the entries true.   *)
LEMMA AwardStep ==
  ASSUME ForumTyped, ExperienceAddsUp, NEW i \in Item, AwardPulse(i)
  PROVE  ForumTyped' /\ ExperienceAddsUp'
<1> DEFINE g == i.g
           Entries(e, l) == /\ (l = {"award"}) = (e = "awarded")
                            /\ "reversal" \in l => "award" \in l /\ e = "revoked"
<1>1. /\ g \in Grants /\ UserOf[g] \in Users /\ Amount[g] \in Nat
      /\ i.status \in {"pending", "reversed"}
  BY AmountsAssumption, DeliveryAssumption DEF Item
<1>2. /\ event[g] \in {"none", "awarded", "revoked"} /\ ledger[g] \in SUBSET {"award", "reversal"}
      /\ Entries(event[g], ledger[g])
  BY <1>1 DEF ForumTyped, ExperienceAddsUp
<1>3. \A u \in Users : exp[u] = Total(Credited(u)) /\ exp[u] \in Int
  BY DEF ExperienceAddsUp, ForumTyped, Credited
<1>4. ASSUME ForumTyped', Entries(event'[g], ledger'[g]),
             \A h \in Grants : h # g => event'[h] = event[h] /\ ledger'[h] = ledger[h],
             \A u \in Users : exp'[u] = Total(Credited(u)')
      PROVE  ForumTyped' /\ ExperienceAddsUp'
  BY <1>4 DEF ExperienceAddsUp, Credited
<1>5. CASE UNCHANGED forum
  BY <1>5 DEF forum, ForumTyped, ExperienceAddsUp
<1>6. CASE event[g] = "none" /\ Credit(i)
  <2>1. /\ event' = [event EXCEPT ![g] = "awarded"]
        /\ ledger' = [ledger EXCEPT ![g] = ledger[g] \cup {"award"}]
        /\ exp' = [exp EXCEPT ![UserOf[g]] = exp[UserOf[g]] + Amount[g]]
    BY <1>6 DEF Credit
  <2>2. ForumTyped'
    BY <1>1, <1>2, <2>1 DEF ForumTyped
  <2>3. /\ event'[g] = "awarded" /\ ledger'[g] = ledger[g] \cup {"award"}
        /\ \A h \in Grants : h # g => event'[h] = event[h] /\ ledger'[h] = ledger[h]
    BY <1>1, <2>1 DEF ForumTyped
  <2>4. Entries(event'[g], ledger'[g])
    BY <1>2, <1>6, <2>3
  <2>5. ASSUME NEW u \in Users PROVE exp'[u] = Total(Credited(u)')
    <3>1. CASE u = UserOf[g]
      <4>1. exp'[u] = exp[u] + Amount[g]
        BY <2>1, <3>1 DEF ForumTyped
      <4>2. Total(Credited(u)') = Total(Credited(u)) + Amount[g]
        BY <1>1, <1>6, <2>1, <3>1, CreditedMoves
      <4>3. QED
        BY <1>3, <4>1, <4>2
    <3>2. CASE u # UserOf[g]
      <4>1. exp'[u] = exp[u]
        BY <2>1, <3>2 DEF ForumTyped
      <4>2. Credited(u)' = Credited(u)
        BY <1>1, <2>1, <3>2, CreditedMoves
      <4>3. QED
        BY <1>3, <4>1, <4>2
    <3>3. QED
      BY <3>1, <3>2
  <2>6. QED
    BY <1>4, <2>2, <2>3, <2>4, <2>5
<1>7. CASE event[g] = "awarded" /\ Debit(i)
  <2>1. /\ event' = [event EXCEPT ![g] = "revoked"]
        /\ ledger' = [ledger EXCEPT ![g] = ledger[g] \cup {"reversal"}]
        /\ exp' = [exp EXCEPT ![UserOf[g]] = exp[UserOf[g]] - Amount[g]]
    BY <1>7 DEF Debit
  <2>2. ForumTyped'
    BY <1>1, <1>2, <2>1 DEF ForumTyped
  <2>3. /\ event'[g] = "revoked" /\ ledger'[g] = ledger[g] \cup {"reversal"}
        /\ \A h \in Grants : h # g => event'[h] = event[h] /\ ledger'[h] = ledger[h]
    BY <1>1, <2>1 DEF ForumTyped
  <2>4. Entries(event'[g], ledger'[g])
    BY <1>2, <1>7, <2>3
  <2>5. ASSUME NEW u \in Users PROVE exp'[u] = Total(Credited(u)')
    <3>1. CASE u = UserOf[g]
      <4>1. exp'[u] = exp[u] - Amount[g]
        BY <2>1, <3>1 DEF ForumTyped
      <4>2. Total(Credited(u)') = Total(Credited(u)) - Amount[g]
        BY <1>1, <1>7, <2>1, <3>1, CreditedMoves
      <4>3. QED
        BY <1>3, <4>1, <4>2
    <3>2. CASE u # UserOf[g]
      <4>1. exp'[u] = exp[u]
        BY <2>1, <3>2 DEF ForumTyped
      <4>2. Credited(u)' = Credited(u)
        BY <1>1, <2>1, <3>2, CreditedMoves
      <4>3. QED
        BY <1>3, <4>1, <4>2
    <3>3. QED
      BY <3>1, <3>2
  <2>6. QED
    BY <1>4, <2>2, <2>3, <2>4, <2>5
<1>8. CASE event[g] = "none" /\ Bury(i)
  <2>1. event' = [event EXCEPT ![g] = "revoked"] /\ ledger' = ledger /\ exp' = exp
    BY <1>8 DEF Bury
  <2>2. ForumTyped'
    BY <1>1, <2>1 DEF ForumTyped
  <2>3. /\ event'[g] = "revoked" /\ ledger'[g] = ledger[g]
        /\ \A h \in Grants : h # g => event'[h] = event[h] /\ ledger'[h] = ledger[h]
    BY <1>1, <2>1 DEF ForumTyped
  <2>4. Entries(event'[g], ledger'[g])
    BY <1>2, <1>8, <2>3
  <2>5. ASSUME NEW u \in Users PROVE exp'[u] = Total(Credited(u)')
    <3>1. Credited(u)' = Credited(u)
      BY <1>1, <1>8, <2>1, CreditedMoves
    <3>2. QED
      BY <1>3, <2>1, <3>1
  <2>6. QED
    BY <1>4, <2>2, <2>3, <2>4, <2>5
<1>9. QED
  BY <1>5, <1>6, <1>7, <1>8 DEF AwardPulse

-----------------------------------------------------------------------------
(* What is on its way is true.                                             *)

(* A row that a consumer has listed says what was once so: the grant was   *)
(* won outside of the shadow mode, or reversed for good.  Between the      *)
(* transaction of the forum and the acknowledgement, the event of the      *)
(* current row has the effect that the row asks for, or a later one.       *)
RowIsTrue(i) ==
  /\ i.status = "pending" => grant[i.g] # "none" /\ i.g \notin Shadow
  /\ i.status = "reversed" => grant[i.g] = "reversed"
RowIsApplied(i) ==
  IF i.status = "pending" THEN event[i.g] # "none" ELSE event[i.g] = "revoked"
Knows(l) ==
  /\ l.pc \in {"award", "ack"} => \A i \in l.rows : RowIsTrue(i)
  /\ l.pc = "ack" => RowIsApplied(Lowest(l.rows))
RowsAreTrue == \A c \in Consumers : Knows(sync[c])

(* How the two databases hang together.                                    *)
GrantIsTrue(g) ==
  /\ event[g] = "awarded" => grant[g] # "none" /\ g \notin Shadow
  /\ event[g] = "revoked" => grant[g] = "reversed"
  /\ delivery[g] = "community_delivered" =>
       \/ grant[g] = "settled" /\ event[g] = "awarded"
       \/ grant[g] = "reversed" /\ event[g] = "revoked"
  /\ grant[g] = "settled" => delivery[g] = "community_delivered"
  /\ delivery[g] = "community_pending" /\ grant[g] = "pending" => g \notin Shadow
TablesAreTrue == \A g \in Grants : GrantIsTrue(g)

(* What a step does to a grant and to its event.                           *)
GrantStep(g) ==
  \/ UNCHANGED <<grant[g], delivery[g], event[g]>>
  \/ /\ grant[g] = "none" /\ grant'[g] = "pending" /\ UNCHANGED event[g]
     /\ delivery'[g] = IF g \in Shadow THEN "shadow" ELSE "community_pending"
  \/ /\ grant[g] \in {"pending", "settled"} /\ grant'[g] = "reversed"
     /\ delivery'[g] = "community_pending" /\ UNCHANGED event[g]
  \/ \E c \in Consumers :
       /\ At(c, "ack") /\ Current(c).g = g /\ grant[g] = Current(c).status
       /\ grant'[g] = Settled(Current(c).status)
       /\ delivery'[g] = "community_delivered" /\ UNCHANGED event[g]
  \/ \E c \in Consumers :
       /\ Award(c) /\ Current(c).g = g
       /\ UNCHANGED <<grant[g], delivery[g]>>
       /\ \/ Current(c).status = "pending" /\ event[g] = "none" /\ event'[g] = "awarded"
          \/ Current(c).status = "reversed" /\ event'[g] = "revoked"

(* Every step is one of these for every grant.                             *)
LEMMA EveryGrantSteps ==
  ASSUME PulseTyped, ForumTyped, SyncTyped, [Next]_vars, NEW g \in Grants
  PROVE  GrantStep(g)
<1>1. ASSUME UNCHANGED event PROVE GrantStep(g)
  <2>1. ASSUME NEW h \in Grants, Win(h) \/ ReverseGrant(h) PROVE GrantStep(g)
    BY <1>1, <2>1 DEF Win, ReverseGrant, PulseTyped, GrantStep
  <2>2. ASSUME NEW c \in Consumers, At(c, "ack"), Acknowledge(Current(c)) PROVE GrantStep(g)
    <3>1. Current(c).g \in Grants /\ Current(c).status \in {"pending", "reversed"}
      BY <2>2, CurrentIsRow DEF At
    <3>2. CASE UNCHANGED pulse
      BY <1>1, <3>2 DEF pulse, GrantStep
    <3>3. CASE Acceptable(Current(c))
               /\ grant' = [grant EXCEPT ![Current(c).g] = Settled(Current(c).status)]
               /\ delivery' = [delivery EXCEPT ![Current(c).g] = "community_delivered"]
      <4>1. CASE g = Current(c).g
        <5>1. /\ grant'[g] = Settled(Current(c).status) /\ delivery'[g] = "community_delivered"
              /\ grant[g] = Current(c).status
          BY <3>3, <4>1 DEF PulseTyped, Acceptable
        <5>2. QED
          BY <1>1, <2>2, <4>1, <5>1 DEF GrantStep
      <4>2. CASE g # Current(c).g
        <5>1. grant'[g] = grant[g] /\ delivery'[g] = delivery[g]
          BY <3>3, <4>2 DEF PulseTyped
        <5>2. QED
          BY <1>1, <5>1 DEF GrantStep
      <4>3. QED
        BY <4>1, <4>2
    <3>4. QED
      BY <2>2, <3>2, <3>3 DEF Acknowledge
  <2>3. CASE UNCHANGED pulse
    BY <1>1, <2>3 DEF pulse, GrantStep
  <2>4. QED
    BY <2>1, <2>2, <2>3, PulseWriters
<1>2. ASSUME NEW c \in Consumers, Award(c) PROVE GrantStep(g)
  <2> DEFINE i == Current(c)
  <2>1. AwardPulse(i) /\ UNCHANGED pulse /\ sync[c].pc = "award"
    BY <1>2 DEF Award, At
  <2>2. i.g \in Grants /\ i.status \in {"pending", "reversed"}
    BY <2>1, CurrentIsRow
  <2>3. grant'[g] = grant[g] /\ delivery'[g] = delivery[g]
    BY <2>1 DEF pulse
  <2>4. \/ event' = event
        \/ /\ i.status = "pending" /\ event[i.g] = "none"
           /\ event' = [event EXCEPT ![i.g] = "awarded"]
        \/ /\ i.status = "reversed" /\ event' = [event EXCEPT ![i.g] = "revoked"]
    BY <2>1 DEF AwardPulse, Credit, Debit, Bury, forum
  <2>5. \/ event'[g] = event[g]
        \/ /\ g = i.g
           /\ \/ i.status = "pending" /\ event[g] = "none" /\ event'[g] = "awarded"
              \/ i.status = "reversed" /\ event'[g] = "revoked"
    <3> HIDE DEF i
    <3> QED
      BY <2>2, <2>4 DEF ForumTyped
  <2>6. QED
    BY <1>2, <2>3, <2>5 DEF GrantStep
<1>3. QED
  BY <1>1, <1>2, ForumWriters DEF forum

(* The tables stay true, given that the rows on their way are.             *)
LEMMA TablesStep ==
  ASSUME PulseTyped, ForumTyped, SyncTyped, RowsAreTrue, TablesAreTrue, [Next]_vars
  PROVE  TablesAreTrue'
<1> SUFFICES ASSUME NEW g \in Grants PROVE GrantIsTrue(g)'
  BY DEF TablesAreTrue
<1>1. GrantIsTrue(g) /\ GrantStep(g)
  BY EveryGrantSteps DEF TablesAreTrue
<1>2. /\ grant[g] \in {"none", "pending", "settled", "reversed"}
      /\ event[g] \in {"none", "awarded", "revoked"}
  BY DEF PulseTyped, ForumTyped
<1>3. CASE UNCHANGED <<grant[g], delivery[g], event[g]>>
  BY <1>1, <1>3 DEF GrantIsTrue
<1>4. CASE /\ grant[g] = "none" /\ grant'[g] = "pending" /\ UNCHANGED event[g]
           /\ delivery'[g] = IF g \in Shadow THEN "shadow" ELSE "community_pending"
  BY <1>1, <1>2, <1>4 DEF GrantIsTrue
<1>5. CASE /\ grant[g] \in {"pending", "settled"} /\ grant'[g] = "reversed"
           /\ delivery'[g] = "community_pending" /\ UNCHANGED event[g]
  BY <1>1, <1>2, <1>5 DEF GrantIsTrue
<1>6. ASSUME NEW c \in Consumers,
             At(c, "ack"), Current(c).g = g, grant[g] = Current(c).status,
             grant'[g] = Settled(Current(c).status),
             delivery'[g] = "community_delivered", UNCHANGED event[g]
      PROVE  GrantIsTrue(g)'
  <2>1. /\ Current(c) = Lowest(sync[c].rows) /\ Current(c) \in sync[c].rows
        /\ Current(c).status \in {"pending", "reversed"}
    BY <1>6, CurrentIsRow DEF At
  <2>2. RowIsTrue(Current(c)) /\ RowIsApplied(Current(c))
    BY <1>6, <2>1 DEF RowsAreTrue, Knows, At
  <2>3. CASE Current(c).status = "pending"
    <3>1. event[g] # "none" /\ grant[g] = "pending" /\ grant'[g] = "settled" /\ g \notin Shadow
      BY <1>6, <2>2, <2>3 DEF RowIsTrue, RowIsApplied, Settled
    <3>2. event[g] = "awarded"
      BY <1>1, <1>2, <3>1 DEF GrantIsTrue
    <3>3. QED
      BY <1>6, <3>1, <3>2 DEF GrantIsTrue
  <2>4. CASE Current(c).status = "reversed"
    <3>1. event[g] = "revoked" /\ grant[g] = "reversed" /\ grant'[g] = "reversed"
      BY <1>6, <2>2, <2>4 DEF RowIsApplied, Settled
    <3>2. QED
      BY <1>6, <3>1 DEF GrantIsTrue
  <2>5. QED
    BY <2>1, <2>3, <2>4
<1>7. ASSUME NEW c \in Consumers, Award(c), Current(c).g = g,
             UNCHANGED <<grant[g], delivery[g]>>,
             \/ Current(c).status = "pending" /\ event[g] = "none" /\ event'[g] = "awarded"
             \/ Current(c).status = "reversed" /\ event'[g] = "revoked"
      PROVE  GrantIsTrue(g)'
  <2>1. Current(c) \in sync[c].rows /\ sync[c].pc = "award"
    BY <1>7, CurrentIsRow DEF Award, At
  <2>2. RowIsTrue(Current(c))
    BY <2>1 DEF RowsAreTrue, Knows
  <2>3. CASE Current(c).status = "pending" /\ event[g] = "none" /\ event'[g] = "awarded"
    BY <1>1, <1>7, <2>2, <2>3 DEF GrantIsTrue, RowIsTrue
  <2>4. CASE Current(c).status = "reversed" /\ event'[g] = "revoked"
    BY <1>1, <1>7, <2>2, <2>4 DEF GrantIsTrue, RowIsTrue
  <2>5. QED
    BY <1>7, <2>3, <2>4
<1>8. QED
  BY <1>1, <1>3, <1>4, <1>5, <1>6, <1>7 DEF GrantStep

(* What is true of a row stays true.                                       *)
LEMMA RowsStayTrue ==
  ASSUME PulseTyped, ForumTyped, SyncTyped, RowsAreTrue, TablesAreTrue, [Next]_vars,
         NEW i \in Item
  PROVE  /\ RowIsTrue(i) => RowIsTrue(i)'
         /\ RowIsApplied(i) => RowIsApplied(i)'
<1>1. i.g \in Grants /\ i.status \in {"pending", "reversed"}
  BY DEF Item
<1>2. GrantStep(i.g) /\ GrantIsTrue(i.g)
  BY <1>1, EveryGrantSteps DEF TablesAreTrue
<1>3. /\ grant[i.g] # "none" => grant'[i.g] # "none"
      /\ grant[i.g] = "reversed" => grant'[i.g] = "reversed"
      /\ event[i.g] # "none" => event'[i.g] # "none"
      /\ event[i.g] = "revoked" => event'[i.g] = "revoked"
  <2>1. /\ "pending" # "none" /\ "reversed" # "none" /\ "settled" # "none"
    OBVIOUS
  <2>2. ASSUME NEW c \in Consumers, grant[i.g] = Current(c).status,
               grant'[i.g] = Settled(Current(c).status)
        PROVE  /\ grant[i.g] # "none" => grant'[i.g] # "none"
               /\ grant[i.g] = "reversed" => grant'[i.g] = "reversed"
    BY <2>2 DEF Settled
  <2>3. QED
    BY <1>2, <2>2 DEF GrantStep, GrantIsTrue
<1>4. QED
  BY <1>3 DEF RowIsTrue, RowIsApplied

(* What a consumer knows stays true, whoever moves.                        *)
LEMMA KnowledgeStays ==
  ASSUME PulseTyped, ForumTyped, SyncTyped, RowsAreTrue, TablesAreTrue, [Next]_vars,
         NEW l \in Sync, l.pc \in {"award", "ack"} => l.rows # {}, Knows(l)
  PROVE  Knows(l)'
<1>1. CASE l.pc \notin {"award", "ack"}
  BY <1>1 DEF Knows
<1>2. CASE l.pc \in {"award", "ack"}
  <2>1. l.rows \in SUBSET Item /\ l.rows # {}
    <3>1. l \notin {Off, Ready}
      BY <1>2 DEF Off, Ready
    <3>2. QED
      BY <1>2, <3>1 DEF Sync
  <2>2. Lowest(l.rows) \in Item
    BY <2>1, LowestIsRow
  <2>3. \A i \in l.rows : RowIsTrue(i)'
    BY <1>2, <2>1, RowsStayTrue DEF Knows
  <2>4. l.pc = "ack" => RowIsApplied(Lowest(l.rows))'
    BY <2>2, RowsStayTrue DEF Knows
  <2>5. QED
    BY <2>3, <2>4 DEF Knows
<1>3. QED
  BY <1>1, <1>2

(* A consumer that moves knows what it needs to know.                      *)
LEMMA KnowledgeGained ==
  ASSUME PulseTyped, ForumTyped, SyncTyped, RowsAreTrue, TablesAreTrue, [Next]_vars,
         NEW c \in Consumers, NEW l \in Sync, Serves(c, l)
  PROVE  Knows(l)'
<1>1. CASE l.pc \notin {"award", "ack"}
  BY <1>1 DEF Knows
<1>2. CASE /\ List(c) /\ l \in Job /\ l.pc = "award"
           /\ l.rows = FirstPage(sync[c].user) /\ l.rows # {}
  <2>1. ASSUME NEW i \in l.rows PROVE RowIsTrue(i)'
    <3>1. i \in Item /\ i.g \in Open(sync[c].user) /\ i.status = grant[i.g]
      BY <1>2, PageIsRows
    <3>2. GrantIsTrue(i.g) /\ i.g \in Grants /\ delivery[i.g] = "community_pending"
      BY <3>1 DEF Open, TablesAreTrue
    <3>3. RowIsTrue(i)
      BY <3>1, <3>2 DEF RowIsTrue, GrantIsTrue
    <3>4. QED
      BY <3>1, <3>3, RowsStayTrue
  <2>2. QED
    BY <1>2, <2>1 DEF Knows
<1>3. CASE Award(c) /\ l \in Job /\ l.pc = "ack" /\ l.rows = sync[c].rows
  <2> DEFINE i == Lowest(l.rows)
  <2>1. sync[c].pc = "award" /\ l.rows \in SUBSET Item
    BY <1>3 DEF Award, At, Job
  <2>2. i = Current(c) /\ i.g \in Grants /\ i.status \in {"pending", "reversed"}
    BY <1>3, <2>1, CurrentIsRow
  <2>3. \A j \in l.rows : RowIsTrue(j) /\ RowIsTrue(j)'
    BY <1>3, <2>1, RowsStayTrue DEF RowsAreTrue, Knows
  <2>4. RowIsApplied(i)'
    <3>1. AwardPulse(i)
      BY <1>3, <2>2 DEF Award
    <3> HIDE DEF i
    <3>2. IF i.status = "pending" THEN event'[i.g] # "none" ELSE event'[i.g] = "revoked"
      BY <2>2, <3>1 DEF AwardPulse, Credit, Debit, Bury, forum, ForumTyped
    <3>3. i' = i
      BY DEF i
    <3>4. QED
      BY <3>2, <3>3 DEF RowIsApplied
  <2>5. QED
    BY <1>3, <2>3, <2>4 DEF Knows
<1>4. CASE Ack(c) /\ l \in Job /\ l.pc = "award" /\ l.rows \subseteq sync[c].rows
  <2>1. sync[c].pc = "ack" /\ sync[c].rows \in SUBSET Item
    BY <1>4, JobAt DEF Ack, At, Job
  <2>2. \A j \in l.rows : RowIsTrue(j)'
    BY <1>4, <2>1, RowsStayTrue DEF RowsAreTrue, Knows
  <2>3. QED
    BY <1>4, <2>2 DEF Knows
<1>5. CASE l \in {Off, Ready}
  <2>1. l.pc \notin {"award", "ack"}
    BY <1>5 DEF Off, Ready
  <2>2. QED
    BY <1>1, <2>1
<1>6. QED
  BY <1>1, <1>2, <1>3, <1>4, <1>5 DEF Serves

(* So everything on its way stays true.                                    *)
LEMMA RowsStep ==
  ASSUME PulseTyped, ForumTyped, SyncTyped, WakesTyped, RowsAreTrue, TablesAreTrue, [Next]_vars
  PROVE  RowsAreTrue'
<1>1. ASSUME NEW c \in Consumers PROVE Knows(sync[c])'
  <2>1. sync[c] \in Sync /\ (sync[c].pc \in {"award", "ack"} => sync[c].rows # {}) /\ Knows(sync[c])
    BY DEF SyncTyped, RowsAreTrue
  <2>2. CASE sync'[c] = sync[c]
    <3>1. PICK l \in Sync : l = sync[c]
      BY <2>1
    <3>2. Knows(l)'
      BY <2>1, <3>1, KnowledgeStays
    <3>3. QED
      BY <2>2, <3>1, <3>2 DEF Knows
  <2>3. ASSUME NEW l \in Sync, Serves(c, l), sync'[c] = l PROVE Knows(sync[c])'
    <3>1. Knows(l)'
      BY <2>3, KnowledgeGained
    <3>2. QED
      BY <2>3, <3>1 DEF Knows
  <2>4. CASE sync' = [d \in Consumers |-> Off]
    <3>1. sync'[c].pc = "off"
      BY <2>4 DEF Off
    <3>2. QED
      BY <3>1 DEF Knows
  <2>5. CASE \E d \in Consumers, l \in Sync : sync' = [sync EXCEPT ![d] = l] /\ Serves(d, l)
    <3>1. PICK d \in Consumers, l \in Sync : sync' = [sync EXCEPT ![d] = l] /\ Serves(d, l)
      BY <2>5
    <3>2. CASE d = c
      <4>1. sync'[c] = l
        BY <3>1, <3>2 DEF SyncTyped
      <4>2. QED
        BY <2>3, <3>1, <3>2, <4>1
    <3>3. CASE d # c
      <4>1. sync'[c] = sync[c]
        BY <3>1, <3>3 DEF SyncTyped
      <4>2. QED
        BY <2>2, <4>1
    <3>4. QED
      BY <3>2, <3>3
  <2>6. CASE UNCHANGED sync
    BY <2>2, <2>6
  <2>7. QED
    BY <2>4, <2>5, <2>6, SyncWriters
<1>2. QED
  BY <1>1 DEF RowsAreTrue

-----------------------------------------------------------------------------
(* The invariant, and what follows from it.                                *)

DeliveryIsSound ==
  /\ MostlyTyped /\ ExperienceBudget /\ ExperienceAddsUp
  /\ RowsAreTrue /\ TablesAreTrue

(* Failed steps are counted up to their bound.                             *)
LEMMA FaultsStep ==
  ASSUME faults \in 0 .. MaxFaults, restarted \in BOOLEAN, [Next]_vars
  PROVE  faults' \in 0 .. MaxFaults /\ restarted' \in BOOLEAN
<1>1. \/ UNCHANGED <<faults, restarted>>
      \/ faults < MaxFaults /\ faults' = faults + 1 /\ restarted' \in {restarted, TRUE}
  <2>1. ASSUME NEW c \in Consumers, Deliver(c) \/ AckLost(c) \/ StepFails(c)
        PROVE  \/ UNCHANGED <<faults, restarted>>
               \/ faults < MaxFaults /\ faults' = faults + 1 /\ UNCHANGED restarted
    BY <2>1 DEF Deliver, List, Award, Ack, AckRefused, AfterFailure, AckLost, StepFails
  <2>2. QED
    BY <2>1 DEF Next, Win, ReverseGrant, Enqueue, Refresh, RefreshDone, Take, Stop, Finish,
       Restart, vars
<1>2. MaxFaults \in Nat
  BY DeliveryAssumption
<1>3. faults' \in 0 .. MaxFaults
  <2>1. faults' = faults \/ (faults < MaxFaults /\ faults' = faults + 1)
    BY <1>1
  <2>2. QED
    BY <1>2, <2>1
<1>4. restarted' \in BOOLEAN
  BY <1>1, Zenon
<1>5. QED
  BY <1>3, <1>4

(* At first there is nothing.                                              *)
LEMMA DeliveryInit == Init => DeliveryIsSound
<1> SUFFICES ASSUME Init PROVE DeliveryIsSound
  OBVIOUS
<1>1. PulseTyped /\ ForumTyped
  BY DEF Init, PulseTyped, ForumTyped, EmptyBudget
<1>2. Off \in Sync /\ Off.pc = "off"
  BY DEF Off, Sync
<1>3. SyncTyped /\ WakesTyped /\ RowsAreTrue
  BY <1>2 DEF Init, SyncTyped, WakesTyped, RowsAreTrue, Knows
<1>4. MostlyTyped
  <2>1. MaxFaults \in Nat
    BY DeliveryAssumption
  <2>2. faults \in 0 .. MaxFaults
    BY <2>1 DEF Init
  <2>3. restarted \in BOOLEAN
    BY DEF Init
  <2>4. QED
    BY <1>1, <1>3, <2>2, <2>3 DEF MostlyTyped
<1>5. ASSUME NEW b \in Budgets
      PROVE  /\ budget[b].reserved = Total(Charged(grant, b, "pending"))
             /\ budget[b].settled = Total(Charged(grant, b, "settled"))
             /\ budget[b].released = Total(Charged(grant, b, "reversed"))
  <2>1. \A status : status # "none" => Charged(grant, b, status) = {}
    BY DEF Init, Charged
  <2>2. QED
    BY <2>1, TotalEmpty DEF Init, EmptyBudget
<1>6. ExperienceAddsUp
  <2>1. \A u \in Users : {g \in Grants : UserOf[g] = u /\ event[g] = "awarded"} = {}
    BY DEF Init
  <2>2. \A u \in Users : exp[u] = Total({g \in Grants : UserOf[g] = u /\ event[g] = "awarded"})
    BY <2>1, TotalEmpty DEF Init
  <2>3. QED
    BY <2>2 DEF Init, ExperienceAddsUp
<1>7. TablesAreTrue
  BY DEF Init, TablesAreTrue, GrantIsTrue
<1>8. QED
  BY <1>3, <1>4, <1>5, <1>6, <1>7 DEF DeliveryIsSound, ExperienceBudget

(* Every step keeps it.                                                    *)
LEMMA DeliveryStep ==
  ASSUME DeliveryIsSound, [Next]_vars
  PROVE  DeliveryIsSound'
<1> USE DEF DeliveryIsSound, MostlyTyped
<1>1. PulseTyped' /\ ExperienceBudget'
  BY PulseStep
<1>2. SyncTyped' /\ WakesTyped'
  BY SyncWriters
<1>3. ForumTyped' /\ ExperienceAddsUp'
  <2>1. CASE UNCHANGED forum
    BY <2>1 DEF forum, ForumTyped, ExperienceAddsUp
  <2>2. ASSUME NEW c \in Consumers, Award(c) PROVE ForumTyped' /\ ExperienceAddsUp'
    <3>1. sync[c].pc = "award" /\ AwardPulse(Current(c)) /\ sync[c].rows \in SUBSET Item
      BY <2>2, JobAt DEF Award, At, Job
    <3>2. Current(c) \in Item
      BY <3>1, CurrentIsRow
    <3>3. QED
      BY <3>1, <3>2, AwardStep
  <2>3. QED
    BY <2>1, <2>2, ForumWriters
<1>4. faults' \in 0 .. MaxFaults /\ restarted' \in BOOLEAN
  BY FaultsStep
<1>5. RowsAreTrue' /\ TablesAreTrue'
  BY RowsStep, TablesStep
<1>6. QED
  BY <1>1, <1>2, <1>3, <1>4, <1>5

(* So it always holds.                                                     *)
LEMMA DeliveryIsAlwaysSound == Spec => []DeliveryIsSound
<1>1. Init => DeliveryIsSound
  BY DeliveryInit
<1>2. DeliveryIsSound /\ [Next]_vars => DeliveryIsSound'
  BY DeliveryStep
<1>3. QED
  BY <1>1, <1>2, PTL DEF Spec

(* Every reachable state of the delivery is well typed; in particular no   *)
(* balance of experience and no total of a budget ever becomes negative,   *)
(* whatever is subtracted.                                                 *)
THEOREM DeliveryTypeCorrect == Spec => []DeliveryTypeOK
<1>1. DeliveryIsSound => DeliveryTypeOK
  <2> SUFFICES ASSUME DeliveryIsSound PROVE DeliveryTypeOK
    OBVIOUS
  <2>1. ASSUME NEW b \in Budgets PROVE budget[b] \in BudgetRow
    <3>1. \A status : Total(Charged(grant, b, status)) \in Nat
      BY TotalType DEF Charged
    <3>2. budget[b].reserved \in Nat /\ budget[b].settled \in Nat /\ budget[b].released \in Nat
      BY <3>1 DEF DeliveryIsSound, ExperienceBudget
    <3>3. QED
      BY <3>2 DEF DeliveryIsSound, MostlyTyped, PulseTyped, BudgetRow
  <2>2. ASSUME NEW u \in Users PROVE exp[u] \in Nat
    <3> DEFINE A == {g \in Grants : UserOf[g] = u /\ event[g] = "awarded"}
    <3>1. Total(A) \in Nat
      BY TotalType
    <3>2. QED
      BY <3>1 DEF DeliveryIsSound, ExperienceAddsUp
  <2>3. budget \in [Budgets -> BudgetRow] /\ exp \in [Users -> Nat]
    BY <2>1, <2>2 DEF DeliveryIsSound, MostlyTyped, PulseTyped, ForumTyped
  <2>4. QED
    BY <2>3 DEF DeliveryIsSound, MostlyTyped, PulseTyped, ForumTyped, WakesTyped, SyncTyped,
       DeliveryTypeOK
<1>2. QED
  BY <1>1, DeliveryIsAlwaysSound, PTL

(* Whatever is lost, repeated or reversed on the way: when Pulse takes a   *)
(* delivery for done, the forum has the effect that Pulse has booked, and  *)
(* no experience is credited in the shadow mode.                           *)
THEOREM DeliveriesAreApplied == Spec => []DeliveredMeansApplied
<1>1. DeliveryIsSound => DeliveredMeansApplied
  BY DEF DeliveryIsSound, TablesAreTrue, GrantIsTrue, DeliveredMeansApplied
<1>2. QED
  BY <1>1, DeliveryIsAlwaysSound, PTL

(* The balance of every member is the sum of what is credited and not      *)
(* revoked, and the ledger of the forum says the same.                     *)
THEOREM ExperienceIsExact == Spec => []ExperienceAddsUp
<1>1. DeliveryIsSound => ExperienceAddsUp
  BY DEF DeliveryIsSound
<1>2. QED
  BY <1>1, DeliveryIsAlwaysSound, PTL

(* The budget of Pulse holds exactly the sums of its experience grants.    *)
THEOREM ExperienceIsBudgeted == Spec => []ExperienceBudget
<1>1. DeliveryIsSound => ExperienceBudget
  BY DEF DeliveryIsSound
<1>2. QED
  BY <1>1, DeliveryIsAlwaysSound, PTL

-----------------------------------------------------------------------------
(* The queue.                                                              *)

(* The places of a member in a sequence of members.                        *)
Places(q, u) == {i \in DOMAIN q : q[i] = u}

(* They are finitely many.                                                 *)
LEMMA PlacesAreFinite ==
  ASSUME NEW q \in Seq(Users), NEW u
  PROVE  IsFiniteSet(Places(q, u)) /\ Cardinality(Places(q, u)) \in Nat
<1>1. Len(q) \in Nat /\ DOMAIN q = 1 .. Len(q)
  OBVIOUS
<1>2. Places(q, u) \in SUBSET (1 .. Len(q)) /\ IsFiniteSet(1 .. Len(q))
  BY <1>1, FS_Interval DEF Places
<1>3. IsFiniteSet(Places(q, u))
  BY <1>2, FS_Subset
<1>4. QED
  BY <1>3, FS_CardinalityType

(* A member who is appended has one place more.                            *)
LEMMA PlacesAppend ==
  ASSUME NEW q \in Seq(Users), NEW v \in Users, NEW u
  PROVE  Cardinality(Places(Append(q, v), u)) =
           IF u = v THEN Cardinality(Places(q, u)) + 1 ELSE Cardinality(Places(q, u))
<1> DEFINE n == Len(q) + 1
           r == Append(q, v)
<1>1. /\ Len(q) \in Nat /\ DOMAIN q = 1 .. Len(q)
      /\ r \in Seq(Users) /\ Len(r) = n /\ DOMAIN r = 1 .. n
      /\ r[n] = v /\ \A i \in 1 .. Len(q) : r[i] = q[i]
  OBVIOUS
<1> HIDE DEF r
<1>2. 1 .. n = (1 .. Len(q)) \cup {n} /\ n \notin 1 .. Len(q)
  BY <1>1
<1>3. CASE u = v
  <2>1. Places(r, u) = Places(q, u) \cup {n} /\ n \notin Places(q, u)
    BY <1>1, <1>2, <1>3 DEF Places
  <2>2. Cardinality(Places(r, u)) = Cardinality(Places(q, u)) + 1
    BY <2>1, PlacesAreFinite, FS_AddElement
  <2>3. QED
    BY <1>3, <2>2 DEF r
<1>4. CASE u # v
  <2>1. Places(r, u) = Places(q, u)
    BY <1>1, <1>2, <1>4 DEF Places
  <2>2. QED
    BY <1>4, <2>1 DEF r
<1>5. QED
  BY <1>3, <1>4

(* The first member loses the first place; everybody moves up.             *)
LEMMA PlacesTail ==
  ASSUME NEW q \in Seq(Users), q # <<>>, NEW u
  PROVE  Cardinality(Places(Tail(q), u)) =
           IF u = Head(q) THEN Cardinality(Places(q, u)) - 1 ELSE Cardinality(Places(q, u))
<1> DEFINE r == Tail(q)
           A == Places(r, u)
           B == Places(q, u) \ {1}
           f == [i \in A |-> i + 1]
<1>1. /\ Len(q) \in Nat /\ Len(q) > 0 /\ DOMAIN q = 1 .. Len(q)
      /\ r \in Seq(Users) /\ Len(r) = Len(q) - 1 /\ DOMAIN r = 1 .. Len(q) - 1
      /\ \A i \in 1 .. Len(q) - 1 : r[i] = q[i + 1]
      /\ Head(q) = q[1]
  OBVIOUS
<1> HIDE DEF r
<1>2. A = {i \in 1 .. Len(q) - 1 : q[i + 1] = u}
  BY <1>1 DEF Places
<1>3. B = {i \in 2 .. Len(q) : q[i] = u}
  BY <1>1 DEF Places
<1>4. f \in Bijection(A, B)
  <2>1. f \in [A -> B]
    BY <1>1, <1>2, <1>3
  <2>2. \A i, j \in A : f[i] = f[j] => i = j
    BY <1>1, <1>2
  <2>3. \A k \in B : \E i \in A : f[i] = k
    <3>1. ASSUME NEW k \in B PROVE \E i \in A : f[i] = k
      <4>1. k \in 2 .. Len(q) /\ q[k] = u
        BY <1>3
      <4>2. k - 1 \in A
        BY <1>1, <1>2, <4>1
      <4>3. f[k - 1] = k
        BY <4>1, <4>2
      <4>4. QED
        BY <4>2, <4>3
    <3>2. QED
      BY <3>1
  <2>4. QED
    <3> HIDE DEF A, B, f
    <3>1. f \in Injection(A, B)
      BY <2>1, <2>2 DEF Injection, IsInjective
    <3>2. f \in Surjection(A, B)
      BY <2>1, <2>3 DEF Surjection
    <3>3. QED
      BY <3>1, <3>2 DEF Bijection
<1>5. ExistsBijection(A, B)
  BY <1>4 DEF ExistsBijection
<1>6. IsFiniteSet(A)
  BY <1>1, PlacesAreFinite
<1>7. Cardinality(A) = Cardinality(B)
  <2> HIDE DEF A, B, f
  <2> QED
    BY <1>5, <1>6, FS_Bijection
<1>8. CASE u = Head(q)
  <2>1. 1 \in Places(q, u)
    BY <1>1, <1>8 DEF Places
  <2>2. Cardinality(B) = Cardinality(Places(q, u)) - 1
    BY <2>1, PlacesAreFinite, FS_RemoveElement
  <2>3. QED
    BY <1>7, <1>8, <2>2 DEF r
<1>9. CASE u # Head(q)
  <2>1. B = Places(q, u)
    BY <1>1, <1>9 DEF Places
  <2>2. QED
    BY <1>7, <1>9, <2>1 DEF r
<1>10. QED
  BY <1>8, <1>9

(* A consumer that is off or ready has no job.                             *)
LEMMA IdleAt ==
  ASSUME SyncTyped, NEW c \in Consumers, sync[c].pc \in {"off", "ready"}
  PROVE  sync[c] \in {Off, Ready} /\ sync[c] \notin Job
<1>1. sync[c] \in {Off, Ready} \cup Job
  BY DEF SyncTyped, Sync, Job
<1>2. sync[c] \notin Job
  BY DEF Job
<1>3. QED
  BY <1>1, <1>2

(* The workers of a member are finitely many.                              *)
LEMMA WorkIsFinite ==
  ASSUME NEW u
  PROVE  IsFiniteSet(InWork(u)) /\ Cardinality(InWork(u)) \in Nat
<1>1. IsFiniteSet(Workers)
  BY DeliveryAssumption
<1>2. InWork(u) \in SUBSET Workers
  BY DEF InWork
<1>3. IsFiniteSet(InWork(u))
  BY <1>1, <1>2, FS_Subset
<1>4. QED
  BY <1>3, FS_CardinalityType

(* A worker that goes on with the job of its member, or stays without one, *)
(* or something that is not a worker, changes nothing.                     *)
LEMMA WorkGoesOn ==
  ASSUME SyncTyped, NEW c \in Consumers, NEW l, sync' = [sync EXCEPT ![c] = l],
         \/ sync[c] \in Job /\ l \in Job /\ l.user = sync[c].user
         \/ sync[c] \in {Off, Ready} /\ l \in {Off, Ready}
         \/ c \notin Workers,
         NEW u
  PROVE  InWork(u)' = InWork(u)
<1>1. Workers \subseteq Consumers /\ sync'[c] = l
      /\ \A w \in Workers : w # c => sync'[w] = sync[w]
  BY DEF Consumers, SyncTyped
<1>2. sync[c] \in Job => sync[c] \notin {Off, Ready}
  BY JobIsWork
<1>3. l \in Job => l \notin {Off, Ready}
  BY JobIsWork
<1>4. QED
  BY <1>1, <1>2, <1>3 DEF InWork

(* A worker begins a job.                                                  *)
LEMMA WorkBegins ==
  ASSUME SyncTyped, NEW w \in Workers, NEW l \in Job, sync' = [sync EXCEPT ![w] = l],
         sync[w] \in {Off, Ready}, NEW u
  PROVE  Cardinality(InWork(u)') =
           IF u = l.user THEN Cardinality(InWork(u)) + 1 ELSE Cardinality(InWork(u))
<1>1. Workers \subseteq Consumers /\ sync'[w] = l
      /\ \A v \in Workers : v # w => sync'[v] = sync[v]
  BY DEF Consumers, SyncTyped
<1>2. l \notin {Off, Ready}
  BY JobIsWork
<1>3. CASE u = l.user
  <2>1. InWork(u)' = InWork(u) \cup {w} /\ w \notin InWork(u)
    BY <1>1, <1>2, <1>3 DEF InWork
  <2>2. QED
    BY <1>3, <2>1, WorkIsFinite, FS_AddElement
<1>4. CASE u # l.user
  <2>1. InWork(u)' = InWork(u)
    BY <1>1, <1>2, <1>4 DEF InWork
  <2>2. QED
    BY <1>4, <2>1
<1>5. QED
  BY <1>3, <1>4

(* A worker ends a job.                                                    *)
LEMMA WorkEnds ==
  ASSUME SyncTyped, NEW w \in Workers, NEW l \in {Off, Ready}, sync' = [sync EXCEPT ![w] = l],
         sync[w] \in Job, NEW u
  PROVE  /\ w \in InWork(sync[w].user)
         /\ Cardinality(InWork(u)') =
              IF u = sync[w].user THEN Cardinality(InWork(u)) - 1 ELSE Cardinality(InWork(u))
<1>1. Workers \subseteq Consumers /\ sync'[w] = l
      /\ \A v \in Workers : v # w => sync'[v] = sync[v]
  BY DEF Consumers, SyncTyped
<1>2. sync[w] \notin {Off, Ready}
  BY JobIsWork
<1>3. w \in InWork(sync[w].user)
  BY <1>2 DEF InWork
<1>4. CASE u = sync[w].user
  <2>1. InWork(u)' = InWork(u) \ {w} /\ w \in InWork(u)
    BY <1>1, <1>2, <1>3, <1>4 DEF InWork
  <2>2. QED
    BY <1>3, <1>4, <2>1, WorkIsFinite, FS_RemoveElement
<1>5. CASE u # sync[w].user
  <2>1. InWork(u)' = InWork(u)
    BY <1>1, <1>5 DEF InWork
  <2>2. QED
    BY <1>3, <1>5, <2>1
<1>6. QED
  BY <1>4, <1>5

(* The three parts of the invariant of the queue.                          *)
OnTheWay == {u \in Users : pending[u] # "absent"}
OneAtATime ==
  \A u \in Users : Cardinality(InWork(u)) + Cardinality(Places(queue, u)) =
                     IF pending[u] = "absent" THEN 0 ELSE 1
SomebodyIsUp == queue # <<>> => \E w \in Workers : ~ At(w, "off")

(* They are the invariant.                                                 *)
LEMMA QueueParts ==
  QueueIsSound <=> OneAtATime /\ Cardinality(OnTheWay) <= QueueLimit /\ SomebodyIsUp
<1>1. \A u : Queued(u) = Places(queue, u)
  BY DEF Queued, Places
<1>2. QED
  BY <1>1 DEF QueueIsSound, OneAtATime, OnTheWay, SomebodyIsUp

(* Also after a step.                                                      *)
LEMMA QueuePartsNext ==
  ASSUME OneAtATime', Cardinality(OnTheWay)' <= QueueLimit, SomebodyIsUp'
  PROVE  QueueIsSound'
<1>1. \A u : Queued(u)' = Places(queue', u)
  BY DEF Queued, Places
<1>2. QED
  BY <1>1 DEF QueueIsSound, OneAtATime, OnTheWay, SomebodyIsUp

(* The members on their way are finitely many.                             *)
LEMMA OnTheWayIsFinite == IsFiniteSet(OnTheWay) /\ Cardinality(OnTheWay) \in Nat
<1>1. IsFiniteSet(Users)
  BY DeliveryAssumption
<1>2. OnTheWay \in SUBSET Users
  BY DEF OnTheWay
<1>3. IsFiniteSet(OnTheWay)
  BY <1>1, <1>2, FS_Subset
<1>4. QED
  BY <1>3, FS_CardinalityType

(* A wake-up: marks a member on the way, or queues one who is not.         *)
LEMMA EnqueueIsSound ==
  ASSUME SyncTyped, WakesTyped, OneAtATime, Cardinality(OnTheWay) <= QueueLimit, SomebodyIsUp,
         NEW v \in Users, Enqueue(v)
  PROVE  OneAtATime' /\ Cardinality(OnTheWay)' <= QueueLimit /\ SomebodyIsUp'
<1>1. CASE /\ pending[v] = "once" /\ pending' = [pending EXCEPT ![v] = "again"]
           /\ queue' = queue /\ sync' = sync
  <2>1. \A u \in Users : (pending'[u] = "absent") = (pending[u] = "absent")
    BY <1>1 DEF WakesTyped
  <2>2. \A u : InWork(u)' = InWork(u)
    BY <1>1 DEF InWork
  <2>3. OneAtATime'
    BY <1>1, <2>1, <2>2 DEF OneAtATime
  <2>4. OnTheWay' = OnTheWay
    BY <2>1 DEF OnTheWay
  <2>5. SomebodyIsUp'
    BY <1>1 DEF SomebodyIsUp, At
  <2>6. QED
    BY <2>3, <2>4, <2>5
<1>2. CASE /\ pending[v] = "absent"
           /\ Cardinality({u \in Users : pending[u] # "absent"}) < QueueLimit
           /\ pending' = [pending EXCEPT ![v] = "once"]
           /\ queue' = Append(queue, v)
           /\ \/ \E w \in Workers : At(w, "off") /\ sync' = [sync EXCEPT ![w] = Ready]
              \/ (\A w \in Workers : ~At(w, "off")) /\ UNCHANGED sync
  <2>1. \A u \in Users : InWork(u)' = InWork(u)
    <3>1. ASSUME NEW w \in Workers, At(w, "off"), sync' = [sync EXCEPT ![w] = Ready],
                 NEW u \in Users
          PROVE  InWork(u)' = InWork(u)
      <4>1. w \in Consumers
        BY DEF Consumers
      <4>2. sync[w] \in {Off, Ready}
        BY <3>1, <4>1, IdleAt DEF At
      <4>3. QED
        BY <3>1, <4>1, <4>2, WorkGoesOn
    <3>2. CASE sync' = sync
      BY <3>2 DEF InWork
    <3>3. QED
      BY <1>2, <3>1, <3>2
  <2>2. \A u \in Users : Cardinality(Places(queue', u)) =
          IF u = v THEN Cardinality(Places(queue, u)) + 1 ELSE Cardinality(Places(queue, u))
    BY <1>2, PlacesAppend DEF WakesTyped
  <2>3. \A u \in Users : pending'[u] = IF u = v THEN "once" ELSE pending[u]
    BY <1>2 DEF WakesTyped
  <2>4. ASSUME NEW u \in Users
        PROVE  Cardinality(InWork(u)') + Cardinality(Places(queue', u)) =
                 IF pending'[u] = "absent" THEN 0 ELSE 1
    <3>1. /\ Cardinality(InWork(u)) \in Nat /\ Cardinality(Places(queue, u)) \in Nat
          /\ Cardinality(InWork(u)) + Cardinality(Places(queue, u)) =
               IF pending[u] = "absent" THEN 0 ELSE 1
      BY WorkIsFinite, PlacesAreFinite DEF OneAtATime, WakesTyped
    <3>2. Cardinality(InWork(u)') = Cardinality(InWork(u))
      BY <2>1
    <3>3. CASE u = v
      <4>1. /\ Cardinality(Places(queue', u)) = Cardinality(Places(queue, u)) + 1
            /\ pending[u] = "absent" /\ pending'[u] = "once"
        BY <1>2, <2>2, <2>3, <3>3
      <4>2. QED
        BY <3>1, <3>2, <4>1
    <3>4. CASE u # v
      <4>1. /\ Cardinality(Places(queue', u)) = Cardinality(Places(queue, u))
            /\ pending'[u] = pending[u]
        BY <2>2, <2>3, <3>4
      <4>2. QED
        BY <3>1, <3>2, <4>1
    <3>5. QED
      BY <3>3, <3>4
  <2>5. OneAtATime'
    BY <2>4 DEF OneAtATime
  <2>6. Cardinality(OnTheWay)' <= QueueLimit
    <3>1. OnTheWay' = OnTheWay \cup {v} /\ v \notin OnTheWay
      BY <1>2, <2>3 DEF OnTheWay
    <3>2. Cardinality(OnTheWay') = Cardinality(OnTheWay) + 1
      BY <3>1, OnTheWayIsFinite, FS_AddElement
    <3>3. Cardinality(OnTheWay) < QueueLimit /\ Cardinality(OnTheWay) \in Nat /\ QueueLimit \in Nat
      BY <1>2, OnTheWayIsFinite, DeliveryAssumption DEF OnTheWay
    <3>4. QED
      BY <3>2, <3>3
  <2>7. SomebodyIsUp'
    <3>1. ASSUME NEW w \in Workers, sync' = [sync EXCEPT ![w] = Ready]
          PROVE  sync'[w].pc # "off"
      BY <3>1 DEF Ready, Consumers, SyncTyped
    <3>2. CASE (\A w \in Workers : ~At(w, "off")) /\ UNCHANGED sync
      BY <3>2, DeliveryAssumption DEF SomebodyIsUp, At
    <3>3. QED
      BY <1>2, <3>1, <3>2 DEF SomebodyIsUp, At
  <2>8. QED
    BY <2>5, <2>6, <2>7
<1>3. QED
  BY <1>1, <1>2 DEF Enqueue

(* A worker takes the first member of the queue.                           *)
LEMMA TakeIsSound ==
  ASSUME SyncTyped, WakesTyped, OneAtATime, Cardinality(OnTheWay) <= QueueLimit, SomebodyIsUp,
         NEW w \in Workers, Take(w)
  PROVE  OneAtATime' /\ Cardinality(OnTheWay)' <= QueueLimit /\ SomebodyIsUp'
<1> DEFINE h == Head(queue)
           l == Start(h)
<1>1. /\ queue \in Seq(Users) /\ queue # <<>> /\ h \in Users /\ w \in Consumers
      /\ queue' = Tail(queue) /\ pending' = [pending EXCEPT ![h] = "once"]
      /\ sync' = [sync EXCEPT ![w] = l] /\ sync[w].pc = "ready"
  BY DEF Take, WakesTyped, At, Consumers
<1>2. l \in Job /\ l.user = h /\ l.pc = "list"
  BY <1>1, FirstRun
<1>3. sync[w] \in {Off, Ready}
  BY <1>1, IdleAt
<1> HIDE DEF h, l
<1>4. \A u \in Users : Cardinality(InWork(u)') =
        IF u = h THEN Cardinality(InWork(u)) + 1 ELSE Cardinality(InWork(u))
  BY <1>1, <1>2, <1>3, WorkBegins
<1>5. \A u \in Users : Cardinality(Places(queue', u)) =
        IF u = h THEN Cardinality(Places(queue, u)) - 1 ELSE Cardinality(Places(queue, u))
  BY <1>1, PlacesTail DEF h
<1>6. \A u \in Users : pending'[u] = IF u = h THEN "once" ELSE pending[u]
  BY <1>1 DEF WakesTyped
<1>7. \A u \in Users :
        /\ Cardinality(InWork(u)) \in Nat /\ Cardinality(Places(queue, u)) \in Nat
        /\ Cardinality(InWork(u)) + Cardinality(Places(queue, u)) =
             IF pending[u] = "absent" THEN 0 ELSE 1
  BY WorkIsFinite, PlacesAreFinite DEF OneAtATime, WakesTyped
<1>8. pending[h] # "absent"
  <2>1. Len(queue) \in Nat /\ Len(queue) > 0 /\ 1 \in DOMAIN queue /\ queue[1] = h
    BY <1>1 DEF h
  <2>2. 1 \in Places(queue, h)
    BY <2>1 DEF Places
  <2>3. Cardinality(Places(queue, h)) # 0
    BY <1>1, <2>2, PlacesAreFinite, FS_EmptySet
  <2>4. QED
    BY <1>1, <1>7, <2>3
<1>9. ASSUME NEW u \in Users
      PROVE  Cardinality(InWork(u)') + Cardinality(Places(queue', u)) =
               IF pending'[u] = "absent" THEN 0 ELSE 1
  <2>1. CASE u = h
    <3>1. /\ Cardinality(InWork(u)') = Cardinality(InWork(u)) + 1
          /\ Cardinality(Places(queue', u)) = Cardinality(Places(queue, u)) - 1
          /\ pending'[u] = "once" /\ pending[u] # "absent"
      BY <1>4, <1>5, <1>6, <1>8, <2>1
    <3>2. QED
      BY <1>7, <3>1
  <2>2. CASE u # h
    <3>1. /\ Cardinality(InWork(u)') = Cardinality(InWork(u))
          /\ Cardinality(Places(queue', u)) = Cardinality(Places(queue, u))
          /\ pending'[u] = pending[u]
      BY <1>4, <1>5, <1>6, <2>2
    <3>2. QED
      BY <1>7, <3>1
  <2>3. QED
    BY <2>1, <2>2
<1>10. OneAtATime'
  BY <1>9 DEF OneAtATime
<1>11. OnTheWay' = OnTheWay
  BY <1>6, <1>8 DEF OnTheWay
<1>12. SomebodyIsUp'
  <2>1. sync'[w] = l
    BY <1>1 DEF SyncTyped
  <2>2. QED
    BY <1>2, <2>1 DEF SomebodyIsUp, At
<1>13. QED
  BY <1>10, <1>11, <1>12

(* A worker is done with its member, who is queued once more or forgotten. *)
LEMMA FinishIsSound ==
  ASSUME SyncTyped, WakesTyped, OneAtATime, Cardinality(OnTheWay) <= QueueLimit, SomebodyIsUp,
         NEW w \in Workers, Finish(w)
  PROVE  OneAtATime' /\ Cardinality(OnTheWay)' <= QueueLimit /\ SomebodyIsUp'
<1> DEFINE h == sync[w].user
<1>1. w \in Consumers /\ sync[w].pc = "finished"
  BY DEF Finish, At, Consumers
<1>2. sync[w] \in Job /\ h \in Users /\ queue \in Seq(Users)
  <2>1. sync[w] \in Job
    BY <1>1, JobAt
  <2>2. QED
    BY <2>1 DEF Job, WakesTyped
<1>3. sync' = [sync EXCEPT ![w] = Ready]
  BY DEF Finish
<1>4. w \in InWork(h) /\ \A u \in Users : Cardinality(InWork(u)') =
        IF u = h THEN Cardinality(InWork(u)) - 1 ELSE Cardinality(InWork(u))
  BY <1>2, <1>3, WorkEnds
<1> HIDE DEF h
<1>5. \A u \in Users :
        /\ Cardinality(InWork(u)) \in Nat /\ Cardinality(Places(queue, u)) \in Nat
        /\ Cardinality(InWork(u)) + Cardinality(Places(queue, u)) =
             IF pending[u] = "absent" THEN 0 ELSE 1
  BY WorkIsFinite, PlacesAreFinite DEF OneAtATime, WakesTyped
<1>6. /\ pending[h] # "absent"
      /\ Cardinality(InWork(h)) = 1 /\ Cardinality(Places(queue, h)) = 0
  <2>1. Cardinality(InWork(h)) # 0
    BY <1>4, WorkIsFinite, FS_EmptySet
  <2>2. QED
    BY <1>2, <1>5, <2>1
<1>7. SomebodyIsUp'
  <2>1. sync'[w] = Ready
    BY <1>1, <1>3 DEF SyncTyped
  <2>2. QED
    BY <2>1 DEF SomebodyIsUp, At, Ready
<1>8. CASE pending[h] = "again" /\ queue' = Append(queue, h) /\ pending' = pending
  <2>1. \A u \in Users : Cardinality(Places(queue', u)) =
          IF u = h THEN Cardinality(Places(queue, u)) + 1 ELSE Cardinality(Places(queue, u))
    BY <1>2, <1>8, PlacesAppend
  <2>2. ASSUME NEW u \in Users
        PROVE  Cardinality(InWork(u)') + Cardinality(Places(queue', u)) =
                 IF pending'[u] = "absent" THEN 0 ELSE 1
    <3>1. CASE u = h
      <4>1. /\ Cardinality(InWork(u)') = Cardinality(InWork(u)) - 1
            /\ Cardinality(Places(queue', u)) = Cardinality(Places(queue, u)) + 1
        BY <1>4, <2>1, <3>1
      <4>2. QED
        BY <1>5, <1>8, <4>1
    <3>2. CASE u # h
      <4>1. /\ Cardinality(InWork(u)') = Cardinality(InWork(u))
            /\ Cardinality(Places(queue', u)) = Cardinality(Places(queue, u))
        BY <1>4, <2>1, <3>2
      <4>2. QED
        BY <1>5, <1>8, <4>1
    <3>3. QED
      BY <3>1, <3>2
  <2>3. OneAtATime'
    BY <2>2 DEF OneAtATime
  <2>4. OnTheWay' = OnTheWay
    BY <1>8 DEF OnTheWay
  <2>5. QED
    BY <1>7, <2>3, <2>4
<1>9. CASE pending' = [pending EXCEPT ![h] = "absent"] /\ queue' = queue
  <2>1. \A u \in Users : pending'[u] = IF u = h THEN "absent" ELSE pending[u]
    BY <1>9 DEF WakesTyped
  <2>2. ASSUME NEW u \in Users
        PROVE  Cardinality(InWork(u)') + Cardinality(Places(queue', u)) =
                 IF pending'[u] = "absent" THEN 0 ELSE 1
    <3>1. CASE u = h
      <4>1. /\ Cardinality(InWork(u)') = Cardinality(InWork(u)) - 1
            /\ pending'[u] = "absent" /\ Cardinality(InWork(u)) = 1
            /\ Cardinality(Places(queue', u)) = 0
        BY <1>4, <1>6, <1>9, <2>1, <3>1
      <4>2. QED
        BY <4>1
    <3>2. CASE u # h
      <4>1. /\ Cardinality(InWork(u)') = Cardinality(InWork(u))
            /\ pending'[u] = pending[u] /\ Places(queue', u) = Places(queue, u)
        BY <1>4, <1>9, <2>1, <3>2
      <4>2. QED
        BY <1>5, <4>1
    <3>3. QED
      BY <3>1, <3>2
  <2>3. OneAtATime'
    BY <2>2 DEF OneAtATime
  <2>4. Cardinality(OnTheWay)' <= QueueLimit
    <3>1. OnTheWay' = OnTheWay \ {h} /\ h \in OnTheWay
      BY <1>2, <1>6, <2>1 DEF OnTheWay
    <3>2. Cardinality(OnTheWay') = Cardinality(OnTheWay) - 1
      BY <3>1, OnTheWayIsFinite, FS_RemoveElement
    <3>3. Cardinality(OnTheWay) \in Nat /\ QueueLimit \in Nat
      BY OnTheWayIsFinite, DeliveryAssumption
    <3>4. QED
      BY <3>2, <3>3
  <2>5. QED
    BY <1>7, <2>3, <2>4
<1>10. QED
  BY <1>8, <1>9 DEF Finish, h

(* A step that leaves the members on the way alone, and moves no worker    *)
(* into, out of or between jobs.                                           *)
LEMMA QuietIsSound ==
  ASSUME SyncTyped, OneAtATime, Cardinality(OnTheWay) <= QueueLimit, SomebodyIsUp,
         UNCHANGED wakes, \A u \in Users : InWork(u)' = InWork(u),
         queue # <<>> => \A w \in Workers : sync'[w].pc = "off" => sync[w].pc = "off"
  PROVE  OneAtATime' /\ Cardinality(OnTheWay)' <= QueueLimit /\ SomebodyIsUp'
<1>1. pending' = pending /\ queue' = queue
  BY DEF wakes
<1>2. OneAtATime'
  BY <1>1 DEF OneAtATime
<1>3. OnTheWay' = OnTheWay
  BY <1>1 DEF OnTheWay
<1>4. SomebodyIsUp'
  BY <1>1 DEF SomebodyIsUp, At
<1>5. QED
  BY <1>2, <1>3, <1>4

(* The other steps of workers and requests are such steps.                 *)
LEMMA OthersAreSound ==
  ASSUME PulseTyped, SyncTyped, OneAtATime, Cardinality(OnTheWay) <= QueueLimit, SomebodyIsUp,
         NEW c \in Consumers,
         \/ Deliver(c) \/ AckLost(c) \/ StepFails(c)
         \/ (c \in Workers /\ Stop(c)) \/ RefreshDone(c) \/ \E u \in Users : Refresh(c, u)
  PROVE  OneAtATime' /\ Cardinality(OnTheWay)' <= QueueLimit /\ SomebodyIsUp'
<1>1. UNCHANGED wakes
  BY DEF Deliver, List, Award, Ack, AckRefused, AfterFailure, AckLost, StepFails, Stop,
     RefreshDone, Refresh
<1>2. c \in Refreshers => c \notin Workers
  BY DeliveryAssumption
<1>3. CASE Deliver(c) \/ AckLost(c) \/ StepFails(c)
  <2>1. sync[c] \in Job
    BY <1>3, DeliveryMoves
  <2>2. PICK l \in Job : sync' = [sync EXCEPT ![c] = l] /\ l.user = sync[c].user
    BY <1>3, DeliveryMoves
  <2>3. \A u \in Users : InWork(u)' = InWork(u)
    BY <2>1, <2>2, WorkGoesOn
  <2>4. l.pc # "off" /\ Workers \subseteq Consumers
    BY JobIsWork DEF Consumers
  <2>5. \A w \in Workers : sync'[w].pc = "off" => sync[w].pc = "off"
    BY <2>2, <2>4 DEF SyncTyped
  <2>6. QED
    BY <1>1, <2>3, <2>5, QuietIsSound
<1>4. CASE c \in Workers /\ Stop(c)
  <2>1. sync' = [sync EXCEPT ![c] = Off] /\ sync[c].pc = "ready" /\ queue = <<>>
    BY <1>4 DEF Stop, At
  <2>2. sync[c] \in {Off, Ready}
    BY <2>1, IdleAt
  <2>3. \A u \in Users : InWork(u)' = InWork(u)
    BY <2>1, <2>2, WorkGoesOn
  <2>4. QED
    BY <1>1, <2>1, <2>3, QuietIsSound
<1>5. ASSUME c \in Refreshers, NEW l, sync' = [sync EXCEPT ![c] = l]
      PROVE  OneAtATime' /\ Cardinality(OnTheWay)' <= QueueLimit /\ SomebodyIsUp'
  <2>1. \A u \in Users : InWork(u)' = InWork(u)
    BY <1>2, <1>5, WorkGoesOn
  <2>2. \A w \in Workers : sync'[w] = sync[w]
    BY <1>2, <1>5 DEF SyncTyped, Consumers
  <2>3. QED
    BY <1>1, <2>1, <2>2, QuietIsSound
<1>6. CASE RefreshDone(c) \/ \E u \in Users : Refresh(c, u)
  BY <1>5, <1>6 DEF RefreshDone, Refresh
<1>7. QED
  BY <1>3, <1>4, <1>6

(* Every step keeps the queue sound.                                       *)
LEMMA QueueStep ==
  ASSUME PulseTyped, SyncTyped, WakesTyped, QueueIsSound, [Next]_vars
  PROVE  QueueIsSound'
<1>1. OneAtATime /\ Cardinality(OnTheWay) <= QueueLimit /\ SomebodyIsUp
  BY QueueParts
<1> DEFINE Sound == OneAtATime' /\ Cardinality(OnTheWay)' <= QueueLimit /\ SomebodyIsUp'
<1>2. ASSUME UNCHANGED <<wakes, sync>> PROVE Sound
  BY <1>1, <1>2, QuietIsSound DEF InWork
<1>3. ASSUME NEW g \in Grants, Win(g) \/ ReverseGrant(g) PROVE Sound
  BY <1>2, <1>3 DEF Win, ReverseGrant
<1>4. ASSUME NEW u \in Users, Enqueue(u) PROVE Sound
  BY <1>1, <1>4, EnqueueIsSound
<1>5. ASSUME NEW c \in Consumers,
             \/ Deliver(c) \/ AckLost(c) \/ StepFails(c)
             \/ (c \in Workers /\ Stop(c)) \/ RefreshDone(c) \/ \E u \in Users : Refresh(c, u)
      PROVE  Sound
  BY <1>1, <1>5, OthersAreSound
<1>6. ASSUME NEW w \in Workers, Take(w) \/ Finish(w) PROVE Sound
  BY <1>1, <1>6, TakeIsSound, FinishIsSound
<1>7. CASE Restart
  <2>1. /\ pending' = [u \in Users |-> "absent"] /\ queue' = <<>>
        /\ sync' = [c \in Consumers |-> Off] /\ Workers \subseteq Consumers
    BY <1>7 DEF Restart, Consumers
  <2>2. \A u \in Users : InWork(u)' = {} /\ Places(queue', u) = {}
    BY <2>1 DEF InWork, Places
  <2>3. Cardinality({}) = 0
    BY FS_EmptySet
  <2>4. OneAtATime'
    <3>1. ASSUME NEW u \in Users
          PROVE  Cardinality(InWork(u)') + Cardinality(Places(queue', u)) =
                   IF pending'[u] = "absent" THEN 0 ELSE 1
      <4>1. Cardinality(InWork(u)') = 0 /\ Cardinality(Places(queue', u)) = 0
        BY <2>2, <2>3
      <4>2. QED
        BY <2>1, <4>1
    <3>2. QED
      BY <3>1 DEF OneAtATime
  <2>5. OnTheWay' = {}
    BY <2>1 DEF OnTheWay
  <2>6. QueueLimit \in Nat
    BY DeliveryAssumption
  <2>7. Cardinality(OnTheWay)' <= QueueLimit
    BY <2>3, <2>5, <2>6
  <2>8. Sound
    BY <2>1, <2>4, <2>7 DEF SomebodyIsUp
  <2>9. QED
    BY <2>8, QueuePartsNext
<1>8. CASE UNCHANGED vars
  <2>1. Sound
    BY <1>2, <1>8 DEF vars
  <2>2. QED
    BY <2>1, QueuePartsNext
<1>9. Refreshers \subseteq Consumers /\ Workers \subseteq Consumers
  BY DEF Consumers
<1>10. CASE Next /\ ~ Restart
  <2>1. Sound
    BY <1>3, <1>4, <1>5, <1>6, <1>9, <1>10 DEF Next
  <2>2. QED
    BY <2>1, QueuePartsNext
<1>11. QED
  BY <1>7, <1>8, <1>10

(* Each member is served by one worker at a time, the queue remembers      *)
(* exactly the members that are queued or in work, at most as many as its  *)
(* limit, and it never holds somebody while all workers are off.           *)
THEOREM QueueStaysSound == Spec => []QueueIsSound
<1>1. Init => QueueIsSound
  <2> SUFFICES ASSUME Init PROVE QueueIsSound
    OBVIOUS
  <2>1. \A u \in Users : InWork(u) = {} /\ Places(queue, u) = {}
    BY DEF Init, InWork, Places, Consumers
  <2>2. Cardinality({}) = 0 /\ QueueLimit \in Nat
    BY FS_EmptySet, DeliveryAssumption
  <2>3. OneAtATime
    <3>1. ASSUME NEW u \in Users
          PROVE  Cardinality(InWork(u)) + Cardinality(Places(queue, u)) =
                   IF pending[u] = "absent" THEN 0 ELSE 1
      <4>1. Cardinality(InWork(u)) = 0 /\ Cardinality(Places(queue, u)) = 0
        BY <2>1, <2>2
      <4>2. QED
        BY <4>1 DEF Init
    <3>2. QED
      BY <3>1 DEF OneAtATime
  <2>4. OnTheWay = {}
    BY DEF Init, OnTheWay
  <2>5. Cardinality(OnTheWay) <= QueueLimit
    BY <2>2, <2>4
  <2>6. QED
    BY <2>3, <2>5, QueueParts DEF Init, SomebodyIsUp
<1>2. DeliveryIsSound /\ QueueIsSound /\ [Next]_vars => QueueIsSound'
  BY QueueStep DEF DeliveryIsSound, MostlyTyped
<1>3. QED
  BY <1>1, <1>2, DeliveryIsAlwaysSound, PTL DEF Spec
=============================================================================
