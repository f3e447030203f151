-------------------------------- MODULE Events --------------------------------
(***************************************************************************)
(* An event that administrators announce and members register for.         *)
(*                                                                         *)
(* A request carries a key of its sender and may arrive any number of      *)
(* times, on any process.  It first takes the lock of its sender, looks    *)
(* whether it was answered before and reads the clock (Enter), then waits  *)
(* for the lock of the event, changes it and keeps its answer, all in one  *)
(* transaction (Commit); a refusal rolls everything back.                  *)
(***************************************************************************)
EXTENDS Integers, Sequences, FiniteSets, SequencesExt

CONSTANTS
  Asks,      (* requests by key: from, op, and for administrators version, *)
             (* seats and deadline                                         *)
  Opening,   (* the terms the event is created with: seats and deadline    *)
  LastHour   (* bound of the clock                                         *)

Guests == {Asks[k].from : k \in {j \in DOMAIN Asks : Asks[j].op \in {"join", "leave"}}}
Senders == {Asks[k].from : k \in DOMAIN Asks}

ASSUME EventsAssumption ==
  /\ \A k \in DOMAIN Asks :
       /\ Asks[k].op \in {"join", "leave", "edit", "cancel"}
       /\ Asks[k].op = "edit" => Asks[k].seats \in Int /\ Asks[k].deadline \in Int
  /\ Opening.seats \in Nat \ {0} /\ Opening.deadline \in Nat /\ LastHour \in Nat

VARIABLES
  hour,     (* the clock                                                   *)
  meeting,  (* metar_event: status, seats, deadline, count, version        *)
  joined,   (* metar_event_member                                          *)
  waiting,  (* the request that holds the lock of its sender, and the time *)
            (* it read                                                     *)
  done      (* metar_event_request: what was carried out, in order         *)

eventVars == <<hour, meeting, joined, waiting, done>>

NoAsk == [key |-> "none"]

(* The event as its creation leaves it.                                    *)
EventsInit ==
  /\ hour = 0 /\ joined = {} /\ waiting = [u \in Senders |-> NoAsk] /\ done = <<>>
  /\ meeting = [status |-> "published", seats |-> Opening.seats, deadline |-> Opening.deadline,
                count |-> 0, version |-> 1]

Answered(k) == \E i \in DOMAIN done : done[i].key = k

(* The lock of the sender; a request that was answered gets its answer.    *)
Enter(k) ==
  /\ waiting[Asks[k].from] = NoAsk /\ ~Answered(k)
  /\ waiting' = [waiting EXCEPT ![Asks[k].from] = [key |-> k, now |-> hour]]
  /\ UNCHANGED <<hour, meeting, joined, done>>

(* Mutant: the number of registrations is not looked at in an edit.        *)
ValidTermsOnly(a, now) == a.seats >= 1 /\ a.deadline > now

(* valid, and no fewer seats than are taken.                               *)
ValidEdit(a, now) == ValidTermsOnly(a, now) /\ a.seats >= meeting.count

Edited(a, now) ==
  /\ a.op \in {"edit", "cancel"} /\ a.version = meeting.version
  /\ meeting.status = "published" /\ UNCHANGED joined
  /\ \/ a.op = "cancel" /\ meeting' = [meeting EXCEPT !.status = "cancelled", !.version = @ + 1]
     \/ /\ a.op = "edit" /\ ValidEdit(a, now)
        /\ meeting' = [meeting EXCEPT !.seats = a.seats, !.deadline = a.deadline, !.version = @ + 1]

Open(now) == meeting.status = "published" /\ now < meeting.deadline /\ meeting.count < meeting.seats

Registration(a, now) ==
  \/ a.op = "join" /\ a.from \notin joined /\ Open(now)
     /\ joined' = joined \cup {a.from} /\ meeting' = [meeting EXCEPT !.count = @ + 1]
  \/ a.op = "leave" /\ a.from \in joined
     /\ joined' = joined \ {a.from} /\ meeting' = [meeting EXCEPT !.count = @ - 1]
  \/ (a.op = "join") = (a.from \in joined) /\ a.op \in {"join", "leave"} /\ UNCHANGED <<joined, meeting>>

(* The lock of the event.                                                  *)
Commit(u) ==
  LET k == waiting[u].key  now == waiting[u].now  a == Asks[k] IN
  /\ waiting[u] # NoAsk
  /\ Edited(a, now) \/ Registration(a, now)
  /\ done' = Append(done, [key |-> k, at |-> now])
  /\ waiting' = [waiting EXCEPT ![u] = NoAsk] /\ UNCHANGED hour

(* A refusal, a lost connection, or four deadlocks: nothing was done.      *)
GiveUp(u) ==
  /\ waiting[u] # NoAsk /\ waiting' = [waiting EXCEPT ![u] = NoAsk]
  /\ UNCHANGED <<hour, meeting, joined, done>>

PassHour == hour < LastHour /\ hour' = hour + 1 /\ UNCHANGED <<meeting, joined, waiting, done>>

EventsNext ==
  \/ \E k \in DOMAIN Asks : Enter(k)
  \/ \E u \in Senders : Commit(u) \/ GiveUp(u)
  \/ PassHour

EventsSpec == EventsInit /\ [][EventsNext]_eventVars
-----------------------------------------------------------------------------
(* What the requests before i ask for, one after another, taken by itself. *)
Ask(i) == Asks[done[i].key]
Before(i, ops) == {j \in 1 .. i - 1 : Ask(j).op \in ops}
OwnBefore(i, u) == {j \in Before(i, {"join", "leave"}) : Ask(j).from = u}
Latest(set) == CHOOSE j \in set : \A l \in set : l <= j
TermsAt(i) ==
  LET edits == Before(i, {"edit"}) IN IF edits = {} THEN Opening ELSE Ask(Latest(edits))
JoinedAt(i) ==
  {u \in Guests : OwnBefore(i, u) # {} /\ Ask(Latest(OwnBefore(i, u))).op = "join"}
AdminsAt(i) == Before(i, {"edit", "cancel"})

(* Requests that come twice, wait for each other and read an old clock:    *)
(* each is carried out once; a member is registered as his last request    *)
(* has it, and nobody beyond the seats, the deadline or a cancellation     *)
(* that stood when his turn came; no administrator overwrites terms he has *)
(* not seen; and the public count is the number of those registered.       *)
RegistrationsAreSound ==
  /\ \A i, j \in DOMAIN done : done[i].key = done[j].key => i = j
  /\ joined = JoinedAt(Len(done) + 1) /\ meeting.count = Cardinality(joined) /\ meeting.count <= meeting.seats
  /\ \A i \in DOMAIN done :
       /\ Ask(i).op = "join" /\ Ask(i).from \notin JoinedAt(i) =>
            /\ done[i].at < TermsAt(i).deadline /\ Cardinality(JoinedAt(i)) < TermsAt(i).seats
            /\ Before(i, {"cancel"}) = {}
       /\ i \in AdminsAt(Len(done) + 1) => Ask(i).version = Cardinality(AdminsAt(i)) + 1
=============================================================================
