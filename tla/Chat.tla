--------------------------------- MODULE Chat ---------------------------------
(***************************************************************************)
(* Private messages of the forum: a room of two or a group with an owner,  *)
(* its members and messages, and the copies that browsers keep of it.      *)
(*                                                                         *)
(* A command carries a key of its sender; a command that is sent again     *)
(* gets the old answer.  Its transaction holds the sender's limit row from *)
(* its first statement on and then the row of the room, and is one step.   *)
(*                                                                         *)
(* A browser opens the room with its newest page, asks from then on for    *)
(* what changed behind a version, and for older pages on demand.  A call   *)
(* is sent, read by the server and received in three steps.                *)
(***************************************************************************)
EXTENDS Integers, Sequences, FiniteSets

CONSTANTS
  Chatters,   (* members of the forum                                      *)
  Owner1, Guest, (* who opens the room, and for whom                       *)
  Says,       (* how many commands each member gives (a bound)             *)
  Moderators, (* administrators that resolve reports                       *)
  Seats,      (* MaxMembers: 50                                            *)
  MaxSends,   (* messages a day: 1000                                      *)
  ChatPage,   (* messages in a page: 50                                    *)
  Readers,    (* members whose browser is looked at (a bound)              *)
  CopyLimit   (* messages a browser keeps: 300                             *)

ASSUME ChatAssumption ==
  /\ Owner1 \in Chatters /\ Guest \in Chatters \ {Owner1} /\ Moderators \subseteq Chatters
  /\ Readers \subseteq Chatters /\ CopyLimit \in Nat \ {0}
  /\ \A u \in Chatters : Says[u] \in Nat
  /\ Seats \in Nat /\ MaxSends \in Nat /\ ChatPage \in Nat \ {0}

VARIABLES
  room,     (* metar_chat_room: kind, owner, version, closed               *)
  member,   (* metar_chat_member: state, since, read, unread               *)
  messages, (* metar_chat_message: sender, removed, version, command       *)
  reports,  (* metar_chat_report: messages reported and not resolved       *)
  blocked,  (* metar_chat_block                                            *)
  replies,  (* metar_chat_request: the commands of each member by key      *)
  copy,     (* the room in the browser of each reader                      *)
  calls     (* the calls of his browser that are on their way              *)

browserVars == <<copy, calls>>
chatVars == <<room, member, messages, reports, blocked, replies, browserVars>>

NoRoom    == [kind |-> "none", owner |-> "none", version |-> 0, closed |-> FALSE]
Outside   == [state |-> "none", since |-> 1, read |-> 0, unread |-> 0]
LastSeq   == Len(messages)

(* A copy holds, of each place it shows, the version of the message there. *)
(* What is from its place `from` on was loaded without a gap, which the    *)
(* browser does not know; "mixed" is a copy on which calls overlapped.     *)
NoCopy == [state |-> "none", cursor |-> 0, from |-> 1, held |-> << >>]
NoCall == [pc |-> "none", at |-> 0, next |-> 0, from |-> 1, rows |-> << >>]
Errands == {"open", "tick", "older"}
Quiet   == [what \in Errands |-> NoCall]

ChatInit ==
  /\ room = NoRoom /\ member = [u \in Chatters |-> Outside] /\ messages = <<>> /\ reports = {}
  /\ blocked = {} /\ replies = [u \in Chatters |-> <<>>]
  /\ copy = [u \in Readers |-> NoCopy] /\ calls = [u \in Readers |-> Quiet]
-----------------------------------------------------------------------------
Active(u)     == member[u].state = "active"
Contact(a, b) == a # b /\ <<a, b>> \notin blocked /\ <<b, a>> \notin blocked
Sent(u)       == Cardinality({i \in 1 .. LastSeq : messages[i].sender = u})
Manages(u)    == Active(u) /\ room.kind = "group" /\ ~room.closed /\ room.owner = u

(* An invitation starts behind what was said before.                       *)
Invited(m, seq) == [m EXCEPT !.state = "invited", !.since = seq + 1, !.read = seq, !.unread = 0]

Seated == {u \in Chatters : member[u].state \in {"active", "invited"}}

(* create: two members of a direct room, or an owner and his guest.  Two   *)
(* members have one direct room, which is found when they ask again.       *)
Create(u, kind) ==
  /\ u = Owner1 /\ Contact(u, Guest) /\ (kind = "group" => Seats > 1)
  /\ \/ /\ room = NoRoom
        /\ room' = [NoRoom EXCEPT !.kind = kind, !.owner = u]
        /\ member' = [member EXCEPT ![u].state = "active",
             ![Guest] = IF kind = "direct" THEN [@ EXCEPT !.state = "active"] ELSE Invited(@, 0)]
     \/ kind = "direct" /\ room.kind = kind /\ UNCHANGED <<room, member>>
  /\ UNCHANGED <<messages, reports, blocked>>

Block(u, v) ==
  /\ u # v /\ blocked' = blocked \cup {<<u, v>>}
  /\ UNCHANGED <<room, member, messages, reports>>
Unblock(u, v) ==
  /\ blocked' = blocked \ {<<u, v>>}
  /\ UNCHANGED <<room, member, messages, reports>>

(* A message takes the next place and version, and is unread by the others. *)
Send(u, k) ==
  /\ Active(u) /\ ~room.closed /\ Sent(u) < MaxSends
  /\ room.kind = "direct" => \A v \in Chatters \ {u} : member[v].state # "none" => Contact(u, v)
  /\ messages' = Append(messages, [sender |-> u, removed |-> FALSE, version |-> room.version + 1, key |-> k])
  /\ room' = [room EXCEPT !.version = @ + 1]
  /\ member' = [v \in Chatters |-> IF v # u /\ Active(v) THEN [member[v] EXCEPT !.unread = @ + 1] ELSE member[v]]
  /\ UNCHANGED <<reports, blocked>>

(* redact: a message is emptied, which is a change of its room.            *)
Redact(i) ==
  /\ messages' = [messages EXCEPT ![i].removed = TRUE, ![i].version = room.version + 1]
  /\ room' = [room EXCEPT !.version = @ + 1]

(* By its sender, within two minutes.                                      *)
Recall(u, i) ==
  /\ Active(u) /\ messages[i].sender = u /\ i >= member[u].since
  /\ Redact(i) /\ UNCHANGED <<member, reports, blocked>>

Report(u, i) ==
  /\ Active(u) /\ messages[i].sender # u /\ i >= member[u].since /\ ~messages[i].removed
  /\ reports' = reports \cup {i}
  /\ UNCHANGED <<room, member, messages, blocked>>

ResolveReport(u, i, remove) ==
  /\ u \in Moderators /\ i \in reports /\ reports' = reports \ {i}
  /\ IF remove THEN Redact(i) ELSE UNCHANGED <<room, messages>>
  /\ UNCHANGED <<member, blocked>>

Read(u, seq) ==
  /\ Active(u)
  /\ IF seq <= member[u].read THEN UNCHANGED member
     ELSE member' = [member EXCEPT ![u].read = seq,
                       ![u].unread = Cardinality({i \in seq + 1 .. LastSeq : messages[i].sender # u})]
  /\ UNCHANGED <<room, messages, reports, blocked>>

Invite(u, v) ==
  /\ Manages(u) /\ Contact(u, v) /\ (v \notin Seated => Cardinality(Seated) < Seats)
  /\ member' = IF v \in Seated THEN member ELSE [member EXCEPT ![v] = Invited(@, LastSeq)]
  /\ UNCHANGED <<room, messages, reports, blocked>>

Accept(u) ==
  /\ member[u].state = "invited" /\ ~room.closed /\ Contact(u, room.owner)
  /\ member' = [member EXCEPT ![u] = [state |-> "active", since |-> LastSeq + 1, read |-> LastSeq, unread |-> 0]]
  /\ UNCHANGED <<room, messages, reports, blocked>>

(* decline, leave and remove; the owner of an open group stays.            *)
Leave(u, v) ==
  /\ room.kind = "group"
  /\ \/ u = v /\ member[u].state = "invited" /\ ~room.closed
     \/ u = v /\ Active(u) /\ (room.owner = u => room.closed)
     \/ u # v /\ Manages(u)
  /\ member' = [member EXCEPT ![v].state = IF @ = "none" THEN @ ELSE "left"]
  /\ UNCHANGED <<room, messages, reports, blocked>>

Transfer(u, v) ==
  /\ Manages(u) /\ u # v /\ Active(v)
  /\ room' = [room EXCEPT !.owner = v]
  /\ UNCHANGED <<member, messages, reports, blocked>>

Close(u) ==
  /\ Manages(u)
  /\ room' = [room EXCEPT !.closed = TRUE]
  /\ member' = [v \in Chatters |-> IF member[v].state = "invited" THEN [member[v] EXCEPT !.state = "left", !.unread = 0] ELSE member[v]]
  /\ UNCHANGED <<messages, reports, blocked>>

Command(u, k, c) ==
  CASE c.op = "create"   -> Create(u, c.kind)
    [] c.op = "block"    -> Block(u, c.who)
    [] c.op = "unblock"  -> Unblock(u, c.who)
    [] c.op = "send"     -> Send(u, k)
    [] c.op = "recall"   -> c.seq \in 1 .. LastSeq /\ Recall(u, c.seq)
    [] c.op = "report"   -> c.seq \in 1 .. LastSeq /\ Report(u, c.seq)
    [] c.op = "resolve"  -> ResolveReport(u, c.seq, c.remove)
    [] c.op = "read"     -> c.seq \in 1 .. LastSeq /\ Read(u, c.seq)
    [] c.op = "invite"   -> Invite(u, c.who)
    [] c.op = "accept"   -> Accept(u)
    [] c.op = "leave"    -> Leave(u, c.who)
    [] c.op = "transfer" -> Transfer(u, c.who)
    [] c.op = "close"    -> Close(u)

(* What each member may ask for.                                           *)
Others(u) == Chatters \ {u}
Places == 1 .. MaxSends * Cardinality(Chatters)
Commands(u) ==
  [op : {"create"}, kind : {"direct", "group"}] \cup [op : {"send", "accept", "close"}]
    \cup [op : {"block", "unblock", "invite", "transfer"}, who : Others(u)] \cup [op : {"leave"}, who : Chatters]
    \cup [op : {"recall", "report", "read"}, seq : Places] \cup [op : {"resolve"}, seq : Places, remove : BOOLEAN]

(* The keys of a member are numbered in the order of their first use.      *)
Replied(u, k) == k <= Len(replies[u])

(* Execute: a key that is known gets its old answer, or a conflict if it   *)
(* comes with another command.  A command that is refused leaves no trace. *)
Execute(u, k, c) ==
  /\ ~Replied(u, k) /\ (k \in DOMAIN replies[u] => replies[u][k] = c)
  /\ Command(u, <<u, k>>, c)
  /\ replies' = [replies EXCEPT ![u] = IF k \in DOMAIN @ THEN @ ELSE Append(@, c)]
  /\ UNCHANGED browserVars
-----------------------------------------------------------------------------
(* Changes: what a member may see behind a version, oldest change first,   *)
(* as far as the page goes.                                                *)
Visible(u)  == {i \in 1 .. LastSeq : i >= member[u].since}
Newer(u, v) == {i \in Visible(u) : messages[i].version > v}
Older(u, v, i) == {j \in Newer(u, v) : messages[j].version < messages[i].version}
Changes(u, v)  == {i \in Newer(u, v) : Cardinality(Older(u, v, i)) < ChatPage}

(* Mutant: the cursor moves to the room although the page was not all.     *)
CursorOfRoom(u, v) == room.version
(* The last change of a full page, the version of the room otherwise.      *)
NextCursor(u, v) ==
  IF Cardinality(Newer(u, v)) <= ChatPage THEN room.version
  ELSE CHOOSE w \in {messages[i].version : i \in Changes(u, v)} : \A i \in Changes(u, v) : messages[i].version <= w

(* History: the newest page of what a member may see, or of what is older  *)
(* than a place; `from` tells from where on nothing is missing.            *)
Top(S, n) == {i \in S : Cardinality({j \in S : j > i}) < n}
Oldest(S)    == CHOOSE i \in S : \A j \in S : i <= j
Start(S, n)  == IF Top(S, n) = S THEN 1 ELSE Oldest(Top(S, n))

Versions(S)  == [i \in S |-> messages[i].version]
Reply(u, what, at) ==
  IF what = "tick"
  THEN [pc |-> "read", at |-> at, next |-> NextCursor(u, at), from |-> 1, rows |-> Versions(Changes(u, at))]
  ELSE LET S == IF what = "open" THEN Visible(u) ELSE {i \in Visible(u) : i < at}
       IN [pc |-> "read", at |-> at, next |-> room.version, from |-> Start(S, ChatPage),
           rows |-> Versions(Top(S, ChatPage))]

(* The server reads under the room's lock what a member may see.           *)
SetCall(u, what, call) == [calls EXCEPT ![u] = [calls[u] EXCEPT ![what] = call]]
Look(u, what) ==
  LET a == calls[u][what]
  IN /\ a.pc = "sent" /\ UNCHANGED copy
     /\ calls' = SetCall(u, what, IF Active(u) THEN Reply(u, what, a.at) ELSE [a EXCEPT !.pc = "refused"])

(* A call that is not answered, or refused; what does not open is not shown. *)
Lose(u, what) ==
  /\ calls[u][what].pc # "none" /\ calls' = SetCall(u, what, NoCall)
  /\ copy' = IF what = "open" THEN [copy EXCEPT ![u] = [copy[u] EXCEPT !.state = "none"]] ELSE copy

(* open and tick; opening forgets what else is on its way.                 *)
CallAt(at) == [pc |-> "sent", at |-> at, next |-> 0, from |-> 1, rows |-> << >>]
AskOpen(u) ==
  /\ calls' = [calls EXCEPT ![u] = [Quiet EXCEPT !["open"] = CallAt(0)]]
  /\ UNCHANGED copy
AskTick(u) ==
  /\ copy[u].state # "none" /\ calls[u]["tick"].pc = "none"
  /\ calls' = SetCall(u, "tick", CallAt(copy[u].cursor)) /\ UNCHANGED copy
(* Earlier messages: before the first of those that are shown.             *)
AskOlder(u) ==
  /\ copy[u].state # "none" /\ calls[u]["older"].pc = "none" /\ DOMAIN copy[u].held # {}
  /\ calls' = SetCall(u, "older", CallAt(Oldest(DOMAIN copy[u].held))) /\ UNCHANGED copy

(* mergeMessages: of a message known twice, the newer version.             *)
Merged(f, g) ==
  [i \in DOMAIN f \cup DOMAIN g |->
     IF i \notin DOMAIN g \/ (i \in DOMAIN f /\ f[i] > g[i]) THEN f[i] ELSE g[i]]

(* The copy after a call: clean as long as calm.                           *)
Shown(calm, cursor, from, held) ==
  [state |-> IF calm THEN "clean" ELSE "mixed", cursor |-> cursor, from |-> from, held |-> held]

ReceiveOpen(u) ==
  LET a == calls[u]["open"]
      calm == calls[u]["tick"].pc = "none" /\ calls[u]["older"].pc = "none"
  IN /\ a.pc = "read"
     /\ copy' = [copy EXCEPT ![u] = Shown(calm, a.next, a.from, a.rows)]
     /\ calls' = SetCall(u, "open", NoCall)

(* The changes; a reader at the end of a long copy keeps the newest of it. *)
ReceiveTick(u) ==
  LET a == calls[u]["tick"]
      c == copy[u]
      f == Merged(c.held, a.rows)
      S == Top(DOMAIN f, CopyLimit)
      calm == c.state = "clean"
      alone == calls[u]["older"].pc = "none"
      first == IF c.from < Oldest(S) THEN Oldest(S) ELSE c.from
  IN /\ a.pc = "read"
     /\ \/ copy' = [copy EXCEPT ![u] = Shown(calm, a.next, c.from, f)]
        \/ /\ S # DOMAIN f
           /\ copy' = [copy EXCEPT ![u] = Shown(calm /\ alone, a.next, first, [i \in S |-> f[i]])]
     /\ calls' = SetCall(u, "tick", NoCall)

ReceiveOlder(u) ==
  LET a == calls[u]["older"]
      c == copy[u]
      first == IF c.from <= a.at /\ a.from < c.from THEN a.from ELSE c.from
  IN /\ a.pc = "read"
     /\ copy' = [copy EXCEPT ![u] = [c EXCEPT !.held = Merged(a.rows, c.held), !.from = first]]
     /\ calls' = SetCall(u, "older", NoCall)

(* The page is left, or the room, or a tick is told that it was.           *)
Forget(u) ==
  /\ copy' = [copy EXCEPT ![u] = NoCopy]
  /\ \/ calls' = [calls EXCEPT ![u] = Quiet]
     \/ ~Active(u) /\ UNCHANGED calls
     \/ calls[u]["tick"].pc = "refused" /\ calls' = SetCall(u, "tick", NoCall)

Browse(u) ==
  /\ \/ AskOpen(u) \/ AskTick(u) \/ AskOlder(u)
     \/ \E what \in Errands : Look(u, what) \/ Lose(u, what)
     \/ ReceiveOpen(u) \/ ReceiveTick(u) \/ ReceiveOlder(u) \/ Forget(u)
  /\ UNCHANGED <<room, member, messages, reports, blocked, replies>>

ChatNext ==
  \/ \E u \in Readers : Browse(u)
  \/ \E u \in Chatters : \E k \in 1 .. Len(replies[u]) + 1 : k <= Says[u] /\ \E c \in Commands(u) : Execute(u, k, c)

ChatSpec == ChatInit /\ [][ChatNext]_chatVars
-----------------------------------------------------------------------------
(* Sending, reading, leaving and coming back in any order: the count of    *)
(* unread messages is the number of those that others sent behind the last *)
(* one read, and nobody is asked to read what was said before he came.     *)
UnreadIsExact ==
  \A u \in Chatters : Active(u) =>
    /\ member[u].unread = Cardinality({i \in member[u].read + 1 .. LastSeq : messages[i].sender # u})
    /\ member[u].read >= member[u].since - 1

(* A browser that has caught up with the room shows, of what its member    *)
(* may see, no message as it was before it was removed, and leaves out     *)
(* none from the place on from which it had loaded them - if no call for   *)
(* older or changed messages overlapped an opening, or a trim the former.  *)
CopiesCatchUp ==
  \A u \in Readers : Active(u) /\ copy[u].state = "clean" /\ copy[u].cursor = room.version =>
    \A i \in Visible(u) : i \in DOMAIN copy[u].held \/ i >= copy[u].from =>
      i \in DOMAIN copy[u].held /\ copy[u].held[i] = messages[i].version

(* An open group is in the hands of an active member, has no more seats    *)
(* taken than there are, and a closed room has nobody left to invite.      *)
RoomIsRuled ==
  room.kind = "group" =>
    /\ ~room.closed => Active(room.owner)
    /\ Cardinality(Seated) <= Seats
    /\ room.closed => \A u \in Chatters : member[u].state # "invited"

(* A command that is sent again sends nothing again.                       *)
SentOnce == \A i, j \in 1 .. LastSeq : messages[i].key = messages[j].key => i = j

ConversationsAreSound == UnreadIsExact /\ CopiesCatchUp /\ RoomIsRuled /\ SentOnce
=============================================================================
