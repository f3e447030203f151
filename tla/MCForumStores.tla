---------------------------- MODULE MCForumStores ----------------------------
(***************************************************************************)
(* Five stores of the forum plugin in the database of Answer: experience,  *)
(* messages, events, the marketplace, and who is who.  They share no row,  *)
(* so a behaviour exercises one of them (part) and leaves the others as    *)
(* they were; one run then checks all five.                                *)
(***************************************************************************)
EXTENDS Growth, Chat, Events, Marketplace, Identity

VARIABLE part

(* Experience: one post of a, votes of b.  An answer and a vote, or a      *)
(* check-in and a post that is featured, reach the day's cap of two.       *)
Rules(cap, checkin, count) ==
  [cap |-> cap, count |-> [k \in Kinds |-> count],
   amount |-> [k \in Kinds |-> IF k = "checkin" THEN checkin ELSE 1],
   total |-> [k \in Kinds |-> IF k = "checkin" THEN checkin ELSE count]]
MCRuleSets == {Rules(2, 2, 1)}
MCOwner == [p \in {"o1"} |-> "a"]
MCAdminRequests ==
  {[key |-> "k1", op |-> "rules", version |-> 1, set |-> Rules(3, 1, 2)],
   [key |-> "k2", op |-> "feature", post |-> "o1"],
   [key |-> "k3", op |-> "adjust", user |-> "b", delta |-> 1]}

(* Messages, in three parts: three commands each of two members, and one   *)
(* who only listens; the browser of b in a conversation of five commands;  *)
(* and while b goes, comes back, and at most two messages are said.        *)
MCSays == [u \in Chatters |-> IF u = "a" THEN 5 ELSE IF u = "b" THEN 3 ELSE 0]
Given(ops, a, b) ==
  /\ Len(replies'["a"]) <= a /\ Len(replies'["b"]) <= b
  /\ \A u \in Chatters : \A c \in ToSet(replies'[u]) : c.op \in ops
Talking == Given({"create", "send", "recall"}, 3, 2)
ComingBack ==
  /\ Given({"create", "send", "recall", "invite", "accept", "leave"}, 5, 2) /\ room'.version <= 2
  /\ replies' # replies => <<room, member, messages>>' # <<room, member, messages>>
  /\ \A u \in Chatters : \A c \in ToSet(replies'[u]) : c.op \in {"invite", "leave"} => c.who = "b"

(* Events: two members, and two administrators that edit the same version. *)
Registering(who, what) == [from |-> who, op |-> what]
Administering(who, what, version, seats, deadline) ==
  [from |-> who, op |-> what, version |-> version, seats |-> seats, deadline |-> deadline]
MCAsks ==
  ("j1" :> Registering("a", "join")) @@ ("j2" :> Registering("a", "leave")) @@
  ("j3" :> Registering("b", "join")) @@ ("j4" :> Registering("b", "leave")) @@
  ("e1" :> Administering("x", "edit", 1, 2, 2)) @@ ("e2" :> Administering("y", "edit", 1, 1, 1)) @@
  ("e3" :> Administering("x", "cancel", 2, 0, 0))
MCOpening == [seats |-> 2, deadline |-> 1]

(* The marketplace: an entry that is not complete, one that started from   *)
(* an idea, and one with a demo to be run inside the forum.                *)
Entry(complete, demo, embed, idea) == [complete |-> complete, demo |-> demo, embed |-> embed, idea |-> idea]
MCEntries ==
  {Entry(FALSE, FALSE, FALSE, FALSE), Entry(TRUE, FALSE, FALSE, TRUE), Entry(TRUE, TRUE, TRUE, FALSE)}

(* Who is who, in two parts: the guard is installed, with deaths, and used *)
(* by one callback; and it stands, while two callbacks race for two flows. *)
MCTickets == {[id |-> "X", issued |-> 0], [id |-> "Y", issued |-> 1]}
Installing == Len(flows') <= 1 /\ callback'["c2"].pc = "idle"
LoggingIn ==
  /\ bindings' # bindings => sessions' # sessions
  /\ \A p \in Installers : installer'[p] # 0
  /\ answered' = {}

Rest(p) ==
  /\ p # "growth" => UNCHANGED growthVars
  /\ p \notin {"chat", "talk", "back"} => UNCHANGED chatVars
  /\ p = "chat" => UNCHANGED browserVars
  /\ p # "events" => UNCHANGED eventVars
  /\ p # "market" => UNCHANGED marketVars
  /\ p \notin {"identity", "login"} => UNCHANGED identityVars

(* Of the experience, either two collectors and one move beside them, or   *)
(* one collector and two moves.                                            *)
Init ==
  /\ part \in {"growth", "chat", "talk", "back", "events", "market", "identity", "login"}
  /\ GrowthInit /\ ChatInit /\ EventsInit /\ MarketplaceInit /\ IdentityInit
  /\ IF part = "login" THEN Ready ELSE part # "identity" => guard = Absent
  /\ \/ moves = 1 /\ work = [c \in Collectors |-> Idle]
     \/ moves = 0 /\ part = "growth" /\ work = [c \in Collectors |-> IF c = "c1" THEN Idle ELSE Down]

Next ==
  /\ UNCHANGED part /\ Rest(part)
  /\ \/ part = "growth" /\ GrowthNext
     \/ part = "chat" /\ ChatNext /\ Len(replies'["a"]) <= 3
     \/ part = "talk" /\ ChatNext /\ Talking
     \/ part = "back" /\ ChatNext /\ ComingBack
     \/ part = "events" /\ EventsNext
     \/ part = "market" /\ MarketplaceNext
     \/ part = "identity" /\ IdentityNext /\ Installing
     \/ part = "login" /\ IdentityNext /\ LoggingIn

Spec == Init /\ [][Next]_<<part, growthVars, chatVars, eventVars, marketVars, identityVars>>
=============================================================================
