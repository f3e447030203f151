------------------------------- MODULE Identity -------------------------------
(***************************************************************************)
(* Who a member of the forum is in Pulse.                                  *)
(*                                                                         *)
(* A member comes back from new-api with a signed ticket to a browser that *)
(* has started a login here; the process reckons how long the ticket is    *)
(* still valid, and then a script of Redis uses up ticket and flow.        *)
(* Answer then finds or writes the row that binds the account to a member. *)
(* The row is Answer's; columns, indexes and triggers that the plugin adds *)
(* (the guard) keep it one to one and unchanged.  They are installed one   *)
(* after another while Answer goes on writing, by any number of processes  *)
(* that take turns (GET_LOCK) and may die in between.                      *)
(*                                                                         *)
(* Left out: a row of the guard's table for another provider; clocks that  *)
(* differ between processes, and parts of a millisecond; the status of a   *)
(* member, which CommunityTickets has.                                     *)
(***************************************************************************)
EXTENDS Integers, Sequences, FiniteSets, SequencesExt

CONSTANTS
  Members,      (* accounts of the forum                                   *)
  PulseIds,     (* canonical ids of accounts of new-api                    *)
  BadIds,       (* values of external_id that are not canonical            *)
  Tickets,      (* what new-api signs: [id, issued]                        *)
  Callbacks, Installers, TicketTTL, FlowTTL,
  LastTick, MaxRows, MaxFlows  (* bounds                                   *)

ASSUME IdentityAssumption ==
  /\ PulseIds \cap BadIds = {} /\ \A t \in Tickets : t.id \in PulseIds /\ t.issued \in Nat
  /\ TicketTTL \in Nat \ {0} /\ FlowTTL \in Nat \ {0} /\ LastTick \in Nat /\ MaxRows \in Nat /\ MaxFlows \in Nat

VARIABLES
  tick,       (* the time                                                  *)
  bindings,   (* user_external_login: rows [row, member, id]               *)
  guard,      (* each object of the guard: absent, good, or odd            *)
  installer,  (* where each process is in Ensure                           *)
  flows,      (* Redis: when each flow that was begun expires              *)
  nonces,     (* Redis: when the memory of each used ticket expires        *)
  callback,   (* the requests that came back from new-api                  *)
  admitted,   (* the tickets and flows that Redis accepted, and when       *)
  sessions,   (* <<member, id>>: who was signed in as whom                 *)
  answered    (* <<member, id>>: what CommunityIdentity has returned       *)

identityVars == <<tick, bindings, guard, installer, flows, nonces, callback, admitted, sessions, answered>>

Objects == <<"external_column", "user_column", "external_index", "user_index",
             "insert_trigger", "update_trigger", "delete_trigger">>
Absent  == [o \in ToSet(Objects) |-> "absent"]

(* The guard is new, or left by a former version of the plugin.            *)
IdentityInit ==
  /\ tick = 0 /\ bindings = {}
  /\ guard \in {Absent} \cup {[Absent EXCEPT ![o] = "odd"] : o \in ToSet(Objects)}
               \cup {[o \in ToSet(Objects) |-> "good"]}
  /\ installer = [p \in Installers |-> 0]
  /\ flows = <<>> /\ nonces = [t \in Tickets |-> 0]
  /\ callback = [c \in Callbacks |-> [pc |-> "idle"]]
  /\ admitted = <<>> /\ sessions = {} /\ answered = {}
-----------------------------------------------------------------------------
(* The rows, as far as the guard that stands lets Answer write them.       *)

Good(o) == guard[o] = "good"
Unique(rows, field) == \A x, y \in rows : x[field] = y[field] => x = y
Writable(rows) == (Good("external_index") => Unique(rows, "id")) /\ (Good("user_index") => Unique(rows, "member"))

(* Mutant: the trigger compares the account but not the member.            *)
SameAccount(old, new) == old.id = new.id

(* The trigger for updates lets through what leaves the binding alone.     *)
Unchanged(old, new) == old = new

Put(m, x) ==
  /\ Good("insert_trigger") => x \notin BadIds
  /\ \E r \in 1 .. MaxRows :
       /\ \A y \in bindings : y.row # r
       /\ bindings' = bindings \cup {[row |-> r, member |-> m, id |-> x]} /\ Writable(bindings')

NotTheRows == <<tick, guard, installer, flows, nonces, callback, admitted, sessions, answered>>

Insert(m, x) == Put(m, x) /\ UNCHANGED NotTheRows

Update(old, m, x) ==
  LET new == [old EXCEPT !.member = m, !.id = x] IN
  /\ Good("update_trigger") => Unchanged(old, new)
  /\ bindings' = (bindings \ {old}) \cup {new} /\ Writable(bindings')
  /\ UNCHANGED NotTheRows

Delete(old) ==
  /\ ~Good("delete_trigger") /\ bindings' = bindings \ {old}
  /\ UNCHANGED NotTheRows
-----------------------------------------------------------------------------
(* Ensure: a scan, the objects one after another, and a scan again.        *)

Safe == /\ \A x \in bindings : x.id \notin BadIds
        /\ Unique(bindings, "id") /\ Unique(bindings, "member")

Ready == \A o \in ToSet(Objects) : Good(o)

Inspection == Len(Objects) + 2
Holding(p) == installer[p] \in 1 .. Inspection
Goto(p, step) == installer' = [installer EXCEPT ![p] = step]
Rows == <<tick, bindings, flows, nonces, callback, admitted, sessions, answered>>

(* GET_LOCK, and the first scan.                                           *)
StartEnsure(p) ==
  /\ installer[p] = 0 /\ \A q \in Installers : ~Holding(q)
  /\ Safe /\ Goto(p, 1) /\ UNCHANGED <<guard, Rows>>

(* An object that is absent is made, an odd one ends the installation, and *)
(* so does an index that the rows do not allow.                            *)
EnsureObject(p) ==
  /\ installer[p] \in DOMAIN Objects
  /\ LET o == Objects[installer[p]]
         allowed == CASE o = "external_index" -> Unique(bindings, "id")
                      [] o = "user_index" -> Unique(bindings, "member")
                      [] OTHER -> TRUE
     IN IF Good(o) THEN Goto(p, installer[p] + 1) /\ UNCHANGED guard
        ELSE IF guard[o] = "absent" /\ allowed
        THEN guard' = [guard EXCEPT ![o] = "good"] /\ Goto(p, installer[p] + 1)
        ELSE Goto(p, 0) /\ UNCHANGED guard
  /\ UNCHANGED Rows

(* The scan again, then the inspection; only then the process serves.      *)
Rescan(p) ==
  /\ installer[p] = Len(Objects) + 1
  /\ Goto(p, IF Safe THEN Inspection ELSE 0) /\ UNCHANGED <<guard, Rows>>
Serve(p) ==
  /\ installer[p] = Inspection
  /\ Goto(p, IF Ready THEN Inspection + 1 ELSE 0) /\ UNCHANGED <<guard, Rows>>

(* The process or its connection dies; what it has made stays.             *)
Die(p) == installer[p] # 0 /\ Goto(p, 0) /\ UNCHANGED <<guard, Rows>>

Serving == \E p \in Installers : installer[p] = Inspection + 1
-----------------------------------------------------------------------------
(* The login.                                                              *)

Pass == tick < LastTick /\ tick' = tick + 1
        /\ UNCHANGED <<bindings, guard, installer, flows, nonces, callback, admitted, sessions, answered>>

(* ConnectorSender, Begin: a fresh flow in Redis and in a cookie.          *)
Begin ==
  /\ Serving /\ Len(flows) < MaxFlows /\ flows' = Append(flows, tick + FlowTTL)
  /\ UNCHANGED <<tick, bindings, guard, installer, nonces, callback, admitted, sessions, answered>>

At(c, state) == callback' = [callback EXCEPT ![c] = state]
Expiry(t)    == t.issued + TicketTTL
Alive(end)   == tick < end

(* ConnectorReceiver: the ticket is genuine and its age within the limit,  *)
(* the guard is ready.                                                     *)
Authenticate(c, f, t) ==
  /\ Serving /\ Ready /\ callback[c].pc = "idle"
  /\ tick <= Expiry(t) /\ t.issued - tick <= TicketTTL
  /\ At(c, [pc |-> "consume", flow |-> f, ticket |-> t])
  /\ UNCHANGED <<tick, bindings, guard, installer, flows, nonces, admitted, sessions, answered>>

(* Consume: the process reckons how long the ticket is still valid.        *)
Consume(c) ==
  LET t == callback[c].ticket IN
  /\ callback[c].pc = "consume"
  /\ At(c, IF Alive(Expiry(t))
           THEN [pc |-> "redeem", flow |-> callback[c].flow, ticket |-> t, ttl |-> Expiry(t) - tick]
           ELSE [pc |-> "idle"])
  /\ UNCHANGED <<tick, bindings, guard, installer, flows, nonces, admitted, sessions, answered>>

(* The script, whenever it runs: it knows no time but its own, and         *)
(* remembers the ticket from now on for as long as it was told.  Its       *)
(* answer may be lost.                                                     *)
Redeem(c) ==
  LET f == callback[c].flow  t == callback[c].ticket IN
  /\ callback[c].pc = "redeem"
  /\ IF Alive(flows[f]) /\ ~Alive(nonces[t])
     THEN /\ flows' = [flows EXCEPT ![f] = 0] /\ nonces' = [nonces EXCEPT ![t] = tick + callback[c].ttl]
          /\ admitted' = Append(admitted, [ticket |-> t, flow |-> f, at |-> tick])
          /\ At(c, [pc |-> "signin", id |-> t.id]) \/ At(c, [pc |-> "idle"])
     ELSE At(c, [pc |-> "idle"]) /\ UNCHANGED <<flows, nonces, admitted>>
  /\ UNCHANGED <<tick, bindings, guard, installer, sessions, answered>>

(* Answer signs in the member that the account is bound to, or binds it to *)
(* a member, which may fail.                                               *)
SignIn(c) ==
  LET x == callback[c].id  known == {y \in bindings : y.id = x} IN
  /\ callback[c].pc = "signin" /\ At(c, [pc |-> "idle"])
  /\ \/ \E y \in known : sessions' = sessions \cup {<<y.member, x>>} /\ UNCHANGED bindings
     \/ known = {} /\ \E m \in Members : Put(m, x) /\ sessions' = sessions \cup {<<m, x>>}
     \/ known = {} /\ UNCHANGED <<bindings, sessions>>
  /\ UNCHANGED <<tick, guard, installer, flows, nonces, admitted, answered>>

(* CommunityIdentity: the guard, once ready, stays, so that its inspection *)
(* and the query are one step.  Two rows or a bad id are an error.         *)
CommunityIdentity(m) ==
  LET own == {y \in bindings : y.member = m} IN
  /\ Serving /\ Ready /\ Cardinality(own) = 1
  /\ \E y \in own : y.id \in PulseIds /\ answered' = answered \cup {<<m, y.id>>}
  /\ UNCHANGED <<tick, bindings, guard, installer, flows, nonces, callback, admitted, sessions>>

IdentityNext ==
  \/ \E m \in Members, x \in PulseIds \cup BadIds : Insert(m, x) \/ \E old \in bindings : Update(old, m, x)
  \/ \E old \in bindings : Delete(old)
  \/ \E p \in Installers : StartEnsure(p) \/ EnsureObject(p) \/ Rescan(p) \/ Serve(p) \/ Die(p)
  \/ Pass \/ Begin
  \/ \E c \in Callbacks :
       Consume(c) \/ Redeem(c) \/ SignIn(c) \/ \E f \in DOMAIN flows, t \in Tickets : Authenticate(c, f, t)
  \/ \E m \in Members : CommunityIdentity(m)

IdentitySpec == IdentityInit /\ [][IdentityNext]_identityVars
-----------------------------------------------------------------------------
OneToOne(relation) == \A x, y \in relation : x[1] = y[1] <=> x[2] = y[2]

(* Whatever Answer wrote before and while the guard was installed, however *)
(* often the installation was cut off, and however callbacks were repeated *)
(* or raced: a member is told one account for all time, an account speaks  *)
(* for one member, who signed in with its ticket; a flow is accepted once, *)
(* and a ticket once for as long as it is valid.  A script that is delayed *)
(* may accept it again when it is not valid any more.                      *)
IdentityHolds ==
  /\ OneToOne(answered \cup sessions)
  /\ \A i, j \in DOMAIN admitted : i < j =>
       /\ admitted[i].flow # admitted[j].flow
       /\ admitted[i].ticket = admitted[j].ticket => Expiry(admitted[j].ticket) <= admitted[j].at
=============================================================================
